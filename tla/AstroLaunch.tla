------------------------------ MODULE AstroLaunch ------------------------------
(***************************************************************************)
(* Why a workflow is launched once when the watch keeps up and nothing     *)
(* fails: the inductive invariant OnceInv, on top of DependInv. What it    *)
(* is about is which copies are behind the store, and by how much.         *)
(***************************************************************************)
EXTENDS AstroDependents, AstroNotice

\* No edits, lost requests and restarts are left to happen.
Undisturbed ==
  /\ External /\ PromptWatch
  /\ budget["edits"] = 0 /\ budget["faults"] = 0 /\ budget["crashes"] = 0

UpdateCalls == {"count", "read-service", "create-port", "read-engine", "read-endpoint", "launch"}

\* Worker w works on o, the stored version of a and the very object of the cache.
Current(w, a, o) == Fresh(a, o) /\ alias[w] /\ watch[a] = << >>

\* A sync of an Astro that has a phase works on it until it is deleted.
UpdatesCurrent ==
  \A w \in Worker, a \in Key :
    pc[w] \in UpdateCalls /\ holder[w] = a =>
      \A o \in Held(w) :
        Alive(OwnerOf(a, o)) /\ (server[a].deleting \/ Current(w, a, o))

\* The workflow of a was launched, and the owner of the engine is own.
RunFor(a, own) == engines[a] # Nothing /\ engines[a].owner = own /\ engines[a].runs > 0

Result == {"Success", "Wrong"}

\* A sync that is about to launch a workflow is the first one.
NotYetRun ==
  \A w \in Worker, a \in Key :
    pc[w] \in {"read-endpoint", "launch"} /\ holder[w] = a =>
      \A o \in Held(w) : ~RunFor(a, OwnerOf(a, o))

\* The status that a sync is about to write tells of the launch.
WrittenResult ==
  \A w \in Worker, a \in Key :
    pc[w] = "status" /\ holder[w] = a =>
      \A o \in Held(w) :
        Fresh(a, o) /\ RunFor(a, OwnerOf(a, o)) => o.status.phase \in Result

\* Whoever looks at an Astro whose workflow was launched finds a result, or that
\* it is to be deleted.
LaunchKnown ==
  \A a \in Key : \A s \in Stored(a) :
    RunFor(a, OwnerOf(a, s)) =>
      \/ s.deleting
      \/ s.status.phase \in Result
      \/ watch[a] = << >> /\ cache[a] # Nothing /\ cache[a].status.phase \in Result

OnceInv ==
  Undisturbed /\ InSync /\ UpdatesCurrent /\ NotYetRun /\ WrittenResult /\ LaunchKnown /\ LaunchedOnce
=============================================================================
