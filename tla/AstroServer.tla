------------------------------- MODULE AstroServer -------------------------------
(***************************************************************************)
(* The server process: deploy requests, save requests and calls of the     *)
(* Kubernetes adapters, all at the same time, in one process that can end  *)
(* at any moment and is started again. minio and the cluster stay.         *)
(***************************************************************************)
EXTENDS DeployServer, SaveServer, KubeAdapter

vars == <<requestVars, deployVars, saveVars, adapterVars>>

Init ==
  /\ RequestsInit
  /\ DeployInit
  /\ SaveInit
  /\ AdapterInit

StartListening == Listen /\ UNCHANGED <<deployVars, saveVars, adapterVars>>

InitAdapters == SetAdapter /\ UNCHANGED <<deployVars, saveVars>>

Handle(r) ==
  \/ DeployStep(r) /\ UNCHANGED <<saveVars, adapterVars>>
  \/ SaveStep(r) /\ UNCHANGED <<deployVars, adapterVars>>
  \/ AdapterStep(r) /\ UNCHANGED <<deployVars, saveVars>>

ProcessEnds ==
  /\ RequestsLost
  /\ DeployLost
  /\ AdaptersLost
  /\ UNCHANGED saveVars

RuntimeEnds ==
  /\ \E r \in Request : MapRace(r)
  /\ ProcessEnds

\* A crash or a rollout, while something is being done.
Killed ==
  /\ \E r \in Request : Active(r)
  /\ ProcessEnds

Next ==
  \/ StartListening
  \/ InitAdapters
  \/ \E r \in Request : Handle(r)
  \/ RuntimeEnds
  \/ Killed

Spec == Init /\ [][Next]_vars

-----------------------------------------------------------------------------
(* Properties *)

\* Type invariant.
TypeOK ==
  /\ RequestsTypeOK(Body \cup Save \cup Call, DeployPlaces \cup SavePlaces \cup AdapterPlaces)
  /\ DeployTypeOK
  /\ SaveTypeOK
  /\ AdapterTypeOK

\* What one call of DeployHandler with body b amounts to: the starter it makes,
\* if any, and its answer. Every task has the empty name, so an edge can only be
\* connected when it leads to that name and some task is of the docker type. Any
\* other edge breaks the request off, which is what the code does and not what its
\* comment says: see EdgeIgnored.
Positions(b, kinds) == {i \in 1..Len(b.xml) : b.xml[i] \in kinds}

Has(b, kinds) == Positions(b, kinds) # {}

Connected(b) == ~Has(b, {"edge"}) /\ (Has(b, {"loose-edge"}) => Has(b, {"docker"}))

NodeSet(made, edges) == [name \in (IF made THEN {Unnamed} ELSE {}) |-> edges]

NodesOf(b) == NodeSet(Has(b, {"docker"}), Cardinality(Positions(b, {"loose-edge"})))

Outcome(b) ==
  LET tree == Has(b, {"definitions"}) /\ Has(b, {"process"})
      built == b.flaw = "none" /\ tree /\ Connected(b)
  IN CASE b.flaw # "none" -> [answer |-> "silent", starter |-> NoStarter]
       [] built /\ Has(b, {"id"}) ->
            [answer |-> "success", starter |-> [id |-> Dashed[b.id], nodes |-> NodesOf(b)]]
       [] built /\ ~Has(b, {"id"}) -> [answer |-> "silent", starter |-> NoStarter]
       [] OTHER -> [answer |-> "aborted", starter |-> NoStarter]

\* Document and node set are package variables, yet a deploy request that is
\* handled alone is answered as the code answers its own body, whatever requests
\* before it have left there, broken off or not.
AnsweredAlone ==
  \A r \in Deploys :
    Ended(r) /\ answer[r] # "lost" /\ Alone(r, Deploys)
      => [answer |-> answer[r], starter |-> starter[r]] = Outcome(job[r])

\* The deploy requests that share the package variables with r at some time.
Neighbours(r) == {q \in Deploys : q = r \/ Together(r, q)}

\* A docker task in the body of a neighbour of a neighbour of r.
DockerNear(r) == \E q \in Neighbours(r) : \E s \in Neighbours(q) : Has(job[s], {"docker"})

\* Overlapping deploy requests get each other's ids and nodes, but no older ones: the
\* id that a workflow is started with is in the body of a request that was handled at
\* the same time. A node may come from one request further: a neighbour may have
\* selected the tasks of a document whose request had ended when r began.
StarterFromNeighbours ==
  \A r \in Deploys :
    answer[r] = "success" =>
      /\ \E q \in Neighbours(r) : Has(job[q], {"id"}) /\ starter[r].id = Dashed[job[q].id]
      /\ Unnamed \in DOMAIN starter[r].nodes => DockerNear(r)

\* No object is sent to a bucket that is not there.
BucketBeforeObject ==
  \A r \in Request : at[r] \in {"put", "put-again", "respond"} => HasBucket(job[r].org)

\* A save that is valid and that minio did not fail is refused in one case: another
\* save, at the same time, made the bucket between its two requests.
RefusedOnlyByRace ==
  \A o \in Org : \A r \in Saves(o) :
    answer[r] = "silent" /\ job[r].flaw = "none" /\ r \notin hit
      => HasBucket(o) /\ Together(r, buckets[o])

\* Of the first saves of an organization one gets through, if nothing fails: the
\* race for the bucket has a winner, which goes on.
SomeSaveStored ==
  \A o \in Org :
    LET valid == {r \in Saves(o) : job[r].flaw = "none"} IN
      /\ valid # {}
      /\ \A r \in valid : Ended(r) /\ r \notin hit /\ answer[r] # "lost"
      => \E r \in valid : answer[r] = "success" /\ \E p \in Project : objects[o][p] = r

\* A save that was acknowledged is not undone by one that had ended before it
\* began.
NewestSaveStored ==
  \A o \in Org : \A r \in Saves(o) :
    answer[r] = "success"
      => LET stored == objects[o][job[r].project] IN
           stored # NoRequest /\ stored \notin before[r]

Disturbed(r, n) ==
  r \in hit \/ answer[r] \in {"lost", "aborted"} \/ ~Alone(r, Calls(n))

\* A Deployment without its Service, or a Service without its Deployment, is left
\* only by a call that failed in the middle or that had company.
HalvesExplained ==
  \A n \in Name :
    (n \in deployments) # (ServiceName(n) \in services)
      => \E r \in Calls(n) : Active(r) \/ Disturbed(r, n)

\* An adapter that returns no error has done both of its requests: what it made is
\* there, what it deleted is gone, until somebody else's call changes it.
AnswersTrue ==
  \A n \in Name : \A r \in Calls(n) :
    answer[r] = "success" /\ (\A q \in Calls(n) \ {r} : q \in before[r])
      => IF job[r].op = "create" THEN n \in deployments /\ ServiceName(n) \in services
                                 ELSE n \notin deployments /\ ServiceName(n) \notin services

\* How far a request has got, as far as its client can know or find out.
StageOf(r) ==
  CASE at[r] = "idle" -> "new"
    [] at[r] = "done" -> answer[r]
    [] at[r] \in {"put-again", "respond", "create-service", "delete-service"} -> "made"
    [] OTHER -> "asked"

Promise == INSTANCE ServerPromise
           WITH stage <- [r \in Request |-> StageOf(r)],
                services <- {n \in Name : ServiceName(n) \in services}

\* The server implements ServerPromise: whatever else is being handled, fails or ends,
\* a request stores what it is for between its beginning and its answer and never after
\* it, each half of an adapter's call once, a save as often as it is sent to minio, and
\* none is acknowledged without.
KeepsPromise == Promise!PromiseSpec

-----------------------------------------------------------------------------
(* What the safety properties rest on *)

\* A request that is not idle was made, one with an answer has ended, and so have
\* the ones it found ended. Where it is says what it asks for.
RequestInv ==
  \A r \in Request :
    /\ at[r] = "idle" <=> job[r] = NoJob
    /\ answer[r] # "none" => Ended(r)
    /\ \A q \in before[r] : Ended(q)
    /\ at[r] \in DeployPlaces => job[r] \in Body
    /\ at[r] \in SavePlaces => job[r] \in Save
    /\ at[r] \in AdapterPlaces => job[r] \in Call

\* Pointers are set where they are followed, and only the one assignment that a
\* request is in makes it a writer.
ParserInv ==
  \A r \in Request :
    /\ at[r] \in DeployPlaces \ {"new-map"} => dag # Nobody
    /\ at[r] \in {"tasks", "node", "assign", "edge"} => source[r] # Nobody
    /\ read[r] > 0 => job[r] \in Body
    /\ \A m \in Request : r \in writers[m] => at[r] = "assign" /\ set[r] = m

\* What a deploy request finds in the package variables was put there since it set
\* them: the document holds elements of its neighbours only, the node set what one of
\* them took from a neighbour of its own.
Shared(r) ==
  /\ read[r] > 0 => read[r] <= Len(job[r].xml)
  /\ at[r] \in {"idle", "new-map", "new-document"} => roots[r] = << >> /\ doc # r
  /\ at[r] \in {"open", "elements", "process"} =>
       doc # Nobody /\ \A i \in 1..Len(roots[doc]) : roots[doc][i] \in Neighbours(r)
  /\ at[r] \in DeployPlaces \ {"new-map"} /\ Unnamed \in DOMAIN nodes[dag] => DockerNear(r)
  /\ at[r] \in {"tasks", "node", "assign", "edge"} =>
       /\ source[r] \in Neighbours(r)
       /\ id[r] # "none" => Has(job[source[r]], {"id"}) /\ id[r] = Dashed[job[source[r]].id]
  /\ at[r] \in {"node", "assign"} => todo[r] \subseteq Positions(job[source[r]], Task)
  /\ at[r] = "assign" => Has(job[source[r]], {"docker"})

SharedInv == \A r \in Request : Shared(r)

\* Nothing leads to the node set and to the document that r has not made yet.
Fresh(r) ==
  /\ nodes[r] = EmptySet /\ roots[r] = << >> /\ read[r] = 0
  /\ dag # r /\ doc # r /\ \A q \in Request : set[q] # r

\* How far a deploy request has got that is handled alone: what it has built is what
\* its own body asks for, up to the elements that are left to its loop.
Solo(r) ==
  LET b == job[r]
      left(kinds) == Positions(b, kinds) \cap todo[r]
      past(kinds) == Positions(b, kinds) \ todo[r]
  IN
    /\ b.flaw # "request" /\ read[r] <= Len(b.xml)
    /\ at[r] # "new-map" => dag = r
    /\ at[r] \in {"new-document", "open"} => roots[r] = << >>
    /\ at[r] \in {"new-document", "open", "elements", "process", "tasks"} => nodes[r] = EmptySet
    /\ at[r] \in {"open", "elements", "process"} => doc = r
    /\ at[r] \in {"elements", "process"} => Len(roots[r]) = 1 /\ roots[r][1] = r
    /\ at[r] \in {"process", "tasks", "node", "assign", "edge"} =>
         b.flaw = "none" /\ read[r] = Len(b.xml)
    /\ at[r] \in {"tasks", "node", "assign", "edge"} =>
         /\ source[r] = r /\ Has(b, {"definitions"}) /\ Has(b, {"process"})
         /\ id[r] = IF Has(b, {"id"}) THEN Dashed[b.id] ELSE "none"
    /\ at[r] \in {"node", "assign"} => todo[r] = left(Task)
    /\ at[r] = "node" => nodes[r] = NodeSet(past({"docker"}) # {}, 0)
    /\ at[r] = "assign" =>
         set[r] = r /\ past({"docker"}) # {} /\ \E made \in BOOLEAN : nodes[r] = NodeSet(made, 0)
    /\ at[r] = "edge" =>
         /\ todo[r] = left(Flow)
         /\ nodes[r] = NodeSet(Has(b, {"docker"}), Cardinality(past({"loose-edge"})))
         /\ past({"edge"}) = {} /\ (past({"loose-edge"}) # {} => Has(b, {"docker"}))

SoloInv ==
  \A r \in Request :
    /\ at[r] \in {"idle", "new-map"} => Fresh(r)
    /\ answer[r] # "success" => starter[r] = NoStarter
    /\ job[r] \in Body /\ Active(r) /\ Alone(r, Deploys) => Solo(r)

StoredSince(r) ==
  LET stored == objects[job[r].org][job[r].project] IN
    stored # NoRequest /\ stored \notin before[r]

\* A bucket that is there when a handler makes it was made since it looked.
SaveInv ==
  \A r \in Request :
    /\ at[r] = "make" /\ HasBucket(job[r].org) => Together(r, buckets[job[r].org])
    /\ at[r] = "respond" => StoredSince(r)

\* The save that made a bucket, or stored an object, goes on to the end, unless minio
\* or the process fails it.
GoesOn(r, o, places) ==
  /\ r \in Saves(o) /\ job[r].flaw = "none"
  /\ at[r] \in places \/ answer[r] \in {"success", "lost"} \/ r \in hit

WinnerInv ==
  \A o \in Org :
    /\ \A r \in Saves(o) :
         /\ at[r] \in {"make", "put", "put-again", "respond"} => job[r].flaw = "none"
         /\ Ended(r) => answer[r] \in {"success", "silent", "lost"}
    /\ HasBucket(o) => GoesOn(buckets[o], o, {"put", "put-again", "respond"})
    /\ \A p \in Project :
         objects[o][p] # NoRequest => GoesOn(objects[o][p], o, {"put-again", "respond"})

\* No other call for the same name since r began.
Undisputed(r, n) == \A q \in Calls(n) \ {r} : q \in before[r]

Calm(n) == \A r \in Calls(n) : ~Disturbed(r, n)

\* A call is where calls of its kind get.
OpInv ==
  \A r \in Request :
    /\ at[r] \in {"create-deployment", "create-service"} => job[r].op = "create"
    /\ at[r] \in {"delete-deployment", "delete-service"} => job[r].op = "delete"

\* Where a call has got to says which half it has done, if nothing came between.
AdapterInv ==
  \A n \in Name :
    /\ \A r \in Calls(n) : Undisputed(r, n) =>
         /\ at[r] = "create-service" => n \in deployments
         /\ at[r] = "delete-service" => n \notin deployments
    /\ Calm(n) =>
         /\ \A r \in Calls(n) :
              /\ at[r] = "create-service" => n \in deployments /\ ServiceName(n) \notin services
              /\ at[r] = "delete-service" => n \notin deployments /\ ServiceName(n) \in services
         /\ \/ \E r \in Calls(n) : at[r] \in {"create-service", "delete-service"}
            \/ n \in deployments <=> ServiceName(n) \in services

\* The inductive invariant.
IInv ==
  /\ TypeOK /\ RequestInv
  /\ ParserInv /\ SharedInv /\ StarterFromNeighbours
  /\ SoloInv /\ AnsweredAlone
  /\ SaveInv /\ BucketBeforeObject /\ RefusedOnlyByRace /\ NewestSaveStored
  /\ WinnerInv
  /\ OpInv /\ AdapterInv /\ AnswersTrue

-----------------------------------------------------------------------------
(* A statement of the repository that the code does not keep *)

\* The comment in buildFlow: an edge is ignored as long as one of its ends does not
\* exist. So no edge would break off a request that is handled alone.
EdgeIgnored ==
  \A r \in Deploys :
    Alone(r, Deploys) /\ Has(job[r], {"definitions"}) /\ Has(job[r], {"process"})
      => answer[r] # "aborted"
=============================================================================
