----------------------------- MODULE AstroDependents -----------------------------
(***************************************************************************)
(* What the properties about Deployments, Services, engines and node ports *)
(* rest on: the inductive invariant DependInv, which says of every copy of *)
(* an Astro and of every place in a sync what is there in the cluster.     *)
(***************************************************************************)
EXTENDS AstroProperties

OwnsDeployment(own, s) == deploys[s] # Nothing /\ deploys[s].owner = own

Started(s) == deploys[s].health # "starting"

OwnsEngine(own, nodes) ==
  /\ engines[own.name] # Nothing
  /\ engines[own.name].owner = own
  /\ engines[own.name].nodes = nodes

Listed(refs, s) == \E i \in 1..Len(refs) : refs[i] = s

RefsBacked(own, status) ==
  /\ \A i \in 1..Len(status.deploymentRef) : OwnsDeployment(own, status.deploymentRef[i])
  /\ \A i \in 1..Len(status.serviceRef) :
       /\ services[status.serviceRef[i]] = own
       /\ Listed(status.deploymentRef, status.serviceRef[i])

EngineBacked(own, status) ==
  /\ status.astermuleRef =>
       /\ status.phase # "Unset"
       /\ OwnsEngine(own, status.serviceRef)
       /\ External => ports[own.name] = own
  /\ status.phase \in {"EngineFailed", "Ready", "Success", "Wrong"} => status.astermuleRef
  /\ External /\ status.phase \in {"Success", "Wrong"} => engines[own.name].runs > 0

PhaseBacked(status) ==
  /\ status.phase # "Unset" => status.nodeNumber = Len(status.deploymentRef)
  /\ status.phase \notin {"Unset", "Initialized"} =>
       \A i \in 1..Len(status.deploymentRef) : Started(status.deploymentRef[i])

\* What a status says of the dependents of its Astro.
Backed(own, status) ==
  RefsBacked(own, status) /\ EngineBacked(own, status) /\ PhaseBacked(status)

\* A copy of the Astro that is stored now tells the truth. No other Astro will
\* have the uid of a copy. syncCreate starts from an object without references.
Good(a, c) ==
  /\ c.uid <= rev[a]
  /\ Alive(OwnerOf(a, c)) => Backed(OwnerOf(a, c), c.status)
  /\ ~c.finalizer /\ ~c.deleting => c.status.deploymentRef = << >> /\ c.status.serviceRef = << >>

\* A copy has a phase only if the store has one.
Recorded(a, c) ==
  c.status.phase # "Unset" /\ Alive(OwnerOf(a, c)) => server[a].status.phase # "Unset"

Stored(a) == {server[a]} \ {Nothing}
Watched(a) == {watch[a][i] : i \in 1..Len(watch[a])} \ {Nothing}
Cached(a) == {cache[a]} \ {Nothing}
Held(w) == {obj[w]} \ {Nothing}

\* refs are the first n of the stars.
FirstOf(refs, stars, n) == Len(refs) = n /\ \A i \in 1..n : refs[i] = stars[i]

\* How far worker w has got with c, the object that it holds.
StarsDone(w, c) ==
  /\ pc[w] = "stars" => /\ idx[w] <= Len(c.stars) + 1
                        /\ FirstOf(c.status.deploymentRef, c.stars, idx[w] - 1)
                        /\ FirstOf(c.status.serviceRef, c.stars, idx[w] - 1)
  /\ pc[w] = "service" => /\ FirstOf(c.status.deploymentRef, c.stars, idx[w])
                          /\ FirstOf(c.status.serviceRef, c.stars, idx[w] - 1)

Counted(w, own, c) ==
  pc[w] = "count" =>
    /\ idx[w] <= Len(c.status.deploymentRef) + 1
    /\ ready[w] < idx[w]
    /\ Alive(own) /\ ready[w] = idx[w] - 1 =>
         \A i \in 1..idx[w] - 1 : Started(c.status.deploymentRef[i])

Progress(w, own, c) ==
  /\ StarsDone(w, c)
  /\ Counted(w, own, c)
  /\ pc[w] = "create-port" /\ Alive(own) => OwnsEngine(own, c.status.serviceRef)
  /\ pc[w] = "read-engine" => c.status.astermuleRef
  /\ pc[w] = "unfinalize" => ~c.finalizer

\* All that syncCreate has to create for an Astro is there.
Deployed(own, c) ==
  /\ c.status.phase = "Initialized"
  /\ c.status.nodeNumber = Len(c.stars)
  /\ \A i \in 1..Len(c.stars) : OwnsDeployment(own, c.stars[i]) /\ services[c.stars[i]] = own

\* The two requests at the end of syncCreate are the only ones between which an
\* object is ahead of the store with its first phase.
FirstPhase(w, a, c) ==
  \/ Recorded(a, c)
  \/ ~alias[w] /\ pc[w] \in {"status", "return", "error"} /\ Deployed(OwnerOf(a, c), c)

SyncGood(w, a, c) ==
  Good(a, c) /\ Progress(w, OwnerOf(a, c), c) /\ FirstPhase(w, a, c)

WorkerGood(w) == \A a \in Key : holder[w] = a => \A c \in Held(w) : SyncGood(w, a, c)

CopiesGood ==
  /\ \A a \in Key : \A c \in Stored(a) : Good(a, c)
  /\ \A a \in Key : \A c \in Watched(a) \cup Cached(a) : Good(a, c) /\ Recorded(a, c)
  /\ \A w \in Worker : WorkerGood(w)

\* An engine was started by a sync of a deployed Astro, from its Services.
EnginesGood ==
  \A a \in Key :
    engines[a] # Nothing =>
      /\ engines[a].owner.uid <= rev[engines[a].owner.name]
      /\ Alive(engines[a].owner) => server[engines[a].owner.name].status.phase # "Unset"

OnePort == \A a, b \in Key : ports[a] # Nothing /\ ports[b] # Nothing => a = b

DependInv == CopiesGood /\ EnginesGood /\ OnePort /\ MicroservicesBeforeEngine
=============================================================================
