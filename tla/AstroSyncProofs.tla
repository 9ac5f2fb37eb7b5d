---------------------------- MODULE AstroSyncProofs ----------------------------
(***************************************************************************)
(* For any Astros, stars, workers and limits: the requests of a sync keep  *)
(* DependInv, and so the references of an Astro name what this very Astro  *)
(* owns, microservices are there before the engine, and, in external mode, *)
(* a result takes a launch.                                                *)
(***************************************************************************)
EXTENDS AstroDependentProofs

-----------------------------------------------------------------------------
(* The two writes at the end of syncCreate *)

LEMMA CreatedStatus ==
  ASSUME NEW t \in Status, NEW n \in Nat
  PROVE  \E s \in Status :
           /\ s = [t EXCEPT !.phase = "Initialized", !.readyNodeNumber = 0, !.nodeNumber = n]
           /\ s.phase = "Initialized" /\ s.nodeNumber = n
           /\ s.deploymentRef = t.deploymentRef /\ s.serviceRef = t.serviceRef
           /\ s.astermuleRef = t.astermuleRef
<1> DEFINE s == [t EXCEPT !.phase = "Initialized", !.readyNodeNumber = 0, !.nodeNumber = n]
<1>1. s \in Status
  BY DEF Status, Phase
<1>2. /\ s.phase = "Initialized" /\ s.nodeNumber = n
      /\ s.deploymentRef = t.deploymentRef /\ s.serviceRef = t.serviceRef
      /\ s.astermuleRef = t.astermuleRef
  BY DEF Status
<1> QED BY <1>1, <1>2

\* The status that says that everything is there, when it is.
LEMMA CreatedBacked ==
  ASSUME NEW own, NEW t \in Status, NEW s \in Status, Backed(own, t)', t.phase = "Unset",
         s.phase = "Initialized", s.nodeNumber = Len(t.deploymentRef),
         s.deploymentRef = t.deploymentRef, s.serviceRef = t.serviceRef,
         s.astermuleRef = t.astermuleRef
  PROVE  Backed(own, s)'
<1>1. ~s.astermuleRef
  BY DEF Backed, EngineBacked
<1>2. RefsBacked(own, s)'
  BY DEF Backed, RefsBacked
<1> QED BY <1>1, <1>2 DEF Backed, EngineBacked, PhaseBacked

LEMMA UpdateAstroGood ==
  ASSUME StepFacts, CopiesGood, NEW w \in Worker, UpdateAstro(w)
  PROVE  WorkerGood(w)'
<1>1. pc[w] = "stars" /\ pc[w] \in Calls /\ holder' = holder /\ PhaseAt("stars") = {"Unset"}
  BY DEF UpdateAstro, workVars, Calls, PhaseAt
<1>2. CASE Fail(w)
  BY <1>1, <1>2, FailGood
<1>3. PICK a \in Key, o \in Astro, own \in Owner :
        /\ a = holder[w] /\ o = obj[w] /\ own = OwnerOf(a, o)
        /\ own.name = a /\ own.uid = o.uid
        /\ SyncGood(w, a, o) /\ CopyOK(a, o) /\ o.finalizer
        /\ Alive(own) => Backed(own, o.status)
  BY <1>1, MyCopy
<1>4. /\ o.status \in Status /\ o.status.phase = "Unset" /\ o.finalizer = TRUE
      /\ o.stars \in Seq(Star) /\ o.status.deploymentRef \in Seq(Star)
      /\ Len(o.stars) \in Nat /\ Len(o.status.deploymentRef) \in Nat
  BY <1>1, <1>3, AstroFields, FactTypes, HeldFacts, LenProperties
<1>5. PICK s \in Status :
        /\ s = [o.status EXCEPT !.phase = "Initialized", !.readyNodeNumber = 0,
                  !.nodeNumber = Len(o.status.deploymentRef)]
        /\ s.phase = "Initialized" /\ s.nodeNumber = Len(o.status.deploymentRef)
        /\ s.deploymentRef = o.status.deploymentRef /\ s.serviceRef = o.status.serviceRef
        /\ s.astermuleRef = o.status.astermuleRef
  BY <1>4, CreatedStatus
<1>6. CASE /\ Update(a, o)
           /\ obj' = [obj EXCEPT ![w] = [server'[a] EXCEPT !.status = s]]
           /\ alias' = [alias EXCEPT ![w] = FALSE]
           /\ GoTo(w, IF server'[a].status = s THEN "return" ELSE "status")
  <2>1. /\ Exists(a) /\ server[a] \in Astro /\ o.uid = server[a].uid /\ o.stars = server[a].stars
        /\ Alive(own)
    BY <1>3, <1>6, FactTypes DEF Update, Fresh, StoreInv, Exists, CopyOK, Alive
  <2>2. PICK v \in Astro :
          /\ v = [server[a] EXCEPT !.finalizer = o.finalizer] /\ v.finalizer = TRUE
          /\ v.uid = server[a].uid /\ v.stars = server[a].stars
    BY <1>4, <2>1, NewFinalizer
  <2>3. Store(a, v)
    BY <1>4, <1>6, <2>2 DEF Update
  <2>4. /\ server'[a] \in Astro /\ server'[a].uid = o.uid /\ server'[a].stars = o.stars
        /\ server'[a].finalizer = TRUE
    <3>1. v.status.phase # "Unset" => v.finalizer
      BY <2>2
    <3>2. /\ server'[a] \in Astro /\ server'[a].uid = v.uid /\ server'[a].stars = v.stars
          /\ server'[a].finalizer = v.finalizer
      BY <2>3, <3>1, FactTypes, StoreKeeps
    <3> QED BY <2>1, <2>2, <3>2
  <2>5. PICK c \in Astro :
          /\ c = [server'[a] EXCEPT !.status = s] /\ c.status = s
          /\ c.uid = o.uid /\ c.stars = o.stars /\ c.finalizer = TRUE
    BY <2>4, NewStatus
  <2>6. obj'[w] = c /\ holder'[w] = a /\ alias'[w] = FALSE /\ pc'[w] \in {"status", "return"}
    BY <1>1, <1>3, <1>6, <2>5 DEF GoTo, StepFacts, CopyInv, CopyTypes
  <2>7. Backed(own, s)'
    <3>1. Backed(own, o.status)'
      BY <1>3, <1>4, <2>1, BackedKept
    <3> QED BY <1>4, <1>5, <3>1, CreatedBacked
  <2>8. OwnerOf(a, c) = own
    BY <1>3, <2>5 DEF OwnerOf
  <2>9. Good(a, c)'
    <3>1. c.uid <= rev'[a]
      BY <1>3, <2>5, GoodKept DEF SyncGood, Good
    <3> QED BY <2>5, <2>7, <2>8, <3>1 DEF Good
  <2>10. Deployed(own, c)'
    <3>1. /\ FirstOf(o.status.deploymentRef, o.stars, Len(o.stars))
          /\ FirstOf(o.status.serviceRef, o.stars, Len(o.stars))
      <4>1. idx[w] \in Nat /\ idx[w] <= Len(o.stars) + 1 /\ ~(idx[w] <= Len(o.stars))
        BY <1>1, <1>3
        DEF SyncGood, Progress, StarsDone, UpdateAstro, StarsLeft, StepFacts, RestInv, PositionInv
      <4>2. idx[w] - 1 = Len(o.stars)
        BY <1>4, <4>1
      <4> QED BY <1>1, <1>3, <4>2 DEF SyncGood, Progress, StarsDone
    <3>2. c.status.phase = "Initialized" /\ c.status.nodeNumber = Len(c.stars)
      BY <1>5, <2>5, <3>1 DEF FirstOf
    <3>3. \A i \in 1..Len(c.stars) : OwnsDeployment(own, c.stars[i])' /\ services'[c.stars[i]] = own
      BY <1>5, <2>5, <2>7, <3>1 DEF FirstOf, Backed, RefsBacked, OwnsDeployment
    <3> QED BY <3>2, <3>3 DEF Deployed, OwnsDeployment
  <2>11. FirstPhase(w, a, c)'
    BY <2>6, <2>8, <2>10 DEF FirstPhase
  <2>12. Progress(w, OwnerOf(a, c), c)'
    BY <2>6 DEF Progress, StarsDone, Counted
  <2>13. SyncGood(w, a, c)'
    BY <2>9, <2>11, <2>12 DEF SyncGood
  <2> QED BY <2>6, <2>13 DEF WorkerGood, Held
<1> QED BY <1>2, <1>3, <1>5, <1>6 DEF UpdateAstro, ReplyLost

LEMMA WriteGood ==
  ASSUME StepFacts, CopiesGood, NEW w \in Worker, WriteStatus(w) \/ RemoveFinalizer(w)
  PROVE  WorkerGood(w)'
<1>1. holder' = holder
  BY DEF WriteStatus, RemoveFinalizer, workVars
<1>2. CASE GoTo(w, "return") /\ Same
  BY <1>1, <1>2, StaysGood DEF Restful
<1> QED BY <1>1, <1>2, FailGood DEF WriteStatus, RemoveFinalizer, ReplyLost

\* The reads that change nothing in the object, and failures.
LEMMA ReadGood ==
  ASSUME StepFacts, CopiesGood, NEW w \in Worker,
         ReadService(w) \/ ReadEndpoint(w) \/ CallFails(w)
  PROVE  WorkerGood(w)'
<1>1. holder' = holder
  BY DEF ReadService, ReadEndpoint, CallFails, workVars
<1>2. CASE Fail(w)
  BY <1>1, <1>2, FailGood
<1>3. ASSUME NEW label \in {"launch", "read-service"}, GoTo(w, label), Same,
             pc[w] \in {"read-service", "read-endpoint"}
      PROVE  WorkerGood(w)'
  BY <1>1, <1>3, StaysGood DEF Restful, Calls
<1> QED
  BY <1>2, <1>3 DEF ReadService, ReadEndpoint, CallFails, ReplyLost, NextTurn

-----------------------------------------------------------------------------
(* syncUpdate *)

LEMMA CountDeploymentGood ==
  ASSUME StepFacts, CopiesGood, NEW w \in Worker, CountDeployment(w)
  PROVE  WorkerGood(w)'
<1>1. pc[w] = "count" /\ pc[w] \in Calls /\ holder' = holder /\ UNCHANGED clusterVars
  BY DEF CountDeployment, workVars, Calls
<1>2. CASE Fail(w)
  BY <1>1, <1>2, FailGood
<1>3. PICK a \in Key, o \in Astro, own \in Owner :
        /\ a = holder[w] /\ o = obj[w] /\ own = OwnerOf(a, o)
        /\ SyncGood(w, a, o) /\ Recorded(a, o)
  BY <1>1, MyCopy
<1> DEFINE refs == o.status.deploymentRef
           d == deploys[refs[idx[w]]]
<1>4. CASE /\ ready' = [ready EXCEPT ![w] = IF d.health = "available" THEN @ + 1 ELSE @]
           /\ NextTurn(w, "count")
           /\ Same
  <2>1. /\ obj'[w] = o /\ holder'[w] = a /\ pc'[w] = "count" /\ idx'[w] = idx[w] + 1
        /\ ready'[w] = IF d.health = "available" THEN ready[w] + 1 ELSE ready[w]
    BY <1>1, <1>3, <1>4
    DEF NextTurn, GoTo, Same, StepFacts, CopyInv, CopyTypes, RestInv, PositionInv
  <2>2. /\ idx[w] \in Nat /\ ready[w] \in Nat /\ Len(refs) \in Nat /\ idx[w] <= Len(refs)
        /\ ready[w] < idx[w]
        /\ Alive(own) /\ ready[w] = idx[w] - 1 => \A i \in 1..idx[w] - 1 : Started(refs[i])
    BY <1>1, <1>3, AstroFields, LenProperties
    DEF SyncGood, Progress, Counted, CountDeployment, Left, StepFacts, RestInv, PositionInv
  <2>3. ASSUME ready'[w] = idx'[w] - 1
        PROVE  ready[w] = idx[w] - 1 /\ Started(refs[idx[w]])
    <3>1. CASE d.health = "available"
      <4>1. ready'[w] = ready[w] + 1
        BY <2>1, <3>1
      <4>2. ready[w] = idx[w] - 1
        BY <2>1, <2>2, <2>3, <4>1
      <4> QED BY <3>1, <4>2 DEF Started
    <3>2. CASE d.health # "available"
      <4>1. ready'[w] = ready[w]
        BY <2>1, <3>2
      <4> QED BY <2>1, <2>2, <2>3, <4>1
    <3> QED BY <3>1, <3>2
  <2>4. Alive(own)' = Alive(own) /\ deploys' = deploys
    BY <1>1 DEF clusterVars, Alive, Exists
  <2>5. ASSUME Alive(own)', ready'[w] = idx'[w] - 1, NEW i \in 1..idx'[w] - 1
        PROVE  Started(refs[i])'
    <3>1. Started(refs[i])
      <4>1. ready[w] = idx[w] - 1 /\ Started(refs[idx[w]])
        BY <2>3, <2>5
      <4>2. i = idx[w] \/ i \in 1..idx[w] - 1
        BY <2>1, <2>2
      <4>3. i \in 1..idx[w] - 1 => Started(refs[i])
        BY <2>2, <2>4, <2>5, <4>1
      <4> QED BY <4>1, <4>2, <4>3
    <3> QED BY <2>4, <3>1 DEF Started
  <2>6. idx'[w] <= Len(refs) + 1 /\ ready'[w] < idx'[w]
    BY <2>1, <2>2
  <2> HIDE DEF refs
  <2>7. Counted(w, own, o)'
    BY <2>5, <2>6 DEF Counted, refs
  <2>8. Progress(w, OwnerOf(a, o), o)'
    BY <1>3, <2>1, <2>7 DEF Progress, StarsDone
  <2>9. SyncGood(w, a, o)'
    BY <1>3, <2>8, GoodKept DEF SyncGood, FirstPhase
  <2> QED BY <2>1, <2>9 DEF WorkerGood, Held
<1> QED BY <1>2, <1>3, <1>4 DEF CountDeployment

LEMMA CountStatus ==
  ASSUME NEW t \in Status, NEW n \in Nat, NEW p \in Phase
  PROVE  \E s \in Status :
           /\ s = [t EXCEPT !.readyNodeNumber = n, !.phase = p]
           /\ s.phase = p /\ s.nodeNumber = t.nodeNumber
           /\ s.deploymentRef = t.deploymentRef /\ s.serviceRef = t.serviceRef
           /\ s.astermuleRef = t.astermuleRef
<1> DEFINE s == [t EXCEPT !.readyNodeNumber = n, !.phase = p]
<1>1. s \in Status
  BY DEF Status
<1>2. /\ s.phase = p /\ s.nodeNumber = t.nodeNumber
      /\ s.deploymentRef = t.deploymentRef /\ s.serviceRef = t.serviceRef
      /\ s.astermuleRef = t.astermuleRef
  BY DEF Status
<1> QED BY <1>1, <1>2

LEMMA PhaseStatus ==
  ASSUME NEW t \in Status, NEW p \in Phase
  PROVE  \E s \in Status :
           /\ s = [t EXCEPT !.phase = p]
           /\ s.phase = p /\ s.nodeNumber = t.nodeNumber
           /\ s.deploymentRef = t.deploymentRef /\ s.serviceRef = t.serviceRef
           /\ s.astermuleRef = t.astermuleRef
<1> DEFINE s == [t EXCEPT !.phase = p]
<1>1. s \in Status
  BY DEF Status
<1>2. /\ s.phase = p /\ s.nodeNumber = t.nodeNumber
      /\ s.deploymentRef = t.deploymentRef /\ s.serviceRef = t.serviceRef
      /\ s.astermuleRef = t.astermuleRef
  BY DEF Status
<1> QED BY <1>1, <1>2

LEMMA EngineStatus ==
  ASSUME NEW t \in Status
  PROVE  \E s \in Status :
           /\ s = [t EXCEPT !.astermuleRef = TRUE]
           /\ s.phase = t.phase /\ s.nodeNumber = t.nodeNumber
           /\ s.deploymentRef = t.deploymentRef /\ s.serviceRef = t.serviceRef
           /\ s.astermuleRef = TRUE
<1> DEFINE s == [t EXCEPT !.astermuleRef = TRUE]
<1>1. s \in Status
  BY DEF Status
<1>2. /\ s.phase = t.phase /\ s.nodeNumber = t.nodeNumber
      /\ s.deploymentRef = t.deploymentRef /\ s.serviceRef = t.serviceRef
      /\ s.astermuleRef = TRUE
  BY DEF Status
<1> QED BY <1>1, <1>2

\* A status with another phase, or an engine, is as true as the one before.
LEMMA PhaseStaysBacked ==
  ASSUME NEW own, NEW t \in Status, NEW s \in Status, Backed(own, t)',
         t.phase # "Unset", s.phase # "Unset",
         s.nodeNumber = t.nodeNumber, s.deploymentRef = t.deploymentRef,
         s.serviceRef = t.serviceRef,
         s.astermuleRef /\ ~t.astermuleRef =>
           OwnsEngine(own, t.serviceRef)' /\ (External => ports'[own.name] = own),
         s.phase \in {"EngineFailed", "Ready", "Success", "Wrong"} => s.astermuleRef,
         External /\ s.phase \in {"Success", "Wrong"} => engines'[own.name].runs > 0,
         s.phase # "Initialized" =>
           \/ t.phase # "Initialized"
           \/ \A i \in 1..Len(t.deploymentRef) : Started(t.deploymentRef[i])'
  PROVE  Backed(own, s)'
<1>1. RefsBacked(own, s)'
  BY DEF Backed, RefsBacked
<1>2. EngineBacked(own, s)'
  BY DEF Backed, EngineBacked
<1>3. PhaseBacked(s)'
  BY DEF Backed, PhaseBacked, Started
<1> QED BY <1>1, <1>2, <1>3 DEF Backed

LEMMA CountDoneGood ==
  ASSUME StepFacts, CopiesGood, NEW w \in Worker, CountDone(w)
  PROVE  WorkerGood(w)'
<1>1. /\ pc[w] = "count" /\ pc[w] \in Calls \ {"status", "unfinalize"} /\ holder' = holder
      /\ UNCHANGED clusterVars /\ PhaseAt("count") = {"Initialized"}
  BY DEF CountDone, workVars, Calls, PhaseAt
<1>2. PICK a \in Key, o \in Astro, own \in Owner :
        /\ a = holder[w] /\ o = obj[w] /\ own = OwnerOf(a, o) /\ own = Self(w)
        /\ SyncGood(w, a, o)
        /\ Alive(own)' => Alive(own)
        /\ Alive(own) => Backed(own, o.status)
  BY <1>1, MyCopy
<1>3. PICK p \in Phase, n \in Nat :
        p = (IF AllReady(w) THEN "Waited" ELSE o.status.phase) /\ n = ready[w]
  BY AstroFields DEF StepFacts, RestInv, PositionInv, Phase
<1>4. o.status \in Status /\ o.status.phase = "Initialized"
  BY <1>1, <1>2, AstroFields, FactTypes, HeldFacts
<1>t. PICK t \in Status : t = o.status
  BY <1>4
<1>5. PICK s \in Status :
        /\ s = [t EXCEPT !.readyNodeNumber = n, !.phase = p]
        /\ s.phase = p /\ s.nodeNumber = t.nodeNumber
        /\ s.deploymentRef = t.deploymentRef /\ s.serviceRef = t.serviceRef
        /\ s.astermuleRef = t.astermuleRef
  <2>1. p \in Phase
    BY <1>3
  <2>2. n \in Nat
    BY <1>3
  <2>3. t \in Status
    BY <1>t
  <2> QED BY <2>1, <2>2, <2>3, CountStatus, Zenon
<1>6. SyncStatus(w, s)
  BY <1>2, <1>3, <1>t, <1>5 DEF CountDone
<1>7. ASSUME Alive(own)' PROVE Backed(own, s)'
  <2>1. Alive(own) /\ Backed(own, o.status) /\ Backed(own, o.status)'
    BY <1>2, <1>4, <1>7, BackedKept
  <2>2. ASSUME AllReady(w), NEW i \in 1..Len(o.status.deploymentRef)
        PROVE  Started(o.status.deploymentRef[i])'
    <3>1. ready[w] = Len(o.status.deploymentRef)
      BY <1>2, <1>4, <2>1, <2>2 DEF AllReady, Backed, PhaseBacked
    <3>2. idx[w] - 1 = Len(o.status.deploymentRef)
      <4>1. /\ idx[w] \in Nat /\ ~(idx[w] <= Len(o.status.deploymentRef))
            /\ idx[w] <= Len(o.status.deploymentRef) + 1
            /\ Len(o.status.deploymentRef) \in Nat
        BY <1>1, <1>2, AstroFields, LenProperties
        DEF CountDone, Left, SyncGood, Progress, Counted, StepFacts, RestInv, PositionInv
      <4> QED BY <4>1
    <3>3. Started(o.status.deploymentRef[i])
      BY <1>1, <1>2, <2>1, <3>1, <3>2 DEF SyncGood, Progress, Counted
    <3> QED BY <1>1, <3>3 DEF Started, clusterVars
  <2>3. s.phase \in {"Waited", "Initialized"} /\ (s.phase = "Waited" => AllReady(w))
    BY <1>3, <1>4, <1>t, <1>5
  <2> QED BY <1>4, <1>t, <1>5, <2>1, <2>2, <2>3, PhaseStaysBacked
<1> QED BY <1>1, <1>2, <1>4, <1>6, <1>7, SyncStatusGood

\* newAstermule ends well: the engine that AstermuleRef names is there.
LEMMA StartedGood ==
  ASSUME StepFacts, CopiesGood, NEW w \in Worker, AstermuleStarted(w),
         pc[w] \in {"read-service", "create-port"},
         \A a \in Key : \A o \in Astro :
           a = holder[w] /\ o = obj[w] /\ Alive(OwnerOf(a, o))' =>
             /\ OwnsEngine(OwnerOf(a, o), o.status.serviceRef)'
             /\ External => ports'[a] = OwnerOf(a, o)
  PROVE  WorkerGood(w)'
<1>1. /\ pc[w] \in Calls \ {"status", "unfinalize"} /\ pc[w] \in Calls /\ holder' = holder
      /\ PhaseAt(pc[w]) = {"Waited"}
  BY DEF AstermuleStarted, StillWaited, W!Enqueue, Calls, PhaseAt
<1>2. PICK a \in Key, o \in Astro, own \in Owner :
        /\ a = holder[w] /\ o = obj[w] /\ own = OwnerOf(a, o) /\ own = Self(w)
        /\ own.name = a
        /\ Alive(own)' => Alive(own)
        /\ Alive(own) => Backed(own, o.status)
  BY <1>1, MyCopy
<1>3. PICK t \in Status : t = o.status /\ t.phase = "Waited"
  BY <1>1, <1>2, AstroFields, FactTypes, HeldFacts
<1>4. PICK s \in Status :
        /\ s = [t EXCEPT !.astermuleRef = TRUE]
        /\ s.phase = t.phase /\ s.nodeNumber = t.nodeNumber
        /\ s.deploymentRef = t.deploymentRef /\ s.serviceRef = t.serviceRef
        /\ s.astermuleRef = TRUE
  BY <1>3, EngineStatus, Zenon
<1>5. SyncStatus(w, s)
  BY <1>2, <1>3, <1>4 DEF AstermuleStarted
<1>6. ASSUME Alive(own)' PROVE Backed(own, s)'
  <2>1. Backed(own, t)'
    BY <1>2, <1>3, <1>6, BackedKept
  <2>2. OwnsEngine(own, t.serviceRef)' /\ (External => ports'[own.name] = own)
    BY <1>2, <1>3, <1>6
  <2> QED BY <1>3, <1>4, <2>1, <2>2, PhaseStaysBacked
<1> QED BY <1>1, <1>2, <1>3, <1>4, <1>5, <1>6, SyncStatusGood

LEMMA NewAstermuleGood ==
  ASSUME StepFacts, CopiesGood, NEW w \in Worker, NewAstermule(w)
  PROVE  WorkerGood(w)'
<1>1. /\ pc[w] = "read-service" /\ pc[w] \in Calls \ {"status"} /\ holder' = holder
  BY DEF NewAstermule, AstermuleStarted, StillWaited, W!Enqueue, workVars, Calls
<1>2. CASE Fail(w)
  BY <1>1, <1>2, FailGood
<1>3. ASSUME CreateEngine(holder[w], Self(w), obj[w].status.serviceRef),
             NEW a \in Key, NEW o \in Astro, a = holder[w], o = obj[w]
      PROVE  OwnsEngine(OwnerOf(a, o), o.status.serviceRef)'
  <2>1. PICK own \in Owner : own = OwnerOf(a, o) /\ own.name = a /\ own = Self(w)
    BY <1>3, OwnerOfCopy DEF Self
  <2>2. PICK nodes \in Seq(Star) : nodes = o.status.serviceRef
    BY AstroFields
  <2>3. PICK e : e = [owner |-> own, phase |-> "starting", nodes |-> nodes, runs |-> 0]
    OBVIOUS
  <2>4. e.owner = own /\ e.nodes = nodes /\ e \in Engine
    BY <2>1, <2>2, <2>3 DEF Engine, EnginePhase, MaxRuns
  <2>5. engines'[a] = e
    BY <1>3, <2>1, <2>2, <2>3, FactTypes DEF CreateEngine, DependentTypes
  <2> QED BY <2>1, <2>2, <2>4, <2>5, DependentsAssumption DEF OwnsEngine
<1>4. CASE /\ CreateEngine(holder[w], Self(w), obj[w].status.serviceRef)
           /\ GoTo(w, "create-port") /\ Same
  <2>1. \A a \in Key : \A c \in Held(w) :
          holder[w] = a => OwnsEngine(OwnerOf(a, c), c.status.serviceRef)'
    BY <1>3, <1>4, FactTypes DEF Held, HeldInv
  <2> QED BY <1>1, <1>4, <2>1, StaysGood
<1>5. CASE /\ CreateEngine(holder[w], Self(w), obj[w].status.serviceRef)
           /\ ~External /\ AstermuleStarted(w)
  BY <1>1, <1>3, <1>5, StartedGood
<1> QED BY <1>2, <1>4, <1>5 DEF NewAstermule, EngineExists, ReplyLost

LEMMA NewPortGood ==
  ASSUME StepFacts, CopiesGood, NEW w \in Worker, NewPort(w)
  PROVE  WorkerGood(w)'
<1>1. pc[w] = "create-port" /\ pc[w] \in Calls /\ holder' = holder
  BY DEF NewPort, AstermuleStarted, StillWaited, W!Enqueue, workVars, Calls
<1>2. CASE Fail(w)
  BY <1>1, <1>2, FailGood
<1>3. CASE CreatePort(holder[w], Self(w)) /\ AstermuleStarted(w)
  <2> SUFFICES ASSUME NEW a \in Key, NEW o \in Astro, a = holder[w], o = obj[w],
                      Alive(OwnerOf(a, o))'
               PROVE  /\ OwnsEngine(OwnerOf(a, o), o.status.serviceRef)'
                      /\ ports'[a] = OwnerOf(a, o)
    BY <1>1, <1>3, StartedGood
  <2>1. PICK own \in Owner :
          /\ own = OwnerOf(a, o) /\ own = Self(w) /\ own.name = a /\ Alive(own)
          /\ SyncGood(w, a, o)
    <3>1. \E b \in Key, c \in Astro, own \in Owner :
            /\ b = holder[w] /\ c = obj[w] /\ own = OwnerOf(b, c) /\ own = Self(w)
            /\ own.name = b /\ SyncGood(w, b, c) /\ (Alive(own)' => Alive(own))
      BY <1>1, MyCopy
    <3> QED BY <3>1
  <2>2. OwnsEngine(own, o.status.serviceRef)
    BY <1>1, <2>1 DEF SyncGood, Progress
  <2>3. OwnsEngine(own, o.status.serviceRef)'
    BY <2>1, <2>2, OwnedKept
  <2>4. ports'[a] = own
    BY <1>3, <2>1, FactTypes DEF CreatePort, DependentTypes
  <2> QED BY <2>1, <2>3, <2>4
<1> QED BY <1>2, <1>3 DEF NewPort, ReplyLost

\* The phase of an Astro follows from its engine.
LEMMA EnginePhaseGood ==
  ASSUME StepFacts, CopiesGood, NEW w \in Worker, NEW p \in Phase \ {"Unset", "Initialized"},
         SyncStatus(w, [obj[w].status EXCEPT !.phase = p]), holder' = holder,
         pc[w] \in {"read-engine", "launch"},
         \A own \in Owner : \A t \in Status :
           (/\ own = Self(w) /\ own.name = holder[w] /\ t = obj[w].status
            /\ Backed(own, t)' /\ t.astermuleRef /\ External /\ p \in {"Success", "Wrong"})
             => engines'[own.name].runs > 0
  PROVE  WorkerGood(w)'
<1>1. /\ pc[w] \in Calls \ {"status", "unfinalize"} /\ pc[w] \in Calls
      /\ PhaseAt(pc[w]) = IF pc[w] = "launch" THEN {"Ready"} ELSE {"Waited"}
  BY DEF Calls, PhaseAt
<1>2. PICK a \in Key, o \in Astro, own \in Owner :
        /\ a = holder[w] /\ o = obj[w] /\ own = OwnerOf(a, o) /\ own = Self(w)
        /\ own.name = a /\ SyncGood(w, a, o)
        /\ Alive(own)' => Alive(own)
        /\ Alive(own) => Backed(own, o.status)
  BY <1>1, MyCopy
<1>3. PICK t \in Status :
        t = o.status /\ t.phase = IF pc[w] = "launch" THEN "Ready" ELSE "Waited"
  BY <1>1, <1>2, AstroFields, FactTypes, HeldFacts
<1>4. PICK s \in Status :
        /\ s = [t EXCEPT !.phase = p]
        /\ s.phase = p /\ s.nodeNumber = t.nodeNumber
        /\ s.deploymentRef = t.deploymentRef /\ s.serviceRef = t.serviceRef
        /\ s.astermuleRef = t.astermuleRef
  BY <1>3, PhaseStatus, Zenon
<1>5. SyncStatus(w, s)
  BY <1>2, <1>3, <1>4
<1>6. ASSUME Alive(own)' PROVE Backed(own, s)'
  <2>1. Backed(own, t)'
    BY <1>2, <1>3, <1>6, BackedKept
  <2>2. t.astermuleRef
    <3>1. CASE pc[w] = "launch"
      BY <1>3, <2>1, <3>1 DEF Backed, EngineBacked
    <3>2. CASE pc[w] # "launch"
      BY <1>2, <1>3, <3>2 DEF SyncGood, Progress
    <3> QED BY <3>1, <3>2
  <2>3. External /\ p \in {"Success", "Wrong"} => engines'[own.name].runs > 0
    BY <1>2, <1>3, <1>6, <2>1, <2>2
  <2> QED BY <1>3, <1>4, <2>1, <2>2, <2>3, PhaseStaysBacked
<1> QED BY <1>1, <1>2, <1>3, <1>4, <1>5, <1>6, SyncStatusGood

LEMMA ReadEngineGood ==
  ASSUME StepFacts, CopiesGood, NEW w \in Worker, ReadEngine(w)
  PROVE  WorkerGood(w)'
<1>1. pc[w] = "read-engine" /\ holder' = holder
  BY DEF ReadEngine, StillWaited, W!Enqueue, workVars
<1>2. CASE Fail(w)
  BY <1>1, <1>2, FailGood
<1>3. ASSUME NEW pod, SyncStatus(w, [obj[w].status EXCEPT !.phase = EnginePhaseOf(pod)])
      PROVE  WorkerGood(w)'
  <2>1. PICK p \in {"Ready", "EngineFailed", "Waited"} : p = EnginePhaseOf(pod)
    BY DEF EnginePhaseOf
  <2>2. p \in Phase \ {"Unset", "Initialized"} /\ p \notin {"Success", "Wrong"}
    BY <2>1 DEF Phase
  <2>3. SyncStatus(w, [obj[w].status EXCEPT !.phase = p])
    BY <1>3, <2>1
  <2> QED BY <1>1, <2>2, <2>3, EnginePhaseGood
<1> QED BY <1>2, <1>3 DEF ReadEngine

\* Whoever answers at the node port is the engine of the Astro that has it.
LEMMA LaunchGood ==
  ASSUME StepFacts, CopiesGood, OnePort, NEW w \in Worker, Launch(w)
  PROVE  WorkerGood(w)'
<1>1. pc[w] = "launch" /\ pc[w] \in Calls /\ holder' = holder
  BY DEF Launch, workVars, Calls
<1>2. CASE Fail(w)
  BY <1>1, <1>2, FailGood
<1>3. ASSUME NEW b \in Key, External => ports[b] # Nothing, Running(b), RunEngine(b),
             NEW p \in Reported, SyncStatus(w, [obj[w].status EXCEPT !.phase = p])
      PROVE  WorkerGood(w)'
  <2>1. p \in Phase \ {"Unset", "Initialized"}
    BY <1>3 DEF Reported, Phase
  <2>2. engines[b] # Nothing /\ engines[b] \in Engine /\ engines'[b].runs > 0
    <3>1. engines[b] # Nothing /\ engines[b] \in Engine
      BY <1>3, FactTypes DEF Running, DependentTypes
    <3>2. PICK n \in Nat : /\ n = IF engines[b].runs < MaxRuns THEN engines[b].runs + 1
                                  ELSE engines[b].runs
                           /\ n > 0
      BY <3>1 DEF Engine, MaxRuns
    <3>3. engines' = [engines EXCEPT ![b] = [engines[b] EXCEPT !.runs = n]]
      BY <1>3, <3>2 DEF RunEngine
    <3>4. engines'[b] = [engines[b] EXCEPT !.runs = n]
      BY <3>3, FactTypes DEF DependentTypes
    <3> QED BY <3>1, <3>2, <3>4 DEF Engine
  <2>3. ASSUME NEW own \in Owner, NEW t \in Status, own.name = holder[w], Backed(own, t)',
               External, t.astermuleRef
        PROVE  engines'[own.name].runs > 0
    <3>1. ports'[own.name] = own /\ own # Nothing /\ own.name \in Key
      BY <2>3, TypesAssumption DEF Backed, EngineBacked, Owner
    <3>2. ports' = ports
      BY <1>3 DEF RunEngine
    <3>3. own.name = b
      BY <1>3, <2>3, <3>1, <3>2 DEF OnePort
    <3> QED BY <2>2, <3>3
  <2> QED BY <1>1, <1>3, <2>1, <2>3, EnginePhaseGood
<1>4. \A b \in Target(w) : b \in Key /\ (External => ports[b] # Nothing)
  BY DEF Target, StepFacts, RestInv, QueueTypes
<1> QED BY <1>2, <1>3, <1>4 DEF Launch, LaunchError, ReplyLost

-----------------------------------------------------------------------------
(* All workers *)

LEMMA WorkGood ==
  ASSUME StepFacts, CopiesGood, OnePort, NEW w \in Worker, Work(w) \/ CallFails(w)
  PROVE  WorkerGood(w)'
<1>1. CASE Return(w) \/ HandleErr(w)
  BY <1>1, FreeGood DEF Return, HandleErr
<1> QED
  BY <1>1, NewDeploymentGood, NewServiceGood, UpdateAstroGood, WriteGood, ReadGood,
     CountDeploymentGood, CountDoneGood, NewAstermuleGood, NewPortGood, ReadEngineGood, LaunchGood
  DEF Work

\* What worker v has in hand is left alone, but for the cache parting with it.
Idle(v) ==
  /\ pc'[v] = pc[v] /\ holder'[v] = holder[v] /\ obj'[v] = obj[v]
  /\ idx'[v] = idx[v] /\ ready'[v] = ready[v]
  /\ alias[v] = FALSE => alias'[v] = FALSE

\* The parts of a step of worker w.
LEMMA PartsOfOthers ==
  ASSUME StepFacts, NEW w \in Worker, NEW v \in Worker \ {w}
  PROVE  /\ \A label : GoTo(w, label) => pc'[v] = pc[v]
         /\ \A label : NextTurn(w, label) \/ Loop(w, label) => pc'[v] = pc[v] /\ idx'[v] = idx[v]
         /\ \A c : Assign(w, c) => obj'[v] = obj[v] /\ alias' = alias
         /\ \A c : Hold(w, c) => obj'[v] = obj[v] /\ alias'[v] = alias[v]
         /\ Same => obj' = obj /\ alias' = alias
         /\ Fail(w) => pc'[v] = pc[v] /\ obj' = obj /\ alias' = alias /\ Keep
         /\ \A s : SyncStatus(w, s) => pc'[v] = pc[v] /\ obj'[v] = obj[v] /\ alias' = alias
BY DEF GoTo, NextTurn, Loop, Assign, Hold, Same, Fail, SyncStatus, StepFacts, CopyInv, CopyTypes,
       RestInv, PositionInv

LEMMA OthersLeft ==
  ASSUME StepFacts, NEW w \in Worker, NEW v \in Worker \ {w},
         \/ Work(w) \/ CallFails(w) \/ \E a \in Key : Dispatch(w, a)
  PROVE  Idle(v) /\ alias'[v] = alias[v]
<1> USE PartsOfOthers
<1>1. CASE \E a \in Key : Dispatch(w, a)
  <2>1. PICK a \in Key : Dispatch(w, a)
    BY <1>1
  <2>2. holder'[v] = holder[v]
    BY <2>1, DispatchFrame DEF W!Take, StepFacts, CopyInv, CopyTypes
  <2>3. /\ pc'[v] = pc[v] /\ obj'[v] = obj[v] /\ alias'[v] = alias[v]
        /\ idx'[v] = idx[v]
    BY <2>1 DEF Dispatch, SyncGone, SyncDelete, SyncCreate, SyncInitialized, SyncWaited, SyncReady,
       SyncSettled, UpdateStart, Keep
  <2>4. ready' = ready \/ ready' = [ready EXCEPT ![w] = 0]
    BY <2>1 DEF Dispatch, SyncGone, SyncDelete, SyncCreate, SyncInitialized, SyncWaited, SyncReady,
       SyncSettled, UpdateStart, Keep
  <2> QED BY <2>2, <2>3, <2>4 DEF Idle, StepFacts, RestInv, PositionInv
<1>2. CASE Return(w) \/ HandleErr(w)
  <2>1. holder'[v] = holder[v]
    BY <1>2 DEF Return, HandleErr, W!Succeed, W!Retry, W!Drop, StepFacts, CopyInv, CopyTypes
  <2>2. Free(w)
    BY <1>2 DEF Return, HandleErr
  <2> QED BY <2>1, <2>2 DEF Free, Idle, StepFacts, CopyInv, CopyTypes, RestInv, PositionInv
<1>3. CASE NewDeployment(w) \/ NewService(w)
  BY <1>3 DEF NewDeployment, NewService, DeploymentExists, ReplyLost, Keep, workVars, Idle
<1>4. CASE UpdateAstro(w)
  <2>1. ASSUME NEW c, NEW label, obj' = [obj EXCEPT ![w] = c], alias' = [alias EXCEPT ![w] = FALSE],
               GoTo(w, label), Keep
        PROVE  pc'[v] = pc[v] /\ obj'[v] = obj[v] /\ alias'[v] = alias[v] /\ Keep
    BY <2>1 DEF StepFacts, CopyInv, CopyTypes
  <2>2. holder' = holder
    BY <1>4 DEF UpdateAstro, workVars
  <2>3. CASE Fail(w)
    BY <2>2, <2>3 DEF Keep, Idle
  <2> QED BY <1>4, <2>1, <2>2, <2>3 DEF UpdateAstro, ReplyLost, Keep, Idle
<1>5. CASE WriteStatus(w) \/ RemoveFinalizer(w) \/ CallFails(w) \/ ReadEndpoint(w)
  BY <1>5 DEF WriteStatus, RemoveFinalizer, CallFails, ReadEndpoint, ReplyLost, Keep, workVars, Idle
<1>6. CASE CountDeployment(w)
  <2>1. Fail(w) \/ (/\ NextTurn(w, "count") /\ Same
                    /\ \E n : ready' = [ready EXCEPT ![w] = n])
    BY <1>6 DEF CountDeployment
  <2>2. holder' = holder
    BY <1>6 DEF CountDeployment, workVars
  <2> QED BY <2>1, <2>2 DEF Keep, Idle, StepFacts, RestInv, PositionInv
<1>7. CASE CountDone(w) \/ ReadService(w)
  BY <1>7 DEF CountDone, ReadService, Keep, workVars, Idle
<1>8. CASE NewAstermule(w) \/ NewPort(w)
  BY <1>8 DEF NewAstermule, NewPort, AstermuleStarted, StillWaited, W!Enqueue, EngineExists,
     ReplyLost, Keep, workVars, Idle
<1>9. CASE ReadEngine(w) \/ Launch(w)
  BY <1>9 DEF ReadEngine, Launch, StillWaited, W!Enqueue, LaunchError, ReplyLost, Keep, workVars,
     Idle
<1> QED BY <1>1, <1>2, <1>3, <1>4, <1>5, <1>6, <1>7, <1>8, <1>9 DEF Work

LEMMA WorkersStep ==
  ASSUME StepFacts, CopiesGood, OnePort, Next
  PROVE  \A v \in Worker : WorkerGood(v)'
<1> SUFFICES ASSUME NEW v \in Worker PROVE WorkerGood(v)'
  OBVIOUS
<1>1. CASE Idle(v)
  BY <1>1, IdleGood DEF Idle
<1>2. CASE \/ Environment /\ UNCHANGED controllerVars
           \/ \E a \in Key : Deliver(a) \/ HandleObject(a)
  <2>1. Idle(v)
    BY <1>2 DEF controllerVars, workVars, syncVars, Deliver, HandleObject, QueueVersion, W!Enqueue,
       Idle
  <2> QED BY <1>1, <2>1
<1>3. CASE Restart
  BY <1>3 DEF Restart, WorkerGood, Held
<1>4. ASSUME NEW w \in Worker, Work(w) \/ CallFails(w) \/ \E a \in Key : Dispatch(w, a)
      PROVE  WorkerGood(v)'
  <2>1. CASE v = w
    BY <1>4, <2>1, WorkGood, DispatchGood
  <2>2. CASE v # w
    BY <1>1, <1>4, <2>2, OthersLeft
  <2> QED BY <2>1, <2>2
<1> QED BY <1>2, <1>3, <1>4 DEF Next, Controller

-----------------------------------------------------------------------------
(* The cache *)

\* Where a cached object comes from.
LEMMA CacheMoves ==
  ASSUME StepFacts, Next
  PROVE  \A a \in Key :
           \/ cache'[a] = cache[a]
           \/ watch[a] # << >> /\ cache'[a] = Head(watch[a])
           \/ cache'[a] = server'[a]
           \/ \E w \in Worker : alias'[w] /\ holder'[w] = a
<1>1. /\ cache \in [Key -> Astro \cup {Nothing}] /\ alias \in [Worker -> BOOLEAN]
      /\ holder \in [Worker -> Key \cup {NoKey}]
  BY DEF StepFacts, CopyInv, CopyTypes
<1>2. CASE cache' = cache
  BY <1>2
<1>3. CASE Restart
  BY <1>3 DEF Restart
<1>4. ASSUME NEW b \in Key, Deliver(b)
      PROVE  \A a \in Key : cache'[a] = cache[a] \/ (watch[a] # << >> /\ cache'[a] = Head(watch[a]))
  BY <1>1, <1>4 DEF Deliver
<1>5. ASSUME NEW w \in Worker, NEW b \in Key, Dispatch(w, b), NEW a \in Key, cache'[a] # cache[a]
      PROVE  alias'[w] /\ holder'[w] = a
  <2>1. SyncDelete(w, b) \/ SyncCreate(w, b)
    BY <1>5 DEF Dispatch, SyncGone, SyncInitialized, SyncWaited, SyncReady, SyncSettled, UpdateStart,
       Same
  <2>2. \E c : cache' = [cache EXCEPT ![b] = c] /\ Hold(w, c)
    BY <2>1 DEF SyncDelete, SyncCreate
  <2>3. a = b /\ alias'[w]
    BY <1>1, <1>5, <2>2 DEF Hold
  <2>4. holder'[w] = b
    BY <1>1, <1>5, DispatchFrame DEF W!Take, StepFacts
  <2> QED BY <2>3, <2>4
<1>6. ASSUME NEW w \in Worker, NEW c, Assign(w, c), holder' = holder, NEW a \in Key,
             cache'[a] # cache[a]
      PROVE  alias'[w] /\ holder'[w] = a
  BY <1>1, <1>6 DEF Assign
<1>7. ASSUME NEW w \in Worker, Work(w) \/ CallFails(w)
      PROVE  cache' = cache \/ (holder' = holder /\ \E c : Assign(w, c))
  <2>1. CASE cache' = cache
    BY <2>1
  <2>2. Fail(w) => cache' = cache
    BY DEF Fail, Same
  <2>3. CASE NewDeployment(w) \/ NewService(w)
    BY <2>1, <2>2, <2>3 DEF NewDeployment, NewService, DeploymentExists, ReplyLost, workVars
  <2>4. ASSUME NEW s, SyncStatus(w, s) PROVE cache' = cache \/ \E c : Assign(w, c)
    BY <2>4 DEF SyncStatus, Same
  <2>5. CASE CountDone(w) \/ Launch(w)
    BY <2>1, <2>2, <2>4, <2>5 DEF CountDone, Launch, LaunchError, ReplyLost, workVars
  <2>6. CASE ReadEngine(w)
    BY <2>1, <2>2, <2>4, <2>6 DEF ReadEngine, StillWaited, W!Enqueue
  <2>7. CASE NewAstermule(w) \/ NewPort(w)
    BY <2>1, <2>2, <2>4, <2>7
    DEF NewAstermule, NewPort, AstermuleStarted, StillWaited, W!Enqueue, EngineExists, ReplyLost, Same
  <2>8. CASE \/ UpdateAstro(w) \/ WriteStatus(w) \/ RemoveFinalizer(w) \/ CallFails(w)
             \/ CountDeployment(w) \/ ReadService(w) \/ ReadEndpoint(w) \/ Return(w) \/ HandleErr(w)
    BY <2>1, <2>2, <2>8
    DEF UpdateAstro, WriteStatus, RemoveFinalizer, CallFails, CountDeployment, ReadService,
        ReadEndpoint, Return, HandleErr, ReplyLost, Same, Free
  <2> QED BY <1>7, <2>3, <2>5, <2>6, <2>7, <2>8 DEF Work
<1>8. CASE \E w \in Worker : Work(w) \/ CallFails(w)
  BY <1>6, <1>7, <1>8
<1>9. CASE \E w \in Worker, b \in Key : Dispatch(w, b)
  BY <1>5, <1>9
<1>10. CASE Environment /\ UNCHANGED controllerVars
  BY <1>2, <1>10 DEF controllerVars
<1>11. CASE \E b \in Key : HandleObject(b)
  BY <1>2, <1>11 DEF HandleObject
<1> QED BY <1>3, <1>4, <1>8, <1>9, <1>10, <1>11 DEF Next, Controller

LEMMA CachedStep ==
  ASSUME StepFacts, CopiesGood, OnePort, Next
  PROVE  \A a \in Key : \A c \in Cached(a)' : Good(a, c)' /\ Recorded(a, c)'
<1> SUFFICES ASSUME NEW a \in Key, NEW c \in Cached(a)' PROVE Good(a, c)' /\ Recorded(a, c)'
  OBVIOUS
<1>1. c = cache'[a] /\ c # Nothing /\ c \in Astro
  BY FactTypes DEF Cached, HeldInv
<1>2. CASE c = cache[a] \/ (watch[a] # << >> /\ c = Head(watch[a]))
  <2>1. c \in Watched(a) \cup Cached(a)
    <3>1. CASE watch[a] # << >> /\ c = Head(watch[a])
      <4>1. watch[a] \in Seq(Astro \cup {Nothing})
        BY DEF StepFacts, CopyInv, CopyTypes
      <4>2. 1 \in 1..Len(watch[a]) /\ c = watch[a][1]
        BY <3>1, <4>1, HeadTailProperties, LenProperties, EmptySeq
      <4> QED BY <1>1, <4>2 DEF Watched
    <3> QED BY <1>1, <1>2, <3>1 DEF Cached
  <2> QED BY <1>1, <2>1, GoodKept DEF CopiesGood
<1>3. CASE c = server'[a]
  <2>1. c \in Stored(a)'
    BY <1>1, <1>3 DEF Stored
  <2> QED BY <1>3, <2>1, StoredStep DEF Recorded
<1>4. ASSUME NEW w \in Worker, alias'[w], holder'[w] = a PROVE Good(a, c)' /\ Recorded(a, c)'
  <2>1. c \in Held(w)'
    BY <1>1, <1>4, FactTypes DEF HeldInv, HolderInv, Held
  <2>2. SyncGood(w, a, c)'
    BY <1>4, <2>1, WorkersStep DEF WorkerGood
  <2> QED BY <1>4, <2>2 DEF SyncGood, FirstPhase
<1> QED BY <1>1, <1>2, <1>3, <1>4, CacheMoves

LEMMA CopiesStep ==
  ASSUME StepFacts, CopiesGood, OnePort, Next
  PROVE  CopiesGood'
<1>1. \A a \in Key : \A c \in Stored(a)' : Good(a, c)'
  BY StoredStep
<1>2. \A a \in Key : \A c \in Watched(a)' \cup Cached(a)' : Good(a, c)' /\ Recorded(a, c)'
  BY WatchedStep, CachedStep
<1>3. \A w \in Worker : WorkerGood(w)'
  BY WorkersStep
<1> QED BY <1>1, <1>2, <1>3 DEF CopiesGood

-----------------------------------------------------------------------------
(* Engines and node ports *)

\* Only newAstermule starts an engine, and only where the node port is free does
\* newAstermule take it.
Starts(w, a) ==
  /\ pc[w] = "read-service" /\ holder[w] = a
  /\ CreateEngine(a, Self(w), obj[w].status.serviceRef)
  /\ UNCHANGED astroVars

LEMMA EngineMoves ==
  ASSUME StepFacts, Next, NEW a \in Key, engines'[a] # Nothing
  PROVE  \/ /\ engines[a] # Nothing
            /\ engines'[a].owner = engines[a].owner /\ engines'[a].nodes = engines[a].nodes
         \/ \E w \in Worker : Starts(w, a)
<1>1. engines \in [Key -> Engine \cup {Nothing}]
  BY FactTypes DEF DependentTypes
<1>2. CASE engines' = engines
  BY <1>2
<1>3. ASSUME NEW b \in Key, engines[b] # Nothing, NEW p,
             engines' = [engines EXCEPT ![b].phase = p] \/ engines' = [engines EXCEPT ![b].runs = p]
      PROVE  /\ engines[a] # Nothing
             /\ engines'[a].owner = engines[a].owner /\ engines'[a].nodes = engines[a].nodes
  <2>1. CASE a = b
    <3>1. engines[b] \in Engine
      BY <1>1, <1>3
    <3>2. engines'[b] = [engines[b] EXCEPT !.phase = p] \/ engines'[b] = [engines[b] EXCEPT !.runs = p]
      BY <1>1, <1>3
    <3> QED BY <1>3, <2>1, <3>1, <3>2 DEF Engine
  <2>2. CASE a # b
    BY <1>1, <1>3, <2>2
  <2> QED BY <2>1, <2>2
<1>4. ASSUME NEW b \in Key, EngineSettles(b) \/ EngineLost(b)
      PROVE  engines[b] # Nothing /\ \E p : engines' = [engines EXCEPT ![b].phase = p]
  BY <1>4 DEF EngineSettles, EngineLost
<1>5. ASSUME NEW b \in Key, CollectEngine(b) PROVE engines'[a] = engines[a]
  BY <1>1, <1>5 DEF CollectEngine
<1>6. CASE Environment /\ UNCHANGED controllerVars
  BY <1>2, <1>3, <1>4, <1>5, <1>6
  DEF Environment, UserCreates, UserEdits, UserDeletes, CollectPort, DeploymentAvailable,
      DeploymentUnavailable, DeploymentReports, CollectDeployment, CollectService, dependentVars
<1>7. CASE Restart \/ \E b \in Key : Deliver(b) \/ HandleObject(b)
  BY <1>2, <1>7 DEF Restart, Deliver, HandleObject, dependentVars
<1>8. CASE \E w \in Worker, b \in Key : Dispatch(w, b)
  <2>1. UNCHANGED clusterVars
    BY <1>8 DEF Dispatch, SyncGone, SyncDelete, SyncCreate, SyncInitialized, SyncWaited, SyncReady,
       SyncSettled, UpdateStart, Start
  <2> QED BY <1>2, <2>1 DEF clusterVars
<1>9. ASSUME NEW w \in Worker, Launch(w), engines' # engines
      PROVE  \E b \in Key : engines[b] # Nothing /\ \E n : engines' = [engines EXCEPT ![b].runs = n]
  <2>1. \A b \in Target(w) : b \in Key
    BY DEF Target, StepFacts, RestInv, QueueTypes
  <2>2. PICK b \in Key : Running(b) /\ RunEngine(b)
    BY <1>9, <2>1 DEF Launch, dependentVars
  <2>3. \E n : engines' = [engines EXCEPT ![b].runs = n]
    BY <2>2 DEF RunEngine
  <2> QED BY <2>2, <2>3 DEF Running
<1>10. ASSUME NEW w \in Worker, NewAstermule(w), engines' # engines PROVE Starts(w, holder[w])
  BY <1>10 DEF NewAstermule, Starts, dependentVars
<1>11. ASSUME NEW w \in Worker, Starts(w, holder[w]), a # holder[w] PROVE engines'[a] = engines[a]
  BY <1>1, <1>11 DEF Starts, CreateEngine
<1>12. ASSUME NEW w \in Worker, Work(w) \/ CallFails(w)
       PROVE  Launch(w) \/ NewAstermule(w) \/ engines' = engines
  BY <1>12 DEF Work, CallFails, NewDeployment, NewService, UpdateAstro, WriteStatus, RemoveFinalizer,
     CountDeployment, CountDone, ReadService, NewPort, ReadEngine, ReadEndpoint, Return, HandleErr,
     CreateDeployment, CreateService, CreatePort, Free, clusterVars, dependentVars
<1>13. CASE \E w \in Worker : Work(w) \/ CallFails(w)
  BY <1>2, <1>3, <1>9, <1>10, <1>11, <1>12, <1>13
<1> QED BY <1>6, <1>7, <1>8, <1>13 DEF Next, Controller

\* What is known where an engine is started.
LEMMA StartFacts ==
  ASSUME StepFacts, CopiesGood, NEW a \in Key, NEW w \in Worker, Starts(w, a)
  PROVE  \E own \in Owner, o \in Astro :
           /\ engines'[a].owner = own /\ own.name = a /\ own.uid <= rev[a]
           /\ engines'[a].nodes = o.status.serviceRef /\ o.status.phase = "Waited"
           /\ UNCHANGED <<server, rev, deploys, services>>
           /\ Alive(own) => Backed(own, o.status) /\ server[a].status.phase # "Unset"
<1>1. pc[w] = "read-service" /\ pc[w] \in Calls /\ PhaseAt("read-service") = {"Waited"}
  BY DEF Starts, Calls, PhaseAt
<1>2. \E b \in Key, o \in Astro, own \in Owner :
        /\ b = holder[w] /\ o = obj[w] /\ own = OwnerOf(b, o) /\ own = Self(w)
        /\ own.name = b /\ own.uid = o.uid
        /\ SyncGood(w, b, o) /\ Recorded(b, o)
        /\ Alive(own) => Backed(own, o.status)
  BY <1>1, MyCopy
<1>3. PICK o \in Astro, own \in Owner :
        /\ o = obj[w] /\ own = OwnerOf(a, o) /\ own = Self(w)
        /\ own.name = a /\ own.uid = o.uid
        /\ SyncGood(w, a, o) /\ Recorded(a, o)
        /\ Alive(own) => Backed(own, o.status)
  BY <1>2 DEF Starts
<1>4. o.status.phase = "Waited"
  BY <1>1, <1>3, FactTypes, HeldFacts
<1>5. own.uid <= rev[a]
  BY <1>3 DEF SyncGood, Good
<1>6. Alive(own) => server[a].status.phase # "Unset"
  BY <1>3, <1>4 DEF Recorded
<1>7. PICK nodes \in Seq(Star) : nodes = o.status.serviceRef
  BY AstroFields
<1>8. PICK e : e = [owner |-> own, phase |-> "starting", nodes |-> nodes, runs |-> 0]
  OBVIOUS
<1>9. e.owner = own /\ e.nodes = nodes
  BY <1>8
<1>10. engines'[a] = e /\ UNCHANGED <<server, rev, deploys, services>>
  BY <1>3, <1>7, <1>8, FactTypes DEF Starts, CreateEngine, DependentTypes, astroVars
<1> QED BY <1>3, <1>4, <1>5, <1>6, <1>7, <1>9, <1>10

\* What the invariant says of an engine and its nodes.
EngineGood(own, nodes) ==
  /\ own.uid <= rev[own.name]
  /\ Alive(own) =>
       /\ server[own.name].status.phase # "Unset"
       /\ \A i \in 1..Len(nodes) :
            services[nodes[i]] = own /\ OwnsDeployment(own, nodes[i]) /\ Started(nodes[i])

AllEnginesGood ==
  \A a \in Key : engines[a] # Nothing => EngineGood(engines[a].owner, engines[a].nodes)

LEMMA EngineParts ==
  /\ AllEnginesGood <=> EnginesGood /\ MicroservicesBeforeEngine
  /\ AllEnginesGood' <=> EnginesGood' /\ MicroservicesBeforeEngine'
BY DEF AllEnginesGood, EngineGood, EnginesGood, MicroservicesBeforeEngine, OwnsDeployment, Started

LEMMA EngineGoodKept ==
  ASSUME StepFacts, NEW own \in Owner, NEW nodes \in Seq(Star), EngineGood(own, nodes)
  PROVE  EngineGood(own, nodes)'
<1>1. own.name \in Key /\ own.uid \in Nat /\ own.uid <= rev[own.name]
  BY DEF EngineGood, Owner
<1>2. own.uid <= rev'[own.name]
  BY <1>1, FactTypes DEF StoreKept
<1>3. ASSUME Alive(own)'
      PROVE  /\ server'[own.name].status.phase # "Unset"
             /\ \A i \in 1..Len(nodes) :
                  services'[nodes[i]] = own /\ OwnsDeployment(own, nodes[i])' /\ Started(nodes[i])'
  <2>1. /\ Alive(own) /\ Exists(own.name) /\ Exists(own.name)'
        /\ server'[own.name].uid = server[own.name].uid
    BY <1>1, <1>3, AliveBefore, FactTypes DEF Alive
  <2>2. server'[own.name].status.phase # "Unset"
    <3>1. server'[own.name].status.phase \in Later[server[own.name].status.phase]
      BY <1>1, <2>1 DEF StepFacts, Advances
    <3>2. server[own.name].status.phase \in Phase /\ server[own.name].status.phase # "Unset"
      BY <1>1, <2>1, FactTypes, AstroFields DEF Exists, EngineGood
    <3> QED BY <3>1, <3>2, LaterFacts
  <2>3. ASSUME NEW i \in 1..Len(nodes)
        PROVE  services'[nodes[i]] = own /\ OwnsDeployment(own, nodes[i])' /\ Started(nodes[i])'
    <3>1. PICK s \in Star : s = nodes[i]
      BY ElementOfSeq
    <3>2. services[s] = own /\ OwnsDeployment(own, s) /\ Started(s)
      BY <2>1, <3>1 DEF EngineGood
    <3>3. services'[s] = own /\ OwnsDeployment(own, s)' /\ Started(s)'
      BY <2>1, <3>2, OwnedKept
    <3> QED BY <3>1, <3>3
  <2> QED BY <2>2, <2>3
<1> QED BY <1>2, <1>3 DEF EngineGood

LEMMA EnginesStep ==
  ASSUME StepFacts, CopiesGood, AllEnginesGood, Next
  PROVE  AllEnginesGood'
<1> SUFFICES ASSUME NEW a \in Key, engines'[a] # Nothing, NEW own \in Owner,
                    NEW nodes \in Seq(Star), own = engines'[a].owner, nodes = engines'[a].nodes
             PROVE  EngineGood(own, nodes)'
  <2>1. \A a \in Key : engines'[a] # Nothing =>
          engines'[a].owner \in Owner /\ engines'[a].nodes \in Seq(Star)
    BY FactTypes DEF DependentTypes, Engine
  <2> QED BY <2>1 DEF AllEnginesGood, EngineGood, Alive, Exists, OwnsDeployment, Started
<1>1. CASE /\ engines[a] # Nothing
           /\ engines'[a].owner = engines[a].owner /\ engines'[a].nodes = engines[a].nodes
  BY <1>1, EngineGoodKept DEF AllEnginesGood
<1>2. ASSUME NEW w \in Worker, Starts(w, a) PROVE EngineGood(own, nodes)'
  <2>1. PICK o \in Astro :
          /\ own.name = a /\ own.uid <= rev[a]
          /\ nodes = o.status.serviceRef /\ o.status.phase = "Waited"
          /\ UNCHANGED <<server, rev, deploys, services>>
          /\ Alive(own) => Backed(own, o.status) /\ server[a].status.phase # "Unset"
    BY <1>2, StartFacts
  <2>2. ASSUME Alive(own), NEW i \in 1..Len(nodes)
        PROVE  services[nodes[i]] = own /\ OwnsDeployment(own, nodes[i]) /\ Started(nodes[i])
    <3>1. PICK s \in Star : s = nodes[i]
      BY ElementOfSeq
    <3>2. services[s] = own /\ Listed(o.status.deploymentRef, s)
      BY <2>1, <2>2, <3>1 DEF Backed, RefsBacked
    <3>3. PICK j \in 1..Len(o.status.deploymentRef) : o.status.deploymentRef[j] = s
      BY <3>2 DEF Listed
    <3>4. OwnsDeployment(own, s) /\ Started(s)
      BY <2>1, <2>2, <3>3 DEF Backed, RefsBacked, PhaseBacked
    <3> QED BY <3>1, <3>2, <3>4
  <2>3. EngineGood(own, nodes)
    BY <2>1, <2>2 DEF EngineGood
  <2> QED BY <2>3, EngineGoodKept
<1> QED BY <1>1, <1>2, EngineMoves

LEMMA PortStep ==
  ASSUME StepFacts, OnePort, Next
  PROVE  OnePort'
<1>1. ports \in [Key -> Owner \cup {Nothing}]
  BY FactTypes DEF DependentTypes
<1>2. CASE \A a \in Key : ports'[a] # Nothing => ports[a] # Nothing
  BY <1>2 DEF OnePort
<1>3. CASE UNCHANGED ports
  BY <1>2, <1>3
<1>4. ASSUME NEW b \in Key, CollectPort(b) PROVE OnePort'
  BY <1>1, <1>2, <1>4 DEF CollectPort
<1>5. CASE Environment /\ UNCHANGED controllerVars
  BY <1>3, <1>4, <1>5
  DEF Environment, UserCreates, UserEdits, UserDeletes, EngineSettles, EngineLost, CollectEngine,
      DeploymentAvailable, DeploymentUnavailable, DeploymentReports, CollectDeployment,
      CollectService, dependentVars
<1>6. CASE Restart \/ \E b \in Key : Deliver(b) \/ HandleObject(b)
  BY <1>3, <1>6 DEF Restart, Deliver, HandleObject, dependentVars
<1>7. CASE \E w \in Worker, b \in Key : Dispatch(w, b)
  <2>1. UNCHANGED clusterVars
    BY <1>7 DEF Dispatch, SyncGone, SyncDelete, SyncCreate, SyncInitialized, SyncWaited, SyncReady,
       SyncSettled, UpdateStart, Start
  <2> QED BY <1>3, <2>1 DEF clusterVars
<1>8. ASSUME NEW w \in Worker, NewPort(w), ports' # ports PROVE OnePort'
  <2>1. ~PortTaken /\ CreatePort(holder[w], Self(w))
    BY <1>8 DEF NewPort, dependentVars
  <2> QED BY <1>1, <2>1 DEF PortTaken, CreatePort, OnePort
<1>9. ASSUME NEW w \in Worker, Work(w) \/ CallFails(w) PROVE NewPort(w) \/ ports' = ports
  BY <1>9 DEF Work, CallFails, NewDeployment, NewService, UpdateAstro, WriteStatus, RemoveFinalizer,
     CountDeployment, CountDone, ReadService, NewAstermule, ReadEngine, ReadEndpoint, Launch, Return,
     HandleErr, CreateDeployment, CreateService, CreateEngine, RunEngine, Free, clusterVars,
     dependentVars
<1>10. CASE \E w \in Worker : Work(w) \/ CallFails(w)
  BY <1>3, <1>8, <1>9, <1>10
<1> QED BY <1>5, <1>6, <1>7, <1>10 DEF Next, Controller

-----------------------------------------------------------------------------
(* The theorems *)

LEMMA DependParts ==
  /\ DependInv <=> CopiesGood /\ AllEnginesGood /\ OnePort
  /\ DependInv' <=> CopiesGood' /\ AllEnginesGood' /\ OnePort'
BY EngineParts DEF DependInv

LEMMA InitDepend == Init => DependInv
<1> SUFFICES ASSUME Init PROVE DependInv
  OBVIOUS
<1> USE DEF Init, ClusterInit, ControllerInit
<1>1. \A a \in Key : Stored(a) = {} /\ Watched(a) = {} /\ Cached(a) = {}
  <2>1. \A a \in Key : watch[a] = << >> /\ 1..Len(watch[a]) = {}
    <3>1. 1..Len(<< >>) = {}
      BY EmptySeq
    <3> QED BY <3>1
  <2>2. \A a \in Key : Watched(a) = {}
    BY <2>1 DEF Watched
  <2> QED BY <2>2 DEF Stored, Cached
<1>2. CopiesGood
  BY <1>1 DEF CopiesGood, WorkerGood, Held
<1>3. AllEnginesGood
  BY DEF AllEnginesGood
<1>4. OnePort
  BY DEF OnePort
<1> QED BY <1>2, <1>3, <1>4, DependParts

LEMMA FrameDepend == ASSUME DependInv, UNCHANGED vars PROVE DependInv'
<1>1. /\ UNCHANGED <<server, rev, watch, deploys, services, engines, ports, events, budget>>
      /\ UNCHANGED <<cache, pending, holder, requeues, pc, obj, alias, idx, ready, url>>
  BY DEF vars, clusterVars, controllerVars, workVars, syncVars
<1>2. /\ \A own : Alive(own)' = Alive(own)
      /\ \A own, st : Backed(own, st)' = Backed(own, st)
      /\ \A own, c : Deployed(own, c)' = Deployed(own, c)
  BY <1>1 DEF Alive, Exists, Backed, RefsBacked, EngineBacked, PhaseBacked, OwnsDeployment, Started,
     OwnsEngine, Deployed
<1>3. \A a, c : Good(a, c)' = Good(a, c) /\ Recorded(a, c)' = Recorded(a, c)
  BY <1>1, <1>2 DEF Good, Recorded
<1>4. \A w, own, c : Progress(w, own, c)' = Progress(w, own, c)
  BY <1>1, <1>2 DEF Progress, StarsDone, Counted, Started, OwnsEngine
<1>5. \A w, a, c : SyncGood(w, a, c)' = SyncGood(w, a, c)
  BY <1>1, <1>2, <1>3, <1>4 DEF SyncGood, FirstPhase
<1>6. \A a : Stored(a)' = Stored(a) /\ Watched(a)' = Watched(a) /\ Cached(a)' = Cached(a)
  BY <1>1 DEF Stored, Watched, Cached
<1>7. \A w : WorkerGood(w)' = WorkerGood(w)
  BY <1>1, <1>5 DEF WorkerGood, Held
<1>8. CopiesGood'
  BY <1>3, <1>6, <1>7 DEF DependInv, CopiesGood
<1>9. AllEnginesGood' /\ OnePort'
  BY <1>1, DependParts DEF AllEnginesGood, EngineGood, Alive, Exists, OwnsDeployment, Started, OnePort
<1> QED BY <1>8, <1>9, DependParts

LEMMA StepDepend == IInv /\ DependInv /\ [Next]_vars => DependInv'
<1> SUFFICES ASSUME IInv, DependInv, [Next]_vars PROVE DependInv'
  OBVIOUS
<1>1. CASE Next
  <2>1. StepFacts
    BY <1>1, InvParts, NextFacts
  <2> QED BY <1>1, <2>1, CopiesStep, EnginesStep, PortStep, DependParts
<1>2. CASE UNCHANGED vars
  BY <1>2, FrameDepend
<1> QED BY <1>1, <1>2

\* Whatever users, pods, faults and restarts do: every copy of an Astro, stored, on
\* the watch, in the cache or in a sync, says of the dependents only what is true of
\* them, every sync has done what its place in the code implies, and an engine has
\* its microservices.
THEOREM Dependents == Spec => [](IInv /\ DependInv)
<1>1. Init => IInv /\ DependInv
  BY InitInv, InitDepend
<1>2. IInv /\ DependInv /\ [Next]_vars => (IInv /\ DependInv)'
  BY StepInv, StepDepend
<1> QED BY <1>1, <1>2, PTL DEF Spec

\* newAstermule is reached only when each node of the engine has a Service and a
\* Deployment of the same Astro that has been available.
THEOREM MicroservicesFirst == Spec => []MicroservicesBeforeEngine
<1>1. IInv /\ DependInv => MicroservicesBeforeEngine
  BY DEF DependInv
<1> QED BY <1>1, Dependents, PTL

\* What the stored status of an Astro says is true.
LEMMA StoredTruth ==
  ASSUME IInv, DependInv, NEW a \in Key, Exists(a)
  PROVE  /\ Backed(OwnerOf(a, server[a]), server[a].status)
         /\ OwnerOf(a, server[a]).name = a /\ server[a].status.phase \in Phase
<1>1. PICK c \in Astro : c = server[a]
  BY InvParts DEF CopyInv, CopyTypes, Exists
<1>2. Good(a, c)
  BY <1>1, AstroFields DEF DependInv, CopiesGood, Stored
<1>3. Alive(OwnerOf(a, c)) /\ OwnerOf(a, c).name = a
  BY <1>1, OwnerOfCopy DEF Alive
<1> QED BY <1>1, <1>2, <1>3, AstroFields DEF Good

\* DeploymentRef and ServiceRef never name what another Astro owns, or an earlier
\* Astro of the same name.
THEOREM OwnReferences == Spec => []ReferencesOwned
<1>1. IInv /\ DependInv => ReferencesOwned
  BY StoredTruth DEF ReferencesOwned, Backed, RefsBacked, OwnsDeployment
<1> QED BY <1>1, Dependents, PTL

\* AstermuleRef names an engine of this very Astro that has all its nodes and, in
\* external mode, the node port.
THEOREM OwnEngine == Spec => []EngineReferenced
<1>1. IInv /\ DependInv => EngineReferenced
  BY StoredTruth DEF EngineReferenced, Backed, EngineBacked, OwnsEngine
<1> QED BY <1>1, Dependents, PTL

\* In external mode Success and Wrong are about a launch of this very Astro's
\* engine. In internal mode they are not: workers share the URL of the agent.
THEOREM OwnResult == ASSUME External PROVE Spec => []NoPhantomResult
<1>1. IInv /\ DependInv => NoPhantomResult
  BY StoredTruth DEF NoPhantomResult, PhaseIn, Backed, EngineBacked, OwnsEngine
<1> QED BY <1>1, Dependents, PTL

=============================================================================
