------------------------- MODULE AstroControllerProofs -------------------------
(***************************************************************************)
(* For any Astros, stars, workers and limits, in both modes and with any   *)
(* delay of the watch: the inductive invariant of AstroController, and the *)
(* safety properties about versions, phases and finalizers that follow     *)
(* from it.                                                                *)
(***************************************************************************)
EXTENDS AstroCopyProofs

-----------------------------------------------------------------------------
(* The dependents and the budget *)

Budgeted == budget \in [Spending -> Nat]

LEMMA SpendBudget ==
  ASSUME Budgeted, NEW what \in Spending, Spend(what)
  PROVE  Budgeted'
<1>1. PICK n \in Nat, t \in Nat : n = budget[what] - 1 /\ t = budget["total"] - 1
  BY DEF Budgeted, Spend, Spending
<1>2. "total" \in Spending
  BY DEF Spending
<1>3. CASE what = "total"
  <2>1. budget' \in [Spending -> Nat]
    <3>1. budget["total"] \in Nat \ {0} /\ [budget EXCEPT !["total"] = @ - 1]["total"] = t
      BY <1>1, <1>2, <1>3 DEF Budgeted, Spend
    <3> QED BY <3>1, <1>1, <1>2, <1>3 DEF Budgeted, Spend
  <2> QED BY <2>1 DEF Budgeted
<1>4. CASE what # "total"
  BY <1>1, <1>2, <1>4 DEF Budgeted, Spend
<1> QED BY <1>3, <1>4

LEMMA EnvironmentDependents ==
  ASSUME DependentTypes, StoreInv, Environment
  PROVE  DependentTypes'
<1>1. Budgeted' /\ events' \in SUBSET Key
  <2>1. {"creates", "edits", "deletes", "flaps", "losses"} \subseteq Spending
    BY DEF Spending
  <2>2. ASSUME NEW s \in Star, deploys[s] # Nothing PROVE deploys[s].owner.name \in Key
    BY <2>2 DEF DependentTypes, Deployment, Owner
  <2>3. ASSUME NEW s \in Star, services[s] # Nothing PROVE services[s].name \in Key
    BY <2>3 DEF DependentTypes, Owner
  <2>4. events' \in SUBSET Key
    <3>1. CASE UNCHANGED events \/ \E a \in Key : events' = events \cup {a}
      BY <3>1 DEF DependentTypes
    <3>2. ASSUME NEW a \in Key,
                 \/ UserCreates(a) \/ UserEdits(a) \/ UserDeletes(a) \/ EngineSettles(a)
                 \/ EngineLost(a) \/ CollectEngine(a) \/ CollectPort(a)
          PROVE  UNCHANGED events \/ events' = events \cup {a}
      BY <3>2 DEF UserCreates, UserEdits, UserDeletes, EngineSettles, EngineLost,
         CollectEngine, CollectPort
    <3>3. ASSUME NEW s \in Star,
                 \/ DeploymentAvailable(s) \/ DeploymentUnavailable(s)
                 \/ DeploymentReports(s) \/ CollectDeployment(s)
          PROVE  events' = events \cup {deploys[s].owner.name} /\ deploys[s] # Nothing
      BY <3>3 DEF DeploymentAvailable, DeploymentUnavailable, DeploymentReports,
         CollectDeployment
    <3>4. ASSUME NEW s \in Star, CollectService(s)
          PROVE  events' = events \cup {services[s].name} /\ services[s] # Nothing
      BY <3>4 DEF CollectService
    <3> QED BY <2>2, <2>3, <3>1, <3>2, <3>3, <3>4 DEF Environment
  <2>5. UNCHANGED budget \/ \E what \in Spending : Spend(what)
    BY <2>1 DEF Environment, UserCreates, UserEdits, UserDeletes, EngineSettles, EngineLost,
       CollectEngine, CollectPort, DeploymentAvailable, DeploymentUnavailable,
       DeploymentReports, CollectDeployment, CollectService
  <2> QED BY <2>4, <2>5, SpendBudget DEF Budgeted, DependentTypes
<1>2. deploys' \in [Star -> Deployment \cup {Nothing}]
  <2>1. ASSUME NEW s \in Star, NEW h \in Health, deploys[s] # Nothing,
               deploys' = [deploys EXCEPT ![s].health = h]
        PROVE  deploys' \in [Star -> Deployment \cup {Nothing}]
    BY <2>1 DEF DependentTypes, Deployment
  <2>2. ASSUME NEW s \in Star, deploys' = [deploys EXCEPT ![s] = Nothing]
        PROVE  deploys' \in [Star -> Deployment \cup {Nothing}]
    BY <2>2 DEF DependentTypes
  <2>3. "available" \in Health /\ "unavailable" \in Health
    BY DEF Health
  <2>4. CASE UNCHANGED deploys
    BY <2>4 DEF DependentTypes
  <2> QED
    BY <2>1, <2>2, <2>3, <2>4 DEF Environment, UserCreates, UserEdits, UserDeletes,
       EngineSettles, EngineLost, CollectEngine, CollectPort, DeploymentAvailable,
       DeploymentUnavailable, DeploymentReports, CollectDeployment, CollectService, dependentVars
<1>3. engines' \in [Key -> Engine \cup {Nothing}]
  <2>1. ASSUME NEW a \in Key, NEW p \in EnginePhase, engines[a] # Nothing,
               engines' = [engines EXCEPT ![a].phase = p]
        PROVE  engines' \in [Key -> Engine \cup {Nothing}]
    BY <2>1 DEF DependentTypes, Engine
  <2>2. ASSUME NEW a \in Key, engines' = [engines EXCEPT ![a] = Nothing]
        PROVE  engines' \in [Key -> Engine \cup {Nothing}]
    BY <2>2 DEF DependentTypes
  <2>3. "running" \in EnginePhase /\ "failed" \in EnginePhase
    BY DEF EnginePhase
  <2>4. CASE UNCHANGED engines
    BY <2>4 DEF DependentTypes
  <2> QED
    BY <2>1, <2>2, <2>3, <2>4 DEF Environment, UserCreates, UserEdits, UserDeletes,
       EngineSettles, EngineLost, CollectEngine, CollectPort, DeploymentAvailable,
       DeploymentUnavailable, DeploymentReports, CollectDeployment, CollectService, dependentVars
<1>4. services' \in [Star -> Owner \cup {Nothing}] /\ ports' \in [Key -> Owner \cup {Nothing}]
  BY DEF Environment, UserCreates, UserEdits, UserDeletes, EngineSettles, EngineLost,
     CollectEngine, CollectPort, DeploymentAvailable, DeploymentUnavailable,
     DeploymentReports, CollectDeployment, CollectService, dependentVars, DependentTypes
<1> QED BY <1>1, <1>2, <1>3, <1>4 DEF DependentTypes, Budgeted

LEMMA SelfIsOwner ==
  ASSUME HeldInv, NEW w \in Worker, pc[w] \in Calls
  PROVE  Self(w) \in Owner /\ Self(w).name \in Key
BY HeldFacts, AstroFields DEF Self, OwnerOf, Owner

LEMMA ReplyLostBudget ==
  ASSUME Budgeted, NEW w \in Worker, ReplyLost(w)
  PROVE  Budgeted'
<1>1. "faults" \in Spending
  BY DEF Spending
<1> QED BY <1>1, SpendBudget DEF ReplyLost

\* What the requests of a worker do to the dependents.
LEMMA WorkDependents ==
  ASSUME HeldInv, RestInv, NEW w \in Worker, Work(w) \/ CallFails(w)
  PROVE  DependentTypes'
<1>1. DependentTypes /\ Budgeted
  BY DEF RestInv, DependentTypes, Budgeted
<1>2. Budgeted'
  <2>1. UNCHANGED budget \/ ReplyLost(w)
    BY DEF Work, CallFails, NewDeployment, NewService, UpdateAstro, WriteStatus, RemoveFinalizer,
       CountDeployment, CountDone, ReadService, NewAstermule, NewPort, ReadEngine, ReadEndpoint,
       Launch, Return, HandleErr, Free, clusterVars
  <2> QED BY <1>1, <2>1, ReplyLostBudget DEF Budgeted
<1>3. CASE UNCHANGED <<dependentVars, events>>
  BY <1>1, <1>2, <1>3 DEF DependentTypes, Budgeted, dependentVars
<1>4. CASE NewDeployment(w)
  <2>1. Self(w) \in Owner /\ Self(w).name \in Key
    BY <1>4, SelfIsOwner DEF NewDeployment, Calls
  <2>2. ASSUME NEW s \in Star, CreateDeployment(s, Self(w)) PROVE DependentTypes'
    <3>1. [owner |-> Self(w), health |-> "starting"] \in Deployment
      BY <2>1 DEF Deployment, Health
    <3> QED BY <1>1, <1>2, <2>1, <2>2, <3>1 DEF CreateDeployment, DependentTypes, Budgeted
  <2>3. obj[w].stars[idx[w]] \in Star
    <3>1. obj[w] \in Astro
      BY <1>4, HeldFacts DEF NewDeployment, Calls
    <3>2. idx[w] \in 1..Len(obj[w].stars) /\ obj[w].stars \in Seq(Star)
      BY <1>4, <3>1, AstroFields DEF NewDeployment, StarsLeft, RestInv, PositionInv, LoopInv
    <3> QED BY <3>2, ElementOfSeq
  <2> QED BY <1>3, <1>4, <2>2, <2>3 DEF NewDeployment
<1>5. CASE NewService(w)
  <2>1. Self(w) \in Owner /\ Self(w).name \in Key
    BY <1>5, SelfIsOwner DEF NewService, Calls
  <2>2. CASE CreateService(obj[w].stars[idx[w]], Self(w))
    BY <1>1, <1>2, <2>1, <2>2 DEF CreateService, DependentTypes, Budgeted
  <2> QED BY <1>3, <1>5, <2>2 DEF NewService
<1>6. CASE NewAstermule(w)
  <2>1. /\ Self(w) \in Owner /\ holder[w] \in Key /\ obj[w] \in Astro
    BY <1>6, SelfIsOwner, HeldFacts DEF NewAstermule, Calls
  <2>2. obj[w].status.serviceRef \in Seq(Star)
    BY <2>1, AstroFields
  <2>3. ASSUME NEW nodes \in Seq(Star), NEW owner \in Owner, CreateEngine(holder[w], owner, nodes)
        PROVE  DependentTypes'
    <3>1. [owner |-> owner, phase |-> "starting", nodes |-> nodes, runs |-> 0] \in Engine
      BY DEF Engine, EnginePhase, MaxRuns
    <3> QED BY <1>1, <1>2, <2>3, <3>1 DEF CreateEngine, DependentTypes, Budgeted
  <2> QED BY <1>3, <1>6, <2>1, <2>2, <2>3 DEF NewAstermule
<1>7. CASE NewPort(w)
  <2>1. Self(w) \in Owner /\ Self(w).name \in Key
    BY <1>7, SelfIsOwner DEF NewPort, Calls
  <2>2. CASE CreatePort(holder[w], Self(w))
    BY <1>1, <1>2, <2>1, <2>2 DEF CreatePort, DependentTypes, Budgeted
  <2> QED BY <1>3, <1>7, <2>2 DEF NewPort
<1>8. CASE Launch(w)
  <2>1. ASSUME NEW a, Running(a), a \in Key, RunEngine(a) PROVE DependentTypes'
    <3>1. engines[a] \in Engine
      BY <1>1, <2>1 DEF Running, DependentTypes
    <3>2. [engines[a] EXCEPT !.runs = IF @ < MaxRuns THEN @ + 1 ELSE @] \in Engine
      BY <3>1 DEF Engine, MaxRuns
    <3> QED BY <1>1, <1>2, <2>1, <3>2 DEF RunEngine, DependentTypes, Budgeted
  <2>2. Target(w) \subseteq Key
    BY DEF Target, RestInv, QueueTypes
  <2> QED BY <1>3, <1>8, <2>1, <2>2 DEF Launch
<1>9. CASE \/ UpdateAstro(w) \/ WriteStatus(w) \/ RemoveFinalizer(w) \/ CallFails(w)
           \/ CountDeployment(w) \/ CountDone(w) \/ ReadService(w) \/ ReadEngine(w)
           \/ ReadEndpoint(w) \/ Return(w) \/ HandleErr(w)
  <2>1. UNCHANGED <<dependentVars, events>>
    BY <1>9 DEF UpdateAstro, WriteStatus, RemoveFinalizer, CallFails, CountDeployment, CountDone,
       ReadService, ReadEngine, ReadEndpoint, Return, HandleErr, Free, clusterVars, dependentVars
  <2> QED BY <1>3, <2>1
<1> QED
  BY <1>4, <1>5, <1>6, <1>7, <1>8, <1>9 DEF Work

LEMMA NextDependents ==
  ASSUME CopyInv, RestInv, Next
  PROVE  DependentTypes'
<1>1. StoreInv /\ HeldInv /\ DependentTypes
  BY CopyParts DEF RestInv
<1>2. CASE Restart
  <2>1. "crashes" \in Spending
    BY DEF Spending
  <2>2. Budgeted'
    BY <1>1, <1>2, <2>1, SpendBudget DEF Restart, Budgeted, DependentTypes
  <2> QED BY <1>1, <1>2, <2>2 DEF Restart, dependentVars, DependentTypes, Budgeted
<1>3. CASE \E a \in Key : Deliver(a) \/ HandleObject(a)
  BY <1>1, <1>3 DEF Deliver, HandleObject, dependentVars, DependentTypes
<1>4. CASE \E w \in Worker, a \in Key : Dispatch(w, a)
  <2>1. UNCHANGED clusterVars
    BY <1>4 DEF Dispatch, SyncGone, SyncDelete, SyncCreate, SyncInitialized, SyncWaited, SyncReady,
       SyncSettled, UpdateStart, Start
  <2> QED BY <1>1, <2>1 DEF clusterVars, DependentTypes
<1> QED
  BY <1>1, <1>2, <1>3, <1>4, EnvironmentDependents, WorkDependents DEF Next, Controller

-----------------------------------------------------------------------------
(* The queue *)

\* The operations of the queue and nothing else touch what is due.
LEMMA QueueSteps ==
  ASSUME CopyInv, QueueTypes, NEW k \in Key, NEW w \in Worker,
         \/ UNCHANGED <<pending, requeues>> \/ W!Enqueue(k) \/ W!Take(w, k)
         \/ W!Succeed(w) \/ W!Retry(w) \/ W!Drop(w)
  PROVE  pending' \subseteq Key /\ requeues' \in [Key -> 0..MaxRetries]
<1>1. MaxRetries \in Nat /\ 0 \in 0..MaxRetries
  BY ControllerAssumption
<1>2. ASSUME NEW j \in Key PROVE W!Bump(j) \in [Key -> 0..MaxRetries]
  BY <1>1 DEF W!Bump, QueueTypes
<1>3. ASSUME holder[w] # NoKey PROVE holder[w] \in Key
  BY <1>3 DEF CopyInv, CopyTypes
<1> QED
  BY <1>1, <1>2, <1>3 DEF QueueTypes, W!Enqueue, W!Take, W!Succeed, W!Retry, W!Drop

LEMMA NextQueue ==
  ASSUME CopyInv, RestInv, Next
  PROVE  QueueTypes'
<1>1. QueueTypes
  BY DEF RestInv
<1>2. CASE Environment /\ UNCHANGED controllerVars
  BY <1>1, <1>2 DEF controllerVars, workVars, QueueTypes
<1>3. ASSUME NEW a \in Key, Deliver(a) \/ HandleObject(a) PROVE QueueTypes'
  <2>1. UNCHANGED url /\ (UNCHANGED <<pending, requeues>> \/ W!Enqueue(a))
    BY <1>3 DEF Deliver, HandleObject, QueueVersion, workVars
  <2>2. ASSUME W!Enqueue(a)
        PROVE  pending' \subseteq Key /\ requeues' \in [Key -> 0..MaxRetries]
    BY <2>2, <1>1, ControllerAssumption DEF W!Enqueue, W!Bump, QueueTypes
  <2> QED BY <1>1, <2>1, <2>2 DEF QueueTypes
<1>4. ASSUME NEW w \in Worker, NEW a \in Key, Dispatch(w, a) PROVE QueueTypes'
  <2>1. UNCHANGED url /\ W!Take(w, a)
    BY <1>4, DispatchFrame DEF Dispatch
  <2> QED BY <1>1, <2>1, QueueSteps DEF QueueTypes
<1>5. ASSUME NEW w \in Worker, Work(w) \/ CallFails(w) PROVE QueueTypes'
  <2>1. CASE Return(w) \/ HandleErr(w)
    <3>1. holder[w] \in Key /\ (W!Succeed(w) \/ W!Retry(w) \/ W!Drop(w))
      BY <2>1 DEF Return, HandleErr, W!Succeed, W!Retry, W!Drop, CopyInv, CopyTypes
    <3>2. UNCHANGED url
      BY <1>5, <2>1 DEF Work, Return, HandleErr, ReadEndpoint, CallFails
    <3> QED BY <1>1, <3>1, <3>2, QueueSteps DEF QueueTypes
  <2>2. CASE NewAstermule(w) \/ NewPort(w) \/ ReadEngine(w)
    <3>1. holder[w] \in Key
      BY <2>2, CopyParts, HeldFacts DEF NewAstermule, NewPort, ReadEngine, Calls
    <3>2. UNCHANGED <<pending, requeues>> \/ W!Enqueue(holder[w])
      BY <2>2 DEF NewAstermule, NewPort, ReadEngine, AstermuleStarted, StillWaited, workVars
    <3>3. UNCHANGED url
      BY <1>5, <2>2 DEF Work, NewAstermule, NewPort, ReadEngine, ReadEndpoint, CallFails
    <3> QED BY <1>1, <3>1, <3>2, <3>3, QueueSteps DEF QueueTypes
  <2>3. CASE ReadEndpoint(w)
    <3>1. holder[w] \in Key
      BY <2>3, CopyParts, HeldFacts DEF ReadEndpoint, Calls
    <3> QED BY <1>1, <2>3, <3>1 DEF ReadEndpoint, workVars, QueueTypes
  <2>4. CASE \/ NewDeployment(w) \/ NewService(w) \/ UpdateAstro(w) \/ WriteStatus(w)
             \/ RemoveFinalizer(w) \/ CallFails(w) \/ CountDeployment(w) \/ CountDone(w)
             \/ ReadService(w) \/ Launch(w)
    <3>1. UNCHANGED workVars
      BY <2>4 DEF NewDeployment, NewService, UpdateAstro, WriteStatus, RemoveFinalizer, CallFails,
         CountDeployment, CountDone, ReadService, Launch
    <3>2. UNCHANGED url \/ ReadEndpoint(w)
      BY <1>5 DEF Work, CallFails
    <3> QED BY <1>1, <2>3, <3>1, <3>2 DEF workVars, QueueTypes
  <2> QED BY <1>5, <2>1, <2>2, <2>3, <2>4 DEF Work
<1>6. CASE Restart
  <2>1. requeues' \in [Key -> 0..MaxRetries]
    BY <1>6, ControllerAssumption DEF Restart
  <2> QED BY <1>6, <2>1 DEF Restart, QueueTypes
<1> QED BY <1>2, <1>3, <1>4, <1>5, <1>6 DEF Next, Controller

-----------------------------------------------------------------------------
(* The positions of loops *)

\* Worker w goes to a label whose position is good; the others stay.
LEMMA PositionStep ==
  ASSUME CopyTypes, PositionInv, NEW w \in Worker, NEW label, GoTo(w, label),
         \A v \in Worker \ {w} : obj'[v] = obj[v] /\ idx'[v] = idx[v],
         idx' \in [Worker -> Nat], ready' \in [Worker -> Nat],
         label \in {"stars", "service", "count", "read-service"} => idx'[w] >= 1,
         label = "service" => idx'[w] <= Len(obj'[w].stars)
  PROVE  PositionInv'
<1>1. pc'[w] = label /\ \A v \in Worker \ {w} : pc'[v] = pc[v]
  BY DEF GoTo, CopyTypes
<1> QED BY <1>1 DEF PositionInv, LoopInv

\* Outside of the loops the position does not matter.
LEMMA LeaveStep ==
  ASSUME CopyTypes, PositionInv, NEW w \in Worker, NEW label, GoTo(w, label),
         label \notin {"stars", "service", "count", "read-service"},
         \A v \in Worker \ {w} : obj'[v] = obj[v],
         Keep
  PROVE  PositionInv'
BY PositionStep DEF Keep, PositionInv

LEMMA FailPosition ==
  ASSUME CopyTypes, PositionInv, NEW w \in Worker, Fail(w)
  PROVE  PositionInv'
BY LeaveStep DEF Fail, Same

LEMMA SyncStatusPosition ==
  ASSUME CopyTypes, PositionInv, NEW w \in Worker, NEW s, SyncStatus(w, s), Keep
  PROVE  PositionInv'
<1>1. \A v \in Worker \ {w} : obj'[v] = obj[v]
  BY DEF SyncStatus, Assign, Same, CopyTypes
<1> QED BY <1>1, LeaveStep DEF SyncStatus

LEMMA DispatchPosition ==
  ASSUME CopyTypes, PositionInv, NEW w \in Worker, NEW a \in Key, Dispatch(w, a)
  PROVE  PositionInv'
<1>1. \A v \in Worker \ {w} : obj'[v] = obj[v]
  BY DEF Dispatch, SyncGone, SyncDelete, SyncCreate, SyncInitialized, SyncWaited, SyncReady,
     SyncSettled, UpdateStart, Hold, Same, CopyTypes
<1>2. ASSUME NEW label, Loop(w, label), label # "service", ready' \in [Worker -> Nat]
      PROVE  PositionInv'
  <2>1. /\ idx' \in [Worker -> Nat] /\ idx'[w] = 1
        /\ \A v \in Worker \ {w} : idx'[v] = idx[v]
    BY <1>2 DEF Loop, PositionInv
  <2> QED BY <1>1, <1>2, <2>1, PositionStep DEF Loop
<1>3. UNCHANGED ready \/ ready' = [ready EXCEPT ![w] = 0]
  BY DEF Dispatch, SyncGone, SyncDelete, SyncCreate, SyncInitialized, SyncWaited, SyncReady,
     SyncSettled, Keep
<1>4. ready' \in [Worker -> Nat]
  BY <1>3 DEF PositionInv
<1>5. \/ Loop(w, "stars") \/ Loop(w, "count") \/ Loop(w, "read-service")
      \/ (Keep /\ \E label \in {"return", "unfinalize", "read-engine", "read-endpoint"} :
                    GoTo(w, label))
  BY DEF Dispatch, SyncGone, SyncDelete, SyncCreate, SyncInitialized, SyncWaited, SyncReady,
     SyncSettled, Keep
<1> QED BY <1>1, <1>2, <1>4, <1>5, LeaveStep

LEMMA WorkPosition ==
  ASSUME CopyInv, PositionInv, NEW w \in Worker, Work(w) \/ CallFails(w)
  PROVE  PositionInv'
<1>1. CopyTypes
  BY DEF CopyInv
<1>2. CASE Fail(w)
  BY <1>1, <1>2, FailPosition
<1>3. CASE Keep /\ Same /\ \E label \in {"return", "create-port", "launch"} : GoTo(w, label)
  BY <1>1, <1>3, LeaveStep DEF Same
<1>4. CASE Keep /\ \E s : SyncStatus(w, s)
  BY <1>1, <1>4, SyncStatusPosition
<1>5. CASE NewDeployment(w)
  <2>1. ASSUME NEW refs,
               Assign(w, [obj[w] EXCEPT !.status.deploymentRef = refs]),
               GoTo(w, "service"), Keep
        PROVE  PositionInv'
    <3>1. obj[w] \in Astro /\ [obj[w] EXCEPT !.status.deploymentRef = refs].stars = obj[w].stars
      BY <1>5, CopyParts, HeldFacts DEF NewDeployment, Calls, Astro
    <3>2. /\ obj'[w].stars = obj[w].stars
          /\ \A v \in Worker \ {w} : obj'[v] = obj[v]
      BY <1>1, <2>1, <3>1 DEF Assign, CopyTypes
    <3>3. idx[w] >= 1 /\ idx[w] <= Len(obj[w].stars)
      BY <1>5 DEF NewDeployment, StarsLeft, PositionInv, LoopInv
    <3> QED BY <1>1, <2>1, <3>2, <3>3, PositionStep DEF Keep, PositionInv
  <2> QED BY <1>2, <1>5, <2>1 DEF NewDeployment, DeploymentExists, ReplyLost
<1>6. ASSUME NEW label \in {"stars", "count", "read-service"}, NextTurn(w, label),
             ready' \in [Worker -> Nat], \A v \in Worker \ {w} : obj'[v] = obj[v]
      PROVE  PositionInv'
  <2>1. /\ idx' \in [Worker -> Nat] /\ idx'[w] >= 1
        /\ \A v \in Worker \ {w} : idx'[v] = idx[v]
    BY <1>6 DEF NextTurn, PositionInv
  <2> QED BY <1>1, <1>6, <2>1, PositionStep DEF NextTurn
<1>7. CASE NewService(w)
  <2>1. ASSUME NEW c, Assign(w, c) PROVE \A v \in Worker \ {w} : obj'[v] = obj[v]
    BY <1>1, <2>1 DEF Assign, CopyTypes
  <2> QED BY <1>2, <1>6, <1>7, <2>1 DEF NewService, ReplyLost, PositionInv
<1>8. CASE CountDeployment(w)
  <2>1. ready[w] \in Nat /\ ready[w] + 1 \in Nat
    BY DEF PositionInv
  <2>2. Fail(w) \/ (/\ NextTurn(w, "count") /\ Same
                    /\ \E n \in Nat : ready' = [ready EXCEPT ![w] = n])
    BY <1>8, <2>1 DEF CountDeployment
  <2> QED BY <1>2, <1>6, <2>2 DEF Same, PositionInv
<1>9. CASE ReadService(w)
  BY <1>2, <1>6, <1>9 DEF ReadService, Same, PositionInv
<1>10. CASE UpdateAstro(w)
  <2>1. ASSUME NEW c, NEW label \in {"return", "status"}, obj' = [obj EXCEPT ![w] = c],
               GoTo(w, label), Keep
        PROVE  PositionInv'
    BY <1>1, <2>1, LeaveStep DEF CopyTypes
  <2> QED BY <1>2, <1>10, <2>1 DEF UpdateAstro, ReplyLost
<1>11. CASE Return(w) \/ HandleErr(w)
  <2>1. Free(w)
    BY <1>11 DEF Return, HandleErr
  <2>2. /\ idx' \in [Worker -> Nat] /\ ready' \in [Worker -> Nat]
        /\ \A v \in Worker \ {w} : obj'[v] = obj[v] /\ idx'[v] = idx[v]
    BY <1>1, <2>1 DEF Free, CopyTypes, PositionInv
  <2> QED BY <1>1, <2>1, <2>2, PositionStep DEF Free
<1>12. CASE WriteStatus(w) \/ RemoveFinalizer(w) \/ CallFails(w) \/ ReadEndpoint(w)
  BY <1>2, <1>3, <1>12 DEF WriteStatus, RemoveFinalizer, CallFails, ReadEndpoint, ReplyLost
<1>13. CASE CountDone(w) \/ ReadEngine(w)
  BY <1>2, <1>4, <1>13 DEF CountDone, ReadEngine
<1>14. CASE NewAstermule(w) \/ NewPort(w)
  BY <1>2, <1>3, <1>4, <1>14 DEF NewAstermule, NewPort, AstermuleStarted, EngineExists, ReplyLost
<1>15. CASE Launch(w)
  BY <1>2, <1>4, <1>15 DEF Launch, LaunchError, ReplyLost
<1> QED
  BY <1>5, <1>7, <1>8, <1>9, <1>10, <1>11, <1>12, <1>13, <1>14, <1>15 DEF Work

LEMMA NextPosition ==
  ASSUME CopyInv, RestInv, Next
  PROVE  PositionInv'
<1>1. CopyTypes /\ PositionInv
  BY DEF CopyInv, RestInv
<1>2. CASE UNCHANGED <<pc, obj, idx, ready>>
  BY <1>1, <1>2 DEF PositionInv, LoopInv
<1>3. CASE Restart
  BY <1>3 DEF Restart, PositionInv, LoopInv
<1>4. ASSUME NEW a \in Key, Deliver(a) \/ HandleObject(a) PROVE UNCHANGED <<pc, obj, idx, ready>>
  BY <1>4 DEF Deliver, HandleObject, syncVars
<1> QED
  BY <1>1, <1>2, <1>3, <1>4, DispatchPosition, WorkPosition
  DEF Next, Controller, controllerVars, syncVars

-----------------------------------------------------------------------------
(* The theorems *)

LEMMA InitInv == Init => IInv
<1> SUFFICES ASSUME Init PROVE IInv
  OBVIOUS
<1> USE DEF Init, ClusterInit, ControllerInit, W!WorkInit
<1>1. << >> \in Seq(Astro \cup {Nothing}) /\ \A a \in Key : 1..Len(watch[a]) = {}
  BY EmptySeq
<1>2. CopyTypes
  BY <1>1 DEF CopyTypes
<1>3. HolderInv /\ SyncInv
  BY DEF HolderInv, SyncInv, Calls
<1>4. FinalizerBeforeStatus /\ VersionsAgree
  BY <1>1 DEF FinalizerBeforeStatus, VersionsAgree, Exists
<1>5. DependentTypes
  BY BudgetAssumption DEF DependentTypes
<1>6. QueueTypes
  BY ControllerAssumption DEF QueueTypes
<1>7. PositionInv
  BY DEF PositionInv, LoopInv
<1> QED BY <1>2, <1>3, <1>4, <1>5, <1>6, <1>7, InvParts DEF CopyInv, RestInv

LEMMA StepInv == IInv /\ [Next]_vars => IInv'
<1> SUFFICES ASSUME IInv, [Next]_vars PROVE IInv'
  OBVIOUS
<1>1. CopyInv /\ RestInv
  BY InvParts
<1>2. CASE Next
  BY <1>1, <1>2, NextCopies, NextDependents, NextQueue, NextPosition, InvParts DEF RestInv
<1>3. CASE UNCHANGED vars
  <2>1. /\ UNCHANGED <<server, rev, watch, deploys, services, engines, ports, events, budget>>
        /\ UNCHANGED <<cache, pending, holder, requeues, pc, obj, alias, idx, ready, url>>
    BY <1>3 DEF vars, clusterVars, controllerVars, workVars, syncVars
  <2>2. CopyInv'
    BY <1>1, <2>1, CopyParts, AstroFrame, HeldFrame DEF Stable, astroVars
  <2>3. RestInv'
    BY <1>1, <2>1 DEF RestInv, DependentTypes, QueueTypes, PositionInv, LoopInv
  <2> QED BY <2>2, <2>3, InvParts
<1> QED BY <1>2, <1>3

\* Whatever users, pods, faults and restarts do, in any interleaving of the
\* workers: types, the exclusive keys of workers, the phase that each place in
\* syncAstro implies, the finalizer and the copies stay as IInv says.
THEOREM Invariance == Spec => []IInv
BY InitInv, StepInv, PTL DEF Spec

\* Every variable of the cluster and of the controller keeps its type.
THEOREM TypeCorrect == Spec => []TypeOK
<1>1. IInv => TypeOK
  BY DEF IInv
<1> QED BY <1>1, Invariance, PTL

\* The object that the lister returns, the versions on the watch and the objects
\* inside syncs can all be written back: one with the current ResourceVersion
\* differs from the stored Astro by a later phase or an own finalizer only.
THEOREM Versions == Spec => []VersionsAgree
<1>1. IInv => VersionsAgree
  BY DEF IInv
<1> QED BY <1>1, Invariance, PTL

\* UpdateStatus is never reached by an Astro without AstroFinalizer, so syncDelete
\* sees every Astro that has a status.
THEOREM FinalizerFirst == Spec => []FinalizerBeforeStatus
<1>1. IInv => FinalizerBeforeStatus
  BY DEF IInv
<1> QED BY <1>1, Invariance, PTL

\* No request of syncCreate or syncUpdate puts the stored phase of an Astro back.
THEOREM PhasesAdvance == Spec => PhaseOnlyAdvances
<1>1. ASSUME IInv, [Next]_vars
      PROVE  [\A a \in Key :
                Exists(a) /\ Exists(a)' /\ server'[a].uid = server[a].uid
                  => server'[a].status.phase \in Later[server[a].status.phase]]_vars
  BY <1>1, InvParts, NextCopies DEF Advances
<1> QED BY <1>1, Invariance, PTL DEF Spec, PhaseOnlyAdvances

=============================================================================
