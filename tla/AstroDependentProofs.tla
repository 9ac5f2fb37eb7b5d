-------------------------- MODULE AstroDependentProofs --------------------------
(***************************************************************************)
(* The lemmas of AstroSyncProofs: what a step may write to the store and   *)
(* to the dependents, why a copy of an Astro that was good stays good, and *)
(* that DependInv is kept by the outside, by the start of a sync and by    *)
(* the requests of syncCreate.                                             *)
(***************************************************************************)
EXTENDS AstroControllerProofs, AstroDependents

-----------------------------------------------------------------------------
(* What a step writes to the store *)

\* A new Astro, an edited one, or one with the status of the object that a sync
\* computed from the stored version.
Written(a, v) ==
  \/ v.uid = rev[a] + 1 /\ v.status = EmptyStatus
  \/ /\ Exists(a) /\ v.uid = server[a].uid /\ v.status = server[a].status
     /\ v.finalizer \/ v.deleting \/ (~server[a].finalizer /\ ~server[a].deleting)
  \/ /\ Exists(a) /\ v.uid = server[a].uid /\ v.finalizer
     /\ \E w \in Worker : \E c \in Held(w) :
          holder[w] = a /\ c.uid = v.uid /\ c.stars = v.stars /\ c.status = v.status

Write(a, v) == Store(a, v) /\ (v.status.phase # "Unset" => v.finalizer) /\ Written(a, v)

StoreMoves ==
  \/ /\ UNCHANGED <<server, rev>> /\ \A a \in Key : Watched(a)' \subseteq Watched(a)
     /\ watch' = watch \/ Restart \/ \E a \in Key : Deliver(a)
  \/ \E a \in Key : Remove(a) \/ \E v \in Astro : Write(a, v)

LEMMA FrameMoves == ASSUME UNCHANGED astroVars PROVE StoreMoves
BY DEF StoreMoves, astroVars, Watched

LEMMA EnvironmentMoves == ASSUME StoreInv, Environment PROVE StoreMoves
<1>1. CASE UNCHANGED astroVars
  BY <1>1, FrameMoves
<1>2. ASSUME NEW a \in Key, UserCreates(a) PROVE StoreMoves
  <2>1. PICK stars \in StarLists :
          Store(a, [uid |-> rev[a] + 1, rv |-> 0, deleting |-> FALSE, finalizer |-> FALSE,
                    stars |-> stars, status |-> EmptyStatus])
    BY <1>2 DEF UserCreates
  <2>2. PICK v \in Astro : /\ Store(a, v) /\ v.status.phase = "Unset"
                           /\ v.uid = rev[a] + 1 /\ v.status = EmptyStatus
    BY <2>1, CreatedAstro
  <2> QED BY <2>2 DEF StoreMoves, Write, Written
<1>3. ASSUME NEW a \in Key, UserEdits(a) PROVE StoreMoves
  <2>1. PICK stars \in StarLists : Store(a, [server[a] EXCEPT !.stars = stars])
    BY <1>3 DEF UserEdits
  <2>2. Exists(a) /\ server[a] \in Astro
    BY <1>3 DEF UserEdits, StoreInv, Exists
  <2>3. PICK v \in Astro :
          /\ Store(a, v) /\ v.status = server[a].status /\ v.uid = server[a].uid
          /\ v.finalizer = server[a].finalizer /\ v.deleting = server[a].deleting
    BY <2>1, <2>2, EditedAstro
  <2>4. v.status.phase # "Unset" => v.finalizer
    BY <2>2, <2>3 DEF StoreInv, FinalizerBeforeStatus
  <2> QED BY <2>2, <2>3, <2>4 DEF StoreMoves, Write, Written
<1>4. ASSUME NEW a \in Key, UserDeletes(a) PROVE StoreMoves
  <2>1. CASE Remove(a)
    BY <2>1 DEF StoreMoves
  <2>2. CASE server[a].finalizer /\ Store(a, [server[a] EXCEPT !.deleting = TRUE])
    <3>1. Exists(a) /\ server[a] \in Astro
      BY <1>4 DEF UserDeletes, StoreInv, Exists
    <3>2. PICK v \in Astro :
            /\ v = [server[a] EXCEPT !.deleting = TRUE] /\ v.deleting = TRUE
            /\ v.uid = server[a].uid /\ v.status = server[a].status
            /\ v.finalizer = server[a].finalizer
      BY <3>1, DeletedAstro
    <3>3. Written(a, v) /\ v.finalizer /\ Store(a, v)
      BY <2>2, <3>1, <3>2 DEF Written
    <3> QED BY <3>2, <3>3 DEF StoreMoves, Write
  <2> QED BY <1>4, <2>1, <2>2 DEF UserDeletes
<1> QED
  BY <1>1, <1>2, <1>3, <1>4 DEF Environment, EngineSettles, EngineLost, CollectEngine,
     CollectPort, DeploymentAvailable, DeploymentUnavailable, DeploymentReports,
     CollectDeployment, CollectService, astroVars

LEMMA UpdateMoves ==
  ASSUME StoreInv, NEW a \in Key, NEW o \in Astro, CopyOK(a, o), Update(a, o),
         o.finalizer \/ o.deleting
  PROVE  StoreMoves
<1>1. /\ Exists(a) /\ server[a] \in Astro /\ o.rv = server[a].rv
      /\ o.deleting = server[a].deleting /\ o.finalizer \in BOOLEAN
  BY AstroFields DEF Update, Fresh, StoreInv, Exists, CopyOK
<1>2. CASE Remove(a)
  BY <1>2 DEF StoreMoves
<1>3. CASE o.finalizer /\ Store(a, [server[a] EXCEPT !.finalizer = o.finalizer])
  <2>1. PICK v \in Astro :
          /\ v = [server[a] EXCEPT !.finalizer = o.finalizer] /\ v.finalizer = o.finalizer
          /\ v.uid = server[a].uid /\ v.status = server[a].status
    BY <1>1, NewFinalizer
  <2>2. Store(a, v)
    BY <1>3, <2>1
  <2> QED BY <1>1, <1>3, <2>1, <2>2 DEF StoreMoves, Write, Written
<1> QED BY <1>1, <1>2, <1>3 DEF Update

LEMMA WorkMoves ==
  ASSUME CopyInv, NEW w \in Worker, Work(w) \/ CallFails(w)
  PROVE  StoreMoves
<1>1. StoreInv /\ HeldInv
  BY CopyParts
<1>2. CASE UNCHANGED astroVars
  BY <1>2, FrameMoves
<1>3. ASSUME UpdateAstro(w) \/ RemoveFinalizer(w), Update(holder[w], obj[w])
      PROVE  StoreMoves
  <2>1. pc[w] \in Calls
    BY <1>3 DEF UpdateAstro, RemoveFinalizer, Calls
  <2>2. PICK a \in Key, o \in Astro : a = holder[w] /\ o = obj[w]
    BY <1>1, <2>1, HeldFacts
  <2>3. CopyOK(a, o) /\ (o.finalizer \/ o.deleting)
    BY <1>1, <2>1, <2>2, HeldFacts
  <2> QED BY <1>1, <1>3, <2>2, <2>3, UpdateMoves
<1>4. ASSUME WriteStatus(w), UpdateStatus(holder[w], obj[w]) PROVE StoreMoves
  <2>1. pc[w] = "status" /\ pc[w] \in Calls /\ PhaseAt("status") = Phase \ {"Unset"}
    BY <1>4 DEF WriteStatus, Calls, PhaseAt
  <2>2. PICK a \in Key, o \in Astro : a = holder[w] /\ o = obj[w]
    BY <1>1, <2>1, HeldFacts
  <2>3. CopyOK(a, o) /\ ~o.deleting /\ o.status.phase # "Unset" /\ o.status \in Status
    BY <1>1, <2>1, <2>2, HeldFacts
  <2>4. /\ Exists(a) /\ server[a] \in Astro /\ server[a].finalizer /\ o.uid = server[a].uid
        /\ o.stars = server[a].stars
    BY <1>1, <1>4, <2>2, <2>3 DEF UpdateStatus, Fresh, StoreInv, Exists, CopyOK
  <2>5. PICK v \in Astro :
          /\ v = [server[a] EXCEPT !.status = o.status] /\ v.status = o.status
          /\ v.uid = server[a].uid /\ v.finalizer = server[a].finalizer
          /\ v.stars = server[a].stars
    <3>1. PICK c \in Astro, s \in Status : c = server[a] /\ s = o.status
      BY <2>3, <2>4
    <3>2. PICK v \in Astro :
            /\ v = [c EXCEPT !.status = s] /\ v.status = s
            /\ v.uid = c.uid /\ v.finalizer = c.finalizer /\ v.stars = c.stars
      BY <3>1, NewStatus
    <3> QED BY <3>1, <3>2
  <2>6. Store(a, v)
    BY <1>4, <2>2, <2>5 DEF UpdateStatus
  <2>7. o \in Held(w) /\ v.finalizer
    BY <2>2, <2>4, <2>5, AstroFields DEF Held
  <2>s. v.stars = o.stars /\ v.uid = o.uid /\ v.status = o.status
    BY <2>4, <2>5
  <2>8. Written(a, v)
    BY <2>2, <2>4, <2>5, <2>7, <2>s DEF Written
  <2> QED BY <2>4, <2>5, <2>6, <2>8 DEF StoreMoves, Write
<1>5. CASE UpdateAstro(w) \/ WriteStatus(w) \/ RemoveFinalizer(w)
  BY <1>2, <1>3, <1>4, <1>5 DEF UpdateAstro, WriteStatus, RemoveFinalizer
<1>6. CASE NewDeployment(w) \/ NewService(w)
  BY <1>2, <1>6 DEF NewDeployment, NewService
<1>7. CASE \/ CountDeployment(w) \/ CountDone(w) \/ ReadService(w) \/ ReadEngine(w)
           \/ ReadEndpoint(w) \/ Return(w) \/ HandleErr(w)
  <2>1. UNCHANGED clusterVars
    BY <1>7 DEF CountDeployment, CountDone, ReadService, ReadEngine, ReadEndpoint, Return,
       HandleErr, Free
  <2> QED BY <1>2, <2>1 DEF clusterVars, astroVars
<1>8. CASE NewAstermule(w) \/ NewPort(w) \/ Launch(w) \/ CallFails(w)
  BY <1>2, <1>8 DEF NewAstermule, NewPort, Launch, CallFails
<1> QED BY <1>5, <1>6, <1>7, <1>8 DEF Work

LEMMA DeliverMoves == ASSUME StoreInv, NEW a \in Key, Deliver(a) PROVE StoreMoves
<1>1. /\ watch[a] # << >> /\ watch[a] \in Seq(Astro \cup {Nothing})
      /\ watch' = [watch EXCEPT ![a] = Tail(watch[a])]
      /\ UNCHANGED <<server, rev>>
  BY DEF Deliver, StoreInv
<1>2. \A i \in 1..Len(Tail(watch[a])) :
        i + 1 \in 1..Len(watch[a]) /\ Tail(watch[a])[i] = watch[a][i + 1]
  BY <1>1, HeadTailProperties, LenProperties, EmptySeq
<1>3. ASSUME NEW b \in Key PROVE Watched(b)' \subseteq Watched(b)
  <2>1. CASE b = a
    <3>1. watch'[b] = Tail(watch[a])
      BY <1>1, <2>1 DEF StoreInv
    <3> QED BY <1>2, <2>1, <3>1 DEF Watched
  <2>2. CASE b # a
    <3>1. watch'[b] = watch[b]
      BY <1>1, <2>2 DEF StoreInv
    <3> QED BY <3>1 DEF Watched
  <2> QED BY <2>1, <2>2
<1> QED BY <1>1, <1>3 DEF StoreMoves

LEMMA NextMoves == ASSUME CopyInv, Next PROVE StoreMoves
<1>1. StoreInv
  BY CopyParts
<1>2. CASE Restart
  <2>1. UNCHANGED <<server, rev>> /\ watch' = [a \in Key |-> << >>]
    BY <1>2 DEF Restart
  <2>2. \A a \in Key : Watched(a)' = {}
    BY <2>1, EmptySeq DEF Watched
  <2> QED BY <1>2, <2>1, <2>2 DEF StoreMoves
<1>3. ASSUME NEW a \in Key, HandleObject(a) PROVE StoreMoves
  BY <1>3, FrameMoves DEF HandleObject
<1>4. ASSUME NEW w \in Worker, NEW a \in Key, Dispatch(w, a) PROVE StoreMoves
  <2>1. UNCHANGED astroVars
    BY <1>4 DEF Dispatch, SyncGone, SyncDelete, SyncCreate, SyncInitialized, SyncWaited,
       SyncReady, SyncSettled, UpdateStart, Start, astroVars, clusterVars
  <2> QED BY <2>1, FrameMoves
<1> QED
  BY <1>1, <1>2, <1>3, <1>4, EnvironmentMoves, DeliverMoves, WorkMoves DEF Next, Controller

-----------------------------------------------------------------------------
(* What every step keeps *)

\* An Astro that is there after a step was there before it, or is newer than
\* every earlier version of its name.
StoreKept ==
  \A a \in Key :
    /\ rev[a] <= rev'[a]
    /\ Exists(a)' => \/ server'[a].uid = rev[a] + 1
                     \/ Exists(a) /\ server[a].uid = server'[a].uid

\* What belongs to an Astro that is there stays there.
DeploymentsKept ==
  \A s \in Star : deploys[s] # Nothing /\ Alive(deploys[s].owner) =>
    /\ deploys'[s] # Nothing /\ deploys'[s].owner = deploys[s].owner
    /\ Started(s) => Started(s)'

ServicesKept ==
  \A s \in Star : services[s] # Nothing /\ Alive(services[s]) => services'[s] = services[s]

EnginesKept ==
  \A a \in Key : engines[a] # Nothing /\ Alive(engines[a].owner) =>
    /\ engines'[a] # Nothing /\ engines'[a].owner = engines[a].owner
    /\ engines'[a].nodes = engines[a].nodes /\ engines'[a].runs >= engines[a].runs

PortsKept ==
  \A a \in Key : ports[a] # Nothing /\ Alive(ports[a]) => ports'[a] = ports[a]

DependentsKept == DeploymentsKept /\ ServicesKept /\ EnginesKept /\ PortsKept

Kept == StoreKept /\ DependentsKept

LEMMA MovesKeep == ASSUME StoreInv, StoreMoves PROVE StoreKept
<1>1. CASE UNCHANGED <<server, rev>>
  BY <1>1 DEF StoreInv, StoreKept, Exists
<1>2. ASSUME NEW a \in Key, Remove(a) PROVE StoreKept
  BY <1>2 DEF StoreInv, Remove, StoreKept, Exists
<1>3. ASSUME NEW a \in Key, NEW v \in Astro, Write(a, v) PROVE StoreKept
  <2>1. \A b \in Key : rev[b] \in Nat /\ rev[b] <= rev'[b]
    BY <1>3 DEF StoreInv, Write, Store
  <2>2. server'[a].uid = v.uid /\ \A b \in Key \ {a} : server'[b] = server[b]
    BY <1>3, StoreKeeps DEF Write
  <2>3. v.uid = rev[a] + 1 \/ (Exists(a) /\ v.uid = server[a].uid)
    BY <1>3 DEF Write, Written
  <2> QED BY <2>1, <2>2, <2>3 DEF StoreKept, Exists
<1> QED BY <1>1, <1>2, <1>3 DEF StoreMoves

LEMMA RunsCount ==
  ASSUME DependentTypes
  PROVE  \A a \in Key : engines[a] # Nothing =>
           engines[a].runs \in Nat /\ engines[a].runs >= engines[a].runs
BY DEF DependentTypes, Engine, MaxRuns

LEMMA FrameKeeps ==
  ASSUME DependentTypes
  PROVE  /\ UNCHANGED deploys => DeploymentsKept
         /\ UNCHANGED services => ServicesKept
         /\ UNCHANGED engines => EnginesKept
         /\ UNCHANGED ports => PortsKept
         /\ UNCHANGED dependentVars => DependentsKept
<1>1. \A a \in Key : engines[a] # Nothing => engines[a].runs >= engines[a].runs
  BY RunsCount
<1>2. UNCHANGED deploys => DeploymentsKept
  BY DEF DeploymentsKept, Started
<1>3. UNCHANGED engines => EnginesKept
  BY <1>1 DEF EnginesKept
<1> QED
  BY <1>2, <1>3 DEF ServicesKept, PortsKept, DependentsKept, dependentVars

\* An engine changes its phase or counts a launch.
LEMMA EngineKeeps ==
  ASSUME DependentTypes, NEW a \in Key, engines[a] # Nothing, NEW e \in Engine,
         engines' = [engines EXCEPT ![a] = e], e.owner = engines[a].owner,
         e.nodes = engines[a].nodes, e.runs >= engines[a].runs, e # Nothing
  PROVE  EnginesKept
<1>1. engines'[a] = e /\ \A b \in Key \ {a} : engines'[b] = engines[b]
  BY DEF DependentTypes
<1>2. \A b \in Key : engines[b] # Nothing => engines[b].runs >= engines[b].runs
  BY RunsCount
<1>3. \A b \in Key : engines[b] # Nothing =>
         /\ engines'[b] # Nothing /\ engines'[b].owner = engines[b].owner
         /\ engines'[b].nodes = engines[b].nodes /\ engines'[b].runs >= engines[b].runs
  BY <1>1, <1>2
<1> QED BY <1>3 DEF EnginesKept

LEMMA EnvironmentKeeps == ASSUME DependentTypes, Environment PROVE DependentsKept
<1> USE FrameKeeps
<1>1. ASSUME NEW a \in Key, EngineSettles(a) \/ EngineLost(a) PROVE DependentsKept
  <2>1. /\ UNCHANGED <<deploys, services, ports>> /\ engines[a] # Nothing
        /\ \E p \in {"running", "failed"} : engines' = [engines EXCEPT ![a].phase = p]
    BY <1>1 DEF EngineSettles, EngineLost
  <2>2. PICK p \in {"running", "failed"} : engines' = [engines EXCEPT ![a].phase = p]
    BY <2>1
  <2>3. PICK e \in Engine : e = [engines[a] EXCEPT !.phase = p]
    <3>1. engines[a] \in Engine
      BY <2>1 DEF DependentTypes
    <3>2. [engines[a] EXCEPT !.phase = p] \in Engine
      BY <3>1, <2>2 DEF Engine, EnginePhase
    <3> QED BY <3>2
  <2>4. e.owner = engines[a].owner /\ e.nodes = engines[a].nodes /\ e.runs >= engines[a].runs
    BY <2>1, <2>3 DEF DependentTypes, Engine, MaxRuns
  <2>5. engines' = [engines EXCEPT ![a] = e] /\ e # Nothing
    BY <2>2, <2>3, DependentsAssumption
  <2> QED BY <2>1, <2>4, <2>5, EngineKeeps DEF DependentsKept
<1>2. ASSUME NEW a \in Key, CollectEngine(a) PROVE DependentsKept
  <2>1. EnginesKept
    <3>1. \A b \in Key : engines[b] # Nothing => engines[b].runs >= engines[b].runs
      BY RunsCount
    <3>2. \A b \in Key \ {a} : engines'[b] = engines[b]
      BY <1>2 DEF CollectEngine, DependentTypes
    <3> QED BY <1>2, <3>1, <3>2 DEF CollectEngine, EnginesKept
  <2> QED BY <1>2, <2>1 DEF CollectEngine, DependentsKept
<1>3. ASSUME NEW a \in Key, CollectPort(a) PROVE DependentsKept
  <2>1. PortsKept
    BY <1>3 DEF CollectPort, PortsKept, DependentTypes
  <2> QED BY <1>3, <2>1 DEF CollectPort, DependentsKept
<1>4. ASSUME NEW s \in Star, DeploymentAvailable(s) \/ DeploymentUnavailable(s)
      PROVE  DependentsKept
  <2>1. /\ UNCHANGED <<services, engines, ports>> /\ deploys[s] # Nothing
        /\ \E h \in {"available", "unavailable"} : deploys' = [deploys EXCEPT ![s].health = h]
    BY <1>4 DEF DeploymentAvailable, DeploymentUnavailable
  <2>2. PICK h \in {"available", "unavailable"} :
          deploys' = [deploys EXCEPT ![s] = [deploys[s] EXCEPT !.health = h]]
    BY <2>1
  <2>3. PICK d \in Deployment : d = [deploys[s] EXCEPT !.health = h]
    <3>1. deploys[s] \in Deployment
      BY <2>1 DEF DependentTypes
    <3>2. [deploys[s] EXCEPT !.health = h] \in Deployment
      BY <3>1, <2>2 DEF Deployment, Health
    <3> QED BY <3>2
  <2>4. d.owner = deploys[s].owner /\ d.health # "starting" /\ d # Nothing
    BY <2>1, <2>2, <2>3, DependentsAssumption DEF DependentTypes, Deployment
  <2>5. deploys'[s] = d /\ \A r \in Star \ {s} : deploys'[r] = deploys[r]
    BY <2>2, <2>3 DEF DependentTypes
  <2>6. DeploymentsKept
    BY <2>4, <2>5 DEF DeploymentsKept, Started
  <2> QED BY <2>1, <2>6 DEF DependentsKept
<1>5. ASSUME NEW s \in Star, CollectDeployment(s) PROVE DependentsKept
  <2>1. DeploymentsKept
    BY <1>5 DEF CollectDeployment, DeploymentsKept, DependentTypes, Started
  <2> QED BY <1>5, <2>1 DEF CollectDeployment, DependentsKept
<1>6. ASSUME NEW s \in Star, CollectService(s) PROVE DependentsKept
  <2>1. ServicesKept
    BY <1>6 DEF CollectService, ServicesKept, DependentTypes
  <2> QED BY <1>6, <2>1 DEF CollectService, DependentsKept
<1>7. ASSUME NEW a \in Key, UserCreates(a) \/ UserEdits(a) \/ UserDeletes(a)
      PROVE  DependentsKept
  BY <1>7 DEF UserCreates, UserEdits, UserDeletes
<1>8. ASSUME NEW s \in Star, DeploymentReports(s) PROVE DependentsKept
  BY <1>8 DEF DeploymentReports
<1> QED BY <1>1, <1>2, <1>3, <1>4, <1>5, <1>6, <1>7, <1>8 DEF Environment

\* The requests of a sync create what is not there; a launch is counted.
LEMMA WorkKeeps ==
  ASSUME HeldInv, RestInv, NEW w \in Worker, Work(w) \/ CallFails(w)
  PROVE  DependentsKept
<1>1. DependentTypes
  BY DEF RestInv
<1> USE <1>1, FrameKeeps
<1>3. CASE NewDeployment(w)
  <2>1. ASSUME NEW s, deploys[s] = Nothing, CreateDeployment(s, Self(w)) PROVE DependentsKept
    <3>1. DeploymentsKept
      BY <2>1 DEF CreateDeployment, DeploymentsKept, DependentTypes, Started
    <3> QED BY <2>1, <3>1 DEF CreateDeployment, DependentsKept
  <2> QED BY <1>3, <2>1 DEF NewDeployment
<1>4. CASE NewService(w)
  <2>1. ASSUME NEW s, services[s] = Nothing, CreateService(s, Self(w)) PROVE DependentsKept
    <3>1. ServicesKept
      BY <2>1 DEF CreateService, ServicesKept, DependentTypes
    <3> QED BY <2>1, <3>1 DEF CreateService, DependentsKept
  <2> QED BY <1>4, <2>1 DEF NewService
<1>5. CASE NewAstermule(w)
  <2>1. CASE /\ engines[holder[w]] = Nothing
             /\ CreateEngine(holder[w], Self(w), obj[w].status.serviceRef)
    <3>1. \A a \in Key : engines[a] # Nothing => engines'[a] = engines[a]
      BY <2>1 DEF CreateEngine, DependentTypes
    <3>2. \A a \in Key : engines[a] # Nothing => engines[a].runs >= engines[a].runs
      BY RunsCount
    <3>3. EnginesKept
      BY <3>1, <3>2 DEF EnginesKept
    <3> QED BY <2>1, <3>3 DEF CreateEngine, DependentsKept
  <2> QED BY <1>5, <2>1 DEF NewAstermule
<1>6. CASE NewPort(w)
  <2>1. CASE ~PortTaken /\ CreatePort(holder[w], Self(w))
    <3>1. PortsKept
      BY <2>1 DEF CreatePort, PortTaken, PortsKept
    <3> QED BY <2>1, <3>1 DEF CreatePort, DependentsKept
  <2> QED BY <1>6, <2>1 DEF NewPort
<1>7. CASE Launch(w)
  <2>1. ASSUME NEW a \in Key, Running(a), RunEngine(a) PROVE DependentsKept
    <3>1. engines[a] # Nothing /\ engines[a] \in Engine
      BY <2>1 DEF Running, DependentTypes
    <3>2. PICK n \in 0..MaxRuns :
            /\ n = IF engines[a].runs < MaxRuns THEN engines[a].runs + 1 ELSE engines[a].runs
            /\ n >= engines[a].runs
      BY <3>1 DEF Engine, MaxRuns
    <3>3. PICK e \in Engine : e = [engines[a] EXCEPT !.runs = n]
      BY <3>1 DEF Engine
    <3>4. /\ e.owner = engines[a].owner /\ e.nodes = engines[a].nodes /\ e.runs = n
          /\ e # Nothing
      BY <3>1, <3>3, DependentsAssumption DEF Engine
    <3>5. engines' = [engines EXCEPT ![a] = e]
      BY <2>1, <3>2, <3>3 DEF RunEngine
    <3>6. EnginesKept
      BY <3>1, <3>2, <3>4, <3>5, EngineKeeps
    <3> QED BY <2>1, <3>6 DEF RunEngine, DependentsKept
  <2>2. Target(w) \subseteq Key
    BY DEF Target, RestInv, QueueTypes
  <2> QED BY <1>7, <2>1, <2>2 DEF Launch
<1>8. CASE \/ UpdateAstro(w) \/ WriteStatus(w) \/ RemoveFinalizer(w) \/ CallFails(w)
           \/ CountDeployment(w) \/ CountDone(w) \/ ReadService(w) \/ ReadEngine(w)
           \/ ReadEndpoint(w) \/ Return(w) \/ HandleErr(w)
  <2>1. UNCHANGED dependentVars
    BY <1>8 DEF UpdateAstro, WriteStatus, RemoveFinalizer, CallFails, CountDeployment, CountDone,
       ReadService, ReadEngine, ReadEndpoint, Return, HandleErr, Free, clusterVars, dependentVars
  <2> QED BY <2>1
<1> QED BY <1>3, <1>4, <1>5, <1>6, <1>7, <1>8 DEF Work

LEMMA NextKept == ASSUME CopyInv, RestInv, Next PROVE Kept
<1>1. StoreInv /\ HeldInv /\ DependentTypes
  BY CopyParts DEF RestInv
<1>2. StoreKept
  BY <1>1, NextMoves, MovesKeep
<1>3. CASE UNCHANGED dependentVars
  BY <1>1, <1>2, <1>3, FrameKeeps DEF Kept
<1>4. CASE Restart \/ \E a \in Key : Deliver(a) \/ HandleObject(a)
  BY <1>3, <1>4 DEF Restart, Deliver, HandleObject
<1>5. CASE \E w \in Worker, a \in Key : Dispatch(w, a)
  <2>1. UNCHANGED clusterVars
    BY <1>5 DEF Dispatch, SyncGone, SyncDelete, SyncCreate, SyncInitialized, SyncWaited, SyncReady,
       SyncSettled, UpdateStart, Start
  <2> QED BY <1>3, <2>1 DEF clusterVars, dependentVars
<1> QED
  BY <1>1, <1>2, <1>4, <1>5, EnvironmentKeeps, WorkKeeps DEF Kept, Next, Controller

-----------------------------------------------------------------------------
(* What is said of a copy stays true *)

\* What is known of a step by now.
StepFacts ==
  CopyInv /\ RestInv /\ CopyInv' /\ RestInv' /\ StoreMoves /\ Kept /\ Advances

LEMMA NextFacts == ASSUME CopyInv, RestInv, Next PROVE StepFacts
BY NextMoves, NextKept, NextCopies, NextDependents, NextQueue, NextPosition
DEF StepFacts, RestInv

LEMMA FactTypes ==
  ASSUME StepFacts
  PROVE  /\ rev \in [Key -> Nat] /\ rev' \in [Key -> Nat]
         /\ server \in [Key -> Astro \cup {Nothing}] /\ server' \in [Key -> Astro \cup {Nothing}]
         /\ DependentTypes /\ DependentTypes' /\ StoreKept /\ DependentsKept
         /\ StoreInv /\ HeldInv /\ StoreInv' /\ HeldInv'
BY CopyParts DEF StepFacts, Kept, CopyInv, CopyTypes, RestInv

\* An owner that is alive after a step was alive before it.
LEMMA AliveBefore ==
  ASSUME StoreKept, rev \in [Key -> Nat], NEW own \in Owner, own.uid <= rev[own.name], Alive(own)'
  PROVE  Alive(own) /\ Exists(own.name) /\ server'[own.name].uid = server[own.name].uid
<1>1. own.name \in Key /\ own.uid \in Nat
  BY DEF Owner
<1>2. rev[own.name] \in Nat
  BY <1>1
<1>3. server'[own.name].uid = own.uid /\ Exists(own.name)'
  BY DEF Alive
<1> QED BY <1>1, <1>2, <1>3 DEF StoreKept, Alive, Exists

\* The facts about dependents that Backed is made of.
LEMMA OwnedKept ==
  ASSUME StepFacts, NEW own \in Owner, Alive(own)
  PROVE  /\ \A s \in Star : OwnsDeployment(own, s) => OwnsDeployment(own, s)' /\ (Started(s) => Started(s)')
         /\ \A s \in Star : services[s] = own => services'[s] = own
         /\ ports[own.name] = own => ports'[own.name] = own
         /\ \A nodes : OwnsEngine(own, nodes) =>
              /\ OwnsEngine(own, nodes)'
              /\ engines[own.name].runs > 0 => engines'[own.name].runs > 0
<1>1. own.name \in Key /\ own # Nothing /\ DependentsKept /\ DependentTypes /\ DependentTypes'
  BY TypesAssumption, FactTypes DEF Owner
<1>2. \A s \in Star : OwnsDeployment(own, s) => OwnsDeployment(own, s)' /\ (Started(s) => Started(s)')
  BY <1>1 DEF DependentsKept, DeploymentsKept, OwnsDeployment
<1>3. \A s \in Star : services[s] = own => services'[s] = own
  BY <1>1 DEF DependentsKept, ServicesKept
<1>4. ports[own.name] = own => ports'[own.name] = own
  BY <1>1 DEF DependentsKept, PortsKept
<1>5. ASSUME NEW nodes, OwnsEngine(own, nodes)
      PROVE  OwnsEngine(own, nodes)' /\ engines'[own.name].runs >= engines[own.name].runs
  BY <1>1, <1>5 DEF DependentsKept, EnginesKept, OwnsEngine
<1>6. ASSUME NEW nodes, OwnsEngine(own, nodes), engines[own.name].runs > 0
      PROVE  engines'[own.name].runs > 0
  <2>1. engines[own.name].runs \in Nat
    BY <1>1, <1>6, RunsCount DEF OwnsEngine
  <2>2. engines'[own.name] # Nothing
    BY <1>5, <1>6 DEF OwnsEngine
  <2>3. engines'[own.name] \in Engine
    BY <1>1, <2>2 DEF DependentTypes
  <2>4. engines'[own.name].runs \in Nat
    BY <2>3 DEF Engine, MaxRuns
  <2> QED BY <1>5, <1>6, <2>1, <2>4
<1> QED BY <1>2, <1>3, <1>4, <1>5, <1>6

LEMMA BackedKept ==
  ASSUME StepFacts, NEW own \in Owner, Alive(own),
         NEW st \in Status, Backed(own, st)
  PROVE  Backed(own, st)'
<1>1. /\ \A i \in 1..Len(st.deploymentRef) : st.deploymentRef[i] \in Star
      /\ \A i \in 1..Len(st.serviceRef) : st.serviceRef[i] \in Star
  BY ElementOfSeq DEF Status
<1>2. RefsBacked(own, st)'
  BY <1>1, OwnedKept DEF Backed, RefsBacked, Listed
<1>3. PhaseBacked(st)'
  BY <1>1, OwnedKept DEF Backed, RefsBacked, PhaseBacked
<1>4. EngineBacked(own, st)'
  BY OwnedKept DEF Backed, EngineBacked
<1> QED BY <1>2, <1>3, <1>4 DEF Backed

LEMMA OwnerOfCopy ==
  ASSUME NEW a \in Key, NEW c \in Astro
  PROVE  OwnerOf(a, c) \in Owner /\ OwnerOf(a, c).name = a /\ OwnerOf(a, c).uid = c.uid
BY AstroFields DEF OwnerOf, Owner

LEMMA GoodKept ==
  ASSUME StepFacts, NEW a \in Key, NEW c \in Astro, Good(a, c)
  PROVE  Good(a, c)' /\ (Recorded(a, c) => Recorded(a, c)')
<1> DEFINE own == OwnerOf(a, c)
<1>1. /\ own \in Owner /\ own.name = a /\ own.uid = c.uid
      /\ c.uid \in Nat /\ c.status \in Status /\ c.uid <= rev[a]
  BY OwnerOfCopy, AstroFields DEF Good
<1>2. ASSUME Alive(own)'
      PROVE  Alive(own) /\ Exists(a) /\ server'[a].uid = server[a].uid
  BY <1>1, <1>2, AliveBefore, FactTypes
<1>3. Alive(own)' => Backed(own, c.status)'
  BY <1>1, <1>2, BackedKept DEF Good
<1>4. c.uid <= rev'[a]
  BY <1>1, FactTypes DEF StoreKept
<1>5. Recorded(a, c) => Recorded(a, c)'
  <2> SUFFICES ASSUME Recorded(a, c), c.status.phase # "Unset", Alive(own)'
               PROVE  server'[a].status.phase # "Unset"
    BY DEF Recorded
  <2>1. Exists(a) /\ Exists(a)' /\ server'[a].uid = server[a].uid /\ server[a].status.phase # "Unset"
    BY <1>1, <1>2 DEF Recorded, Alive
  <2>2. server'[a].status.phase \in Later[server[a].status.phase]
    BY <2>1 DEF StepFacts, Advances
  <2>3. server[a].status.phase \in Phase
    BY <2>1, FactTypes, AstroFields DEF Exists
  <2> QED BY <2>1, <2>2, <2>3, LaterFacts
<1> QED BY <1>3, <1>4, <1>5 DEF Good

\* A copy with the uid and the status of a good one.
LEMMA SameGood ==
  ASSUME NEW a \in Key, NEW c \in Astro, NEW d \in Astro,
         c.uid = d.uid, c.status = d.status,
         c.finalizer \/ c.deleting \/ (~d.finalizer /\ ~d.deleting)
  PROVE  /\ OwnerOf(a, c) = OwnerOf(a, d)
         /\ Good(a, d) => Good(a, c)
         /\ Good(a, d)' => Good(a, c)'
         /\ Recorded(a, d) => Recorded(a, c)
<1>1. OwnerOf(a, c) = OwnerOf(a, d)
  BY DEF OwnerOf
<1>2. Good(a, d) => Good(a, c)
  BY <1>1 DEF Good
<1>3. Good(a, d)' => Good(a, c)'
  BY <1>1 DEF Good
<1> QED BY <1>1, <1>2, <1>3 DEF Recorded

\* A copy that says nothing.
LEMMA EmptyGood ==
  ASSUME NEW a \in Key, NEW c \in Astro, c.uid <= rev'[a], c.status = EmptyStatus
  PROVE  Good(a, c)'
<1>1. /\ c.status.phase = "Unset" /\ ~c.status.astermuleRef
      /\ c.status.deploymentRef = << >> /\ c.status.serviceRef = << >>
  BY DEF EmptyStatus
<1>2. 1..Len(<< >>) = {}
  BY EmptySeq
<1>3. \A own : Backed(own, c.status)'
  BY <1>1, <1>2 DEF Backed, RefsBacked, EngineBacked, PhaseBacked
<1> QED BY <1>1, <1>3 DEF Good

LEMMA StoredStep ==
  ASSUME StepFacts, CopiesGood
  PROVE  \A a \in Key : \A c \in Stored(a)' : Good(a, c)'
<1> SUFFICES ASSUME NEW a \in Key, NEW c \in Stored(a)' PROVE Good(a, c)'
  OBVIOUS
<1>1. c = server'[a] /\ c \in Astro /\ StoreInv
  BY FactTypes DEF Stored
<1>2. CASE server'[a] = server[a]
  <2>1. c \in Stored(a)
    BY <1>1, <1>2 DEF Stored
  <2>2. Good(a, c)
    BY <2>1 DEF CopiesGood
  <2> QED BY <1>1, <2>2, GoodKept
<1>3. ASSUME NEW v \in Astro, Write(a, v) PROVE Good(a, c)'
  <2>1. /\ c.uid = v.uid /\ c.status = v.status /\ c.finalizer = v.finalizer
        /\ c.deleting = v.deleting /\ rev[a] \in Nat /\ rev'[a] = rev[a] + 1
    BY <1>1, <1>3, StoreKeeps DEF Write, Store, StoreInv
  <2>2. CASE v.uid = rev[a] + 1 /\ v.status = EmptyStatus
    BY <1>1, <2>1, <2>2, EmptyGood
  <2>3. CASE /\ Exists(a) /\ v.uid = server[a].uid /\ v.status = server[a].status
             /\ v.finalizer \/ v.deleting \/ (~server[a].finalizer /\ ~server[a].deleting)
    <3>1. PICK d \in Astro : d = server[a]
      BY <2>3 DEF StoreInv, Exists, StepFacts, CopyInv, CopyTypes
    <3>2. Good(a, d)'
      <4>1. d \in Stored(a)
        BY <3>1, AstroFields DEF Stored
      <4> QED BY <4>1, GoodKept DEF CopiesGood
    <3> QED BY <1>1, <2>1, <2>3, <3>1, <3>2, SameGood
  <2>4. CASE /\ v.finalizer
             /\ \E w \in Worker : \E d \in Held(w) :
                  holder[w] = a /\ d.uid = v.uid /\ d.status = v.status
    <3>1. PICK w \in Worker :
            \E d \in Held(w) : holder[w] = a /\ d.uid = v.uid /\ d.status = v.status
      BY <2>4
    <3>d. PICK d \in Held(w) : holder[w] = a /\ d.uid = v.uid /\ d.status = v.status
      BY <3>1
    <3>2. d \in Astro
      BY FactTypes DEF Held, HeldInv
    <3>3. Good(a, d)'
      <4>1. Good(a, d)
        BY <3>d DEF CopiesGood, WorkerGood, SyncGood
      <4> QED BY <3>2, <4>1, GoodKept
    <3> QED BY <1>1, <2>1, <2>4, <3>d, <3>2, <3>3, SameGood
  <2> QED BY <1>3, <2>2, <2>3, <2>4 DEF Write, Written
<1>4. ASSUME NEW b \in Key, NEW v \in Astro, b # a, Write(b, v) PROVE server'[a] = server[a]
  BY <1>1, <1>4, StoreKeeps DEF Write
<1>5. ASSUME NEW b \in Key, Remove(b) PROVE server'[a] = server[a]
  BY <1>1, <1>5, RemoveKeeps DEF Stored, StoreInv
<1> QED BY <1>2, <1>3, <1>4, <1>5 DEF StepFacts, StoreMoves

LEMMA WatchedStep ==
  ASSUME StepFacts, CopiesGood
  PROVE  \A a \in Key : \A c \in Watched(a)' : Good(a, c)' /\ Recorded(a, c)'
<1> SUFFICES ASSUME NEW a \in Key, NEW c \in Watched(a)' PROVE Good(a, c)' /\ Recorded(a, c)'
  OBVIOUS
<1>1. /\ StoreInv /\ watch[a] \in Seq(Astro \cup {Nothing})
      /\ watch'[a] \in Seq(Astro \cup {Nothing}) /\ c \in Astro
  <2>1. watch[a] \in Seq(Astro \cup {Nothing}) /\ watch'[a] \in Seq(Astro \cup {Nothing})
    BY DEF StepFacts, CopyInv, CopyTypes
  <2> QED BY <2>1, FactTypes, ElementOfSeq DEF Watched
<1>2. CASE c \in Watched(a)
  BY <1>1, <1>2, GoodKept DEF CopiesGood
<1>3. CASE c \in Stored(a)'
  BY <1>3, StoredStep DEF Stored, Recorded
<1>4. ASSUME NEW n, watch'[a] = Append(watch[a], n), n = Nothing \/ n = server'[a],
             n \in Astro \cup {Nothing}
      PROVE  c \in Watched(a) \cup Stored(a)'
  <2>1. PICK i \in 1..Len(watch'[a]) : c = watch'[a][i] /\ c # Nothing
    BY DEF Watched
  <2>2. CASE i \in 1..Len(watch[a])
    <3>1. c = watch[a][i]
      BY <1>1, <1>4, <2>1, <2>2, AppendProperties
    <3> QED BY <2>1, <2>2, <3>1 DEF Watched
  <2>3. CASE i \notin 1..Len(watch[a])
    <3>1. c = n
      BY <1>1, <1>4, <2>1, <2>3, AppendProperties
    <3> QED BY <1>4, <2>1, <3>1 DEF Stored
  <2> QED BY <2>2, <2>3
<1>5. CASE watch'[a] = watch[a]
  BY <1>2, <1>5 DEF Watched
<1>6. ASSUME NEW b \in Key, Remove(b) PROVE c \in Watched(a) \cup Stored(a)'
  <2>1. CASE b = a
    BY <1>1, <1>4, <1>6, <2>1 DEF Remove, StoreInv
  <2>2. CASE b # a
    <3>1. watch'[a] = watch[a]
      BY <1>6, <2>2 DEF Remove, StoreInv
    <3> QED BY <3>1 DEF Watched
  <2> QED BY <2>1, <2>2
<1>7. ASSUME NEW b \in Key, NEW v \in Astro, Write(b, v) PROVE c \in Watched(a) \cup Stored(a)'
  <2>1. CASE b = a
    <3>1. PICK n : n = [v EXCEPT !.rv = rev[a] + 1]
      OBVIOUS
    <3>2. watch'[a] = Append(watch[a], n) /\ server'[a] = n
      BY <1>1, <1>7, <2>1, <3>1 DEF Write, Store, StoreInv
    <3>3. n \in Astro
      BY <1>1, <1>7, <2>1, <3>2, StoreKeeps DEF Write
    <3> QED BY <1>4, <3>2, <3>3
  <2>2. CASE b # a
    <3>1. watch'[a] = watch[a]
      BY <1>1, <1>7, <2>2 DEF Write, Store, StoreInv
    <3> QED BY <3>1 DEF Watched
  <2> QED BY <2>1, <2>2
<1> QED BY <1>2, <1>3, <1>6, <1>7 DEF StepFacts, StoreMoves

-----------------------------------------------------------------------------
(* What is said of the object of a worker *)

\* Ahead of the store or not, an object stays what it is while its worker stays
\* at the end of its sync.
LEMMA FirstKept ==
  ASSUME StepFacts, NEW w \in Worker, NEW a \in Key, NEW c \in Astro, Good(a, c),
         FirstPhase(w, a, c), Recorded(a, c) \/ pc'[w] \in {"status", "return", "error"},
         alias[w] = FALSE => alias'[w] = FALSE
  PROVE  FirstPhase(w, a, c)'
<1>1. CASE Recorded(a, c)
  BY <1>1, GoodKept DEF FirstPhase
<1>2. CASE /\ ~alias[w] /\ pc'[w] \in {"status", "return", "error"}
           /\ Deployed(OwnerOf(a, c), c)
  <2>1. OwnerOf(a, c) \in Owner /\ OwnerOf(a, c).name = a /\ OwnerOf(a, c).uid = c.uid
    BY OwnerOfCopy
  <2>2. CASE Alive(OwnerOf(a, c))'
    <3>1. Alive(OwnerOf(a, c))
      BY <2>1, <2>2, AliveBefore, FactTypes DEF Good
    <3>2. \A i \in 1..Len(c.stars) : c.stars[i] \in Star
      BY AstroFields, ElementOfSeq
    <3>3. Deployed(OwnerOf(a, c), c)'
      BY <1>2, <2>1, <3>1, <3>2, OwnedKept DEF Deployed
    <3>4. alias[w] = FALSE
      BY <1>2 DEF StepFacts, CopyInv, CopyTypes
    <3> QED BY <1>2, <3>3, <3>4 DEF FirstPhase
  <2>3. CASE ~Alive(OwnerOf(a, c))'
    BY <2>3 DEF FirstPhase, Recorded
  <2> QED BY <2>2, <2>3
<1> QED BY <1>1, <1>2 DEF FirstPhase

LEMMA SyncKept ==
  ASSUME StepFacts, NEW w \in Worker, NEW a \in Key, NEW c \in Astro, SyncGood(w, a, c),
         pc'[w] = pc[w], idx'[w] = idx[w], ready'[w] = ready[w],
         alias[w] = FALSE => alias'[w] = FALSE
  PROVE  SyncGood(w, a, c)'
<1> DEFINE own == OwnerOf(a, c)
<1>1. own \in Owner /\ own.name = a /\ own.uid = c.uid
  BY OwnerOfCopy
<1>2. Alive(own)' => Alive(own)
  BY <1>1, AliveBefore, FactTypes DEF SyncGood, Good
<1>3. \A i \in 1..Len(c.status.deploymentRef) : c.status.deploymentRef[i] \in Star
  BY AstroFields, ElementOfSeq
<1>4. Counted(w, own, c)'
  <2> SUFFICES ASSUME pc[w] = "count"
               PROVE  /\ idx[w] <= Len(c.status.deploymentRef) + 1
                      /\ ready[w] < idx[w]
                      /\ Alive(own)' /\ ready[w] = idx[w] - 1 =>
                           \A i \in 1..idx[w] - 1 : Started(c.status.deploymentRef[i])'
    BY DEF Counted
  <2>1. /\ idx[w] <= Len(c.status.deploymentRef) + 1 /\ ready[w] < idx[w]
        /\ Alive(own) /\ ready[w] = idx[w] - 1 =>
             \A i \in 1..idx[w] - 1 : Started(c.status.deploymentRef[i])
    BY DEF SyncGood, Progress, Counted
  <2>2. idx[w] \in Nat /\ Len(c.status.deploymentRef) \in Nat
    BY AstroFields, LenProperties DEF StepFacts, RestInv, PositionInv
  <2>3. \A i \in 1..idx[w] - 1 : i \in 1..Len(c.status.deploymentRef)
    BY <2>1, <2>2
  <2>4. ASSUME Alive(own)', ready[w] = idx[w] - 1, NEW i \in 1..idx[w] - 1
        PROVE  Started(c.status.deploymentRef[i])'
    <3>1. PICK s \in Star : s = c.status.deploymentRef[i]
      BY <1>3, <2>3
    <3>2. Started(s)
      BY <1>2, <2>1, <2>4, <3>1
    <3>o. OwnsDeployment(own, s)
      BY <1>2, <2>3, <2>4, <3>1 DEF SyncGood, Good, Backed, RefsBacked
    <3>3. Started(s)'
      BY <1>1, <1>2, <2>4, <3>2, <3>o, OwnedKept
    <3> QED BY <3>1, <3>3 DEF Started
  <2> QED BY <2>1, <2>4
<1>5. pc[w] = "create-port" /\ Alive(own)' => OwnsEngine(own, c.status.serviceRef)'
  BY <1>1, <1>2, OwnedKept DEF SyncGood, Progress
<1>6. Progress(w, own, c)'
  BY <1>4, <1>5 DEF SyncGood, Progress, StarsDone
<1>7. Good(a, c)'
  BY GoodKept DEF SyncGood
<1>8. FirstPhase(w, a, c)'
  BY FirstKept DEF SyncGood, FirstPhase
<1> QED BY <1>6, <1>7, <1>8 DEF SyncGood

LEMMA IdleGood ==
  ASSUME StepFacts, CopiesGood, NEW w \in Worker,
         pc'[w] = pc[w], holder'[w] = holder[w], obj'[w] = obj[w], idx'[w] = idx[w],
         ready'[w] = ready[w], alias[w] = FALSE => alias'[w] = FALSE
  PROVE  WorkerGood(w)'
<1> SUFFICES ASSUME NEW a \in Key, holder'[w] = a, NEW c \in Held(w)'
             PROVE  SyncGood(w, a, c)'
  BY DEF WorkerGood
<1>1. holder[w] = a /\ c \in Held(w) /\ c \in Astro
  BY FactTypes DEF Held, HeldInv
<1> QED BY <1>1, SyncKept DEF CopiesGood, WorkerGood

Restful == {"return", "error", "read-endpoint", "launch", "read-service", "status"}

\* The worker goes on, or ends, with the same object, outside of syncCreate's loop.
LEMMA StaysGood ==
  ASSUME StepFacts, CopiesGood, NEW w \in Worker, NEW label \in Restful \cup {"create-port"},
         GoTo(w, label), Same, holder' = holder,
         label \in {"return", "error"} \/ pc[w] \in Calls \ {"status"},
         label = "create-port" =>
           \A a \in Key : \A c \in Held(w) :
             holder[w] = a => OwnsEngine(OwnerOf(a, c), c.status.serviceRef)'
  PROVE  WorkerGood(w)'
<1> SUFFICES ASSUME NEW a \in Key, holder'[w] = a, NEW c \in Held(w)'
             PROVE  SyncGood(w, a, c)'
  BY DEF WorkerGood
<1>1. holder[w] = a /\ c \in Held(w) /\ c \in Astro /\ SyncGood(w, a, c)
  BY FactTypes DEF Held, HeldInv, Same, CopiesGood, WorkerGood
<1>2. pc'[w] = label /\ alias' = alias
  BY DEF GoTo, Same, StepFacts, CopyInv, CopyTypes
<1>3. Good(a, c)'
  BY <1>1, GoodKept DEF SyncGood
<1>4. Progress(w, OwnerOf(a, c), c)'
  BY <1>1, <1>2 DEF Progress, StarsDone, Counted, Restful
<1>5. FirstPhase(w, a, c)'
  <2>1. Recorded(a, c) \/ pc'[w] \in {"status", "return", "error"}
    BY <1>1, <1>2 DEF SyncGood, FirstPhase, Calls
  <2> QED BY <1>1, <1>2, <2>1, FirstKept DEF SyncGood
<1> QED BY <1>3, <1>4, <1>5 DEF SyncGood

LEMMA FailGood ==
  ASSUME StepFacts, CopiesGood, NEW w \in Worker, Fail(w), holder' = holder
  PROVE  WorkerGood(w)'
BY StaysGood DEF Fail, Restful

\* What a worker in the middle of a sync knows of the object it holds.
LEMMA MyCopy ==
  ASSUME StepFacts, CopiesGood, NEW w \in Worker, pc[w] \in Calls
  PROVE  \E a \in Key, o \in Astro, own \in Owner :
           /\ a = holder[w] /\ o = obj[w] /\ own = OwnerOf(a, o) /\ own = Self(w)
           /\ own.name = a /\ own.uid = o.uid
           /\ SyncGood(w, a, o) /\ CopyOK(a, o)
           /\ Alive(own)' => Alive(own)
           /\ Alive(own) => Backed(own, o.status)
           /\ pc[w] # "status" => Recorded(a, o)
           /\ pc[w] # "unfinalize" => o.finalizer /\ ~o.deleting
<1>1. PICK a \in Key, o \in Astro : a = holder[w] /\ o = obj[w]
  BY FactTypes, HeldFacts
<1>2. PICK own \in Owner : own = OwnerOf(a, o) /\ own.name = a /\ own.uid = o.uid
  BY OwnerOfCopy
<1>3. SyncGood(w, a, o)
  BY <1>1, AstroFields DEF CopiesGood, WorkerGood, Held
<1>4. CopyOK(a, o) /\ (pc[w] # "unfinalize" => o.finalizer /\ ~o.deleting)
  BY <1>1, FactTypes, HeldFacts
<1>5. Alive(own) => Backed(own, o.status)
  BY <1>2, <1>3 DEF SyncGood, Good
<1>6. Alive(own)' => Alive(own)
  BY <1>2, <1>3, AliveBefore, FactTypes DEF SyncGood, Good
<1>7. pc[w] # "status" => Recorded(a, o)
  BY <1>3 DEF SyncGood, FirstPhase, Calls
<1>8. own = Self(w)
  BY <1>1, <1>2 DEF Self
<1> QED BY <1>1, <1>2, <1>3, <1>4, <1>5, <1>6, <1>7, <1>8

\* A new status is assigned to the object of a worker.
LEMMA AssignGood ==
  ASSUME StepFacts, NEW w \in Worker, NEW a \in Key, NEW o \in Astro, NEW c \in Astro,
         Good(a, o), Recorded(a, o), holder'[w] = a, obj'[w] = c,
         c.uid = o.uid, c.finalizer,
         c.status.phase # "Unset" => o.status.phase # "Unset",
         Alive(OwnerOf(a, o))' => Backed(OwnerOf(a, o), c.status)',
         Progress(w, OwnerOf(a, o), c)'
  PROVE  WorkerGood(w)'
<1>1. OwnerOf(a, c) = OwnerOf(a, o)
  BY DEF OwnerOf
<1>2. Good(a, c)'
  <2>1. c.uid <= rev'[a]
    BY GoodKept DEF Good
  <2> QED BY <1>1, <2>1 DEF Good
<1>3. Recorded(a, o)' /\ Recorded(a, c)'
  BY <1>1, GoodKept DEF Recorded
<1>4. SyncGood(w, a, c)'
  BY <1>1, <1>2, <1>3 DEF SyncGood, FirstPhase
<1> QED BY <1>4 DEF WorkerGood, Held

LEMMA SyncStatusGood ==
  ASSUME StepFacts, CopiesGood, NEW w \in Worker, NEW s \in Status, SyncStatus(w, s),
         holder' = holder, pc[w] \in Calls \ {"status", "unfinalize"},
         s.phase # "Unset" => obj[w].status.phase # "Unset",
         \A own \in Owner : own = Self(w) /\ Alive(own)' => Backed(own, s)'
  PROVE  WorkerGood(w)'
<1>1. PICK a \in Key, o \in Astro, own \in Owner :
        /\ a = holder[w] /\ o = obj[w] /\ own = OwnerOf(a, o) /\ own = Self(w)
        /\ SyncGood(w, a, o) /\ Recorded(a, o) /\ o.finalizer
  BY MyCopy
<1>2. CASE s = obj[w].status
  BY <1>2, StaysGood DEF SyncStatus, Restful
<1>3. CASE s # obj[w].status
  <2>1. PICK c \in Astro :
          /\ c = [o EXCEPT !.status = s] /\ c.status = s
          /\ c.uid = o.uid /\ c.finalizer = o.finalizer
    BY NewStatus
  <2>2. obj'[w] = c /\ holder'[w] = a /\ pc'[w] = "status"
    BY <1>1, <1>3, <2>1 DEF SyncStatus, Assign, GoTo, StepFacts, CopyInv, CopyTypes
  <2>3. Progress(w, OwnerOf(a, o), c)'
    BY <2>2 DEF Progress, StarsDone, Counted
  <2>4. Alive(OwnerOf(a, o))' => Backed(OwnerOf(a, o), c.status)'
    BY <1>1, <2>1
  <2> QED BY <1>1, <2>1, <2>2, <2>3, <2>4, AssignGood DEF SyncGood
<1> QED BY <1>2, <1>3

LEMMA FreeGood ==
  ASSUME StepFacts, NEW w \in Worker, Free(w)
  PROVE  WorkerGood(w)'
BY DEF Free, WorkerGood, Held, StepFacts, CopyInv, CopyTypes

-----------------------------------------------------------------------------
(* The start of a sync *)

\* A worker takes a copy from the cache, with its finalizer set or removed.
LEMMA HoldGood ==
  ASSUME StepFacts, CopiesGood, NEW w \in Worker, NEW a \in Key, NEW d \in Astro, NEW c \in Astro,
         d = cache[a], holder'[w] = a, obj'[w] = c, c.uid = d.uid, c.status = d.status,
         c.finalizer \/ c.deleting \/ (~d.finalizer /\ ~d.deleting),
         Progress(w, OwnerOf(a, c), c)'
  PROVE  WorkerGood(w)'
<1>1. d \in Cached(a)
  BY AstroFields DEF Cached
<1>2. Good(a, c) /\ Recorded(a, c)
  BY <1>1, SameGood DEF CopiesGood
<1>3. Good(a, c)' /\ Recorded(a, c)'
  BY <1>2, GoodKept
<1>4. SyncGood(w, a, c)'
  BY <1>3 DEF SyncGood, FirstPhase
<1> QED BY <1>4 DEF WorkerGood, Held

LEMMA DispatchGood ==
  ASSUME StepFacts, CopiesGood, NEW w \in Worker, NEW a \in Key, Dispatch(w, a)
  PROVE  WorkerGood(w)'
<1>1. /\ W!Take(w, a) /\ holder'[w] = a
      /\ \A label : GoTo(w, label) => pc'[w] = label
      /\ \A label : Loop(w, label) => pc'[w] = label /\ idx'[w] = 1
      /\ \A c : Hold(w, c) => obj'[w] = c
  BY DispatchFrame DEF W!Take, GoTo, Loop, Hold, StepFacts, CopyInv, CopyTypes, RestInv, PositionInv
<1>2. CASE SyncGone(w, a)
  <2>1. obj'[w] = obj[w] /\ obj[w] = Nothing
    BY <1>1, <1>2, FactTypes, ControllerAssumption DEF SyncGone, Same, HeldInv, HolderInv, W!Take
  <2> QED BY <2>1 DEF WorkerGood, Held
<1>3. ASSUME cache[a] # Nothing PROVE cache[a] \in Astro
  BY <1>3, FactTypes DEF HeldInv
<1>4. CASE SyncDelete(w, a)
  <2>1. PICK d \in Astro : d = cache[a] /\ d.deleting
    BY <1>3, <1>4 DEF SyncDelete
  <2>2. PICK c \in Astro : /\ c = [d EXCEPT !.finalizer = FALSE] /\ c.finalizer = FALSE
                           /\ c.uid = d.uid /\ c.status = d.status /\ c.deleting = d.deleting
    BY NewFinalizer
  <2>3. obj'[w] = c /\ pc'[w] = "unfinalize"
    BY <1>1, <1>4, <2>1, <2>2 DEF SyncDelete
  <2>4. Progress(w, OwnerOf(a, c), c)'
    BY <2>2, <2>3 DEF Progress, StarsDone, Counted
  <2> QED BY <1>1, <2>1, <2>2, <2>3, <2>4, HoldGood
<1>5. CASE SyncCreate(w, a)
  <2>1. PICK d \in Astro : d = cache[a] /\ ~d.deleting /\ ~d.finalizer
    BY <1>3, <1>5 DEF SyncCreate
  <2>2. PICK c \in Astro : /\ c = [d EXCEPT !.finalizer = TRUE] /\ c.finalizer = TRUE
                           /\ c.uid = d.uid /\ c.status = d.status /\ c.stars = d.stars
    BY NewFinalizer
  <2>3. obj'[w] = c /\ pc'[w] = "stars" /\ idx'[w] = 1
    BY <1>1, <1>5, <2>1, <2>2 DEF SyncCreate, Finalized
  <2>4. c.status.deploymentRef = << >> /\ c.status.serviceRef = << >>
    <3>1. d \in Cached(a)
      BY <2>1, AstroFields DEF Cached
    <3> QED BY <2>1, <2>2, <3>1 DEF CopiesGood, Good
  <2>5. StarsDone(w, c)'
    <3>1. Len(c.stars) \in Nat /\ Len(<< >>) = 0
      BY AstroFields, LenProperties, EmptySeq
    <3>2. FirstOf(<< >>, c.stars, 0)
      BY <3>1 DEF FirstOf
    <3> QED BY <2>3, <2>4, <3>1, <3>2 DEF StarsDone
  <2>6. Progress(w, OwnerOf(a, c), c)'
    BY <2>3, <2>5 DEF Progress, Counted
  <2> QED BY <1>1, <2>1, <2>2, <2>3, <2>6, HoldGood
<1>6. ASSUME NEW phases, UpdateStart(w, a, phases), NEW c \in Astro, c = cache[a],
             Progress(w, OwnerOf(a, c), c)'
      PROVE  WorkerGood(w)'
  <2>1. obj'[w] = c
    BY <1>1, <1>6 DEF UpdateStart
  <2>2. c.finalizer \/ c.deleting \/ (~c.finalizer /\ ~c.deleting)
    BY AstroFields
  <2> QED BY <1>1, <1>6, <2>1, <2>2, HoldGood
<1>7. CASE SyncInitialized(w, a)
  <2>1. PICK c \in Astro : c = cache[a]
    BY <1>3, <1>7 DEF SyncInitialized, UpdateStart
  <2>2. pc'[w] = "count" /\ idx'[w] = 1 /\ ready'[w] = 0
    BY <1>1, <1>7 DEF SyncInitialized, StepFacts, RestInv, PositionInv
  <2>3. Len(c.status.deploymentRef) \in Nat /\ 1..0 = {}
    BY AstroFields, LenProperties
  <2>4. Progress(w, OwnerOf(a, c), c)'
    BY <2>2, <2>3 DEF Progress, StarsDone, Counted
  <2> QED BY <1>6, <1>7, <2>1, <2>4 DEF SyncInitialized
<1>8. CASE SyncWaited(w, a)
  <2>1. PICK c \in Astro : c = cache[a]
    BY <1>3, <1>8 DEF SyncWaited, UpdateStart
  <2>2. pc'[w] = "read-service" \/ (pc'[w] = "read-engine" /\ c.status.astermuleRef)
    BY <1>1, <1>8, <2>1 DEF SyncWaited
  <2>3. Progress(w, OwnerOf(a, c), c)'
    BY <2>2 DEF Progress, StarsDone, Counted
  <2> QED BY <1>6, <1>8, <2>1, <2>3 DEF SyncWaited
<1>9. CASE SyncReady(w, a) \/ SyncSettled(w, a)
  <2>1. PICK c \in Astro : c = cache[a]
    BY <1>3, <1>9 DEF SyncReady, SyncSettled, UpdateStart
  <2>2. pc'[w] \in {"read-endpoint", "return"}
    BY <1>1, <1>9 DEF SyncReady, SyncSettled
  <2>3. Progress(w, OwnerOf(a, c), c)'
    BY <2>2 DEF Progress, StarsDone, Counted
  <2> QED BY <1>6, <1>9, <2>1, <2>3 DEF SyncReady, SyncSettled
<1> QED BY <1>2, <1>4, <1>5, <1>7, <1>8, <1>9 DEF Dispatch

-----------------------------------------------------------------------------
(* syncCreate *)

LEMMA WithDeployment ==
  ASSUME NEW o \in Astro, NEW x \in Star
  PROVE  \E c \in Astro :
           /\ c = [o EXCEPT !.status.deploymentRef = Append(@, x)]
           /\ c.uid = o.uid /\ c.finalizer = o.finalizer /\ c.stars = o.stars
           /\ c.status \in Status /\ c.status.phase = o.status.phase
           /\ c.status.deploymentRef = Append(o.status.deploymentRef, x)
           /\ c.status.serviceRef = o.status.serviceRef
           /\ c.status.astermuleRef = o.status.astermuleRef
<1> DEFINE s == [o.status EXCEPT !.deploymentRef = Append(@, x)]
           c == [o EXCEPT !.status = s]
<1>1. o.status \in Status /\ Append(o.status.deploymentRef, x) \in Seq(Star)
  BY AstroFields, AppendProperties
<1>2. s \in Status
  BY <1>1 DEF Status
<1>3. c \in Astro /\ c = [o EXCEPT !.status.deploymentRef = Append(@, x)]
  BY <1>1, <1>2 DEF Astro, Status
<1>4. c.uid = o.uid /\ c.finalizer = o.finalizer /\ c.stars = o.stars /\ c.status = s
  BY DEF Astro
<1>5. /\ s.phase = o.status.phase /\ s.serviceRef = o.status.serviceRef
      /\ s.deploymentRef = Append(o.status.deploymentRef, x)
      /\ s.astermuleRef = o.status.astermuleRef
  BY <1>1 DEF Status
<1> HIDE DEF s
<1> QED BY <1>2, <1>3, <1>4, <1>5, Zenon

LEMMA WithService ==
  ASSUME NEW o \in Astro, NEW x \in Star
  PROVE  \E c \in Astro :
           /\ c = [o EXCEPT !.status.serviceRef = Append(@, x)]
           /\ c.uid = o.uid /\ c.finalizer = o.finalizer /\ c.stars = o.stars
           /\ c.status \in Status /\ c.status.phase = o.status.phase
           /\ c.status.serviceRef = Append(o.status.serviceRef, x)
           /\ c.status.deploymentRef = o.status.deploymentRef
           /\ c.status.astermuleRef = o.status.astermuleRef
<1> DEFINE s == [o.status EXCEPT !.serviceRef = Append(@, x)]
           c == [o EXCEPT !.status = s]
<1>1. o.status \in Status /\ Append(o.status.serviceRef, x) \in Seq(Star)
  BY AstroFields, AppendProperties
<1>2. s \in Status
  BY <1>1 DEF Status
<1>3. c \in Astro /\ c = [o EXCEPT !.status.serviceRef = Append(@, x)]
  BY <1>1, <1>2 DEF Astro, Status
<1>4. c.uid = o.uid /\ c.finalizer = o.finalizer /\ c.stars = o.stars /\ c.status = s
  BY DEF Astro
<1>5. /\ s.phase = o.status.phase /\ s.deploymentRef = o.status.deploymentRef
      /\ s.serviceRef = Append(o.status.serviceRef, x)
      /\ s.astermuleRef = o.status.astermuleRef
  BY <1>1 DEF Status
<1> HIDE DEF s
<1> QED BY <1>2, <1>3, <1>4, <1>5, Zenon

\* One more star, and the references are the first stars still.
LEMMA FirstMore ==
  ASSUME NEW refs \in Seq(Star), NEW stars \in Seq(Star), NEW n \in Nat, n + 1 \in 1..Len(stars),
         FirstOf(refs, stars, n)
  PROVE  FirstOf(Append(refs, stars[n + 1]), stars, n + 1)
<1>1. /\ Len(Append(refs, stars[n + 1])) = n + 1 /\ Append(refs, stars[n + 1])[n + 1] = stars[n + 1]
      /\ \A i \in 1..n : Append(refs, stars[n + 1])[i] = refs[i]
  BY AppendProperties, ElementOfSeq DEF FirstOf
<1> QED BY <1>1 DEF FirstOf

\* A status without a phase with one more reference.
LEMMA MoreBacked ==
  ASSUME NEW own, NEW t \in Status, NEW u \in Status, NEW x \in Star, Backed(own, t)',
         t.phase = "Unset", u.phase = "Unset", u.astermuleRef = t.astermuleRef,
         \/ /\ u.deploymentRef = Append(t.deploymentRef, x) /\ u.serviceRef = t.serviceRef
            /\ OwnsDeployment(own, x)'
         \/ /\ u.serviceRef = Append(t.serviceRef, x) /\ u.deploymentRef = t.deploymentRef
            /\ services'[x] = own /\ Listed(t.deploymentRef, x)
  PROVE  Backed(own, u)'
<1>1. EngineBacked(own, u)' /\ PhaseBacked(u)'
  BY DEF Backed, EngineBacked, PhaseBacked
<1>2. t.deploymentRef \in Seq(Star) /\ t.serviceRef \in Seq(Star)
  BY DEF Status
<1>3. /\ \A i \in 1..Len(t.deploymentRef) : OwnsDeployment(own, t.deploymentRef[i])'
      /\ \A i \in 1..Len(t.serviceRef) :
           services'[t.serviceRef[i]] = own /\ Listed(t.deploymentRef, t.serviceRef[i])
  BY DEF Backed, RefsBacked, Listed
<1>4. \A refs \in Seq(Star) :
        /\ Len(Append(refs, x)) = Len(refs) + 1 /\ Append(refs, x)[Len(refs) + 1] = x
        /\ \A i \in 1..Len(refs) : Append(refs, x)[i] = refs[i]
        /\ Len(refs) \in Nat
  BY AppendProperties, LenProperties
<1>5. \A s, refs : refs \in Seq(Star) /\ Listed(refs, s) => Listed(Append(refs, x), s)
  BY <1>4 DEF Listed
<1>6. CASE /\ u.deploymentRef = Append(t.deploymentRef, x) /\ u.serviceRef = t.serviceRef
           /\ OwnsDeployment(own, x)'
  <2>1. \A i \in 1..Len(u.deploymentRef) : OwnsDeployment(own, u.deploymentRef[i])'
    BY <1>2, <1>3, <1>4, <1>6 DEF OwnsDeployment
  <2>2. \A i \in 1..Len(u.serviceRef) :
          services'[u.serviceRef[i]] = own /\ Listed(u.deploymentRef, u.serviceRef[i])
    BY <1>2, <1>3, <1>5, <1>6
  <2> QED BY <1>1, <2>1, <2>2 DEF Backed, RefsBacked, Listed
<1>7. CASE /\ u.serviceRef = Append(t.serviceRef, x) /\ u.deploymentRef = t.deploymentRef
           /\ services'[x] = own /\ Listed(t.deploymentRef, x)
  <2>1. \A i \in 1..Len(u.serviceRef) :
          services'[u.serviceRef[i]] = own /\ Listed(u.deploymentRef, u.serviceRef[i])
    BY <1>2, <1>3, <1>4, <1>7
  <2>2. \A i \in 1..Len(u.deploymentRef) : OwnsDeployment(own, u.deploymentRef[i])'
    BY <1>3, <1>7
  <2> QED BY <1>1, <2>1, <2>2 DEF Backed, RefsBacked, Listed
<1> QED BY <1>6, <1>7

LEMMA NewDeploymentGood ==
  ASSUME StepFacts, CopiesGood, NEW w \in Worker, NewDeployment(w)
  PROVE  WorkerGood(w)'
<1>1. pc[w] = "stars" /\ pc[w] \in Calls /\ holder' = holder /\ PhaseAt("stars") = {"Unset"}
  BY DEF NewDeployment, workVars, Calls, PhaseAt
<1>2. CASE Fail(w)
  BY <1>1, <1>2, FailGood
<1>3. ASSUME NEW x, x = obj[w].stars[idx[w]], CreateDeployment(x, Self(w)),
             Assign(w, [obj[w] EXCEPT !.status.deploymentRef = Append(@, x)]),
             GoTo(w, "service"), Keep
      PROVE  WorkerGood(w)'
  <2>1. PICK a \in Key, o \in Astro, own \in Owner :
          /\ a = holder[w] /\ o = obj[w] /\ own = OwnerOf(a, o) /\ own = Self(w)
          /\ own.name = a /\ own.uid = o.uid
          /\ SyncGood(w, a, o) /\ Recorded(a, o) /\ o.finalizer
          /\ Alive(own)' => Alive(own)
          /\ Alive(own) => Backed(own, o.status)
    BY <1>1, MyCopy
  <2>2. /\ o.stars \in Seq(Star) /\ o.status \in Status /\ o.status.phase = "Unset"
        /\ o.status.deploymentRef \in Seq(Star)
    BY <1>1, <2>1, AstroFields, FactTypes, HeldFacts
  <2>3. PICK n \in Nat : n + 1 = idx[w] /\ n + 1 \in 1..Len(o.stars)
    <3>1. idx[w] \in Nat \ {0} /\ idx[w] <= Len(o.stars)
      BY <1>1, <2>1 DEF NewDeployment, StarsLeft, StepFacts, RestInv, PositionInv, LoopInv
    <3>2. Len(o.stars) \in Nat
      BY <2>2, LenProperties
    <3>3. idx[w] - 1 \in Nat /\ (idx[w] - 1) + 1 = idx[w]
      BY <3>1
    <3> QED BY <3>1, <3>2, <3>3
  <2>4. x = o.stars[n + 1] /\ x \in Star
    BY <1>3, <2>1, <2>2, <2>3, ElementOfSeq
  <2>5. PICK c \in Astro :
          /\ c = [o EXCEPT !.status.deploymentRef = Append(@, x)]
          /\ c.uid = o.uid /\ c.finalizer = o.finalizer /\ c.stars = o.stars
          /\ c.status \in Status /\ c.status.phase = o.status.phase
          /\ c.status.deploymentRef = Append(o.status.deploymentRef, x)
          /\ c.status.serviceRef = o.status.serviceRef
          /\ c.status.astermuleRef = o.status.astermuleRef
    BY <2>4, WithDeployment
  <2>6. obj'[w] = c /\ holder'[w] = a /\ pc'[w] = "service" /\ idx'[w] = n + 1
    BY <1>1, <1>3, <2>1, <2>3, <2>5 DEF Assign, GoTo, Keep, StepFacts, CopyInv, CopyTypes
  <2>7. Progress(w, OwnerOf(a, o), c)'
    <3>1. FirstOf(o.status.deploymentRef, o.stars, n) /\ FirstOf(o.status.serviceRef, o.stars, n)
      <4>1. idx[w] - 1 = n
        BY <2>3
      <4> QED BY <4>1, <1>1, <2>1 DEF SyncGood, Progress, StarsDone
    <3>2. FirstOf(c.status.deploymentRef, c.stars, n + 1) /\ FirstOf(c.status.serviceRef, c.stars, n)
      BY <2>2, <2>3, <2>4, <2>5, <3>1, FirstMore
    <3>3. n = (n + 1) - 1
      BY <2>3
    <3>4. StarsDone(w, c)'
      BY <2>6, <3>2, <3>3 DEF StarsDone
    <3> QED BY <2>6, <3>4 DEF Progress, Counted
  <2>8. Alive(own)' => Backed(own, c.status)'
    <3> SUFFICES ASSUME Alive(own)' PROVE Backed(own, c.status)'
      OBVIOUS
    <3>1. Backed(own, o.status)'
      BY <2>1, <2>2, BackedKept
    <3>2. OwnsDeployment(own, x)'
      <4>1. deploys'[x] = [owner |-> own, health |-> "starting"]
        BY <1>3, <2>1, <2>4, FactTypes DEF CreateDeployment, DependentTypes
      <4>2. [owner |-> own, health |-> "starting"] \in Deployment
        BY DEF Deployment, Health
      <4> QED BY <4>1, <4>2, DependentsAssumption DEF OwnsDeployment
    <3> QED BY <2>2, <2>4, <2>5, <3>1, <3>2, MoreBacked
  <2> QED BY <2>1, <2>2, <2>5, <2>6, <2>7, <2>8, AssignGood DEF SyncGood
<1> QED BY <1>2, <1>3 DEF NewDeployment, DeploymentExists, ReplyLost

LEMMA NewServiceGood ==
  ASSUME StepFacts, CopiesGood, NEW w \in Worker, NewService(w)
  PROVE  WorkerGood(w)'
<1>1. pc[w] = "service" /\ pc[w] \in Calls /\ holder' = holder /\ PhaseAt("service") = {"Unset"}
  BY DEF NewService, workVars, Calls, PhaseAt
<1>2. CASE Fail(w)
  BY <1>1, <1>2, FailGood
<1>3. ASSUME NEW x, x = obj[w].stars[idx[w]], CreateService(x, Self(w)),
             Assign(w, [obj[w] EXCEPT !.status.serviceRef = Append(@, x)]),
             NextTurn(w, "stars")
      PROVE  WorkerGood(w)'
  <2>1. PICK a \in Key, o \in Astro, own \in Owner :
          /\ a = holder[w] /\ o = obj[w] /\ own = OwnerOf(a, o) /\ own = Self(w)
          /\ own.name = a /\ own.uid = o.uid
          /\ SyncGood(w, a, o) /\ Recorded(a, o) /\ o.finalizer
          /\ Alive(own)' => Alive(own)
          /\ Alive(own) => Backed(own, o.status)
    BY <1>1, MyCopy
  <2>2. /\ o.stars \in Seq(Star) /\ o.status \in Status /\ o.status.phase = "Unset"
        /\ o.status.serviceRef \in Seq(Star)
    BY <1>1, <2>1, AstroFields, FactTypes, HeldFacts
  <2>3. PICK n \in Nat : n + 1 = idx[w] /\ n + 1 \in 1..Len(o.stars)
    <3>1. idx[w] \in Nat \ {0} /\ idx[w] <= Len(o.stars)
      BY <1>1, <2>1 DEF StepFacts, RestInv, PositionInv, LoopInv
    <3>2. Len(o.stars) \in Nat
      BY <2>2, LenProperties
    <3>3. idx[w] - 1 \in Nat /\ (idx[w] - 1) + 1 = idx[w]
      BY <3>1
    <3> QED BY <3>1, <3>2, <3>3
  <2>4. x = o.stars[n + 1] /\ x \in Star
    BY <1>3, <2>1, <2>2, <2>3, ElementOfSeq
  <2>5. PICK c \in Astro :
          /\ c = [o EXCEPT !.status.serviceRef = Append(@, x)]
          /\ c.uid = o.uid /\ c.finalizer = o.finalizer /\ c.stars = o.stars
          /\ c.status \in Status /\ c.status.phase = o.status.phase
          /\ c.status.serviceRef = Append(o.status.serviceRef, x)
          /\ c.status.deploymentRef = o.status.deploymentRef
          /\ c.status.astermuleRef = o.status.astermuleRef
    BY <2>4, WithService
  <2>6. obj'[w] = c /\ holder'[w] = a /\ pc'[w] = "stars" /\ idx'[w] = (n + 1) + 1
    BY <1>1, <1>3, <2>1, <2>3, <2>5
    DEF Assign, NextTurn, GoTo, StepFacts, CopyInv, CopyTypes, RestInv, PositionInv
  <2>f. FirstOf(o.status.deploymentRef, o.stars, n + 1) /\ FirstOf(o.status.serviceRef, o.stars, n)
    <3>1. idx[w] - 1 = n
      BY <2>3
    <3> QED BY <3>1, <1>1, <2>1, <2>3 DEF SyncGood, Progress, StarsDone
  <2>7. Progress(w, OwnerOf(a, o), c)'
    <3>2. FirstOf(c.status.deploymentRef, c.stars, n + 1) /\ FirstOf(c.status.serviceRef, c.stars, n + 1)
      BY <2>2, <2>3, <2>4, <2>5, <2>f, FirstMore
    <3>3. n + 1 = ((n + 1) + 1) - 1 /\ (n + 1) + 1 <= Len(c.stars) + 1
      BY <2>2, <2>3, <2>5, LenProperties
    <3>4. StarsDone(w, c)'
      BY <2>6, <3>2, <3>3 DEF StarsDone
    <3> QED BY <2>6, <3>4 DEF Progress, Counted
  <2>8. Alive(own)' => Backed(own, c.status)'
    <3> SUFFICES ASSUME Alive(own)' PROVE Backed(own, c.status)'
      OBVIOUS
    <3>1. Backed(own, o.status)'
      BY <2>1, <2>2, BackedKept
    <3>2. services'[x] = own
      BY <1>3, <2>1, <2>4, FactTypes DEF CreateService, DependentTypes
    <3>3. Listed(o.status.deploymentRef, x)
      BY <2>3, <2>4, <2>f DEF Listed, FirstOf
    <3> QED BY <2>2, <2>4, <2>5, <3>1, <3>2, <3>3, MoreBacked
  <2> QED BY <2>1, <2>2, <2>5, <2>6, <2>7, <2>8, AssignGood DEF SyncGood
<1> QED BY <1>2, <1>3 DEF NewService, ReplyLost

=============================================================================
