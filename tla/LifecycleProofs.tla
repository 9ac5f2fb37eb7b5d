---------------------------- MODULE LifecycleProofs ----------------------------
(***************************************************************************)
(* For any number of workers and signals: no worker runs before the caches *)
(* are filled, and the exit code says why the process ended.               *)
(***************************************************************************)
EXTENDS Lifecycle, TLAPS

LEMMA InitInv == Init => IInv
<1> SUFFICES ASSUME Init PROVE IInv
  OBVIOUS
<1>1. TypeOK
  BY LifecycleAssumption DEF Init, TypeOK, Buffer
<1>2. StartInv
  BY DEF Init, StartInv, Cancelled
<1>3. ExitCodes
  BY DEF Init, ExitCodes
<1> QED BY <1>1, <1>2, <1>3 DEF IInv

LEMMA TypeStep == ASSUME TypeOK, Next PROVE TypeOK'
<1> USE LifecycleAssumption DEF TypeOK, Exit, mainVars, informerVars, signalVars
<1>1. CASE Main
  BY <1>1 DEF Main, SetupSignalHandler, GetConfigOrDie, NewForConfig, NewAstroController,
     InformerFor, GoStart, CheckCaches, PollCaches, StartWorkers, GiveUp, RunReturns, MainReturns
<1>2. CASE Signal
  BY <1>2 DEF Signal, WithOneMore, Buffer
<1>3. CASE Handler
  BY <1>3 DEF Handler, FirstSignal, SecondSignal, Buffer
<1>4. ASSUME NEW f \in Factory, FactoryStart(f) PROVE TypeOK'
  BY <1>4 DEF FactoryStart
<1>5. ASSUME NEW t \in Informer, InformerSyncs(t) \/ InformerStops(t) PROVE TypeOK'
  BY <1>5 DEF InformerSyncs, InformerStops
<1>6. ASSUME NEW w \in Worker, Work(w) PROVE TypeOK'
  BY <1>6 DEF Work, WorkerBegins, Get, SyncEnds
<1> QED BY <1>1, <1>2, <1>3, <1>4, <1>5, <1>6 DEF Next

LEMMA StartStep == ASSUME TypeOK, StartInv, Next PROVE StartInv'
<1> USE DEF StartInv, Cancelled, Exit, mainVars, informerVars, signalVars
<1>1. CASE Main
  <2>1. CASE UNCHANGED <<worker, synced>>
    BY <1>1, <2>1 DEF TypeOK, Main, SetupSignalHandler, GetConfigOrDie, NewForConfig,
       NewAstroController, GoStart, CheckCaches, PollCaches, StartWorkers, GiveUp, RunReturns,
       MainReturns
  <2>2. CASE CheckCaches \/ PollCaches
    BY <2>2 DEF CheckCaches, PollCaches, StartWorkers, CachesSynced
  <2> QED
    BY <1>1, <2>1, <2>2 DEF Main, SetupSignalHandler, GetConfigOrDie, NewForConfig,
       NewAstroController, GoStart, GiveUp, RunReturns, MainReturns
<1>2. CASE Signal
  BY <1>2 DEF TypeOK, Signal, WithOneMore, Buffer
<1>3. CASE Handler
  BY <1>3 DEF TypeOK, Handler, FirstSignal, SecondSignal, Buffer
<1>4. ASSUME NEW f \in Factory, FactoryStart(f) PROVE StartInv'
  BY <1>4 DEF FactoryStart
<1>5. ASSUME NEW t \in Informer, InformerSyncs(t) \/ InformerStops(t) PROVE StartInv'
  BY <1>5 DEF TypeOK, InformerSyncs, InformerStops
<1>6. ASSUME NEW w \in Worker, Work(w) PROVE StartInv'
  BY <1>6 DEF TypeOK, Work, WorkerBegins, Get, SyncEnds
<1> QED BY <1>1, <1>2, <1>3, <1>4, <1>5, <1>6 DEF Next

LEMMA ExitStep == ASSUME TypeOK, StartInv, Next PROVE ExitCodes'
<1> USE DEF ExitCodes, Exit, mainVars, informerVars, signalVars
<1>1. exit = "none"
  BY DEF Next
<1>2. CASE Main
  <2>1. CASE GetConfigOrDie \/ NewForConfig
    BY <1>1, <2>1 DEF GetConfigOrDie, NewForConfig, ConfigFound
  <2>2. CASE GiveUp \/ MainReturns
    BY <1>1, <2>2 DEF GiveUp, MainReturns, TypeOK, StartInv, Cancelled, Buffer
  <2> QED
    BY <1>1, <1>2, <2>1, <2>2 DEF Main, SetupSignalHandler, NewAstroController, GoStart,
       CheckCaches, PollCaches, StartWorkers, RunReturns
<1>3. CASE Handler
  BY <1>1, <1>3 DEF Handler, FirstSignal, SecondSignal, TypeOK, StartInv, Cancelled, Buffer
<1>4. CASE Signal
  BY <1>1, <1>4 DEF Signal
<1>5. ASSUME \/ \E f \in Factory : FactoryStart(f)
             \/ \E t \in Informer : InformerSyncs(t) \/ InformerStops(t)
             \/ \E w \in Worker : Work(w)
      PROVE  exit' = "none"
  BY <1>1, <1>5 DEF FactoryStart, InformerSyncs, InformerStops, Work, WorkerBegins, Get, SyncEnds
<1> QED BY <1>2, <1>3, <1>4, <1>5 DEF Next

\* Types, the order of the start and the count of signals hold at every moment
\* between the first line of main and the exit.
THEOREM Invariance == Spec => []IInv
<1>1. IInv /\ [Next]_vars => IInv'
  <2> SUFFICES ASSUME IInv, [Next]_vars PROVE IInv'
    OBVIOUS
  <2>1. CASE Next
    BY <2>1, TypeStep, StartStep, ExitStep DEF IInv
  <2>2. CASE UNCHANGED vars
    BY <2>2 DEF IInv, TypeOK, StartInv, ExitCodes, ConfigFound, Cancelled, vars
  <2> QED BY <2>1, <2>2
<1> QED BY <1>1, InitInv, PTL DEF Spec

\* Every variable of the process keeps its type: the signal channel never holds more
\* than its two places.
THEOREM TypeCorrect == Spec => []TypeOK
<1>1. IInv => TypeOK
  BY DEF IInv
<1> QED BY <1>1, Invariance, PTL

\* Run lets no worker into processNextWorkItem before all three listers are full,
\* whatever the order in which the factories start and signals arrive.
THEOREM WorkAfterSync == Spec => []SyncedBeforeWork
<1>1. IInv => SyncedBeforeWork
  BY DEF IInv, StartInv, SyncedBeforeWork
<1> QED BY <1>1, Invariance, PTL

\* The exit code tells a shutdown, a second signal and a failed start apart.
THEOREM ExitsExplained == Spec => []ExitCodes
<1>1. IInv => ExitCodes
  BY DEF IInv
<1> QED BY <1>1, Invariance, PTL
=============================================================================
