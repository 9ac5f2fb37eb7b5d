------------------------------- MODULE Lifecycle -------------------------------
(***************************************************************************)
(* The process around the controller: main, the signal handler, the two    *)
(* informer factories and Run, from the first line of main to the exit.    *)
(*                                                                         *)
(* AstroController starts where this module has its workers idle, and its  *)
(* Restart is an exit of this module followed by a new start.              *)
(***************************************************************************)
EXTENDS Naturals

CONSTANTS
  Worker,
  MaxSignals   \* bound on the signals that are sent

ASSUME LifecycleAssumption == MaxSignals \in Nat

\* Factory f makes the informers Informers[f].
Factory == {"kube", "astro"}
Informers == [f \in Factory |-> IF f = "kube" THEN {"deployment", "service"} ELSE {"astro"}]
Informer == UNION {Informers[f] : f \in Factory}

VARIABLES
  env,        \* what decides whether the process gets a configuration
  main,       \* the next step of main
  factory,    \* factory[f]: the goroutine that runs Start of f
  informer,   \* informer[t]: the goroutine of the informer of t
  synced,     \* the informers whose HasSynced is true
  worker,     \* worker[w]: what the goroutine of a worker does
  sent,       \* signals sent to the process
  caught,     \* signals in the channel of the handler
  handler,    \* which signal the handler waits for
  exit        \* how the process ended

vars == <<env, main, factory, informer, synced, worker, sent, caught, handler, exit>>
mainVars == <<env, main>>
informerVars == <<factory, informer, synced>>
signalVars == <<sent, caught, handler>>

\* variable, cluster, home, user: KUBECONFIG is set, the process is in a pod, HOME
\* is set, the user is known; file: what the loading rules lead to; valid: a
\* client can be made from the configuration.
Env == [variable : BOOLEAN, cluster : BOOLEAN, home : BOOLEAN, user : BOOLEAN,
        file : {"usable", "absent", "broken"}, valid : BOOLEAN]

Buffer == 2

TypeOK ==
  /\ env \in Env
  /\ main \in {"start", "config", "clients", "construct", "launch", "check", "wait",
               "running", "returned"}
  /\ factory \in [Factory -> {"none", "starting", "started"}]
  /\ informer \in [Informer -> {"none", "registered", "running", "stopped"}]
  /\ synced \subseteq Informer
  /\ worker \in [Worker -> {"none", "starting", "idle", "syncing", "stopped"}]
  /\ sent \in 0..MaxSignals
  /\ caught \in 0..Buffer
  /\ handler \in {"none", "first", "second"}
  /\ exit \in {"none", "0", "1", "255", "killed"}

Init ==
  /\ env \in Env
  /\ main = "start"
  /\ factory = [f \in Factory |-> "none"]
  /\ informer = [t \in Informer |-> "none"]
  /\ synced = {}
  /\ worker = [w \in Worker |-> "none"]
  /\ sent = 0
  /\ caught = 0
  /\ handler = "none"
  /\ exit = "none"

Exit(code) == exit' = code

\* The context that SetupSignalHandler returned is done.
Cancelled == handler = "second"

-----------------------------------------------------------------------------
(* Signals. A definition named ...Bug is not part of the specification: it *)
(* is the definition below it with a plausible mistake.                    *)

WithOneMoreBug == caught + 1

\* signal.Notify does not wait for room in the channel.
WithOneMore == IF caught < Buffer THEN caught + 1 ELSE caught

\* Before the call of signal.Notify a signal ends the process.
Signal ==
  /\ sent < MaxSignals
  /\ sent' = sent + 1
  /\ \/ handler = "none" /\ Exit("killed") /\ UNCHANGED caught
     \/ /\ handler # "none"
        /\ caught' = WithOneMore
        /\ UNCHANGED exit
  /\ UNCHANGED <<mainVars, informerVars, worker, handler>>

FirstSignal ==
  /\ handler = "first"
  /\ caught > 0
  /\ caught' = caught - 1
  /\ handler' = "second"
  /\ UNCHANGED <<mainVars, informerVars, worker, sent, exit>>

SecondSignalBug ==
  /\ handler = "second"
  /\ Exit("1")
  /\ UNCHANGED <<mainVars, informerVars, worker, signalVars>>

SecondSignal ==
  /\ handler = "second"
  /\ caught > 0
  /\ caught' = caught - 1
  /\ Exit("1")
  /\ UNCHANGED <<mainVars, informerVars, worker, sent, handler>>

-----------------------------------------------------------------------------
(* main, up to Run *)

SetupSignalHandler ==
  /\ main = "start"
  /\ handler' = "first"
  /\ main' = "config"
  /\ UNCHANGED <<env, informerVars, worker, sent, caught, exit>>

\* No flag sets the variable kubeconfig, so the first case of GetConfig is dead.
\* The deferred loader turns to the pod's configuration when there is no file.
ConfigFound ==
  \/ ~env.variable /\ env.cluster
  \/ /\ env.home \/ env.user
     /\ env.file = "usable" \/ (env.file = "absent" /\ env.cluster)

GetConfigOrDie ==
  /\ main = "config"
  /\ \/ ConfigFound /\ main' = "clients" /\ UNCHANGED exit
     \/ ~ConfigFound /\ Exit("1") /\ UNCHANGED main
  /\ UNCHANGED <<env, informerVars, worker, signalVars>>

\* Fatalln exits with 255.
NewForConfig ==
  /\ main = "clients"
  /\ \/ env.valid /\ main' = "construct" /\ UNCHANGED exit
     \/ ~env.valid /\ Exit("255") /\ UNCHANGED main
  /\ UNCHANGED <<env, informerVars, worker, signalVars>>

\* The factory makes an informer when it is asked for the first time.
InformerFor(t) == IF informer[t] = "none" THEN "registered" ELSE informer[t]

\* NewAstroController asks the factories for their informers.
NewAstroController ==
  /\ main = "construct"
  /\ informer' = [t \in Informer |-> InformerFor(t)]
  /\ main' = "launch"
  /\ UNCHANGED <<env, factory, synced, worker, signalVars, exit>>

\* Both factories start in goroutines of their own.
GoStart ==
  /\ main = "launch"
  /\ factory' = [f \in Factory |-> "starting"]
  /\ main' = "check"
  /\ UNCHANGED <<env, informer, synced, worker, signalVars, exit>>

-----------------------------------------------------------------------------
(* The informers *)

StartableBug(f) == {CHOOSE t \in Informers[f] : TRUE}

\* The informers that were asked for and have not been started.
Startable(f) == {t \in Informers[f] : informer[t] = "registered"}

\* Start holds the lock of the factory from beginning to end.
FactoryStart(f) ==
  /\ factory[f] = "starting"
  /\ factory' = [factory EXCEPT ![f] = "started"]
  /\ informer' = [t \in Informer |-> IF t \in Startable(f) THEN "running" ELSE informer[t]]
  /\ UNCHANGED <<mainVars, synced, worker, signalVars, exit>>

\* The first list has arrived in the cache; HasSynced stays true.
InformerSyncs(t) ==
  /\ informer[t] = "running"
  /\ t \notin synced
  /\ synced' = synced \cup {t}
  /\ UNCHANGED <<mainVars, factory, informer, worker, signalVars, exit>>

InformerStops(t) ==
  /\ informer[t] = "running"
  /\ Cancelled
  /\ informer' = [informer EXCEPT ![t] = "stopped"]
  /\ UNCHANGED <<mainVars, factory, synced, worker, signalVars, exit>>

-----------------------------------------------------------------------------
(* Run *)

CachesSyncedBug == "astro" \in synced

\* astroListerSynced, deploymentListerSynced and serviceListerSynced.
CachesSynced == synced = Informer

StartWorkers ==
  /\ main' = "running"
  /\ worker' = [w \in Worker |-> "starting"]

\* WaitForNamedCacheSync looks once, and then again and again, or gives up when
\* the context is done. A poll and the context can be ready together.
CheckCaches ==
  /\ main = "check"
  /\ \/ CachesSynced /\ StartWorkers
     \/ ~CachesSynced /\ main' = "wait" /\ UNCHANGED worker
  /\ UNCHANGED <<env, informerVars, signalVars, exit>>

PollCaches ==
  /\ main = "wait"
  /\ CachesSynced
  /\ StartWorkers
  /\ UNCHANGED <<env, informerVars, signalVars, exit>>

GiveUpBug ==
  /\ main = "wait"
  /\ Cancelled
  /\ CachesSynced
  /\ Exit("255")
  /\ UNCHANGED <<mainVars, informerVars, worker, signalVars>>

\* Run returns an error, and main ends with Fatalln.
GiveUp ==
  /\ main = "wait"
  /\ Cancelled
  /\ Exit("255")
  /\ UNCHANGED <<mainVars, informerVars, worker, signalVars>>

\* UntilWithContext does not begin with a context that is done.
WorkerBegins(w) ==
  /\ worker[w] = "starting"
  /\ worker' = [worker EXCEPT ![w] = IF Cancelled THEN "stopped" ELSE "idle"]
  /\ UNCHANGED <<mainVars, informerVars, signalVars, exit>>

\* The loop in worker does not look at the context, and nobody shuts the queue
\* down: ShuttingDown only asks.
Get(w) ==
  /\ worker[w] = "idle"
  /\ worker' = [worker EXCEPT ![w] = "syncing"]
  /\ UNCHANGED <<mainVars, informerVars, signalVars, exit>>

SyncEnds(w) ==
  /\ worker[w] = "syncing"
  /\ worker' = [worker EXCEPT ![w] = "idle"]
  /\ UNCHANGED <<mainVars, informerVars, signalVars, exit>>

RunReturns ==
  /\ main = "running"
  /\ Cancelled
  /\ main' = "returned"
  /\ UNCHANGED <<env, informerVars, worker, signalVars, exit>>

\* main returns, and every goroutine ends where it is.
MainReturns ==
  /\ main = "returned"
  /\ Exit("0")
  /\ UNCHANGED <<mainVars, informerVars, worker, signalVars>>

-----------------------------------------------------------------------------
Main ==
  \/ SetupSignalHandler \/ GetConfigOrDie \/ NewForConfig \/ NewAstroController \/ GoStart
  \/ CheckCaches \/ PollCaches \/ GiveUp \/ RunReturns \/ MainReturns

Handler == FirstSignal \/ SecondSignal

Work(w) == WorkerBegins(w) \/ Get(w) \/ SyncEnds(w)

Next ==
  /\ exit = "none"
  /\ \/ Main
     \/ Signal
     \/ Handler
     \/ \E f \in Factory : FactoryStart(f)
     \/ \E t \in Informer : InformerSyncs(t) \/ InformerStops(t)
     \/ \E w \in Worker : Work(w)

Alive == exit = "none"

\* Goroutines that can go on do. An informer gets its first list in the end:
\* its reflector tries again until it is stopped.
Fairness ==
  /\ WF_vars(Alive /\ Main)
  /\ WF_vars(Alive /\ Handler)
  /\ \A f \in Factory : WF_vars(Alive /\ FactoryStart(f))
  /\ \A t \in Informer : WF_vars(Alive /\ InformerSyncs(t))

Spec == Init /\ [][Next]_vars
FairSpec == Spec /\ Fairness

-----------------------------------------------------------------------------
(* What the process promises *)

\* No worker reads a lister before it has been filled: syncAstro takes an Astro
\* that the lister does not know for deleted, and would drop it from the queue.
SyncedBeforeWork == \A w \in Worker : worker[w] = "syncing" => synced = Informer

\* The exit code says what happened: 0 for a shutdown of a controller that was
\* at work, 1 for a second signal or no configuration, 255 for a bad
\* configuration or a shutdown while the caches were being filled.
ExitCodes ==
  /\ exit = "0" => sent >= 1 /\ main = "returned"
  /\ exit = "1" => sent >= 2 \/ ~ConfigFound
  /\ exit = "255" => \/ main = "clients" /\ ~env.valid
                     \/ main = "wait" /\ sent >= 1

\* Although the factories start in goroutines of their own, no informer is left
\* out: the process gets to work, unless it ends.
GetsToWork == <>(main = "running" \/ ~Alive)

\* A caught signal ends the process, also while the caches never get filled.
SignalEnds == caught > 0 ~> ~Alive

\* A comment in main: the first shutdown signal is handled gracefully. A process
\* that ends by itself leaves no sync half done.
GracefulShutdown == exit = "0" => \A w \in Worker : worker[w] # "syncing"

-----------------------------------------------------------------------------
(* What the safety properties rest on *)

\* A worker has been started only after the caches were filled, and every signal
\* that the handler took, or can take, was sent.
StartInv ==
  /\ \A w \in Worker : worker[w] # "none" => synced = Informer
  /\ sent >= caught + (IF Cancelled THEN 1 ELSE 0)
  /\ main = "returned" => Cancelled

\* The inductive invariant.
IInv == TypeOK /\ StartInv /\ ExitCodes
=============================================================================
