# A TLA+ development of astertower

astertower is a Kubernetes operator. A user stores an *Astro*, a workflow whose
nodes are microservices called *stars*. The controller creates a Deployment and
a Service for every star, waits until all are available, starts the workflow
engine *astermule* as a pod, launches the workflow with one HTTP request and
stores the result in the status of the Astro. An HTTP server beside it takes workflows as
BPMN documents. This directory models both and what they stand on, checks them
with TLC and proves their safety properties with TLAPS.

## The system

| Component | Source | State | Operations |
|---|---|---|---|
| Informer handlers | `pkg/controllers/astro_controller.go` 98-135, 219-274, 726-757 | the informers' caches | add/update/delete of an Astro, any event of a Deployment or Service: queue the Astro |
| Work queue and workers | same file 91, 154-217 | queue, dirty, processing, delayed additions, requeue counts | Get, sync, handleErr (Forget, AddRateLimited, drop), Done |
| Sync | same file 276-724 | the Astro's phase and references | syncAstro, syncCreate, syncUpdate, syncDelete, syncStatus, newDeployment, newService, newAstermule |
| Astro type | `pkg/apis/v1alpha1/astros_types.go` | | |
| Clientset, lister, informers | `pkg/clients/` (generated) | the cache | Update, UpdateStatus, Get, ListWatch, resync |
| Process | `main.go`, `pkg/signals/signal.go`, `factory.go` | the context, started informers | configuration, start of the informers and of two workers, first and second signal, exit |
| Listener | `pkg/server/server.go`, `router/router.go` | whether it listens; the requests being handled | NewRouter; net/http gives each request a goroutine; its start is commented out in `main.go` |
| Deploy handler and BPMN parser | `pkg/server/handler/deploy.go`, `parser/`, `executer/` | the package variables `dag` and `doc` | DeployHandler, Xml2Dag, buildNode, buildFlow, NewWorkflowStarter, CreateWorkflow |
| Save handler | `pkg/server/handler/save.go` | buckets and objects in minio | SaveHandler with BucketExists, MakeBucket, PutObject |
| Kubernetes adapters | `pkg/server/kubernetes/` | three package variables; Deployments and Services | Init, createDeployment, deleteDeployment |
| API server, garbage collector, kubelet, engine, user | outside | the stored objects | what the controller's code assumes of them |

The controller's parts interact through the API server (requests and the watch)
and through the queue. Everything hard about the controller comes from four facts:

* the lister hands out the cached object itself, and the syncs assign to it;
* the cache lags behind the store, and each write is guarded only by the
  ResourceVersion the object came with;
* a sync is up to a dozen requests, each of which can fail, be carried out
  without an answer, or be the last one before a restart;
* Deployments and Services are watched, pods are not.

The server's parts share one process and its package variables. Hard about it:

* `dag` and `doc` are read and written by every deploy request, and `Xml2Dag`
  returns a pointer to `dag`; a map written by two goroutines ends the process;
* a save is up to three requests to minio, a call of an adapter two to the API
  server, and others' requests, failures or the end of the process come between.

What makes each part correct: one sync per Astro at a time and no event lost
(queue); phases that only advance and references that are true (sync); nothing
launched before the microservices are there, and no result without a launch;
a deletion that completes; a deploy request answered from its own body; a save
that is acknowledged and then there, and refused only for a reason; an adapter
whose answer is true. `PROJECT.json` lists the hazards line by line.

## Modules

| Module | Models |
|---|---|
| `WorkSet` | The abstract queue: a set of due keys, the key each worker holds, the count of additions. No order, no delays. |
| `AstroQueue` | The workers' loop and client-go's queue in detail. Implements `WorkSet`. |
| `AstroTypes` | Phases, the order the code moves through them (`Later`), status, Astro, owner reference. |
| `AstroCluster` | API server (optimistic locking, status subresource, finalizers, watch), dependents, garbage collector, pods, user. |
| `AstroController` | Cache, handlers, workers: one action per request of a sync. Uses `WorkSet` through `INSTANCE`. |
| `AstroPromise` | What a user can count on: the life of an Astro, without caches, queues, requests or versions. |
| `AstroProperties` | The properties of the controller, the refinement mapping to `AstroPromise`, the inductive invariant, the statements of the documents. |
| `AstroDependents` | The inductive invariant of the properties about Deployments, Services, engines and ports. |
| `AstroNotice` | The inductive invariants of the properties that say what leads to the next sync. |
| `AstroLaunch` | The inductive invariant of `LaunchedOnce`: which copies are behind the store, and by how much. |
| `Lifecycle` | The process: main, signal handler, factories and informers, Run, from the first line to the exit. |
| `ServerRequests` | The server's process: the listener and the requests in flight, how they begin and end. |
| `DeployServer` | DeployHandler with the parser and its package variables. Extends `ServerRequests`, as do the next two. |
| `SaveServer` | SaveHandler and minio. |
| `KubeAdapter` | The adapters' pairs of requests. |
| `AstroServer` | The three together in one process that can end; their properties and inductive invariant, the refinement mapping to `ServerPromise`. |
| `ServerPromise` | What a client can count on: the life of a request and what it stores, without handlers, buckets, adapters and package variables. |
| `AstroQueueProofs`, `LifecycleProofs`, `AstroServerProofs` | Theorems about the queue, the process, the server. |
| `AstroCopyProofs`, `AstroControllerProofs` | Theorems about an Astro and its copies; the first has the lemmas. |
| `AstroDependentProofs`, `AstroSyncProofs`, `AstroPromiseProofs` | Theorems about dependents, the refinement, the launch and what leads to the next sync; the first has the lemmas. |
| `MCAstroQueue`, `MCAstroController`, `MCLifecycle`, `MCAstroServer` | TLC instances, with a `.cfg` for each run. |

### How the controller corresponds to the code

`SyncGone`, `SyncDelete`, `SyncCreate`, `SyncInitialized`, `SyncWaited`,
`SyncReady` and `SyncSettled` take a key and dispatch on what the lister
returns; one of them is the part of a sync before its first request. `pc[w]`
names the next request of worker `w`, `obj[w]` is the object its variable
`astro` points to, and `alias[w]` says whether the cache still holds that very
object. `Assign` writes through the pointer: to `obj[w]`, and to `cache` while
the two are one object. `Deliver` replaces the cached object, which ends the
aliasing. After the Update in syncCreate `astro` is the object the server
returned, so the status assigned then is not seen by the cache.

`CallFails` is a request that does not arrive; `ReplyLost` a request that is
carried out but answered with an error. `Restart` is a crash at any point. In
`AstroCluster`, `server` is the store, `watch[a]` the versions of `a` not yet
delivered, `events` the owners with an undelivered Deployment or Service event.

`url` is the URL inside the one HTTP agent that the workers share: `ReadEndpoint`
is `agent.Get(url)`, `Launch` is `End()`, and another worker's Get can come
between. In external mode every URL is the same node port.

In `Lifecycle`, `main` is the next step of main and Run, `worker[w]` the
goroutine of a worker without what its sync does, `caught` the channel of the
signal handler (two places, and `signal.Notify` drops what does not fit),
`synced` the informers whose HasSynced is true. Its exits are what `Restart` in
`AstroController` stands for: `graceful` shows that a sync can be anywhere then.
The configuration is modelled by the facts that GetConfig asks for (`env`).

### How the server corresponds to the code

`at[r]` is the next thing the goroutine of request `r` does: a request to minio
or to the API server, or a stretch of the parser up to its next access to `dag`
or `doc`. A document or node set is called by the request that made it, so
`dag = q` says that the variable leads to the map made by `q`. `NewMap` and
`NewDocument` are the first two lines of Xml2Dag; `Open`, `ReadElement` and
`ReadEnd` are `doc.ReadFromString`; `SelectProcess`, `SelectTasks` and
`SelectFlows` are the lookups in whatever `doc` leads to by then. An assignment
to the map has a beginning and an end (`BeginNode`, `EndNode`), and a use of the
same map between them may be noticed by the Go runtime (`MapRace`), which ends
the process (`RuntimeEnds`). So requests that overlap get each other's ids and
nodes; `StarterFromNeighbours` says from how far these can come. A panic on a nil element or a nil node is recovered
by net/http and closes the connection (answer `aborted`); an early return
without a response is an empty one with status 200 (`silent`).

`GetName` is the empty string for every node, because `Fillin` is a TODO. The
comment at `xml2dag.go:37` says that an edge is ignored when one of its ends does
not exist; the condition below it ignores only an edge without the attribute, and
line 41 calls a method of the node that is not there. So a workflow with an
ordinary edge between two tasks is always aborted, such as the one that the fake
front end posts, and the parser gets through only an edge whose target is the empty
string. The run `edge_ignored` shows the disagreement with the comment. `Outcome`
is what the code answers, not what the comment says; `AnsweredAlone` is about
another question, whether what earlier requests left behind can change the answer.

`CheckBucket`, `MakeBucket` and `PutObject` are the requests of SaveHandler,
`Respond` its answer. minio's client sends a PUT that is not answered in time again,
so one `PutObject` of the code is one or more stores ("put-again"), with other
requests between them. `CreateDeployment` and `CreateService`, `DeleteDeployment`
and `DeleteService` are the pairs of the adapters; nothing in the repository
calls them yet, so any goroutine may. `Fault` is a request that failed, carried
out or not. `Killed` is a crash or a rollout while requests are handled.
`before` and `hit` are history; `Together(r, q)` says that neither
request had ended when the other began.

Definitions whose name ends in `Bug` are plausible mistakes used to check that
the properties notice them; the specifications do not use them.

### Abstractions

* One namespace. Conditions and Result are folded into the phase, with which
  they always change.
* `requeues` stops at `MaxRetries`, the only value it is compared with.
* An owner is a name and a uid; the uid is the version the object was created
  with. Other finalizers than the controller's are not modelled.
* A resync is an update from a version to itself, which `updateAstro` ignores.
* `events` is a set: equal events waiting to be handled count once. A Deployment
  can report at any time (`DeploymentReports`), so no schedule is lost by it.
* In `AstroController`, handleErr and Done are one step. `AstroQueue` has
  them apart, and shows that what happens in between does not matter to `WorkSet`.
* A watch that is interrupted and listed again delivers the latest version only;
  this equals delivering all versions with no sync between.
* What a failed assignment to a map leaves is not modelled: two writers that the
  runtime does not notice each store their node. Elements become visible to
  other requests one by one, in the order of the text.
* A request to minio or the API server that is under way when the process ends
  was carried out before or never is. The same goes for a PUT that the client has
  given up: minio does not carry it out after the handler has answered.
* The namespace is not terminated. `handleErr` forgets an error that says so, as it
  forgets a success (line 198): `SyncSucceeds` in `AstroQueue` stands for both.
* Parameters of a document that no property tells apart (names of tasks, images)
  are left out; an element is its kind.
* The engine's answer is a healthy or an unhealthy result. A body that does not
  parse gives phase Wrong, as in the code.

## Runs

| Run | Configuration | Shows |
|---|---|---|
| `queue` | 3 keys, 2 workers, 1 retry, fair | exclusive syncs, no lost event, bounded retries, every event followed by a sync, `AstroQueue` implements `WorkSet` |
| `core` | 1 Astro name, 2 stars, 1 worker, external mode, late watch | all safety properties of a sync; no deletion is forgotten and no readiness missed unless a request fails, no outdated sync is the last; the controller implements `AstroPromise` |
| `prompt` | the same, the watch keeps up, no failures, fair | every Astro gets to a result; one launch |
| `deletion` | 1 star, internal mode, late watch, restart, fair | deletion completes |
| `queue_drop` | 1 key, 3 retries | an Astro is dropped after fewer than maxRetries retries |
| `waited` | 1 Astro, nothing fails, late watch | a waiting Astro can leave the queue for good |
| `every_star` | 1 Astro, one failed request, fair | the missing Deployments are never created |
| `agent` | 2 Astros, 2 workers, 2 stars, internal mode, late watch, no failures | one Astro is given the result of the other |
| `lifecycle` | 2 workers, up to 3 signals, every configuration, fair | listers filled before work, exit codes, gets to work, a signal ends the process |
| `server` | 3 requests of any kind, 2 at a time, four bodies | deploy requests that do not overlap do not affect each other, and those that do get no older ids and nodes; no save is refused, lost or overwritten without a reason; adapters' answers are true; the server implements `ServerPromise` |
| `edge_ignored` | the same as `server` | an ordinary edge breaks off its request, instead of being ignored |
| `graceful` | the same as `lifecycle`, 1 signal | the first signal ends the process in the middle of a sync |

`queue_drop`, `waited`, `every_star`, `agent`, `edge_ignored` and `graceful`
contradict a sentence of the repository, quoted in `PROJECT.json`.

### Bounds

`Budget` says how often users, faults and restarts act, each and in total; the
constants of `MCAstroController` give its values. Nothing else is cut: watches,
versions and counters are finite because the phases only advance. In `core`
each kind of trouble can happen once and any three of them together with the
first creation, which covers every pair of troubles and the sequence create,
delete, create again. Two stars are the fewest for which a loop can fail half
way. One worker is enough for one name, because a second could never hold it
(`HolderInv`). An Astro that finds dependents which are not its own is in `core` the
second one of its name. Two names and two workers are in `agent`; that Astros of
different names do not share dependents, or results in external mode, is proved for
any number of both. One retry is enough to tell a retry from
a drop. `agent` uses the symmetry of workers, names and stars, which is sound
there because it checks safety only and its configuration treats them alike. `lifecycle` has one signal more than the handler
looks at and more than its channel needs; it has no other bound.

`server` has three requests, two of them at a time (`MaxAtOnce`): two are enough
for every race in it, and the third comes before or after them, so that it meets
what they left behind. One organization, project and name make all saves and
calls meet. The four bodies of `MCAstroServer` reach every place of the parser:
a document with a connected edge, one without an id that ends in an edge whose node is
missing, one that is cut off, a request that cannot be read. `NoId` is
reached by a request that parses the second while another is still reading it.
Requests are symmetric.
`SetAdapter` is taken only while a call is active; nobody reads the adapters
otherwise. The theorems about the server have none of these bounds.

### Fairness

`queue` assumes that a delay ends, that a free worker takes what is queued and
that a worker goes on; nothing is assumed of the outcome of a sync. For the
controller: informers deliver what they received, a due key is eventually taken
(this is `EventuallySynced` of the queue), every request is answered, pods
settle, Deployments become available in the end and the garbage collector
works. Users, failures, restarts and `DeploymentReports` are not fair.
`lifecycle` assumes that goroutines go on and that an informer that is not
stopped gets its first list in the end, as its reflector retries; nothing is
assumed of workers and of signals. `PromptWatch` is an assumption about timing that the code does not enforce;
`prompt` and `every_star` state it to look at one thing at a time, and `waited`
shows what happens without it. CHECK_DEADLOCK is FALSE where an instance may
come to rest: all Astros settled and the budget spent.

## Proofs

TLAPS checks every theorem below for all values of the constants, under the
named assumptions of the modules only: `NoKey` is no key, `MaxRetries` and the
budgets are natural numbers, the two modes are Booleans, star lists are
sequences of stars, `Nothing` is no Astro, owner, life, Deployment or engine, and a
request's body has the fields the handlers read (`DeployAssumption`,
`SaveAssumption`, `AdapterAssumption`). Keys, stars, workers and requests can be
any sets, finite or not.

`AstroQueueProofs`. The inductive invariant `IInv` adds two parts to the
properties TLC checks. `HolderInv` ties the place of a worker to its key.
`RetryInv` says that a failing key has been retried at most as often as it has
been counted, which `RetriesBounded` alone does not give: a retry is allowed by
the count, not by the number of retries. `AppendDistinct` and `TailDistinct` say
how the elements of a queue without duplicates change; with them `QueueShape`
is preserved by `DelayOver`, `Get` and `Done`. `Refinement` maps the due keys of
`WorkSet` to `waiting \cup dirty` and a worker's key to `Held(w)`; `Get` is
`Take`, the end of handleErr is `Succeed`, `Retry` or `Drop`, and the hand-over
from the delay to the queue and `Done` are stutters.

`AstroCopyProofs` and `AstroControllerProofs`. The difficulty is that
`VersionsAgree` is about every copy of an Astro at once, and `FinalizerBeforeStatus`
and `PhaseOnlyAdvances` hold only because no bad copy can be written. The
inductive invariant is
`TypeOK /\ HolderInv /\ SyncInv /\ LoopInv /\ FinalizerBeforeStatus /\ VersionsAgree`.

* `CopyOK(a, c)` says what a copy `c` with the current version may differ in.
  It is kept by every write, to any Astro, because no copy has the number of
  the new version yet (`StoreKeeps`, `RemoveKeeps`).
* `HolderInv` makes an aliased object the cached one and gives each key to one
  worker, so an assignment through the pointer changes one worker's object and
  one cache entry (`WorkerStep`, of which each step of a worker is an instance).
* `SyncInv` says which phase the object has at each place in syncAstro; it gives
  the premise of each write: what `UpdateStatus` sends is a later phase than the
  stored one, what `Update` sends in syncCreate has a finalizer.
* `LoopInv` bounds the loop positions, so that `stars[idx]` is a star.

The invariant is split for the proof: `CopyInv` (Astros, their copies and who
holds them) is preserved by `NextCopies`, which also proves that phases advance;
dependents with the budget, queue, and loop positions are preserved by
`NextDependents`, `NextQueue` and `NextPosition`. Each of these has a case per
action of the model.

`AstroDependentProofs` and `AstroSyncProofs`. What an Astro says of its
Deployments, Services, engine and port is written by a worker from what it read
some requests ago, is copied to the store, the watch, the cache and other
workers, and must still be true when anybody acts on it. So the invariant
`DependInv` is again about every copy:

* `Backed(own, status)` is what a status claims: each reference names something
  that this owner owns, the engine runs these Services, a phase after
  Initialized means that every Deployment has started. `Good(a, c)` asks it of a
  copy as long as the Astro it is a copy of is the stored one (`Alive`).
* `Progress` says how far a worker is within its loops, and `Deployed` what is
  there when syncCreate is about to write the first phase: its two writes are the
  only place where an object is ahead of the store with a phase (`FirstPhase`).
  This is why a conflict in syncStatus, which leaves the cache ahead of the store,
  cannot make a later sync start an engine for an Astro that was not deployed.
* A step removes one Astro, writes one, or leaves the store alone (`StoreMoves`), and
  no step takes from a living owner what it owns (`Kept`); so a good copy
  stays good (`GoodKept`), with no case analysis of actions. What is left is the
  object of the worker that takes the step (`WorkGood` has a case for each request),
  the cached object it may be writing through (`CachedStep`), and engines and ports.

`AstroPromiseProofs`. `InitializedDeployed` follows from `FirstPhase`.
`PromiseKept` is the refinement of `AstroPromise`: each step changes what is seen
of at most one Astro. UserCreates is `Appear`; UpdateAstro is `Protect`, or a
stutter when the finalizer is there; WriteStatus is `Proceed`, by
`PhaseOnlyAdvances`, with a launch before a result by `NoPhantomResult`; RunEngine
is `Launched`, or a stutter for an engine of somebody else; UserDeletes is
`Delete`; RemoveFinalizer is `Disappear`; all else is a stutter. It holds in
external mode: in internal mode the run `agent` shows a result without a launch.
A launch may be seen while the stored phase is still Initialized, which is why
`Launched` asks for no more than a phase.

`OneLaunch`, in the same module, is about timing: a workflow is launched by whoever
finds the phase Ready, and the phase that says otherwise is assigned only after
the launch, to the cached object first and to the store one request later. Its
invariant `OnceInv` says where the knowledge of the launch is in the meantime:

* `InSync`: the newest version on the watch, or else the cached object, is the stored
  version; what syncs assign to the cached object does not make it another one
  (`CacheStep`). It holds whatever happens (`InSyncStep`). So a sync that starts on a caught-up cache starts on the stored
  version, and only a deletion can change that before its last request
  (`UpdatesCurrent`, by `Touching`: a step writes to one Astro, as a user or as
  the worker that holds it).
* `LaunchKnown`: when the workflow was launched, the stored Astro is being deleted, or
  has a result, or the cached object has one and nothing is on the watch to replace
  it. `WrittenResult` says the same of a worker about to write the status.
* `NotYetRun`: so no sync finds Ready after the launch. The engine that it launches
  is its own, since the node port is (`FirstRun`, from `DependInv` and `OnePort`).

It takes external mode, a watch that keeps up, and no edits, lost requests and
restarts. None of these can be left out: TLC finds a second launch when one Astro
is edited (the edited version, which says Ready, replaces the cached object in the
middle of the sync, and the status write conflicts), when the watch is late (the same,
with the version before), when the reply to the launch is lost (the sync fails
and is retried), when the process is started again between launch and status (the
cache is read from the store), and in internal mode
with two Astros (the agent's URL leads to the other engine). Creations, deletions,
Deployments that fail, lost pods and the numbers of Astros and workers are free.

`DeletionKept` is the safety half of `DeletionCompletes`: the worker drops a key after
`maxRetries` failures, and a conflict is a failure, yet a deletion is not lost by it.
As long as an Astro is marked as deleted, a version of it is still to be delivered, or
it is due, or a worker is about to send the removal of the finalizer from the
stored version. `RememberInv` has `InSync` besides: a sync that takes the key when
nothing is left to be delivered finds the stored version in the cache, whatever
earlier syncs assigned to it, so its request is not refused (`DeletionTaken`); a
sync that can still conflict has a version on the watch that queues the Astro again. It
needs `IInv` only, and holds in both modes, with any watch, edits and restarts. It
says nothing once a request was lost: `maxRetries` failures in a row, or one
that follows enough events, do lose the deletion until the next event or restart.

`StaleSyncs` and `ReadinessKept` are about what leads to the next sync. A sync may work
on an outdated object from its first request on, or become outdated in the middle of it;
it may then conflict, be dropped after `maxRetries` failures, or write nothing at all.
`StaleSyncFollowed` says that it is not the last one: a version is still on the watch, or the
key is due. It holds whatever fails, because delivering a version queues the key, nobody takes
a key that a worker has (`HeldStaysDue`), what a worker goes on with is the version it
took or one that it wrote (`WorkKeepsVersion`), and a sync that starts when nothing
is left to be delivered starts on the stored version (`StartsFresh`, from `InSync`).

`ReadinessNoticed` is the safety half of leaving phase Initialized, the only phase that
ends by events alone: readiness is counted over one read per Deployment, and one that
gets available behind the position of the loop is not counted. `NoticeInv` adds three
parts:

* `CountNoticed`: when a sync of the stored version has counted fewer than it has read, one
  of the Deployments is still not available, or something that leads to a sync is there
  already. A Deployment that changes is an event for its owner (`DeploymentEvents`), and
  what is noticed stays noticed until a sync starts (`NoticedStep`). The event is not
  ignored: the lister knows the Astro, or a version of it is on the watch (`InSync`).
* `CacheNotAhead`: syncStatus assigns phase Waited to the cached object before it sends it, and a
  sync that starts in between would take the wrong branch. But as long as no request fails, the
  worker that assigned it still holds the key, or a version is on the watch that
  replaces the object (`CachedPhaseStep`). A status request that fails leaves the phase
  in the cache for good, which is why the property is only about runs without one.
* `WatchExact`: the last version on the watch is the stored one, phase and all.

So the sync that is noticed counts from the stored version (`CountStarts`), and it ends in
sending phase Waited or in a Deployment that it counted as not ready (`CountGoesOn`,
which needs from `DependInv` that `nodeNumber` is the number of references and that the
references lead to the Astro's own Deployments). Any watch, edits and restarts are
allowed, and any number of Astros and workers, in both modes.

`LifecycleProofs`. The invariant says that no worker exists before all caches
are filled and that the handler took no signal that was not sent.

`AstroServerProofs`. Each step is a step of one request (it begins, goes on or
ends) or loses them all; `Kept` says what no step takes back: a request that has
ended stays so, and two that were together stay together. With `RequestInv`, two
active requests are together. On top of it, by part:

* `ParserInv`: pointers are set where they are followed, and a writer of a map is
  inside its assignment.
* `SharedInv`: a request that has set `doc` finds in it, until it selects its tasks, only
  elements of requests that were handled at the same time as itself, because a document
  is set before it is read into and a neighbour stays one (`NeighboursGrow`). A node
  in the map was taken by such a request from a document of one of its own
  neighbours, so `StarterFromNeighbours` allows one step more for nodes than for ids.
* `SoloInv`: whatever the package variables led to before, nothing leads to the node
  set and document of a request that has not made them (`Fresh`), and a request
  alone has built what its own text asks for up to the elements left to its loop
  (`Solo`). As soon as another deploy request takes a step it is not alone, so only
  its own steps matter (`AloneSteps`).
* `SaveInv`: a bucket found when a handler makes it was made since it looked.
  `WinnerInv`: who made a bucket, or stored an object, is on its way to success
  unless something fails it, so the race for the bucket has a winner.
* `OpInv` and `AdapterInv`: the place of a call tells which half is done, as long as
  no other call for the name came between.

`PromiseKept` of this module is the refinement of `ServerPromise`, in which a
request is new, asked, made (its object is stored, or one half of its call done) or
answered, and buckets, `dag`, `doc` and the adapters do not exist. `StageOf` maps
the place of a goroutine to this. `PutObject` is `Store`, at the instant at which
minio stores the object, and `StoreAgain` when the client sends it again.
`CreateDeployment` and `DeleteDeployment` are `FirstHalf`, the two steps on Services
`OtherHalf`; a step that is carried out and fails is the same, with the answer of an
error. An answer without a change is `Acknowledge` or `Refuse`, the end of the
process `LoseAll`; everything else a handler does is a stutter. So whatever
overlaps, fails or ends, nothing is stored by a request that is not open, neither
half of a call is done twice, a save is not refused after its object is stored
unless minio failed it, and "success" leaves nothing out. `ServerPromise` allows any
refusal; when a save is refused without a failure is what `RefusedOnlyByRace` says.

| Theorem | Property |
|---|---|
| `AstroQueueProofs`: `TypeCorrect`, `MutualExclusion`, `EventsKept`, `ShapeKept`, `RetriesKept` | `TypeOK`, `OneWorkerPerKey`, `NoLostEvent`, `QueueShape`, `RetriesBounded` |
| `AstroQueueProofs`: `Refinement` | `WorkSetSpec` |
| `AstroControllerProofs`: `TypeCorrect`, `Versions`, `FinalizerFirst`, `PhasesAdvance` | `TypeOK`, `VersionsAgree`, `FinalizerBeforeStatus`, `PhaseOnlyAdvances` |
| `AstroSyncProofs`: `Dependents`, `MicroservicesFirst`, `OwnReferences`, `OwnEngine` | `DependInv`, `MicroservicesBeforeEngine`, `ReferencesOwned`, `EngineReferenced` |
| `AstroSyncProofs`: `OwnResult` (external mode) | `NoPhantomResult` |
| `AstroPromiseProofs`: `InitializedDeployed` | `InitializedMeansDeployed` |
| `AstroPromiseProofs`: `PromiseKept` (external mode) | `KeepsPromise` |
| `AstroPromiseProofs`: `DeletionKept` | `DeletionRemembered` |
| `AstroPromiseProofs`: `StaleSyncs`, `ReadinessKept` | `StaleSyncFollowed`, `ReadinessNoticed` |
| `AstroPromiseProofs`: `OneLaunch` (external mode, prompt watch, nothing interferes) | `LaunchedOnce` |
| `LifecycleProofs`: `TypeCorrect`, `WorkAfterSync`, `ExitsExplained` | `TypeOK`, `SyncedBeforeWork`, `ExitCodes` |
| `AstroServerProofs`: `TypeCorrect`, `AloneIsRight`, `NothingOlder` | `TypeOK`, `AnsweredAlone`, `StarterFromNeighbours` |
| `AstroServerProofs`: `BucketThere`, `RefusalExplained`, `RaceHasWinner`, `AcknowledgedStays` | `BucketBeforeObject`, `RefusedOnlyByRace`, `SomeSaveStored`, `NewestSaveStored` |
| `AstroServerProofs`: `NoErrorIsTrue`, `HalvesHaveCause` | `AnswersTrue`, `HalvesExplained` |
| `AstroServerProofs`: `PromiseKept` | `KeepsPromise` of `AstroServer` |

Not proved: liveness and anything about fairness (out of the prover's reach; TLC
checks `EventuallySynced`, `Settles`, `DeletionCompletes`, `GetsToWork` and
`SignalEnds`). Every other property of a passing run is proved.

## Not modelled

`LoadHandler` is empty and not registered. The get functions of the adapters only
read. The queue of containers that `createDeployment` builds is local to it.
`GenerateName` is not used. The fake front end is a manual tool that posts one
request. Generated code other than the requests and informers in use has no
decisions of its own. Logging, events and metrics are left out. What the API
server, minio and the Go runtime do is modelled from how the code uses them and
marked external in `PROJECT.json`.

## Plan

1. Done: the controller, its queue and the process, with the first theorems.
2. Done: `AstroPromise` and the proof that the controller implements it.
3. Done: the server's handlers, parser and adapters, in one process.
4. Done: the properties about references, engines and results proved from
   `DependInv`, and those of the server from its inductive invariant.
5. Done: `LaunchedOnce` proved from `OnceInv`; `ServerPromise` and the proof that the
   server implements it; `DeletionRemembered`, the part of `DeletionCompletes` that is
   a safety property, proved from `RememberInv`; `StaleSyncFollowed` and
   `ReadinessNoticed`, that of leaving phase Initialized, proved from `NoticeInv`.
6. Left: the safety halves of the other liveness properties, `Settles` from Waited on
   and those of the process.
