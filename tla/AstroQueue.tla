------------------------------ MODULE AstroQueue ------------------------------
(***************************************************************************)
(* The controller's workers and the rate limited work queue they share:    *)
(* queue, dirty and processing are client-go's FIFO, waiting holds the     *)
(* additions whose delay has not expired, requeues is the rate limiter's   *)
(* count. A sync is only its outcome here: AstroController has its body.   *)
(* The queue is never shut down (Run only asks whether it is), so Get has  *)
(* no quit branch.                                                         *)
(***************************************************************************)
EXTENDS Naturals, Sequences

CONSTANTS Key, Worker, NoKey, MaxRetries

ASSUME QueueAssumption ==
  /\ NoKey \notin Key
  /\ MaxRetries \in Nat

VARIABLES
  queue,       \* keys a worker can take, in order
  dirty,       \* keys that need processing, queued or not
  processing,  \* keys between Get and Done
  waiting,     \* keys whose delayed addition is due later
  requeues,    \* requeues[k]: NumRequeues(k), up to MaxRetries
  pc,          \* pc[w]: where worker w is in processNextWorkItem
  holder,      \* holder[w]: the key w took
  unseen,      \* history: keys with an event that no later sync started on
  retried      \* history: retried[k]: requeues by handleErr since Forget(k)

vars == <<queue, dirty, processing, waiting, requeues, pc, holder, unseen, retried>>

Elements(s) == {s[i] : i \in 1..Len(s)}

Distinct(s) == \A i, j \in 1..Len(s) : s[i] = s[j] => i = j

Init ==
  /\ queue = << >>
  /\ dirty = {}
  /\ processing = {}
  /\ waiting = {}
  /\ requeues = [k \in Key |-> 0]
  /\ pc = [w \in Worker |-> "idle"]
  /\ holder = [w \in Worker |-> NoKey]
  /\ unseen = {}
  /\ retried = [k \in Key |-> 0]

-----------------------------------------------------------------------------
(* A definition named ...Bug is not part of the specification: it is the    *)
(* definition below it with a plausible mistake, which a property of the    *)
(* run must notice.                                                         *)

CountBug(k) == [requeues EXCEPT ![k] = @ + 1]

Count(k) == [requeues EXCEPT ![k] = IF @ < MaxRetries THEN @ + 1 ELSE @]

\* When(k) counts the addition, and the key waits for the delay it returns.
AddRateLimited(k) ==
  /\ waiting' = waiting \cup {k}
  /\ requeues' = Count(k)

Forget(k) ==
  /\ requeues' = [requeues EXCEPT ![k] = 0]
  /\ retried' = [retried EXCEPT ![k] = 0]

\* An informer handler enqueues k.
Event(k) ==
  /\ AddRateLimited(k)
  /\ unseen' = unseen \cup {k}
  /\ UNCHANGED <<queue, dirty, processing, pc, holder, retried>>

MarkedBug(k) == IF k \in processing THEN dirty ELSE dirty \cup {k}

Marked(k) == dirty \cup {k}

QueuedBug(k) == IF k \in dirty THEN queue ELSE Append(queue, k)

Queued(k) == IF k \in dirty \cup processing THEN queue ELSE Append(queue, k)

\* The delay expires and Add runs: a key that is being processed is only
\* marked, Done puts it in the queue.
DelayOver(k) ==
  /\ k \in waiting
  /\ waiting' = waiting \ {k}
  /\ dirty' = Marked(k)
  /\ queue' = Queued(k)
  /\ UNCHANGED <<processing, requeues, pc, holder, unseen, retried>>

Get(w) ==
  /\ pc[w] = "idle"
  /\ queue # << >>
  /\ LET k == Head(queue) IN
       /\ holder' = [holder EXCEPT ![w] = k]
       /\ processing' = processing \cup {k}
       /\ dirty' = dirty \ {k}
       /\ unseen' = unseen \ {k}
  /\ queue' = Tail(queue)
  /\ pc' = [pc EXCEPT ![w] = "syncing"]
  /\ UNCHANGED <<waiting, requeues, retried>>

\* handleErr(nil, k), or the namespace is being terminated.
SyncSucceeds(w) ==
  /\ pc[w] = "syncing"
  /\ Forget(holder[w])
  /\ pc' = [pc EXCEPT ![w] = "done"]
  /\ UNCHANGED <<queue, dirty, processing, waiting, holder, unseen>>

CanRetryBug(k) == requeues[k] <= MaxRetries

CanRetry(k) == requeues[k] < MaxRetries

\* handleErr(err, k) reads NumRequeues; the handlers can add k before it acts.
SyncFails(w) ==
  /\ pc[w] = "syncing"
  /\ pc' = [pc EXCEPT ![w] = IF CanRetry(holder[w]) THEN "requeue" ELSE "drop"]
  /\ UNCHANGED <<queue, dirty, processing, waiting, requeues, holder, unseen, retried>>

Requeue(w) ==
  /\ pc[w] = "requeue"
  /\ AddRateLimited(holder[w])
  /\ retried' = [retried EXCEPT ![holder[w]] = @ + 1]
  /\ pc' = [pc EXCEPT ![w] = "done"]
  /\ UNCHANGED <<queue, dirty, processing, holder, unseen>>

DropKey(w) ==
  /\ pc[w] = "drop"
  /\ Forget(holder[w])
  /\ pc' = [pc EXCEPT ![w] = "done"]
  /\ UNCHANGED <<queue, dirty, processing, waiting, holder, unseen>>

QueuedAgainBug(k) == queue

QueuedAgain(k) == IF k \in dirty THEN Append(queue, k) ELSE queue

\* The deferred Done: a key marked while it was processed is queued again.
Done(w) ==
  /\ pc[w] = "done"
  /\ processing' = processing \ {holder[w]}
  /\ queue' = QueuedAgain(holder[w])
  /\ pc' = [pc EXCEPT ![w] = "idle"]
  /\ holder' = [holder EXCEPT ![w] = NoKey]
  /\ UNCHANGED <<dirty, waiting, requeues, unseen, retried>>

\* One iteration of processNextWorkItem after Get.
Process(w) == SyncSucceeds(w) \/ SyncFails(w) \/ Requeue(w) \/ DropKey(w) \/ Done(w)

Next ==
  \/ \E k \in Key : Event(k) \/ DelayOver(k)
  \/ \E w \in Worker : Get(w) \/ Process(w)

\* The delaying queue's own goroutine moves what is due; worker goroutines run
\* processNextWorkItem in a loop, and every call they make returns.
Fairness ==
  /\ \A k \in Key : WF_vars(DelayOver(k))
  /\ WF_vars(\E w \in Worker : Get(w))
  /\ \A w \in Worker : WF_vars(Process(w))

Spec == Init /\ [][Next]_vars
FairSpec == Spec /\ Fairness

-----------------------------------------------------------------------------
(* Properties *)

\* Type invariant.
TypeOK ==
  /\ queue \in Seq(Key)
  /\ dirty \in SUBSET Key
  /\ processing \in SUBSET Key
  /\ waiting \in SUBSET Key
  /\ requeues \in [Key -> 0..MaxRetries]
  /\ pc \in [Worker -> {"idle", "syncing", "requeue", "drop", "done"}]
  /\ holder \in [Worker -> Key \cup {NoKey}]
  /\ unseen \in SUBSET Key
  /\ retried \in [Key -> Nat]

Busy(w) == pc[w] # "idle"

\* Two workers never run syncAstro for the same Astro at the same time: the
\* sync functions take no lock, they rely on the queue for this.
OneWorkerPerKey ==
  \A v, w \in Worker : Busy(v) /\ Busy(w) /\ holder[v] = holder[w] => v = w

\* An event that arrives while its Astro is being synced, or is waiting for a
\* retry, still leads to a sync that starts after it.
NoLostEvent == unseen \subseteq waiting \cup dirty

\* handleErr puts a failing Astro back at most MaxRetries times before it lets
\* go of it, however events and retries are interleaved.
RetriesBounded == \A k \in Key : retried[k] <= MaxRetries

\* The key marked during its own sync is never forgotten in the mark: what is
\* marked and not processed is in the queue, once.
QueueShape ==
  /\ Elements(queue) = dirty \ processing
  /\ Distinct(queue)
  /\ processing = {holder[w] : w \in {v \in Worker : Busy(v)}}

\* Every event is eventually followed by the start of a sync, even when other
\* Astros fail all the time and the workers are few.
EventuallySynced == \A k \in Key : k \in unseen ~> k \notin unseen

\* The queue gives the controller what WorkSet promises: a worker holds its key
\* until handleErr is done with it.
Held(w) == IF pc[w] \in {"syncing", "requeue", "drop"} THEN holder[w] ELSE NoKey

W == INSTANCE WorkSet WITH
       pending <- waiting \cup dirty,
       holder <- [w \in Worker |-> Held(w)]

WorkSetSpec == W!WorkSpec

\* What the comment on maxRetries says: an Astro is dropped after maxRetries
\* retries. Handlers count too, so the code drops it earlier.
DroppedAfterMaxRetries ==
  \A w \in Worker : pc[w] = "drop" => retried[holder[w]] = MaxRetries

=============================================================================
