--------------------------- MODULE AstroQueueProofs ---------------------------
(***************************************************************************)
(* For any set of keys, any workers and any limit: the safety properties   *)
(* of AstroQueue, and that it implements WorkSet.                          *)
(***************************************************************************)
EXTENDS AstroQueue, SequenceTheorems, TLAPS

\* The retries of a key are among its counted additions; a worker that is about
\* to add one has seen the count below the limit, one that is about to drop has
\* seen it at the limit, and only it can reset it.
RetryInv ==
  /\ \A k \in Key : retried[k] <= requeues[k]
  /\ \A w \in Worker : pc[w] = "requeue" => retried[holder[w]] < MaxRetries
  /\ \A w \in Worker : pc[w] = "drop" => requeues[holder[w]] = MaxRetries

HolderInv == \A w \in Worker : Busy(w) <=> holder[w] \in Key

IInv == TypeOK /\ HolderInv /\ OneWorkerPerKey /\ QueueShape /\ NoLostEvent /\ RetryInv

\* A key appended to a queue that lacks it.
LEMMA AppendDistinct ==
  ASSUME NEW s \in Seq(Key), NEW k \in Key, Distinct(s), k \notin Elements(s)
  PROVE  /\ Append(s, k) \in Seq(Key)
         /\ Distinct(Append(s, k))
         /\ Elements(Append(s, k)) = Elements(s) \cup {k}
<1> DEFINE t == Append(s, k)
<1>1. /\ t \in Seq(Key) /\ Len(t) = Len(s) + 1 /\ Len(s) \in Nat
      /\ \A i \in 1..Len(s) : t[i] = s[i]
      /\ t[Len(s) + 1] = k
  BY AppendProperties
<1>2. Distinct(t)
  BY <1>1 DEF Distinct, Elements
<1>3. Elements(t) = Elements(s) \cup {k}
  BY <1>1 DEF Elements
<1> QED BY <1>1, <1>2, <1>3

\* The head taken off a queue.
LEMMA TailDistinct ==
  ASSUME NEW s \in Seq(Key), s # << >>, Distinct(s)
  PROVE  /\ Head(s) \in Key /\ Head(s) \in Elements(s)
         /\ Tail(s) \in Seq(Key)
         /\ Distinct(Tail(s))
         /\ Elements(Tail(s)) = Elements(s) \ {Head(s)}
<1>1. /\ Head(s) \in Key /\ Tail(s) \in Seq(Key)
      /\ Len(s) \in Nat /\ Len(s) >= 1 /\ Len(Tail(s)) = Len(s) - 1
      /\ Head(s) = s[1]
      /\ \A i \in 1..Len(Tail(s)) : Tail(s)[i] = s[i + 1]
  BY HeadTailProperties, LenProperties, EmptySeq
<1>2. Head(s) \in Elements(s)
  BY <1>1 DEF Elements
<1>3. Distinct(Tail(s))
  BY <1>1 DEF Distinct
<1>4. ASSUME NEW x PROVE x \in Elements(Tail(s)) <=> x \in Elements(s) \ {Head(s)}
  <2>1. ASSUME x \in Elements(Tail(s)) PROVE x \in Elements(s) \ {Head(s)}
    <3>1. PICK i \in 1..Len(Tail(s)) : x = Tail(s)[i]
      BY <2>1 DEF Elements
    <3>2. i + 1 \in 1..Len(s) /\ x = s[i + 1] /\ i + 1 # 1 /\ 1 \in 1..Len(s)
      BY <1>1, <3>1
    <3> QED BY <1>1, <3>2 DEF Elements, Distinct
  <2>2. ASSUME x \in Elements(s) \ {Head(s)} PROVE x \in Elements(Tail(s))
    <3>1. PICK i \in 1..Len(s) : x = s[i]
      BY <2>2 DEF Elements
    <3>2. i # 1
      BY <1>1, <2>2, <3>1
    <3>3. i - 1 \in 1..Len(Tail(s)) /\ Tail(s)[i - 1] = x
      BY <1>1, <3>1, <3>2
    <3> QED BY <3>3 DEF Elements
  <2> QED BY <2>1, <2>2
<1> QED BY <1>1, <1>2, <1>3, <1>4

LEMMA InitInv == Init => IInv
<1> SUFFICES ASSUME Init PROVE IInv
  OBVIOUS
<1>1. TypeOK
  BY QueueAssumption DEF Init, TypeOK
<1>2. HolderInv /\ OneWorkerPerKey /\ NoLostEvent
  BY QueueAssumption DEF Init, HolderInv, OneWorkerPerKey, NoLostEvent, Busy
<1>3. QueueShape
  BY DEF Init, QueueShape, Elements, Distinct, Busy
<1>4. RetryInv
  BY DEF Init, RetryInv
<1> QED BY <1>1, <1>2, <1>3, <1>4 DEF IInv

LEMMA EventInv == ASSUME IInv, NEW k \in Key, Event(k) PROVE IInv'
<1> USE QueueAssumption DEF IInv, Event, AddRateLimited, Count
<1>1. TypeOK'
  BY DEF TypeOK
<1>2. HolderInv' /\ OneWorkerPerKey'
  BY DEF HolderInv, OneWorkerPerKey, Busy
<1>3. QueueShape'
  BY DEF QueueShape, Busy
<1>4. NoLostEvent'
  BY DEF NoLostEvent
<1>5. RetryInv'
  BY DEF RetryInv, TypeOK, HolderInv, Busy
<1> QED BY <1>1, <1>2, <1>3, <1>4, <1>5

LEMMA DelayOverInv == ASSUME IInv, NEW k \in Key, DelayOver(k) PROVE IInv'
<1> USE QueueAssumption DEF IInv, DelayOver
<1>1. /\ queue' \in Seq(Key) /\ Distinct(queue')
      /\ Elements(queue') = dirty' \ processing'
  <2>1. CASE k \in dirty \cup processing
    BY <2>1 DEF TypeOK, QueueShape, Marked, Queued
  <2>2. CASE k \notin dirty \cup processing
    <3>1. k \notin Elements(queue)
      BY <2>2 DEF QueueShape
    <3>2. /\ Append(queue, k) \in Seq(Key) /\ Distinct(Append(queue, k))
          /\ Elements(Append(queue, k)) = Elements(queue) \cup {k}
      BY <3>1, AppendDistinct DEF TypeOK, QueueShape
    <3> QED BY <2>2, <3>2 DEF TypeOK, QueueShape, Marked, Queued
  <2> QED BY <2>1, <2>2
<1>2. TypeOK'
  BY <1>1 DEF TypeOK, Marked
<1>3. HolderInv' /\ OneWorkerPerKey'
  BY DEF HolderInv, OneWorkerPerKey, Busy
<1>4. QueueShape'
  BY <1>1 DEF QueueShape, Busy
<1>5. NoLostEvent'
  BY DEF NoLostEvent, Marked
<1>6. RetryInv'
  BY DEF RetryInv
<1> QED BY <1>2, <1>3, <1>4, <1>5, <1>6

LEMMA GetInv == ASSUME IInv, NEW w \in Worker, Get(w) PROVE IInv'
<1> DEFINE k == Head(queue)
<1> USE QueueAssumption DEF IInv, Get
<1>1. /\ k \in Key /\ k \in Elements(queue) /\ Tail(queue) \in Seq(Key)
      /\ Distinct(Tail(queue)) /\ Elements(Tail(queue)) = Elements(queue) \ {k}
  BY TailDistinct DEF TypeOK, QueueShape
<1>2. k \in dirty /\ k \notin processing
  BY <1>1 DEF QueueShape
<1>3. \A v \in Worker : Busy(v) => holder[v] # k
  BY <1>2 DEF QueueShape
<1>4. TypeOK'
  BY <1>1 DEF TypeOK
<1>5. HolderInv'
  BY <1>1 DEF HolderInv, TypeOK, Busy
<1>6. OneWorkerPerKey'
  BY <1>3 DEF OneWorkerPerKey, TypeOK, Busy
<1>7. QueueShape'
  <2>1. Elements(queue') = dirty' \ processing' /\ Distinct(queue')
    BY <1>1 DEF QueueShape
  <2>2. processing' = {holder'[v] : v \in {u \in Worker : Busy(u)'}}
    BY DEF QueueShape, TypeOK, Busy
  <2> QED BY <2>1, <2>2 DEF QueueShape
<1>8. NoLostEvent'
  BY DEF NoLostEvent
<1>9. RetryInv'
  BY DEF RetryInv, TypeOK
<1> QED BY <1>4, <1>5, <1>6, <1>7, <1>8, <1>9

\* What a worker does between Get and Done leaves the queue alone.
LEMMA WorkerKeepsShape ==
  ASSUME IInv, NEW w \in Worker, pc[w] # "idle",
         NEW l \in {"syncing", "requeue", "drop", "done"}, pc' = [pc EXCEPT ![w] = l],
         UNCHANGED <<queue, dirty, processing, holder>>
  PROVE  HolderInv' /\ OneWorkerPerKey' /\ QueueShape'
<1> USE DEF IInv
<1>1. \A v \in Worker : Busy(v)' <=> Busy(v)
  BY DEF TypeOK, Busy
<1> QED BY <1>1 DEF HolderInv, OneWorkerPerKey, QueueShape

LEMMA SyncSucceedsInv == ASSUME IInv, NEW w \in Worker, SyncSucceeds(w) PROVE IInv'
<1> USE QueueAssumption DEF IInv, SyncSucceeds, Forget
<1>1. TypeOK'
  <2>1. holder[w] \in Key
    BY DEF HolderInv, Busy
  <2>2. requeues' \in [Key -> 0..MaxRetries]
    BY <2>1 DEF TypeOK
  <2>3. retried' \in [Key -> Nat]
    BY <2>1 DEF TypeOK
  <2> QED BY <2>2, <2>3 DEF TypeOK
<1>2. HolderInv' /\ OneWorkerPerKey' /\ QueueShape'
  BY WorkerKeepsShape
<1>3. NoLostEvent'
  BY DEF NoLostEvent
<1>4. RetryInv'
  BY DEF RetryInv, TypeOK, HolderInv, OneWorkerPerKey, Busy
<1> QED BY <1>1, <1>2, <1>3, <1>4

LEMMA SyncFailsInv == ASSUME IInv, NEW w \in Worker, SyncFails(w) PROVE IInv'
<1> USE QueueAssumption DEF IInv, SyncFails, CanRetry
<1>1. TypeOK'
  BY DEF TypeOK
<1>2. HolderInv' /\ OneWorkerPerKey' /\ QueueShape'
  <2>1. CASE requeues[holder[w]] < MaxRetries
    BY <2>1, WorkerKeepsShape
  <2>2. CASE ~(requeues[holder[w]] < MaxRetries)
    BY <2>2, WorkerKeepsShape
  <2> QED BY <2>1, <2>2
<1>3. NoLostEvent'
  BY DEF NoLostEvent
<1>4. RetryInv'
  BY DEF RetryInv, TypeOK, HolderInv, Busy
<1> QED BY <1>1, <1>2, <1>3, <1>4

LEMMA RequeueInv == ASSUME IInv, NEW w \in Worker, Requeue(w) PROVE IInv'
<1> USE QueueAssumption DEF IInv, Requeue, AddRateLimited, Count
<1>1. TypeOK'
  <2>1. holder[w] \in Key
    BY DEF HolderInv, Busy
  <2>2. requeues' \in [Key -> 0..MaxRetries]
    BY <2>1 DEF TypeOK
  <2>3. retried' \in [Key -> Nat]
    BY <2>1 DEF TypeOK
  <2> QED BY <2>2, <2>3 DEF TypeOK
<1>2. HolderInv' /\ OneWorkerPerKey' /\ QueueShape'
  BY WorkerKeepsShape
<1>3. NoLostEvent'
  BY DEF NoLostEvent
<1>4. RetryInv'
  BY DEF RetryInv, TypeOK, HolderInv, OneWorkerPerKey, Busy
<1> QED BY <1>1, <1>2, <1>3, <1>4

LEMMA DropKeyInv == ASSUME IInv, NEW w \in Worker, DropKey(w) PROVE IInv'
<1> USE QueueAssumption DEF IInv, DropKey, Forget
<1>1. TypeOK'
  <2>1. holder[w] \in Key
    BY DEF HolderInv, Busy
  <2>2. requeues' \in [Key -> 0..MaxRetries]
    BY <2>1 DEF TypeOK
  <2>3. retried' \in [Key -> Nat]
    BY <2>1 DEF TypeOK
  <2> QED BY <2>2, <2>3 DEF TypeOK
<1>2. HolderInv' /\ OneWorkerPerKey' /\ QueueShape'
  BY WorkerKeepsShape
<1>3. NoLostEvent'
  BY DEF NoLostEvent
<1>4. RetryInv'
  BY DEF RetryInv, TypeOK, HolderInv, OneWorkerPerKey, Busy
<1> QED BY <1>1, <1>2, <1>3, <1>4

LEMMA DoneInv == ASSUME IInv, NEW w \in Worker, Done(w) PROVE IInv'
<1> DEFINE k == holder[w]
<1> USE QueueAssumption DEF IInv, Done, QueuedAgain
<1>1. k \in Key /\ k \in processing /\ k \notin Elements(queue)
  BY DEF HolderInv, QueueShape, Busy
<1>2. /\ queue' \in Seq(Key) /\ Distinct(queue')
      /\ Elements(queue') = dirty' \ processing'
  <2>1. CASE k \in dirty
    <3>1. /\ Append(queue, k) \in Seq(Key) /\ Distinct(Append(queue, k))
          /\ Elements(Append(queue, k)) = Elements(queue) \cup {k}
      BY <1>1, AppendDistinct DEF TypeOK, QueueShape
    <3> QED BY <1>1, <2>1, <3>1 DEF QueueShape
  <2>2. CASE k \notin dirty
    BY <1>1, <2>2 DEF TypeOK, QueueShape
  <2> QED BY <2>1, <2>2
<1>3. TypeOK'
  BY <1>2 DEF TypeOK
<1>4. HolderInv'
  BY DEF HolderInv, TypeOK, Busy
<1>5. OneWorkerPerKey'
  BY DEF OneWorkerPerKey, TypeOK, Busy
<1>6. QueueShape'
  <2>1. processing' = {holder'[v] : v \in {u \in Worker : Busy(u)'}}
    BY DEF QueueShape, OneWorkerPerKey, TypeOK, Busy
  <2> QED BY <1>2, <2>1 DEF QueueShape
<1>7. NoLostEvent'
  BY DEF NoLostEvent
<1>8. RetryInv'
  BY DEF RetryInv, TypeOK
<1> QED BY <1>3, <1>4, <1>5, <1>6, <1>7, <1>8

LEMMA NextInv == ASSUME IInv, [Next]_vars PROVE IInv'
<1>1. CASE UNCHANGED vars
  BY <1>1 DEF vars, IInv, TypeOK, HolderInv, OneWorkerPerKey, QueueShape, NoLostEvent,
              RetryInv, Busy
<1>2. CASE Next
  BY <1>2, EventInv, DelayOverInv, GetInv, SyncSucceedsInv, SyncFailsInv, RequeueInv,
     DropKeyInv, DoneInv DEF Next, Process
<1> QED BY <1>1, <1>2

THEOREM Invariance == Spec => []IInv
BY InitInv, NextInv, PTL DEF Spec

\* Every variable keeps its type.
THEOREM TypeCorrect == Spec => []TypeOK
BY Invariance, PTL DEF IInv

\* Two workers never sync the same Astro at the same time.
THEOREM MutualExclusion == Spec => []OneWorkerPerKey
BY Invariance, PTL DEF IInv

\* No event is lost, whenever it arrives.
THEOREM EventsKept == Spec => []NoLostEvent
BY Invariance, PTL DEF IInv

\* The queue holds exactly what is marked and not processed, once each.
THEOREM ShapeKept == Spec => []QueueShape
BY Invariance, PTL DEF IInv

\* handleErr requeues an Astro at most MaxRetries times before it forgets it.
THEOREM RetriesKept == Spec => []RetriesBounded
<1>1. ASSUME IInv, NEW k \in Key PROVE retried[k] <= MaxRetries
  <2>1. retried[k] \in Nat /\ requeues[k] \in 0..MaxRetries /\ retried[k] <= requeues[k]
    BY <1>1 DEF IInv, TypeOK, RetryInv
  <2> QED BY <2>1, QueueAssumption
<1>2. IInv => RetriesBounded
  BY <1>1 DEF RetriesBounded
<1> QED BY Invariance, <1>2, PTL

-----------------------------------------------------------------------------
(* AstroQueue implements WorkSet *)

LEMMA InitRefines == Init => W!WorkInit
BY DEF Init, W!WorkInit, Held

LEMMA EnvironmentRefines ==
  ASSUME IInv, NEW k \in Key, Event(k) \/ DelayOver(k)
  PROVE  [W!WorkNext]_W!workVars
<1>1. \A w \in Worker : Held(w)' = Held(w)
  BY DEF Event, DelayOver, Held
<1>2. CASE Event(k)
  <2>1. W!Enqueue(k)
    BY <1>1, <1>2 DEF Event, AddRateLimited, Count, W!Enqueue, W!Bump
  <2> QED BY <2>1 DEF W!WorkNext
<1>3. CASE DelayOver(k)
  BY <1>1, <1>3 DEF DelayOver, Marked, W!workVars
<1> QED BY <1>2, <1>3

LEMMA GetRefines ==
  ASSUME IInv, NEW w \in Worker, Get(w)
  PROVE  [W!WorkNext]_W!workVars
<1> DEFINE k == Head(queue)
           held == [v \in Worker |-> Held(v)]
<1> USE QueueAssumption DEF IInv, Get
<1>1. k \in Key /\ k \in dirty /\ k \notin processing
  BY TailDistinct DEF TypeOK, QueueShape
<1>2. \A v \in Worker : held[v] # k
  BY <1>1 DEF QueueShape, HolderInv, Held, Busy
<1>3. held[w] = NoKey
  BY DEF Held
<1>4. held' = [held EXCEPT ![w] = k]
  BY DEF Held, TypeOK
<1>5. (waiting \cup dirty)' \in {waiting \cup dirty, (waiting \cup dirty) \ {k}}
  BY <1>1
<1>6. W!Take(w, k)
  BY <1>1, <1>2, <1>3, <1>4, <1>5 DEF W!Take
<1> QED BY <1>1, <1>6 DEF W!WorkNext

LEMMA ProcessRefines ==
  ASSUME IInv, NEW w \in Worker, Process(w)
  PROVE  [W!WorkNext]_W!workVars
<1> DEFINE held == [v \in Worker |-> Held(v)]
<1> USE QueueAssumption DEF IInv
<1>1. ASSUME pc[w] \in {"syncing", "requeue", "drop"}
      PROVE  held[w] = holder[w] /\ held[w] # NoKey
  BY <1>1 DEF Held, HolderInv, Busy
<1>2. ASSUME pc[w] \in {"syncing", "requeue", "drop"}, pc' = [pc EXCEPT ![w] = "done"],
             UNCHANGED holder
      PROVE  held' = [held EXCEPT ![w] = NoKey]
  BY <1>2 DEF Held, TypeOK
<1>3. CASE SyncSucceeds(w)
  <2>1. W!Succeed(w)
    BY <1>1, <1>2, <1>3 DEF SyncSucceeds, Forget, W!Succeed
  <2> QED BY <2>1 DEF W!WorkNext
<1>4. CASE SyncFails(w)
  <2>1. held' = held
    BY <1>4 DEF SyncFails, Held, TypeOK
  <2> QED BY <1>4, <2>1 DEF SyncFails, W!workVars
<1>5. CASE Requeue(w)
  <2>1. W!Retry(w)
    BY <1>1, <1>2, <1>5 DEF Requeue, AddRateLimited, Count, W!Retry, W!Bump
  <2> QED BY <2>1 DEF W!WorkNext
<1>6. CASE DropKey(w)
  <2>1. requeues[held[w]] = MaxRetries
    BY <1>1, <1>6 DEF DropKey, RetryInv
  <2>2. W!Drop(w)
    BY <1>1, <1>2, <1>6, <2>1 DEF DropKey, Forget, W!Drop
  <2> QED BY <2>2 DEF W!WorkNext
<1>7. CASE Done(w)
  <2>1. held' = held
    BY <1>7 DEF Done, Held, TypeOK
  <2> QED BY <1>7, <2>1 DEF Done, W!workVars
<1> QED BY <1>3, <1>4, <1>5, <1>6, <1>7 DEF Process

\* The client-go queue and the workers' loop give the controller what WorkSet
\* promises, for any number of Astros and workers.
THEOREM Refinement == Spec => WorkSetSpec
<1>1. IInv /\ [Next]_vars => [W!WorkNext]_W!workVars
  <2> SUFFICES ASSUME IInv, [Next]_vars PROVE [W!WorkNext]_W!workVars
    OBVIOUS
  <2>1. CASE UNCHANGED vars
    BY <2>1 DEF vars, W!workVars, Held
  <2>2. CASE Next
    BY <2>2, EnvironmentRefines, GetRefines, ProcessRefines DEF Next
  <2> QED BY <2>1, <2>2
<1> QED BY InitRefines, Invariance, <1>1, PTL DEF Spec, WorkSetSpec, W!WorkSpec
=============================================================================
