------------------------------- MODULE WorkSet -------------------------------
(***************************************************************************)
(* What the controller relies on the rate limited work queue of client-go  *)
(* for, with the order of the keys and the delays left out: a set of keys  *)
(* that are due for a sync, the key each worker is syncing, and the count  *)
(* of rate limited additions since the key was last forgotten.             *)
(* AstroQueue implements it; AstroController is built on it.               *)
(***************************************************************************)
EXTENDS Naturals

CONSTANTS
  Key,         \* the keys that can be queued: one for each Astro
  Worker,      \* the workers started by Run
  NoKey,       \* what an idle worker holds: no key
  MaxRetries   \* the limit handleErr compares NumRequeues with, a natural number

VARIABLES
  pending,     \* keys that a later sync will pick up
  holder,      \* holder[w]: the key worker w is syncing
  requeues     \* requeues[k]: additions of k since Forget, up to MaxRetries

workVars == <<pending, holder, requeues>>

WorkTypeOK ==
  /\ pending \subseteq Key
  /\ holder \in [Worker -> Key \cup {NoKey}]
  /\ requeues \in [Key -> 0..MaxRetries]

\* The rate limiter counts every addition, but the count is only ever compared
\* with MaxRetries, so it stops there.
Bump(k) == [requeues EXCEPT ![k] = IF @ < MaxRetries THEN @ + 1 ELSE @]

WorkInit ==
  /\ pending = {}
  /\ holder = [w \in Worker |-> NoKey]
  /\ requeues = [k \in Key |-> 0]

\* AddRateLimited on behalf of an event: k is due, and the addition is counted.
Enqueue(k) ==
  /\ pending' = pending \cup {k}
  /\ requeues' = Bump(k)
  /\ UNCHANGED holder

\* A free worker starts on a key that is due and that no other worker holds.
\* The key can stay due: a delayed addition of it may not have expired yet.
Take(w, k) ==
  /\ holder[w] = NoKey
  /\ k \in pending
  /\ \A v \in Worker : holder[v] # k
  /\ holder' = [holder EXCEPT ![w] = k]
  /\ pending' \in {pending, pending \ {k}}
  /\ UNCHANGED requeues

\* The sync returned nil: Forget, then Done.
Succeed(w) ==
  /\ holder[w] # NoKey
  /\ requeues' = [requeues EXCEPT ![holder[w]] = 0]
  /\ holder' = [holder EXCEPT ![w] = NoKey]
  /\ UNCHANGED pending

\* The sync failed and the key goes back to the queue.
Retry(w) ==
  /\ holder[w] # NoKey
  /\ pending' = pending \cup {holder[w]}
  /\ requeues' = Bump(holder[w])
  /\ holder' = [holder EXCEPT ![w] = NoKey]

\* The sync failed once too often: the key is forgotten.
Drop(w) ==
  /\ holder[w] # NoKey
  /\ requeues[holder[w]] = MaxRetries
  /\ requeues' = [requeues EXCEPT ![holder[w]] = 0]
  /\ holder' = [holder EXCEPT ![w] = NoKey]
  /\ UNCHANGED pending

WorkNext ==
  \/ \E k \in Key : Enqueue(k)
  \/ \E w \in Worker, k \in Key : Take(w, k)
  \/ \E w \in Worker : Succeed(w) \/ Retry(w) \/ Drop(w)

WorkSpec == WorkInit /\ [][WorkNext]_workVars
==============================================================================
