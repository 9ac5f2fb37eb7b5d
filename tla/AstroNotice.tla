------------------------------ MODULE AstroNotice ------------------------------
(***************************************************************************)
(* Why nothing that happens to an Astro is missed: the inductive           *)
(* invariants RememberInv and NoticeInv. They say what starts the next     *)
(* sync while a sync that is under way works on an outdated object, or has *)
(* read what has changed since.                                            *)
(***************************************************************************)
EXTENDS AstroProperties

\* The last version of a that the informer was told of.
LastSeen(a) == IF watch[a] = << >> THEN cache[a] ELSE watch[a][Len(watch[a])]

SameVersion(c, s) == c # Nothing /\ c.uid = s.uid /\ c.rv = s.rv /\ c.deleting = s.deleting

\* The cache is never ahead of the watch, and the watch is not behind the store.
InSync ==
  \A a \in Key : IF Exists(a) THEN SameVersion(LastSeen(a), server[a]) ELSE LastSeen(a) = Nothing

\* What DeletionRemembered rests on besides IInv: a sync that starts when nothing is
\* left to be delivered finds the stored version in the cache.
RememberInv == InSync /\ budget["faults"] <= Budget["faults"] /\ DeletionRemembered

\* The last version to be delivered is the stored one.
WatchExact == \A a \in Key : watch[a] # << >> => watch[a][Len(watch[a])] = server[a]

\* Something will start a sync of a, or of what is to be delivered.
Noticed(a) == watch[a] # << >> \/ a \in events \/ a \in pending

\* A Deployment that a sync counted as not ready still is not, or is noticed.
CountNoticed ==
  \A w \in Worker, a \in Key :
    holder[w] = a /\ pc[w] = "count" /\ Fresh(a, obj[w]) /\ ready[w] < idx[w] - 1 =>
      Unready(a) \/ Noticed(a)

\* The cached object is ahead of the stored version with its phase only until the status
\* is sent.
CacheNotAhead ==
  \A a \in Key :
    /\ budget["faults"] = Budget["faults"]
    /\ PhaseIn(a, {"Initialized"})
    /\ ~server[a].deleting
    /\ watch[a] = << >>
    => \/ cache[a].status.phase = "Initialized"
       \/ \E w \in Worker : holder[w] = a /\ pc[w] = "status" /\ Fresh(a, obj[w])

\* What StaleSyncFollowed and ReadinessNoticed rest on besides IInv and DependInv.
NoticeInv ==
  RememberInv /\ WatchExact /\ StaleSyncFollowed /\ CountNoticed /\ CacheNotAhead /\ ReadinessNoticed
=============================================================================
