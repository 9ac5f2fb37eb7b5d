---------------------------- MODULE AstroCopyProofs ----------------------------
(***************************************************************************)
(* The lemmas about Astros and their copies, in the store, on the watch, in *)
(* the cache and in the syncs: every step of AstroController keeps them     *)
(* good copies and lets phases advance. AstroControllerProofs has the       *)
(* theorems.                                                                *)
(***************************************************************************)
EXTENDS AstroProperties, SequenceTheorems, TLAPS

\* What a step does to the Astros, their copies and the workers that hold them.
CopyTypes ==
  /\ server \in [Key -> Astro \cup {Nothing}]
  /\ rev \in [Key -> Nat]
  /\ watch \in [Key -> Seq(Astro \cup {Nothing})]
  /\ cache \in [Key -> Astro \cup {Nothing}]
  /\ holder \in [Worker -> Key \cup {NoKey}]
  /\ pc \in [Worker -> Calls \cup {"free", "return", "error"}]
  /\ obj \in [Worker -> Astro \cup {Nothing}]
  /\ alias \in [Worker -> BOOLEAN]

CopyInv == CopyTypes /\ HolderInv /\ SyncInv /\ FinalizerBeforeStatus /\ VersionsAgree

\* The rest: dependents, budget, queue and positions of loops.
DependentTypes ==
  /\ deploys \in [Star -> Deployment \cup {Nothing}]
  /\ services \in [Star -> Owner \cup {Nothing}]
  /\ engines \in [Key -> Engine \cup {Nothing}]
  /\ ports \in [Key -> Owner \cup {Nothing}]
  /\ events \in SUBSET Key
  /\ budget \in [Spending -> Nat]

QueueTypes ==
  /\ pending \subseteq Key
  /\ requeues \in [Key -> 0..MaxRetries]
  /\ url \in Key \cup {NoKey}

PositionInv ==
  /\ idx \in [Worker -> Nat]
  /\ ready \in [Worker -> Nat]
  /\ LoopInv

RestInv == DependentTypes /\ QueueTypes /\ PositionInv

LEMMA InvParts == /\ IInv <=> CopyInv /\ RestInv
                  /\ IInv' <=> CopyInv' /\ RestInv'
BY DEF IInv, CopyInv, RestInv, TypeOK, ClusterTypeOK, ControllerTypeOK, W!WorkTypeOK, CopyTypes,
       DependentTypes, QueueTypes, PositionInv

\* Phases are ordered, and Unset is the first.
LEMMA LaterFacts ==
  /\ \A p \in Phase : Later[p] \subseteq Phase /\ p \in Later[p]
  /\ \A p, q, r \in Phase : q \in Later[p] /\ r \in Later[q] => r \in Later[p]
  /\ \A p \in Phase : "Unset" \in Later[p] => p = "Unset"
  /\ "Initialized" \in Later["Unset"]
  /\ "Waited" \in Later["Initialized"]
  /\ "Ready" \in Later["Waited"] /\ "EngineFailed" \in Later["Waited"]
  /\ "Success" \in Later["Ready"] /\ "Wrong" \in Later["Ready"]
<1>1. /\ Later["Unset"] = Phase \ {"DeployFailed"}
      /\ Later["Initialized"] = Phase \ {"DeployFailed", "Unset"}
      /\ Later["Waited"] = {"Waited", "EngineFailed", "Ready", "Success", "Wrong"}
      /\ Later["Ready"] = {"Ready", "Success", "Wrong"}
      /\ \A p \in {"DeployFailed", "EngineFailed", "Success", "Wrong"} : Later[p] = {p}
  BY DEF Later, Phase
<1>2. \A p \in Phase : \/ p \in {"Unset", "Initialized", "Waited", "Ready"}
                       \/ p \in {"DeployFailed", "EngineFailed", "Success", "Wrong"}
  BY DEF Phase
<1>3. \A p \in Phase : Later[p] \subseteq Phase /\ p \in Later[p]
  BY <1>1, <1>2 DEF Phase
<1>4. ASSUME NEW p \in Phase, NEW q \in Later[p], NEW r \in Later[q] PROVE r \in Later[p]
  BY <1>1, <1>2, <1>4 DEF Phase
<1>5. \A p \in Phase : "Unset" \in Later[p] => p = "Unset"
  BY <1>1, <1>2 DEF Phase
<1> QED BY <1>1, <1>3, <1>4, <1>5 DEF Phase

\* An Astro and the parts of it that a step changes.
LEMMA AstroFields ==
  ASSUME NEW c \in Astro
  PROVE  /\ c # Nothing
         /\ c.uid \in Nat /\ c.rv \in Nat /\ c.deleting \in BOOLEAN
         /\ c.finalizer \in BOOLEAN /\ c.stars \in Seq(Star)
         /\ c.status \in Status /\ c.status.phase \in Phase
         /\ c.status.deploymentRef \in Seq(Star) /\ c.status.serviceRef \in Seq(Star)
         /\ c.status.astermuleRef \in BOOLEAN
         /\ c.status.nodeNumber \in Nat /\ c.status.readyNodeNumber \in Nat
BY TypesAssumption DEF Astro, Status

LEMMA NewStatus ==
  ASSUME NEW c \in Astro, NEW s \in Status
  PROVE  \E d \in Astro :
           /\ d = [c EXCEPT !.status = s] /\ d.status = s
           /\ d.uid = c.uid /\ d.rv = c.rv /\ d.deleting = c.deleting
           /\ d.finalizer = c.finalizer /\ d.stars = c.stars
<1> DEFINE e == [c EXCEPT !.status = s]
<1>1. e \in Astro
  BY DEF Astro
<1>2. e.status = s /\ e.finalizer = c.finalizer /\ e.deleting = c.deleting /\ e.uid = c.uid /\ e.rv = c.rv /\ e.stars = c.stars
  BY DEF Astro
<1> QED BY <1>1, <1>2, Zenon

LEMMA NewFinalizer ==
  ASSUME NEW c \in Astro, NEW f \in BOOLEAN
  PROVE  \E d \in Astro :
           /\ d = [c EXCEPT !.finalizer = f] /\ d.finalizer = f
           /\ d.uid = c.uid /\ d.rv = c.rv /\ d.deleting = c.deleting
           /\ d.status = c.status /\ d.stars = c.stars
<1> DEFINE e == [c EXCEPT !.finalizer = f]
<1>1. e \in Astro
  BY DEF Astro
<1>2. e.finalizer = f /\ e.status = c.status /\ e.deleting = c.deleting /\ e.uid = c.uid /\ e.rv = c.rv /\ e.stars = c.stars
  BY DEF Astro
<1> QED BY <1>1, <1>2, Zenon

LEMMA NewVersion ==
  ASSUME NEW c \in Astro, NEW n \in Nat
  PROVE  \E d \in Astro :
           /\ d = [c EXCEPT !.rv = n] /\ d.rv = n
           /\ d.uid = c.uid /\ d.finalizer = c.finalizer /\ d.deleting = c.deleting
           /\ d.status = c.status /\ d.stars = c.stars
<1> DEFINE e == [c EXCEPT !.rv = n]
<1>1. e \in Astro
  BY DEF Astro
<1>2. e.rv = n /\ e.finalizer = c.finalizer /\ e.deleting = c.deleting /\ e.uid = c.uid /\ e.status = c.status /\ e.stars = c.stars
  BY DEF Astro
<1> QED BY <1>1, <1>2, Zenon

LEMMA EmptyStatusType == EmptyStatus \in Status /\ EmptyStatus.phase = "Unset"
BY EmptySeq DEF EmptyStatus, Status, Phase

-----------------------------------------------------------------------------
(* The API server: what a write does to the copies that are around *)

\* The part of the invariant about the store and the watch.
StoreInv ==
  /\ server \in [Key -> Astro \cup {Nothing}]
  /\ rev \in [Key -> Nat]
  /\ watch \in [Key -> Seq(Astro \cup {Nothing})]
  /\ FinalizerBeforeStatus
  /\ \A a \in Key : Exists(a) => server[a].rv = rev[a]
  /\ \A a \in Key : \A i \in 1..Len(watch[a]) :
       watch[a][i] # Nothing => CopyOK(a, watch[a][i])

CopiesKept == \A a \in Key, c \in Astro : CopyOK(a, c) => CopyOK(a, c)'

Stable == StoreInv' /\ CopiesKept

\* The stored version is itself a good copy.
LEMMA StoredCopy ==
  ASSUME StoreInv, NEW a \in Key, Exists(a)
  PROVE  server[a] \in Astro /\ CopyOK(a, server[a])
<1>1. server[a] \in Astro
  BY DEF StoreInv, Exists
<1>2. server[a].status.phase \in Phase /\ server[a].rv \in Nat
  BY <1>1, AstroFields
<1>3. server[a].status.phase \in Later[server[a].status.phase]
  BY <1>2, LaterFacts
<1> QED BY <1>1, <1>2, <1>3 DEF StoreInv, FinalizerBeforeStatus, CopyOK

\* A new version leaves every copy a good one: no copy has its number yet.
LEMMA StoreKeeps ==
  ASSUME StoreInv, NEW a \in Key, NEW v \in Astro, Store(a, v),
         v.status.phase # "Unset" => v.finalizer
  PROVE  /\ Stable
         /\ server'[a] \in Astro
         /\ server'[a].status = v.status /\ server'[a].finalizer = v.finalizer
         /\ server'[a].deleting = v.deleting /\ server'[a].uid = v.uid
         /\ server'[a].stars = v.stars /\ server'[a].rv = rev'[a]
         /\ \A b \in Key \ {a} : server'[b] = server[b]
<1>1. rev[a] \in Nat /\ rev[a] + 1 \in Nat
  BY DEF StoreInv
<1>n. PICK n \in Astro :
        /\ n = [v EXCEPT !.rv = rev[a] + 1] /\ n.rv = rev[a] + 1
        /\ n.uid = v.uid /\ n.finalizer = v.finalizer /\ n.deleting = v.deleting
        /\ n.status = v.status /\ n.stars = v.stars
  BY <1>1, NewVersion
<1>2. n # Nothing /\ n.rv = rev[a] + 1 /\ n.status = v.status /\ n.finalizer = v.finalizer
  BY <1>n, AstroFields
<1>3. /\ rev' = [rev EXCEPT ![a] = rev[a] + 1]
      /\ server' = [server EXCEPT ![a] = n]
      /\ watch' = [watch EXCEPT ![a] = Append(watch[a], n)]
  BY <1>n DEF Store
<1>4. /\ server'[a] = n /\ rev'[a] = n.rv
      /\ \A b \in Key \ {a} : server'[b] = server[b] /\ rev'[b] = rev[b] /\ watch'[b] = watch[b]
      /\ watch'[a] = Append(watch[a], n)
  BY <1>2, <1>3 DEF StoreInv
<1>5. /\ server' \in [Key -> Astro \cup {Nothing}]
      /\ rev' \in [Key -> Nat]
      /\ watch' \in [Key -> Seq(Astro \cup {Nothing})]
  <2>1. Append(watch[a], n) \in Seq(Astro \cup {Nothing})
    BY <1>2, AppendProperties DEF StoreInv
  <2> QED BY <1>1, <1>2, <1>3, <2>1 DEF StoreInv
<1>6. FinalizerBeforeStatus'
  BY <1>2, <1>4 DEF StoreInv, FinalizerBeforeStatus, Exists
<1>7. \A b \in Key : Exists(b)' => server'[b].rv = rev'[b]
  BY <1>2, <1>4 DEF StoreInv, Exists
<1>8. ASSUME NEW b \in Key, NEW c \in Astro, CopyOK(b, c) PROVE CopyOK(b, c)'
  <2>1. c.rv \in Nat
    BY AstroFields
  <2>2. CASE b # a
    BY <2>2, <1>8, <1>4 DEF CopyOK, Exists
  <2>3. CASE b = a
    BY <2>3, <2>1, <1>8, <1>4, <1>2, <1>1 DEF CopyOK, Exists
  <2> QED BY <2>2, <2>3
<1>9. CopyOK(a, n)'
  <2>1. n.status.phase \in Later[n.status.phase] /\ n.rv \in Nat
    BY <1>2, AstroFields, LaterFacts
  <2> QED BY <1>2, <1>4, <2>1 DEF CopyOK, Exists
<1>10. ASSUME NEW b \in Key, NEW i \in 1..Len(watch'[b]), watch'[b][i] # Nothing
       PROVE  CopyOK(b, watch[b][i])'
  <2>1. CASE b # a
    <3>1. watch[b] \in Seq(Astro \cup {Nothing}) /\ i \in 1..Len(watch[b])
      BY <2>1, <1>4 DEF StoreInv
    <3>2. watch[b][i] \in Astro /\ CopyOK(b, watch[b][i]) /\ watch'[b][i] = watch[b][i]
      BY <3>1, <2>1, <1>4, <1>10, ElementOfSeq DEF StoreInv
    <3>3. CopyOK(b, watch[b][i]) => \A c \in Astro : c = watch[b][i] => CopyOK(b, c)'
      BY <1>8
    <3> QED BY <3>2, <3>3 DEF CopyOK, Exists
  <2>2. CASE b = a
    <3>1. watch[a] \in Seq(Astro \cup {Nothing}) /\ i \in 1..(Len(watch[a]) + 1)
      BY <2>2, <1>2, <1>4, AppendProperties DEF StoreInv
    <3>2. CASE i \in 1..Len(watch[a])
      <4>1. watch'[b][i] = watch[a][i]
        BY <2>2, <1>2, <1>4, <3>1, <3>2, AppendProperties
      <4>2. watch[a][i] \in Astro /\ CopyOK(a, watch[a][i])
        BY <4>1, <3>1, <3>2, <1>10, ElementOfSeq DEF StoreInv
      <4>3. \A c \in Astro : c = watch[a][i] => CopyOK(a, c)'
          BY <4>2, <1>8
        <4> QED BY <4>1, <4>2, <4>3, <2>2 DEF CopyOK, Exists
    <3>3. CASE i = Len(watch[a]) + 1
      <4>1. watch'[b][i] = n
        BY <3>3, <2>2, <1>2, <1>4, <3>1, AppendProperties
      <4> QED BY <4>1, <2>2, <1>9 DEF CopyOK, Exists
    <3> QED BY <3>1, <3>2, <3>3
  <2> QED BY <2>1, <2>2
<1>11. StoreInv'
  BY <1>5, <1>6, <1>7, <1>10 DEF StoreInv
<1> QED BY <1>n, <1>4, <1>8, <1>11 DEF Stable, CopiesKept

LEMMA RemoveKeeps ==
  ASSUME StoreInv, NEW a \in Key, Remove(a)
  PROVE  Stable /\ server' = [server EXCEPT ![a] = Nothing]
<1>1. /\ server'[a] = Nothing /\ rev' = rev
      /\ server' = [server EXCEPT ![a] = Nothing]
      /\ \A b \in Key \ {a} : server'[b] = server[b] /\ watch'[b] = watch[b]
      /\ watch'[a] = Append(watch[a], Nothing)
  BY DEF Remove, StoreInv
<1>2. /\ server' \in [Key -> Astro \cup {Nothing}]
      /\ watch' \in [Key -> Seq(Astro \cup {Nothing})]
  <2>1. Append(watch[a], Nothing) \in Seq(Astro \cup {Nothing})
    BY AppendProperties DEF StoreInv
  <2> QED BY <2>1 DEF StoreInv, Remove
<1>3. /\ FinalizerBeforeStatus'
      /\ \A b \in Key : Exists(b)' => server'[b].rv = rev'[b]
  BY <1>1 DEF StoreInv, FinalizerBeforeStatus, Exists
<1>4. ASSUME NEW b \in Key, NEW c \in Astro, CopyOK(b, c) PROVE CopyOK(b, c)'
  BY <1>1, <1>4 DEF CopyOK, Exists
<1>5. ASSUME NEW b \in Key, NEW i \in 1..Len(watch'[b]), watch'[b][i] # Nothing
      PROVE  CopyOK(b, watch[b][i])'
  <2>1. i \in 1..Len(watch[b]) /\ watch'[b][i] = watch[b][i] /\ watch[b] \in Seq(Astro \cup {Nothing})
    BY <1>1, <1>5, AppendProperties DEF StoreInv
  <2>2. watch[b][i] \in Astro /\ CopyOK(b, watch[b][i])
    BY <2>1, <1>5, ElementOfSeq DEF StoreInv
  <2> QED BY <2>1, <2>2, <1>1 DEF CopyOK, Exists
<1> QED BY <1>1, <1>2, <1>3, <1>4, <1>5 DEF Stable, StoreInv, CopiesKept

LEMMA AstroFrame == ASSUME StoreInv, UNCHANGED astroVars PROVE Stable
BY DEF Stable, StoreInv, CopiesKept, CopyOK, Exists, FinalizerBeforeStatus, astroVars

-----------------------------------------------------------------------------
(* The controller: what one step does to the cache and to the workers *)

\* The part of the invariant about the cache and the objects of the workers.
HeldInv ==
  /\ cache \in [Key -> Astro \cup {Nothing}]
  /\ holder \in [Worker -> Key \cup {NoKey}]
  /\ pc \in [Worker -> Calls \cup {"free", "return", "error"}]
  /\ obj \in [Worker -> Astro \cup {Nothing}]
  /\ alias \in [Worker -> BOOLEAN]
  /\ HolderInv
  /\ SyncInv
  /\ \A a \in Key : cache[a] # Nothing => CopyOK(a, cache[a])
  /\ \A w \in Worker : obj[w] # Nothing => holder[w] \in Key /\ CopyOK(holder[w], obj[w])

LEMMA CopyParts == /\ CopyInv <=> StoreInv /\ HeldInv
                   /\ CopyInv' <=> StoreInv' /\ HeldInv'
BY DEF CopyInv, CopyTypes, StoreInv, HeldInv, VersionsAgree

\* Where a worker may be with an object.
Fits(label, c) ==
  /\ label \in Calls => c # Nothing
  /\ c # Nothing => c.status.phase \in PhaseAt(label)
  /\ label \in Calls \ {"unfinalize"} => c.finalizer /\ ~c.deleting
  /\ label = "unfinalize" => c.deleting

\* Worker w goes to a label, holds a key and an object, which the cache gets too
\* if they are one.
Becomes(w, label, key, c, shared) ==
  /\ pc' = [pc EXCEPT ![w] = label]
  /\ holder' = [holder EXCEPT ![w] = key]
  /\ obj' = [obj EXCEPT ![w] = c]
  /\ alias' = [alias EXCEPT ![w] = shared]
  /\ cache' = IF shared THEN [cache EXCEPT ![key] = c] ELSE cache

\* Every step of a worker has this shape; it keeps the invariant when what the
\* worker then holds is a good copy that no other worker holds.
LEMMA WorkerStep ==
  ASSUME HeldInv, CopiesKept, NEW w \in Worker,
         NEW label \in Calls \cup {"free", "return", "error"},
         NEW key \in Key \cup {NoKey}, NEW c \in Astro \cup {Nothing}, NEW shared \in BOOLEAN,
         Becomes(w, label, key, c, shared),
         label = "free" <=> key = NoKey,
         key # NoKey => \A v \in Worker \ {w} : holder[v] # key,
         shared => c # Nothing,
         c # Nothing => key \in Key /\ CopyOK(key, c)',
         Fits(label, c)
  PROVE  HeldInv'
<1>1. /\ pc'[w] = label /\ holder'[w] = key /\ obj'[w] = c /\ alias'[w] = shared
      /\ \A v \in Worker \ {w} : /\ pc'[v] = pc[v] /\ holder'[v] = holder[v]
                                 /\ obj'[v] = obj[v] /\ alias'[v] = alias[v]
  BY DEF Becomes, HeldInv
<1>2. shared => key \in Key
  OBVIOUS
<1>3. /\ shared => cache'[key] = c /\ \A a \in Key \ {key} : cache'[a] = cache[a]
      /\ ~shared => cache' = cache
  BY <1>2 DEF Becomes, HeldInv
<1>4. /\ cache' \in [Key -> Astro \cup {Nothing}]
      /\ holder' \in [Worker -> Key \cup {NoKey}]
      /\ pc' \in [Worker -> Calls \cup {"free", "return", "error"}]
      /\ obj' \in [Worker -> Astro \cup {Nothing}]
      /\ alias' \in [Worker -> BOOLEAN]
  BY <1>2 DEF Becomes, HeldInv
<1>5. HolderInv'
  <2>1. ASSUME NEW v \in Worker, alias'[v] PROVE obj'[v] # Nothing /\ cache'[holder'[v]] = obj'[v]
    <3>1. CASE v = w
      BY <3>1, <2>1, <1>1, <1>3
    <3>2. CASE v # w
      <4>1. /\ alias[v] /\ obj[v] # Nothing /\ cache[holder[v]] = obj[v] /\ holder[v] \in Key
            /\ holder'[v] = holder[v] /\ obj'[v] = obj[v]
        BY <3>2, <2>1, <1>1 DEF HeldInv, HolderInv
      <4>2. shared => holder[v] # key
        BY <3>2, <1>2, ControllerAssumption
      <4> QED BY <4>1, <4>2, <1>3
    <3> QED BY <3>1, <3>2
  <2>2. \A v \in Worker : pc'[v] \in Calls => obj'[v] # Nothing
    BY <1>1 DEF HeldInv, HolderInv, Fits
  <2>3. \A v \in Worker : pc'[v] = "free" <=> holder'[v] = NoKey
    BY <1>1 DEF HeldInv, HolderInv
  <2>4. \A u, v \in Worker : holder'[u] = holder'[v] /\ holder'[u] # NoKey => u = v
    BY <1>1 DEF HeldInv, HolderInv
  <2> QED BY <2>1, <2>2, <2>3, <2>4 DEF HolderInv
<1>6. SyncInv'
  <2>1. ASSUME NEW v \in Worker
        PROVE  /\ obj'[v] # Nothing => obj'[v].status.phase \in PhaseAt(pc'[v])
               /\ pc'[v] \in Calls \ {"unfinalize"} => obj'[v].finalizer /\ ~obj'[v].deleting
               /\ pc'[v] = "unfinalize" => obj'[v].deleting
    <3>1. CASE v = w
      BY <3>1, <1>1 DEF Fits
    <3>2. CASE v # w
      BY <3>2, <1>1 DEF HeldInv, SyncInv
    <3> QED BY <3>1, <3>2
  <2> QED BY <2>1 DEF SyncInv, PhaseAt
<1>7. ASSUME NEW a \in Key, cache'[a] # Nothing PROVE CopyOK(a, cache[a])'
  <2>1. CASE shared /\ a = key
    BY <2>1, <1>3 DEF CopyOK, Exists
  <2>2. CASE ~(shared /\ a = key)
    <3>1. cache'[a] = cache[a] /\ cache[a] \in Astro /\ CopyOK(a, cache[a])
      BY <2>2, <1>3, <1>7 DEF HeldInv
    <3>2. \A d \in Astro : d = cache[a] => CopyOK(a, d)'
      BY <3>1 DEF CopiesKept
    <3> QED BY <3>1, <3>2 DEF CopyOK, Exists
  <2> QED BY <2>1, <2>2
<1>8. ASSUME NEW v \in Worker, obj'[v] # Nothing
      PROVE  holder'[v] \in Key /\ CopyOK(holder[v], obj[v])'
  <2>1. CASE v = w
    BY <2>1, <1>1, <1>8 DEF CopyOK, Exists
  <2>2. CASE v # w
    <3>1. /\ obj'[v] = obj[v] /\ obj[v] \in Astro /\ holder'[v] = holder[v] /\ holder[v] \in Key
          /\ CopyOK(holder[v], obj[v])
      BY <2>2, <1>1, <1>8 DEF HeldInv
    <3>2. \A k \in Key, d \in Astro : k = holder[v] /\ d = obj[v] => CopyOK(k, d)'
      BY <3>1 DEF CopiesKept
    <3> QED BY <3>1, <3>2 DEF CopyOK, Exists
  <2> QED BY <2>1, <2>2
<1> QED BY <1>4, <1>5, <1>6, <1>7, <1>8 DEF HeldInv

LEMMA HeldFrame ==
  ASSUME HeldInv, CopiesKept, UNCHANGED <<cache, holder, pc, obj, alias>>
  PROVE  HeldInv'
<1>1. HolderInv' /\ SyncInv'
  BY DEF HeldInv, HolderInv, SyncInv, PhaseAt
<1>2. ASSUME NEW a \in Key, cache'[a] # Nothing PROVE CopyOK(a, cache[a])'
  <2>1. cache[a] \in Astro /\ CopyOK(a, cache[a])
    BY <1>2 DEF HeldInv
  <2>2. \A d \in Astro : d = cache[a] => CopyOK(a, d)'
    BY <2>1 DEF CopiesKept
  <2> QED BY <2>1, <2>2 DEF CopyOK, Exists
<1>3. ASSUME NEW v \in Worker, obj'[v] # Nothing
      PROVE  holder'[v] \in Key /\ CopyOK(holder[v], obj[v])'
  <2>1. obj[v] \in Astro /\ holder[v] \in Key /\ CopyOK(holder[v], obj[v])
    BY <1>3 DEF HeldInv
  <2>2. \A k \in Key, d \in Astro : k = holder[v] /\ d = obj[v] => CopyOK(k, d)'
    BY <2>1 DEF CopiesKept
  <2> QED BY <2>1, <2>2 DEF CopyOK, Exists
<1> QED BY <1>1, <1>2, <1>3 DEF HeldInv

\* What a worker in the middle of a sync holds.
LEMMA HeldFacts ==
  ASSUME HeldInv, NEW w \in Worker, pc[w] \in Calls
  PROVE  /\ holder[w] \in Key /\ obj[w] \in Astro /\ CopyOK(holder[w], obj[w])
         /\ obj[w].status \in Status /\ obj[w].status.phase \in Phase
         /\ obj[w].status.phase \in PhaseAt(pc[w])
         /\ pc[w] # "unfinalize" => obj[w].finalizer /\ ~obj[w].deleting
         /\ pc[w] = "unfinalize" => obj[w].deleting
         /\ alias[w] => cache[holder[w]] = obj[w]
<1>1. obj[w] # Nothing /\ obj[w] \in Astro
  BY DEF HeldInv, HolderInv
<1>2. obj[w].status \in Status /\ obj[w].status.phase \in Phase
  BY <1>1, AstroFields
<1> QED BY <1>1, <1>2 DEF HeldInv, HolderInv, SyncInv

\* The worker goes on with the same object.
LEMMA StayStep ==
  ASSUME HeldInv, CopiesKept, NEW w \in Worker,
         NEW label \in Calls \cup {"return", "error"},
         pc[w] # "free", GoTo(w, label), Same, holder' = holder, Fits(label, obj[w])
  PROVE  HeldInv'
<1>1. PICK k \in Key \cup {NoKey} : k = holder[w]
  BY DEF HeldInv
<1>2. PICK c \in Astro \cup {Nothing} : c = obj[w]
  BY DEF HeldInv
<1>3. PICK shared \in BOOLEAN : shared = alias[w]
  BY DEF HeldInv
<1>4. k # NoKey /\ label # "free"
  BY <1>1 DEF HeldInv, HolderInv, Calls
<1>5. shared => c # Nothing /\ cache[k] = c
  BY <1>1, <1>2, <1>3 DEF HeldInv, HolderInv
<1>6. c # Nothing => k \in Key /\ CopyOK(k, c)'
  <2>1. c # Nothing => k \in Key /\ CopyOK(k, c)
    BY <1>1, <1>2 DEF HeldInv
  <2> QED BY <2>1 DEF CopiesKept
<1>7. Becomes(w, label, k, c, shared)
  BY <1>1, <1>2, <1>3, <1>5 DEF HeldInv, Becomes, GoTo, Same
<1>8. \A v \in Worker \ {w} : holder[v] # k
  BY <1>1, <1>4 DEF HeldInv, HolderInv
<1> QED BY <1>1, <1>2, <1>4, <1>5, <1>6, <1>7, <1>8, WorkerStep

\* The worker gives up: nothing is asked of an object that is only dropped.
LEMMA FailStep ==
  ASSUME HeldInv, CopiesKept, NEW w \in Worker, pc[w] # "free", Fail(w), holder' = holder
  PROVE  HeldInv'
<1>1. Fits("error", obj[w])
  <2>1. obj[w] # Nothing => obj[w].status.phase \in Phase
    BY AstroFields DEF HeldInv
  <2> QED BY <2>1 DEF Fits, Calls, PhaseAt
<1> QED BY <1>1, StayStep DEF Fail

LEMMA ReturnStep ==
  ASSUME HeldInv, CopiesKept, NEW w \in Worker, pc[w] # "free", GoTo(w, "return"), Same,
         holder' = holder
  PROVE  HeldInv'
<1>1. Fits("return", obj[w])
  <2>1. obj[w] # Nothing => obj[w].status.phase \in Phase
    BY AstroFields DEF HeldInv
  <2> QED BY <2>1 DEF Fits, Calls, PhaseAt
<1> QED BY <1>1, StayStep

\* A status is assigned to the object, and so to the cached one.
LEMMA AssignStep ==
  ASSUME StoreInv, HeldInv, CopiesKept, NEW w \in Worker, NEW label \in Calls \ {"unfinalize"},
         NEW s \in Status, pc[w] \in Calls \ {"unfinalize"}, GoTo(w, label), holder' = holder,
         Assign(w, [obj[w] EXCEPT !.status = s]),
         s.phase \in Later[obj[w].status.phase],
         s.phase # "Unset" => obj[w].status.phase # "Unset",
         s.phase \in PhaseAt(label)
  PROVE  HeldInv'
<1>1. /\ holder[w] \in Key /\ obj[w] \in Astro /\ CopyOK(holder[w], obj[w])
      /\ obj[w].finalizer /\ ~obj[w].deleting /\ obj[w].status.phase \in Phase
  BY HeldFacts
<1>2. PICK k \in Key : k = holder[w]
  BY <1>1
<1>3. PICK c \in Astro :
        /\ c = [obj[w] EXCEPT !.status = s] /\ c.status = s
        /\ c.uid = obj[w].uid /\ c.rv = obj[w].rv /\ c.stars = obj[w].stars
        /\ c.deleting = obj[w].deleting /\ c.finalizer = obj[w].finalizer
  BY <1>1, NewStatus, Zenon
<1>4. PICK shared \in BOOLEAN : shared = alias[w]
  BY DEF HeldInv
<1>5. c # Nothing /\ c.finalizer /\ ~c.deleting
  BY <1>1, <1>3, AstroFields, Zenon
<1>6. CopyOK(k, c)
  <2>1. ASSUME Exists(k), c.rv = server[k].rv
        PROVE  s.phase \in Later[server[k].status.phase]
    <3>1. server[k].status.phase \in Phase
      BY <2>1, AstroFields DEF StoreInv, Exists
    <3>2. obj[w].status.phase \in Later[server[k].status.phase] /\ s.phase \in Phase
      BY <2>1, <1>1, <1>2, <1>3, LaterFacts DEF CopyOK
    <3> QED BY <3>1, <3>2, <1>1, LaterFacts
  <2> QED BY <2>1, <1>1, <1>2, <1>3, <1>5 DEF CopyOK
<1>7. CopyOK(k, c)'
  BY <1>6 DEF CopiesKept
<1>8. Becomes(w, label, k, c, shared)
  BY <1>2, <1>3, <1>4 DEF HeldInv, Becomes, GoTo, Assign
<1>9. k # NoKey /\ label # "free" /\ \A v \in Worker \ {w} : holder[v] # k
  BY <1>2, ControllerAssumption DEF HeldInv, HolderInv, Calls
<1>10. Fits(label, c)
  BY <1>3, <1>5 DEF Fits
<1> QED BY <1>5, <1>7, <1>8, <1>9, <1>10, WorkerStep

LEMMA SyncStatusStep ==
  ASSUME StoreInv, HeldInv, CopiesKept, NEW w \in Worker, NEW s \in Status,
         pc[w] \in Calls \ {"unfinalize"}, SyncStatus(w, s), holder' = holder,
         s.phase \in Later[obj[w].status.phase],
         s.phase # "Unset", obj[w].status.phase # "Unset"
  PROVE  HeldInv'
<1>1. pc[w] # "free" /\ "status" \in Calls \ {"unfinalize"}
  BY DEF Calls
<1>2. CASE s = obj[w].status
  BY <1>2, <1>1, ReturnStep DEF SyncStatus
<1>3. CASE s # obj[w].status
  <2>1. s.phase \in PhaseAt("status")
    BY DEF PhaseAt, Status
  <2> QED BY <1>3, <1>1, <2>1, AssignStep DEF SyncStatus
<1> QED BY <1>2, <1>3

\* handleErr and Done: the worker lets go of everything.
LEMMA FreeStep ==
  ASSUME HeldInv, CopiesKept, NEW w \in Worker, Free(w),
         holder' = [holder EXCEPT ![w] = NoKey]
  PROVE  HeldInv'
<1>1. Becomes(w, "free", NoKey, Nothing, FALSE)
  BY DEF Becomes, Free, GoTo
<1>2. Fits("free", Nothing)
  BY DEF Fits, Calls
<1>3. "free" \in Calls \cup {"free", "return", "error"}
  OBVIOUS
<1> QED BY <1>1, <1>2, <1>3, WorkerStep

\* A free worker takes a key and gets a good copy of it.
LEMMA HoldStep ==
  ASSUME HeldInv, CopiesKept, NEW w \in Worker, NEW a \in Key, NEW c \in Astro,
         NEW label \in Calls \cup {"return"}, W!Take(w, a),
         GoTo(w, label), Hold(w, c), cache' = [cache EXCEPT ![a] = c],
         CopyOK(a, c), Fits(label, c)
  PROVE  HeldInv'
<1>1. Becomes(w, label, a, c, TRUE)
  BY DEF Becomes, GoTo, Hold, W!Take
<1>2. a # NoKey /\ label # "free" /\ \A v \in Worker \ {w} : holder[v] # a
  BY ControllerAssumption DEF W!Take, Calls
<1>3. CopyOK(a, c)'
  BY DEF CopiesKept
<1>4. c # Nothing
  BY AstroFields
<1> QED BY <1>1, <1>2, <1>3, <1>4, WorkerStep

-----------------------------------------------------------------------------
(* Actions that write Astros *)

LEMMA CreatedAstro ==
  ASSUME StoreInv, NEW a \in Key, NEW stars \in StarLists
  PROVE  \E d \in Astro :
           /\ d = [uid |-> rev[a] + 1, rv |-> 0, deleting |-> FALSE, finalizer |-> FALSE,
                   stars |-> stars, status |-> EmptyStatus]
           /\ d.uid = rev[a] + 1 /\ d.status = EmptyStatus /\ d.status.phase = "Unset"
           /\ d.finalizer = FALSE /\ d.deleting = FALSE
<1> DEFINE e == [uid |-> rev[a] + 1, rv |-> 0, deleting |-> FALSE, finalizer |-> FALSE,
                 stars |-> stars, status |-> EmptyStatus]
<1>1. rev[a] + 1 \in Nat
  BY DEF StoreInv
<1>2. stars \in Seq(Star)
  BY TypesAssumption
<1>3. e \in Astro
  BY <1>1, <1>2, EmptyStatusType DEF Astro
<1>4. /\ e.uid = rev[a] + 1 /\ e.status = EmptyStatus /\ e.status.phase = "Unset"
      /\ e.finalizer = FALSE /\ e.deleting = FALSE
  BY EmptyStatusType
<1> QED BY <1>3, <1>4, Zenon

LEMMA EditedAstro ==
  ASSUME NEW c \in Astro, NEW stars \in StarLists
  PROVE  \E d \in Astro :
           /\ d = [c EXCEPT !.stars = stars] /\ d.deleting = c.deleting
           /\ d.uid = c.uid /\ d.status = c.status /\ d.finalizer = c.finalizer
<1> DEFINE e == [c EXCEPT !.stars = stars]
<1>1. e \in Astro
  BY TypesAssumption DEF Astro
<1>2. e.uid = c.uid /\ e.status = c.status /\ e.finalizer = c.finalizer /\ e.deleting = c.deleting
  BY DEF Astro
<1> QED BY <1>1, <1>2, Zenon

LEMMA DeletedAstro ==
  ASSUME NEW c \in Astro
  PROVE  \E d \in Astro :
           /\ d = [c EXCEPT !.deleting = TRUE] /\ d.deleting = TRUE
           /\ d.uid = c.uid /\ d.status = c.status /\ d.finalizer = c.finalizer
<1> DEFINE e == [c EXCEPT !.deleting = TRUE]
<1>1. e \in Astro
  BY DEF Astro
<1>2. e.deleting = TRUE /\ e.uid = c.uid /\ e.status = c.status /\ e.finalizer = c.finalizer
  BY DEF Astro
<1> QED BY <1>1, <1>2, Zenon

\* A step keeps the phases of stored Astros or lets them advance.
Advances ==
  \A a \in Key :
    Exists(a) /\ Exists(a)' /\ server'[a].uid = server[a].uid
      => server'[a].status.phase \in Later[server[a].status.phase]

LEMMA FrameAdvances == ASSUME StoreInv, UNCHANGED server PROVE Advances
<1> SUFFICES ASSUME NEW a \in Key, Exists(a)
             PROVE  server[a].status.phase \in Later[server[a].status.phase]
  BY DEF Advances
<1> QED BY AstroFields, LaterFacts DEF StoreInv, Exists

LEMMA RemoveAdvances == ASSUME StoreInv, NEW a \in Key, Remove(a) PROVE Advances
<1> SUFFICES ASSUME NEW b \in Key, Exists(b), Exists(b)'
             PROVE  server'[b].status.phase \in Later[server[b].status.phase]
  BY DEF Advances
<1>1. server'[b] = server[b]
  BY RemoveKeeps DEF StoreInv, Exists
<1> QED BY <1>1, AstroFields, LaterFacts DEF StoreInv, Exists

\* A write by Store advances when the new phase is a later one.
LEMMA StoreAdvances ==
  ASSUME StoreInv, NEW a \in Key, NEW v \in Astro, Store(a, v),
         v.status.phase # "Unset" => v.finalizer,
         Exists(a) => v.status.phase \in Later[server[a].status.phase]
  PROVE  Advances
<1> SUFFICES ASSUME NEW b \in Key, Exists(b), Exists(b)'
             PROVE  server'[b].status.phase \in Later[server[b].status.phase]
  BY DEF Advances
<1>1. CASE b = a
  BY <1>1, StoreKeeps
<1>2. CASE b # a
  <2>1. server'[b] = server[b]
    BY <1>2, StoreKeeps
  <2> QED BY <2>1, AstroFields, LaterFacts DEF StoreInv, Exists
<1> QED BY <1>1, <1>2

LEMMA EnvironmentStable ==
  ASSUME StoreInv, Environment
  PROVE  Stable /\ Advances
<1>1. CASE UNCHANGED astroVars
  BY <1>1, AstroFrame, FrameAdvances DEF astroVars
<1>2. ASSUME NEW a \in Key, UserCreates(a) PROVE Stable /\ Advances
  <2>1. PICK stars \in StarLists :
          Store(a, [uid |-> rev[a] + 1, rv |-> 0, deleting |-> FALSE, finalizer |-> FALSE,
                    stars |-> stars, status |-> EmptyStatus])
    BY <1>2 DEF UserCreates
  <2>2. PICK v \in Astro : Store(a, v) /\ v.status.phase = "Unset"
    BY <2>1, CreatedAstro
  <2> QED BY <1>2, <2>2, StoreKeeps, StoreAdvances DEF UserCreates
<1>3. ASSUME NEW a \in Key, UserEdits(a) PROVE Stable /\ Advances
  <2>1. PICK stars \in StarLists : Store(a, [server[a] EXCEPT !.stars = stars])
    BY <1>3 DEF UserEdits
  <2>2. server[a] \in Astro
    BY <1>3 DEF UserEdits, StoreInv, Exists
  <2>3. PICK v \in Astro : Store(a, v) /\ v.status = server[a].status
                           /\ v.finalizer = server[a].finalizer
    BY <2>1, <2>2, EditedAstro
  <2>4. v.status.phase # "Unset" => v.finalizer
    BY <1>3, <2>3 DEF UserEdits, StoreInv, FinalizerBeforeStatus
  <2>5. v.status.phase \in Later[server[a].status.phase]
    BY <2>2, <2>3, AstroFields, LaterFacts
  <2> QED BY <2>3, <2>4, <2>5, StoreKeeps, StoreAdvances
<1>4. ASSUME NEW a \in Key, UserDeletes(a) PROVE Stable /\ Advances
  <2>1. CASE Remove(a)
    BY <2>1, RemoveKeeps, RemoveAdvances
  <2>2. CASE server[a].finalizer /\ Store(a, [server[a] EXCEPT !.deleting = TRUE])
    <3>1. server[a] \in Astro
      BY <1>4 DEF UserDeletes, StoreInv, Exists
    <3>2. PICK v \in Astro : Store(a, v) /\ v.status = server[a].status
                             /\ v.finalizer = server[a].finalizer
      BY <2>2, <3>1, DeletedAstro
    <3>3. v.status.phase \in Later[server[a].status.phase]
      BY <3>1, <3>2, AstroFields, LaterFacts
    <3> QED BY <2>2, <3>2, <3>3, StoreKeeps, StoreAdvances
  <2> QED BY <1>4, <2>1, <2>2 DEF UserDeletes
<1> QED
  BY <1>1, <1>2, <1>3, <1>4 DEF Environment, EngineSettles, EngineLost, CollectEngine,
     CollectPort, DeploymentAvailable, DeploymentUnavailable, DeploymentReports,
     CollectDeployment, CollectService, astroVars

\* The Update of syncCreate and syncDelete: a finalizer is only removed from an
\* object that is being deleted, and goes with it.
LEMMA UpdateStable ==
  ASSUME StoreInv, NEW a \in Key, NEW o \in Astro, CopyOK(a, o), Update(a, o),
         o.finalizer \/ o.deleting
  PROVE  /\ Stable /\ Advances
         /\ o.finalizer => /\ server'[a] \in Astro /\ server'[a].rv = rev'[a]
                           /\ server'[a].status = server[a].status
                           /\ server'[a].finalizer
                           /\ server'[a].deleting = server[a].deleting
<1>1. /\ Exists(a) /\ o.rv = server[a].rv /\ server[a] \in Astro
      /\ o.deleting = server[a].deleting
      /\ o.finalizer \in BOOLEAN
  BY AstroFields DEF Update, Fresh, StoreInv, Exists, CopyOK
<1>2. CASE ~o.finalizer /\ Remove(a)
  BY <1>2, RemoveKeeps, RemoveAdvances
<1>3. CASE o.finalizer /\ Store(a, [server[a] EXCEPT !.finalizer = o.finalizer])
  <2>1. PICK v \in Astro :
          /\ v = [server[a] EXCEPT !.finalizer = o.finalizer] /\ v.finalizer = o.finalizer
          /\ v.status = server[a].status /\ v.deleting = server[a].deleting
    BY <1>1, NewFinalizer
  <2>2. Store(a, v)
    BY <1>3, <2>1
  <2>3. v.status.phase \in Later[server[a].status.phase]
    BY <1>1, <2>1, AstroFields, LaterFacts
  <2> QED BY <1>3, <2>1, <2>2, <2>3, StoreKeeps, StoreAdvances
<1> QED BY <1>1, <1>2, <1>3 DEF Update

\* The request of syncStatus.
LEMMA UpdateStatusStable ==
  ASSUME StoreInv, NEW a \in Key, NEW o \in Astro, CopyOK(a, o), UpdateStatus(a, o),
         ~o.deleting, o.status.phase # "Unset"
  PROVE  Stable /\ Advances
<1>1. /\ Exists(a) /\ server[a] \in Astro /\ server[a].finalizer
      /\ o.status.phase \in Later[server[a].status.phase]
  BY DEF UpdateStatus, Fresh, StoreInv, Exists, CopyOK
<1>2. o.status \in Status
  BY AstroFields
<1>3. PICK v \in Astro :
        /\ v = [server[a] EXCEPT !.status = o.status] /\ v.status = o.status
        /\ v.finalizer = server[a].finalizer
  BY <1>1, <1>2, NewStatus
<1>4. Store(a, v)
  BY <1>3 DEF UpdateStatus
<1> QED BY <1>1, <1>3, <1>4, StoreKeeps, StoreAdvances

-----------------------------------------------------------------------------
(* Actions of the informers *)

LEMMA DeliverCopies ==
  ASSUME CopyInv, NEW a \in Key, Deliver(a)
  PROVE  CopyInv' /\ UNCHANGED server
<1> USE CopyParts
<1>1. /\ watch[a] # << >> /\ watch[a] \in Seq(Astro \cup {Nothing})
      /\ cache' = [cache EXCEPT ![a] = Head(watch[a])]
      /\ watch' = [watch EXCEPT ![a] = Tail(watch[a])]
      /\ alias' = [w \in Worker |-> alias[w] /\ holder[w] # a]
      /\ UNCHANGED <<server, rev, holder, pc, obj>>
  BY DEF Deliver, QueueVersion, W!Enqueue, StoreInv
<1>2. /\ Head(watch[a]) \in Astro \cup {Nothing} /\ Head(watch[a]) = watch[a][1]
      /\ 1 \in 1..Len(watch[a])
      /\ Tail(watch[a]) \in Seq(Astro \cup {Nothing})
      /\ \A i \in 1..Len(Tail(watch[a])) :
           i + 1 \in 1..Len(watch[a]) /\ Tail(watch[a])[i] = watch[a][i + 1]
  BY <1>1, HeadTailProperties, LenProperties, EmptySeq
<1>3. ASSUME NEW b \in Key, NEW c PROVE CopyOK(b, c)' <=> CopyOK(b, c)
  BY <1>1 DEF CopyOK, Exists
<1>4. StoreInv'
  <2>1. \A b \in Key \ {a} : watch'[b] = watch[b]
    BY <1>1 DEF CopyInv, CopyTypes
  <2>2. watch'[a] = Tail(watch[a])
    BY <1>1 DEF CopyInv, CopyTypes
  <2>3. ASSUME NEW b \in Key, NEW i \in 1..Len(watch'[b]), watch'[b][i] # Nothing
        PROVE  CopyOK(b, watch[b][i])'
    <3>1. CASE b # a
      BY <3>1, <2>1, <2>3, <1>1 DEF StoreInv, CopyOK, Exists
    <3>2. CASE b = a
      <4>1. i + 1 \in 1..Len(watch[a]) /\ watch'[a][i] = watch[a][i + 1]
        BY <3>2, <2>2, <1>2
      <4>2. CopyOK(a, watch[a][i + 1])
        BY <4>1, <3>2, <2>3 DEF StoreInv
      <4> QED BY <4>1, <4>2, <3>2, <1>1 DEF CopyOK, Exists
    <3> QED BY <3>1, <3>2
  <2>4. watch' \in [Key -> Seq(Astro \cup {Nothing})]
    BY <1>1, <1>2 DEF StoreInv
  <2> QED BY <1>1, <2>3, <2>4 DEF StoreInv, FinalizerBeforeStatus, Exists
<1>5. HeldInv'
  <2>1. cache' \in [Key -> Astro \cup {Nothing}] /\ alias' \in [Worker -> BOOLEAN]
    BY <1>1, <1>2 DEF HeldInv
  <2>2. ASSUME NEW b \in Key, cache'[b] # Nothing PROVE CopyOK(b, cache[b])'
    <3>1. CASE b # a
      <4>1. cache'[b] = cache[b]
        BY <1>1, <3>1 DEF HeldInv
      <4> QED BY <4>1, <2>2, <1>1 DEF HeldInv, CopyOK, Exists
    <3>2. CASE b = a
      <4>1. cache'[a] = watch[a][1]
        BY <1>1, <1>2 DEF HeldInv
      <4>2. CopyOK(a, watch[a][1])
        BY <4>1, <2>2, <3>2, <1>2 DEF StoreInv
      <4> QED BY <4>1, <4>2, <3>2, <1>1 DEF CopyOK, Exists
    <3> QED BY <3>1, <3>2
  <2>3. \A w \in Worker : obj'[w] # Nothing => holder'[w] \in Key /\ CopyOK(holder[w], obj[w])'
    BY <1>1 DEF HeldInv, CopyOK, Exists
  <2>4. HolderInv'
    <3>1. ASSUME NEW w \in Worker, alias'[w]
          PROVE  obj'[w] # Nothing /\ cache'[holder'[w]] = obj'[w]
      <4>1. alias[w] /\ holder[w] # a
        BY <1>1, <3>1 DEF HeldInv
      <4>2. obj[w] # Nothing /\ cache[holder[w]] = obj[w] /\ holder[w] \in Key
        BY <4>1 DEF HeldInv, HolderInv
      <4> QED BY <4>1, <4>2, <1>1 DEF HeldInv
    <3> QED BY <3>1, <1>1 DEF HeldInv, HolderInv
  <2>5. SyncInv'
    BY <1>1 DEF HeldInv, SyncInv, PhaseAt
  <2> QED BY <1>1, <2>1, <2>2, <2>3, <2>4, <2>5 DEF HeldInv
<1> QED BY <1>1, <1>4, <1>5

LEMMA RestartCopies ==
  ASSUME CopyInv, Restart
  PROVE  CopyInv' /\ UNCHANGED server
<1> USE CopyParts
<1>1. /\ cache' = server /\ watch' = [a \in Key |-> << >>]
      /\ holder' = [w \in Worker |-> NoKey] /\ pc' = [w \in Worker |-> "free"]
      /\ obj' = [w \in Worker |-> Nothing] /\ alias' = [w \in Worker |-> FALSE]
      /\ UNCHANGED <<server, rev>>
  BY DEF Restart
<1>2. StoreInv'
  <2>1. << >> \in Seq(Astro \cup {Nothing}) /\ 1..Len(<< >>) = {}
    BY EmptySeq
  <2>2. watch' \in [Key -> Seq(Astro \cup {Nothing})]
    BY <1>1, <2>1
  <2>3. \A a \in Key : 1..Len(watch'[a]) = {}
    BY <1>1, <2>1
  <2> QED BY <1>1, <2>2, <2>3 DEF StoreInv, FinalizerBeforeStatus, Exists
<1>3. HeldInv'
  <2>1. ASSUME NEW a \in Key, cache'[a] # Nothing PROVE CopyOK(a, cache[a])'
    <3>1. CopyOK(a, server[a]) /\ cache'[a] = server[a]
      BY <1>1, <2>1, StoredCopy DEF Exists
    <3> QED BY <3>1, <1>1 DEF CopyOK, Exists
  <2>2. HolderInv' /\ SyncInv'
    BY <1>1 DEF HolderInv, SyncInv, Calls
  <2> QED BY <1>1, <2>1, <2>2 DEF HeldInv, StoreInv
<1> QED BY <1>1, <1>2, <1>3

LEMMA HandleObjectCopies ==
  ASSUME CopyInv, NEW a \in Key, HandleObject(a)
  PROVE  CopyInv' /\ UNCHANGED server
<1>1. UNCHANGED astroVars /\ UNCHANGED <<cache, holder, pc, obj, alias>>
  BY DEF HandleObject, W!Enqueue, syncVars, workVars, W!workVars
<1> QED BY <1>1, CopyParts, AstroFrame, HeldFrame DEF Stable, astroVars

-----------------------------------------------------------------------------
(* The start of a sync *)

\* Nothing is written: what remains to be shown is what the worker then holds.
LEMMA DispatchFrame ==
  ASSUME CopyInv, NEW w \in Worker, NEW a \in Key, Dispatch(w, a)
  PROVE  /\ StoreInv /\ HeldInv /\ StoreInv' /\ CopiesKept
         /\ UNCHANGED server /\ W!Take(w, a)
<1>1. UNCHANGED astroVars /\ W!Take(w, a)
  BY DEF Dispatch, SyncGone, SyncDelete, SyncCreate, SyncInitialized, SyncWaited, SyncReady,
         SyncSettled, UpdateStart, Start, astroVars, clusterVars
<1> QED BY <1>1, CopyParts, AstroFrame DEF Stable, astroVars

LEMMA SyncGoneCopies ==
  ASSUME CopyInv, NEW w \in Worker, NEW a \in Key, Dispatch(w, a), SyncGone(w, a)
  PROVE  HeldInv'
<1>1. HeldInv /\ CopiesKept /\ W!Take(w, a)
  BY DispatchFrame
<1>2. PICK shared \in BOOLEAN : shared = alias[w]
  BY <1>1 DEF HeldInv
<1>3. obj[w] = Nothing /\ ~shared
  BY <1>1, <1>2, ControllerAssumption DEF HeldInv, HolderInv, W!Take
<1>4. Becomes(w, "return", a, Nothing, FALSE)
  BY <1>1, <1>2, <1>3 DEF SyncGone, GoTo, Same, Becomes, W!Take, HeldInv
<1>5. Fits("return", Nothing) /\ a # NoKey /\ \A v \in Worker \ {w} : holder[v] # a
  BY <1>1, ControllerAssumption DEF Fits, Calls, W!Take
<1> QED BY <1>1, <1>4, <1>5, WorkerStep

\* A copy with its finalizer set or removed, before the request.
LEMMA SyncDeleteCopies ==
  ASSUME CopyInv, NEW w \in Worker, NEW a \in Key, Dispatch(w, a), SyncDelete(w, a)
  PROVE  HeldInv'
<1>1. HeldInv /\ CopiesKept /\ W!Take(w, a)
  BY DispatchFrame
<1>2. cache[a] \in Astro /\ CopyOK(a, cache[a]) /\ cache[a].deleting
      /\ cache[a].status.phase \in Phase
  BY <1>1, AstroFields DEF SyncDelete, HeldInv
<1>3. PICK c \in Astro :
        /\ c = [cache[a] EXCEPT !.finalizer = FALSE] /\ c.uid = cache[a].uid
        /\ c.rv = cache[a].rv /\ c.deleting = cache[a].deleting
        /\ c.status = cache[a].status /\ c.stars = cache[a].stars
  BY <1>2, NewFinalizer
<1>4. CopyOK(a, c)
  BY <1>2, <1>3 DEF CopyOK
<1>5. Fits("unfinalize", c)
  <2>1. PhaseAt("unfinalize") = Phase /\ "unfinalize" \notin Calls \ {"unfinalize"}
    BY DEF PhaseAt
  <2> QED BY <2>1, <1>2, <1>3, AstroFields, Zenon DEF Fits
<1>6. GoTo(w, "unfinalize") /\ Hold(w, c) /\ cache' = [cache EXCEPT ![a] = c]
  BY <1>3 DEF SyncDelete
<1>7. "unfinalize" \in Calls \cup {"return"}
  BY DEF Calls
<1> QED BY <1>1, <1>4, <1>5, <1>6, <1>7, HoldStep

LEMMA SyncCreateCopies ==
  ASSUME CopyInv, NEW w \in Worker, NEW a \in Key, Dispatch(w, a), SyncCreate(w, a)
  PROVE  HeldInv'
<1>1. HeldInv /\ CopiesKept /\ W!Take(w, a)
  BY DispatchFrame
<1>2. /\ cache[a] \in Astro /\ CopyOK(a, cache[a]) /\ ~cache[a].deleting
      /\ ~cache[a].finalizer /\ cache[a].status.phase = "Unset"
  BY <1>1 DEF SyncCreate, HeldInv, CopyOK
<1>3. PICK c \in Astro :
        /\ c = [cache[a] EXCEPT !.finalizer = TRUE] /\ c.finalizer = TRUE
        /\ c.uid = cache[a].uid /\ c.rv = cache[a].rv /\ c.deleting = cache[a].deleting
        /\ c.status = cache[a].status /\ c.stars = cache[a].stars
  BY <1>2, NewFinalizer
<1>4. CopyOK(a, c)
  BY <1>2, <1>3 DEF CopyOK
<1>5. Fits("stars", c)
  <2>1. PhaseAt("stars") = {"Unset"} /\ "stars" # "unfinalize"
    BY DEF PhaseAt
  <2> QED BY <2>1, <1>2, <1>3, AstroFields, Zenon DEF Fits
<1>6. GoTo(w, "stars") /\ Hold(w, c) /\ cache' = [cache EXCEPT ![a] = c]
  BY <1>3 DEF SyncCreate, Finalized, Loop
<1>7. "stars" \in Calls \cup {"return"}
  BY DEF Calls
<1> QED BY <1>1, <1>4, <1>5, <1>6, <1>7, HoldStep

\* syncUpdate holds the cached object as it is.
LEMMA UpdateStartCopies ==
  ASSUME CopyInv, NEW w \in Worker, NEW a \in Key, Dispatch(w, a), NEW phases,
         NEW label \in (Calls \ {"unfinalize"}) \cup {"return"},
         UpdateStart(w, a, phases), GoTo(w, label),
         cache[a].status.phase \in phases => cache[a].status.phase \in PhaseAt(label)
  PROVE  HeldInv'
<1>1. HeldInv /\ CopiesKept /\ W!Take(w, a)
  BY DispatchFrame
<1>2. PICK c \in Astro : c = cache[a]
  BY DEF UpdateStart, CopyInv, CopyTypes
<1>3. CopyOK(a, c) /\ cache' = [cache EXCEPT ![a] = c] /\ Hold(w, c)
  BY <1>1, <1>2 DEF UpdateStart, HeldInv, Hold
<1>4. Fits(label, c)
  BY <1>2 DEF Fits, UpdateStart, Calls
<1> QED BY <1>1, <1>3, <1>4, HoldStep

LEMMA DispatchCopies ==
  ASSUME CopyInv, NEW w \in Worker, NEW a \in Key, Dispatch(w, a)
  PROVE  CopyInv' /\ UNCHANGED server
<1> SUFFICES HeldInv'
  BY DispatchFrame, CopyParts
<1>1. CASE SyncGone(w, a)
  BY <1>1, SyncGoneCopies
<1>2. CASE SyncDelete(w, a)
  BY <1>2, SyncDeleteCopies
<1>3. CASE SyncCreate(w, a)
  BY <1>3, SyncCreateCopies
<1>4. CASE SyncInitialized(w, a)
  <2>1. /\ "count" \in (Calls \ {"unfinalize"}) \cup {"return"}
        /\ PhaseAt("count") = {"Initialized"}
    BY DEF Calls, PhaseAt
  <2> QED BY <1>4, <2>1, UpdateStartCopies DEF SyncInitialized, Loop
<1>5. CASE SyncWaited(w, a)
  <2>1. /\ "read-service" \in (Calls \ {"unfinalize"}) \cup {"return"}
        /\ "read-engine" \in (Calls \ {"unfinalize"}) \cup {"return"}
        /\ PhaseAt("read-service") = {"Waited"} /\ PhaseAt("read-engine") = {"Waited"}
    BY DEF Calls, PhaseAt
  <2> QED BY <1>5, <2>1, UpdateStartCopies DEF SyncWaited, Loop
<1>6. CASE SyncReady(w, a)
  <2>1. /\ "read-endpoint" \in (Calls \ {"unfinalize"}) \cup {"return"}
        /\ PhaseAt("read-endpoint") = {"Ready"}
    BY DEF Calls, PhaseAt
  <2> QED BY <1>6, <2>1, UpdateStartCopies DEF SyncReady
<1>7. CASE SyncSettled(w, a)
  <2>1. /\ "return" \in (Calls \ {"unfinalize"}) \cup {"return"}
        /\ PhaseAt("return") = Phase
    BY DEF Calls, PhaseAt
  <2>2. {"Unset", "DeployFailed", "EngineFailed", "Success", "Wrong"} \subseteq Phase
    BY DEF Phase
  <2> QED BY <1>7, <2>1, <2>2, UpdateStartCopies DEF SyncSettled
<1> QED BY <1>1, <1>2, <1>3, <1>4, <1>5, <1>6, <1>7 DEF Dispatch

-----------------------------------------------------------------------------
(* The statuses that syncs compute *)

LEMMA AppendedRefs ==
  ASSUME NEW c \in Astro, NEW x \in Star
  PROVE  /\ \E s \in Status : /\ s.phase = c.status.phase
                              /\ [c EXCEPT !.status.deploymentRef = Append(@, x)]
                                   = [c EXCEPT !.status = s]
         /\ \E s \in Status : /\ s.phase = c.status.phase
                              /\ [c EXCEPT !.status.serviceRef = Append(@, x)]
                                   = [c EXCEPT !.status = s]
<1> DEFINE d == [c.status EXCEPT !.deploymentRef = Append(@, x)]
           e == [c.status EXCEPT !.serviceRef = Append(@, x)]
<1>1. c.status \in Status /\ c.status.deploymentRef \in Seq(Star) /\ c.status.serviceRef \in Seq(Star)
  BY AstroFields
<1>2. /\ Append(c.status.deploymentRef, x) \in Seq(Star)
      /\ Append(c.status.serviceRef, x) \in Seq(Star)
  BY <1>1, AppendProperties
<1>3. d \in Status /\ e \in Status
  BY <1>1, <1>2 DEF Status
<1>4. d.phase = c.status.phase /\ e.phase = c.status.phase
  BY <1>1 DEF Status
<1>5. /\ [c EXCEPT !.status.deploymentRef = Append(@, x)] = [c EXCEPT !.status = d]
      /\ [c EXCEPT !.status.serviceRef = Append(@, x)] = [c EXCEPT !.status = e]
  BY <1>1 DEF Astro, Status
<1> QED BY <1>3, <1>4, <1>5, Zenon

LEMMA StatusOfPhase ==
  ASSUME NEW t \in Status, NEW p \in Phase
  PROVE  \E s \in Status : s = [t EXCEPT !.phase = p] /\ s.phase = p
<1> DEFINE e == [t EXCEPT !.phase = p]
<1>1. e \in Status
  BY DEF Status
<1>2. e.phase = p
  BY DEF Status
<1> QED BY <1>1, <1>2, Zenon

LEMMA StatusOfEngine ==
  ASSUME NEW t \in Status
  PROVE  \E s \in Status : s = [t EXCEPT !.astermuleRef = TRUE] /\ s.phase = t.phase
<1> DEFINE e == [t EXCEPT !.astermuleRef = TRUE]
<1>1. e \in Status
  BY DEF Status
<1>2. e.phase = t.phase
  BY DEF Status
<1> QED BY <1>1, <1>2, Zenon

LEMMA StatusOfCreate ==
  ASSUME NEW t \in Status, NEW n \in Nat
  PROVE  \E s \in Status :
           /\ s = [t EXCEPT !.phase = "Initialized", !.readyNodeNumber = 0, !.nodeNumber = n]
           /\ s.phase = "Initialized"
<1> DEFINE e == [t EXCEPT !.phase = "Initialized", !.readyNodeNumber = 0, !.nodeNumber = n]
<1>1. e \in Status
  BY DEF Status, Phase
<1>2. e.phase = "Initialized"
  BY DEF Status
<1> QED BY <1>1, <1>2, Zenon

-----------------------------------------------------------------------------
(* The requests of a sync *)

\* A step that writes no Astro: what remains to be shown is what the worker holds.
LEMMA WorkFrame ==
  ASSUME CopyInv, UNCHANGED astroVars
  PROVE  StoreInv /\ HeldInv /\ StoreInv' /\ CopiesKept /\ UNCHANGED server
BY CopyParts, AstroFrame DEF Stable, astroVars

LEMMA NewDeploymentCopies ==
  ASSUME CopyInv, RestInv, NEW w \in Worker, NewDeployment(w)
  PROVE  HeldInv'
<1>1. /\ StoreInv /\ HeldInv /\ CopiesKept /\ holder' = holder
      /\ pc[w] = "stars" /\ pc[w] \in Calls \ {"unfinalize"} /\ pc[w] # "free"
      /\ PhaseAt("stars") = {"Unset"} /\ PhaseAt("service") = {"Unset"}
      /\ "service" \in Calls \ {"unfinalize"}
  BY WorkFrame DEF NewDeployment, workVars, Calls, PhaseAt
<1>2. obj[w] \in Astro /\ obj[w].status.phase = "Unset"
  BY <1>1, HeldFacts
<1>3. obj[w].stars[idx[w]] \in Star
  <2>1. idx[w] \in 1..Len(obj[w].stars) /\ obj[w].stars \in Seq(Star)
    BY <1>1, <1>2, AstroFields DEF NewDeployment, StarsLeft, RestInv, PositionInv, LoopInv
  <2> QED BY <2>1, ElementOfSeq
<1>4. CASE /\ Assign(w, [obj[w] EXCEPT !.status.deploymentRef = Append(@, obj[w].stars[idx[w]])])
           /\ GoTo(w, "service")
  <2>0. PICK s \in Status :
          /\ s.phase = obj[w].status.phase
          /\ [obj[w] EXCEPT !.status.deploymentRef = Append(@, obj[w].stars[idx[w]])]
               = [obj[w] EXCEPT !.status = s]
    BY <1>2, <1>3, AppendedRefs, Zenon
  <2>1. s.phase = "Unset" /\ Assign(w, [obj[w] EXCEPT !.status = s])
    BY <1>2, <1>4, <2>0, Zenon DEF Assign
  <2>2. s.phase \in Later[obj[w].status.phase] /\ s.phase \in PhaseAt("service")
    BY <2>1, <1>1, <1>2, LaterFacts DEF Phase
  <2> QED BY <1>1, <1>4, <2>1, <2>2, AssignStep
<1>5. CASE Fail(w)
  BY <1>1, <1>5, FailStep
<1> QED BY <1>4, <1>5 DEF NewDeployment, ReplyLost, DeploymentExists

LEMMA NewServiceCopies ==
  ASSUME CopyInv, RestInv, NEW w \in Worker, NewService(w)
  PROVE  HeldInv'
<1>1. /\ StoreInv /\ HeldInv /\ CopiesKept /\ holder' = holder
      /\ pc[w] = "service" /\ pc[w] \in Calls \ {"unfinalize"} /\ pc[w] # "free"
      /\ PhaseAt("stars") = {"Unset"} /\ PhaseAt("service") = {"Unset"}
      /\ "stars" \in Calls \ {"unfinalize"}
  BY WorkFrame DEF NewService, workVars, Calls, PhaseAt
<1>2. obj[w] \in Astro /\ obj[w].status.phase = "Unset"
  BY <1>1, HeldFacts
<1>3. obj[w].stars[idx[w]] \in Star
  <2>1. idx[w] \in 1..Len(obj[w].stars) /\ obj[w].stars \in Seq(Star)
    BY <1>1, <1>2, AstroFields DEF RestInv, PositionInv, LoopInv
  <2> QED BY <2>1, ElementOfSeq
<1>4. CASE /\ Assign(w, [obj[w] EXCEPT !.status.serviceRef = Append(@, obj[w].stars[idx[w]])])
           /\ GoTo(w, "stars")
  <2>0. PICK s \in Status :
          /\ s.phase = obj[w].status.phase
          /\ [obj[w] EXCEPT !.status.serviceRef = Append(@, obj[w].stars[idx[w]])]
               = [obj[w] EXCEPT !.status = s]
    BY <1>2, <1>3, AppendedRefs, Zenon
  <2>1. s.phase = "Unset" /\ Assign(w, [obj[w] EXCEPT !.status = s])
    BY <1>2, <1>4, <2>0, Zenon DEF Assign
  <2>2. s.phase \in Later[obj[w].status.phase] /\ s.phase \in PhaseAt("stars")
    BY <2>1, <1>1, <1>2, LaterFacts DEF Phase
  <2> QED BY <1>1, <1>4, <2>1, <2>2, AssignStep
<1>5. CASE Fail(w)
  BY <1>1, <1>5, FailStep
<1> QED BY <1>4, <1>5 DEF NewService, ReplyLost, NextTurn

\* Only an Astro without a phase gets here; the stored one has none either.
LEMMA UpdateAstroCopies ==
  ASSUME CopyInv, NEW w \in Worker, UpdateAstro(w)
  PROVE  HeldInv' /\ Stable /\ Advances
<1>1. /\ StoreInv /\ HeldInv /\ holder' = holder
      /\ pc[w] = "stars" /\ pc[w] \in Calls \ {"unfinalize"} /\ pc[w] # "free"
      /\ PhaseAt("stars") = {"Unset"}
  BY CopyParts DEF UpdateAstro, workVars, Calls, PhaseAt
<1>2. /\ holder[w] \in Key /\ obj[w] \in Astro /\ CopyOK(holder[w], obj[w])
      /\ obj[w].finalizer /\ ~obj[w].deleting /\ obj[w].status.phase = "Unset"
  BY <1>1, HeldFacts
<1>3. PICK a \in Key : a = holder[w]
  BY <1>2
<1>4. PICK o \in Astro : o = obj[w]
  BY <1>2
<1>5. CopyOK(a, o) /\ o.finalizer /\ ~o.deleting /\ o.status.phase = "Unset"
  BY <1>2, <1>3, <1>4
<1>6. CASE ~Fresh(a, o) /\ Fail(w) /\ UNCHANGED astroVars
  BY <1>1, <1>6, AstroFrame, FrameAdvances, FailStep DEF Stable, astroVars
<1>7. CASE Update(a, o)
  <2>1. /\ Stable /\ Advances
        /\ server'[a] \in Astro /\ server'[a].rv = rev'[a]
        /\ server'[a].status = server[a].status
        /\ server'[a].finalizer /\ ~server'[a].deleting
        /\ server[a].status.phase = "Unset"
    <3>1. /\ Exists(a) /\ server[a] \in Astro /\ o.status.phase \in Later[server[a].status.phase]
          /\ o.deleting = server[a].deleting
      BY <1>5, <1>7 DEF Update, Fresh, CopyOK, CopyInv, CopyTypes, Exists
    <3>2. server[a].status.phase = "Unset"
      BY <3>1, <1>5, AstroFields, LaterFacts
    <3> QED BY <3>1, <3>2, <1>1, <1>5, <1>7, UpdateStable
  <2>2. CASE Fail(w)
    BY <1>1, <2>1, <2>2, FailStep DEF Stable
  <2>3. ASSUME NEW s \in Status, s.phase = "Initialized",
               obj' = [obj EXCEPT ![w] = [server'[a] EXCEPT !.status = s]],
               alias' = [alias EXCEPT ![w] = FALSE],
               GoTo(w, IF server'[a].status = s THEN "return" ELSE "status"),
               UNCHANGED cache
        PROVE  HeldInv'
    <3>1. PICK c \in Astro :
            /\ c = [server'[a] EXCEPT !.status = s] /\ c.status = s
            /\ c.uid = server'[a].uid /\ c.rv = server'[a].rv /\ c.stars = server'[a].stars
            /\ c.deleting = server'[a].deleting /\ c.finalizer = server'[a].finalizer
      BY <2>1, NewStatus
    <3>2. c # Nothing
      BY AstroFields
    <3>3. server'[a].status # s
      BY <2>1, <2>3
    <3>4. Becomes(w, "status", a, c, FALSE)
      BY <2>3, <3>1, <3>3, <1>1, <1>3 DEF Becomes, GoTo, HeldInv
    <3>5. Fits("status", c)
      <4>1. PhaseAt("status") = Phase \ {"Unset"} /\ "Initialized" \in Phase \ {"Unset"}
            /\ "status" # "unfinalize"
        BY DEF PhaseAt, Phase
      <4> QED BY <4>1, <3>1, <3>2, <2>1, <2>3, Zenon DEF Fits
    <3>6. CopyOK(a, c)'
      <4>1. rev'[a] \in Nat /\ "Initialized" \in Later["Unset"]
        BY <2>1, LaterFacts DEF Stable, StoreInv
      <4>2. /\ c.rv <= rev'[a] /\ c.finalizer /\ server'[a].finalizer
            /\ c.status.phase \in Later[server'[a].status.phase]
        BY <4>1, <3>1, <2>1, <2>3
      <4> QED BY <4>2, <3>1 DEF CopyOK
    <3>7. /\ "status" \in Calls \cup {"free", "return", "error"} /\ "status" # "free"
          /\ a # NoKey /\ \A v \in Worker \ {w} : holder[v] # a
      BY <1>1, <1>3, ControllerAssumption DEF Calls, HeldInv, HolderInv
    <3> QED BY <1>1, <2>1, <3>2, <3>4, <3>5, <3>6, <3>7, WorkerStep DEF Stable
  <2>4. Len(o.status.deploymentRef) \in Nat /\ o.status \in Status
    BY AstroFields, LenProperties
  <2>5. PICK s \in Status :
          /\ s = [o.status EXCEPT !.phase = "Initialized", !.readyNodeNumber = 0,
                    !.nodeNumber = Len(o.status.deploymentRef)]
          /\ s.phase = "Initialized"
    BY <2>4, StatusOfCreate
  <2>6. \/ Fail(w)
        \/ /\ obj' = [obj EXCEPT ![w] = [server'[a] EXCEPT !.status = s]]
           /\ alias' = [alias EXCEPT ![w] = FALSE]
           /\ GoTo(w, IF server'[a].status = s THEN "return" ELSE "status")
           /\ UNCHANGED cache
    BY <1>3, <1>4, <1>7, <2>5 DEF UpdateAstro, ReplyLost, Update
  <2> QED BY <2>1, <2>2, <2>3, <2>5, <2>6
<1> QED BY <1>3, <1>4, <1>6, <1>7 DEF UpdateAstro

LEMMA WriteStatusCopies ==
  ASSUME CopyInv, NEW w \in Worker, WriteStatus(w)
  PROVE  HeldInv' /\ Stable /\ Advances
<1>1. /\ StoreInv /\ HeldInv /\ holder' = holder
      /\ pc[w] = "status" /\ pc[w] \in Calls \ {"unfinalize"} /\ pc[w] # "free"
      /\ PhaseAt("status") = Phase \ {"Unset"}
  BY CopyParts DEF WriteStatus, workVars, Calls, PhaseAt
<1>2. /\ holder[w] \in Key /\ obj[w] \in Astro /\ CopyOK(holder[w], obj[w])
      /\ ~obj[w].deleting /\ obj[w].status.phase # "Unset"
  BY <1>1, HeldFacts
<1>3. Stable /\ Advances
  <2>1. CASE UNCHANGED astroVars
    BY <1>1, <2>1, AstroFrame, FrameAdvances DEF astroVars
  <2>2. CASE UpdateStatus(holder[w], obj[w])
    <3>1. PICK a \in Key, o \in Astro : a = holder[w] /\ o = obj[w]
      BY <1>2
    <3>2. CopyOK(a, o) /\ ~o.deleting /\ o.status.phase # "Unset"
      BY <1>2, <3>1
    <3>3. UpdateStatus(a, o)
      BY <2>2, <3>1
    <3> QED BY <1>1, <3>2, <3>3, UpdateStatusStable
  <2> QED BY <2>1, <2>2 DEF WriteStatus
<1>4. \/ GoTo(w, "return") /\ Same
      \/ Fail(w)
  BY DEF WriteStatus, ReplyLost
<1> QED BY <1>1, <1>3, <1>4, ReturnStep, FailStep DEF Stable

LEMMA RemoveFinalizerCopies ==
  ASSUME CopyInv, NEW w \in Worker, RemoveFinalizer(w)
  PROVE  HeldInv' /\ Stable /\ Advances
<1>1. /\ StoreInv /\ HeldInv /\ holder' = holder
      /\ pc[w] = "unfinalize" /\ pc[w] \in Calls /\ pc[w] # "free"
  BY CopyParts DEF RemoveFinalizer, workVars, Calls
<1>2. /\ holder[w] \in Key /\ obj[w] \in Astro /\ CopyOK(holder[w], obj[w])
      /\ obj[w].deleting
  BY <1>1, HeldFacts
<1>3. Stable /\ Advances
  <2>1. CASE UNCHANGED astroVars
    BY <1>1, <2>1, AstroFrame, FrameAdvances DEF astroVars
  <2>2. CASE Update(holder[w], obj[w])
    <3>1. PICK a \in Key, o \in Astro : a = holder[w] /\ o = obj[w]
      BY <1>2
    <3>2. CopyOK(a, o) /\ o.deleting
      BY <1>2, <3>1
    <3>3. Update(a, o)
      BY <2>2, <3>1
    <3> QED BY <1>1, <3>2, <3>3, UpdateStable
  <2> QED BY <2>1, <2>2 DEF RemoveFinalizer
<1>4. \/ GoTo(w, "return") /\ Same
      \/ Fail(w)
  BY DEF RemoveFinalizer, ReplyLost
<1> QED BY <1>1, <1>3, <1>4, ReturnStep, FailStep DEF Stable

\* A read, a Create, or a request that never arrives: the object stays the same.
LEMMA StayingCopies ==
  ASSUME CopyInv, NEW w \in Worker, UNCHANGED astroVars, holder' = holder,
         NEW from \in Calls \ {"unfinalize"}, NEW label \in Calls \ {"unfinalize"},
         pc[w] = from, PhaseAt(from) = PhaseAt(label),
         Fail(w) \/ (GoTo(w, label) /\ Same)
  PROVE  HeldInv'
<1>1. /\ HeldInv /\ CopiesKept /\ pc[w] # "free" /\ label \in Calls
      /\ label # "unfinalize" /\ pc[w] \in Calls
  BY WorkFrame DEF Calls
<1>2. Fits(label, obj[w])
  <2>1. /\ obj[w].status.phase \in PhaseAt(label) /\ obj[w].finalizer /\ ~obj[w].deleting
        /\ obj[w] # Nothing
    BY <1>1, HeldFacts, AstroFields
  <2> QED BY <1>1, <2>1, Zenon DEF Fits
<1> QED BY <1>1, <1>2, FailStep, StayStep

LEMMA CountCopies ==
  ASSUME CopyInv, RestInv, NEW w \in Worker, CountDeployment(w) \/ CountDone(w)
  PROVE  HeldInv' /\ UNCHANGED astroVars
<1>1. /\ StoreInv /\ HeldInv /\ CopiesKept /\ holder' = holder /\ UNCHANGED astroVars
      /\ pc[w] = "count" /\ pc[w] \in Calls \ {"unfinalize"} /\ "count" \in Calls \ {"unfinalize"}
      /\ PhaseAt("count") = {"Initialized"}
  BY WorkFrame DEF CountDeployment, CountDone, workVars, clusterVars, astroVars, Calls, PhaseAt
<1>2. CASE CountDeployment(w)
  <2>1. Fail(w) \/ (GoTo(w, "count") /\ Same)
    BY <1>2 DEF CountDeployment, NextTurn
  <2> QED BY <1>1, <2>1, StayingCopies
<1>3. CASE CountDone(w)
  <2>1. obj[w].status \in Status /\ obj[w].status.phase = "Initialized" /\ ready[w] \in Nat
    BY <1>1, HeldFacts DEF RestInv, PositionInv
  <2>2. "Waited" \in Phase /\ "Initialized" \in Phase
    BY DEF Phase
  <2>3. PICK p \in {"Waited", "Initialized"} :
          p = IF AllReady(w) THEN "Waited" ELSE obj[w].status.phase
    <3>1. CASE AllReady(w)
      BY <3>1
    <3>2. CASE ~AllReady(w)
      BY <3>2, <2>1
    <3> QED BY <3>1, <3>2
  <2>p. p \in Phase
    BY <2>2, <2>3
  <2>t. PICK t \in Status, n \in Nat : t = obj[w].status /\ n = ready[w]
    BY <2>1
  <2>4. PICK s \in Status : s = [t EXCEPT !.readyNodeNumber = n, !.phase = p] /\ s.phase = p
    <3>1. t \in Status /\ n \in Nat
      BY <2>t
    <3>2. [t EXCEPT !.readyNodeNumber = n, !.phase = p] \in Status
      BY <3>1, <2>p DEF Status
    <3>3. [t EXCEPT !.readyNodeNumber = n, !.phase = p].phase = p
      BY <3>1 DEF Status
    <3> QED BY <3>2, <3>3, Zenon
  <2>5. SyncStatus(w, s)
    BY <1>3, <2>t, <2>3, <2>4 DEF CountDone
  <2>6. s.phase \in Later[obj[w].status.phase] /\ s.phase # "Unset"
    BY <2>1, <2>2, <2>4, LaterFacts
  <2> QED BY <1>1, <2>1, <2>5, <2>6, SyncStatusStep
<1> QED BY <1>1, <1>2, <1>3

LEMMA ReadServiceCopies ==
  ASSUME CopyInv, NEW w \in Worker, ReadService(w)
  PROVE  HeldInv' /\ UNCHANGED astroVars
<1>1. /\ holder' = holder /\ UNCHANGED astroVars /\ pc[w] = "read-service"
      /\ "read-service" \in Calls \ {"unfinalize"}
  BY DEF ReadService, workVars, clusterVars, astroVars, Calls
<1>2. Fail(w) \/ (GoTo(w, "read-service") /\ Same)
  BY DEF ReadService, NextTurn
<1> QED BY <1>1, <1>2, StayingCopies

\* newAstermule ends well: AstermuleRef is set, the phase stays Waited.
LEMMA StartedCopies ==
  ASSUME CopyInv, NEW w \in Worker, UNCHANGED astroVars, AstermuleStarted(w),
         pc[w] \in {"read-service", "create-port"}
  PROVE  HeldInv'
<1>1. /\ StoreInv /\ HeldInv /\ CopiesKept /\ holder' = holder
      /\ pc[w] \in Calls \ {"unfinalize"} /\ PhaseAt(pc[w]) = {"Waited"}
  BY WorkFrame DEF AstermuleStarted, StillWaited, W!Enqueue, Calls, PhaseAt
<1>2. obj[w].status \in Status /\ obj[w].status.phase = "Waited" /\ "Waited" \in Phase
  BY <1>1, HeldFacts
<1>3. PICK s \in Status : s = [obj[w].status EXCEPT !.astermuleRef = TRUE]
                          /\ s.phase = obj[w].status.phase
  BY <1>2, StatusOfEngine
<1>4. SyncStatus(w, s)
  BY <1>3 DEF AstermuleStarted
<1>5. s.phase \in Later[obj[w].status.phase] /\ s.phase # "Unset"
  BY <1>2, <1>3, LaterFacts
<1> QED BY <1>1, <1>2, <1>4, <1>5, SyncStatusStep

LEMMA NewAstermuleCopies ==
  ASSUME CopyInv, NEW w \in Worker, NewAstermule(w) \/ NewPort(w)
  PROVE  HeldInv' /\ UNCHANGED astroVars
<1>1. /\ UNCHANGED astroVars /\ pc[w] \in {"read-service", "create-port"}
      /\ {"read-service", "create-port"} \subseteq Calls \ {"unfinalize"}
      /\ PhaseAt("read-service") = PhaseAt("create-port")
  BY DEF NewAstermule, NewPort, Calls, PhaseAt
<1>2. CASE AstermuleStarted(w)
  BY <1>1, <1>2, StartedCopies
<1>3. CASE Fail(w) /\ holder' = holder
  <2>1. pc[w] # "free"
    BY <1>1 DEF Calls
  <2> QED BY <1>1, <1>3, <2>1, WorkFrame, FailStep
<1>4. CASE GoTo(w, "create-port") /\ Same /\ holder' = holder
  <2>1. PICK from \in Calls \ {"unfinalize"} : pc[w] = from /\ PhaseAt(from) = PhaseAt("create-port")
    BY <1>1
  <2>2. "create-port" \in Calls \ {"unfinalize"}
    BY <1>1
  <2> QED BY <1>1, <1>4, <2>1, <2>2, StayingCopies
<1> QED
  BY <1>1, <1>2, <1>3, <1>4 DEF NewAstermule, NewPort, EngineExists, ReplyLost, workVars

LEMMA ReadEngineCopies ==
  ASSUME CopyInv, NEW w \in Worker, ReadEngine(w)
  PROVE  HeldInv' /\ UNCHANGED astroVars
<1>1. /\ StoreInv /\ HeldInv /\ CopiesKept /\ holder' = holder /\ UNCHANGED astroVars
      /\ pc[w] = "read-engine" /\ pc[w] \in Calls \ {"unfinalize"} /\ pc[w] # "free"
      /\ PhaseAt("read-engine") = {"Waited"}
  BY WorkFrame DEF ReadEngine, StillWaited, W!Enqueue, workVars, clusterVars, astroVars, Calls, PhaseAt
<1>2. CASE Fail(w)
  BY <1>1, <1>2, FailStep
<1>3. ASSUME NEW p \in {"Ready", "EngineFailed", "Waited"},
             SyncStatus(w, [obj[w].status EXCEPT !.phase = p])
      PROVE  HeldInv'
  <2>1. obj[w].status \in Status /\ obj[w].status.phase = "Waited"
    BY <1>1, HeldFacts
  <2>2. p \in Phase /\ p \in Later["Waited"] /\ p # "Unset"
    BY LaterFacts DEF Phase
  <2>3. PICK s \in Status : s = [obj[w].status EXCEPT !.phase = p] /\ s.phase = p
    BY <2>1, <2>2, StatusOfPhase
  <2>4. SyncStatus(w, s)
    BY <1>3, <2>3
  <2> QED BY <1>1, <2>1, <2>2, <2>3, <2>4, SyncStatusStep
<1>4. \A pod : EnginePhaseOf(pod) \in {"Ready", "EngineFailed", "Waited"}
  BY DEF EnginePhaseOf
<1> QED BY <1>1, <1>2, <1>3, <1>4 DEF ReadEngine

LEMMA ReadEndpointCopies ==
  ASSUME CopyInv, NEW w \in Worker, ReadEndpoint(w)
  PROVE  HeldInv' /\ UNCHANGED astroVars
<1>1. /\ holder' = holder /\ UNCHANGED astroVars /\ pc[w] = "read-endpoint"
      /\ "read-endpoint" \in Calls \ {"unfinalize"} /\ "launch" \in Calls \ {"unfinalize"}
      /\ PhaseAt("read-endpoint") = PhaseAt("launch")
  BY DEF ReadEndpoint, workVars, clusterVars, astroVars, Calls, PhaseAt
<1>2. Fail(w) \/ (GoTo(w, "launch") /\ Same)
  BY DEF ReadEndpoint
<1> QED BY <1>1, <1>2, StayingCopies

LEMMA LaunchCopies ==
  ASSUME CopyInv, NEW w \in Worker, Launch(w)
  PROVE  HeldInv' /\ UNCHANGED astroVars
<1>1. /\ StoreInv /\ HeldInv /\ CopiesKept /\ holder' = holder /\ UNCHANGED astroVars
      /\ pc[w] = "launch" /\ pc[w] \in Calls \ {"unfinalize"} /\ pc[w] # "free"
      /\ PhaseAt("launch") = {"Ready"}
  BY WorkFrame DEF Launch, workVars, Calls, PhaseAt
<1>2. CASE Fail(w)
  BY <1>1, <1>2, FailStep
<1>3. ASSUME NEW p \in Reported, SyncStatus(w, [obj[w].status EXCEPT !.phase = p])
      PROVE  HeldInv'
  <2>1. obj[w].status \in Status /\ obj[w].status.phase = "Ready"
    BY <1>1, HeldFacts
  <2>2. p \in Phase /\ p \in Later["Ready"] /\ p # "Unset"
    BY LaterFacts DEF Phase, Reported
  <2>3. PICK s \in Status : s = [obj[w].status EXCEPT !.phase = p] /\ s.phase = p
    BY <2>1, <2>2, StatusOfPhase
  <2>4. SyncStatus(w, s)
    BY <1>3, <2>3
  <2> QED BY <1>1, <2>1, <2>2, <2>3, <2>4, SyncStatusStep
<1> QED BY <1>1, <1>2, <1>3 DEF Launch, LaunchError, ReplyLost

LEMMA EndCopies ==
  ASSUME CopyInv, NEW w \in Worker, Return(w) \/ HandleErr(w)
  PROVE  HeldInv' /\ UNCHANGED astroVars
<1>1. Free(w) /\ holder' = [holder EXCEPT ![w] = NoKey]
  BY DEF Return, HandleErr, W!Succeed, W!Retry, W!Drop
<1>2. UNCHANGED astroVars
  BY <1>1 DEF Free, clusterVars, astroVars
<1> QED BY <1>1, <1>2, WorkFrame, FreeStep

LEMMA CallFailsCopies ==
  ASSUME CopyInv, NEW w \in Worker, CallFails(w)
  PROVE  HeldInv' /\ UNCHANGED astroVars
<1>1. UNCHANGED astroVars /\ Fail(w) /\ holder' = holder /\ pc[w] # "free"
  BY DEF CallFails, ReplyLost, workVars, Calls
<1> QED BY <1>1, WorkFrame, FailStep

-----------------------------------------------------------------------------
(* Copies and versions in every step *)

LEMMA WorkCopies ==
  ASSUME CopyInv, RestInv, NEW w \in Worker, Work(w) \/ CallFails(w)
  PROVE  CopyInv' /\ Advances
<1>1. CASE HeldInv' /\ UNCHANGED astroVars
  BY <1>1, WorkFrame, CopyParts, FrameAdvances
<1>2. CASE UpdateAstro(w) \/ WriteStatus(w) \/ RemoveFinalizer(w)
  BY <1>2, UpdateAstroCopies, WriteStatusCopies, RemoveFinalizerCopies, CopyParts DEF Stable
<1>3. CASE NewDeployment(w) \/ NewService(w)
  BY <1>1, <1>3, NewDeploymentCopies, NewServiceCopies DEF NewDeployment, NewService
<1> QED
  BY <1>1, <1>2, <1>3, CountCopies, ReadServiceCopies, NewAstermuleCopies, ReadEngineCopies,
     ReadEndpointCopies, LaunchCopies, EndCopies, CallFailsCopies DEF Work

LEMMA NextCopies ==
  ASSUME CopyInv, RestInv, Next
  PROVE  CopyInv' /\ Advances
<1>1. CASE Environment /\ UNCHANGED controllerVars
  <2>1. Stable /\ Advances
    BY <1>1, CopyParts, EnvironmentStable
  <2>2. HeldInv'
    BY <1>1, <2>1, CopyParts, HeldFrame DEF Stable, controllerVars, workVars, syncVars
  <2> QED BY <2>1, <2>2, CopyParts DEF Stable
<1>2. CASE CopyInv' /\ UNCHANGED server
  BY <1>2, CopyParts, FrameAdvances
<1> QED
  BY <1>1, <1>2, DeliverCopies, HandleObjectCopies, RestartCopies, DispatchCopies, WorkCopies
  DEF Next, Controller

=============================================================================
