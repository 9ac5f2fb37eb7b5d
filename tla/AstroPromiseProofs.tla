--------------------------- MODULE AstroPromiseProofs ---------------------------
(***************************************************************************)
(* For any Astros, stars, workers and limits: an Astro is Initialized only  *)
(* when all of its dependents are there; in external mode the controller    *)
(* implements AstroPromise, and it launches a workflow once when nothing    *)
(* interferes.                                                              *)
(***************************************************************************)
EXTENDS AstroSyncProofs, AstroLaunch

\* The stored version after a write, and what it was written from.
LEMMA PhaseMoves ==
  ASSUME StepFacts, NEW a \in Key, Exists(a), Exists(a)',
         server[a].status.phase = "Unset", server'[a].status.phase # "Unset"
  PROVE  \E n \in Astro, c \in Astro, w \in Worker :
           /\ n = server'[a] /\ holder[w] = a /\ c \in Held(w)
           /\ n.uid = server[a].uid
           /\ n.uid = c.uid /\ n.stars = c.stars /\ n.status = c.status
<1>1. StoreInv /\ \A w \in Worker : obj[w] \in Astro \cup {Nothing}
  BY FactTypes DEF HeldInv
<1>2. CASE server'[a] = server[a]
  BY <1>2
<1>3. ASSUME NEW b \in Key, Remove(b) PROVE server'[a] = server[a]
  BY <1>1, <1>3, RemoveKeeps DEF Exists, StoreInv
<1>4. ASSUME NEW b \in Key, NEW v \in Astro, b # a, Write(b, v) PROVE server'[a] = server[a]
  BY <1>1, <1>4, StoreKeeps DEF Write
<1>5. ASSUME NEW v \in Astro, Write(a, v)
      PROVE  \E n \in Astro, c \in Astro, w \in Worker :
               /\ n = server'[a] /\ holder[w] = a /\ c \in Held(w)
               /\ n.uid = server[a].uid
               /\ n.uid = c.uid /\ n.stars = c.stars /\ n.status = c.status
  <2>1. /\ server'[a] \in Astro /\ server'[a].status = v.status
        /\ server'[a].uid = v.uid /\ server'[a].stars = v.stars
    BY <1>1, <1>5, StoreKeeps DEF Write
  <2>2. v.status # EmptyStatus /\ v.status # server[a].status
    BY <2>1, EmptyStatusType
  <2>3. PICK w \in Worker : \E c \in Held(w) :
          /\ holder[w] = a /\ c.uid = v.uid /\ c.stars = v.stars /\ c.status = v.status
          /\ v.uid = server[a].uid
    BY <1>5, <2>2 DEF Write, Written
  <2>4. PICK c \in Held(w) :
          /\ holder[w] = a /\ c.uid = v.uid /\ c.stars = v.stars /\ c.status = v.status
          /\ v.uid = server[a].uid
    BY <2>3
  <2>5. c \in Astro
    BY <1>1 DEF Held
  <2>6. PICK n \in Astro : n = server'[a]
    BY <2>1
  <2> QED BY <2>1, <2>4, <2>5, <2>6
<1> QED BY <1>2, <1>3, <1>4, <1>5 DEF StepFacts, StoreMoves

\* The first status of an Astro is sent by a sync that has created everything.
LEMMA FirstStatus ==
  ASSUME StepFacts, CopiesGood, NEW a \in Key, Exists(a), Exists(a)',
         server[a].status.phase = "Unset", server'[a].status.phase # "Unset"
  PROVE  \E n \in Astro, own \in Owner :
           /\ n = server'[a] /\ own = OwnerOf(a, n)
           /\ n.status.nodeNumber = Len(n.stars)
           /\ \A i \in 1..Len(n.stars) :
                OwnsDeployment(own, n.stars[i]) /\ services[n.stars[i]] = own
<1>1. PICK n \in Astro, c \in Astro, w \in Worker :
        /\ n = server'[a] /\ holder[w] = a /\ c \in Held(w)
        /\ n.uid = server[a].uid
        /\ n.uid = c.uid /\ n.stars = c.stars /\ n.status = c.status
  BY PhaseMoves
<1>2. PICK own \in Owner : own = OwnerOf(a, c) /\ own.name = a /\ own.uid = c.uid
  BY OwnerOfCopy
<1>3. own = OwnerOf(a, n)
  BY <1>1, <1>2 DEF OwnerOf
<1>4. ~Recorded(a, c)
  BY <1>1, <1>2 DEF Recorded, Alive
<1>5. FirstPhase(w, a, c)
  BY <1>1 DEF CopiesGood, WorkerGood, SyncGood
<1>6. Deployed(own, c)
  BY <1>2, <1>4, <1>5 DEF FirstPhase
<1> QED BY <1>1, <1>3, <1>6 DEF Deployed

\* syncCreate reports Initialized when this very Astro owns a Deployment and a
\* Service for each of its stars, whatever syncs of other Astros or of an earlier
\* one of the name have created.
THEOREM InitializedDeployed == Spec => InitializedMeansDeployed
<1> DEFINE A == \A a \in Key :
       PhaseIn(a, {"Unset"}) /\ PhaseIn(a, {"Initialized"})'
         => LET astro == server'[a]
                owner == OwnerOf(a, astro) IN
              /\ \A i \in 1..Len(astro.stars) :
                   /\ deploys[astro.stars[i]] # Nothing
                   /\ deploys[astro.stars[i]].owner = owner
                   /\ services[astro.stars[i]] = owner
              /\ astro.status.nodeNumber = Len(astro.stars)
<1>1. ASSUME IInv /\ DependInv, [Next]_vars PROVE [A]_vars
  <2>1. CASE UNCHANGED vars
    BY <2>1
  <2>2. CASE Next
    <3>1. StepFacts /\ CopiesGood
      BY <1>1, <2>2, InvParts, NextFacts DEF DependInv
    <3> SUFFICES ASSUME NEW a \in Key, PhaseIn(a, {"Unset"}), PhaseIn(a, {"Initialized"})'
                 PROVE  /\ \A i \in 1..Len(server'[a].stars) :
                             /\ deploys[server'[a].stars[i]] # Nothing
                             /\ deploys[server'[a].stars[i]].owner = OwnerOf(a, server'[a])
                             /\ services[server'[a].stars[i]] = OwnerOf(a, server'[a])
                        /\ server'[a].status.nodeNumber = Len(server'[a].stars)
      OBVIOUS
    <3>2. PICK n \in Astro, own \in Owner :
            /\ n = server'[a] /\ own = OwnerOf(a, n)
            /\ n.status.nodeNumber = Len(n.stars)
            /\ \A i \in 1..Len(n.stars) :
                 OwnsDeployment(own, n.stars[i]) /\ services[n.stars[i]] = own
      BY <3>1, FirstStatus DEF PhaseIn
    <3> QED BY <3>2 DEF OwnsDeployment
  <2> QED BY <1>1, <2>1, <2>2
<1> QED BY <1>1, Dependents, PTL DEF Spec, InitializedMeansDeployed

-----------------------------------------------------------------------------
(* The refinement: each step changes what is seen of at most one Astro *)

View(a) == IF Exists(a) THEN LifeOf(a) ELSE Nothing

Lives == [a \in Key |-> View(a)]

LEMMA LivesIsLife == /\ Promise!PromiseInit <=> (Lives = [a \in Key |-> Nothing])
                     /\ [Promise!PromiseNext]_Lives <=> (Promise!PromiseNext \/ Lives' = Lives)
BY DEF Promise!PromiseInit, Lives, View

OthersSame(a) == \A b \in Key \ {a} : View(b)' = View(b)

LEMMA ViewStep ==
  ASSUME NEW a \in Key, OthersSame(a), NEW new, View(a)' = new
  PROVE  Promise!Change(a, new)
BY DEF Promise!Change, OthersSame, View

\* What it takes for a step to be one of AstroPromise.
LEMMA ViewMoves ==
  ASSUME NEW a \in Key, OthersSame(a), NEW old, old = View(a), NEW new, View(a)' = new
  PROVE  /\ new = old => Lives' = Lives
         /\ (/\ old = Nothing
             /\ new = [phase |-> "Unset", finalizer |-> FALSE, deleting |-> FALSE, launched |-> FALSE])
              => Promise!Appear(a)
         /\ old # Nothing /\ ~old.finalizer /\ ~old.deleting /\ new = [old EXCEPT !.finalizer = TRUE]
            => Promise!Protect(a)
         /\ \A p \in Later[old.phase] :
              (/\ old # Nothing /\ old.finalizer /\ ~old.deleting
               /\ p \in Promise!Results => old.launched
               /\ new = [old EXCEPT !.phase = p])
                => Promise!Proceed(a)
         /\ old # Nothing /\ old.phase # "Unset" /\ new = [old EXCEPT !.launched = TRUE]
            => Promise!Launched(a)
         /\ (/\ old # Nothing /\ ~old.deleting
             /\ new = IF old.finalizer THEN [old EXCEPT !.deleting = TRUE] ELSE Nothing)
              => Promise!Delete(a)
         /\ old # Nothing /\ old.deleting /\ new = Nothing => Promise!Disappear(a)
<1>1. Promise!Change(a, new)
  BY ViewStep
<1>2. new = old => Lives' = Lives
  BY DEF OthersSame, Lives
<1>3. Lives[a] = old
  BY DEF Lives
<1>4. Promise!There(a) <=> old # Nothing
  BY <1>3 DEF Promise!There, Lives, View
<1>5. /\ (/\ old = Nothing
          /\ new = [phase |-> "Unset", finalizer |-> FALSE, deleting |-> FALSE, launched |-> FALSE])
           => Promise!Appear(a)
      /\ old # Nothing /\ old.deleting /\ new = Nothing => Promise!Disappear(a)
  BY <1>1, <1>3, <1>4 DEF Promise!Appear, Promise!Disappear, Lives, View
<1>6. old # Nothing /\ ~old.finalizer /\ ~old.deleting /\ new = [old EXCEPT !.finalizer = TRUE]
      => Promise!Protect(a)
  BY <1>1, <1>3, <1>4 DEF Promise!Protect, Lives, View
<1>7. ASSUME NEW p \in Later[old.phase], old # Nothing, old.finalizer, ~old.deleting,
             p \in Promise!Results => old.launched, new = [old EXCEPT !.phase = p]
      PROVE  Promise!Proceed(a)
  <2>1. Promise!Change(a, [old EXCEPT !.phase = p])
    BY <1>1, <1>7
  <2>2. \E q \in Later[old.phase] :
          /\ q \in Promise!Results => old.launched
          /\ Promise!Change(a, [old EXCEPT !.phase = q])
    BY <1>7, <2>1
  <2>3. Promise!Later = Later
    BY DEF Promise!Later, Promise!Phase, Later, Phase
  <2> QED BY <1>3, <1>4, <1>7, <2>2, <2>3 DEF Promise!Proceed, Lives, View
<1>8. old # Nothing /\ old.phase # "Unset" /\ new = [old EXCEPT !.launched = TRUE]
      => Promise!Launched(a)
  BY <1>1, <1>3, <1>4 DEF Promise!Launched, Lives, View
<1>9. (/\ old # Nothing /\ ~old.deleting
       /\ new = IF old.finalizer THEN [old EXCEPT !.deleting = TRUE] ELSE Nothing)
        => Promise!Delete(a)
  BY <1>1, <1>3, <1>4 DEF Promise!Delete, Lives, View
<1> QED BY <1>2, <1>5, <1>6, <1>7, <1>8, <1>9

Promised == Promise!PromiseNext \/ Lives' = Lives

LEMMA PromisedBy ==
  ASSUME NEW a \in Key,
         \/ Promise!Appear(a) \/ Promise!Protect(a) \/ Promise!Proceed(a) \/ Promise!Launched(a)
         \/ Promise!Delete(a) \/ Promise!Disappear(a)
  PROVE  Promised
BY DEF Promised, Promise!PromiseNext

\* What is seen of the stored version s.
SeenAs(l, a, s, launched) ==
  /\ l.phase = s.status.phase /\ l.finalizer = s.finalizer /\ l.deleting = s.deleting
  /\ l.launched = launched

LEMMA SeenNow ==
  ASSUME NEW a \in Key, NEW s \in Astro, s = server[a]
  PROVE  \E l \in Life, r \in BOOLEAN :
           l = View(a) /\ SeenAs(l, a, s, r) /\ (r <=> RunFor(a, OwnerOf(a, s)))
<1>1. PICK r \in BOOLEAN : r <=> RunFor(a, OwnerOf(a, s))
  OBVIOUS
<1>2. s # Nothing /\ s.status.phase \in Phase /\ s.finalizer \in BOOLEAN /\ s.deleting \in BOOLEAN
  BY AstroFields
<1>3. PICK l : l = [phase |-> s.status.phase, finalizer |-> s.finalizer,
                    deleting |-> s.deleting, launched |-> r]
  OBVIOUS
<1>4. l \in Life /\ SeenAs(l, a, s, r)
  BY <1>2, <1>3 DEF Life, SeenAs
<1>5. l = View(a)
  BY <1>1, <1>2, <1>3 DEF View, LifeOf, RunFor, Exists
<1> QED BY <1>1, <1>4, <1>5

LEMMA SeenNext ==
  ASSUME NEW a \in Key, NEW s \in Astro, s = server'[a]
  PROVE  \E l \in Life, r \in BOOLEAN :
           l = View(a)' /\ SeenAs(l, a, s, r) /\ (r <=> RunFor(a, OwnerOf(a, s))')
<1>1. PICK r \in BOOLEAN : r <=> RunFor(a, OwnerOf(a, s))'
  OBVIOUS
<1>2. s # Nothing /\ s.status.phase \in Phase /\ s.finalizer \in BOOLEAN /\ s.deleting \in BOOLEAN
  BY AstroFields
<1>3. PICK l : l = [phase |-> s.status.phase, finalizer |-> s.finalizer,
                    deleting |-> s.deleting, launched |-> r]
  OBVIOUS
<1>4. l \in Life /\ SeenAs(l, a, s, r)
  BY <1>2, <1>3 DEF Life, SeenAs
<1>5. l = View(a)'
  BY <1>1, <1>2, <1>3 DEF View, LifeOf, RunFor, Exists
<1> QED BY <1>1, <1>4, <1>5

\* Only the stored version of a changes.
ServerOnly(a) == UNCHANGED engines /\ \A b \in Key \ {a} : server'[b] = server[b]

LEMMA ServerOthers ==
  ASSUME NEW a \in Key, ServerOnly(a)
  PROVE  OthersSame(a)
BY DEF OthersSame, ServerOnly, View, LifeOf, Exists

\* A write to an Astro that stays the same Astro.
LEMMA StoredView ==
  ASSUME NEW a \in Key, ServerOnly(a), NEW s \in Astro, NEW n \in Astro,
         s = server[a], n = server'[a], n.uid = s.uid
  PROVE  \E old \in Life, new \in Life, r \in BOOLEAN :
           /\ old = View(a) /\ new = View(a)' /\ OthersSame(a)
           /\ SeenAs(old, a, s, r) /\ SeenAs(new, a, n, r)
           /\ r <=> RunFor(a, OwnerOf(a, s))
<1>1. PICK old \in Life, r \in BOOLEAN :
        old = View(a) /\ SeenAs(old, a, s, r) /\ (r <=> RunFor(a, OwnerOf(a, s)))
  BY SeenNow
<1>2. PICK new \in Life, q \in BOOLEAN :
        new = View(a)' /\ SeenAs(new, a, n, q) /\ (q <=> RunFor(a, OwnerOf(a, n))')
  BY SeenNext
<1>3. OwnerOf(a, n) = OwnerOf(a, s)
  BY DEF OwnerOf
<1>4. q = r
  BY <1>1, <1>2, <1>3 DEF RunFor, ServerOnly
<1> QED BY <1>1, <1>2, <1>4, ServerOthers

LEMMA LifeFields ==
  ASSUME NEW l \in Life
  PROVE  /\ l # Nothing /\ l.phase \in Phase /\ l.finalizer \in BOOLEAN
         /\ l.deleting \in BOOLEAN /\ l.launched \in BOOLEAN
BY TypesAssumption DEF Life

\* Lives are told apart by what is seen of them.
LEMMA LifeIs ==
  ASSUME NEW old \in Life, NEW new \in Life
  PROVE  /\ (/\ new.phase = old.phase /\ new.finalizer = old.finalizer
             /\ new.deleting = old.deleting /\ new.launched = old.launched)
              => new = old
         /\ (/\ new.phase = old.phase /\ new.finalizer = TRUE
             /\ new.deleting = old.deleting /\ new.launched = old.launched)
              => new = [old EXCEPT !.finalizer = TRUE]
         /\ (/\ new.phase = old.phase /\ new.finalizer = old.finalizer
             /\ new.deleting = TRUE /\ new.launched = old.launched)
              => new = [old EXCEPT !.deleting = TRUE]
         /\ (/\ new.phase = old.phase /\ new.finalizer = old.finalizer
             /\ new.deleting = old.deleting /\ new.launched = TRUE)
              => new = [old EXCEPT !.launched = TRUE]
         /\ (/\ new.finalizer = old.finalizer
             /\ new.deleting = old.deleting /\ new.launched = old.launched)
              => new = [old EXCEPT !.phase = new.phase]
BY DEF Life

\* No engine is one of an Astro that does not exist yet.
LEMMA AppearStep ==
  ASSUME StoreInv, EnginesGood, NEW a \in Key, UserCreates(a)
  PROVE  Promised
<1>1. PICK stars \in StarLists :
        Store(a, [uid |-> rev[a] + 1, rv |-> 0, deleting |-> FALSE, finalizer |-> FALSE,
                  stars |-> stars, status |-> EmptyStatus])
  BY DEF UserCreates
<1>2. PICK v \in Astro :
        /\ Store(a, v) /\ v.uid = rev[a] + 1 /\ v.status.phase = "Unset"
        /\ v.finalizer = FALSE /\ v.deleting = FALSE
  BY <1>1, CreatedAstro
<1>3. /\ server'[a] \in Astro /\ server'[a].status = v.status /\ server'[a].finalizer = v.finalizer
      /\ server'[a].deleting = v.deleting /\ server'[a].uid = v.uid
      /\ \A b \in Key \ {a} : server'[b] = server[b]
  BY <1>2, StoreKeeps
<1>4. PICK n \in Astro : n = server'[a]
  BY <1>3
<1>5. UNCHANGED engines /\ ~Exists(a)
  BY DEF UserCreates, dependentVars
<1>6. OthersSame(a)
  BY <1>3, <1>5, ServerOthers DEF ServerOnly
<1>7. PICK new \in Life, r \in BOOLEAN :
        new = View(a)' /\ SeenAs(new, a, n, r) /\ (r <=> RunFor(a, OwnerOf(a, n))')
  BY <1>4, SeenNext
<1>8. ~RunFor(a, OwnerOf(a, n))'
  <2>1. rev[a] \in Nat
    BY DEF StoreInv
  <2>2. PICK own \in Owner : own = OwnerOf(a, n) /\ own.name = a /\ own.uid = n.uid
    BY OwnerOfCopy
  <2>3. engines[a] # Nothing => engines[a].owner # own
    <3> SUFFICES ASSUME engines[a] # Nothing, engines[a].owner = own PROVE FALSE
      OBVIOUS
    <3>1. own.uid <= rev[a]
      BY <2>2 DEF EnginesGood
    <3> QED BY <2>1, <2>2, <3>1, <1>2, <1>3, <1>4
  <2> QED BY <1>5, <2>2, <2>3 DEF RunFor
<1>9. new = [phase |-> "Unset", finalizer |-> FALSE, deleting |-> FALSE, launched |-> FALSE]
  <2>1. new.phase = "Unset" /\ new.finalizer = FALSE /\ new.deleting = FALSE /\ new.launched = FALSE
    BY <1>2, <1>3, <1>4, <1>7, <1>8 DEF SeenAs
  <2> QED BY <2>1 DEF Life
<1>10. View(a) = Nothing
  BY <1>5 DEF View
<1> QED BY <1>6, <1>7, <1>9, <1>10, ViewMoves, PromisedBy

LEMMA EditStep ==
  ASSUME StoreInv, NEW a \in Key, UserEdits(a)
  PROVE  Promised
<1>1. PICK stars \in StarLists : Store(a, [server[a] EXCEPT !.stars = stars])
  BY DEF UserEdits
<1>2. PICK s \in Astro : s = server[a]
  BY DEF UserEdits, StoreInv, Exists
<1>3. PICK v \in Astro :
        /\ Store(a, v) /\ v.uid = s.uid /\ v.status = s.status
        /\ v.finalizer = s.finalizer /\ v.deleting = s.deleting
  BY <1>1, <1>2, EditedAstro
<1>4. v.status.phase # "Unset" => v.finalizer
  BY <1>2, <1>3 DEF UserEdits, StoreInv, FinalizerBeforeStatus
<1>5. PICK n \in Astro :
        /\ n = server'[a] /\ n.status = v.status /\ n.finalizer = v.finalizer
        /\ n.deleting = v.deleting /\ n.uid = v.uid
        /\ \A b \in Key \ {a} : server'[b] = server[b]
  BY <1>3, <1>4, StoreKeeps
<1>6. ServerOnly(a)
  BY <1>5 DEF UserEdits, dependentVars, ServerOnly
<1>7. PICK old \in Life, new \in Life, r \in BOOLEAN :
        /\ old = View(a) /\ new = View(a)' /\ OthersSame(a)
        /\ SeenAs(old, a, s, r) /\ SeenAs(new, a, n, r)
  BY <1>2, <1>3, <1>5, <1>6, StoredView
<1>8. new = old
  <2>1. /\ new.phase = old.phase /\ new.finalizer = old.finalizer
        /\ new.deleting = old.deleting /\ new.launched = old.launched
    BY <1>3, <1>5, <1>7 DEF SeenAs
  <2> QED BY <2>1, LifeIs, Zenon
<1> QED BY <1>7, <1>8, ViewMoves DEF Promised

LEMMA DeleteStep ==
  ASSUME StoreInv, NEW a \in Key, UserDeletes(a)
  PROVE  Promised
<1>1. PICK s \in Astro : s = server[a] /\ s # Nothing
  BY DEF UserDeletes, StoreInv, Exists
<1>2. CASE ~s.finalizer /\ Remove(a)
  <2>1. server'[a] = Nothing /\ ServerOnly(a)
    BY <1>2, RemoveKeeps DEF UserDeletes, dependentVars, ServerOnly, StoreInv
  <2>2. PICK old \in Life, r \in BOOLEAN : old = View(a) /\ SeenAs(old, a, s, r)
    BY <1>1, SeenNow
  <2>3. View(a)' = Nothing /\ OthersSame(a)
    BY <2>1, ServerOthers DEF View, Exists
  <2>4. old # Nothing /\ ~old.deleting /\ ~old.finalizer
    BY <1>1, <1>2, <2>2, LifeFields DEF SeenAs, UserDeletes
  <2>5. Promise!Delete(a)
    BY <2>2, <2>3, <2>4, ViewMoves
  <2> QED BY <2>5, PromisedBy
<1>3. CASE s.finalizer /\ Store(a, [s EXCEPT !.deleting = TRUE])
  <2>1. PICK v \in Astro :
          /\ v = [s EXCEPT !.deleting = TRUE] /\ v.deleting = TRUE
          /\ v.uid = s.uid /\ v.status = s.status /\ v.finalizer = s.finalizer
    BY DeletedAstro
  <2>s. Store(a, v)
    BY <1>3, <2>1
  <2>2. PICK n \in Astro :
          /\ n = server'[a] /\ n.status = v.status /\ n.finalizer = v.finalizer
          /\ n.deleting = v.deleting /\ n.uid = v.uid
          /\ \A b \in Key \ {a} : server'[b] = server[b]
    BY <1>3, <2>1, <2>s, StoreKeeps
  <2>3. ServerOnly(a)
    BY <2>2 DEF UserDeletes, dependentVars, ServerOnly
  <2>4. PICK old \in Life, new \in Life, r \in BOOLEAN :
          /\ old = View(a) /\ new = View(a)' /\ OthersSame(a)
          /\ SeenAs(old, a, s, r) /\ SeenAs(new, a, n, r)
    BY <1>1, <2>1, <2>2, <2>3, StoredView
  <2>5. new = [old EXCEPT !.deleting = TRUE]
    <3>1. /\ new.phase = old.phase /\ new.finalizer = old.finalizer
          /\ new.deleting = TRUE /\ new.launched = old.launched
      BY <2>1, <2>2, <2>4 DEF SeenAs
    <3> QED BY <3>1, LifeIs, Zenon
  <2>6. old # Nothing /\ ~old.deleting /\ old.finalizer
    BY <1>1, <1>3, <2>4, LifeFields DEF SeenAs, UserDeletes
  <2>7. Promise!Delete(a)
    BY <2>4, <2>5, <2>6, ViewMoves
  <2> QED BY <2>7, PromisedBy
<1> QED BY <1>1, <1>2, <1>3 DEF UserDeletes

\* The Update of syncCreate adds the finalizer, or finds it there.
LEMMA ProtectStep ==
  ASSUME StepFacts, CopiesGood, NEW w \in Worker, UpdateAstro(w), Update(holder[w], obj[w])
  PROVE  Promised
<1>1. pc[w] = "stars" /\ pc[w] \in Calls
  BY DEF UpdateAstro, Calls
<1>2. PICK a \in Key, o \in Astro :
        a = holder[w] /\ o = obj[w] /\ CopyOK(a, o) /\ o.finalizer /\ ~o.deleting
  BY <1>1, MyCopy
<1>3. /\ Exists(a) /\ o.rv = server[a].rv /\ UNCHANGED engines /\ StoreInv
      /\ Update(a, o)
  BY <1>2, FactTypes DEF Update, Fresh, UpdateAstro, dependentVars
<1>4. PICK s \in Astro : s = server[a] /\ s.deleting = o.deleting
  BY <1>2, <1>3 DEF StoreInv, Exists, CopyOK
<1>f. PICK f \in BOOLEAN : f = o.finalizer /\ f
  BY <1>2, AstroFields
<1>5. PICK v \in Astro :
        /\ v = [s EXCEPT !.finalizer = f] /\ v.finalizer = f
        /\ v.uid = s.uid /\ v.status = s.status /\ v.deleting = s.deleting
  BY NewFinalizer
<1>6. Store(a, v)
  BY <1>2, <1>3, <1>4, <1>5, <1>f DEF Update
<1>v. /\ server'[a] \in Astro /\ server'[a].status = v.status
      /\ server'[a].finalizer = v.finalizer /\ server'[a].deleting = v.deleting
      /\ server'[a].uid = v.uid /\ \A b \in Key \ {a} : server'[b] = server[b]
  BY <1>3, <1>5, <1>6, <1>f, StoreKeeps
<1>7. PICK n \in Astro :
        /\ n = server'[a] /\ n.status = s.status /\ n.finalizer = f
        /\ n.deleting = s.deleting /\ n.uid = s.uid
        /\ \A b \in Key \ {a} : server'[b] = server[b]
  BY <1>5, <1>v
<1>8. PICK old \in Life, new \in Life, r \in BOOLEAN :
        /\ old = View(a) /\ new = View(a)' /\ OthersSame(a)
        /\ SeenAs(old, a, s, r) /\ SeenAs(new, a, n, r)
  BY <1>3, <1>4, <1>7, StoredView DEF ServerOnly
<1>9. /\ new.phase = old.phase /\ new.deleting = old.deleting /\ new.launched = old.launched
      /\ new.finalizer = TRUE /\ ~old.deleting
  BY <1>2, <1>4, <1>7, <1>8, <1>f, AstroFields DEF SeenAs
<1>10. new = [old EXCEPT !.finalizer = TRUE] /\ old # Nothing /\ old.finalizer \in BOOLEAN
  BY <1>9, LifeIs, LifeFields, Zenon
<1>11. CASE ~old.finalizer
  BY <1>8, <1>9, <1>10, <1>11, ViewMoves, PromisedBy
<1>12. CASE old.finalizer = TRUE
  <2>1. new = old
    BY <1>9, <1>12, LifeIs, Zenon
  <2> QED BY <1>8, <2>1, ViewMoves DEF Promised
<1> QED BY <1>10, <1>11, <1>12

\* UpdateStatus stores a later phase, and a result only of an engine that ran.
LEMMA ProceedStep ==
  ASSUME External, StepFacts, CopiesGood, NEW w \in Worker, WriteStatus(w),
         UpdateStatus(holder[w], obj[w])
  PROVE  Promised
<1>1. pc[w] = "status" /\ pc[w] \in Calls /\ PhaseAt("status") = Phase \ {"Unset"}
  BY DEF WriteStatus, Calls, PhaseAt
<1>2. PICK a \in Key, o \in Astro, own \in Owner :
        /\ a = holder[w] /\ o = obj[w] /\ own = OwnerOf(a, o) /\ own.name = a /\ own.uid = o.uid
        /\ CopyOK(a, o) /\ ~o.deleting /\ (Alive(own) => Backed(own, o.status))
  BY <1>1, MyCopy
<1>3. o.status.phase # "Unset" /\ o.status \in Status
  BY <1>1, <1>2, FactTypes, HeldFacts
<1>4. /\ Exists(a) /\ o.rv = server[a].rv /\ o.uid = server[a].uid
      /\ UNCHANGED engines /\ StoreInv /\ UpdateStatus(a, o)
  BY <1>2, FactTypes DEF UpdateStatus, Fresh, WriteStatus, dependentVars
<1>5. PICK s \in Astro :
        /\ s = server[a] /\ s.uid = o.uid /\ s.deleting = o.deleting /\ s.finalizer
        /\ o.status.phase \in Later[s.status.phase]
  BY <1>2, <1>3, <1>4 DEF StoreInv, Exists, CopyOK
<1>6. PICK v \in Astro :
        /\ v = [s EXCEPT !.status = o.status] /\ v.status = o.status
        /\ v.uid = s.uid /\ v.finalizer = s.finalizer /\ v.deleting = s.deleting
  BY <1>3, NewStatus
<1>7. Store(a, v)
  BY <1>4, <1>5, <1>6 DEF UpdateStatus
<1>v. /\ server'[a] \in Astro /\ server'[a].status = v.status
      /\ server'[a].finalizer = v.finalizer /\ server'[a].deleting = v.deleting
      /\ server'[a].uid = v.uid /\ \A b \in Key \ {a} : server'[b] = server[b]
  BY <1>4, <1>5, <1>6, <1>7, StoreKeeps
<1>8. PICK n \in Astro :
        /\ n = server'[a] /\ n.status = o.status /\ n.finalizer = s.finalizer
        /\ n.deleting = s.deleting /\ n.uid = s.uid
        /\ \A b \in Key \ {a} : server'[b] = server[b]
  BY <1>6, <1>v
<1>9. PICK old \in Life, new \in Life, r \in BOOLEAN :
        /\ old = View(a) /\ new = View(a)' /\ OthersSame(a)
        /\ SeenAs(old, a, s, r) /\ SeenAs(new, a, n, r)
        /\ r <=> RunFor(a, OwnerOf(a, s))
  BY <1>4, <1>5, <1>8, StoredView DEF ServerOnly
<1>10. PICK p \in Later[old.phase] : p = o.status.phase /\ p = new.phase
  BY <1>5, <1>8, <1>9 DEF SeenAs
<1>11. p \in Promise!Results => old.launched
  <2>1. own = OwnerOf(a, s) /\ Alive(own)
    BY <1>2, <1>4, <1>5 DEF OwnerOf, Alive
  <2>2. p \in {"Success", "Wrong"} => RunFor(a, own)
    BY <1>2, <1>10, <2>1 DEF Backed, EngineBacked, OwnsEngine, RunFor
  <2>3. old.launched = r
    BY <1>9 DEF SeenAs
  <2> QED BY <1>9, <2>1, <2>2, <2>3 DEF Promise!Results
<1>12. new.finalizer = old.finalizer /\ new.deleting = old.deleting /\ new.launched = old.launched
  BY <1>8, <1>9 DEF SeenAs
<1>13. new = [old EXCEPT !.phase = p]
  BY <1>10, <1>12, LifeIs, Zenon
<1>14. old # Nothing /\ old.finalizer /\ ~old.deleting
  BY <1>2, <1>5, <1>9, LifeFields DEF SeenAs
<1>15. Promise!Proceed(a)
  BY <1>9, <1>11, <1>13, <1>14, ViewMoves
<1> QED BY <1>15, PromisedBy

\* The Update of syncDelete takes the last finalizer away.
LEMMA DisappearStep ==
  ASSUME StepFacts, CopiesGood, NEW w \in Worker, RemoveFinalizer(w), Update(holder[w], obj[w])
  PROVE  Promised
<1>1. pc[w] = "unfinalize" /\ pc[w] \in Calls
  BY DEF RemoveFinalizer, Calls
<1>2. PICK a \in Key, o \in Astro, own \in Owner :
        a = holder[w] /\ o = obj[w] /\ CopyOK(a, o) /\ SyncGood(w, a, o)
  BY <1>1, MyCopy
<1>3. ~o.finalizer /\ o.deleting
  BY <1>1, <1>2, FactTypes, HeldFacts DEF SyncGood, Progress
<1>4. /\ Exists(a) /\ o.rv = server[a].rv /\ UNCHANGED engines /\ StoreInv
      /\ Update(a, o)
  BY <1>2, FactTypes DEF Update, Fresh, RemoveFinalizer, dependentVars
<1>5. PICK s \in Astro : s = server[a] /\ s.deleting = o.deleting
  BY <1>2, <1>4 DEF StoreInv, Exists, CopyOK
<1>6. Remove(a)
  BY <1>3, <1>4, <1>5 DEF Update
<1>7. server'[a] = Nothing /\ ServerOnly(a)
  BY <1>4, <1>6, RemoveKeeps DEF ServerOnly, StoreInv
<1>8. PICK old \in Life, r \in BOOLEAN : old = View(a) /\ SeenAs(old, a, s, r)
  BY <1>5, SeenNow
<1>9. View(a)' = Nothing /\ OthersSame(a) /\ old # Nothing /\ old.deleting
  BY <1>3, <1>5, <1>7, <1>8, ServerOthers, LifeFields DEF View, Exists, SeenAs
<1> QED BY <1>8, <1>9, ViewMoves, PromisedBy

\* A step that leaves the stored Astros alone changes a life only by a launch.
LEMMA SameServer ==
  ASSUME StepFacts, UNCHANGED server, NEW a \in Key,
         \A own \in Owner : Alive(own) /\ own.name = a => (RunFor(a, own)' <=> RunFor(a, own))
  PROVE  View(a)' = View(a)
<1>1. CASE ~Exists(a)
  BY <1>1 DEF View, Exists
<1>2. CASE Exists(a)
  <2>1. PICK s \in Astro : s = server[a] /\ s = server'[a]
    BY <1>2, FactTypes DEF Exists
  <2>2. PICK own \in Owner : own = OwnerOf(a, s) /\ own.name = a /\ own.uid = s.uid
    BY OwnerOfCopy
  <2>3. PICK old \in Life, r \in BOOLEAN :
          old = View(a) /\ SeenAs(old, a, s, r) /\ (r <=> RunFor(a, OwnerOf(a, s)))
    BY <2>1, SeenNow
  <2>4. PICK new \in Life, q \in BOOLEAN :
          new = View(a)' /\ SeenAs(new, a, s, q) /\ (q <=> RunFor(a, OwnerOf(a, s))')
    BY <2>1, SeenNext
  <2>5. RunFor(a, own)' <=> RunFor(a, own)
    BY <1>2, <2>1, <2>2 DEF Alive
  <2>6. q = r
    BY <2>2, <2>3, <2>4, <2>5
  <2>7. /\ new.phase = old.phase /\ new.finalizer = old.finalizer
        /\ new.deleting = old.deleting /\ new.launched = old.launched
    BY <2>3, <2>4, <2>6 DEF SeenAs
  <2> QED BY <2>3, <2>4, <2>7, LifeIs, Zenon
<1> QED BY <1>1, <1>2

\* No engine of an Astro that is there gets its first launch, or goes away.
RunsSame(a) ==
  \A own \in Owner : Alive(own) /\ own.name = a => (RunFor(a, own)' <=> RunFor(a, own))

LEMMA StutterStep ==
  ASSUME StepFacts, UNCHANGED server, \A a \in Key : RunsSame(a)
  PROVE  Promised
<1>1. \A a \in Key : View(a)' = View(a)
  BY SameServer DEF RunsSame
<1> QED BY <1>1 DEF Promised, Lives

\* An engine that only changes its phase.
LEMMA PhaseStutter ==
  ASSUME StepFacts, UNCHANGED server, NEW b \in Key, engines[b] # Nothing,
         NEW p \in EnginePhase, engines' = [engines EXCEPT ![b].phase = p]
  PROVE  Promised
<1>1. engines \in [Key -> Engine \cup {Nothing}] /\ Nothing \notin Engine
  BY FactTypes, DependentsAssumption DEF DependentTypes
<1>2. engines[b] \in Engine /\ engines'[b] \in Engine
  <2>1. engines[b] \in Engine /\ engines'[b] = [engines[b] EXCEPT !.phase = p]
    BY <1>1
  <2> QED BY <2>1 DEF Engine
<1>3. engines'[b].owner = engines[b].owner /\ engines'[b].runs = engines[b].runs
  <2>1. engines'[b] = [engines[b] EXCEPT !.phase = p]
    BY <1>1
  <2> QED BY <1>2, <2>1 DEF Engine
<1>4. \A a \in Key \ {b} : engines'[a] = engines[a]
  BY <1>1
<1>5. \A a \in Key : RunsSame(a)
  BY <1>1, <1>2, <1>3, <1>4 DEF RunsSame, RunFor
<1> QED BY <1>5, StutterStep

LEMMA CollectStutter ==
  ASSUME StepFacts, NEW b \in Key, CollectEngine(b)
  PROVE  Promised
<1>1. /\ engines \in [Key -> Engine \cup {Nothing}] /\ UNCHANGED server
      /\ engines' = [engines EXCEPT ![b] = Nothing] /\ ~Alive(engines[b].owner)
  BY FactTypes DEF DependentTypes, CollectEngine, astroVars
<1>2. \A a \in Key : RunsSame(a)
  BY <1>1 DEF RunsSame, RunFor
<1> QED BY <1>1, <1>2, StutterStep

LEMMA StartStutter ==
  ASSUME StepFacts, NEW w \in Worker, Starts(w, holder[w]), engines[holder[w]] = Nothing
  PROVE  Promised
<1>1. pc[w] \in Calls
  BY DEF Starts, Calls
<1>2. PICK b \in Key : b = holder[w]
  BY <1>1, FactTypes, HeldFacts
<1>3. PICK e : /\ e.runs = 0 /\ engines' = [engines EXCEPT ![b] = e] /\ UNCHANGED server
  BY <1>2 DEF Starts, CreateEngine, astroVars
<1>4. engines \in [Key -> Engine \cup {Nothing}]
  BY FactTypes DEF DependentTypes
<1>5. \A own : ~RunFor(b, own) /\ ~RunFor(b, own)'
  BY <1>2, <1>3, <1>4 DEF RunFor
<1>6. \A a \in Key \ {b} : engines'[a] = engines[a]
  BY <1>3, <1>4
<1>7. \A a \in Key : RunsSame(a)
  BY <1>5, <1>6 DEF RunsSame, RunFor
<1> QED BY <1>3, <1>7, StutterStep

\* A launch takes an Astro that has been deployed.
LEMMA LaunchStep ==
  ASSUME StepFacts, EnginesGood, UNCHANGED server, NEW b \in Key, Running(b), RunEngine(b)
  PROVE  Promised
<1>1. engines \in [Key -> Engine \cup {Nothing}] /\ engines[b] # Nothing /\ Nothing \notin Engine
  BY FactTypes, DependentsAssumption DEF DependentTypes, Running
<1>2. PICK e \in Engine, own \in Owner : e = engines[b] /\ own = e.owner /\ e.runs \in 0..2
  BY <1>1 DEF Engine, MaxRuns
<1>3. PICK n \in Nat : /\ n > 0 /\ engines' = [engines EXCEPT ![b] = [e EXCEPT !.runs = n]]
                       /\ n = IF e.runs < MaxRuns THEN e.runs + 1 ELSE e.runs
  <2>1. PICK n \in Nat : n > 0 /\ n = IF e.runs < MaxRuns THEN e.runs + 1 ELSE e.runs
    BY <1>2 DEF MaxRuns
  <2> QED BY <1>1, <1>2, <2>1 DEF RunEngine
<1>4. PICK f \in Engine : f = engines'[b] /\ f.runs = n /\ f.owner = own
  <2>1. engines'[b] = [e EXCEPT !.runs = n]
    BY <1>1, <1>3
  <2>2. engines'[b] \in Engine
    BY <1>2, <1>3, <2>1 DEF Engine, MaxRuns
  <2> QED BY <1>2, <2>1, <2>2 DEF Engine
<1>5. \A a \in Key \ {b} : engines'[a] = engines[a]
  BY <1>1, <1>3
<1>6. \A a \in Key \ {b} : RunsSame(a)
  BY <1>5 DEF RunsSame, RunFor
<1>7. CASE ~(Alive(own) /\ own.name = b)
  <2>1. RunsSame(b)
    BY <1>2, <1>4, <1>7 DEF RunsSame, RunFor
  <2> QED BY <1>6, <2>1, StutterStep
<1>8. CASE Alive(own) /\ own.name = b
  <2>1. PICK s \in Astro : s = server[b] /\ s = server'[b] /\ s.uid = own.uid
    BY <1>8, FactTypes DEF Alive, Exists
  <2>2. own = OwnerOf(b, s)
    BY <1>8, <2>1 DEF OwnerOf, Owner
  <2>3. s.status.phase # "Unset"
    BY <1>1, <1>2, <1>8, <2>1 DEF EnginesGood
  <2>4. PICK old \in Life, r \in BOOLEAN : old = View(b) /\ SeenAs(old, b, s, r)
    BY <2>1, SeenNow
  <2>5. PICK new \in Life, q \in BOOLEAN :
          new = View(b)' /\ SeenAs(new, b, s, q) /\ (q <=> RunFor(b, OwnerOf(b, s))')
    BY <2>1, SeenNext
  <2>6. RunFor(b, own)'
    BY <1>1, <1>3, <1>4 DEF RunFor
  <2>7. q = TRUE
    BY <2>2, <2>5, <2>6
  <2>8. /\ new.phase = old.phase /\ new.finalizer = old.finalizer
        /\ new.deleting = old.deleting /\ new.launched = TRUE
    BY <2>4, <2>5, <2>7 DEF SeenAs
  <2>9. new = [old EXCEPT !.launched = TRUE]
    BY <2>8, LifeIs, Zenon
  <2>10. old # Nothing /\ old.phase # "Unset"
    BY <2>3, <2>4, LifeFields DEF SeenAs
  <2>11. OthersSame(b)
    BY <1>6, SameServer DEF OthersSame, RunsSame
  <2>12. Promise!Launched(b)
    BY <2>4, <2>5, <2>9, <2>10, <2>11, ViewMoves
  <2> QED BY <2>12, PromisedBy
<1> QED BY <1>7, <1>8

\* Anything else is not seen.
LEMMA UnseenStep ==
  ASSUME StepFacts, UNCHANGED <<server, engines>>
  PROVE  Promised
<1>1. \A a \in Key : RunsSame(a)
  BY DEF RunsSame, RunFor
<1> QED BY <1>1, StutterStep

LEMMA EnvironmentPromised ==
  ASSUME StepFacts, EnginesGood, Environment
  PROVE  Promised
<1>1. StoreInv
  BY FactTypes
<1>2. ASSUME NEW a \in Key, UserCreates(a) \/ UserEdits(a) \/ UserDeletes(a) PROVE Promised
  BY <1>1, <1>2, AppearStep, EditStep, DeleteStep
<1>3. ASSUME NEW a \in Key, EngineSettles(a) \/ EngineLost(a) PROVE Promised
  <2>1. /\ engines[a] # Nothing /\ UNCHANGED server
        /\ \E p \in EnginePhase : engines' = [engines EXCEPT ![a].phase = p]
    BY <1>3 DEF EngineSettles, EngineLost, EnginePhase, astroVars
  <2> QED BY <2>1, PhaseStutter
<1>4. ASSUME NEW a \in Key, CollectEngine(a) PROVE Promised
  BY <1>4, CollectStutter
<1>5. ASSUME NEW a \in Key, CollectPort(a) PROVE Promised
  BY <1>5, UnseenStep DEF CollectPort, astroVars
<1>6. ASSUME NEW s \in Star, \/ DeploymentAvailable(s) \/ DeploymentUnavailable(s)
                             \/ DeploymentReports(s) \/ CollectDeployment(s) \/ CollectService(s)
      PROVE  Promised
  BY <1>6, UnseenStep DEF DeploymentAvailable, DeploymentUnavailable, DeploymentReports,
     CollectDeployment, CollectService, astroVars, dependentVars
<1> QED BY <1>2, <1>3, <1>4, <1>5, <1>6 DEF Environment

LEMMA WorkPromised ==
  ASSUME External, StepFacts, CopiesGood, EnginesGood, NEW w \in Worker, Work(w) \/ CallFails(w)
  PROVE  Promised
<1>1. CASE UpdateAstro(w)
  BY <1>1, ProtectStep, UnseenStep DEF UpdateAstro, astroVars, dependentVars
<1>2. CASE WriteStatus(w)
  BY <1>2, ProceedStep, UnseenStep DEF WriteStatus, astroVars, dependentVars
<1>3. CASE RemoveFinalizer(w)
  BY <1>3, DisappearStep, UnseenStep DEF RemoveFinalizer, astroVars, dependentVars
<1>4. CASE NewAstermule(w)
  <2>1. CASE engines[holder[w]] = Nothing
    <3>1. Starts(w, holder[w])
      BY <1>4, <2>1 DEF NewAstermule, Starts
    <3> QED BY <2>1, <3>1, StartStutter
  <2>2. CASE engines[holder[w]] # Nothing
    BY <1>4, <2>2, UnseenStep DEF NewAstermule, astroVars, dependentVars
  <2> QED BY <2>1, <2>2
<1>5. CASE Launch(w)
  <2>1. UNCHANGED server
    BY <1>5 DEF Launch, astroVars
  <2>2. \A b \in Target(w) : b \in Key
    BY DEF Target, StepFacts, RestInv, QueueTypes
  <2>3. (\E b \in Key : Running(b) /\ RunEngine(b)) \/ UNCHANGED engines
    BY <1>5, <2>2 DEF Launch, dependentVars
  <2> QED BY <2>1, <2>3, LaunchStep, UnseenStep
<1>6. CASE NewDeployment(w) \/ NewService(w) \/ NewPort(w) \/ CallFails(w)
  BY <1>6, UnseenStep DEF NewDeployment, NewService, NewPort, CallFails, CreateDeployment,
     CreateService, CreatePort, astroVars, dependentVars
<1>7. CASE \/ CountDeployment(w) \/ CountDone(w) \/ ReadService(w) \/ ReadEngine(w)
           \/ ReadEndpoint(w) \/ Return(w) \/ HandleErr(w)
  <2>1. UNCHANGED clusterVars
    BY <1>7 DEF CountDeployment, CountDone, ReadService, ReadEngine, ReadEndpoint, Return,
       HandleErr, Free
  <2> QED BY <2>1, UnseenStep DEF clusterVars
<1> QED BY <1>1, <1>2, <1>3, <1>4, <1>5, <1>6, <1>7 DEF Work

LEMMA StepPromised ==
  ASSUME External, IInv, DependInv, [Next]_vars
  PROVE  Promised
<1>1. CASE UNCHANGED vars
  <2>1. UNCHANGED <<server, engines>>
    BY <1>1 DEF vars, clusterVars
  <2>2. Lives' = Lives
    BY <2>1 DEF Lives, View, LifeOf, Exists, OwnerOf
  <2> QED BY <2>2 DEF Promised
<1>2. CASE Next
  <2>1. StepFacts /\ CopiesGood /\ EnginesGood
    BY <1>2, InvParts, NextFacts DEF DependInv
  <2>2. ASSUME NEW w \in Worker, NEW a \in Key, Dispatch(w, a) PROVE Promised
    <3>1. UNCHANGED clusterVars
      BY <2>2 DEF Dispatch, SyncGone, SyncDelete, SyncCreate, SyncInitialized, SyncWaited,
         SyncReady, SyncSettled, UpdateStart, Start
    <3> QED BY <2>1, <3>1, UnseenStep DEF clusterVars
  <2>3. CASE Restart \/ \E a \in Key : Deliver(a) \/ HandleObject(a)
    BY <2>1, <2>3, UnseenStep DEF Restart, Deliver, HandleObject, astroVars, dependentVars
  <2> QED
    BY <1>2, <2>1, <2>2, <2>3, EnvironmentPromised, WorkPromised DEF Next, Controller
<1> QED BY <1>1, <1>2

\* In external mode the controller implements AstroPromise: whatever stale and
\* mutated objects its syncs work on, whatever fails, is repeated or restarted, what
\* users see of an Astro is one of the lives that AstroPromise tells.
THEOREM PromiseKept == ASSUME External PROVE Spec => KeepsPromise
<1>1. Init => Promise!PromiseInit
  <2>1. Init => Lives = [a \in Key |-> Nothing]
    BY DEF Init, ClusterInit, Lives, View, Exists
  <2> QED BY <2>1, LivesIsLife
<1>2. IInv /\ DependInv /\ [Next]_vars => [Promise!PromiseNext]_Lives
  BY StepPromised, LivesIsLife DEF Promised
<1> QED BY <1>1, <1>2, Dependents, PTL DEF Spec, KeepsPromise, Promise!PromiseSpec, Lives, View

-----------------------------------------------------------------------------
(* One launch: OnceInv of AstroLaunch is kept, as long as nothing interferes *)

\* What cannot happen when nothing interferes.
LEMMA NothingLost ==
  ASSUME Undisturbed
  PROVE  /\ ~Spend("edits") /\ ~Spend("faults") /\ ~Spend("crashes")
         /\ \A w : ~ReplyLost(w) /\ ~CallFails(w)
         /\ \A a : ~UserEdits(a)
         /\ ~Restart
BY DEF Undisturbed, Spend, ReplyLost, CallFails, UserEdits, Restart

\* The budget of what may happen is the only one that is spent.
LEMMA UndisturbedStep ==
  ASSUME StepFacts, Undisturbed, Next
  PROVE  Undisturbed'
<1>1. CASE UNCHANGED budget
  BY <1>1 DEF Undisturbed
<1>2. ASSUME NEW what \in {"creates", "deletes", "flaps", "losses"}, Spend(what)
      PROVE  Undisturbed'
  <2>1. /\ budget \in [Spending -> Nat]
        /\ budget' = [budget EXCEPT ![what] = @ - 1, !["total"] = @ - 1]
    BY <1>2, FactTypes DEF DependentTypes, Spend
  <2>2. {"edits", "faults", "crashes"} \subseteq Spending
    BY DEF Spending
  <2>3. \A x \in {"edits", "faults", "crashes"} : budget'[x] = budget[x]
    BY <1>2, <2>1, <2>2
  <2> QED BY <2>3 DEF Undisturbed
<1>3. CASE Environment
  <2>1. \/ UNCHANGED budget
        \/ Spend("creates") \/ Spend("edits") \/ Spend("deletes") \/ Spend("flaps") \/ Spend("losses")
    BY <1>3 DEF Environment, UserCreates, UserEdits, UserDeletes, EngineSettles, EngineLost,
       CollectEngine, CollectPort, DeploymentAvailable, DeploymentUnavailable,
       DeploymentReports, CollectDeployment, CollectService
  <2> QED BY <1>1, <1>2, <2>1, NothingLost
<1>4. ASSUME NEW w \in Worker, Work(w) PROVE UNCHANGED budget
  <2>1. CASE NewDeployment(w) \/ NewService(w)
    BY <2>1, NothingLost DEF NewDeployment, NewService
  <2>2. CASE UpdateAstro(w) \/ WriteStatus(w) \/ RemoveFinalizer(w)
    BY <2>2, NothingLost DEF UpdateAstro, WriteStatus, RemoveFinalizer
  <2>3. CASE NewAstermule(w) \/ NewPort(w) \/ Launch(w)
    BY <2>3, NothingLost DEF NewAstermule, NewPort, Launch
  <2>4. CASE \/ CountDeployment(w) \/ CountDone(w) \/ ReadService(w) \/ ReadEngine(w)
             \/ ReadEndpoint(w) \/ Return(w) \/ HandleErr(w)
    <3>1. UNCHANGED clusterVars
      BY <2>4 DEF CountDeployment, CountDone, ReadService, ReadEngine, ReadEndpoint, Return,
         HandleErr, Free
    <3> QED BY <3>1 DEF clusterVars
  <2> QED BY <1>4, <2>1, <2>2, <2>3, <2>4 DEF Work
<1>5. ASSUME NEW w \in Worker, NEW a \in Key, Dispatch(w, a) PROVE UNCHANGED budget
  <2>1. UNCHANGED clusterVars
    BY <1>5 DEF Dispatch, SyncGone, SyncDelete, SyncCreate, SyncInitialized, SyncWaited, SyncReady,
       SyncSettled, UpdateStart, Start
  <2> QED BY <2>1 DEF clusterVars
<1>6. ASSUME NEW a \in Key, Deliver(a) \/ HandleObject(a) PROVE UNCHANGED budget
  BY <1>6 DEF Deliver, HandleObject
<1> QED BY <1>1, <1>3, <1>4, <1>5, <1>6, NothingLost DEF Next, Controller

\* The parts of a step of worker w.
LEMMA MyParts ==
  ASSUME StepFacts, NEW w \in Worker
  PROVE  /\ \A label : GoTo(w, label) => pc'[w] = label
         /\ \A label : NextTurn(w, label) \/ Loop(w, label) => pc'[w] = label
         /\ Fail(w) => pc'[w] = "error" /\ Same
         /\ \A s : SyncStatus(w, s) =>
              \/ pc'[w] = "return" /\ Same /\ s = obj[w].status
              \/ pc'[w] = "status" /\ Assign(w, [obj[w] EXCEPT !.status = s])
BY DEF GoTo, NextTurn, Loop, Fail, SyncStatus, StepFacts, CopyInv, CopyTypes

\* A sync goes on to another request of syncUpdate without touching its object.
LEMMA CallStep ==
  ASSUME StepFacts, Undisturbed, NEW w \in Worker, Work(w), pc'[w] \in UpdateCalls
  PROVE  /\ pc[w] \in UpdateCalls /\ Same /\ holder' = holder /\ UNCHANGED astroVars
         /\ pc'[w] \in {"read-endpoint", "launch"} => pc[w] = "read-endpoint" /\ UNCHANGED engines
<1> USE MyParts
<1>1. CASE NewDeployment(w) \/ NewService(w)
  BY <1>1, NothingLost DEF NewDeployment, NewService, DeploymentExists, UpdateCalls
<1>2. CASE UpdateAstro(w) \/ WriteStatus(w) \/ RemoveFinalizer(w)
  BY <1>2, NothingLost DEF UpdateAstro, WriteStatus, RemoveFinalizer, UpdateCalls
<1>3. CASE CountDeployment(w) \/ CountDone(w) \/ ReadService(w) \/ ReadEndpoint(w)
  BY <1>3 DEF CountDeployment, CountDone, ReadService, ReadEndpoint, UpdateCalls, workVars,
     clusterVars, astroVars
<1>4. CASE NewAstermule(w) \/ NewPort(w)
  BY <1>4, NothingLost DEF NewAstermule, NewPort, AstermuleStarted, EngineExists, UpdateCalls,
     workVars
<1>5. CASE ReadEngine(w) \/ Launch(w)
  BY <1>5, NothingLost DEF ReadEngine, Launch, LaunchError, UpdateCalls
<1>6. CASE Return(w) \/ HandleErr(w)
  BY <1>6 DEF Return, HandleErr, Free, UpdateCalls
<1> QED BY <1>1, <1>2, <1>3, <1>4, <1>5, <1>6 DEF Work

\* A status that is to be written was computed by syncCreate or from the phase.
LEMMA StatusStep ==
  ASSUME StepFacts, Undisturbed, NEW w \in Worker, Work(w), pc'[w] = "status"
  PROVE  \/ UpdateAstro(w) /\ Update(holder[w], obj[w])
         \/ /\ pc[w] \in UpdateCalls /\ holder' = holder /\ UNCHANGED astroVars
            /\ \E s : /\ Assign(w, [obj[w] EXCEPT !.status = s])
                      /\ pc[w] = "launch" => Launch(w) /\ s.phase \in Result
                      /\ pc[w] # "launch" => UNCHANGED engines
<1> USE MyParts
<1>1. CASE NewDeployment(w) \/ NewService(w)
  BY <1>1, NothingLost DEF NewDeployment, NewService, DeploymentExists
<1>2. CASE UpdateAstro(w) \/ WriteStatus(w) \/ RemoveFinalizer(w)
  BY <1>2, NothingLost DEF UpdateAstro, WriteStatus, RemoveFinalizer
<1>3. CASE CountDeployment(w) \/ CountDone(w) \/ ReadService(w) \/ ReadEndpoint(w)
  <2>1. pc[w] \in UpdateCalls /\ holder' = holder /\ UNCHANGED astroVars /\ UNCHANGED engines
        /\ pc[w] # "launch"
    BY <1>3 DEF CountDeployment, CountDone, ReadService, ReadEndpoint, UpdateCalls, workVars,
       clusterVars, astroVars
  <2>2. \E s : SyncStatus(w, s)
    BY <1>3 DEF CountDeployment, CountDone, ReadService, ReadEndpoint
  <2> QED BY <2>1, <2>2
<1>4. CASE NewAstermule(w) \/ NewPort(w)
  <2>1. NewPort(w) /\ \E s : SyncStatus(w, s)
    BY <1>4, NothingLost DEF NewAstermule, NewPort, AstermuleStarted, EngineExists, Undisturbed
  <2>2. pc[w] = "create-port" /\ UNCHANGED engines /\ UNCHANGED astroVars
    BY <2>1, NothingLost DEF NewPort, CreatePort, dependentVars
  <2>3. holder' = holder
    BY <2>1 DEF NewPort, AstermuleStarted, StillWaited, W!Enqueue, workVars
  <2> QED BY <2>1, <2>2, <2>3 DEF UpdateCalls
<1>5. CASE ReadEngine(w)
  <2>1. \E s : SyncStatus(w, s)
    BY <1>5 DEF ReadEngine
  <2>2. pc[w] = "read-engine" /\ UNCHANGED engines /\ UNCHANGED astroVars /\ holder' = holder
    BY <1>5 DEF ReadEngine, StillWaited, W!Enqueue, clusterVars, astroVars, workVars
  <2> QED BY <2>1, <2>2 DEF UpdateCalls
<1>6. CASE Launch(w)
  <2>1. pc[w] = "launch" /\ UNCHANGED astroVars /\ holder' = holder
    BY <1>6 DEF Launch, workVars
  <2>2. PICK p \in Reported : SyncStatus(w, [obj[w].status EXCEPT !.phase = p])
    BY <1>6, NothingLost DEF Launch, LaunchError
  <2>3. pc[w] \in Calls
    BY <2>1 DEF Calls
  <2>4. obj[w].status \in Status /\ p \in Phase /\ p \in Result
    BY <2>3, FactTypes, HeldFacts DEF Reported, Phase, Result
  <2>5. PICK s \in Status : s = [obj[w].status EXCEPT !.phase = p] /\ s.phase = p
    BY <2>4, StatusOfPhase
  <2> QED BY <1>6, <2>1, <2>2, <2>4, <2>5 DEF UpdateCalls
<1>7. CASE Return(w) \/ HandleErr(w)
  BY <1>7 DEF Return, HandleErr, Free
<1> QED BY <1>1, <1>2, <1>3, <1>4, <1>5, <1>6, <1>7 DEF Work

\* A sync writes through its pointer only before it has a result.
LEMMA CacheWork ==
  ASSUME StepFacts, NEW w \in Worker, Work(w)
  PROVE  \/ cache' = cache
         \/ /\ alias[w] /\ pc[w] \in Calls \ {"status", "unfinalize"} /\ holder' = holder
            /\ \E s : Assign(w, [obj[w] EXCEPT !.status = s])
<1>1. ASSUME NEW s, Assign(w, [obj[w] EXCEPT !.status = s])
      PROVE  \/ cache' = cache
             \/ alias[w] /\ \E t : Assign(w, [obj[w] EXCEPT !.status = t])
  BY <1>1 DEF Assign
<1>2. Same \/ Fail(w) => cache' = cache
  BY DEF Same, Fail
<1>3. ASSUME NEW s, SyncStatus(w, s)
      PROVE  \/ cache' = cache
             \/ alias[w] /\ \E t : Assign(w, [obj[w] EXCEPT !.status = t])
  BY <1>1, <1>2, <1>3 DEF SyncStatus
<1>4. CASE NewDeployment(w) \/ NewService(w)
  <2>1. pc[w] \in Calls \ {"status", "unfinalize"} /\ holder' = holder
    BY <1>4 DEF NewDeployment, NewService, Calls, workVars
  <2>2. ASSUME NEW s, \/ Assign(w, [obj[w] EXCEPT !.status.deploymentRef = Append(@, s)])
                      \/ Assign(w, [obj[w] EXCEPT !.status.serviceRef = Append(@, s)])
        PROVE  \/ cache' = cache
               \/ alias[w] /\ \E t : Assign(w, [obj[w] EXCEPT !.status = t])
    BY <1>1, <2>2
  <2>3. \/ Fail(w)
        \/ \E s : \/ Assign(w, [obj[w] EXCEPT !.status.deploymentRef = Append(@, s)])
                  \/ Assign(w, [obj[w] EXCEPT !.status.serviceRef = Append(@, s)])
    BY <1>4 DEF NewDeployment, NewService, DeploymentExists, ReplyLost
  <2> QED BY <1>2, <2>1, <2>2, <2>3
<1>5. CASE CountDone(w) \/ NewAstermule(w) \/ NewPort(w) \/ ReadEngine(w) \/ Launch(w)
  <2>1. pc[w] \in Calls \ {"status", "unfinalize"}
    BY <1>5 DEF CountDone, NewAstermule, NewPort, ReadEngine, Launch, Calls
  <2>2. Same \/ Fail(w) \/ \E s : SyncStatus(w, s)
    BY <1>5 DEF CountDone, NewAstermule, NewPort, ReadEngine, Launch, AstermuleStarted,
       EngineExists, LaunchError, ReplyLost
  <2>3. holder' = holder
    BY <1>5 DEF CountDone, NewAstermule, NewPort, ReadEngine, Launch, AstermuleStarted,
       StillWaited, W!Enqueue, workVars
  <2> QED BY <1>2, <1>3, <2>1, <2>2, <2>3
<1>6. CASE UpdateAstro(w) \/ WriteStatus(w) \/ RemoveFinalizer(w)
  BY <1>2, <1>6 DEF UpdateAstro, WriteStatus, RemoveFinalizer, ReplyLost
<1>7. CASE \/ CountDeployment(w) \/ ReadService(w) \/ ReadEndpoint(w) \/ Return(w) \/ HandleErr(w)
  BY <1>2, <1>7 DEF CountDeployment, ReadService, ReadEndpoint, Return, HandleErr, Free
<1> QED BY <1>4, <1>5, <1>6, <1>7 DEF Work

\* c is what is left of the cached version d of a: a sync may have assigned to it.
SameCopy(c, d) ==
  /\ c \in Astro /\ d \in Astro
  /\ c.uid = d.uid /\ c.rv = d.rv /\ c.deleting = d.deleting
  /\ c.status.phase = d.status.phase \/ d.status.phase \notin Result

\* Until the watch brings another version, the cached object is the same version.
LEMMA CacheStep ==
  ASSUME StepFacts, Next, NEW a \in Key
  PROVE  Restart \/ Deliver(a) \/ cache'[a] = cache[a] \/ SameCopy(cache'[a], cache[a])
<1>t. /\ cache \in [Key -> Astro \cup {Nothing}] /\ cache' \in [Key -> Astro \cup {Nothing}]
      /\ HeldInv /\ HeldInv'
  BY FactTypes DEF HeldInv
<1>1. CASE cache' = cache
  BY <1>1
<1>2. ASSUME NEW b \in Key \ {a}, Deliver(b) PROVE cache'[a] = cache[a]
  BY <1>t, <1>2 DEF Deliver
<1>3. ASSUME NEW w \in Worker, Work(w), cache'[a] # cache[a]
      PROVE  SameCopy(cache'[a], cache[a])
  <2>1. PICK s : /\ alias[w] /\ pc[w] \in Calls \ {"status", "unfinalize"} /\ holder' = holder
                 /\ Assign(w, [obj[w] EXCEPT !.status = s])
    BY <1>3, CacheWork
  <2>2. PICK o \in Astro : /\ o = obj[w] /\ holder[w] \in Key /\ o = cache[holder[w]]
                           /\ o.status.phase \in PhaseAt(pc[w])
    BY <1>t, <2>1, HeldFacts
  <2>3. cache' = [cache EXCEPT ![holder[w]] = [o EXCEPT !.status = s]] /\ alias'[w]
    BY <2>1, <2>2 DEF Assign
  <2>4. holder[w] = a
    BY <1>t, <1>3, <2>2, <2>3
  <2>5. cache'[a] = [o EXCEPT !.status = s] /\ cache[a] = o
    BY <1>t, <2>2, <2>3, <2>4
  <2>6. cache'[a] # Nothing
    BY <1>t, <2>1, <2>3, <2>4 DEF HeldInv, HolderInv
  <2>7. PICK c \in Astro : c = cache'[a] /\ c = [o EXCEPT !.status = s]
    BY <1>t, <2>5, <2>6
  <2>8. c.uid = o.uid /\ c.rv = o.rv /\ c.deleting = o.deleting
    BY <2>7 DEF Astro
  <2>9. o.status.phase \notin Result
    BY <2>1, <2>2 DEF PhaseAt, Calls, Result
  <2> QED BY <2>5, <2>7, <2>8, <2>9 DEF SameCopy
<1>4. ASSUME NEW w \in Worker, NEW b \in Key, Dispatch(w, b), cache'[a] # cache[a]
      PROVE  SameCopy(cache'[a], cache[a])
  <2>1. PICK f \in BOOLEAN : /\ cache[b] # Nothing
                             /\ cache' = [cache EXCEPT ![b] = [cache[b] EXCEPT !.finalizer = f]]
    <3>1. SyncDelete(w, b) \/ SyncCreate(w, b)
      BY <1>4 DEF Dispatch, SyncGone, SyncInitialized, SyncWaited, SyncReady, SyncSettled,
         UpdateStart, Same
    <3> QED BY <3>1 DEF SyncDelete, SyncCreate, Finalized
  <2>2. b = a
    BY <1>t, <1>4, <2>1
  <2>3. PICK d \in Astro :
          /\ d = [cache[a] EXCEPT !.finalizer = f]
          /\ d.uid = cache[a].uid /\ d.rv = cache[a].rv /\ d.deleting = cache[a].deleting
          /\ d.status = cache[a].status
    BY <1>t, <2>1, <2>2, NewFinalizer
  <2>4. cache'[a] = d /\ cache[a] \in Astro
    BY <1>t, <2>1, <2>2, <2>3
  <2> QED BY <2>3, <2>4 DEF SameCopy
<1>5. CASE Environment /\ UNCHANGED controllerVars
  BY <1>1, <1>5 DEF controllerVars
<1>6. ASSUME NEW b \in Key, HandleObject(b) PROVE cache' = cache
  BY <1>6 DEF HandleObject
<1>7. ASSUME NEW w \in Worker, CallFails(w) PROVE cache' = cache
  BY <1>7 DEF CallFails, ReplyLost, Fail, Same
<1> QED BY <1>1, <1>2, <1>3, <1>4, <1>5, <1>6, <1>7 DEF Next, Controller

\* A write to a: a new version, or none, that the watch is told of.
Writes(a) ==
  /\ \A b \in Key \ {a} : server'[b] = server[b] /\ watch'[b] = watch[b]
  /\ watch'[a] = Append(watch[a], server'[a])
  /\ Exists(a)' => server'[a].rv = rev[a] + 1

\* What a write makes of the stored object.
LEMMA StoreWrites ==
  ASSUME StoreInv, NEW a \in Key, NEW v \in Astro, Store(a, v)
  PROVE  /\ Writes(a) /\ Exists(a)'
         /\ server'[a].uid = v.uid /\ server'[a].deleting = v.deleting
         /\ server'[a].status = v.status
<1>t. /\ server \in [Key -> Astro \cup {Nothing}] /\ rev \in [Key -> Nat]
      /\ watch \in [Key -> Seq(Astro \cup {Nothing})]
  BY DEF StoreInv
<1>1. PICK n \in Nat : n = rev[a] + 1
  BY <1>t
<1>2. PICK d \in Astro : /\ d = [v EXCEPT !.rv = n] /\ d.rv = n
                         /\ d.uid = v.uid /\ d.deleting = v.deleting /\ d.status = v.status
  BY NewVersion
<1>3. /\ server' = [server EXCEPT ![a] = d]
      /\ watch' = [watch EXCEPT ![a] = Append(watch[a], d)]
  BY <1>1, <1>2 DEF Store
<1>4. server'[a] = d /\ watch'[a] = Append(watch[a], d) /\ d # Nothing
  BY <1>t, <1>3, AstroFields
<1>5. \A b \in Key \ {a} : server'[b] = server[b] /\ watch'[b] = watch[b]
  BY <1>t, <1>3
<1> QED BY <1>1, <1>2, <1>4, <1>5 DEF Writes, Exists

LEMMA RemoveWrites ==
  ASSUME StoreInv, NEW a \in Key, Remove(a)
  PROVE  Writes(a) /\ ~Exists(a)'
<1>t. /\ server \in [Key -> Astro \cup {Nothing}]
      /\ watch \in [Key -> Seq(Astro \cup {Nothing})]
  BY DEF StoreInv
<1>1. server'[a] = Nothing /\ watch'[a] = Append(watch[a], Nothing)
  BY <1>t DEF Remove
<1>2. \A b \in Key \ {a} : server'[b] = server[b] /\ watch'[b] = watch[b]
  BY <1>t DEF Remove
<1> QED BY <1>1, <1>2 DEF Writes, Exists

\* A write of the user, and what may be missing or come from a sync then.
ByUser(a) ==
  /\ UNCHANGED controllerVars
  /\ \/ ~Exists(a) /\ Exists(a)' /\ server'[a].uid = rev[a] + 1
     \/ Exists(a) /\ ~server[a].finalizer /\ ~Exists(a)'
     \/ Exists(a) /\ Exists(a)' /\ server'[a].uid = server[a].uid /\ server'[a].deleting

\* A write of worker w, which has the stored version.
BySync(w, a) ==
  /\ Work(w) /\ holder[w] = a /\ Fresh(a, obj[w]) /\ cache' = cache
  /\ \/ pc[w] = "unfinalize" /\ ~Exists(a)'
     \/ /\ pc[w] \in {"stars", "status"} /\ Exists(a)'
        /\ server'[a].uid = server[a].uid /\ server'[a].deleting = server[a].deleting
        /\ pc[w] = "stars" => server'[a].status = server[a].status
        /\ pc[w] = "status" => server'[a].status = obj[w].status

\* A write to a, and no other change of what OnceInv is about.
Touches(a) ==
  Writes(a) /\ UNCHANGED engines /\ (ByUser(a) \/ \E w \in Worker : BySync(w, a))

\* A write of the user touches one Astro.
LEMMA UserTouches ==
  ASSUME StoreInv, UNCHANGED controllerVars, NEW a \in Key, UserCreates(a) \/ UserDeletes(a)
  PROVE  Touches(a)
<1>1. UNCHANGED engines
  BY DEF UserCreates, UserDeletes, dependentVars
<1>2. CASE UserCreates(a)
  <2>1. PICK stars \in StarLists :
          Store(a, [uid |-> rev[a] + 1, rv |-> 0, deleting |-> FALSE, finalizer |-> FALSE,
                    stars |-> stars, status |-> EmptyStatus])
    BY <1>2 DEF UserCreates
  <2>2. PICK d \in Astro : Store(a, d) /\ d.uid = rev[a] + 1
    BY <2>1, CreatedAstro
  <2>3. Writes(a) /\ Exists(a)' /\ server'[a].uid = rev[a] + 1
    BY <2>2, StoreWrites
  <2> QED BY <1>1, <1>2, <2>3 DEF UserCreates, Touches, ByUser
<1>3. CASE UserDeletes(a)
  <2>1. CASE server[a].finalizer /\ Store(a, [server[a] EXCEPT !.deleting = TRUE])
    <3>1. server[a] \in Astro
      BY <1>3 DEF UserDeletes, Exists, StoreInv
    <3>2. PICK d \in Astro : /\ d = [server[a] EXCEPT !.deleting = TRUE]
                             /\ d.uid = server[a].uid /\ d.deleting = TRUE
      BY <3>1, DeletedAstro
    <3>3. Store(a, d)
      BY <2>1, <3>2
    <3>4. Writes(a) /\ Exists(a)' /\ server'[a].uid = server[a].uid /\ server'[a].deleting = TRUE
      BY <3>2, <3>3, StoreWrites
    <3> QED BY <1>1, <1>3, <3>4 DEF UserDeletes, Touches, ByUser
  <2>2. CASE ~server[a].finalizer /\ Remove(a)
    BY <1>1, <1>3, <2>2, RemoveWrites DEF UserDeletes, Touches, ByUser
  <2> QED BY <1>3, <2>1, <2>2 DEF UserDeletes
<1> QED BY <1>2, <1>3

\* So does a write of a sync, whose object is the stored version.
LEMMA SyncTouches ==
  ASSUME StepFacts, CopiesGood, NEW w \in Worker, Undisturbed, Work(w),
         ~UNCHANGED astroVars
  PROVE  \E a \in Key : Touches(a)
<1>s. StoreInv /\ HeldInv
  BY FactTypes
<1>1. PICK c \in {"stars", "status", "unfinalize"} :
        /\ pc[w] = c /\ UNCHANGED engines
        /\ c = "stars" => /\ Update(holder[w], obj[w])
                          /\ UNCHANGED cache
        /\ c = "status" => UpdateStatus(holder[w], obj[w]) /\ UNCHANGED cache
        /\ c = "unfinalize" => Update(holder[w], obj[w]) /\ UNCHANGED cache
  <2>1. UpdateAstro(w) \/ WriteStatus(w) \/ RemoveFinalizer(w)
    BY DEF Work, NewDeployment, NewService, CountDeployment, CountDone, ReadService, NewAstermule,
       NewPort, ReadEngine, ReadEndpoint, Launch, Return, HandleErr, Free, clusterVars, astroVars
  <2>2. CASE UpdateAstro(w)
    BY <2>2, NothingLost DEF UpdateAstro, dependentVars
  <2>3. CASE WriteStatus(w)
    BY <2>3, NothingLost DEF WriteStatus, dependentVars, Same
  <2>4. CASE RemoveFinalizer(w)
    BY <2>4, NothingLost DEF RemoveFinalizer, dependentVars, Same
  <2> QED BY <2>1, <2>2, <2>3, <2>4
<1>2. PICK a \in Key, o \in Astro :
        /\ a = holder[w] /\ o = obj[w] /\ CopyOK(a, o)
        /\ pc[w] = "unfinalize" => ~o.finalizer /\ o.deleting
        /\ pc[w] # "unfinalize" => o.finalizer
  <2>1. pc[w] \in Calls
    BY <1>1 DEF Calls
  <2>2. PICK a \in Key, o \in Astro, own \in Owner :
          /\ a = holder[w] /\ o = obj[w] /\ SyncGood(w, a, o) /\ CopyOK(a, o)
          /\ pc[w] # "unfinalize" => o.finalizer /\ ~o.deleting
    BY <2>1, MyCopy
  <2>3. pc[w] = "unfinalize" => o.deleting
    BY <1>s, <2>1, <2>2, HeldFacts
  <2> QED BY <2>2, <2>3 DEF SyncGood, Progress
<1>3. /\ Fresh(a, o) /\ server[a] \in Astro
      /\ o.deleting = server[a].deleting
  <2>1. Fresh(a, o)
    BY <1>1, <1>2 DEF Update, UpdateStatus
  <2> QED BY <1>s, <1>2, <2>1 DEF Fresh, Exists, StoreInv, CopyOK
<1>4. CASE c = "unfinalize"
  <2>1. Remove(a)
    BY <1>1, <1>2, <1>3, <1>4 DEF Update
  <2> QED BY <1>s, <1>1, <1>2, <1>3, <1>4, <2>1, RemoveWrites DEF Touches, BySync
<1>5. CASE c = "stars"
  <2>1. PICK f \in BOOLEAN : Store(a, [server[a] EXCEPT !.finalizer = f])
    BY <1>1, <1>2, <1>3, <1>5, AstroFields DEF Update
  <2>2. PICK v \in Astro : /\ Store(a, v) /\ v.uid = server[a].uid
                           /\ v.deleting = server[a].deleting /\ v.status = server[a].status
    BY <1>3, <2>1, NewFinalizer
  <2> QED BY <1>s, <1>1, <1>2, <1>3, <1>5, <2>2, StoreWrites DEF Touches, BySync
<1>6. CASE c = "status"
  <2>1. Store(a, [server[a] EXCEPT !.status = o.status])
    BY <1>1, <1>2, <1>6 DEF UpdateStatus
  <2>2. PICK v \in Astro : /\ v = [server[a] EXCEPT !.status = o.status] /\ v.uid = server[a].uid
                           /\ v.deleting = server[a].deleting /\ v.status = o.status
    <3>1. o.status \in Status
      BY AstroFields
    <3> QED BY <1>3, <3>1, NewStatus
  <2>3. Store(a, v)
    BY <2>1, <2>2
  <2>4. /\ Writes(a) /\ Exists(a)' /\ server'[a].uid = server[a].uid
        /\ server'[a].deleting = server[a].deleting /\ server'[a].status = o.status
    BY <1>s, <2>2, <2>3, StoreWrites
  <2> QED BY <1>1, <1>2, <1>3, <1>6, <2>4 DEF Touches, BySync
<1> QED BY <1>1, <1>4, <1>5, <1>6

\* A step writes to one Astro, or the store stays and the watch only delivers.
LEMMA Touching ==
  ASSUME StepFacts, CopiesGood, Undisturbed, Next
  PROVE  \/ UNCHANGED <<server, rev>> /\ \A a \in Key : watch'[a] = watch[a] \/ Deliver(a)
         \/ \E a \in Key : Touches(a)
<1>1. CASE UNCHANGED astroVars
  BY <1>1 DEF astroVars
<1>2. ASSUME NEW b \in Key, Deliver(b)
      PROVE  UNCHANGED <<server, rev>> /\ \A a \in Key : watch'[a] = watch[a] \/ Deliver(a)
  <2>1. watch \in [Key -> Seq(Astro \cup {Nothing})]
    BY DEF StepFacts, CopyInv, CopyTypes
  <2>2. \A a \in Key \ {b} : watch'[a] = watch[a]
    BY <1>2, <2>1 DEF Deliver
  <2> QED BY <1>2, <2>2 DEF Deliver
<1>3. ASSUME NEW w \in Worker, NEW a \in Key, Dispatch(w, a) PROVE UNCHANGED astroVars
  <2>1. UNCHANGED clusterVars
    BY <1>3 DEF Dispatch, SyncGone, SyncDelete, SyncCreate, SyncInitialized, SyncWaited, SyncReady,
       SyncSettled, UpdateStart, Start
  <2> QED BY <2>1 DEF clusterVars, astroVars
<1>4. ASSUME NEW a \in Key, HandleObject(a) PROVE UNCHANGED astroVars
  BY <1>4 DEF HandleObject
<1>5. CASE Environment /\ UNCHANGED controllerVars
  <2>1. UNCHANGED astroVars \/ \E a \in Key : UserCreates(a) \/ UserDeletes(a)
    BY <1>5, NothingLost DEF Environment, EngineSettles, EngineLost, CollectEngine, CollectPort,
       DeploymentAvailable, DeploymentUnavailable, DeploymentReports, CollectDeployment,
       CollectService
  <2> QED BY <1>1, <1>5, <2>1, UserTouches, FactTypes
<1>6. ASSUME NEW w \in Worker, Work(w) PROVE UNCHANGED astroVars \/ \E a \in Key : Touches(a)
  BY <1>6, SyncTouches
<1> QED BY <1>1, <1>2, <1>3, <1>4, <1>5, <1>6, NothingLost DEF Next, Controller

\* The last element, when a sequence loses its first one.
LEMMA LastOfTail ==
  ASSUME NEW S, NEW s \in Seq(S), s # << >>
  PROVE  IF Tail(s) = << >> THEN Head(s) = s[Len(s)] ELSE Tail(s)[Len(Tail(s))] = s[Len(s)]
<1>1. PICK n \in Nat, t \in Seq(S) :
        /\ n = Len(s) /\ n > 0 /\ t = Tail(s) /\ Len(t) = n - 1 /\ Head(s) = s[1]
        /\ \A i \in 1..(n - 1) : t[i] = s[i + 1]
  <2>1. Len(s) \in Nat /\ Len(s) > 0
    BY EmptySeq
  <2>2. /\ Tail(s) \in Seq(S) /\ Len(Tail(s)) = Len(s) - 1
        /\ \A i \in 1..Len(Tail(s)) : Tail(s)[i] = s[i + 1]
    BY HeadTailProperties
  <2>3. Head(s) = s[1]
    OBVIOUS
  <2> QED BY <2>1, <2>2, <2>3
<1>2. t = << >> <=> n = 1
  <2>1. t # << >> => Len(t) \in Nat \ {0}
    BY EmptySeq
  <2>2. t = << >> => Len(t) = 0
    BY EmptySeq
  <2> QED BY <1>1, <2>1, <2>2
<1>3. CASE n = 1
  BY <1>1, <1>2, <1>3
<1>4. CASE n > 1
  <2>1. n - 1 \in 1..(n - 1) /\ (n - 1) + 1 = n
    BY <1>4
  <2>2. t[n - 1] = s[n]
    BY <1>1, <2>1
  <2> QED BY <1>1, <1>2, <1>4, <2>2
<1> QED BY <1>1, <1>3, <1>4

\* What the watch has told of stays what it has told of.
LEMMA LastSeenStep ==
  ASSUME StepFacts, NEW a \in Key
  PROVE  /\ Deliver(a) => LastSeen(a)' = LastSeen(a)
         /\ watch'[a] = watch[a] => \/ LastSeen(a)' = LastSeen(a)
                                    \/ LastSeen(a) = cache[a] /\ LastSeen(a)' = cache'[a]
         /\ \A s \in Astro \cup {Nothing} :
              watch'[a] = Append(watch[a], s) => LastSeen(a)' = s
<1>t. /\ watch \in [Key -> Seq(Astro \cup {Nothing})]
      /\ cache \in [Key -> Astro \cup {Nothing}]
  BY DEF StepFacts, CopyInv, CopyTypes
<1>1. ASSUME Deliver(a) PROVE LastSeen(a)' = LastSeen(a)
  <2>1. PICK s \in Seq(Astro \cup {Nothing}) : s = watch[a] /\ s # << >>
    BY <1>t, <1>1 DEF Deliver
  <2>2. cache'[a] = Head(s) /\ watch'[a] = Tail(s)
    BY <1>t, <1>1, <2>1 DEF Deliver
  <2>3. IF Tail(s) = << >> THEN Head(s) = s[Len(s)] ELSE Tail(s)[Len(Tail(s))] = s[Len(s)]
    BY <2>1, LastOfTail
  <2> QED BY <2>1, <2>2, <2>3 DEF LastSeen
<1>2. ASSUME watch'[a] = watch[a]
      PROVE  \/ LastSeen(a)' = LastSeen(a)
             \/ LastSeen(a) = cache[a] /\ LastSeen(a)' = cache'[a]
  BY <1>2 DEF LastSeen
<1>3. ASSUME NEW s \in Astro \cup {Nothing}, watch'[a] = Append(watch[a], s)
      PROVE  LastSeen(a)' = s
  <2>1. PICK t \in Seq(Astro \cup {Nothing}) : t = watch[a]
    BY <1>t
  <2>2. Append(t, s) # << >> /\ Append(t, s)[Len(Append(t, s))] = s
    BY AppendProperties
  <2> QED BY <1>3, <2>1, <2>2 DEF LastSeen
<1> QED BY <1>1, <1>2, <1>3

\* The watch is told of every write, and delivers one version at a time.
LEMMA StoreWatched ==
  ASSUME StepFacts, NEW a \in Key
  PROVE  \/ Restart
         \/ server'[a] = server[a] /\ watch'[a] = watch[a]
         \/ server'[a] = server[a] /\ Deliver(a)
         \/ watch'[a] = Append(watch[a], server'[a])
<1>t. StoreInv
  BY FactTypes
<1>1. ASSUME NEW b \in Key, Writes(b)
      PROVE  \/ server'[a] = server[a] /\ watch'[a] = watch[a]
             \/ watch'[a] = Append(watch[a], server'[a])
  BY <1>1 DEF Writes
<1>2. ASSUME NEW b \in Key, Deliver(b), UNCHANGED server
      PROVE  server'[a] = server[a] /\ (watch'[a] = watch[a] \/ Deliver(a))
  <2>1. watch \in [Key -> Seq(Astro \cup {Nothing})]
    BY <1>t DEF StoreInv
  <2>2. b # a => watch'[a] = watch[a]
    BY <1>2, <2>1 DEF Deliver
  <2> QED BY <1>2, <2>2
<1>3. ASSUME NEW b \in Key, Remove(b) PROVE Writes(b)
  BY <1>t, <1>3, RemoveWrites
<1>4. ASSUME NEW b \in Key, NEW v \in Astro, Write(b, v) PROVE Writes(b)
  BY <1>t, <1>4, StoreWrites DEF Write
<1> QED BY <1>1, <1>2, <1>3, <1>4 DEF StepFacts, StoreMoves

\* The store, the watch and the cache stay in step: what a sync assigns to the
\* cached object does not make it another version.
LEMMA InSyncStep ==
  ASSUME StepFacts, InSync, Next
  PROVE  InSync'
<1> SUFFICES ASSUME NEW a \in Key
             PROVE  IF Exists(a)' THEN SameVersion(LastSeen(a)', server'[a])
                    ELSE LastSeen(a)' = Nothing
  BY DEF InSync, SameVersion
<1>t. /\ server \in [Key -> Astro \cup {Nothing}] /\ server' \in [Key -> Astro \cup {Nothing}]
  BY FactTypes
<1>1. CASE LastSeen(a)' = LastSeen(a) /\ server'[a] = server[a]
  BY <1>1 DEF InSync, Exists
<1>2. CASE SameCopy(LastSeen(a)', LastSeen(a)) /\ server'[a] = server[a]
  BY <1>2, AstroFields DEF InSync, Exists, SameVersion, SameCopy
<1>3. CASE Restart
  <2>1. watch'[a] = << >> /\ cache'[a] = server'[a]
    BY <1>3 DEF Restart
  <2> QED BY <1>t, <2>1 DEF LastSeen, SameVersion, Exists
<1>4. CASE watch'[a] = watch[a] /\ server'[a] = server[a]
  BY <1>1, <1>2, <1>3, <1>4, LastSeenStep, CacheStep
<1>5. CASE server'[a] = server[a] /\ Deliver(a)
  BY <1>1, <1>5, LastSeenStep
<1>6. CASE watch'[a] = Append(watch[a], server'[a])
  <2>1. LastSeen(a)' = server'[a]
    BY <1>t, <1>6, LastSeenStep
  <2> QED BY <2>1 DEF SameVersion, Exists
<1> QED BY <1>3, <1>4, <1>5, <1>6, StoreWatched

\* What worker v does, and when it does nothing.
LEMMA WorkerActs ==
  ASSUME StepFacts, Next, NEW v \in Worker
  PROVE  \/ Restart \/ CallFails(v)
         \/ Work(v) \/ \E a \in Key : Dispatch(v, a)
         \/ Idle(v) /\ (alias'[v] = alias[v] \/ Deliver(holder[v]))
<1>t. alias \in [Worker -> BOOLEAN]
  BY DEF StepFacts, CopyInv, CopyTypes
<1>1. CASE Environment /\ UNCHANGED controllerVars
  BY <1>1 DEF controllerVars, workVars, syncVars, Idle
<1>2. ASSUME NEW a \in Key, Deliver(a)
      PROVE  Idle(v) /\ (alias'[v] = alias[v] \/ Deliver(holder[v]))
  <2>1. Idle(v)
    BY <1>t, <1>2 DEF Deliver, QueueVersion, W!Enqueue, Idle
  <2>2. alias'[v] = (alias[v] /\ holder[v] # a)
    BY <1>2 DEF Deliver
  <2>3. alias'[v] = alias[v] \/ holder[v] = a
    BY <1>t, <2>2
  <2> QED BY <1>2, <2>1, <2>3
<1>3. ASSUME NEW a \in Key, HandleObject(a) PROVE Idle(v) /\ alias'[v] = alias[v]
  BY <1>3 DEF HandleObject, W!Enqueue, workVars, syncVars, Idle
<1>4. ASSUME NEW w \in Worker, w # v,
             \/ Work(w) \/ CallFails(w) \/ \E a \in Key : Dispatch(w, a)
      PROVE  Idle(v) /\ alias'[v] = alias[v]
  BY <1>4, OthersLeft
<1> QED BY <1>1, <1>2, <1>3, <1>4 DEF Next, Controller

LEMMA WorkerMoves ==
  ASSUME StepFacts, Undisturbed, Next, NEW v \in Worker
  PROVE  \/ Work(v) \/ \E a \in Key : Dispatch(v, a)
         \/ Idle(v) /\ (alias'[v] = alias[v] \/ Deliver(holder[v]))
BY WorkerActs, NothingLost

\* The object of a sync of an Astro that has a phase.
LEMMA UpdateFacts ==
  ASSUME StepFacts, CopiesGood, UpdatesCurrent, NEW w \in Worker, pc[w] \in UpdateCalls
  PROVE  \E a \in Key, o \in Astro, own \in Owner :
           /\ a = holder[w] /\ o = obj[w] /\ own = OwnerOf(a, o) /\ own = Self(w)
           /\ own.name = a /\ own.uid = o.uid /\ Alive(own)
           /\ server[a].deleting \/ Current(w, a, o)
           /\ Backed(own, o.status) /\ o.status.phase # "Unset" /\ ~o.deleting
           /\ CopyOK(a, o) /\ server[a].finalizer /\ server[a].status.phase # "Unset"
<1>1. pc[w] \in Calls \ {"unfinalize", "status", "stars", "service"}
  BY DEF Calls, UpdateCalls
<1>2. PICK a \in Key, o \in Astro, own \in Owner :
        /\ a = holder[w] /\ o = obj[w] /\ own = OwnerOf(a, o) /\ own = Self(w)
        /\ own.name = a /\ own.uid = o.uid
        /\ Alive(own) => Backed(own, o.status)
        /\ Recorded(a, o) /\ CopyOK(a, o) /\ ~o.deleting
  BY <1>1, MyCopy
<1>3. Alive(own) /\ (server[a].deleting \/ Current(w, a, o))
  <2>1. o \in Held(w)
    BY <1>2, AstroFields DEF Held
  <2> QED BY <1>2, <2>1 DEF UpdatesCurrent
<1>4. o.status.phase # "Unset"
  <2>1. obj[w].status.phase \in PhaseAt(pc[w])
    BY <1>1, FactTypes, HeldFacts
  <2> QED BY <1>1, <1>2, <2>1 DEF PhaseAt, UpdateCalls
<1>5. Exists(a) /\ server[a].status.phase # "Unset"
  BY <1>2, <1>3, <1>4 DEF Recorded, Alive
<1>6. server[a].finalizer
  BY <1>5, FactTypes DEF StoreInv, FinalizerBeforeStatus
<1> QED BY <1>2, <1>3, <1>4, <1>5, <1>6

\* Nothing but a deletion makes the object of a syncUpdate stale.
LEMMA UpdatesCurrentStep ==
  ASSUME StepFacts, CopiesGood, Undisturbed, InSync, UpdatesCurrent, Next
  PROVE  UpdatesCurrent'
<1> SUFFICES ASSUME NEW v \in Worker, NEW a \in Key, pc'[v] \in UpdateCalls, holder'[v] = a,
                    NEW o, o = obj'[v], o # Nothing
             PROVE  /\ Alive(OwnerOf(a, o))'
                    /\ server'[a].deleting \/ Current(v, a, o)'
  BY DEF UpdatesCurrent, Held
<1>1. CASE Work(v)
  <2>1. /\ pc[v] \in UpdateCalls /\ Same /\ holder' = holder /\ UNCHANGED astroVars
    BY <1>1, CallStep
  <2>2. o = obj[v] /\ a = holder[v]
    BY <2>1 DEF Same
  <2>3. Alive(OwnerOf(a, o)) /\ (server[a].deleting \/ Current(v, a, o))
    BY <2>1, <2>2, UpdateFacts
  <2> QED BY <2>1, <2>3 DEF Same, astroVars, Alive, Exists, Current, Fresh, OwnerOf
<1>2. ASSUME NEW b \in Key, Dispatch(v, b)
      PROVE  Alive(OwnerOf(a, o))' /\ Current(v, a, o)'
  <2>1. PICK phases : UpdateStart(v, b, phases)
    BY <1>2, MyParts DEF Dispatch, SyncGone, SyncDelete, SyncCreate, SyncInitialized, SyncWaited,
       SyncReady, SyncSettled, UpdateCalls
  <2>2. b = a
    BY <2>1, FactTypes DEF UpdateStart, Start, W!Take, HeldInv
  <2>3. o = cache[a] /\ alias'[v]
    BY <2>1, <2>2 DEF UpdateStart, Hold, StepFacts, CopyInv, CopyTypes
  <2>4. cache[a] # Nothing /\ watch[a] = << >> /\ UNCHANGED <<server, watch>>
    BY <2>1, <2>2 DEF UpdateStart, Start, Undisturbed, clusterVars
  <2>5. Exists(a) /\ o.uid = server[a].uid /\ o.rv = server[a].rv
    BY <2>3, <2>4 DEF InSync, LastSeen, SameVersion
  <2> QED BY <2>3, <2>4, <2>5 DEF Alive, OwnerOf, Current, Fresh, Exists
<1>3. CASE Idle(v) /\ (alias'[v] = alias[v] \/ Deliver(holder[v]))
  <2>1. pc[v] \in UpdateCalls /\ holder[v] = a /\ obj[v] = o
    BY <1>3 DEF Idle
  <2>2. PICK own \in Owner :
          /\ own = OwnerOf(a, o) /\ own.name = a /\ own.uid = o.uid
          /\ server[a].finalizer /\ Alive(own)
          /\ server[a].deleting \/ (Fresh(a, o) /\ alias[v] /\ watch[a] = << >>)
    BY <2>1, UpdateFacts DEF Current
  <2>3. watch[a] = << >> => alias'[v] = alias[v] /\ ~Deliver(a)
    BY <1>3, <2>1 DEF Deliver
  <2>4. CASE server'[a] = server[a] /\ (watch'[a] = watch[a] \/ Deliver(a))
    BY <2>2, <2>3, <2>4 DEF Alive, Exists, Fresh, Current, OwnerOf
  <2>5. ASSUME Touches(a)
        PROVE  Alive(OwnerOf(a, o))' /\ server'[a].deleting
    <3>1. CASE ByUser(a)
      BY <2>2, <3>1 DEF ByUser, Alive, Exists, OwnerOf
    <3>2. ASSUME NEW w \in Worker, BySync(w, a) PROVE FALSE
      <4>1. w = v
        BY <2>1, <3>2, FactTypes DEF BySync, HeldInv, HolderInv
      <4> QED BY <2>1, <3>2, <4>1 DEF BySync, UpdateCalls
    <3> QED BY <2>5, <3>1, <3>2 DEF Touches
  <2>6. ASSUME NEW b \in Key, Touches(b), b # a
        PROVE  server'[a] = server[a] /\ watch'[a] = watch[a]
    BY <2>6 DEF Touches, Writes
  <2> QED BY <2>4, <2>5, <2>6, Touching
<1> QED BY <1>1, <1>2, <1>3, WorkerMoves

\* Worker w launches a workflow.
Launches(w) == Work(w) /\ Launch(w) /\ engines' # engines

\* The engines that there are, and how often each has run, are changed by the
\* garbage collector and by two requests of syncUpdate.
LEMMA RunsMove ==
  ASSUME StepFacts, Next, NEW a \in Key, engines'[a] # Nothing
  PROVE  \/ /\ engines[a] # Nothing
            /\ engines'[a].owner = engines[a].owner /\ engines'[a].runs = engines[a].runs
         \/ engines'[a].runs = 0
         \/ \E w \in Worker : Launches(w)
<1>1. engines \in [Key -> Engine \cup {Nothing}]
  BY FactTypes DEF DependentTypes
<1>2. CASE engines' = engines
  BY <1>2
<1>3. ASSUME NEW b \in Key, engines[b] # Nothing, NEW p, engines' = [engines EXCEPT ![b].phase = p]
      PROVE  /\ engines[a] # Nothing
             /\ engines'[a].owner = engines[a].owner /\ engines'[a].runs = engines[a].runs
  <2>1. CASE a = b
    <3>1. engines[b] \in Engine /\ engines'[b] = [engines[b] EXCEPT !.phase = p]
      BY <1>1, <1>3
    <3> QED BY <1>3, <2>1, <3>1 DEF Engine
  <2>2. CASE a # b
    BY <1>1, <1>3, <2>2
  <2> QED BY <2>1, <2>2
<1>4. ASSUME NEW b \in Key, EngineSettles(b) \/ EngineLost(b)
      PROVE  engines[b] # Nothing /\ \E p : engines' = [engines EXCEPT ![b].phase = p]
  BY <1>4 DEF EngineSettles, EngineLost
<1>5. ASSUME NEW b \in Key, CollectEngine(b) PROVE engines'[a] = engines[a]
  BY <1>1, <1>5 DEF CollectEngine
<1>6. CASE Environment /\ UNCHANGED controllerVars
  BY <1>2, <1>3, <1>4, <1>5, <1>6
  DEF Environment, UserCreates, UserEdits, UserDeletes, CollectPort, DeploymentAvailable,
      DeploymentUnavailable, DeploymentReports, CollectDeployment, CollectService, dependentVars
<1>7. CASE Restart \/ \E b \in Key : Deliver(b) \/ HandleObject(b)
  BY <1>2, <1>7 DEF Restart, Deliver, HandleObject, dependentVars
<1>8. CASE \E w \in Worker, b \in Key : Dispatch(w, b)
  <2>1. UNCHANGED clusterVars
    BY <1>8 DEF Dispatch, SyncGone, SyncDelete, SyncCreate, SyncInitialized, SyncWaited, SyncReady,
       SyncSettled, UpdateStart, Start
  <2> QED BY <1>2, <2>1 DEF clusterVars
<1>9. ASSUME NEW w \in Worker, NewAstermule(w), engines' # engines
      PROVE  engines'[a] = engines[a] \/ engines'[a].runs = 0
  <2>1. PICK b : CreateEngine(b, Self(w), obj[w].status.serviceRef)
    BY <1>9 DEF NewAstermule, dependentVars
  <2> QED BY <1>1, <2>1 DEF CreateEngine
<1>10. ASSUME NEW w \in Worker, Work(w) \/ CallFails(w)
       PROVE  Launches(w) \/ NewAstermule(w) \/ engines' = engines
  BY <1>10 DEF Launches, Work, CallFails, NewDeployment, NewService, UpdateAstro, WriteStatus, RemoveFinalizer,
     CountDeployment, CountDone, ReadService, NewPort, ReadEngine, ReadEndpoint, Return, HandleErr,
     CreateDeployment, CreateService, CreatePort, Free, clusterVars, dependentVars
<1>11. CASE \E w \in Worker : Work(w) \/ CallFails(w)
  BY <1>2, <1>9, <1>10, <1>11
<1> QED BY <1>6, <1>7, <1>8, <1>11 DEF Next, Controller

\* The launch is that of the workflow of w's own Astro, and its first.
LEMMA FirstRun ==
  ASSUME External, StepFacts, CopiesGood, OnePort, UpdatesCurrent, NotYetRun,
         NEW w \in Worker, Launches(w)
  PROVE  \E a \in Key :
           /\ a = holder[w] /\ \A b \in Key \ {a} : engines'[b] = engines[b]
           /\ engines'[a] # Nothing /\ engines'[a].owner = Self(w) /\ engines'[a].runs = 1
<1>1. pc[w] = "launch" /\ pc[w] \in UpdateCalls /\ pc[w] \in Calls
  BY DEF Launches, Launch, UpdateCalls, Calls
<1>2. PICK a \in Key, o \in Astro, own \in Owner :
        /\ a = holder[w] /\ o = obj[w] /\ own = OwnerOf(a, o) /\ own = Self(w) /\ own.name = a
        /\ Backed(own, o.status)
  BY <1>1, UpdateFacts
<1>3. o.status.phase = "Ready"
  BY <1>1, <1>2, FactTypes, HeldFacts DEF PhaseAt
<1>4. ports[a] = own /\ own # Nothing /\ engines[a] # Nothing /\ engines[a].owner = own
  BY <1>2, <1>3, TypesAssumption DEF Backed, EngineBacked, OwnsEngine
<1>5. PICK b \in Target(w) : Running(b) /\ RunEngine(b)
  BY DEF Launches, Launch, dependentVars
<1>6. b = a
  BY <1>2, <1>4, <1>5 DEF Target, OnePort
<1>7. engines[a] \in Engine /\ engines \in [Key -> Engine \cup {Nothing}]
  BY <1>4, FactTypes DEF DependentTypes
<1>8. engines[a].runs = 0
  <2>1. o \in Held(w)
    BY <1>2, AstroFields DEF Held
  <2>2. ~RunFor(a, own)
    BY <1>1, <1>2, <2>1 DEF NotYetRun
  <2>3. ~(engines[a].runs > 0)
    BY <1>4, <2>2 DEF RunFor
  <2> QED BY <1>7, <2>3 DEF Engine, MaxRuns
<1>9. engines' = [engines EXCEPT ![a] = [engines[a] EXCEPT !.runs = 1]]
  BY <1>5, <1>6, <1>8 DEF RunEngine, MaxRuns
<1>10. engines'[a] = [engines[a] EXCEPT !.runs = 1]
  BY <1>7, <1>9
<1>11. /\ [engines[a] EXCEPT !.runs = 1].runs = 1
       /\ [engines[a] EXCEPT !.runs = 1].owner = own
       /\ [engines[a] EXCEPT !.runs = 1] \in Engine
  BY <1>4, <1>7 DEF Engine, MaxRuns
<1>12. engines'[a] # Nothing
  BY <1>10, <1>11, DependentsAssumption
<1>13. \A c \in Key \ {a} : engines'[c] = engines[c]
  BY <1>7, <1>9
<1> QED BY <1>2, <1>10, <1>11, <1>12, <1>13

\* A workflow that was launched now was launched by the sync of its Astro.
LEMMA RunStep ==
  ASSUME External, StepFacts, CopiesGood, OnePort, UpdatesCurrent, NotYetRun, Next,
         NEW a \in Key, NEW own, RunFor(a, own)'
  PROVE  \/ RunFor(a, own)
         \/ \E w \in Worker : Launches(w) /\ holder[w] = a /\ own = Self(w)
<1>1. engines'[a] # Nothing /\ engines'[a].owner = own /\ engines'[a].runs > 0
  BY DEF RunFor
<1>2. CASE \E w \in Worker : Launches(w)
  BY <1>1, <1>2, FirstRun DEF RunFor
<1>3. CASE \/ /\ engines[a] # Nothing
              /\ engines'[a].owner = engines[a].owner /\ engines'[a].runs = engines[a].runs
           \/ engines'[a].runs = 0
  BY <1>1, <1>3 DEF RunFor
<1> QED BY <1>1, <1>2, <1>3, RunsMove

\* A step that launches a workflow is the first to do so.
LEMMA LaunchedOnceStep ==
  ASSUME External, StepFacts, CopiesGood, OnePort, UpdatesCurrent, NotYetRun, LaunchedOnce, Next
  PROVE  LaunchedOnce'
<1> SUFFICES ASSUME NEW a \in Key, engines'[a] # Nothing PROVE engines'[a].runs <= 1
  BY DEF LaunchedOnce
<1>1. CASE \E w \in Worker : Launches(w)
  BY <1>1, FirstRun DEF LaunchedOnce
<1>2. CASE \/ /\ engines[a] # Nothing
              /\ engines'[a].owner = engines[a].owner /\ engines'[a].runs = engines[a].runs
           \/ engines'[a].runs = 0
  BY <1>2 DEF LaunchedOnce
<1> QED BY <1>1, <1>2, RunsMove

\* No workflow of an Astro was launched that syncCreate can still write to.
LEMMA NoRunYet ==
  ASSUME StepFacts, CopiesGood, EnginesGood, NEW w \in Worker, pc[w] = "stars",
         Fresh(holder[w], obj[w])
  PROVE  ~RunFor(holder[w], Self(w))
<1>1. pc[w] \in Calls
  BY DEF Calls
<1>2. PICK a \in Key, o \in Astro, own \in Owner :
        /\ a = holder[w] /\ o = obj[w] /\ own = Self(w) /\ own.name = a /\ own.uid = o.uid
        /\ CopyOK(a, o)
  BY <1>1, MyCopy
<1>3. o.status.phase = "Unset"
  BY <1>1, <1>2, FactTypes, HeldFacts DEF PhaseAt
<1>4. Exists(a) /\ server[a] \in Astro /\ Alive(own)
  BY <1>2, FactTypes DEF Fresh, Exists, Alive
<1>5. server[a].status.phase = "Unset"
  <2>1. server[a].status.phase \in Phase
    BY <1>4, AstroFields
  <2>2. "Unset" \in Later[server[a].status.phase]
    BY <1>2, <1>3 DEF CopyOK, Fresh
  <2> QED BY <2>1, <2>2, LaterFacts
<1> QED BY <1>2, <1>4, <1>5 DEF EnginesGood, RunFor

\* Before a sync has a result, neither the store nor its own object has one.
LEMMA NoRunBefore ==
  ASSUME StepFacts, CopiesGood, UpdatesCurrent, LaunchKnown,
         NEW w \in Worker, pc[w] \in UpdateCalls, Fresh(holder[w], obj[w])
  PROVE  ~RunFor(holder[w], Self(w))
<1>1. pc[w] \in Calls
  BY DEF Calls, UpdateCalls
<1>2. PICK a \in Key, o \in Astro, own \in Owner :
        /\ a = holder[w] /\ o = obj[w] /\ own = OwnerOf(a, o) /\ own = Self(w)
        /\ server[a].deleting \/ Current(w, a, o)
        /\ ~o.deleting /\ CopyOK(a, o)
  BY UpdateFacts
<1>3. Fresh(a, o) /\ Exists(a) /\ server[a] \in Astro
  BY <1>2, FactTypes DEF Fresh, Exists
<1>4. /\ ~server[a].deleting /\ o.status.phase \in Later[server[a].status.phase]
      /\ own = OwnerOf(a, server[a])
  BY <1>2, <1>3 DEF CopyOK, Fresh, OwnerOf
<1>5. o.status.phase \notin Result
  <2>1. o.status.phase \in PhaseAt(pc[w])
    BY <1>1, <1>2, FactTypes, HeldFacts
  <2> QED BY <2>1 DEF PhaseAt, UpdateCalls, Result
<1>6. server[a].status.phase \notin Result
  BY <1>4, <1>5 DEF Later, Result, Phase
<1>7. cache[a] = o
  BY <1>2, <1>4, FactTypes DEF Current, HeldInv, HolderInv
<1>8. server[a] \in Stored(a)
  BY <1>3, AstroFields DEF Stored
<1> QED BY <1>2, <1>4, <1>5, <1>6, <1>7, <1>8 DEF LaunchKnown

\* No sync gets to the launch of a workflow that was launched: the dispatch of an
\* Astro that is Ready reads the object that the launch would have changed.
LEMMA NotYetRunStep ==
  ASSUME External, StepFacts, CopiesGood, OnePort, Undisturbed, InSync, UpdatesCurrent, NotYetRun,
         LaunchKnown, Next
  PROVE  NotYetRun'
<1> SUFFICES ASSUME NEW v \in Worker, NEW a \in Key, pc'[v] \in {"read-endpoint", "launch"},
                    holder'[v] = a, NEW o, o = obj'[v], o # Nothing
             PROVE  ~RunFor(a, OwnerOf(a, o))'
  BY DEF NotYetRun, Held
<1>1. CASE Work(v)
  <2>1. /\ Same /\ holder' = holder /\ pc[v] = "read-endpoint" /\ UNCHANGED engines
    BY <1>1, CallStep DEF UpdateCalls
  <2>2. o \in Held(v) /\ a = holder[v]
    BY <2>1 DEF Same, Held
  <2>3. ~RunFor(a, OwnerOf(a, o))
    BY <2>1, <2>2 DEF NotYetRun
  <2> QED BY <2>1, <2>3 DEF RunFor, OwnerOf
<1>2. ASSUME NEW b \in Key, Dispatch(v, b)
      PROVE  ~RunFor(a, OwnerOf(a, o))'
  <2>1. SyncReady(v, b)
    BY <1>2, MyParts DEF Dispatch, SyncGone, SyncDelete, SyncCreate, SyncInitialized, SyncWaited,
       SyncReady, SyncSettled
  <2>2. b = a
    BY <2>1, FactTypes DEF SyncReady, UpdateStart, Start, W!Take, HeldInv
  <2>3. o = cache[a]
    BY <2>1, <2>2 DEF SyncReady, UpdateStart, Hold, StepFacts, CopyInv, CopyTypes
  <2>4. /\ cache[a] # Nothing /\ watch[a] = << >> /\ UNCHANGED engines
        /\ ~o.deleting /\ o.status.phase = "Ready"
    BY <2>1, <2>2, <2>3 DEF SyncReady, UpdateStart, Start, Undisturbed, clusterVars
  <2>5. Exists(a) /\ o.uid = server[a].uid /\ o.rv = server[a].rv /\ o.deleting = server[a].deleting
    BY <2>3, <2>4 DEF InSync, LastSeen, SameVersion
  <2>6. /\ server[a] \in Stored(a) /\ server[a] \in Astro /\ CopyOK(a, o)
    BY <2>3, <2>4, <2>5, FactTypes DEF Stored, Exists, HeldInv
  <2>7. server[a].status.phase \notin Result
    BY <2>4, <2>5, <2>6 DEF CopyOK, Later, Result, Phase
  <2>8. ~RunFor(a, OwnerOf(a, server[a]))
    BY <2>3, <2>4, <2>5, <2>6, <2>7 DEF LaunchKnown, Result
  <2> QED BY <2>4, <2>5, <2>8 DEF RunFor, OwnerOf
<1>3. CASE Idle(v) /\ ~Work(v)
  <2>1. /\ pc[v] \in {"read-endpoint", "launch"} /\ holder[v] = a /\ obj[v] = o
        /\ o \in Held(v)
    BY <1>3 DEF Idle, Held
  <2>2. ~RunFor(a, OwnerOf(a, o))
    BY <2>1 DEF NotYetRun
  <2>3. ASSUME NEW w \in Worker, Launches(w), holder[w] = a PROVE FALSE
    <3>1. w = v
      BY <2>1, <2>3, FactTypes, ControllerAssumption DEF HeldInv, HolderInv
    <3> QED BY <1>3, <2>3, <3>1 DEF Launches
  <2>4. ASSUME NEW own, own = OwnerOf(a, o) PROVE ~RunFor(a, own)'
    BY <2>2, <2>3, <2>4, RunStep
  <2> QED BY <2>4 DEF OwnerOf
<1> QED BY <1>1, <1>2, <1>3, WorkerMoves

\* A sync that can still write its status knows of the launch.
LEMMA WrittenResultStep ==
  ASSUME External, StepFacts, CopiesGood, EnginesGood, OnePort, Undisturbed, UpdatesCurrent, NotYetRun,
         WrittenResult, LaunchKnown, Next
  PROVE  WrittenResult'
<1> SUFFICES ASSUME NEW v \in Worker, NEW a \in Key, pc'[v] = "status", holder'[v] = a,
                    NEW o, o = obj'[v], o # Nothing, Fresh(a, o)', RunFor(a, OwnerOf(a, o))'
             PROVE  o.status.phase \in Result
  BY DEF WrittenResult, Held
<1>1. CASE Work(v)
  <2>1. CASE UpdateAstro(v) /\ Update(holder[v], obj[v])
    <3>1. /\ pc[v] = "stars" /\ holder' = holder /\ UNCHANGED engines /\ Fresh(a, obj[v])
      BY <2>1 DEF UpdateAstro, workVars, dependentVars, Update
    <3>2. o.uid = obj[v].uid
      <4>1. o.uid = server'[a].uid /\ obj[v].uid = server[a].uid /\ Exists(a)'
        BY <3>1 DEF Fresh
      <4>2. ASSUME Touches(a) PROVE server'[a].uid = server[a].uid
        BY <3>1, <4>1, <4>2 DEF Touches, ByUser, BySync, controllerVars, syncVars
      <4>3. ASSUME NEW b \in Key, Touches(b), b # a PROVE server'[a] = server[a]
        BY <4>3 DEF Touches, Writes
      <4> QED BY <4>1, <4>2, <4>3, Touching
    <3> QED BY <3>1, <3>2, NoRunYet DEF RunFor, OwnerOf, Self
  <2>2. CASE /\ pc[v] \in UpdateCalls /\ holder' = holder /\ UNCHANGED astroVars
             /\ \E s : /\ Assign(v, [obj[v] EXCEPT !.status = s])
                       /\ pc[v] = "launch" => Launch(v) /\ s.phase \in Result
                       /\ pc[v] # "launch" => UNCHANGED engines
    <3>1. PICK s : /\ Assign(v, [obj[v] EXCEPT !.status = s])
                   /\ pc[v] = "launch" => Launch(v) /\ s.phase \in Result
                   /\ pc[v] # "launch" => UNCHANGED engines
      BY <2>2
    <3>2. PICK c \in Astro, own \in Owner : c = obj[v] /\ a = holder[v] /\ own = OwnerOf(a, c)
                                            /\ own = Self(v) /\ own.uid = c.uid
      BY <2>2, UpdateFacts
    <3>3. o = [c EXCEPT !.status = s]
      BY <3>1, <3>2 DEF Assign, StepFacts, CopyInv, CopyTypes
    <3>4. o.uid = c.uid /\ o.rv = c.rv /\ o.status = s
      BY <3>3 DEF Astro
    <3>5. Fresh(a, c) /\ OwnerOf(a, o) = own
      BY <2>2, <3>2, <3>4 DEF Fresh, Exists, astroVars, OwnerOf
    <3>6. ~RunFor(a, own)
      BY <2>2, <3>2, <3>5, NoRunBefore
    <3>7. CASE pc[v] = "launch"
      BY <3>1, <3>4, <3>7
    <3>8. CASE pc[v] # "launch"
      BY <3>1, <3>5, <3>6, <3>8 DEF RunFor
    <3> QED BY <3>7, <3>8
  <2> QED BY <1>1, <2>1, <2>2, StatusStep
<1>2. ASSUME NEW b \in Key, Dispatch(v, b) PROVE FALSE
  BY <1>2, MyParts DEF Dispatch, SyncGone, SyncDelete, SyncCreate, SyncInitialized, SyncWaited,
     SyncReady, SyncSettled
<1>3. CASE Idle(v) /\ ~Work(v)
  <2>1. pc[v] = "status" /\ holder[v] = a /\ obj[v] = o /\ o \in Held(v)
    BY <1>3 DEF Idle, Held
  <2>2. ASSUME NEW w \in Worker, Launches(w), holder[w] = a PROVE FALSE
    <3>1. w = v
      BY <2>1, <2>2, FactTypes, ControllerAssumption DEF HeldInv, HolderInv
    <3> QED BY <1>3, <2>2, <3>1 DEF Launches
  <2>3. RunFor(a, OwnerOf(a, o))
    <3>1. ASSUME NEW own, own = OwnerOf(a, o) PROVE RunFor(a, own)
      BY <2>2, <3>1, RunStep
    <3> QED BY <3>1 DEF OwnerOf
  <2>4. Fresh(a, o)
    <3>1. CASE server'[a] = server[a]
      BY <3>1 DEF Fresh, Exists
    <3>2. CASE Touches(a)
      <4>1. o.rv = rev[a] + 1
        BY <3>2 DEF Touches, Writes, Fresh
      <4>2. o.rv <= rev[a] /\ o.rv \in Nat /\ rev[a] \in Nat
        BY <2>1, FactTypes, AstroFields DEF HeldInv, CopyOK
      <4> QED BY <4>1, <4>2
    <3>3. ASSUME NEW b \in Key, Touches(b), b # a PROVE server'[a] = server[a]
      BY <3>3 DEF Touches, Writes
    <3> QED BY <3>1, <3>2, <3>3, Touching
  <2> QED BY <2>1, <2>3, <2>4 DEF WrittenResult
<1> QED BY <1>1, <1>2, <1>3, WorkerMoves

\* Where a workflow is launched the cached object gets the result.
LEMMA LaunchSeen ==
  ASSUME StepFacts, CopiesGood, Undisturbed, UpdatesCurrent, NEW w \in Worker, Launches(w)
  PROVE  \E a \in Key :
           /\ a = holder[w] /\ UNCHANGED astroVars
           /\ \/ server[a].deleting
              \/ watch[a] = << >> /\ cache'[a] # Nothing /\ cache'[a].status.phase \in Result
<1>1. pc[w] = "launch" /\ pc[w] \in UpdateCalls /\ pc[w] \in Calls /\ UNCHANGED astroVars
  BY DEF Launches, Launch, UpdateCalls, Calls
<1>2. PICK a \in Key, o \in Astro :
        /\ a = holder[w] /\ o = obj[w]
        /\ server[a].deleting \/ Current(w, a, o)
  BY <1>1, UpdateFacts
<1>3. CASE server[a].deleting
  BY <1>1, <1>2, <1>3
<1>4. CASE Current(w, a, o)
  <2>1. PICK p \in Reported : SyncStatus(w, [o.status EXCEPT !.phase = p])
    BY <1>2, NothingLost DEF Launches, Launch, dependentVars
  <2>2. p \in Phase /\ p \in Result /\ o.status \in Status
    BY <2>1, AstroFields DEF Reported, Result, Phase
  <2>3. PICK s \in Status : s = [o.status EXCEPT !.phase = p] /\ s.phase = p
    BY <2>2, StatusOfPhase
  <2>4. s # o.status
    <3>1. o.status.phase = "Ready"
      BY <1>1, <1>2, FactTypes, HeldFacts DEF PhaseAt
    <3> QED BY <2>2, <2>3, <3>1 DEF Result
  <2>5. PICK d \in Astro : d = [o EXCEPT !.status = s] /\ d.status = s
    BY NewStatus
  <2>6. cache' = [cache EXCEPT ![a] = d]
    BY <1>2, <1>4, <2>1, <2>3, <2>4, <2>5 DEF SyncStatus, Assign, Current
  <2>7. cache'[a] = d
    BY <2>6, FactTypes DEF HeldInv
  <2>8. d # Nothing /\ d.status.phase \in Result
    BY <2>2, <2>3, <2>5, AstroFields
  <2> QED BY <1>1, <1>2, <1>4, <2>7, <2>8 DEF Current
<1> QED BY <1>2, <1>3, <1>4

\* Nobody loses the knowledge of the launch: it is in the cached object until the
\* store has it.
LEMMA LaunchKnownStep ==
  ASSUME External, StepFacts, CopiesGood, EnginesGood, OnePort, Undisturbed, UpdatesCurrent, NotYetRun,
         WrittenResult, LaunchKnown, Next
  PROVE  LaunchKnown'
<1> SUFFICES ASSUME NEW a \in Key, NEW s \in Astro, s = server'[a], RunFor(a, OwnerOf(a, s))'
             PROVE  \/ s.deleting
                    \/ s.status.phase \in Result
                    \/ watch'[a] = << >> /\ cache'[a] # Nothing /\ cache'[a].status.phase \in Result
  BY FactTypes DEF LaunchKnown, Stored
<1>1. PICK own \in Owner : own = OwnerOf(a, s) /\ own.name = a /\ own.uid = s.uid
  BY OwnerOfCopy
<1>2. RunFor(a, own)'
  BY <1>1
<1>3. ASSUME NEW w \in Worker, Launches(w), holder[w] = a
      PROVE  \/ s.deleting
             \/ watch'[a] = << >> /\ cache'[a] # Nothing /\ cache'[a].status.phase \in Result
  BY <1>3, LaunchSeen DEF astroVars
<1>4. CASE RunFor(a, own) /\ server'[a] = server[a] /\ (watch'[a] = watch[a] \/ Deliver(a))
  <2>1. s \in Stored(a)
    BY <1>4, AstroFields DEF Stored
  <2>2. CASE s.deleting \/ s.status.phase \in Result
    BY <2>2
  <2>3. CASE watch[a] = << >> /\ cache[a] # Nothing /\ cache[a].status.phase \in Result
    <3>1. ~Deliver(a) /\ watch'[a] = << >>
      BY <1>4, <2>3 DEF Deliver
    <3>2. cache'[a] = cache[a] \/ SameCopy(cache'[a], cache[a])
      BY <3>1, CacheStep, NothingLost
    <3> QED BY <2>3, <3>1, <3>2, AstroFields DEF SameCopy
  <2> QED BY <1>1, <1>4, <2>1, <2>2, <2>3 DEF LaunchKnown
<1>5. CASE RunFor(a, own) /\ Touches(a)
  <2>1. CASE ByUser(a)
    <3>1. s # Nothing
      BY AstroFields
    <3>2. CASE s.uid = rev[a] + 1
      <4>1. own.uid <= rev[a] /\ own.uid \in Nat /\ rev[a] \in Nat
        BY <1>1, <1>5, FactTypes DEF RunFor, EnginesGood, Owner
      <4> QED BY <1>1, <3>2, <4>1
    <3> QED BY <2>1, <3>1, <3>2 DEF ByUser, Exists
  <2>2. ASSUME NEW w \in Worker, BySync(w, a) PROVE s.deleting \/ s.status.phase \in Result
    <3>1. PICK c \in Astro :
            /\ c = obj[w] /\ holder[w] = a /\ Fresh(a, c) /\ c \in Held(w)
            /\ s.uid = server[a].uid
            /\ pc[w] \in {"stars", "status"}
            /\ pc[w] = "status" => s.status = c.status
      <4>1. /\ holder[w] = a /\ Fresh(a, obj[w]) /\ s # Nothing
            /\ pc[w] \in {"stars", "status"} /\ s.uid = server[a].uid
            /\ pc[w] = "status" => s.status = obj[w].status
        BY <2>2, AstroFields DEF BySync, Exists
      <4>2. obj[w] \in Astro
        BY <4>1, FactTypes, HeldFacts DEF Calls
      <4> QED BY <4>1, <4>2, AstroFields DEF Held
    <3>2. own = OwnerOf(a, c) /\ own = Self(w)
      BY <1>1, <3>1 DEF Fresh, OwnerOf, Self
    <3>3. CASE pc[w] = "stars"
      BY <1>5, <3>1, <3>2, <3>3, NoRunYet
    <3>4. CASE pc[w] = "status"
      BY <1>5, <3>1, <3>2, <3>4 DEF WrittenResult
    <3> QED BY <3>1, <3>3, <3>4
  <2> QED BY <1>5, <2>1, <2>2 DEF Touches
<1>6. ASSUME NEW b \in Key, Touches(b), b # a
      PROVE  server'[a] = server[a] /\ watch'[a] = watch[a]
  BY <1>6 DEF Touches, Writes
<1>7. RunFor(a, own) \/ \E w \in Worker : Launches(w) /\ holder[w] = a
  BY <1>2, RunStep
<1> QED BY <1>3, <1>4, <1>5, <1>6, <1>7, Touching

UndisturbedBudget == Budget["edits"] = 0 /\ Budget["faults"] = 0 /\ Budget["crashes"] = 0

\* Initially there is nothing.
LEMMA InitOnce ==
  ASSUME External, PromptWatch, UndisturbedBudget, Init
  PROVE  OnceInv
<1>1. /\ server = [a \in Key |-> Nothing] /\ watch = [a \in Key |-> << >>]
      /\ engines = [a \in Key |-> Nothing] /\ cache = [a \in Key |-> Nothing]
      /\ pc = [w \in Worker |-> "free"] /\ budget = Budget
  BY DEF Init, ClusterInit, ControllerInit
<1>2. Undisturbed
  BY <1>1 DEF Undisturbed, UndisturbedBudget
<1>3. InSync
  BY <1>1 DEF InSync, LastSeen, Exists
<1>4. UpdatesCurrent /\ NotYetRun /\ WrittenResult
  BY <1>1 DEF UpdatesCurrent, NotYetRun, WrittenResult, UpdateCalls
<1>5. LaunchKnown /\ LaunchedOnce
  BY <1>1 DEF LaunchKnown, LaunchedOnce, Stored
<1> QED BY <1>2, <1>3, <1>4, <1>5 DEF OnceInv

LEMMA FrameOnce == ASSUME OnceInv, UNCHANGED vars PROVE OnceInv'
<1>1. /\ UNCHANGED <<server, watch, engines, budget>>
      /\ UNCHANGED <<cache, holder, pc, obj, alias>>
  BY DEF vars, clusterVars, controllerVars, workVars, syncVars
<1>2. Undisturbed' /\ InSync' /\ LaunchedOnce'
  BY <1>1 DEF OnceInv, Undisturbed, InSync, LastSeen, Exists, SameVersion, LaunchedOnce
<1>3. /\ \A a, o : Fresh(a, o)' = Fresh(a, o)
      /\ \A own : Alive(own)' = Alive(own)
      /\ \A a, own : RunFor(a, own)' = RunFor(a, own)
      /\ \A w : Held(w)' = Held(w)
      /\ \A a : Stored(a)' = Stored(a)
  BY <1>1 DEF Fresh, Exists, Alive, RunFor, Held, Stored
<1>4. \A w, a, o : Current(w, a, o)' = Current(w, a, o)
  BY <1>1, <1>3 DEF Current
<1>5. UpdatesCurrent' /\ NotYetRun' /\ WrittenResult' /\ LaunchKnown'
  BY <1>1, <1>3, <1>4 DEF OnceInv, UpdatesCurrent, NotYetRun, WrittenResult, LaunchKnown
<1> QED BY <1>2, <1>5 DEF OnceInv

\* OnceInv is inductive, together with the two invariants it rests on.
LEMMA StepOnce == IInv /\ DependInv /\ OnceInv /\ [Next]_vars => OnceInv'
<1> SUFFICES ASSUME IInv, DependInv, OnceInv, [Next]_vars PROVE OnceInv'
  OBVIOUS
<1>1. CASE Next
  <2>1. StepFacts /\ CopiesGood /\ EnginesGood /\ OnePort
    BY <1>1, InvParts, NextFacts DEF DependInv
  <2>2. /\ Undisturbed /\ InSync /\ UpdatesCurrent /\ NotYetRun /\ WrittenResult /\ LaunchKnown
        /\ LaunchedOnce /\ External
    BY DEF OnceInv, Undisturbed
  <2>3. Undisturbed' /\ InSync' /\ UpdatesCurrent'
    BY <1>1, <2>1, <2>2, UndisturbedStep, InSyncStep, UpdatesCurrentStep
  <2>4. NotYetRun' /\ WrittenResult'
    BY <1>1, <2>1, <2>2, NotYetRunStep, WrittenResultStep
  <2>5. LaunchKnown' /\ LaunchedOnce'
    BY <1>1, <2>1, <2>2, LaunchKnownStep, LaunchedOnceStep
  <2> QED BY <2>3, <2>4, <2>5 DEF OnceInv
<1>2. CASE UNCHANGED vars
  BY <1>2, FrameOnce
<1> QED BY <1>1, <1>2

\* The launch of a workflow, in external mode, is not repeated by a sync of an object
\* that still says Ready: as long as a sync starts only when the watch has caught up,
\* nobody edits an Astro, no request or reply is lost and the process is not started
\* again. Any number of Astros, workers, creations, deletions, failing Deployments
\* and lost pods may come between.
THEOREM OneLaunch ==
  ASSUME External, PromptWatch, UndisturbedBudget
  PROVE  Spec => []LaunchedOnce
<1>1. Init => IInv /\ DependInv /\ OnceInv
  BY InitInv, InitDepend, InitOnce
<1>2. IInv /\ DependInv /\ OnceInv /\ [Next]_vars => (IInv /\ DependInv /\ OnceInv)'
  BY StepInv, StepDepend, StepOnce
<1>3. OnceInv => LaunchedOnce
  BY DEF OnceInv
<1> QED BY <1>1, <1>2, <1>3, PTL DEF Spec

-----------------------------------------------------------------------------
(* A deletion is not forgotten: RememberInv is kept *)

\* The budget is only spent, and an answer that is lost spends it.
LEMMA FaultsStep ==
  ASSUME StepFacts, Next
  PROVE  /\ budget'["faults"] \in Nat /\ budget'["faults"] <= budget["faults"]
         /\ budget["faults"] \in Nat
         /\ \A w \in Worker : CallFails(w) => budget'["faults"] < budget["faults"]
<1>t. budget \in [Spending -> Nat] /\ "faults" \in Spending
  BY FactTypes DEF DependentTypes, Spending
<1>1. ASSUME NEW what \in Spending, Spend(what)
      PROVE  /\ budget'["faults"] \in Nat /\ budget'["faults"] <= budget["faults"]
             /\ what = "faults" => budget'["faults"] < budget["faults"]
  <2>1. budget' = [budget EXCEPT ![what] = @ - 1, !["total"] = @ - 1] /\ budget[what] > 0
    BY <1>1 DEF Spend
  <2>2. CASE what = "faults"
    <3>1. budget'["faults"] = budget["faults"] - 1
      BY <1>t, <2>1, <2>2
    <3> QED BY <1>t, <2>1, <2>2, <3>1
  <2>3. CASE what # "faults"
    <3>1. budget'["faults"] = budget["faults"]
      BY <1>t, <2>1, <2>3
    <3> QED BY <1>t, <2>3, <3>1
  <2> QED BY <2>2, <2>3
<1>2. UNCHANGED budget \/ \E what \in Spending : Spend(what)
  <2>1. {"creates", "edits", "deletes", "flaps", "losses", "faults", "crashes"} \subseteq Spending
    BY DEF Spending
  <2>2. CASE Environment
    BY <2>1, <2>2 DEF Environment, UserCreates, UserEdits, UserDeletes, EngineSettles, EngineLost,
       CollectEngine, CollectPort, DeploymentAvailable, DeploymentUnavailable, DeploymentReports,
       CollectDeployment, CollectService
  <2>3. CASE Restart
    BY <2>1, <2>3 DEF Restart
  <2>4. CASE \E a \in Key : Deliver(a) \/ HandleObject(a)
    BY <2>4 DEF Deliver, HandleObject
  <2>5. ASSUME NEW w \in Worker, NEW a \in Key, Dispatch(w, a) PROVE UNCHANGED budget
    <3>1. UNCHANGED clusterVars
      BY <2>5 DEF Dispatch, SyncGone, SyncDelete, SyncCreate, SyncInitialized, SyncWaited,
         SyncReady, SyncSettled, UpdateStart, Start
    <3> QED BY <3>1 DEF clusterVars
  <2>6. ASSUME NEW w \in Worker, Work(w) \/ CallFails(w)
        PROVE  UNCHANGED budget \/ Spend("faults")
    BY <2>6 DEF Work, CallFails, NewDeployment, NewService, UpdateAstro, WriteStatus,
       RemoveFinalizer, CountDeployment, CountDone, ReadService, NewAstermule, NewPort, ReadEngine,
       ReadEndpoint, Launch, Return, HandleErr, Free, ReplyLost, clusterVars
  <2> QED BY <2>1, <2>2, <2>3, <2>4, <2>5, <2>6 DEF Next, Controller
<1>3. \A w \in Worker : CallFails(w) => Spend("faults")
  BY DEF CallFails, ReplyLost
<1>4. budget["faults"] \in Nat
  BY <1>t
<1> QED BY <1>t, <1>1, <1>2, <1>3, <1>4

\* While the limit of lost requests is not touched, no request is lost.
LEMMA NoCallFails ==
  ASSUME StepFacts, Next, budget["faults"] <= Budget["faults"],
         budget'["faults"] = Budget["faults"]
  PROVE  budget["faults"] = Budget["faults"] /\ \A w \in Worker : ~CallFails(w)
<1>1. "faults" \in Spending
  BY DEF Spending
<1>2. Budget["faults"] \in Nat
  BY <1>1, BudgetAssumption
<1> QED BY <1>2, FaultsStep

\* Only a worker that starts on a key makes it no longer due.
LEMMA TakenByDispatch ==
  ASSUME StepFacts, Next, NEW a \in Key, a \in pending, a \notin pending'
  PROVE  Restart \/ \E w \in Worker : Dispatch(w, a)
<1>1. CASE Environment /\ UNCHANGED controllerVars
  BY <1>1 DEF controllerVars, workVars
<1>2. ASSUME NEW b \in Key, Deliver(b) \/ HandleObject(b) PROVE FALSE
  BY <1>2 DEF Deliver, HandleObject, QueueVersion, W!Enqueue, workVars
<1>3. ASSUME NEW w \in Worker, NEW b \in Key, Dispatch(w, b) PROVE b = a
  <2>1. W!Take(w, b)
    BY <1>3, DispatchFrame DEF StepFacts
  <2> QED BY <2>1 DEF W!Take
<1>4. ASSUME NEW w \in Worker, Work(w) \/ CallFails(w) PROVE FALSE
  <2>1. CASE Return(w) \/ HandleErr(w)
    BY <2>1 DEF Return, HandleErr, W!Succeed, W!Retry, W!Drop
  <2>2. CASE NewAstermule(w) \/ NewPort(w) \/ ReadEngine(w)
    BY <2>2 DEF NewAstermule, NewPort, ReadEngine, AstermuleStarted, StillWaited, W!Enqueue, workVars
  <2>3. CASE \/ NewDeployment(w) \/ NewService(w) \/ UpdateAstro(w) \/ WriteStatus(w)
             \/ RemoveFinalizer(w) \/ CallFails(w) \/ CountDeployment(w) \/ CountDone(w)
             \/ ReadService(w) \/ ReadEndpoint(w) \/ Launch(w)
    BY <2>3 DEF NewDeployment, NewService, UpdateAstro, WriteStatus, RemoveFinalizer, CallFails,
       CountDeployment, CountDone, ReadService, ReadEndpoint, Launch, workVars
  <2> QED BY <1>4, <2>1, <2>2, <2>3 DEF Work
<1> QED BY <1>1, <1>2, <1>3, <1>4 DEF Next, Controller

\* A sync of a deleted Astro that starts when the watch has caught up works on the
\* stored version.
LEMMA DeletionTaken ==
  ASSUME StepFacts, InSync, NEW w \in Worker, NEW a \in Key, Dispatch(w, a),
         Exists(a), server[a].deleting, watch[a] = << >>
  PROVE  holder'[w] = a /\ pc'[w] = "unfinalize" /\ Fresh(a, obj[w])'
<1>1. SameVersion(cache[a], server[a])
  BY DEF InSync, LastSeen
<1>2. SyncDelete(w, a)
  BY <1>1 DEF SameVersion, Dispatch, SyncGone, SyncCreate, SyncInitialized, SyncWaited, SyncReady,
     SyncSettled, UpdateStart
<1>3. PICK d \in Astro : /\ d = [cache[a] EXCEPT !.finalizer = FALSE]
                         /\ d.uid = cache[a].uid /\ d.rv = cache[a].rv
  <2>1. cache[a] \in Astro
    BY <1>1, FactTypes DEF HeldInv, SameVersion
  <2> QED BY <2>1, NewFinalizer
<1>4. /\ obj' = [obj EXCEPT ![w] = d] /\ pc' = [pc EXCEPT ![w] = "unfinalize"]
      /\ UNCHANGED clusterVars
  BY <1>2, <1>3 DEF SyncDelete, Hold, GoTo, Start
<1>5. obj'[w] = d /\ pc'[w] = "unfinalize" /\ server' = server
  BY <1>4, FactTypes DEF HeldInv, clusterVars
<1>6. holder'[w] = a
  BY DispatchFrame, FactTypes DEF StepFacts, W!Take, HeldInv
<1> QED BY <1>1, <1>3, <1>5, <1>6 DEF SameVersion, Fresh, Exists

\* The watch is longer when it was told of something.
LEMMA ToldIsNew ==
  ASSUME StepFacts, NEW a \in Key, watch'[a] = Append(watch[a], server'[a])
  PROVE  watch'[a] # watch[a] /\ watch'[a] # << >>
<1>1. PICK s \in Seq(Astro \cup {Nothing}), e \in Astro \cup {Nothing} :
        s = watch[a] /\ e = server'[a]
  BY FactTypes DEF StoreInv
<1>2. Len(Append(s, e)) = Len(s) + 1
  BY AppendProperties
<1>3. PICK n \in Nat : n = Len(s)
  OBVIOUS
<1>4. Len(Append(s, e)) # 0 /\ Len(Append(s, e)) # Len(s)
  BY <1>2, <1>3
<1> QED BY <1>1, <1>4

\* The watch is told of what a worker writes.
LEMMA RequestTells ==
  ASSUME StepFacts, NEW w \in Worker, pc[w] \in Calls, NEW a \in Key, a = holder[w],
         Update(a, obj[w]) \/ UpdateStatus(a, obj[w])
  PROVE  watch'[a] = Append(watch[a], server'[a])
<1>t. StoreInv /\ HeldInv
  BY FactTypes
<1>1. PICK o \in Astro : o = obj[w] /\ o.finalizer \in BOOLEAN /\ o.status \in Status
  BY <1>t, HeldFacts, AstroFields
<1>2. PICK s \in Astro : s = server[a]
  BY <1>t, <1>1 DEF Update, UpdateStatus, Fresh, Exists, StoreInv
<1>3. CASE Remove(a)
  BY <1>t, <1>3, RemoveWrites DEF Writes
<1>4. CASE Store(a, [server[a] EXCEPT !.finalizer = o.finalizer])
  <2>1. PICK v \in Astro : v = [s EXCEPT !.finalizer = o.finalizer]
    BY <1>1, NewFinalizer
  <2>2. Store(a, v)
    BY <1>2, <1>4, <2>1
  <2> QED BY <1>t, <2>2, StoreWrites DEF Writes
<1>5. CASE Store(a, [server[a] EXCEPT !.status = o.status])
  <2>1. PICK v \in Astro : v = [s EXCEPT !.status = o.status]
    BY <1>1, NewStatus
  <2>2. Store(a, v)
    BY <1>2, <1>5, <2>1
  <2> QED BY <1>t, <2>2, StoreWrites DEF Writes
<1> QED BY <1>1, <1>3, <1>4, <1>5 DEF Update, UpdateStatus

\* A worker about to remove the finalizer or to write the status of the stored version
\* is there until the server has its answer.
LEMMA RequestSent ==
  ASSUME StepFacts, Next, ~Restart, NEW w \in Worker, ~CallFails(w), NEW a \in Key,
         holder[w] = a, pc[w] \in {"unfinalize", "status"}, Fresh(a, obj[w]),
         server'[a] = server[a], watch'[a] = watch[a]
  PROVE  holder'[w] = a /\ pc'[w] = pc[w] /\ Fresh(a, obj[w])'
<1>1. CASE Idle(w)
  BY <1>1 DEF Idle, Fresh, Exists
<1>2. CASE \E b \in Key : Dispatch(w, b)
  <2>1. holder[w] = NoKey
    BY <1>2, DispatchFrame DEF StepFacts, W!Take
  <2> QED BY <2>1, ControllerAssumption
<1>3. CASE Work(w)
  <2>1. RemoveFinalizer(w) \/ WriteStatus(w)
    BY <1>3 DEF Work, NewDeployment, NewService, UpdateAstro, CountDeployment,
       CountDone, ReadService, NewAstermule, NewPort, ReadEngine, ReadEndpoint, Launch, Return,
       HandleErr
  <2>2. Update(a, obj[w]) \/ UpdateStatus(a, obj[w])
    BY <2>1 DEF RemoveFinalizer, WriteStatus
  <2>3. watch'[a] = Append(watch[a], server'[a])
    BY <2>2, RequestTells DEF Calls
  <2> QED BY <2>3, ToldIsNew
<1> QED BY <1>1, <1>2, <1>3, WorkerActs

LEMMA RememberedStep ==
  ASSUME StepFacts, InSync, budget["faults"] <= Budget["faults"], DeletionRemembered, Next
  PROVE  DeletionRemembered'
<1> SUFFICES ASSUME NEW a \in Key, budget'["faults"] = Budget["faults"], Exists(a)',
                    server'[a].deleting
             PROVE  \/ watch'[a] # << >>
                    \/ a \in pending'
                    \/ \E w \in Worker : holder'[w] = a /\ pc'[w] = "unfinalize" /\ Fresh(a, obj[w])'
  BY DEF DeletionRemembered
<1>1. budget["faults"] = Budget["faults"] /\ \A w \in Worker : ~CallFails(w)
  BY NoCallFails
<1>2. CASE Restart
  BY <1>2 DEF Restart, Exists
<1>3. CASE watch'[a] = Append(watch[a], server'[a])
  BY <1>3, ToldIsNew
<1>4. CASE Deliver(a)
  BY <1>4 DEF Deliver, QueueVersion, W!Enqueue
<1>5. CASE ~Restart /\ server'[a] = server[a] /\ watch'[a] = watch[a]
  <2>1. Exists(a) /\ server[a].deleting
    BY <1>5 DEF Exists
  <2>2. CASE watch[a] # << >>
    BY <1>5, <2>2
  <2>3. CASE a \in pending /\ a \notin pending' /\ watch[a] = << >>
    <3>1. PICK w \in Worker : Dispatch(w, a)
      BY <1>5, <2>3, TakenByDispatch
    <3>2. holder'[w] = a /\ pc'[w] = "unfinalize" /\ Fresh(a, obj[w])'
      BY <2>1, <2>3, <3>1, DeletionTaken
    <3> QED BY <3>2
  <2>4. ASSUME NEW w \in Worker, holder[w] = a, pc[w] = "unfinalize", Fresh(a, obj[w])
        PROVE  \E v \in Worker : holder'[v] = a /\ pc'[v] = "unfinalize" /\ Fresh(a, obj[v])'
    <3>1. holder'[w] = a /\ pc'[w] = "unfinalize" /\ Fresh(a, obj[w])'
      BY <1>1, <1>5, <2>4, RequestSent
    <3> QED BY <3>1
  <2> QED BY <1>1, <2>1, <2>2, <2>3, <2>4 DEF DeletionRemembered
<1> QED BY <1>2, <1>3, <1>4, <1>5, StoreWatched

LEMMA InitRemember == Init => RememberInv
<1> SUFFICES ASSUME Init PROVE RememberInv
  OBVIOUS
<1>1. /\ server = [a \in Key |-> Nothing] /\ watch = [a \in Key |-> << >>]
      /\ cache = [a \in Key |-> Nothing] /\ budget = Budget
  BY DEF Init, ClusterInit, ControllerInit
<1>2. budget["faults"] <= Budget["faults"]
  <2>1. Budget["faults"] \in Nat
    BY BudgetAssumption DEF Spending
  <2> QED BY <1>1, <2>1
<1>3. InSync /\ DeletionRemembered
  BY <1>1 DEF InSync, LastSeen, Exists, DeletionRemembered
<1> QED BY <1>2, <1>3 DEF RememberInv

LEMMA FrameRemember == ASSUME RememberInv, UNCHANGED vars PROVE RememberInv'
<1>1. UNCHANGED <<server, watch, budget, cache, pending, holder, pc, obj>>
  BY DEF vars, clusterVars, controllerVars, workVars, syncVars
<1>2. \A a, o : Fresh(a, o)' = Fresh(a, o)
  BY <1>1 DEF Fresh, Exists
<1>3. DeletionRemembered'
  BY <1>1, <1>2 DEF RememberInv, DeletionRemembered, Exists
<1>4. InSync'
  BY <1>1 DEF RememberInv, InSync, LastSeen, Exists, SameVersion
<1> QED BY <1>1, <1>3, <1>4 DEF RememberInv

LEMMA StepRemember == IInv /\ RememberInv /\ [Next]_vars => RememberInv'
<1> SUFFICES ASSUME IInv, RememberInv, [Next]_vars PROVE RememberInv'
  OBVIOUS
<1>1. CASE Next
  <2>1. StepFacts /\ InSync /\ budget["faults"] <= Budget["faults"] /\ DeletionRemembered
    BY <1>1, InvParts, NextFacts DEF RememberInv
  <2>2. InSync' /\ DeletionRemembered'
    BY <1>1, <2>1, InSyncStep, RememberedStep
  <2>3. budget'["faults"] <= Budget["faults"]
    <3>1. Budget["faults"] \in Nat
      BY BudgetAssumption DEF Spending
    <3> QED BY <1>1, <2>1, <3>1, FaultsStep
  <2> QED BY <2>2, <2>3 DEF RememberInv
<1>2. CASE UNCHANGED vars
  BY <1>2, FrameRemember
<1> QED BY <1>1, <1>2

\* An Astro that is being deleted is not forgotten, whatever conflicts, restarts, late
\* deliveries and retries that are given up come between, as long as no request fails:
\* the part of DeletionCompletes that a state shows, in both modes and with any watch.
THEOREM DeletionKept == Spec => []DeletionRemembered
<1>1. Init => IInv /\ RememberInv
  BY InitInv, InitRemember
<1>2. IInv /\ RememberInv /\ [Next]_vars => (IInv /\ RememberInv)'
  BY StepInv, StepRemember
<1>3. RememberInv => DeletionRemembered
  BY DEF RememberInv
<1> QED BY <1>1, <1>2, <1>3, PTL DEF Spec

-----------------------------------------------------------------------------
(* Nothing is missed: NoticeInv is kept *)

LEMMA WatchExactStep ==
  ASSUME StepFacts, WatchExact, Next
  PROVE  WatchExact'
<1> SUFFICES ASSUME NEW a \in Key, watch'[a] # << >> PROVE watch'[a][Len(watch'[a])] = server'[a]
  BY DEF WatchExact
<1>1. CASE Restart
  BY <1>1 DEF Restart
<1>2. CASE server'[a] = server[a] /\ watch'[a] = watch[a]
  BY <1>2 DEF WatchExact
<1>3. CASE server'[a] = server[a] /\ Deliver(a)
  <2>1. LastSeen(a)' = LastSeen(a) /\ watch[a] # << >>
    BY <1>3, LastSeenStep DEF Deliver
  <2> QED BY <1>3, <2>1 DEF LastSeen, WatchExact
<1>4. CASE watch'[a] = Append(watch[a], server'[a])
  <2>1. server'[a] \in Astro \cup {Nothing}
    BY FactTypes
  <2>2. LastSeen(a)' = server'[a]
    BY <1>4, <2>1, LastSeenStep
  <2> QED BY <2>2 DEF LastSeen
<1> QED BY <1>1, <1>2, <1>3, <1>4, StoreWatched

\* A key that a worker has stays due: nobody else can take it.
LEMMA HeldStaysDue ==
  ASSUME StepFacts, Next, ~Restart, NEW a \in Key, NEW v \in Worker, holder[v] = a, a \in pending
  PROVE  a \in pending'
<1>1. ASSUME NEW w \in Worker, Dispatch(w, a) PROVE FALSE
  <2>1. W!Take(w, a)
    BY <1>1, DispatchFrame DEF StepFacts
  <2> QED BY <2>1 DEF W!Take
<1> QED BY <1>1, TakenByDispatch

\* What a worker goes on with is the version that it had, unless it wrote another one.
LEMMA WorkKeepsVersion ==
  ASSUME StepFacts, NEW v \in Worker, Work(v) \/ CallFails(v), NEW a \in Key, holder'[v] = a,
         obj'[v] # Nothing, watch'[a] = watch[a]
  PROVE  /\ holder[v] = a /\ obj[v] # Nothing
         /\ obj'[v].uid = obj[v].uid /\ obj'[v].rv = obj[v].rv
<1>t. StoreInv /\ HeldInv /\ HeldInv'
  BY FactTypes
<1>1. ASSUME holder' = holder, obj' = obj \/ \E s : Assign(v, [obj[v] EXCEPT !.status = s])
      PROVE  /\ holder[v] = a /\ obj[v] # Nothing
             /\ obj'[v].uid = obj[v].uid /\ obj'[v].rv = obj[v].rv
  <2>1. CASE obj' = obj
    BY <1>1, <2>1
  <2>2. CASE pc[v] \in Calls /\ \E s : Assign(v, [obj[v] EXCEPT !.status = s])
    <3>1. PICK s : Assign(v, [obj[v] EXCEPT !.status = s])
      BY <2>2
    <3>2. PICK o \in Astro : o = obj[v]
      BY <1>t, <2>2, HeldFacts
    <3>3. obj'[v] = [o EXCEPT !.status = s]
      BY <1>t, <3>1, <3>2 DEF Assign, HeldInv
    <3>4. o # Nothing /\ obj'[v].uid = o.uid /\ obj'[v].rv = o.rv
      BY <3>3, AstroFields DEF Astro
    <3> QED BY <1>1, <3>2, <3>4
  <2>3. pc[v] \in Calls \/ obj' = obj
    <3>1. CASE Return(v) \/ HandleErr(v)
      BY <1>t, <3>1 DEF Return, HandleErr, Free, HeldInv
    <3> QED BY <3>1 DEF Work, CallFails, Calls, ReadEndpoint, NewDeployment, NewService, UpdateAstro,
           WriteStatus, RemoveFinalizer, CountDeployment, CountDone, ReadService, NewAstermule,
           NewPort, ReadEngine, Launch
  <2> QED BY <1>1, <2>1, <2>2, <2>3
<1>2. ASSUME NEW s, SyncStatus(v, s)
      PROVE  obj' = obj \/ \E t : Assign(v, [obj[v] EXCEPT !.status = t])
  BY <1>2 DEF SyncStatus, Same
<1>3. Same \/ Fail(v) => obj' = obj
  BY DEF Same, Fail
<1>4. CASE Return(v) \/ HandleErr(v)
  BY <1>t, <1>4 DEF Return, HandleErr, Free, HeldInv
<1>5. CASE UpdateAstro(v)
  <2>1. CASE Fail(v)
    BY <1>1, <1>3, <1>5, <2>1 DEF UpdateAstro, workVars
  <2>2. CASE Update(holder[v], obj[v])
    <3>1. holder[v] = a
      BY <1>5 DEF UpdateAstro, workVars
    <3>2. watch'[a] = Append(watch[a], server'[a])
      BY <1>5, <2>2, <3>1, RequestTells DEF UpdateAstro, Calls
    <3> QED BY <3>2, ToldIsNew
  <2> QED BY <1>5, <2>1, <2>2 DEF UpdateAstro
<1>6. CASE NewDeployment(v) \/ NewService(v)
  <2>1. holder' = holder
    BY <1>6 DEF NewDeployment, NewService, workVars
  <2>2. \/ Fail(v)
        \/ \E s : \/ Assign(v, [obj[v] EXCEPT !.status.deploymentRef = Append(@, s)])
                  \/ Assign(v, [obj[v] EXCEPT !.status.serviceRef = Append(@, s)])
    BY <1>6 DEF NewDeployment, NewService, DeploymentExists, ReplyLost
  <2> QED BY <1>1, <1>3, <2>1, <2>2
<1>7. CASE \/ CountDone(v) \/ NewAstermule(v) \/ NewPort(v) \/ ReadEngine(v) \/ Launch(v)
           \/ WriteStatus(v) \/ RemoveFinalizer(v) \/ CallFails(v)
  <2>1. holder' = holder
    BY <1>7 DEF CountDone, NewAstermule, NewPort, ReadEngine, Launch, AstermuleStarted, StillWaited,
       WriteStatus, RemoveFinalizer, CallFails, W!Enqueue, workVars
  <2>2. Same \/ Fail(v) \/ \E s : SyncStatus(v, s)
    BY <1>7 DEF CountDone, NewAstermule, NewPort, ReadEngine, Launch, AstermuleStarted,
       EngineExists, LaunchError, ReplyLost, WriteStatus, RemoveFinalizer, CallFails
  <2> QED BY <1>1, <1>2, <1>3, <2>1, <2>2
<1>8. CASE CountDeployment(v) \/ ReadService(v) \/ ReadEndpoint(v)
  BY <1>1, <1>3, <1>8 DEF CountDeployment, ReadService, ReadEndpoint, workVars
<1> QED BY <1>4, <1>5, <1>6, <1>7, <1>8 DEF Work

\* A sync that starts when nothing is left to be delivered starts on the stored version.
LEMMA StartsFresh ==
  ASSUME StepFacts, InSync, NEW w \in Worker, NEW a \in Key, Dispatch(w, a), watch[a] = << >>,
         obj'[w] # Nothing
  PROVE  Fresh(a, obj[w])'
<1>t. HeldInv /\ cache \in [Key -> Astro \cup {Nothing}]
  BY FactTypes DEF HeldInv
<1>1. IF Exists(a) THEN SameVersion(cache[a], server[a]) ELSE cache[a] = Nothing
  BY DEF InSync, LastSeen
<1>2. CASE SyncGone(w, a)
  <2>1. holder[w] = NoKey /\ obj' = obj
    BY <1>2 DEF SyncGone, Start, W!Take, Same
  <2> QED BY <1>t, <2>1, ControllerAssumption DEF HeldInv
<1>3. ASSUME cache[a] # Nothing, NEW c \in Astro, Hold(w, c), c.uid = cache[a].uid, c.rv = cache[a].rv,
             UNCHANGED clusterVars
      PROVE  Fresh(a, obj[w])'
  <2>1. obj'[w] = c /\ server' = server
    BY <1>t, <1>3 DEF Hold, HeldInv, clusterVars
  <2> QED BY <1>1, <1>3, <2>1 DEF Fresh, SameVersion, Exists
<1>4. CASE SyncDelete(w, a) \/ SyncCreate(w, a)
  <2>1. PICK f \in BOOLEAN : Hold(w, [cache[a] EXCEPT !.finalizer = f])
    BY <1>4 DEF SyncDelete, SyncCreate, Finalized
  <2>2. cache[a] # Nothing /\ cache[a] \in Astro /\ UNCHANGED clusterVars
    BY <1>t, <1>4 DEF SyncDelete, SyncCreate, Start
  <2>3. PICK c \in Astro : /\ c = [cache[a] EXCEPT !.finalizer = f]
                           /\ c.uid = cache[a].uid /\ c.rv = cache[a].rv
    BY <2>2, NewFinalizer
  <2> QED BY <1>3, <2>1, <2>2, <2>3
<1>5. CASE \/ SyncInitialized(w, a) \/ SyncWaited(w, a) \/ SyncReady(w, a) \/ SyncSettled(w, a)
  <2>1. cache[a] # Nothing /\ Hold(w, cache[a]) /\ UNCHANGED clusterVars
    BY <1>5 DEF SyncInitialized, SyncWaited, SyncReady, SyncSettled, UpdateStart, Start
  <2> QED BY <1>t, <1>3, <2>1
<1> QED BY <1>2, <1>4, <1>5 DEF Dispatch

LEMMA StaleStep ==
  ASSUME StepFacts, InSync, StaleSyncFollowed, Next
  PROVE  StaleSyncFollowed'
<1> SUFFICES ASSUME NEW v \in Worker, NEW a \in Key,
                    holder'[v] = a, obj'[v] # Nothing, ~Fresh(a, obj[v])'
             PROVE  watch'[a] # << >> \/ a \in pending'
  BY DEF StaleSyncFollowed
<1>1. CASE Restart
  BY <1>1 DEF Restart
<1>2. CASE watch'[a] = Append(watch[a], server'[a])
  BY <1>2, ToldIsNew
<1>3. CASE Deliver(a)
  BY <1>3 DEF Deliver, QueueVersion, W!Enqueue
<1>4. CASE ~Restart /\ server'[a] = server[a] /\ watch'[a] = watch[a]
  <2>1. ASSUME holder[v] = a, obj[v] # Nothing,
               obj'[v].uid = obj[v].uid, obj'[v].rv = obj[v].rv
        PROVE  watch'[a] # << >> \/ a \in pending'
    <3>1. ~Fresh(a, obj[v])
      BY <1>4, <2>1 DEF Fresh, Exists
    <3>2. watch[a] # << >> \/ a \in pending
      BY <2>1, <3>1 DEF StaleSyncFollowed
    <3> QED BY <1>4, <2>1, <3>2, HeldStaysDue
  <2>2. CASE Idle(v)
    BY <2>1, <2>2 DEF Idle
  <2>3. ASSUME NEW b \in Key, Dispatch(v, b) PROVE watch'[a] # << >> \/ a \in pending'
    <3>1. b = a
      BY <2>3, DispatchFrame, FactTypes DEF StepFacts, W!Take, HeldInv
    <3> QED BY <1>4, <2>3, <3>1, StartsFresh
  <2>4. CASE Work(v) \/ CallFails(v)
    <3>1. /\ holder[v] = a /\ obj[v] # Nothing
          /\ obj'[v].uid = obj[v].uid /\ obj'[v].rv = obj[v].rv
      BY <1>4, <2>4, WorkKeepsVersion
    <3> QED BY <2>1, <3>1
  <2> QED BY <1>4, <2>2, <2>3, <2>4, WorkerActs
<1> QED BY <1>1, <1>2, <1>3, <1>4, StoreWatched

\* A Deployment that changes is an event for its owner.
LEMMA DeploymentEvents ==
  ASSUME StepFacts, Next, NEW s \in Star, deploys[s] # Nothing
  PROVE  deploys'[s] = deploys[s] \/ deploys[s].owner.name \in events'
<1>t. deploys \in [Star -> Deployment \cup {Nothing}]
  BY FactTypes DEF DependentTypes
<1>1. CASE UNCHANGED deploys
  BY <1>1
<1>2. ASSUME NEW d \in Star,
             \/ DeploymentAvailable(d) \/ DeploymentUnavailable(d) \/ CollectDeployment(d)
      PROVE  deploys'[s] = deploys[s] \/ deploys[s].owner.name \in events'
  <2>1. events' = events \cup {deploys[d].owner.name}
    BY <1>2 DEF DeploymentAvailable, DeploymentUnavailable, CollectDeployment
  <2>2. d # s => deploys'[s] = deploys[s]
    BY <1>t, <1>2 DEF DeploymentAvailable, DeploymentUnavailable, CollectDeployment
  <2> QED BY <2>1, <2>2
<1>3. CASE Environment
  BY <1>1, <1>2, <1>3 DEF Environment, UserCreates, UserEdits, UserDeletes, EngineSettles, EngineLost,
     CollectEngine, CollectPort, DeploymentReports, CollectService, dependentVars
<1>4. CASE Restart \/ \E a \in Key : Deliver(a) \/ HandleObject(a)
  BY <1>1, <1>4 DEF Restart, Deliver, HandleObject, dependentVars
<1>5. ASSUME NEW w \in Worker, NEW a \in Key, Dispatch(w, a) PROVE UNCHANGED deploys
  <2>1. UNCHANGED clusterVars
    BY <1>5 DEF Dispatch, SyncGone, SyncDelete, SyncCreate, SyncInitialized, SyncWaited, SyncReady,
       SyncSettled, UpdateStart, Start
  <2> QED BY <2>1 DEF clusterVars
<1>6. ASSUME NEW w \in Worker, Work(w) \/ CallFails(w)
      PROVE  deploys'[s] = deploys[s]
  <2>1. CASE NewDeployment(w)
    <3>1. UNCHANGED deploys \/ \E d : deploys[d] = Nothing /\ CreateDeployment(d, Self(w))
      BY <2>1 DEF NewDeployment, dependentVars
    <3> QED BY <1>t, <3>1 DEF CreateDeployment
  <2>2. CASE ~NewDeployment(w)
    <3>1. UNCHANGED deploys
      BY <1>6, <2>2 DEF Work, CallFails, NewService, UpdateAstro, WriteStatus, RemoveFinalizer,
         CountDeployment, CountDone, ReadService, NewAstermule, NewPort, ReadEngine, ReadEndpoint,
         Launch, Return, HandleErr, Free, CreateService, CreateEngine, CreatePort, RunEngine,
         clusterVars, dependentVars
    <3> QED BY <3>1
  <2> QED BY <2>1, <2>2
<1> QED BY <1>1, <1>3, <1>4, <1>5, <1>6 DEF Next, Controller

\* What is noticed stays noticed until a sync starts.
LEMMA NoticedStep ==
  ASSUME StepFacts, InSync, Next, ~Restart, NEW a \in Key, Exists(a),
         server'[a] = server[a], watch'[a] = watch[a],
         Noticed(a) \/ (Unready(a) /\ ~Unready(a)')
  PROVE  \/ Noticed(a)'
         \/ a \in pending /\ \E w \in Worker : Dispatch(w, a)
<1>1. CASE watch[a] # << >>
  BY <1>1 DEF Noticed
<1>2. CASE a \in pending
  BY <1>2, TakenByDispatch DEF Noticed
<1>3. CASE a \in events
  <2>1. CASE a \in events'
    BY <2>1 DEF Noticed
  <2>2. CASE HandleObject(a)
    <3>1. CASE cache[a] # Nothing
      BY <2>2, <3>1 DEF HandleObject, W!Enqueue, Noticed
    <3>2. CASE cache[a] = Nothing
      <4>1. watch[a] # << >>
        BY <3>2 DEF InSync, LastSeen, SameVersion
      <4> QED BY <1>1, <4>1
    <3> QED BY <3>1, <3>2
  <2>3. events \subseteq events' \/ \E b \in Key : HandleObject(b)
    <3>1. CASE Environment
      BY <3>1 DEF Environment, UserCreates, UserEdits, UserDeletes, EngineSettles, EngineLost,
         CollectEngine, CollectPort, DeploymentAvailable, DeploymentUnavailable, DeploymentReports,
         CollectDeployment, CollectService
    <3>2. CASE \E b \in Key : Deliver(b)
      BY <3>2 DEF Deliver
    <3>3. ASSUME NEW w \in Worker, NEW b \in Key, Dispatch(w, b) PROVE UNCHANGED events
      <4>1. UNCHANGED clusterVars
        BY <3>3 DEF Dispatch, SyncGone, SyncDelete, SyncCreate, SyncInitialized, SyncWaited,
           SyncReady, SyncSettled, UpdateStart, Start
      <4> QED BY <4>1 DEF clusterVars
    <3>4. ASSUME NEW w \in Worker, Work(w) \/ CallFails(w) PROVE events \subseteq events'
      BY <3>4 DEF Work, CallFails, NewDeployment, NewService, UpdateAstro, WriteStatus,
         RemoveFinalizer, CountDeployment, CountDone, ReadService, NewAstermule, NewPort,
         ReadEngine, ReadEndpoint, Launch, Return, HandleErr, Free, CreateDeployment, CreateService,
         CreateEngine, CreatePort, RunEngine, clusterVars
    <3> QED BY <3>1, <3>2, <3>3, <3>4 DEF Next, Controller
  <2>4. ASSUME NEW b \in Key, b # a, HandleObject(b) PROVE a \in events'
    BY <1>3, <2>4 DEF HandleObject
  <2> QED BY <1>3, <2>1, <2>2, <2>3, <2>4
<1>4. CASE Unready(a) /\ ~Unready(a)'
  <2>1. PICK s \in Star : /\ deploys[s] # Nothing /\ deploys[s].owner = OwnerOf(a, server[a])
                          /\ deploys[s].health # "available"
    BY <1>4 DEF Unready
  <2>2. deploys'[s] # deploys[s]
    BY <1>4, <2>1 DEF Unready, OwnerOf
  <2>3. a \in events'
    BY <2>1, <2>2, DeploymentEvents DEF OwnerOf
  <2> QED BY <2>3 DEF Noticed
<1> QED BY <1>1, <1>2, <1>3, <1>4 DEF Noticed

\* A sync that counts knows the Deployments of its Astro.
LEMMA CountFacts ==
  ASSUME StepFacts, CopiesGood, NEW w \in Worker, NEW a \in Key, holder[w] = a, pc[w] = "count",
         Fresh(a, obj[w])
  PROVE  \E o \in Astro, own \in Owner :
           /\ o = obj[w] /\ own = OwnerOf(a, server[a]) /\ o.status \in Status
           /\ o.status.phase = "Initialized"
           /\ o.status.nodeNumber = Len(o.status.deploymentRef)
           /\ o.status.deploymentRef \in Seq(Star)
           /\ \A i \in 1..Len(o.status.deploymentRef) : OwnsDeployment(own, o.status.deploymentRef[i])
           /\ idx[w] \in Nat /\ idx[w] >= 1 /\ ready[w] \in Nat /\ ready[w] < idx[w]
           /\ idx[w] <= Len(o.status.deploymentRef) + 1
<1>1. pc[w] \in Calls \ {"unfinalize"}
  BY DEF Calls
<1>2. PICK o \in Astro, own \in Owner :
        /\ o = obj[w] /\ own = OwnerOf(a, o)
        /\ Alive(own) => Backed(own, o.status)
        /\ SyncGood(w, a, o)
  BY <1>1, MyCopy
<1>3. o.status.phase = "Initialized" /\ o.status \in Status /\ o.status.deploymentRef \in Seq(Star)
  BY <1>1, <1>2, FactTypes, HeldFacts, AstroFields DEF PhaseAt
<1>4. own = OwnerOf(a, server[a]) /\ Alive(own)
  BY <1>2 DEF Fresh, OwnerOf, Alive, Exists
<1>5. /\ o.status.nodeNumber = Len(o.status.deploymentRef)
      /\ \A i \in 1..Len(o.status.deploymentRef) : OwnsDeployment(own, o.status.deploymentRef[i])
  BY <1>2, <1>3, <1>4 DEF Backed, RefsBacked, PhaseBacked
<1>6. ready[w] < idx[w] /\ idx[w] <= Len(o.status.deploymentRef) + 1
  BY <1>2 DEF SyncGood, Progress, Counted
<1>7. idx[w] \in Nat /\ ready[w] \in Nat /\ idx[w] >= 1
  BY DEF StepFacts, RestInv, PositionInv, LoopInv
<1> QED BY <1>2, <1>3, <1>4, <1>5, <1>6, <1>7

\* A Deployment that is counted as not ready is not.
LEMMA CountNoticedStep ==
  ASSUME StepFacts, CopiesGood, InSync, CountNoticed, Next
  PROVE  CountNoticed'
<1> SUFFICES ASSUME NEW v \in Worker, NEW a \in Key, holder'[v] = a, pc'[v] = "count",
                    Fresh(a, obj[v])', ready'[v] < idx'[v] - 1
             PROVE  Unready(a)' \/ Noticed(a)'
  BY DEF CountNoticed
<1>1. CASE Restart
  BY <1>1 DEF Restart
<1>2. CASE watch'[a] = Append(watch[a], server'[a])
  BY <1>2, ToldIsNew DEF Noticed
<1>3. CASE Deliver(a)
  BY <1>3 DEF Deliver, QueueVersion, W!Enqueue, Noticed
<1>4. CASE ~Restart /\ server'[a] = server[a] /\ watch'[a] = watch[a]
  <2>1. Exists(a)
    BY <1>4 DEF Fresh, Exists
  <2>2. ASSUME holder[v] = a, pc[v] = "count", Fresh(a, obj[v]), ready[v] < idx[v] - 1
        PROVE  Unready(a)' \/ Noticed(a)'
    <3>1. Unready(a) \/ Noticed(a)
      BY <2>2 DEF CountNoticed
    <3>2. ASSUME a \in pending, NEW w \in Worker, Dispatch(w, a) PROVE FALSE
      BY <2>2, <3>2, DispatchFrame DEF StepFacts, W!Take
    <3> QED BY <1>4, <2>1, <3>1, <3>2, NoticedStep
  <2>3. CASE Idle(v)
    BY <1>4, <2>2, <2>3 DEF Idle, Fresh, Exists
  <2>4. ASSUME NEW b \in Key, Dispatch(v, b) PROVE FALSE
    <3>1. SyncInitialized(v, b)
      BY <2>4, FactTypes DEF Dispatch, SyncGone, SyncDelete, SyncCreate, SyncWaited, SyncReady,
         SyncSettled, GoTo, Loop, HeldInv
    <3>2. idx'[v] = 1 /\ ready'[v] = 0
      BY <3>1 DEF SyncInitialized, Loop, StepFacts, RestInv, PositionInv
    <3> QED BY <3>2
  <2>5. CASE CountDeployment(v)
    <3>1. holder[v] = a /\ obj'[v] = obj[v] /\ pc[v] = "count" /\ Fresh(a, obj[v])
      BY <1>4, <2>5 DEF CountDeployment, workVars, Same, Fail, Fresh, Exists
    <3>2. PICK o \in Astro, own \in Owner :
            /\ o = obj[v] /\ own = OwnerOf(a, server[a])
            /\ o.status.deploymentRef \in Seq(Star)
            /\ \A i \in 1..Len(o.status.deploymentRef) :
                 OwnsDeployment(own, o.status.deploymentRef[i])
            /\ idx[v] \in Nat /\ idx[v] >= 1 /\ ready[v] \in Nat
      BY <3>1, CountFacts
    <3>3. PICK s \in Star : s = o.status.deploymentRef[idx[v]] /\ OwnsDeployment(own, s)
      <4>1. idx[v] \in 1..Len(o.status.deploymentRef)
        BY <2>5, <3>2 DEF CountDeployment, Left
      <4> QED BY <3>2, <4>1, ElementOfSeq
    <3>4. /\ ready' = [ready EXCEPT ![v] = IF deploys[s].health = "available" THEN @ + 1 ELSE @]
          /\ idx' = [idx EXCEPT ![v] = @ + 1]
      BY <2>5, <3>2, <3>3 DEF CountDeployment, NextTurn, OwnsDeployment
    <3>5. CASE deploys[s].health = "available"
      <4>1. ready'[v] = ready[v] + 1 /\ idx'[v] = idx[v] + 1
        BY <3>4, <3>5 DEF StepFacts, RestInv, PositionInv
      <4>2. ready[v] < idx[v] - 1
        BY <3>2, <4>1
      <4> QED BY <2>2, <3>1, <4>2
    <3>6. CASE deploys[s].health # "available"
      <4>1. Unready(a)
        BY <3>2, <3>3, <3>6 DEF Unready, OwnsDeployment
      <4>2. UNCHANGED deploys
        BY <2>5 DEF CountDeployment, clusterVars
      <4> QED BY <1>4, <4>1, <4>2 DEF Unready, OwnerOf
    <3> QED BY <3>5, <3>6
  <2>6. CASE (Work(v) /\ ~CountDeployment(v)) \/ CallFails(v)
    <3>1. ASSUME NEW label, GoTo(v, label) PROVE pc'[v] = label
      BY <3>1, FactTypes DEF GoTo, HeldInv
    <3>2. ASSUME NEW s, SyncStatus(v, s) PROVE pc'[v] \in {"return", "status"}
      BY <3>1, <3>2 DEF SyncStatus
    <3>3. Fail(v) => pc'[v] = "error"
      BY <3>1 DEF Fail
    <3>4. pc'[v] # "count"
      BY <2>6, <3>1, <3>2, <3>3 DEF Work, CallFails, NewDeployment, NewService, UpdateAstro, WriteStatus,
         RemoveFinalizer, CountDone, ReadService, NewAstermule, NewPort, ReadEngine, ReadEndpoint,
         Launch, Return, HandleErr, Free, DeploymentExists, EngineExists, AstermuleStarted, LaunchError,
         NextTurn, ReplyLost
    <3> QED BY <3>4
  <2> QED BY <1>4, <2>3, <2>4, <2>5, <2>6, WorkerActs
<1> QED BY <1>1, <1>2, <1>3, <1>4, StoreWatched

\* The phase of the cached object leaves Initialized only when a sync is to write it.
LEMMA CachedPhaseStep ==
  ASSUME StepFacts, InSync, Next, ~Restart, NEW a \in Key, Exists(a), watch[a] = << >>,
         server'[a] = server[a], cache[a].status.phase = "Initialized"
  PROVE  \/ cache'[a].status.phase = "Initialized"
         \/ \E w \in Worker : holder'[w] = a /\ pc'[w] = "status" /\ Fresh(a, obj[w])'
<1>t. cache \in [Key -> Astro \cup {Nothing}] /\ HeldInv /\ HeldInv'
  BY FactTypes DEF HeldInv
<1>1. SameVersion(cache[a], server[a]) /\ cache[a] \in Astro
  BY <1>t DEF InSync, LastSeen, SameVersion
<1>2. CASE cache'[a] = cache[a]
  BY <1>2
<1>3. ASSUME NEW w \in Worker, NEW b \in Key, Dispatch(w, b), cache'[a] # cache[a]
      PROVE  cache'[a].status.phase = "Initialized"
  <2>1. SyncDelete(w, b) \/ SyncCreate(w, b)
    BY <1>3 DEF Dispatch, SyncGone, SyncInitialized, SyncWaited, SyncReady, SyncSettled,
       UpdateStart, Same
  <2>2. PICK f \in BOOLEAN : cache' = [cache EXCEPT ![b] = [cache[b] EXCEPT !.finalizer = f]]
    BY <2>1 DEF SyncDelete, SyncCreate, Finalized
  <2>3. b = a
    BY <1>t, <1>3, <2>2
  <2>4. cache'[a] = [cache[a] EXCEPT !.finalizer = f]
    BY <1>t, <2>2, <2>3
  <2>5. cache'[a].status = cache[a].status
    BY <1>1, <2>4, NewFinalizer
  <2> QED BY <2>5
<1>4. ASSUME NEW w \in Worker, Work(w), cache'[a] # cache[a]
      PROVE  holder'[w] = a /\ pc'[w] = "status" /\ Fresh(a, obj[w])'
  <2>1. PICK s : /\ alias[w] /\ pc[w] \in Calls \ {"status", "unfinalize"} /\ holder' = holder
                 /\ Assign(w, [obj[w] EXCEPT !.status = s])
    BY <1>4, CacheWork
  <2>2. PICK o \in Astro : /\ o = obj[w] /\ holder[w] \in Key /\ o = cache[holder[w]]
                           /\ o.status.phase \in PhaseAt(pc[w])
    BY <1>t, <2>1, HeldFacts
  <2>3. holder[w] = a
    BY <1>t, <1>4, <2>1, <2>2 DEF Assign
  <2>4. pc[w] = "count"
    BY <2>1, <2>2, <2>3 DEF PhaseAt, Calls
  <2>5. CountDone(w)
    BY <1>4, <2>4 DEF Work, NewDeployment, NewService, UpdateAstro, WriteStatus, RemoveFinalizer,
       CountDeployment, ReadService, NewAstermule, NewPort, ReadEngine, ReadEndpoint, Launch,
       Return, HandleErr, Same, Fail
  <2>6. PICK t : SyncStatus(w, t)
    BY <2>5 DEF CountDone
  <2>7. pc'[w] = "status" /\ Assign(w, [obj[w] EXCEPT !.status = t])
    BY <1>4, <2>6, MyParts DEF Same
  <2>8. obj'[w] = [o EXCEPT !.status = t]
    BY <1>t, <2>2, <2>7 DEF Assign, HeldInv
  <2>9. obj'[w] # Nothing /\ obj'[w].uid = o.uid /\ obj'[w].rv = o.rv
    <3>1. obj'[w] \in Astro /\ obj'[w] # Nothing
      BY <1>t, <2>7 DEF HeldInv, HolderInv, Calls
    <3> QED BY <2>2, <2>8, <3>1 DEF Astro
  <2> QED BY <1>1, <2>1, <2>2, <2>3, <2>7, <2>9 DEF Fresh, SameVersion, Exists
<1>5. CASE Environment /\ UNCHANGED controllerVars
  BY <1>2, <1>5 DEF controllerVars
<1>6. ASSUME NEW b \in Key, Deliver(b) \/ HandleObject(b) PROVE cache'[a] = cache[a]
  BY <1>t, <1>6 DEF Deliver, HandleObject
<1>7. ASSUME NEW w \in Worker, CallFails(w) PROVE cache'[a] = cache[a]
  BY <1>7 DEF CallFails, ReplyLost, Fail, Same
<1> QED BY <1>2, <1>3, <1>4, <1>5, <1>6, <1>7 DEF Next, Controller


LEMMA CacheNotAheadStep ==
  ASSUME StepFacts, InSync, WatchExact, budget["faults"] <= Budget["faults"], CacheNotAhead, Next
  PROVE  CacheNotAhead'
<1> SUFFICES ASSUME NEW a \in Key, budget'["faults"] = Budget["faults"],
                    PhaseIn(a, {"Initialized"})', ~server'[a].deleting, watch'[a] = << >>
             PROVE  \/ cache'[a].status.phase = "Initialized"
                    \/ \E w \in Worker :
                         holder'[w] = a /\ pc'[w] = "status" /\ Fresh(a, obj[w])'
  BY DEF CacheNotAhead
<1>p. Exists(a)' /\ server'[a].status.phase = "Initialized"
  BY DEF PhaseIn
<1>1. budget["faults"] = Budget["faults"] /\ \A w \in Worker : ~CallFails(w)
  BY NoCallFails
<1>2. CASE Restart
  BY <1>p, <1>2 DEF Restart
<1>3. CASE watch'[a] = Append(watch[a], server'[a])
  BY <1>3, ToldIsNew
<1>4. CASE server'[a] = server[a] /\ Deliver(a)
  <2>1. LastSeen(a)' = cache'[a]
    BY DEF LastSeen
  <2>2. LastSeen(a)' = LastSeen(a) /\ watch[a] # << >>
    BY <1>4, LastSeenStep DEF Deliver
  <2>3. cache'[a] = server[a]
    BY <2>1, <2>2 DEF LastSeen, WatchExact
  <2> QED BY <1>p, <1>4, <2>3
<1>5. CASE ~Restart /\ server'[a] = server[a] /\ watch'[a] = watch[a]
  <2>1. Exists(a) /\ watch[a] = << >> /\ PhaseIn(a, {"Initialized"}) /\ ~server[a].deleting
    BY <1>p, <1>5 DEF Exists, PhaseIn
  <2>2. CASE cache[a].status.phase = "Initialized"
    BY <1>5, <2>1, <2>2, CachedPhaseStep
  <2>3. ASSUME NEW w \in Worker, holder[w] = a, pc[w] = "status", Fresh(a, obj[w])
        PROVE  \E v \in Worker : holder'[v] = a /\ pc'[v] = "status" /\ Fresh(a, obj[v])'
    <3>1. holder'[w] = a /\ pc'[w] = "status" /\ Fresh(a, obj[w])'
      BY <1>1, <1>5, <2>3, RequestSent
    <3> QED BY <3>1
  <2> QED BY <1>1, <2>1, <2>2, <2>3 DEF CacheNotAhead
<1> QED BY <1>2, <1>3, <1>4, <1>5, StoreWatched

\* A sync of an Astro in phase Initialized that starts when the watch has caught up
\* counts on the stored version.
LEMMA CountStarts ==
  ASSUME StepFacts, InSync, CacheNotAhead, NEW w \in Worker, NEW a \in Key, Dispatch(w, a),
         budget["faults"] = Budget["faults"], PhaseIn(a, {"Initialized"}), ~server[a].deleting,
         watch[a] = << >>
  PROVE  holder'[w] = a /\ pc'[w] = "count" /\ Fresh(a, obj[w])'
<1>t. cache \in [Key -> Astro \cup {Nothing}] /\ HeldInv /\ HeldInv'
  BY FactTypes DEF HeldInv
<1>1. Exists(a) /\ SameVersion(cache[a], server[a])
  BY DEF InSync, LastSeen, PhaseIn
<1>2. holder'[w] = a /\ \A v \in Worker : holder[v] # a
  BY <1>t, DispatchFrame DEF StepFacts, W!Take, HeldInv
<1>3. cache[a].status.phase = "Initialized"
  BY <1>2 DEF CacheNotAhead
<1>4. cache[a].finalizer /\ ~cache[a].deleting /\ cache[a] # Nothing
  BY <1>t, <1>1, <1>3 DEF HeldInv, SameVersion, CopyOK
<1>5. SyncInitialized(w, a)
  BY <1>3, <1>4 DEF Dispatch, SyncGone, SyncDelete, SyncCreate, SyncWaited, SyncReady, SyncSettled,
     UpdateStart
<1>6. pc'[w] = "count"
  BY <1>5, MyParts DEF SyncInitialized
<1>7. obj'[w] = cache[a]
  BY <1>t, <1>5 DEF SyncInitialized, UpdateStart, Hold, HeldInv
<1> QED BY <1>2, <1>4, <1>6, <1>7, StartsFresh

\* A sync that counts on the stored version goes on, or writes the phase, or leaves a
\* Deployment to be noticed.
LEMMA CountGoesOn ==
  ASSUME StepFacts, CopiesGood, CountNoticed, Next, ~Restart, NEW w \in Worker, ~CallFails(w),
         NEW a \in Key, holder[w] = a, pc[w] = "count", Fresh(a, obj[w]),
         server'[a] = server[a], watch'[a] = watch[a]
  PROVE  \/ holder'[w] = a /\ pc'[w] \in {"count", "status"} /\ Fresh(a, obj[w])'
         \/ Unready(a) \/ Noticed(a)
<1>t. HeldInv /\ HeldInv'
  BY FactTypes
<1>c. PICK o \in Astro, own \in Owner :
        /\ o = obj[w] /\ own = OwnerOf(a, server[a]) /\ o.status \in Status
        /\ o.status.nodeNumber = Len(o.status.deploymentRef)
        /\ o.status.deploymentRef \in Seq(Star)
        /\ \A i \in 1..Len(o.status.deploymentRef) : OwnsDeployment(own, o.status.deploymentRef[i])
        /\ idx[w] \in Nat /\ idx[w] >= 1 /\ ready[w] \in Nat /\ ready[w] < idx[w]
        /\ idx[w] <= Len(o.status.deploymentRef) + 1
  BY CountFacts
<1>1. CASE Idle(w)
  BY <1>1 DEF Idle, Fresh, Exists
<1>2. CASE \E b \in Key : Dispatch(w, b)
  <2>1. holder[w] = NoKey
    BY <1>2, DispatchFrame DEF StepFacts, W!Take
  <2> QED BY <2>1, ControllerAssumption
<1>3. CASE CountDeployment(w)
  <2>1. idx[w] \in 1..Len(o.status.deploymentRef)
    BY <1>3, <1>c DEF CountDeployment, Left
  <2>2. PICK s \in Star : s = o.status.deploymentRef[idx[w]] /\ OwnsDeployment(own, s)
    BY <1>c, <2>1, ElementOfSeq
  <2>3. NextTurn(w, "count") /\ Same /\ holder' = holder
    BY <1>3, <1>c, <2>2 DEF CountDeployment, OwnsDeployment, workVars
  <2>4. pc'[w] = "count"
    BY <2>3, MyParts
  <2> QED BY <2>3, <2>4 DEF Same, Fresh, Exists
<1>4. CASE CountDone(w)
  <2>1. holder' = holder /\ SyncStatus(w, [obj[w].status EXCEPT !.readyNodeNumber = ready[w],
                                             !.phase = IF AllReady(w) THEN "Waited" ELSE @])
    BY <1>4 DEF CountDone, workVars
  <2>2. CASE AllReady(w)
    <3>1. PICK t : t = [o.status EXCEPT !.readyNodeNumber = ready[w], !.phase = "Waited"]
      OBVIOUS
    <3>2. t.phase = "Waited"
      BY <1>c, <3>1 DEF Status
    <3>3. o.status.phase = "Initialized"
      BY <1>c, CountFacts
    <3>4. SyncStatus(w, t)
      BY <1>c, <2>1, <2>2, <3>1
    <3>5. pc'[w] = "status" /\ Assign(w, [obj[w] EXCEPT !.status = t])
      BY <1>c, <3>2, <3>3, <3>4, MyParts
    <3>6. obj'[w] = [o EXCEPT !.status = t]
      BY <1>t, <1>c, <3>5 DEF Assign, HeldInv
    <3>7. obj'[w] # Nothing /\ obj'[w].uid = o.uid /\ obj'[w].rv = o.rv
      <4>1. obj'[w] \in Astro /\ obj'[w] # Nothing
        BY <1>t, <3>5 DEF HeldInv, HolderInv, Calls
      <4> QED BY <1>c, <3>6, <4>1 DEF Astro
    <3> QED BY <1>c, <2>1, <3>5, <3>7 DEF Fresh, Exists
  <2>3. CASE ~AllReady(w)
    <3>1. PICK n \in Nat : n = Len(o.status.deploymentRef)
      BY <1>c
    <3>2. ready[w] # n /\ idx[w] > n
      BY <1>4, <1>c, <2>3, <3>1 DEF CountDone, Left, AllReady
    <3>3. ready[w] < idx[w] - 1
      BY <1>c, <3>1, <3>2
    <3> QED BY <3>3 DEF CountNoticed
  <2> QED BY <2>2, <2>3
<1>5. CASE Work(w) /\ ~CountDeployment(w) /\ ~CountDone(w)
  BY <1>5 DEF Work, NewDeployment, NewService, UpdateAstro, WriteStatus, RemoveFinalizer,
     ReadService, NewAstermule, NewPort, ReadEngine, ReadEndpoint, Launch, Return, HandleErr
<1> QED BY <1>1, <1>2, <1>3, <1>4, <1>5, WorkerActs

LEMMA ReadinessStep ==
  ASSUME StepFacts, CopiesGood, InSync, budget["faults"] <= Budget["faults"], CountNoticed,
         CacheNotAhead, ReadinessNoticed, Next
  PROVE  ReadinessNoticed'
<1> SUFFICES ASSUME NEW a \in Key, budget'["faults"] = Budget["faults"],
                    PhaseIn(a, {"Initialized"})', ~server'[a].deleting, ~Unready(a)'
             PROVE  \/ Noticed(a)'
                    \/ \E w \in Worker :
                         /\ holder'[w] = a /\ pc'[w] \in {"count", "status"}
                         /\ Fresh(a, obj[w])'
  BY DEF ReadinessNoticed, Noticed
<1>1. budget["faults"] = Budget["faults"] /\ \A w \in Worker : ~CallFails(w)
  BY NoCallFails
<1>2. CASE Restart
  BY <1>2 DEF Restart, PhaseIn, Exists, Noticed
<1>3. CASE watch'[a] = Append(watch[a], server'[a])
  BY <1>3, ToldIsNew DEF Noticed
<1>4. CASE Deliver(a)
  BY <1>4 DEF Deliver, QueueVersion, W!Enqueue, Noticed
<1>5. CASE ~Restart /\ server'[a] = server[a] /\ watch'[a] = watch[a]
  <2>1. Exists(a) /\ PhaseIn(a, {"Initialized"}) /\ ~server[a].deleting
    BY <1>5 DEF Exists, PhaseIn
  <2>2. CASE Unready(a) \/ Noticed(a)
    <3>1. CASE Noticed(a)'
      BY <3>1
    <3>2. ASSUME NEW w \in Worker, Dispatch(w, a), ~Noticed(a)'
          PROVE  holder'[w] = a /\ pc'[w] = "count" /\ Fresh(a, obj[w])'
      <4>1. watch[a] = << >>
        BY <1>5, <3>2 DEF Noticed
      <4> QED BY <1>1, <2>1, <3>2, <4>1, CountStarts
    <3> QED BY <1>5, <2>1, <2>2, <3>1, <3>2, NoticedStep
  <2>3. ASSUME NEW w \in Worker, holder[w] = a, pc[w] \in {"count", "status"}, Fresh(a, obj[w]),
               ~Unready(a), ~Noticed(a)
        PROVE  holder'[w] = a /\ pc'[w] \in {"count", "status"} /\ Fresh(a, obj[w])'
    <3>1. CASE pc[w] = "status"
      BY <1>1, <1>5, <2>3, <3>1, RequestSent
    <3>2. CASE pc[w] = "count"
      BY <1>1, <1>5, <2>3, <3>2, CountGoesOn
    <3> QED BY <2>3, <3>1, <3>2
  <2> QED BY <1>1, <2>1, <2>2, <2>3 DEF ReadinessNoticed, Noticed
<1> QED BY <1>2, <1>3, <1>4, <1>5, StoreWatched

LEMMA InitNotice == Init => NoticeInv
<1> SUFFICES ASSUME Init PROVE NoticeInv
  OBVIOUS
<1>1. /\ server = [a \in Key |-> Nothing] /\ watch = [a \in Key |-> << >>]
      /\ holder = [w \in Worker |-> NoKey]
  BY DEF Init, ClusterInit, ControllerInit, W!WorkInit
<1>2. \A a \in Key : ~Exists(a) /\ watch[a] = << >>
  BY <1>1 DEF Exists
<1>3. WatchExact /\ CacheNotAhead /\ ReadinessNoticed
  BY <1>2 DEF WatchExact, CacheNotAhead, ReadinessNoticed, PhaseIn
<1>4. StaleSyncFollowed /\ CountNoticed
  BY <1>1, ControllerAssumption DEF StaleSyncFollowed, CountNoticed
<1> QED BY <1>3, <1>4, InitRemember DEF NoticeInv

LEMMA FrameNotice == ASSUME NoticeInv, UNCHANGED vars PROVE NoticeInv'
<1>1. /\ UNCHANGED <<server, watch, budget, cache, pending, holder, pc, obj, idx, ready>>
      /\ UNCHANGED <<events, deploys>>
  BY DEF vars, clusterVars, controllerVars, workVars, syncVars, dependentVars, astroVars
<1>2. /\ \A a, o : Fresh(a, o)' = Fresh(a, o)
      /\ \A a : Unready(a)' = Unready(a) /\ Noticed(a)' = Noticed(a)
  BY <1>1 DEF Fresh, Exists, Unready, Noticed, OwnerOf
<1>3. StaleSyncFollowed' /\ WatchExact'
  BY <1>1, <1>2 DEF NoticeInv, StaleSyncFollowed, WatchExact
<1>4. CountNoticed'
  BY <1>1, <1>2 DEF NoticeInv, CountNoticed
<1>5. CacheNotAhead' /\ ReadinessNoticed'
  BY <1>1, <1>2 DEF NoticeInv, CacheNotAhead, ReadinessNoticed, PhaseIn, Exists
<1> QED BY <1>3, <1>4, <1>5, FrameRemember DEF NoticeInv

LEMMA StepNotice == IInv /\ DependInv /\ NoticeInv /\ [Next]_vars => NoticeInv'
<1> SUFFICES ASSUME IInv, DependInv, NoticeInv, [Next]_vars PROVE NoticeInv'
  OBVIOUS
<1>1. CASE Next
  <2>1. StepFacts /\ CopiesGood
    BY <1>1, InvParts, NextFacts DEF DependInv
  <2>2. /\ RememberInv /\ WatchExact /\ StaleSyncFollowed /\ CountNoticed /\ CacheNotAhead
        /\ ReadinessNoticed
        /\ InSync /\ budget["faults"] <= Budget["faults"]
    BY DEF NoticeInv, RememberInv
  <2>3. RememberInv'
    BY <2>2, StepRemember
  <2>4. WatchExact' /\ StaleSyncFollowed'
    BY <1>1, <2>1, <2>2, WatchExactStep, StaleStep
  <2>5. CountNoticed'
    BY <1>1, <2>1, <2>2, CountNoticedStep
  <2>6. CacheNotAhead'
    BY <1>1, <2>1, <2>2, CacheNotAheadStep
  <2>7. ReadinessNoticed'
    BY <1>1, <2>1, <2>2, ReadinessStep
  <2> QED BY <2>3, <2>4, <2>5, <2>6, <2>7 DEF NoticeInv
<1>2. CASE UNCHANGED vars
  BY <1>2, FrameNotice
<1> QED BY <1>1, <1>2

LEMMA NoticeKept == Spec => []NoticeInv
<1>1. Init => IInv /\ DependInv /\ NoticeInv
  BY InitInv, InitDepend, InitNotice
<1>2. IInv /\ DependInv /\ NoticeInv /\ [Next]_vars => (IInv /\ DependInv /\ NoticeInv)'
  BY StepInv, StepDepend, StepNotice
<1> QED BY <1>1, <1>2, PTL DEF Spec

\* What a sync works on may be outdated, read from a cache that is behind or replaced
\* under it by the next version, but then a version is on its way or the Astro is
\* queued, so a later sync makes up for it. With any watch and any failures.
THEOREM StaleSyncs == Spec => []StaleSyncFollowed
<1>1. NoticeInv => StaleSyncFollowed
  BY DEF NoticeInv
<1> QED BY <1>1, NoticeKept, PTL

\* While no request fails, an Astro whose Deployments are all available does not stay
\* in phase Initialized unnoticed, although a sync counts them one by one while they
\* change and is not told of what changes behind its position.
THEOREM ReadinessKept == Spec => []ReadinessNoticed
<1>1. NoticeInv => ReadinessNoticed
  BY DEF NoticeInv
<1> QED BY <1>1, NoticeKept, PTL

=============================================================================
