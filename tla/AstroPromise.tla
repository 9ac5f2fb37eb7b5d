------------------------------ MODULE AstroPromise ------------------------------
(***************************************************************************)
(* What the users of astertower can count on, told without caches, queues, *)
(* requests or versions: the life of an Astro as kubectl shows it, and     *)
(* whether its workflow was launched. AstroController implements it.       *)
(***************************************************************************)
EXTENDS AstroTypes

VARIABLE
  life   \* life[a]: what is to be seen of the Astro a, or Nothing

Results == {"Success", "Wrong"}

PromiseTypeOK == life \in [Key -> Life \cup {Nothing}]

PromiseInit == life = [a \in Key |-> Nothing]

There(a) == life[a] # Nothing

Change(a, new) == life' = [life EXCEPT ![a] = new]

Appear(a) ==
  /\ ~There(a)
  /\ Change(a, [phase |-> "Unset", finalizer |-> FALSE, deleting |-> FALSE, launched |-> FALSE])

\* syncCreate has it kept until it is cleaned up, and does nothing before that.
Protect(a) ==
  /\ There(a) /\ ~life[a].finalizer /\ ~life[a].deleting
  /\ Change(a, [life[a] EXCEPT !.finalizer = TRUE])

\* The phases are gone through in one direction, and none once the Astro is being
\* deleted. A result takes a launch.
Proceed(a) ==
  /\ There(a) /\ life[a].finalizer /\ ~life[a].deleting
  /\ \E p \in Later[life[a].phase] :
       /\ p \in Results => life[a].launched
       /\ Change(a, [life[a] EXCEPT !.phase = p])

\* A launch takes deployed microservices. The phase may lag behind, as a sync can
\* go on from a status that it failed to store; a deletion can come in between.
Launched(a) ==
  /\ There(a) /\ life[a].phase # "Unset"
  /\ Change(a, [life[a] EXCEPT !.launched = TRUE])

\* An Astro that has a finalizer waits for syncDelete.
Delete(a) ==
  /\ There(a) /\ ~life[a].deleting
  /\ Change(a, IF life[a].finalizer THEN [life[a] EXCEPT !.deleting = TRUE] ELSE Nothing)

Disappear(a) ==
  /\ There(a) /\ life[a].deleting
  /\ Change(a, Nothing)

PromiseNext ==
  \E a \in Key : \/ Appear(a) \/ Protect(a) \/ Proceed(a) \/ Launched(a)
                 \/ Delete(a) \/ Disappear(a)

PromiseSpec == PromiseInit /\ [][PromiseNext]_life
=============================================================================
