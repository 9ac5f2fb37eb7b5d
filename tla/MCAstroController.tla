--------------------------- MODULE MCAstroController ---------------------------
(***************************************************************************)
(* TLC instances of AstroController. What is bounded is how often users,   *)
(* faults and restarts act: Budget.                                        *)
(***************************************************************************)
EXTENDS AstroProperties, TLC

CONSTANTS a1, a2, s1, s2, w1, w2

OneAstro == {a1}
TwoAstros == {a1, a2}
TwoStars == {s1, s2}
OneWorker == {w1}
TwoWorkers == {w1, w2}

\* A workflow of two stars, and the one an edit turns it into.
Lists == {<<s1, s2>>, <<s2>>}
OneList == {<<s1, s2>>}
ShortList == {<<s1>>}
ShortLists == {<<s1>>, <<s2>>}

PairSymmetry == Permutations(Worker) \cup Permutations(Key) \cup Permutations(Star)

None == [[x \in Spending |-> 0] EXCEPT !["total"] = 9]

\* Each hazard once: an edit, a deletion and a second Astro of the same name, a
\* Deployment or an engine that fails, a failed request, a restart.
CoreBudget == [None EXCEPT !["total"] = 3, !["creates"] = 2, !["deletes"] = 1, !["edits"] = 1, !["flaps"] = 1,
                           !["faults"] = 1, !["crashes"] = 1, !["losses"] = 1]

\* Nothing fails and nobody interferes, but the Astro can be deleted.
PromptBudget == [None EXCEPT !["creates"] = 1, !["deletes"] = 1, !["flaps"] = 1]

DeletionBudget == [None EXCEPT !["creates"] = 2, !["deletes"] = 2, !["crashes"] = 1]

\* One Astro is created.
QuietBudget == [None EXCEPT !["creates"] = 1]

\* Two Astros are created.
PairBudget == [None EXCEPT !["creates"] = 2]

\* One Astro is created and one request fails.
FaultBudget == [None EXCEPT !["creates"] = 1, !["faults"] = 1]
=============================================================================
