------------------------------ MODULE MCLifecycle ------------------------------
(***************************************************************************)
(* TLC instance of Lifecycle: the two workers that main.go starts.         *)
(***************************************************************************)
EXTENDS Lifecycle

CONSTANTS w1, w2

MCWorker == {w1, w2}
=============================================================================
