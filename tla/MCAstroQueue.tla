----------------------------- MODULE MCAstroQueue -----------------------------
(***************************************************************************)
(* TLC instances of AstroQueue. Nothing is bounded beyond the constants:   *)
(* every variable ranges over a finite set as long as RetriesBounded holds.*)
(***************************************************************************)
EXTENDS AstroQueue

CONSTANTS k1, k2, k3, w1, w2

MCKey == {k1, k2, k3}
MCOneKey == {k1}
MCWorker == {w1, w2}
MCOneWorker == {w1}
=============================================================================
