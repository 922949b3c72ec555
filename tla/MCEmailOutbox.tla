---------------------------- MODULE MCEmailOutbox ----------------------------
(***************************************************************************)
(* Instances of EmailOutbox for TLC: two workers, whose batch is smaller   *)
(* than the backlog.                                                       *)
(***************************************************************************)
EXTENDS EmailOutbox, TLC

CONSTANTS m1, m2, m3, w1, w2

Symmetry == Permutations({m1, m2, m3}) \cup Permutations({w1, w2})
=============================================================================
