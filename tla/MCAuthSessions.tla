--------------------------- MODULE MCAuthSessions ---------------------------
(***************************************************************************)
(* Instances of AuthSessions for TLC.  Requests are interchangeable, and so *)
(* are token pairs.                                                        *)
(***************************************************************************)
EXTENDS AuthSessions, TLC

CONSTANTS r1, r2, t1, t2, t3

Symmetry == Permutations(Requests) \cup Permutations(Tokens)
=============================================================================
