-------------------------- MODULE MCTelegramLinking --------------------------
(***************************************************************************)
(* Two users, two Telegram accounts, two requests at a time.               *)
(***************************************************************************)
EXTENDS TelegramLinking, TLC

CONSTANTS u1, u2, t1, t2, l1, l2, s1, s2, s3, r1, r2

Symmetry ==
    Permutations({u1, u2}) \cup Permutations({t1, t2}) \cup Permutations({l1, l2})
      \cup Permutations({s1, s2, s3}) \cup Permutations({r1, r2})
=============================================================================
