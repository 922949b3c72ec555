-------------------------- MODULE MCMaterialReview --------------------------
(***************************************************************************)
(* Instances of MaterialReview for TLC.  Two requests overlap; the request *)
(* slots are interchangeable, and so are the uploads that are not PDF.     *)
(***************************************************************************)
EXTENDS MaterialReview, TLC

CONSTANTS r1, r2, f1, f2, f3

Symmetry == Permutations({r1, r2}) \cup Permutations({f2, f3})
=============================================================================
