---------------------------- MODULE MCCollection ----------------------------
(***************************************************************************)
(* Bounded instance of Collection: two receipts of one payer, and two      *)
(* batches, so that a receipt can leave one batch and join another.        *)
(***************************************************************************)
EXTENDS Collection, TLC

CONSTANTS r1, r2, b1, b2, ana

OnePayer == (r1 :> ana) @@ (r2 :> ana)

Symmetry == Permutations(Remittances) \union Permutations(Receipts)
=============================================================================
