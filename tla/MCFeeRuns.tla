------------------------------ MODULE MCFeeRuns ------------------------------
(***************************************************************************)
(* A bounded instance of FeeRuns: two members, two frequencies, and two    *)
(* transactions open at once.                                              *)
(***************************************************************************)
EXTENDS FeeRuns, TLC

CONSTANTS m1, m2, monthly, annual, s1, s2

Interchangeable == Permutations(Members) \cup Permutations(Sessions)
==============================================================================
