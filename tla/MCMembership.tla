----------------------------- MODULE MCMembership -----------------------------
(***************************************************************************)
(* A bounded instance of Membership: two priced plans, and a free one or   *)
(* two.                                                                    *)
(***************************************************************************)
EXTENDS Membership

CONSTANTS m1, m2, r1, r2, r3, gold, silver, free, basic
==============================================================================
