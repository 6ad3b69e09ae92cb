------------------------------ MODULE MCBookings ------------------------------
(***************************************************************************)
(* Bounded instance of Bookings: two requests at a time, three members and *)
(* a second booking for one of them, on a slot with one or two seats.      *)
(***************************************************************************)
EXTENDS Bookings, TLC

CONSTANTS b1, b2, b3, b4, p1, p2, p3, t1, t2

FourRows == b1 :> p1 @@ b2 :> p2 @@ b3 :> p3 @@ b4 :> p1

\* The requests are alike, and so are the two rows of one member.
Alike == Permutations({t1, t2}) \cup Permutations({b1, b4})
==============================================================================
