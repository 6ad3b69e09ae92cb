--------------------------- MODULE MCRegistrations ---------------------------
(***************************************************************************)
(* A bounded instance of Registrations: one modality beside the activity's *)
(* own seats, one code, and two transactions open at once.                 *)
(***************************************************************************)
EXTENDS Registrations, TLC

CONSTANTS p1, p2, p3, morning, b1, b2, b3, s1, s2

ThreeRows == 1 .. 3

\* A free place with the code, and a paid one in the morning.
SeatsOnOffer == {[mod |-> NoModality, code |-> TRUE, fee |-> FALSE],
                 [mod |-> morning, code |-> FALSE, fee |-> TRUE]}

OneSeat == [m \in {morning} |-> 1]

Interchangeable == Permutations(Parties) \cup Permutations(Bills) \cup Permutations(Sessions)
==============================================================================
