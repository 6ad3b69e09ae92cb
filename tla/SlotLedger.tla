------------------------------ MODULE SlotLedger ------------------------------
(***************************************************************************)
(* What a bookable slot promises, without requests, locks or stale reads:  *)
(* each booking, cancellation and promotion is one step on the slot as it  *)
(* is. A seat is taken only while there is one, nobody has two places, and *)
(* whoever is promoted overtakes only those who were looked at first and   *)
(* found to have lost their tier.                                          *)
(***************************************************************************)
EXTENDS Naturals, FiniteSets

CONSTANTS Rows, Parties, PartyOf, Capacities

VARIABLES
  open,      \* the slot can be booked
  limit,     \* the highest capacity it has had
  place,     \* where each booking stands
  before,    \* who was waiting when a booking joined the line
  entitled,  \* the parties whose tier the space allows
  excused    \* who may be overtaken by the promotion under way

Seated  == {b \in Rows : place[b] = "booked"}
InLine  == {b \in Rows : place[b] = "waitlisted"}

\* A booking of a party that has none.
Newcomer(b) ==
  /\ place[b] = "none"
  /\ \A c \in Seated \cup InLine : PartyOf[c] # PartyOf[b]

------------------------------------------------------------------------------

Seat(b) ==
  /\ open
  /\ Newcomer(b)
  /\ Cardinality(Seated) < limit
  /\ place' = [place EXCEPT ![b] = "booked"]
  /\ UNCHANGED <<open, limit, before, entitled, excused>>

Queue(b) ==
  /\ open
  /\ Newcomer(b)
  /\ place' = [place EXCEPT ![b] = "waitlisted"]
  /\ before' = [before EXCEPT ![b] = InLine]
  /\ UNCHANGED <<open, limit, entitled, excused>>

\* Those in line who have lost their tier are found out, for one promotion.
Look ==
  /\ open
  /\ excused' = {b \in InLine : PartyOf[b] \notin entitled}
  /\ UNCHANGED <<open, limit, place, before, entitled>>

Forget ==
  /\ excused' = {}
  /\ UNCHANGED <<open, limit, place, before, entitled>>

\* A booking is given up, and at most one that waits takes a seat.
Leave(b, promoted) ==
  LET gone  == {b} \cup promoted
      seats == (Seated \ {b}) \cup promoted IN
  /\ open
  /\ place[b] # "none"
  /\ promoted \subseteq InLine /\ Cardinality(promoted) <= 1
  /\ \A c \in promoted : before[c] \cap (InLine \ gone) \subseteq excused
  /\ promoted # {} => Cardinality(seats) <= limit
  /\ place' = [c \in Rows |-> IF c = b THEN "cancelled"
                              ELSE IF c \in promoted THEN "booked" ELSE place[c]]
  /\ before' = [c \in Rows |-> IF c \in gone THEN {} ELSE before[c] \ gone]
  /\ excused' = {}
  /\ UNCHANGED <<open, limit, entitled>>

Resize ==
  /\ open
  /\ limit' \in Capacities /\ limit' >= limit
  /\ UNCHANGED <<open, place, before, entitled, excused>>

ChangeTier(p) ==
  /\ entitled' = (entitled \ {p}) \cup ({p} \ entitled)
  /\ UNCHANGED <<open, limit, place, before, excused>>

\* The slot goes, with whatever bookings it has.
Close ==
  /\ open
  /\ open' = FALSE
  /\ place' = [b \in Rows |-> "none"]
  /\ before' = [b \in Rows |-> {}]
  /\ UNCHANGED <<limit, entitled, excused>>

------------------------------------------------------------------------------

Init ==
  /\ open = TRUE
  /\ limit \in Capacities
  /\ place = [b \in Rows |-> "none"]
  /\ before = [b \in Rows |-> {}]
  /\ entitled = Parties
  /\ excused = {}

Next ==
  \/ \E b \in Rows : Seat(b) \/ Queue(b)
  \/ \E b \in Rows, promoted \in SUBSET Rows : Leave(b, promoted)
  \/ Look \/ Forget \/ Resize \/ Close
  \/ \E p \in Parties : ChangeTier(p)

Spec == Init /\ [][Next]_<<open, limit, place, before, entitled, excused>>
==============================================================================
