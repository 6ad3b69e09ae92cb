------------------------------- MODULE Bookings -------------------------------
(***************************************************************************)
(* One upcoming slot of a paid space: its capacity, its bookings, the      *)
(* waitlist and the receipts of the bookings, while requests run           *)
(* concurrently (PostgreSQL, READ COMMITTED; no autoflush). The slot's row *)
(* is locked FOR UPDATE by who books or cancels.                           *)
(*                                                                         *)
(* A request reads what it reads before the lock in one step, takes the    *)
(* lock and decides in another, and commits or rolls back in a third: only *)
(* then do others see what it wrote. A refusal is the absence of a step,   *)
(* or a Rollback. What only restricts who may ask (dates, deadlines, the   *)
(* owner, is_active, the waitlist's switch) is left free.                  *)
(***************************************************************************)
EXTENDS Naturals, FiniteSets, ReceiptStatus

CONSTANTS
  Rows,        \* bookings that may be inserted
  Parties,
  PartyOf,     \* who each booking is for
  Requests,
  Capacities,  \* the capacities an administrator may set
  Moves,       \* bound: the statuses that billing handlers move a receipt to
  Handled,     \* bound: the bookings whose receipt billing handlers move
  MayChange,   \* bound: the parties whose membership type is changed
  NoRow,
  NoRequest

ASSUME RowsAreFinite     == IsFiniteSet(Rows)
ASSUME RowsHaveParties   == PartyOf \in [Rows -> Parties]
ASSUME SlotHasRoom       == Capacities \subseteq Nat \ {0} /\ Capacities # {}
ASSUME MovesAreStatuses  == Moves \subseteq ReceiptStatuses
ASSUME SomeAreHandled    == Handled \subseteq Rows
ASSUME SomeMayChange     == MayChange \subseteq Parties
ASSUME NoRowIsNoRow      == NoRow \notin Rows
ASSUME NobodyIsNoRequest == NoRequest \notin Requests

VARIABLES
  capacity,   \* space_slots.capacity
  highest,    \* auxiliary: the highest capacity the slot has had
  exists,     \* the slot has not been deleted
  status,     \* bookings.status; "none" where there is no row
  ahead,      \* the rows that were waiting when this one joined: the order of waitlisted_at
  receipt,    \* the status of the booking's receipt, or "none"
  sent,       \* the bookings whose receipt is in a batch at the bank
  eligible,   \* the parties whose membership type the space allows
  holder,     \* who has locked the slot's row
  pc,
  row,        \* the booking a request inserts or cancels
  was,        \* the status it had when the request loaded it
  room,       \* the slot's capacity when the request loaded it
  next,       \* whom the cancellation promotes: one booking or none
  barred,     \* who was waiting and not eligible when it looked
  affected    \* the active bookings a deletion found

slotVars == <<capacity, highest, exists>>
bookVars == <<status, ahead>>
billVars == <<receipt, sent>>
readVars == <<row, was, room>>
planVars == <<next, barred, affected>>
vars == <<slotVars, bookVars, billVars, eligible, holder, pc, readVars, planVars>>

BookingStatuses == {"none", "booked", "waitlisted", "cancelled"}

Booked  == {b \in Rows : status[b] = "booked"}
Waiting == {b \in Rows : status[b] = "waitlisted"}
Active  == Booked \cup Waiting

VoidableStatuses == {"new", "pending", "emitted", "overdue"}

\* void_booking_receipts; cancel_receipt refuses what the bank is collecting, and the
\* refusal is logged.
Voidable(b) == receipt[b] \in VoidableStatuses /\ b \notin sent

\* _member_active_booking
Duplicate(b) == \E c \in Active : PartyOf[c] = PartyOf[b]

\* Mutant: the candidate with the latest waitlisted_at.
LastEligible ==
  {b \in Waiting : /\ PartyOf[b] \in eligible
                   /\ \A c \in Waiting : b \in ahead[c] => PartyOf[c] \notin eligible}

\* The eligible candidate with the earliest waitlisted_at.
FirstEligible ==
  {b \in Waiting : /\ PartyOf[b] \in eligible
                   /\ \A c \in ahead[b] \cap Waiting : PartyOf[c] \notin eligible}

------------------------------------------------------------------------------

LeaveLine(S) == ahead' = [b \in Rows |-> IF b \in S THEN {} ELSE ahead[b] \ S]

Goto(t, label) == pc' = [pc EXCEPT ![t] = label]

Locks(t) == holder = NoRequest /\ holder' = t

\* The end of a request: its session closes, and whatever it had locked is free.
Ends(t) ==
  /\ Goto(t, "idle")
  /\ holder' = IF holder = t THEN NoRequest ELSE holder
  /\ row' = [row EXCEPT ![t] = NoRow]
  /\ was' = [was EXCEPT ![t] = "none"]
  /\ room' = [room EXCEPT ![t] = 0]
  /\ next' = [next EXCEPT ![t] = {}]
  /\ barred' = [barred EXCEPT ![t] = {}]
  /\ affected' = [affected EXCEPT ![t] = {}]

\* Mutant: the slot is read without FOR UPDATE.
BookUnlocked(t, b) ==
  /\ pc[t] = "idle"
  /\ exists
  /\ status[b] = "none" /\ ~Duplicate(b)
  /\ row' = [row EXCEPT ![t] = b]
  /\ Goto(t, IF Cardinality(Booked) < capacity THEN "books" ELSE "waits")
  /\ UNCHANGED <<slotVars, bookVars, billVars, eligible, holder, was, room, planVars>>

\* create_booking: the slot is read under its lock. The tier was read with the request's
\* member, before the lock, and may have changed since: it restricts nothing here.
Book(t, b) ==
  /\ pc[t] = "idle"
  /\ exists
  /\ Locks(t)
  /\ status[b] = "none" /\ ~Duplicate(b)
  /\ row' = [row EXCEPT ![t] = b]
  /\ Goto(t, IF Cardinality(Booked) < capacity THEN "books" ELSE "waits")
  /\ UNCHANGED <<slotVars, bookVars, billVars, eligible, was, room, planVars>>

\* A confirmed booking is billed, if billing does not fail; the seat stands either way.
CommitBook(t) ==
  /\ pc[t] = "books"
  /\ status' = [status EXCEPT ![row[t]] = "booked"]
  /\ receipt' \in {receipt, [receipt EXCEPT ![row[t]] = "emitted"]}
  /\ Ends(t)
  /\ UNCHANGED <<slotVars, ahead, sent, eligible>>

\* Mutant: the new booking takes the status of a registration.
CommitWaitAsRegistration(t) ==
  /\ pc[t] = "waits"
  /\ status' = [status EXCEPT ![row[t]] = "waitlist"]
  /\ ahead' = [ahead EXCEPT ![row[t]] = Waiting]
  /\ Ends(t)
  /\ UNCHANGED <<slotVars, billVars, eligible>>

CommitWait(t) ==
  /\ pc[t] = "waits"
  /\ status' = [status EXCEPT ![row[t]] = "waitlisted"]
  /\ ahead' = [ahead EXCEPT ![row[t]] = Waiting]
  /\ Ends(t)
  /\ UNCHANGED <<slotVars, billVars, eligible>>

------------------------------------------------------------------------------

\* The endpoint's get_booking loads the booking together with its slot, without a lock;
\* cancel_booking refuses a cancelled one before it locks.
LoadCancel(t, b) ==
  /\ pc[t] = "idle"
  /\ exists
  /\ b \in Active
  /\ row' = [row EXCEPT ![t] = b]
  /\ was' = [was EXCEPT ![t] = status[b]]
  /\ room' = [room EXCEPT ![t] = capacity]
  /\ Goto(t, "loaded")
  /\ UNCHANGED <<slotVars, bookVars, billVars, eligible, holder, planVars>>

\* cancel_booking under the lock. FOR UPDATE does not refresh the slot the session has:
\* the count is new, the capacity and the status are those that were loaded.
Cancel(t) ==
  LET frees == was[t] = "booked" /\ Cardinality(Booked \ {row[t]}) < room[t] IN
  /\ pc[t] = "loaded"
  /\ exists
  /\ Locks(t)
  /\ next' = [next EXCEPT ![t] = IF frees THEN FirstEligible ELSE {}]
  /\ barred' = [barred EXCEPT ![t] = {b \in Waiting : PartyOf[b] \notin eligible}]
  /\ Goto(t, "cancels")
  /\ UNCHANGED <<slotVars, bookVars, billVars, eligible, readVars, affected>>

\* Mutant: only a booking that was loaded as booked is taken to owe anything.
CommitCancelVoidingSeats(t) ==
  LET voided == {b \in {row[t]} : Voidable(b) /\ was[t] = "booked"} IN
  /\ pc[t] = "cancels"
  /\ status' = [b \in Rows |-> IF b = row[t] THEN "cancelled"
                               ELSE IF b \in next[t] THEN "booked" ELSE status[b]]
  /\ \E billed \in SUBSET next[t] :
       receipt' = [b \in Rows |-> IF b \in voided THEN "cancelled"
                                  ELSE IF b \in billed THEN "emitted" ELSE receipt[b]]
  /\ LeaveLine({row[t]} \cup next[t])
  /\ Ends(t)
  /\ UNCHANGED <<slotVars, sent, eligible>>

\* The booking is cancelled, its unpaid receipts are voided, and the promoted one is
\* billed like any other confirmation.
CommitCancel(t) ==
  LET voided == {b \in {row[t]} : Voidable(b)} IN
  /\ pc[t] = "cancels"
  /\ status' = [b \in Rows |-> IF b = row[t] THEN "cancelled"
                               ELSE IF b \in next[t] THEN "booked" ELSE status[b]]
  /\ \E billed \in SUBSET next[t] :
       receipt' = [b \in Rows |-> IF b \in voided THEN "cancelled"
                                  ELSE IF b \in billed THEN "emitted" ELSE receipt[b]]
  /\ LeaveLine({row[t]} \cup next[t])
  /\ Ends(t)
  /\ UNCHANGED <<slotVars, sent, eligible>>

\* A refusal after the lock, an error or a crash.
Rollback(t) ==
  /\ pc[t] # "idle"
  /\ Ends(t)
  /\ UNCHANGED <<slotVars, bookVars, billVars, eligible>>

------------------------------------------------------------------------------

\* update_slot and update_space: what was edited is written when the row is free. Lowering
\* the capacity evicts nobody, raising it promotes nobody.
UpdateSlot(n) ==
  /\ exists
  /\ holder = NoRequest
  /\ capacity' = n
  /\ highest' = IF n > highest THEN n ELSE highest
  /\ UNCHANGED <<exists, bookVars, billVars, eligible, holder, pc, readVars, planVars>>

\* delete_slot and delete_space (and update_space, when it narrows the hours) look for
\* active bookings without a lock ...
LoadDelete(t) ==
  /\ pc[t] = "idle"
  /\ exists
  /\ affected' = [affected EXCEPT ![t] = Active]
  /\ Goto(t, "deletes")
  /\ UNCHANGED <<slotVars, bookVars, billVars, eligible, holder, readVars, next, barred>>

\* Mutant: the row is deleted whoever has locked it.
CommitDeleteUnlocked(t) ==
  /\ pc[t] = "deletes"
  /\ exists
  /\ exists' = FALSE
  /\ status' = [b \in Rows |-> "none"]
  /\ LeaveLine(Rows)
  /\ receipt' = [b \in Rows |-> IF b \in affected[t] /\ Voidable(b)
                                  THEN "cancelled" ELSE receipt[b]]
  /\ Ends(t)
  /\ UNCHANGED <<capacity, highest, sent, eligible>>

\* ... void what those owe, and delete the slot with whatever bookings it has by then.
CommitDelete(t) ==
  /\ pc[t] = "deletes"
  /\ exists /\ holder = NoRequest
  /\ exists' = FALSE
  /\ status' = [b \in Rows |-> "none"]
  /\ LeaveLine(Rows)
  /\ receipt' = [b \in Rows |-> IF b \in affected[t] /\ Voidable(b)
                                  THEN "cancelled" ELSE receipt[b]]
  /\ Ends(t)
  /\ UNCHANGED <<capacity, highest, sent, eligible>>

\* A member's membership type is changed.
ChangeTier(p) ==
  /\ eligible' = (eligible \ {p}) \cup ({p} \ eligible)
  /\ UNCHANGED <<slotVars, bookVars, billVars, holder, pc, readVars, planVars>>

\* What the billing handlers do to the receipt of an active booking; one at the bank is not
\* cancelled.
MoveReceipt(b, to) ==
  /\ b \in Active
  /\ CanMove(receipt[b], to)
  /\ ~(to = "cancelled" /\ b \in sent)
  /\ receipt' = [receipt EXCEPT ![b] = to]
  /\ sent' = IF to \in AwaitingSettlement THEN sent ELSE sent \ {b}
  /\ UNCHANGED <<slotVars, bookVars, eligible, holder, pc, readVars, planVars>>

\* The batch the receipt is in is submitted.
SendReceipt(b) ==
  /\ b \in Active
  /\ receipt[b] \in AwaitingSettlement
  /\ sent' = sent \cup {b}
  /\ UNCHANGED <<slotVars, bookVars, receipt, eligible, holder, pc, readVars, planVars>>

------------------------------------------------------------------------------

Init ==
  /\ capacity \in Capacities
  /\ highest = capacity
  /\ exists = TRUE
  /\ status = [b \in Rows |-> "none"]
  /\ ahead = [b \in Rows |-> {}]
  /\ receipt = [b \in Rows |-> "none"]
  /\ sent = {}
  /\ eligible = Parties
  /\ holder = NoRequest
  /\ pc = [t \in Requests |-> "idle"]
  /\ row = [t \in Requests |-> NoRow]
  /\ was = [t \in Requests |-> "none"]
  /\ room = [t \in Requests |-> 0]
  /\ next = [t \in Requests |-> {}]
  /\ barred = [t \in Requests |-> {}]
  /\ affected = [t \in Requests |-> {}]

Step(t) ==
  \/ \E b \in Rows : Book(t, b) \/ LoadCancel(t, b)
  \/ CommitBook(t)
  \/ CommitWait(t)
  \/ Cancel(t)
  \/ CommitCancel(t)
  \/ Rollback(t)
  \/ LoadDelete(t)
  \/ CommitDelete(t)

Next ==
  \/ \E t \in Requests : Step(t)
  \/ \E n \in Capacities : UpdateSlot(n)
  \/ \E p \in MayChange : ChangeTier(p)
  \/ \E b \in Handled : SendReceipt(b) \/ \E to \in Moves : MoveReceipt(b, to)

Spec == Init /\ [][Next]_vars
------------------------------------------------------------------------------

Labels == {"idle", "loaded", "books", "waits", "cancels", "deletes"}

\* Types: statuses stay in the vocabulary of the table's check constraint, a request
\* promotes at most one booking, and nobody holds the lock without deciding under it.
TypeOK ==
  /\ capacity \in Capacities /\ highest \in Capacities
  /\ exists \in BOOLEAN
  /\ status \in [Rows -> BookingStatuses]
  /\ ahead \in [Rows -> SUBSET Rows]
  /\ receipt \in [Rows -> ReceiptStatuses \cup {"none"}]
  /\ sent \subseteq Rows
  /\ eligible \subseteq Parties
  /\ holder \in Requests \cup {NoRequest}
  /\ pc \in [Requests -> Labels]
  /\ row \in [Requests -> Rows \cup {NoRow}]
  /\ was \in [Requests -> BookingStatuses]
  /\ room \in [Requests -> Capacities \cup {0}]
  /\ next \in [Requests -> SUBSET Rows]
  /\ barred \in [Requests -> SUBSET Rows]
  /\ affected \in [Requests -> SUBSET Rows]

\* However requests interleave, and however stale what a cancellation loaded, the slot
\* never holds more bookings than the highest capacity it has had (lowering the capacity
\* evicts nobody, and a promotion may still count with the capacity it loaded).
NeverOverbooked == Cardinality(Booked) <= highest

\* A member never has two active bookings of the slot: the check made under the slot's
\* lock is enough, and the partial unique index never has to refuse an insert.
OneRowEach == \A b, c \in Active : PartyOf[b] = PartyOf[c] => b = c

\* Promotion is in order of arrival: whoever still waits and arrived before a promoted
\* booking was not eligible when the promotion looked.
PromotedInOrder ==
  [][\A b \in Rows : status[b] = "waitlisted" /\ status'[b] = "booked" =>
       \A c \in ahead[b] : status'[c] = "waitlisted" => \E t \in Requests : c \in barred[t]]_vars

\* Whichever path confirmed it, and whenever it was confirmed, a booking that is cancelled
\* leaves no receipt in a voidable status, unless the bank is collecting it.
CancelVoids ==
  [][\A b \in Rows : status[b] \in {"booked", "waitlisted"} /\ status'[b] = "cancelled" =>
       receipt'[b] \notin VoidableStatuses \/ b \in sent']_vars

\* Requests that lock, read what is stale and fail do what SlotLedger does in single steps:
\* the slot's lock is a serialization point for seats, line and promotion, as the module says.
Ledger == INSTANCE SlotLedger WITH
  open     <- exists,
  limit    <- highest,
  place    <- status,
  before   <- ahead,
  entitled <- eligible,
  excused  <- UNION {barred[t] : t \in Requests}

ImplementsSlotLedger == Ledger!Spec

\* cancel_booking says it promotes the earliest waitlisted member if a seat frees: when a
\* booked member's cancellation commits, the slot is full again or nobody who was eligible
\* when it looked still waits.
SeatIsPassedOn ==
  [][\A b \in Rows : status[b] = "booked" /\ status'[b] = "cancelled" =>
       \/ Cardinality(Booked') >= capacity
       \/ \A c \in Waiting' : \E t \in Requests : c \in barred[t]]_vars
------------------------------------------------------------------------------

\* The invariant that makes these inductive. Who decides holds the lock, and nobody else.
LockIsHeld ==
  \A t \in Requests : pc[t] \in {"books", "waits", "cancels"} <=> holder = t

\* What a request found about the row it inserts, cancels or promotes is still so.
InsertIsFree ==
  \A t \in Requests : pc[t] \in {"books", "waits"} =>
    row[t] \in Rows /\ status[row[t]] = "none" /\ ~Duplicate(row[t])

PromotionStands ==
  \A t \in Requests :
    /\ pc[t] \in {"loaded", "cancels"} => row[t] \in Rows
    /\ pc[t] = "cancels" =>
         /\ next[t] \subseteq Waiting
         /\ \A b, c \in next[t] : b = c
         /\ \A b \in next[t] : ahead[b] \cap Waiting \subseteq barred[t]

\* There is a seat, by a capacity the slot has had, for whoever is about to take one.
SeatIsThere ==
  /\ capacity <= highest
  /\ \A t \in Requests :
       /\ room[t] <= highest
       /\ pc[t] = "books" => Cardinality(Booked) < highest
       /\ pc[t] = "cancels" /\ next[t] # {} => Cardinality(Booked \ {row[t]}) < highest

LineIsTotal == \A b, c \in Waiting : b = c \/ b \in ahead[c] \/ c \in ahead[b]

\* The inductive invariant.
IInv ==
  /\ TypeOK
  /\ LockIsHeld
  /\ InsertIsFree
  /\ PromotionStands
  /\ SeatIsThere
  /\ LineIsTotal
  /\ OneRowEach
  /\ NeverOverbooked
==============================================================================
