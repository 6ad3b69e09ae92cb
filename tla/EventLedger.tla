----------------------------- MODULE EventLedger ------------------------------
(***************************************************************************)
(* What payment notifications promise, without processes, locks, retries   *)
(* or crashes: an event is ruled on in one step with its effect on the     *)
(* receipt, for good unless it failed; its provider is told, and its payer *)
(* thanked, only afterwards, and each once. Meanwhile the office moves the *)
(* receipts as it likes.                                                   *)
(***************************************************************************)
EXTENDS ReceiptStatus

CONSTANTS Events, Receipts, KindOf, ReceiptOf

VARIABLES
  ruling,   \* what was decided about each event
  status,   \* of each receipt
  told,     \* the events whose provider need not send them again
  thanked   \* the events whose payer has been sent a confirmation

Final == {"processed", "ignored"}

\* What a capture, or a session that expired, makes of its receipt.
EffectOf == [captured |-> "paid", expired |-> "returned"]

------------------------------------------------------------------------------

\* The event takes effect.
Process(e) ==
  /\ ruling[e] \notin Final /\ KindOf[e] \in DOMAIN EffectOf
  /\ ruling' = [ruling EXCEPT ![e] = "processed"]
  /\ status' = [status EXCEPT ![ReceiptOf[e]] = EffectOf[KindOf[e]]]
  /\ UNCHANGED <<told, thanked>>

\* The event has none, or fails and leaves nothing.
Decline(e, why) ==
  /\ ruling[e] \notin Final
  /\ ruling' = [ruling EXCEPT ![e] = why]
  /\ UNCHANGED <<status, told, thanked>>

Tell(e) ==
  /\ ruling[e] \in Final
  /\ told' = told \cup {e}
  /\ UNCHANGED <<ruling, status, thanked>>

Thank(e) ==
  /\ ruling[e] = "processed" /\ KindOf[e] = "captured"
  /\ e \notin thanked
  /\ thanked' = thanked \cup {e}
  /\ UNCHANGED <<ruling, status, told>>

\* The office, or a nightly job, moves a receipt to a status that is reached from another.
Office(r, s) ==
  /\ \E from \in ReceiptStatuses : CanMove(from, s)
  /\ status' = [status EXCEPT ![r] = s]
  /\ UNCHANGED <<ruling, told, thanked>>

------------------------------------------------------------------------------

Init ==
  /\ ruling = [e \in Events |-> "none"]
  /\ status \in [Receipts -> AwaitingSettlement]
  /\ told = {}
  /\ thanked = {}

Next ==
  \/ \E e \in Events : Process(e) \/ Tell(e) \/ Thank(e)
  \/ \E e \in Events, why \in {"ignored", "failed"} : Decline(e, why)
  \/ \E r \in Receipts, s \in ReceiptStatuses : Office(r, s)

Spec == Init /\ [][Next]_<<ruling, status, told, thanked>>
==============================================================================
