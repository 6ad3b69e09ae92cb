----------------------------- MODULE PeriodLedger -----------------------------
(***************************************************************************)
(* What the raising of membership fees promises, without open transactions,*)
(* savepoints or locks: a run bills, in one step, members without a fee    *)
(* for a period that is not billed yet, and records the period as billed   *)
(* with them; a run that fails bills nobody. Fees raised by hand leave no  *)
(* record. Of a contested period the ledger promises less: whom it bills   *)
(* may have a fee.                                                         *)
(***************************************************************************)
EXTENDS Naturals

CONSTANTS Members, Frequencies

VARIABLES
  billed,     \* how many fees each member has for a period
  record,     \* the outcome of the period's run
  contested   \* the periods raised twice at once

vars == <<billed, record, contested>>

Add(fees) ==
  billed' = [m \in Members |-> [f \in Frequencies |->
               IF <<m, f>> \in fees THEN billed[m][f] + 1 ELSE billed[m][f]]]

\* Whoever is billed has no fee for the period.
AreDue(fees) ==
  \A m \in Members, f \in Frequencies :
    <<m, f>> \in fees => f \in contested \/ billed[m][f] = 0

\* A failed period may be billed later, a billed one is closed.
RecordGrows ==
  \A f \in Frequencies :
    \/ record'[f] = record[f]
    \/ record[f] # "success" /\ record'[f] = "success"
    \/ record[f] = "none" /\ record'[f] = "failed"

\* Every frequency that is due, in one transaction.
Run(fees) ==
  /\ AreDue(fees)
  /\ Add(fees)
  /\ RecordGrows
  /\ \A m \in Members, f \in Frequencies : <<m, f>> \in fees =>
       /\ record'[f] = "success"
       /\ f \in contested \/ record[f] # "success"
  /\ UNCHANGED contested

ByHand(fees) ==
  /\ AreDue(fees)
  /\ \A p, q \in fees : p[2] = q[2]
  /\ Add(fees)
  /\ UNCHANGED <<record, contested>>

Cancel(m, f) ==
  /\ billed[m][f] > 0
  /\ billed' = [billed EXCEPT ![m] = [billed[m] EXCEPT ![f] = billed[m][f] - 1]]
  /\ UNCHANGED <<record, contested>>

Contest(f) ==
  /\ contested' = contested \cup {f}
  /\ UNCHANGED <<billed, record>>

Init ==
  /\ billed = [m \in Members |-> [f \in Frequencies |-> 0]]
  /\ record = [f \in Frequencies |-> "none"]
  /\ contested = {}

Next ==
  \/ \E fees \in SUBSET (Members \X Frequencies) : Run(fees) \/ ByHand(fees)
  \/ \E m \in Members, f \in Frequencies : Cancel(m, f)
  \/ \E f \in Frequencies : Contest(f)

Spec == Init /\ [][Next]_vars
==============================================================================
