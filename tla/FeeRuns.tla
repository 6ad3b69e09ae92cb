------------------------------- MODULE FeeRuns -------------------------------
(***************************************************************************)
(* The runs that raise membership fees: the scheduled run, which bills     *)
(* every frequency that is due in one transaction, an administrator's run  *)
(* of one frequency, and fees raised by hand for a period. A run leaves a  *)
(* row in billing_runs for each frequency and period; the fees, and the    *)
(* rows, are there for others once the transaction commits.                *)
(*                                                                         *)
(* A frequency stands for its current period. Whether a member has a fee   *)
(* for the period is read without a lock, and then the fee's number is     *)
(* drawn under the lock of the number series, which is kept to the end of  *)
(* the transaction, or of the savepoint a failure rolls back.              *)
(***************************************************************************)
EXTENDS Naturals, FiniteSets

CONSTANTS
  Members,
  Frequencies,
  Sessions,
  MaxRuns,      \* bound: transactions begun
  MaxChanges,   \* bound: plans changed and fees cancelled
  NoMember, NoFrequency, Idle, Free

ASSUME BoundsAreCounts == {MaxRuns, MaxChanges} \subseteq Nat
ASSUME NothingIsNothing ==
  NoMember \notin Members /\ NoFrequency \notin Frequencies /\ Free \notin Sessions

VARIABLES
  plan,      \* the billing frequency of the member's plan
  fees,      \* how many fees for a frequency's period, not cancelled, the member was billed
  log,       \* billing_runs.status for a frequency's period; "none" without a row
  work,      \* what an open transaction has read, raised and written
  number,    \* who holds the lock of the number series
  begun,     \* transactions begun, for MaxRuns
  changes,   \* plans changed and fees cancelled, for MaxChanges
  raced      \* auxiliary: the frequencies raised by two at once that no row keeps apart

vars == <<plan, fees, log, work, number, begun, changes, raced>>

Blank == [kind |-> "run", rest |-> {}, freq |-> NoFrequency, found |-> "none",
          people |-> {}, checked |-> NoMember, raised |-> {}, mark |-> {},
          result |-> "success", wrote |-> [f \in Frequencies |-> "none"]]

WorkType ==
  [kind : {"run", "byhand"}, rest : SUBSET Frequencies,
   freq : Frequencies \cup {NoFrequency}, found : {"none", "failed"},
   people : SUBSET Members, checked : Members \cup {NoMember},
   raised : SUBSET (Members \X Frequencies), mark : SUBSET (Members \X Frequencies),
   result : {"success", "failed"},
   wrote : [Frequencies -> {"none", "kept", "success", "failed"}]]

ASSUME IdleIsNoWork == Idle \notin WorkType

Open(s) == work[s] # Idle

\* Who else is raising fees for the period, or is done with it and not committed yet.
Others(s, f) ==
  {t \in Sessions \ {s} : Open(t) /\ (work[t].freq = f \/ work[t].wrote[f] # "none")}

\* Two at once are kept apart by the row they both insert, unless one is by hand, which
\* inserts none, or they both found the row of a run that failed.
Race(s, f, unkept) ==
  raced' = IF \E t \in Others(s, f) : unkept \/ work[t].kind = "byhand"
           THEN raced \cup {f} ELSE raced

------------------------------------------------------------------------------

\* run_scheduled_billing, for what is due, or run_billing from the endpoint, for one.
BeginRun(s, due) ==
  /\ ~Open(s) /\ begun < MaxRuns
  /\ due # {}
  /\ begun' = begun + 1
  /\ work' = [work EXCEPT ![s] = [Blank EXCEPT !.rest = due]]
  /\ UNCHANGED <<plan, fees, log, number, changes, raced>>

\* generate_membership_fees from its endpoint: everybody, whatever their frequency.
BeginByHand(s, f) ==
  /\ ~Open(s) /\ begun < MaxRuns
  /\ begun' = begun + 1
  /\ work' = [work EXCEPT ![s] = [Blank EXCEPT !.kind = "byhand", !.freq = f,
                                               !.people = Members]]
  /\ Race(s, f, TRUE)
  /\ UNCHANGED <<plan, fees, log, number, changes>>

\* run_billing: a period that has been billed is not billed again.
Billed(f) == log[f] = "success"

\* run_billing, up to its savepoint, and the members generate_membership_fees reads.
StartFrequency(s, f) ==
  /\ Open(s) /\ work[s].freq = NoFrequency /\ f \in work[s].rest
  /\ IF Billed(f)
     THEN /\ work' = [work EXCEPT ![s] = [work[s] EXCEPT !.rest = @ \ {f}]]
          /\ raced' = raced
     ELSE /\ work' = [work EXCEPT ![s] =
               [work[s] EXCEPT !.freq = f, !.found = log[f],
                               !.people = {m \in Members : plan[m] = f},
                               !.mark = work[s].raised, !.result = "success"]]
          /\ Race(s, f, log[f] = "failed")
  /\ UNCHANGED <<plan, fees, log, number, begun, changes>>

\* Mutant: a member is billed whether or not there is a fee for the period.
CheckNothing(s, m, other) ==
  LET f == work[s].freq IN
  /\ Open(s) /\ work[s].checked = NoMember /\ m \in work[s].people
  /\ work' = [work EXCEPT ![s] = [work[s] EXCEPT !.checked = m]]
  /\ UNCHANGED <<plan, fees, log, number, begun, changes, raced>>

\* generate_membership_fees skips a member who has a fee for the period, or another receipt
\* of it: one from a purchase, or made by hand, neither of which looks for fees.
Check(s, m, other) ==
  LET f == work[s].freq IN
  /\ Open(s) /\ work[s].checked = NoMember /\ m \in work[s].people
  /\ work' = [work EXCEPT ![s] = IF fees[m][f] > 0 \/ other
                                 THEN [work[s] EXCEPT !.people = @ \ {m}]
                                 ELSE [work[s] EXCEPT !.checked = m]]
  /\ UNCHANGED <<plan, fees, log, number, begun, changes, raced>>

\* generate_receipt_number waits for the lock of the series; the fee is inserted.
RaiseFee(s) ==
  LET m == work[s].checked IN
  /\ Open(s) /\ m # NoMember
  /\ number \in {Free, s}
  /\ number' = s
  /\ work' = [work EXCEPT ![s] =
       [work[s] EXCEPT !.checked = NoMember, !.people = @ \ {m},
                       !.raised = @ \cup {<<m, work[s].freq>>}]]
  /\ UNCHANGED <<plan, fees, log, begun, changes, raced>>

\* Mutant: there is no savepoint, and what the frequency raised is committed with the rest.
FailKeepingFees(s) ==
  /\ Open(s) /\ work[s].kind = "run" /\ work[s].freq # NoFrequency
  /\ work[s].result = "success"
  /\ work' = [work EXCEPT ![s] =
       [work[s] EXCEPT !.people = {}, !.checked = NoMember, !.result = "failed"]]
  /\ UNCHANGED <<plan, fees, log, number, begun, changes, raced>>

\* An exception inside the savepoint: what it raised and locked goes, and the run is to be
\* recorded as failed.
FailFrequency(s) ==
  /\ Open(s) /\ work[s].kind = "run" /\ work[s].freq # NoFrequency
  /\ work[s].result = "success"
  /\ work' = [work EXCEPT ![s] =
       [work[s] EXCEPT !.people = {}, !.checked = NoMember,
                       !.raised = work[s].mark, !.result = "failed"]]
  /\ number' = IF number = s /\ work[s].mark = {} THEN Free ELSE number
  /\ UNCHANGED <<plan, fees, log, begun, changes, raced>>

Generated(s) == work[s].freq # NoFrequency /\ work[s].people = {} /\ work[s].checked = NoMember

\* The row of the run is inserted, or updated where one was found; the transaction that
\* has written it keeps others waiting.
RowIsFree(s, f) == \A t \in Sessions \ {s} : Open(t) => work[t].wrote[f] = "none"

\* The ORM writes nothing where the outcome is the one that was found.
Outcome(s) == IF work[s].result = work[s].found THEN "kept" ELSE work[s].result

LogRun(s) ==
  LET f == work[s].freq IN
  /\ Open(s) /\ work[s].kind = "run" /\ Generated(s)
  /\ RowIsFree(s, f)
  /\ work[s].found = "none" => log[f] = "none"
  /\ work' = [work EXCEPT ![s] =
       [work[s] EXCEPT !.wrote = [work[s].wrote EXCEPT ![f] = Outcome(s)],
                       !.freq = NoFrequency, !.rest = @ \ {f}]]
  /\ UNCHANGED <<plan, fees, log, number, begun, changes, raced>>

Done(s) ==
  IF work[s].kind = "run" THEN work[s].freq = NoFrequency /\ work[s].rest = {}
  ELSE Generated(s)

Commit(s) ==
  /\ Open(s) /\ Done(s)
  /\ fees' = [m \in Members |-> [f \in Frequencies |->
                IF <<m, f>> \in work[s].raised THEN fees[m][f] + 1 ELSE fees[m][f]]]
  /\ log' = [f \in Frequencies |->
               IF work[s].wrote[f] \in {"none", "kept"} THEN log[f] ELSE work[s].wrote[f]]
  /\ work' = [work EXCEPT ![s] = Idle]
  /\ number' = IF number = s THEN Free ELSE number
  /\ UNCHANGED <<plan, begun, changes, raced>>

\* Mutant: the session is given up without rolling back.
LeaveOpen(s) ==
  /\ Open(s)
  /\ work' = [work EXCEPT ![s] = Idle]
  /\ UNCHANGED <<plan, fees, log, number, begun, changes, raced>>

\* The row is there by now (uq_billing_runs_frequency_period), an exception outside the
\* savepoint, or the process dies: the whole transaction goes, every frequency of it.
Rollback(s) ==
  /\ Open(s)
  /\ work' = [work EXCEPT ![s] = Idle]
  /\ number' = IF number = s THEN Free ELSE number
  /\ UNCHANGED <<plan, fees, log, begun, changes, raced>>

------------------------------------------------------------------------------

\* A member is put on a plan of another frequency.
ChangePlan(m, f) ==
  /\ changes < MaxChanges
  /\ f # plan[m]
  /\ plan' = [plan EXCEPT ![m] = f]
  /\ changes' = changes + 1
  /\ UNCHANGED <<fees, log, work, number, begun, raced>>

\* A fee is cancelled: it does not stand in the way of another.
CancelFee(m, f) ==
  /\ changes < MaxChanges
  /\ fees[m][f] > 0
  /\ fees' = [fees EXCEPT ![m][f] = @ - 1]
  /\ changes' = changes + 1
  /\ UNCHANGED <<plan, log, work, number, begun, raced>>

Init ==
  /\ plan \in [Members -> Frequencies]
  /\ fees = [m \in Members |-> [f \in Frequencies |-> 0]]
  /\ log = [f \in Frequencies |-> "none"]
  /\ work = [s \in Sessions |-> Idle]
  /\ number = Free
  /\ begun = 0
  /\ changes = 0
  /\ raced = {}

Step(s) ==
  \/ \E due \in SUBSET Frequencies : BeginRun(s, due)
  \/ \E f \in Frequencies : BeginByHand(s, f) \/ StartFrequency(s, f)
  \/ \E m \in Members, other \in BOOLEAN : Check(s, m, other)
  \/ RaiseFee(s)
  \/ FailFrequency(s)
  \/ LogRun(s)
  \/ Commit(s)
  \/ Rollback(s)

Next ==
  \/ \E s \in Sessions : Step(s)
  \/ \E m \in Members, f \in Frequencies : ChangePlan(m, f) \/ CancelFee(m, f)

Spec == Init /\ [][Next]_vars
------------------------------------------------------------------------------

\* Types: an open transaction bills members that exist, and only who has raised a fee, and
\* not lost it, holds the lock of the numbers.
TypeOK ==
  /\ plan \in [Members -> Frequencies]
  /\ fees \in [Members -> [Frequencies -> Nat]]
  /\ log \in [Frequencies -> {"none", "success", "failed"}]
  /\ work \in [Sessions -> WorkType \cup {Idle}]
  /\ number \in Sessions \cup {Free}
  /\ number # Free => Open(number) /\ work[number].raised # {}
  /\ begun \in 0 .. MaxRuns
  /\ changes \in 0 .. MaxChanges
  /\ raced \subseteq Frequencies

\* A member has one fee for a period, through concurrent runs, failures, retries and
\* rollbacks: the row two runs both insert lets one of them commit. Raising fees by hand
\* during a run, and two retries of a failed run at once, are the exceptions. A plan bought,
\* or a receipt made by hand, for the period is no fee billed here.
BilledOnce == \A m \in Members, f \in Frequencies : f \in raced \/ fees[m][f] <= 1

\* A period that was billed stays billed: the record of a successful run never changes,
\* and no run raises a fee for the period after it.
OncePerPeriod ==
  [][\A f \in Frequencies : log[f] = "success" =>
       /\ log'[f] = "success"
       /\ \/ f \in raced
          \/ \A m \in Members :
               fees'[m][f] > fees[m][f] =>
                 \E s \in Sessions : Open(s) /\ work'[s] = Idle /\ work[s].kind = "byhand"]_vars

\* However many transactions are open, whatever fails in its savepoint and is retried, the
\* runs do in their commits what PeriodLedger does in single steps: a member is billed with
\* the record of the period, or not at all.
Ledger == INSTANCE PeriodLedger WITH billed <- fees, record <- log, contested <- raced

ImplementsPeriodLedger == Ledger!Spec
==============================================================================
