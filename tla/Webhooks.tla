------------------------------- MODULE Webhooks -------------------------------
(***************************************************************************)
(* Payment notifications: Stripe and Redsys deliver each event at least    *)
(* once, retry it until they get a 2xx, and may deliver it twice at a      *)
(* time; receive_webhook must apply it exactly once.                       *)
(*                                                                         *)
(* receive_webhook is an async handler that runs its database calls on the *)
(* event loop, so an API process handles one notification at a time: a     *)
(* process here is that loop, and several run where the API is scaled or   *)
(* being replaced. Requests of the office run in other threads of such a   *)
(* process, and jobs in the Celery worker, at the same time ("desks"). A   *)
(* request that raises keeps its transaction until the event loop of its   *)
(* process answers it and closes the session get_db opened for it.         *)
(*                                                                         *)
(* PostgreSQL is READ COMMITTED: receipts are read without a lock, and an  *)
(* UPDATE locks the row until its transaction ends. No wait times out.     *)
(*                                                                         *)
(* A process takes one step per statement that may block or that reads     *)
(* what others write. Signatures, provider lookup and batches are left     *)
(* out; a payment that moves a member's plan does so with the receipt.     *)
(***************************************************************************)
EXTENDS ReceiptStatus, Integers

CONSTANTS
  Processes,   \* API processes
  Desks,       \* requests of the office and nightly jobs, one transaction at a time
  LoopOf,      \* the process a desk's request runs in; Nobody is the Celery worker
  Events,      \* external_event_id
  Receipts,
  Nobody,
  KindOf,      \* what each event says: "captured", "expired" or "other"
  ReceiptOf,   \* the receipt it is about
  MaxFaults    \* bound: failures and crashes of the API

ASSUME NobodyIsNobody  == Nobody \notin Processes \union Desks \union Events
ASSUME ActorsAreApart  == Processes \intersect Desks = {}
ASSUME DesksAreHosted  == LoopOf \in [Desks -> Processes \union {Nobody}]
ASSUME KindsAreKnown   == KindOf \in [Events -> {"captured", "expired", "other"}]
ASSUME EventsNameReceipts == ReceiptOf \in [Events -> Receipts]
ASSUME FaultsAreBounded == MaxFaults \in Nat

VARIABLES
  eventStatus,  \* webhook_events.status as committed, "none" before the row exists
  rowHolder,    \* which process has inserted or locked the event's row
  status,       \* receipts.status as committed
  lock,         \* who has updated the receipt's row and not committed
  pc, event, outcome,   \* per process: where it is, on which event, and its result
  job,          \* per desk: <<step, receipt, the status it writes>>, <<>> when idle
  provider,     \* per event: "unsent", "awaiting" a 2xx, or "acked"
  faults,       \* failures so far
  applied,      \* history: how many times each event's effect was committed
  queued,       \* history: how many confirmations were queued for each event
  byDesk        \* history: receipts a desk has marked paid

rowVars  == <<eventStatus, rowHolder>>
receiptVars == <<status, lock>>
runVars  == <<pc, event, outcome>>
history  == <<applied, queued, byDesk>>
vars == <<rowVars, receiptVars, runVars, job, provider, faults, history>>

Settled == {"processed", "ignored"}

\* What applying an event writes on its receipt.
TargetOf == [captured |-> "paid", expired |-> "returned"]

Applies(e, s) == KindOf[e] # "other" /\ CanMove(s, TargetOf[KindOf[e]])

Goto(p, label) == pc' = [pc EXCEPT ![p] = label]

\* The process is free for the next notification.
Rest(p) ==
  /\ Goto(p, "idle")
  /\ event' = [event EXCEPT ![p] = Nobody]
  /\ outcome' = [outcome EXCEPT ![p] = "none"]

Hurt == faults < MaxFaults /\ faults' = faults + 1

------------------------------------------------------------------------------
(* receive_webhook.                                                        *)

\* The provider sends an event: the first time, again because it was not answered 2xx, or
\* once more although it was.
Deliver(p, e) ==
  /\ pc[p] = "idle"
  /\ event' = [event EXCEPT ![p] = e]
  /\ provider' = [provider EXCEPT ![e] = IF @ = "unsent" THEN "awaiting" ELSE @]
  /\ Goto(p, "insert")
  /\ UNCHANGED <<rowVars, receiptVars, outcome, job, faults, history>>

\* log_event: the row goes in; the unique key makes a second inserter wait for the first.
InsertEvent(p) ==
  LET e == event[p] IN
  /\ pc[p] = "insert"
  /\ eventStatus[e] = "none"
  /\ rowHolder[e] = Nobody
  /\ rowHolder' = [rowHolder EXCEPT ![e] = p]
  /\ Goto(p, "read")
  /\ UNCHANGED <<eventStatus, receiptVars, event, outcome, job, provider, faults, history>>

\* ... or is there already: IntegrityError, and the savepoint is rolled back.
InsertConflicts(p) ==
  /\ pc[p] = "insert"
  /\ eventStatus[event[p]] # "none"
  /\ Goto(p, "claim")
  /\ UNCHANGED <<rowVars, receiptVars, event, outcome, job, provider, faults, history>>

\* Mutant: the stored row is not locked before it is looked at.
ClaimUnlocked(p) ==
  LET e == event[p] IN
  /\ pc[p] = "claim"
  /\ eventStatus[e] = "failed"
  /\ rowHolder' = [rowHolder EXCEPT ![e] = p]
  /\ Goto(p, "read")
  /\ UNCHANGED <<eventStatus, receiptVars, event, outcome, job, provider, faults, history>>

\* Mutant: an event that was ignored is tried again as well.
ClaimUnprocessed(p) ==
  LET e == event[p] IN
  /\ pc[p] = "claim"
  /\ rowHolder[e] = Nobody
  /\ eventStatus[e] # "processed"
  /\ rowHolder' = [rowHolder EXCEPT ![e] = p]
  /\ Goto(p, "read")
  /\ UNCHANGED <<eventStatus, receiptVars, event, outcome, job, provider, faults, history>>

\* _claim_failed_event: under FOR UPDATE, an event that failed is taken for another attempt.
ClaimFailedEvent(p) ==
  LET e == event[p] IN
  /\ pc[p] = "claim"
  /\ rowHolder[e] = Nobody
  /\ eventStatus[e] = "failed"
  /\ rowHolder' = [rowHolder EXCEPT ![e] = p]
  /\ Goto(p, "read")
  /\ UNCHANGED <<eventStatus, receiptVars, event, outcome, job, provider, faults, history>>

\* Mutant: every redelivery is a duplicate.
DuplicateWhatever(p) ==
  LET e == event[p] IN
  /\ pc[p] = "claim"
  /\ rowHolder[e] = Nobody
  /\ provider' = [provider EXCEPT ![e] = "acked"]
  /\ Rest(p)
  /\ UNCHANGED <<rowVars, receiptVars, job, faults, history>>

\* ... and a settled one is a duplicate, answered 200.
Duplicate(p) ==
  LET e == event[p] IN
  /\ pc[p] = "claim"
  /\ rowHolder[e] = Nobody
  /\ eventStatus[e] # "failed"
  /\ provider' = [provider EXCEPT ![e] = "acked"]
  /\ Rest(p)
  /\ UNCHANGED <<rowVars, receiptVars, job, faults, history>>

\* handle_webhook reads the receipt, unlocked, and decides whether the event applies.
ReadReceipt(p) ==
  LET e == event[p]
      applies == Applies(e, status[ReceiptOf[e]]) IN
  /\ pc[p] = "read"
  /\ outcome' = [outcome EXCEPT ![p] = IF applies THEN "processed" ELSE "ignored"]
  /\ Goto(p, IF applies THEN "write" ELSE "record")
  /\ UNCHANGED <<rowVars, receiptVars, event, job, provider, faults, history>>

\* Mutant: the confirmation is queued with the write, before the commit.
WriteAndNotify(p) ==
  LET e == event[p]
      r == ReceiptOf[e] IN
  /\ pc[p] = "write"
  /\ lock[r] = Nobody
  /\ lock' = [lock EXCEPT ![r] = p]
  /\ queued' = [queued EXCEPT ![e] = @ + 1]
  /\ Goto(p, "record")
  /\ UNCHANGED <<rowVars, status, event, outcome, job, provider, faults, applied, byDesk>>

\* mark_receipt_paid, or the session that expired: the UPDATE waits for the row, and writes
\* whatever has become of it since it was read.
WriteReceipt(p) ==
  LET r == ReceiptOf[event[p]] IN
  /\ pc[p] = "write"
  /\ lock[r] = Nobody
  /\ lock' = [lock EXCEPT ![r] = p]
  /\ Goto(p, "record")
  /\ UNCHANGED <<rowVars, status, event, outcome, job, provider, faults, history>>

Unlocked(a) == [r \in Receipts |-> IF lock[r] = a THEN Nobody ELSE lock[r]]
RowsWithout(p) == [e \in Events |-> IF rowHolder[e] = p THEN Nobody ELSE rowHolder[e]]

\* Mutant: the failure is recorded, what the handler had written is kept.
HandlerFailsKeepingWrites(p) ==
  /\ pc[p] \in {"read", "write", "record"}
  /\ outcome[p] # "failed"
  /\ Hurt
  /\ outcome' = [outcome EXCEPT ![p] = "failed"]
  /\ Goto(p, "record")
  /\ UNCHANGED <<rowVars, receiptVars, event, job, provider, history>>

\* Mutant: a word the column does not take.
HandlerErrs(p) ==
  /\ pc[p] \in {"read", "write", "record"}
  /\ outcome[p] # "failed"
  /\ Hurt
  /\ outcome' = [outcome EXCEPT ![p] = "error"]
  /\ lock' = Unlocked(p)
  /\ Goto(p, "record")
  /\ UNCHANGED <<rowVars, status, event, job, provider, history>>

\* The handler raises: its savepoint is rolled back, and the event is marked failed.
HandlerFails(p) ==
  /\ pc[p] \in {"read", "write", "record"}
  /\ outcome[p] # "failed"
  /\ Hurt
  /\ outcome' = [outcome EXCEPT ![p] = "failed"]
  /\ lock' = Unlocked(p)
  /\ Goto(p, "record")
  /\ UNCHANGED <<rowVars, status, event, job, provider, history>>

\* What a commit leaves: the event's row with its result, and the receipt p has written.
CommitRows(p) ==
  LET e == event[p] IN
  /\ eventStatus' = [eventStatus EXCEPT ![e] = outcome[p]]
  /\ rowHolder' = RowsWithout(p)
  /\ status' = [r \in Receipts |-> IF lock[r] = p THEN TargetOf[KindOf[e]] ELSE status[r]]
  /\ lock' = Unlocked(p)
  /\ applied' = [applied EXCEPT ![e] = IF outcome[p] = "processed" THEN @ + 1 ELSE @]

AfterCommit(p) ==
  /\ Goto(p, IF outcome[p] = "processed" /\ KindOf[event[p]] = "captured" THEN "dispatch"
             ELSE "answer")
  /\ UNCHANGED <<event, outcome>>

\* Mutant: a failure is answered 200 like everything else.
CommitAnsweringOk(p) ==
  /\ pc[p] = "record"
  /\ CommitRows(p)
  /\ AfterCommit(p)
  /\ UNCHANGED <<job, provider, faults, queued, byDesk>>

\* The event and its effect commit together. A failed one is answered 500, which asks for a
\* retry; the others go on to be confirmed and answered.
Commit(p) ==
  /\ pc[p] = "record"
  /\ CommitRows(p)
  /\ IF outcome[p] = "failed" THEN Rest(p) ELSE AfterCommit(p)
  /\ UNCHANGED <<job, provider, faults, queued, byDesk>>

\* dispatch_payment_notifications: best effort, nothing is queued when the broker is down.
Dispatch(p) ==
  /\ pc[p] = "dispatch"
  /\ \/ queued' = [queued EXCEPT ![event[p]] = @ + 1]
     \/ UNCHANGED queued
  /\ Goto(p, "answer")
  /\ UNCHANGED <<rowVars, receiptVars, event, outcome, job, provider, faults, applied, byDesk>>

\* 200 OK reaches the provider.
Answer(p) ==
  /\ pc[p] = "answer"
  /\ provider' = [provider EXCEPT ![event[p]] = "acked"]
  /\ Rest(p)
  /\ UNCHANGED <<rowVars, receiptVars, job, faults, history>>

Hosted(p) == {d \in Desks : LoopOf[d] = p}

\* The process dies with the requests it was serving: what was not committed is rolled
\* back, and the provider gets no answer.
Crash(p) ==
  /\ pc[p] # "idle"
  /\ Hurt
  /\ rowHolder' = RowsWithout(p)
  /\ lock' = [r \in Receipts |-> IF lock[r] \in {p} \union Hosted(p) THEN Nobody ELSE lock[r]]
  /\ job' = [d \in Desks |-> IF d \in Hosted(p) THEN <<>> ELSE job[d]]
  /\ Rest(p)
  /\ UNCHANGED <<eventStatus, status, provider, history>>

------------------------------------------------------------------------------
(* The office and the nightly jobs, on one receipt at a time: mark paid by *)
(* hand, cancel, return, re-emit, emit, mark overdue. Each reads the       *)
(* receipt, unlocked, checks the transition, writes and commits.           *)

DeskReads(d, r, s) ==
  /\ job[d] = <<>>
  /\ CanMove(status[r], s)
  /\ job' = [job EXCEPT ![d] = <<"write", r, s>>]
  /\ UNCHANGED <<rowVars, receiptVars, runVars, provider, faults, history>>

DeskWrites(d, r, s) ==
  /\ job[d] = <<"write", r, s>>
  /\ lock[r] = Nobody
  /\ lock' = [lock EXCEPT ![r] = d]
  /\ job' = [job EXCEPT ![d] = <<"commit", r, s>>]
  /\ UNCHANGED <<rowVars, status, runVars, provider, faults, history>>

DeskCommits(d, r, s) ==
  /\ job[d] = <<"commit", r, s>>
  /\ status' = [status EXCEPT ![r] = s]
  /\ lock' = Unlocked(d)
  /\ byDesk' = IF s = "paid" THEN byDesk \union {r} ELSE byDesk
  /\ job' = [job EXCEPT ![d] = <<>>]
  /\ UNCHANGED <<rowVars, runVars, provider, faults, applied, queued>>

\* The request or the job raises after its UPDATE (before it, nothing is left to undo).
DeskFails(d, r, s) ==
  /\ job[d] = <<"commit", r, s>>
  /\ job' = [job EXCEPT ![d] = <<"close", r, s>>]
  /\ UNCHANGED <<rowVars, receiptVars, runVars, provider, faults, history>>

\* A notification's database calls block the loop from the first to the last.
LoopIsFree(d) == LoopOf[d] \in Processes => pc[LoopOf[d]] = "idle"

\* The session is closed and the transaction rolled back: a job does it itself, a request
\* when the loop gets to it.
DeskCloses(d, r, s) ==
  /\ job[d] = <<"close", r, s>>
  /\ LoopIsFree(d)
  /\ lock' = Unlocked(d)
  /\ job' = [job EXCEPT ![d] = <<>>]
  /\ UNCHANGED <<rowVars, status, runVars, provider, faults, history>>

------------------------------------------------------------------------------

Init ==
  /\ eventStatus = [e \in Events |-> "none"]
  /\ rowHolder   = [e \in Events |-> Nobody]
  /\ status      \in [Receipts -> {"emitted", "overdue"}]
  /\ lock        = [r \in Receipts |-> Nobody]
  /\ pc          = [p \in Processes |-> "idle"]
  /\ event       = [p \in Processes |-> Nobody]
  /\ outcome     = [p \in Processes |-> "none"]
  /\ job         = [d \in Desks |-> <<>>]
  /\ provider    = [e \in Events |-> "unsent"]
  /\ faults      = 0
  /\ applied     = [e \in Events |-> 0]
  /\ queued      = [e \in Events |-> 0]
  /\ byDesk      = {}

\* What a process does by itself once it has been sent an event.
Proceed(p) ==
  \/ InsertEvent(p)
  \/ InsertConflicts(p)
  \/ ClaimFailedEvent(p)
  \/ Duplicate(p)
  \/ ReadReceipt(p)
  \/ WriteReceipt(p)
  \/ Commit(p)
  \/ Dispatch(p)
  \/ Answer(p)

DeskEnds(d) ==
  \/ \E r \in Receipts, s \in ReceiptStatuses : DeskCommits(d, r, s)
  \/ \E r \in Receipts, s \in ReceiptStatuses : DeskCloses(d, r, s)

DeskStep(d) ==
  \/ \E r \in Receipts, s \in ReceiptStatuses : DeskReads(d, r, s)
  \/ \E r \in Receipts, s \in ReceiptStatuses : DeskWrites(d, r, s)
  \/ \E r \in Receipts, s \in ReceiptStatuses : DeskFails(d, r, s)
  \/ DeskEnds(d)

Next ==
  \/ \E p \in Processes : Proceed(p)
  \/ \E p \in Processes, e \in Events : Deliver(p, e)
  \/ \E p \in Processes : HandlerFails(p)
  \/ \E p \in Processes : Crash(p)
  \/ \E d \in Desks : DeskStep(d)

Spec == Init /\ [][Next]_vars

\* A provider retries what it got no 2xx for.
Redeliver(e) == provider[e] = "awaiting" /\ \E p \in Processes : Deliver(p, e)

\* Row locks are handed over in the order they were asked for and a busy process becomes
\* free again and again, so a request or a retry that keeps getting its chance takes it; a
\* desk that may commit, or be closed, is. Faults are finitely many.
FairSpec ==
  /\ Spec
  /\ \A p \in Processes : SF_vars(Proceed(p))
  /\ \A d \in Desks : SF_vars(DeskEnds(d))
  /\ \A e \in Events : SF_vars(Redeliver(e))

------------------------------------------------------------------------------
(* Correctness.                                                            *)

PCs == {"idle", "insert", "claim", "read", "write", "record", "dispatch", "answer"}

TypeOK ==
  /\ eventStatus \in [Events -> Settled \union {"none", "failed"}]
  /\ rowHolder \in [Events -> Processes \union {Nobody}]
  /\ status    \in [Receipts -> ReceiptStatuses]
  /\ lock      \in [Receipts -> Processes \union Desks \union {Nobody}]
  /\ pc        \in [Processes -> PCs]
  /\ event     \in [Processes -> Events \union {Nobody}]
  /\ outcome   \in [Processes -> Settled \union {"none", "failed"}]
  /\ job       \in [Desks -> {<<>>} \union ({"write", "commit", "close"} \X Receipts \X ReceiptStatuses)]
  /\ provider  \in [Events -> {"unsent", "awaiting", "acked"}]
  /\ faults    \in 0 .. MaxFaults
  /\ applied   \in [Events -> Nat]
  /\ queued    \in [Events -> Nat]
  /\ byDesk    \subseteq Receipts

\* Exactly once: an event's effect was committed once if its row says processed, and never
\* otherwise, whatever failed, crashed or was delivered twice at a time.
AppliedAsRecorded ==
  \A e \in Events : applied[e] = IF eventStatus[e] = "processed" THEN 1 ELSE 0

\* The provider stops retrying only what is settled: "short-circuiting those retries ...
\* meant a payment that failed to apply once ... was never applied at all".
AcknowledgedIsSettled ==
  \A e \in Events : provider[e] = "acked" => eventStatus[e] \in Settled

\* A confirmation is queued for a payment that is committed, and at most once for each.
ConfirmedOnce == \A e \in Events : queued[e] <= applied[e]

\* A receipt is paid because a desk said so or because a capture was processed: a handler
\* that failed leaves the failed event and nothing else.
PaidIsAccounted ==
  \A r \in Receipts : status[r] = "paid" =>
    \/ r \in byDesk
    \/ \E e \in Events :
         ReceiptOf[e] = r /\ KindOf[e] = "captured" /\ eventStatus[e] = "processed"

\* Who is at work on an event has its row, and its row is not settled; who found the row
\* there finds it again.
RowsAreHeld ==
  /\ \A p \in Processes : pc[p] # "idle" => event[p] \in Events
  /\ \A p \in Processes : pc[p] = "claim" => eventStatus[event[p]] # "none"
  /\ \A e \in Events, p \in Processes :
       rowHolder[e] = p <=> pc[p] \in {"read", "write", "record"} /\ event[p] = e
  /\ \A e \in Events : rowHolder[e] # Nobody => eventStatus[e] \notin Settled

\* A process has the lock of the receipt it has written for its event, and no other.
LocksAreHeld ==
  \A r \in Receipts, p \in Processes :
    lock[r] = p <=> pc[p] = "record" /\ outcome[p] = "processed" /\ ReceiptOf[event[p]] = r

\* A desk has no lock but that of the receipt it has written, until it ends.
DeskLocksAreHeld ==
  \A r \in Receipts, d \in Desks :
    lock[r] = d =>
      \E step \in {"commit", "close"}, s \in ReceiptStatuses : job[d] = <<step, r, s>>

\* What a process has decided, it decided for an event that applies or not.
OutcomesFit ==
  \A p \in Processes :
    /\ pc[p] = "write" => outcome[p] = "processed"
    /\ pc[p] = "record" => outcome[p] # "none"
    /\ outcome[p] = "processed" /\ pc[p] \in {"write", "record"} => KindOf[event[p]] # "other"

\* After the commit: the event is settled, and one process at most is about to confirm it.
AfterwardsSettled ==
  \A p \in Processes :
    /\ pc[p] \in {"dispatch", "answer"} => eventStatus[event[p]] \in Settled
    /\ pc[p] = "dispatch" =>
         /\ eventStatus[event[p]] = "processed"
         /\ queued[event[p]] = 0
         /\ \A q \in Processes : pc[q] = "dispatch" /\ event[q] = event[p] => q = p

\* The inductive invariant.
IInv ==
  /\ TypeOK
  /\ RowsAreHeld
  /\ LocksAreHeld
  /\ DeskLocksAreHeld
  /\ OutcomesFit
  /\ AfterwardsSettled
  /\ AppliedAsRecorded
  /\ AcknowledgedIsSettled
  /\ ConfirmedOnce
  /\ PaidIsAccounted

\* What was settled is not looked at again.
SettledStays ==
  \A e \in Events : eventStatus[e] \in Settled => eventStatus'[e] = eventStatus[e]

SettledIsFinal == [][SettledStays]_vars

Ledger == INSTANCE EventLedger
  WITH ruling  <- eventStatus,
       told    <- {e \in Events : provider[e] = "acked"},
       thanked <- {e \in Events : queued[e] > 0}

\* Whatever is delivered twice, fails, crashes or waits, what the providers, the payers and
\* the office see is a step of the promise: each event and its effect at once, and once.
ImplementsEventLedger == Ledger!Spec

\* Every event a provider sends is settled in the end: "Both Stripe and Redsys retry after a
\* 5xx", and a failure, a lock that others hold or a crash only delays it.
EveryEventSettles ==
  \A e \in Events : (provider[e] = "awaiting") ~> (eventStatus[e] \in Settled)

------------------------------------------------------------------------------
(* What the documentation says and the code does not keep.                 *)

\* "a late authorisation must not be dropped, or the member is charged with the receipt left
\* unpaid": a capture is ignored only because the receipt is paid already, or cancelled.
NoAuthorisationDropped ==
  \A e \in Events :
    KindOf[e] = "captured" /\ eventStatus[e] = "ignored"
      => status[ReceiptOf[e]] \in {"paid", "cancelled"}
==============================================================================
