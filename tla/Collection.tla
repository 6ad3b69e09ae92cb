------------------------------ MODULE Collection ------------------------------
(***************************************************************************)
(* SEPA collection: receipts, the remittances (batches) that collect them  *)
(* and the file each batch sends to the bank.                              *)
(*                                                                         *)
(* One action per request handler, job or provider notification of         *)
(* domains/billing that changes a receipt's status, its link to a batch,   *)
(* a batch, its history rows or its file. Each handler runs in one         *)
(* database transaction and is one step here; a refusal (HTTP 4xx) changes *)
(* nothing and is the absence of the step.                                 *)
(*                                                                         *)
(* Abstracted: a receipt is its status, total and remittance_id. What only *)
(* restricts who may be chosen is free: any unpaid receipt may fall past   *)
(* due, any may be a plan purchase, one that is not batchable is never     *)
(* picked for a batch, and a batch whose collection date is past is not    *)
(* moved. Document numbers, credit notes and the creditor's own settings   *)
(* are left out.                                                           *)
(***************************************************************************)
EXTENDS ReceiptStatus, Integers, FiniteSets, FiniteSetsExt

CONSTANTS
  Receipts,          \* receipt ids
  Remittances,       \* remittance ids
  Parties,           \* who a receipt is addressed to
  Amounts,           \* totals a receipt may carry
  NoBatch,           \* remittance_id IS NULL
  PartyOf,           \* receipt -> party
  FromRegistration   \* receipts raised for an activity registration

ASSUME FiniteReceipts      == IsFiniteSet(Receipts)
ASSUME NoBatchIsNoBatch    == NoBatch \notin Remittances
ASSUME AmountsAreNaturals  == Amounts \subseteq Nat
ASSUME EveryReceiptHasParty == PartyOf \in [Receipts -> Parties]
ASSUME RegistrationReceipts == FromRegistration \subseteq Receipts

VARIABLES
  status,      \* receipts.status, "none" before the row exists
  amount,      \* receipts.total_amount
  link,        \* receipts.remittance_id
  batch,       \* remittances.status, "none" before the row exists
  count,       \* remittances.receipt_count
  total,       \* remittances.total_amount
  history,     \* remittance_receipts: "none", "held" or the release reason
  sent,        \* remittance_receipts.amount_sent
  filePath,    \* remittances.sepa_file_path is set
  disk,        \* the lines <<receipt, amount>> of the stored file; {} is no file
  mandated     \* parties with an active mandate

receiptVars == <<status, amount, link>>
counterVars == <<count, total>>
historyVars == <<history, sent>>
fileVars    == <<filePath, disk>>
vars == <<receiptVars, batch, counterVars, historyVars, fileVars, mandated>>

------------------------------------------------------------------------------
(* What a batch holds.                                                     *)

Held(b) == {r \in Receipts : link[r] = b}

\* What a set of receipts asks the bank for: the lines generate_sepa_xml writes for it.
Lines(rows) == {<<r, amount[r]>> : r \in rows}

TotalOf(lines) == MapThenSumSet(LAMBDA line : line[2], lines)

InFlight(r)      == link[r] \in Remittances /\ batch[link[r]] \in BatchSent
InOpenBatch(r)   == link[r] \in Remittances /\ batch[link[r]] \in BatchOpen
InStep(b)        == count[b] = Cardinality(Held(b)) /\ total[b] = TotalOf(Lines(Held(b)))
HasMandates(b)   == \A r \in Held(b) : PartyOf[r] \in mandated

\* recount_remittance: the counters of batch b once rows are what it holds.
Recount(b, rows) ==
  /\ count' = [count EXCEPT ![b] = Cardinality(rows)]
  /\ total' = [total EXCEPT ![b] = TotalOf(Lines(rows))]

\* mark_released_in_history for receipt r in batch b: only an unreleased row changes.
MarkReleased(b, r, reason) ==
  history' = [history EXCEPT ![b][r] = IF @ = "held" THEN reason ELSE @]

\* Mutant: the counters are not told (the batch claims more than it holds).
ReleaseUncounted(r, reason) ==
  /\ link' = [link EXCEPT ![r] = NoBatch]
  /\ IF link[r] \in Remittances
     THEN MarkReleased(link[r], r, reason)
     ELSE UNCHANGED history
  /\ UNCHANGED counterVars

\* Mutant: a batch that has been sent is recounted like any other.
ReleaseRecountingAlways(r, reason) ==
  /\ link' = [link EXCEPT ![r] = NoBatch]
  /\ IF link[r] \in Remittances
     THEN MarkReleased(link[r], r, reason) /\ Recount(link[r], Held(link[r]) \ {r})
     ELSE UNCHANGED <<history, counterVars>>

\* release_from_open_batch: the link always goes, the counters follow only while
\* the batch has not been sent.
Release(r, reason) ==
  /\ link' = [link EXCEPT ![r] = NoBatch]
  /\ IF link[r] \in Remittances
     THEN MarkReleased(link[r], r, reason)
     ELSE UNCHANGED history
  /\ IF InOpenBatch(r)
     THEN Recount(link[r], Held(link[r]) \ {r})
     ELSE UNCHANGED counterVars

SetStatus(r, s) == status' = [status EXCEPT ![r] = s]

------------------------------------------------------------------------------
(* Receipts: creation and edition.                                         *)

RaiseAs(r, a, s) ==
  /\ status[r] = "none"
  /\ SetStatus(r, s)
  /\ amount' = [amount EXCEPT ![r] = a]
  /\ UNCHANGED <<link, batch, counterVars, historyVars, fileVars, mandated>>

\* create_receipt, and generate_membership_fees run by hand.
CreateReceipt(r, a) == RaiseAs(r, a, "pending")

\* generate_activity_receipt, generate_booking_receipt and the scheduled billing run: the
\* receipt is born emitted. A run that raises several is that many steps.
RaiseEmitted(r, a) == RaiseAs(r, a, "emitted")

\* An unpaid plan purchase nobody has batched: what void_open_purchases and
\* expire_unpaid_purchases may cancel.
OpenPurchase(r) ==
  /\ status[r] \in {"new", "pending", "emitted", "overdue", "returned"}
  /\ link[r] = NoBatch

\* purchase_membership: the party's open purchases are void, and the new one is raised.
PurchaseMembership(r, a, open) ==
  /\ status[r] = "none"
  /\ \A q \in open : OpenPurchase(q) /\ PartyOf[q] = PartyOf[r]
  /\ status' = [q \in Receipts |-> IF q = r THEN "emitted"
                                  ELSE IF q \in open THEN "cancelled" ELSE status[q]]
  /\ amount' = [amount EXCEPT ![r] = a]
  /\ UNCHANGED <<link, batch, counterVars, historyVars, fileVars, mandated>>

\* Mutant: an issued receipt may still be edited.
UpdateIssuedReceipt(r, a) ==
  /\ status[r] \in {"new", "pending", "emitted"}
  /\ a # amount[r]
  /\ amount' = [amount EXCEPT ![r] = a]
  /\ UNCHANGED <<status, link, batch, counterVars, historyVars, fileVars, mandated>>

UpdateReceipt(r, a) ==
  /\ status[r] \in {"new", "pending"}
  /\ a # amount[r]
  /\ amount' = [amount EXCEPT ![r] = a]
  /\ UNCHANGED <<status, link, batch, counterVars, historyVars, fileVars, mandated>>

\* Mutant: the word the screens use for the status, not the one the column takes.
EmitAsIssued(r) ==
  /\ CanMove(status[r], "emitted")
  /\ SetStatus(r, "issued")
  /\ UNCHANGED <<amount, link, batch, counterVars, historyVars, fileVars, mandated>>

EmitReceipt(r) ==
  /\ CanMove(status[r], "emitted")
  /\ SetStatus(r, "emitted")
  /\ UNCHANGED <<amount, link, batch, counterVars, historyVars, fileVars, mandated>>

\* scheduled_payment_reminders: purchases nobody paid in time are void, then every other
\* unpaid receipt past its due date is overdue, in one transaction.
DailyReminders(expired, late) ==
  /\ expired \union late # {}
  /\ \A r \in expired : OpenPurchase(r)
  /\ \A r \in late : status[r] \in {"pending", "emitted"} /\ r \notin expired
  /\ status' = [r \in Receipts |-> IF r \in expired THEN "cancelled"
                                  ELSE IF r \in late THEN "overdue" ELSE status[r]]
  /\ UNCHANGED <<amount, link, batch, counterVars, historyVars, fileVars, mandated>>

------------------------------------------------------------------------------
(* Receipts: settlement, return and withdrawal.                            *)

\* Mutant: paid by hand out of a collection already at the bank.
PayByHandInFlight(r) ==
  /\ CanMove(status[r], "paid")
  /\ SetStatus(r, "paid")
  /\ Release(r, "paid_by_other_means")
  /\ UNCHANGED <<amount, batch, sent, fileVars, mandated>>

\* mark_receipt_paid(by_hand=True): refused while the bank is collecting.
PayByHand(r) ==
  /\ ~InFlight(r)
  /\ CanMove(status[r], "paid")
  /\ SetStatus(r, "paid")
  /\ Release(r, "paid_by_other_means")
  /\ UNCHANGED <<amount, batch, sent, fileVars, mandated>>

\* A Stripe or Redsys notification of a captured payment. Automated callers are not
\* refused in flight and leave the receipt in its batch.
ProviderConfirms(r) ==
  /\ CanMove(status[r], "paid")
  /\ SetStatus(r, "paid")
  /\ UNCHANGED <<amount, link, batch, counterVars, historyVars, fileVars, mandated>>

\* return_receipt, and a Stripe session that expired unpaid.
ReturnReceipt(r) ==
  /\ CanMove(status[r], "returned")
  /\ SetStatus(r, "returned")
  /\ UNCHANGED <<amount, link, batch, counterVars, historyVars, fileVars, mandated>>

CancelReceipt(r) ==
  /\ ~InFlight(r)
  /\ CanMove(status[r], "cancelled")
  /\ SetStatus(r, "cancelled")
  /\ Release(r, "cancelled")
  /\ UNCHANGED <<amount, batch, sent, fileVars, mandated>>

\* cancel_registration writes the status of the registration's unpaid receipts itself:
\* no in-flight check, no release.
CancelRegistration(rows) ==
  /\ rows # {}
  /\ rows \subseteq FromRegistration
  /\ \A r \in rows : status[r] \in {"new", "pending", "emitted", "overdue"}
  /\ status' = [r \in Receipts |-> IF r \in rows THEN "cancelled" ELSE status[r]]
  /\ UNCHANGED <<amount, link, batch, counterVars, historyVars, fileVars, mandated>>

\* Mutant: the receipt starts again without leaving the batch it was in.
ReemitInPlace(r) ==
  /\ CanMove(status[r], "pending")
  /\ SetStatus(r, "pending")
  /\ UNCHANGED <<amount, link, batch, counterVars, historyVars, fileVars, mandated>>

\* reemit_receipt: a returned receipt leaves whatever batch it is in, sent or not.
ReemitReceipt(r) ==
  /\ CanMove(status[r], "pending")
  /\ SetStatus(r, "pending")
  /\ Release(r, "reemitted")
  /\ UNCHANGED <<amount, batch, sent, fileVars, mandated>>

------------------------------------------------------------------------------
(* Mandates.                                                               *)

\* create_mandate: one active mandate per party.
CreateMandate(p) ==
  /\ p \notin mandated
  /\ mandated' = mandated \union {p}
  /\ UNCHANGED <<receiptVars, batch, counterVars, historyVars, fileVars>>

CancelMandate(p) ==
  /\ p \in mandated
  /\ mandated' = mandated \ {p}
  /\ UNCHANGED <<receiptVars, batch, counterVars, historyVars, fileVars>>

------------------------------------------------------------------------------
(* Remittances.                                                            *)

\* Mutant: a receipt that already is in a batch is offered again.
EligibleAgain(r) ==
  /\ status[r] \in {"emitted", "overdue"}
  /\ amount[r] > 0
  /\ PartyOf[r] \in mandated

\* The receipts create_remittance accepts.
Eligible(r) ==
  /\ status[r] \in {"emitted", "overdue"}
  /\ link[r] = NoBatch
  /\ amount[r] > 0
  /\ PartyOf[r] \in mandated

CreateRemittance(b, rows) ==
  /\ batch[b] = "none"
  /\ rows # {}
  /\ \A r \in rows : Eligible(r)
  /\ batch' = [batch EXCEPT ![b] = "draft"]
  /\ Recount(b, rows)
  /\ link' = [r \in Receipts |-> IF r \in rows THEN b ELSE link[r]]
  /\ history' = [history EXCEPT ![b] = [r \in Receipts |-> IF r \in rows THEN "held" ELSE "none"]]
  /\ sent' = [sent EXCEPT ![b] = [r \in Receipts |-> IF r \in rows THEN amount[r] ELSE 0]]
  /\ UNCHANGED <<status, amount, fileVars, mandated>>

\* What generate_remittance_xml demands before it writes a file.
MayWriteFile(b) ==
  /\ batch[b] \in {"draft", "ready"}
  /\ ~(filePath[b] /\ disk[b] # {})
  /\ Held(b) # {}
  /\ InStep(b)
  /\ \A r \in Held(b) : amount[r] > 0
  /\ HasMandates(b)

GenerateXml(b) ==
  /\ MayWriteFile(b)
  /\ disk' = [disk EXCEPT ![b] = Lines(Held(b))]
  /\ filePath' = [filePath EXCEPT ![b] = TRUE]
  /\ batch' = [batch EXCEPT ![b] = "ready"]
  /\ UNCHANGED <<receiptVars, counterVars, historyVars, mandated>>

\* The file is written before the transaction commits: a failure in between leaves the
\* file on disk and the batch as it was.
GenerateXmlRolledBack(b) ==
  /\ MayWriteFile(b)
  /\ disk' = [disk EXCEPT ![b] = Lines(Held(b))]
  /\ UNCHANGED <<receiptVars, batch, counterVars, historyVars, filePath, mandated>>

\* The storage volume no longer has the file (the case Path.exists() answers for).
LoseFile(b) ==
  /\ disk[b] # {}
  /\ disk' = [disk EXCEPT ![b] = {}]
  /\ UNCHANGED <<receiptVars, batch, counterVars, historyVars, filePath, mandated>>

MarkSubmitted(b) ==
  /\ CanMoveBatch(batch[b], "submitted")
  /\ Held(b) # {}
  /\ InStep(b)
  /\ HasMandates(b)
  /\ batch' = [batch EXCEPT ![b] = "submitted"]
  /\ UNCHANGED <<receiptVars, counterVars, historyVars, fileVars, mandated>>

\* import_returns for the receipts the bank names: one that memship holds as paid
\* refuses the whole file; the batch is processed once an entry names one it holds.
ImportReturns(b, named) ==
  LET matched == named \intersect Held(b) IN
  /\ batch[b] \in {"submitted", "processed"}
  /\ matched # {}
  /\ \A r \in matched : status[r] # "paid"
  /\ status' = [r \in Receipts |->
                  IF r \in matched /\ status[r] \in ReturnableStatuses
                  THEN "returned" ELSE status[r]]
  /\ batch' = [batch EXCEPT ![b] = "processed"]
  /\ UNCHANGED <<amount, link, counterVars, historyVars, fileVars, mandated>>

\* Mutant: a receipt that fell overdue while at the bank is not settled.
CloseIgnoringOverdue(b) ==
  /\ CanMoveBatch(batch[b], "closed")
  /\ batch' = [batch EXCEPT ![b] = "closed"]
  /\ status' = [r \in Receipts |->
                  IF r \in Held(b) /\ status[r] = "emitted" THEN "paid" ELSE status[r]]
  /\ UNCHANGED <<amount, link, counterVars, historyVars, fileVars, mandated>>

\* close_remittance: everything the batch still awaits is taken as collected.
CloseRemittance(b) ==
  /\ CanMoveBatch(batch[b], "closed")
  /\ batch' = [batch EXCEPT ![b] = "closed"]
  /\ status' = [r \in Receipts |->
                  IF r \in Held(b) /\ status[r] \in AwaitingSettlement
                  THEN "paid" ELSE status[r]]
  /\ UNCHANGED <<amount, link, counterVars, historyVars, fileVars, mandated>>

\* Mutant: the links go and the history rows are forgotten.
CancelRemittanceSilently(b) ==
  /\ CanMoveBatch(batch[b], "cancelled")
  /\ batch' = [batch EXCEPT ![b] = "cancelled"]
  /\ link' = [r \in Receipts |-> IF r \in Held(b) THEN NoBatch ELSE link[r]]
  /\ Recount(b, {})
  /\ UNCHANGED <<status, amount, historyVars, fileVars, mandated>>

CancelRemittance(b) ==
  /\ CanMoveBatch(batch[b], "cancelled")
  /\ batch' = [batch EXCEPT ![b] = "cancelled"]
  /\ link' = [r \in Receipts |-> IF r \in Held(b) THEN NoBatch ELSE link[r]]
  /\ history' = [history EXCEPT ![b] =
                   [r \in Receipts |->
                      IF r \in Held(b) /\ @[r] = "held" THEN "batch_cancelled" ELSE @[r]]]
  /\ Recount(b, {})
  /\ UNCHANGED <<status, amount, sent, fileVars, mandated>>

------------------------------------------------------------------------------

Init ==
  /\ status   = [r \in Receipts |-> "none"]
  /\ amount   = [r \in Receipts |-> 0]
  /\ link     = [r \in Receipts |-> NoBatch]
  /\ batch    = [b \in Remittances |-> "none"]
  /\ count    = [b \in Remittances |-> 0]
  /\ total    = [b \in Remittances |-> 0]
  /\ history  = [b \in Remittances |-> [r \in Receipts |-> "none"]]
  /\ sent     = [b \in Remittances |-> [r \in Receipts |-> 0]]
  /\ filePath = [b \in Remittances |-> FALSE]
  /\ disk     = [b \in Remittances |-> {}]
  /\ mandated = {}

ReceiptStep ==
  \/ \E r \in Receipts, a \in Amounts : CreateReceipt(r, a)
  \/ \E r \in Receipts, a \in Amounts : RaiseEmitted(r, a)
  \/ \E r \in Receipts, a \in Amounts, open \in SUBSET Receipts : PurchaseMembership(r, a, open)
  \/ \E r \in Receipts, a \in Amounts : UpdateReceipt(r, a)
  \/ \E r \in Receipts : EmitReceipt(r)
  \/ \E expired, late \in SUBSET Receipts : DailyReminders(expired, late)
  \/ \E r \in Receipts : PayByHand(r)
  \/ \E r \in Receipts : ProviderConfirms(r)
  \/ \E r \in Receipts : ReturnReceipt(r)
  \/ \E r \in Receipts : CancelReceipt(r)
  \/ \E rows \in SUBSET FromRegistration : CancelRegistration(rows)
  \/ \E r \in Receipts : ReemitReceipt(r)

BatchStep ==
  \/ \E b \in Remittances, rows \in SUBSET Receipts : CreateRemittance(b, rows)
  \/ \E b \in Remittances : GenerateXml(b)
  \/ \E b \in Remittances : GenerateXmlRolledBack(b)
  \/ \E b \in Remittances : MarkSubmitted(b)
  \/ \E b \in Remittances, named \in SUBSET Receipts : ImportReturns(b, named)
  \/ \E b \in Remittances : CloseRemittance(b)
  \/ \E b \in Remittances : CancelRemittance(b)

WorldStep ==
  \/ \E p \in Parties : CreateMandate(p)
  \/ \E p \in Parties : CancelMandate(p)
  \/ \E b \in Remittances : LoseFile(b)

Next == ReceiptStep \/ BatchStep \/ WorldStep

Spec == Init /\ [][Next]_vars

------------------------------------------------------------------------------
(* The promise: Collection implements DebtLedger.                          *)

DebtOf(s) ==
  CASE s = "none" -> "none"
    [] s \in {"new", "pending"} -> "draft"
    [] s \in {"emitted", "overdue"} -> "owed"
    [] s = "returned" -> "returned"
    [] s = "paid" -> "settled"
    [] OTHER -> "void"

PhaseOf(s) ==
  CASE s = "none" -> "none"
    [] s \in BatchOpen -> "open"
    [] s \in BatchSent -> "sent"
    [] s = "closed" -> "closed"
    [] OTHER -> "void"

Ledger == INSTANCE DebtLedger
  WITH debt  <- [r \in Receipts |-> DebtOf(status[r])],
       claim <- link,
       phase <- [b \in Remittances |-> PhaseOf(batch[b])]

\* Every handler, job and notification is a step of the promise, or changes nothing in it.
ImplementsLedger == Ledger!Spec

------------------------------------------------------------------------------
(* Correctness.                                                            *)

Totals == Amounts \union {0}

\* Type invariant. What a batch's total is worth is OpenCountersAgree's business; here it
\* is only a column with a value per batch.
TypeOK ==
  /\ status   \in [Receipts -> ReceiptStatuses \union {"none"}]
  /\ amount   \in [Receipts -> Totals]
  /\ link     \in [Receipts -> Remittances \union {NoBatch}]
  /\ batch    \in [Remittances -> RemittanceStatuses \union {"none"}]
  /\ count    \in [Remittances -> Nat]
  /\ total    = [b \in Remittances |-> total[b]]
  /\ history  \in [Remittances -> [Receipts -> {"none", "held"} \union ReleaseReasons]]
  /\ sent     \in [Remittances -> [Receipts -> Totals]]
  /\ filePath \in [Remittances -> BOOLEAN]
  /\ disk     \in [Remittances -> SUBSET (Receipts \X Totals)]
  /\ mandated \subseteq Parties

\* The counters of a batch that has not been sent describe exactly what it holds, whatever
\* was released from it since: refuse_if_out_of_step "cannot fire in normal operation".
OpenCountersAgree ==
  \A b \in Remittances : batch[b] \in BatchOpen \union {"cancelled"} => InStep(b)

\* The link and the history table tell the same story: a receipt is in a batch exactly
\* while its row there is unreleased, and so never unreleased in two batches.
HistoryMatchesLinks ==
  \A b \in Remittances, r \in Receipts : history[b][r] = "held" <=> link[r] = b

\* A receipt in a batch was issued before it joined and is for the amount recorded when it
\* did: nothing edits, or takes back to a draft, what a batch is about to ask the bank for.
HeldAmountsStand ==
  \A r \in Receipts : link[r] \in Remittances =>
    /\ status[r] \notin {"none", "new", "pending"}
    /\ sent[link[r]][r] = amount[r]

\* No debt is stuck in a finished batch, where create_remittance would refuse it for ever:
\* a cancelled batch holds nothing, and what a closed one holds is no longer expected.
NoStrandedDebt ==
  \A r \in Receipts : link[r] \in Remittances =>
    /\ batch[link[r]] \in BatchOpen \union BatchSent \union {"closed"}
    /\ batch[link[r]] = "closed" => status[r] \notin AwaitingSettlement

\* Whatever a batch with a file holds is in that file, for that amount: when closing marks
\* it paid, or a return names it, the bank really was asked for it.
HeldIsInFile ==
  \A b \in Remittances :
    batch[b] \in {"ready"} \union BatchHistory /\ disk[b] # {} => Lines(Held(b)) \subseteq disk[b]

\* The inductive invariant: together the five explain each other.
IInv ==
  /\ TypeOK
  /\ HistoryMatchesLinks
  /\ HeldAmountsStand
  /\ NoStrandedDebt
  /\ OpenCountersAgree
  /\ HeldIsInFile

\* Once a batch has been sent its counters, its rows and their amounts are a record: the
\* only thing that may still happen to a row is being released, once, with a reason.
KeepsSentRecords ==
  \A b \in Remittances : batch[b] \in BatchHistory =>
    /\ count'[b] = count[b]
    /\ total'[b] = total[b]
    /\ sent'[b] = sent[b]
    /\ \A r \in Receipts : history[b][r] # "held" => history'[b][r] = history[b][r]

SentRecordFrozen == [][KeepsSentRecords]_vars

\* A receipt leaves a batch that has been sent only after it came back as returned: by hand
\* it is not paid or cancelled out of a collection the bank is already making.
OnlyReturnedLeave ==
  \A r \in Receipts :
    link[r] \in Remittances /\ batch[link[r]] \in BatchHistory /\ link'[r] # link[r]
      => status[r] = "returned" /\ link'[r] = NoBatch

OnlyReturnsLeaveSentBatch == [][OnlyReturnedLeave]_vars

------------------------------------------------------------------------------
(* What the documentation says and the code does not keep. Each is the     *)
(* property of a run that exhibits the disagreement.                       *)

\* release_from_open_batch: "a cancelled or otherwise-settled receipt would still be
\* collected", so it must not stay in a batch that has not been sent.
NoSettledReceiptInOpenBatch ==
  \A r \in Receipts : status[r] \in {"cancelled", "paid"} => ~InOpenBatch(r)
==============================================================================
