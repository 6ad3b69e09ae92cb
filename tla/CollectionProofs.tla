--------------------------- MODULE CollectionProofs ---------------------------
(***************************************************************************)
(* Proofs about Collection, for any number of receipts, batches and        *)
(* parties and any set of amounts.                                         *)
(***************************************************************************)
EXTENDS Collection, FiniteSetTheorems, TLAPS

\* A set of receipts has a natural number of members.
LEMMA CountIsNatural ==
  ASSUME NEW rows \in SUBSET Receipts
  PROVE  Cardinality(rows) \in Nat
  BY FiniteReceipts, FS_Subset, FS_CardinalityType

\* What a batch holds are receipts.
LEMMA HeldIsReceipts ==
  ASSUME NEW b
  PROVE  Held(b) \in SUBSET Receipts
  BY DEF Held

\* Release keeps the types of the columns it writes.
LEMMA ReleaseTypes ==
  ASSUME TypeOK, NEW r \in Receipts, NEW reason \in ReleaseReasons, Release(r, reason)
  PROVE  /\ link'    \in [Receipts -> Remittances \union {NoBatch}]
         /\ history' \in [Remittances -> [Receipts -> {"none", "held"} \union ReleaseReasons]]
         /\ count'   \in [Remittances -> Nat]
         /\ total'   = [b \in Remittances |-> total'[b]]
  <1>1. link' \in [Receipts -> Remittances \union {NoBatch}]
    BY DEF Release, TypeOK
  <1>2. history' \in [Remittances -> [Receipts -> {"none", "held"} \union ReleaseReasons]]
    <2>1. CASE link[r] \in Remittances
      <3>1. history[link[r]] \in [Receipts -> {"none", "held"} \union ReleaseReasons]
        BY <2>1 DEF TypeOK
      <3>2. [history[link[r]] EXCEPT ![r] = IF @ = "held" THEN reason ELSE @]
              \in [Receipts -> {"none", "held"} \union ReleaseReasons]
        BY <3>1
      <3> QED
        BY <2>1, <3>2 DEF Release, TypeOK, MarkReleased
    <2>2. CASE link[r] \notin Remittances
      BY <2>2 DEF Release, TypeOK
    <2> QED
      BY <2>1, <2>2
  <1>3. Cardinality(Held(link[r]) \ {r}) \in Nat
    BY HeldIsReceipts, CountIsNatural
  <1>4. /\ count' \in [Remittances -> Nat]
        /\ total' = [b \in Remittances |-> total'[b]]
    BY <1>3 DEF Release, TypeOK, Recount, InOpenBatch, counterVars
  <1> QED
    BY <1>1, <1>2, <1>4

\* The statuses and reasons the actions write are words of the vocabulary.
LEMMA Words ==
  /\ {"pending", "emitted", "paid", "returned", "cancelled", "overdue"} \subseteq ReceiptStatuses
  /\ {"draft", "ready", "submitted", "processed", "closed", "cancelled"} \subseteq RemittanceStatuses
  /\ {"reemitted", "cancelled", "paid_by_other_means", "batch_cancelled"} \subseteq ReleaseReasons
  BY DEF ReceiptStatuses, RemittanceStatuses, ReleaseReasons

\* The moves of the two tables the proofs rely on, read backwards.
LEMMA ReceiptMoves ==
  ASSUME NEW s
  PROVE  /\ CanMove(s, "emitted")   => s \in {"new", "pending"}
         /\ CanMove(s, "paid")      => s \in {"emitted", "overdue"}
         /\ CanMove(s, "returned")  => s \in {"emitted", "overdue"}
         /\ CanMove(s, "cancelled") => s \in {"new", "pending", "emitted", "overdue", "returned"}
         /\ CanMove(s, "pending")   => s \in {"new", "returned"}
  <1>1. DOMAIN ValidTransitions = ReceiptStatuses
    BY DEF ValidTransitions, ReceiptStatuses
  <1>2. s \in ReceiptStatuses
          => s \in {"new", "pending", "emitted", "paid", "returned", "cancelled", "overdue"}
    BY DEF ReceiptStatuses
  <1> QED
    BY <1>1, <1>2 DEF CanMove, ValidTransitions

\* Where the moves of VALID_REMITTANCE_TRANSITIONS start from.
LEMMA BatchMoves ==
  ASSUME NEW s
  PROVE  /\ CanMoveBatch(s, "submitted") => s = "ready"
         /\ CanMoveBatch(s, "closed")    => s \in {"submitted", "processed"}
         /\ CanMoveBatch(s, "cancelled") => s \in {"draft", "ready"}
  <1>1. DOMAIN ValidRemittanceTransitions = RemittanceStatuses
    BY DEF ValidRemittanceTransitions, RemittanceStatuses
  <1>2. s \in RemittanceStatuses
          => s \in {"draft", "ready", "submitted", "processed", "closed", "cancelled"}
    BY DEF RemittanceStatuses
  <1> QED
    BY <1>1, <1>2 DEF CanMoveBatch, ValidRemittanceTransitions

\* The lines a file is written from are typed.
LEMMA LinesTyped ==
  ASSUME TypeOK, NEW b
  PROVE  Lines(Held(b)) \in SUBSET (Receipts \X Totals)
  BY DEF Lines, Held, TypeOK

\* Every handler and job keeps the columns in their types.
LEMMA TypePreserved == TypeOK /\ [Next]_vars => TypeOK'
  <1> SUFFICES ASSUME TypeOK, [Next]_vars PROVE TypeOK'
    OBVIOUS
  <1> USE Words
  <1> USE DEF TypeOK, receiptVars, counterVars, historyVars, fileVars
  <1>1. ASSUME NEW r \in Receipts, NEW a \in Amounts, CreateReceipt(r, a) PROVE TypeOK'
    BY <1>1 DEF CreateReceipt, RaiseAs, SetStatus, Totals
  <1>2. ASSUME NEW r \in Receipts, NEW a \in Amounts, RaiseEmitted(r, a) PROVE TypeOK'
    BY <1>2 DEF RaiseEmitted, RaiseAs, SetStatus, Totals
  <1>3. ASSUME NEW r \in Receipts, NEW a \in Amounts, UpdateReceipt(r, a) PROVE TypeOK'
    BY <1>3 DEF UpdateReceipt, Totals
  <1>4. ASSUME NEW r \in Receipts, EmitReceipt(r) PROVE TypeOK'
    BY <1>4 DEF EmitReceipt, SetStatus
  <1>5. ASSUME NEW expired \in SUBSET Receipts, NEW late \in SUBSET Receipts, DailyReminders(expired, late)
        PROVE  TypeOK'
    BY <1>5 DEF DailyReminders
  <1>6. ASSUME NEW r \in Receipts, PayByHand(r) PROVE TypeOK'
    BY <1>6, ReleaseTypes DEF PayByHand, SetStatus
  <1>7. ASSUME NEW r \in Receipts, ProviderConfirms(r) PROVE TypeOK'
    BY <1>7 DEF ProviderConfirms, SetStatus
  <1>8. ASSUME NEW r \in Receipts, ReturnReceipt(r) PROVE TypeOK'
    BY <1>8 DEF ReturnReceipt, SetStatus
  <1>9. ASSUME NEW r \in Receipts, CancelReceipt(r) PROVE TypeOK'
    BY <1>9, ReleaseTypes DEF CancelReceipt, SetStatus
  <1>10. ASSUME NEW rows \in SUBSET FromRegistration, CancelRegistration(rows) PROVE TypeOK'
    BY <1>10 DEF CancelRegistration
  <1>11. ASSUME NEW r \in Receipts, ReemitReceipt(r) PROVE TypeOK'
    BY <1>11, ReleaseTypes DEF ReemitReceipt, SetStatus
  <1>12. ASSUME NEW b \in Remittances, NEW rows \in SUBSET Receipts, CreateRemittance(b, rows)
         PROVE TypeOK'
    BY <1>12, CountIsNatural DEF CreateRemittance, Recount, Totals
  <1>13. ASSUME NEW b \in Remittances, GenerateXml(b) PROVE TypeOK'
    BY <1>13, LinesTyped DEF GenerateXml
  <1>14. ASSUME NEW b \in Remittances, GenerateXmlRolledBack(b) PROVE TypeOK'
    BY <1>14, LinesTyped DEF GenerateXmlRolledBack
  <1>15. ASSUME NEW b \in Remittances, MarkSubmitted(b) PROVE TypeOK'
    BY <1>15 DEF MarkSubmitted
  <1>16. ASSUME NEW b \in Remittances, NEW named \in SUBSET Receipts, ImportReturns(b, named)
         PROVE TypeOK'
    BY <1>16 DEF ImportReturns
  <1>17. ASSUME NEW b \in Remittances, CloseRemittance(b) PROVE TypeOK'
    BY <1>17 DEF CloseRemittance
  <1>18. ASSUME NEW b \in Remittances, CancelRemittance(b) PROVE TypeOK'
    BY <1>18, CountIsNatural DEF CancelRemittance, Recount
  <1>19. ASSUME NEW p \in Parties, CreateMandate(p) \/ CancelMandate(p) PROVE TypeOK'
    BY <1>19 DEF CreateMandate, CancelMandate
  <1>20. ASSUME NEW b \in Remittances, LoseFile(b) PROVE TypeOK'
    BY <1>20 DEF LoseFile
  <1>21. ASSUME NEW r \in Receipts, NEW a \in Amounts, NEW open \in SUBSET Receipts,
                PurchaseMembership(r, a, open)
         PROVE  TypeOK'
    BY <1>21 DEF PurchaseMembership, Totals
  <1>22. CASE UNCHANGED vars
    BY <1>22 DEF vars
  <1> QED
    BY <1>1, <1>2, <1>3, <1>4, <1>5, <1>6, <1>7, <1>8, <1>9, <1>10, <1>11, <1>12, <1>13,
       <1>14, <1>15, <1>16, <1>17, <1>18, <1>19, <1>20, <1>21, <1>22
       DEF Next, ReceiptStep, BatchStep, WorldStep

\* Every column keeps to its type, whatever the handlers, jobs and notifications do.
THEOREM TypeCorrect == Spec => []TypeOK
  <1>1. Init => TypeOK
    BY DEF Init, TypeOK, Totals
  <1> QED
    BY <1>1, TypePreserved, PTL DEF Spec

------------------------------------------------------------------------------
(* The safety invariants, each preserved by every step under IInv.         *)

\* The reasons release_from_open_batch is called with.
CallReasons == {"reemitted", "cancelled", "paid_by_other_means"}

\* What [Next]_vars may do to the links and the history: release one receipt, open a batch,
\* cancel a batch, or nothing.
LEMMA LinkSteps ==
  ASSUME [Next]_vars
  PROVE  \/ \E r \in Receipts, reason \in CallReasons :
              Release(r, reason) /\ UNCHANGED <<amount, batch, sent, fileVars>>
         \/ \E b \in Remittances, rows \in SUBSET Receipts : CreateRemittance(b, rows)
         \/ \E b \in Remittances : CancelRemittance(b)
         \/ UNCHANGED <<link, history, sent, counterVars>>
  <1> USE DEF receiptVars, counterVars, historyVars, fileVars, vars, CallReasons
  <1>1. ASSUME NEW r \in Receipts, PayByHand(r) \/ CancelReceipt(r) \/ ReemitReceipt(r)
        PROVE  \E reason \in CallReasons :
                 Release(r, reason) /\ UNCHANGED <<amount, batch, sent, fileVars>>
    BY <1>1 DEF PayByHand, CancelReceipt, ReemitReceipt
  <1> QED
    BY <1>1
       DEF Next, ReceiptStep, BatchStep, WorldStep, CreateReceipt, RaiseEmitted, RaiseAs,
           UpdateReceipt, EmitReceipt, DailyReminders, PurchaseMembership, ProviderConfirms, ReturnReceipt,
           CancelRegistration, GenerateXml, GenerateXmlRolledBack, MarkSubmitted,
           ImportReturns, CloseRemittance, CreateMandate, CancelMandate, LoseFile

\* Nothing is linked to a batch that does not exist yet.
LEMMA UnusedBatchIsEmpty ==
  ASSUME NoStrandedDebt, NEW b \in Remittances, NEW rows, CreateRemittance(b, rows)
  PROVE  /\ \A r \in Receipts : link[r] # b
         /\ \A r \in rows : link[r] = NoBatch
  <1>1. \A r \in Receipts : link[r] # b
    BY DEF CreateRemittance, NoStrandedDebt, BatchOpen, BatchSent
  <1>2. \A r \in rows : link[r] = NoBatch
    BY DEF CreateRemittance, Eligible
  <1> QED
    BY <1>1, <1>2

\* Every handler writes the link and its history line together.
LEMMA HistoryMatchesLinksPreserved ==
  ASSUME IInv, [Next]_vars
  PROVE  HistoryMatchesLinks'
  <1> USE NoBatchIsNoBatch DEF IInv, TypeOK, HistoryMatchesLinks
  <1>1. ASSUME NEW r \in Receipts, NEW reason \in CallReasons, Release(r, reason)
        PROVE  HistoryMatchesLinks'
    <2>1. reason # "held"
      BY DEF CallReasons
    <2>2. CASE link[r] \in Remittances
      <3>1. history' = [history EXCEPT ![link[r]] =
                          [history[link[r]] EXCEPT ![r] = IF @ = "held" THEN reason ELSE @]]
        BY <1>1, <2>2 DEF Release, MarkReleased
      <3>2. link' = [link EXCEPT ![r] = NoBatch]
        BY <1>1 DEF Release
      <3>3. \A q \in Receipts :
              [history[link[r]] EXCEPT ![r] = IF @ = "held" THEN reason ELSE @][q] =
                IF q = r /\ history[link[r]][q] = "held" THEN reason ELSE history[link[r]][q]
        <4>1. history[link[r]] \in [Receipts -> {"none", "held"} \union ReleaseReasons]
          BY <2>2
        <4> QED
          BY <4>1
      <3>4. \A b \in Remittances, q \in Receipts :
              history'[b][q] = IF b = link[r] /\ q = r /\ history[b][q] = "held"
                               THEN reason ELSE history[b][q]
        BY <2>2, <3>1, <3>3
      <3>5. ASSUME NEW b \in Remittances, NEW q \in Receipts
            PROVE  history'[b][q] = "held" <=> link'[q] = b
        <4>1. CASE b = link[r] /\ q = r
          BY <2>1, <4>1, <3>2, <3>4
        <4>2. CASE b # link[r] /\ q = r
          BY <4>2, <3>2, <3>4
        <4>3. CASE q # r
          <5>1. link'[q] = link[q] /\ history'[b][q] = history[b][q]
            BY <4>3, <3>2, <3>4
          <5> QED
            BY <5>1
        <4> QED
          BY <4>1, <4>2, <4>3
      <3> QED
        BY <3>5
    <2>3. CASE link[r] \notin Remittances
      BY <1>1, <2>3 DEF Release
    <2> QED
      BY <2>2, <2>3
  <1>2. ASSUME NEW b \in Remittances, NEW rows \in SUBSET Receipts, CreateRemittance(b, rows)
        PROVE  HistoryMatchesLinks'
    <2>1. \A r \in Receipts : link[r] # b
      BY <1>2, UnusedBatchIsEmpty
    <2>2. \A r \in rows : link[r] = NoBatch
      BY <1>2, UnusedBatchIsEmpty
    <2>3. ASSUME NEW c \in Remittances, NEW r \in Receipts
          PROVE  history'[c][r] = "held" <=> link'[r] = c
      <3>1. CASE c = b
        <4>1. history'[c] = [q \in Receipts |-> IF q \in rows THEN "held" ELSE "none"]
          BY <1>2, <3>1 DEF CreateRemittance
        <4>2. history'[c][r] = "held" <=> r \in rows
          BY <4>1
        <4>3. link'[r] = b <=> r \in rows
          BY <1>2, <2>1 DEF CreateRemittance
        <4> QED
          BY <3>1, <4>2, <4>3
      <3>2. CASE c # b
        BY <1>2, <2>2, <3>2 DEF CreateRemittance
      <3> QED
        BY <3>1, <3>2
    <2> QED
      BY <2>3
  <1>3. ASSUME NEW b \in Remittances, CancelRemittance(b) PROVE HistoryMatchesLinks'
    BY <1>3 DEF CancelRemittance, Held
  <1>4. CASE UNCHANGED <<link, history>>
    BY <1>4
  <1> QED
    BY <1>1, <1>2, <1>3, <1>4, LinkSteps

\* No handler changes the amount or restarts a receipt that a live batch holds.
LEMMA HeldAmountsStandPreserved ==
  ASSUME IInv, [Next]_vars
  PROVE  HeldAmountsStand'
  <1> USE NoBatchIsNoBatch DEF IInv, TypeOK, HeldAmountsStand, receiptVars, historyVars
  <1>1. ASSUME NEW r \in Receipts, PayByHand(r) \/ CancelReceipt(r) \/ ReemitReceipt(r)
        PROVE  HeldAmountsStand'
    BY <1>1 DEF PayByHand, CancelReceipt, ReemitReceipt, Release, SetStatus
  <1>2. ASSUME NEW b \in Remittances, NEW rows \in SUBSET Receipts, CreateRemittance(b, rows)
        PROVE  HeldAmountsStand'
    <2>1. \A r \in Receipts : link[r] # b
      BY <1>2, UnusedBatchIsEmpty
    <2> QED
      BY <1>2, <2>1 DEF CreateRemittance, Eligible
  <1>3. ASSUME NEW b \in Remittances, CancelRemittance(b) PROVE HeldAmountsStand'
    BY <1>3 DEF CancelRemittance
  <1>4. ASSUME NEW r \in Receipts, NEW a \in Amounts,
               CreateReceipt(r, a) \/ RaiseEmitted(r, a) \/ UpdateReceipt(r, a)
        PROVE  HeldAmountsStand'
    BY <1>4 DEF CreateReceipt, RaiseEmitted, RaiseAs, SetStatus, UpdateReceipt
  <1>5. ASSUME NEW r \in Receipts, EmitReceipt(r) \/ ProviderConfirms(r) \/ ReturnReceipt(r)
        PROVE  HeldAmountsStand'
    BY <1>5 DEF EmitReceipt, ProviderConfirms, ReturnReceipt, SetStatus
  <1>6. ASSUME NEW expired \in SUBSET Receipts, NEW late \in SUBSET Receipts, DailyReminders(expired, late)
        PROVE  HeldAmountsStand'
    BY <1>6 DEF DailyReminders
  <1>7. ASSUME NEW rows \in SUBSET FromRegistration, CancelRegistration(rows)
        PROVE  HeldAmountsStand'
    BY <1>7 DEF CancelRegistration
  <1>8. ASSUME NEW b \in Remittances, NEW named \in SUBSET Receipts, ImportReturns(b, named)
        PROVE  HeldAmountsStand'
    BY <1>8 DEF ImportReturns
  <1>9. ASSUME NEW b \in Remittances, CloseRemittance(b) PROVE HeldAmountsStand'
    BY <1>9 DEF CloseRemittance
  <1>10. ASSUME NEW r \in Receipts, NEW a \in Amounts, NEW open \in SUBSET Receipts,
               PurchaseMembership(r, a, open)
        PROVE  HeldAmountsStand'
    BY <1>10 DEF PurchaseMembership
  <1>11. CASE UNCHANGED <<status, amount, link, sent>>
    BY <1>11
  <1> QED
    BY <1>1, <1>2, <1>3, <1>4, <1>5, <1>6, <1>7, <1>8, <1>9, <1>10, <1>11
       DEF Next, ReceiptStep, BatchStep, WorldStep, GenerateXml, GenerateXmlRolledBack,
           MarkSubmitted, CreateMandate, CancelMandate, LoseFile, vars

\* No handler leaves an unsettled receipt behind in a batch that has ended.
LEMMA NoStrandedDebtPreserved ==
  ASSUME IInv, [Next]_vars
  PROVE  NoStrandedDebt'
  <1> USE NoBatchIsNoBatch
      DEF IInv, TypeOK, NoStrandedDebt, AwaitingSettlement, BatchOpen, BatchSent, receiptVars
  <1>1. ASSUME NEW r \in Receipts, PayByHand(r) \/ CancelReceipt(r) \/ ReemitReceipt(r)
        PROVE  NoStrandedDebt'
    BY <1>1 DEF PayByHand, CancelReceipt, ReemitReceipt, Release, SetStatus
  <1>2. ASSUME NEW b \in Remittances, NEW rows \in SUBSET Receipts, CreateRemittance(b, rows)
        PROVE  NoStrandedDebt'
    <2>1. \A r \in Receipts : link[r] # b
      BY <1>2, UnusedBatchIsEmpty
    <2> QED
      BY <1>2, <2>1 DEF CreateRemittance
  <1>3. ASSUME NEW b \in Remittances, CancelRemittance(b) PROVE NoStrandedDebt'
    BY <1>3 DEF CancelRemittance, Held
  <1>4. ASSUME NEW r \in Receipts, NEW a \in Amounts,
               CreateReceipt(r, a) \/ RaiseEmitted(r, a) \/ UpdateReceipt(r, a)
        PROVE  NoStrandedDebt'
    BY <1>4 DEF CreateReceipt, RaiseEmitted, RaiseAs, SetStatus, UpdateReceipt, HeldAmountsStand
  <1>5. ASSUME NEW r \in Receipts, EmitReceipt(r) PROVE NoStrandedDebt'
    <2>1. status[r] \in {"new", "pending"}
      BY <1>5, ReceiptMoves DEF EmitReceipt
    <2>2. link[r] \notin Remittances
      BY <2>1 DEF HeldAmountsStand
    <2> QED
      BY <1>5, <2>2 DEF EmitReceipt, SetStatus
  <1>6. ASSUME NEW r \in Receipts, ProviderConfirms(r) \/ ReturnReceipt(r)
        PROVE  NoStrandedDebt'
    BY <1>6 DEF ProviderConfirms, ReturnReceipt, SetStatus
  <1>7. ASSUME NEW expired \in SUBSET Receipts, NEW late \in SUBSET Receipts, DailyReminders(expired, late)
        PROVE  NoStrandedDebt'
    BY <1>7 DEF DailyReminders, HeldAmountsStand
  <1>8. ASSUME NEW rows \in SUBSET FromRegistration, CancelRegistration(rows)
        PROVE  NoStrandedDebt'
    BY <1>8 DEF CancelRegistration
  <1>9. ASSUME NEW b \in Remittances, NEW named \in SUBSET Receipts, ImportReturns(b, named)
        PROVE  NoStrandedDebt'
    BY <1>9 DEF ImportReturns
  <1>10. ASSUME NEW b \in Remittances, CloseRemittance(b) PROVE NoStrandedDebt'
    BY <1>10 DEF CloseRemittance, Held
  <1>11. ASSUME NEW b \in Remittances, GenerateXml(b) \/ MarkSubmitted(b)
         PROVE  NoStrandedDebt'
    BY <1>11, BatchMoves DEF GenerateXml, MayWriteFile, MarkSubmitted
  <1>12. ASSUME NEW r \in Receipts, NEW a \in Amounts, NEW open \in SUBSET Receipts,
               PurchaseMembership(r, a, open)
        PROVE  NoStrandedDebt'
    BY <1>12 DEF PurchaseMembership, OpenPurchase, HeldAmountsStand
  <1>13. CASE UNCHANGED <<status, link, batch>>
    BY <1>13
  <1> QED
    BY <1>1, <1>2, <1>3, <1>4, <1>5, <1>6, <1>7, <1>8, <1>9, <1>10, <1>11, <1>12, <1>13
       DEF Next, ReceiptStep, BatchStep, WorldStep, GenerateXmlRolledBack, CreateMandate,
           CancelMandate, LoseFile, vars

\* A batch whose receipts, amounts and counters are as before is as much in step as before.
LEMMA StaysInStep ==
  ASSUME NEW b \in Remittances, InStep(b),
         link' \in [Receipts -> Remittances \union {NoBatch}],
         \A r \in Receipts : link'[r] = b <=> link[r] = b,
         \A r \in Receipts : link[r] = b => amount'[r] = amount[r],
         count'[b] = count[b], total'[b] = total[b]
  PROVE  InStep(b)'
  <1>1. Held(b)' = Held(b)
    BY DEF Held
  <1>2. Lines(Held(b))' = Lines(Held(b))
    BY <1>1 DEF Lines, Held
  <1>3. Cardinality(Held(b))' = Cardinality(Held(b))
    BY <1>1
  <1>4. TotalOf(Lines(Held(b)))' = TotalOf(Lines(Held(b)))
    BY <1>2
  <1> QED
    BY <1>3, <1>4 DEF InStep

\* A batch recounted for the receipts it is left with is in step.
LEMMA RecountedIsInStep ==
  ASSUME TypeOK, NEW b \in Remittances, NEW rows, Recount(b, rows),
         Held(b)' = rows, amount' = amount
  PROVE  InStep(b)'
  <1>1. Lines(Held(b))' = Lines(rows)
    BY DEF Lines
  <1>2. TotalOf(Lines(Held(b)))' = TotalOf(Lines(rows))
    BY <1>1
  <1>3. count'[b] = Cardinality(rows) /\ total'[b] = TotalOf(Lines(rows))
    BY DEF Recount, TypeOK
  <1> QED
    BY <1>2, <1>3 DEF InStep

\* Every handler that changes what an open batch holds recounts it.
LEMMA OpenCountersAgreePreserved ==
  ASSUME IInv, [Next]_vars
  PROVE  OpenCountersAgree'
  <1> SUFFICES ASSUME NEW b \in Remittances,
                      batch'[b] \in BatchOpen \union {"cancelled"}
               PROVE  InStep(b)'
    BY DEF OpenCountersAgree
  <1> USE NoBatchIsNoBatch, RegistrationReceipts
  <1>0. IInv /\ TypeOK'
    BY TypePreserved DEF IInv
  <1>1. batch[b] \in BatchOpen \union {"cancelled"} => InStep(b)
    BY <1>0 DEF IInv, OpenCountersAgree
  <1>2. ASSUME NEW r \in Receipts, NEW reason \in CallReasons, Release(r, reason),
               UNCHANGED <<amount, batch>>
        PROVE  InStep(b)'
    <2>1. CASE link[r] = b
      <3>1. batch[b] \in BatchOpen
        BY <1>0, <1>2, <2>1 DEF IInv, NoStrandedDebt, BatchOpen, BatchSent
      <3>2. Recount(b, Held(b) \ {r})
        BY <1>2, <2>1, <3>1 DEF Release, InOpenBatch
      <3>3. Held(b)' = Held(b) \ {r}
        BY <1>0, <1>2, <2>1 DEF Release, Held, IInv, TypeOK
      <3> QED
        BY <1>0, <1>2, <3>2, <3>3, RecountedIsInStep DEF IInv
    <2>2. CASE link[r] # b
      <3>1. count'[b] = count[b] /\ total'[b] = total[b]
        BY <1>0, <1>2, <2>2 DEF Release, Recount, counterVars, IInv, TypeOK
      <3>2. \A q \in Receipts : link'[q] = b <=> link[q] = b
        BY <1>0, <1>2, <2>2 DEF Release, IInv, TypeOK
      <3> QED
        BY <1>0, <1>1, <1>2, <3>1, <3>2, StaysInStep DEF TypeOK
    <2> QED
      BY <2>1, <2>2
  <1>3. ASSUME NEW c \in Remittances, NEW rows \in SUBSET Receipts, CreateRemittance(c, rows)
        PROVE  InStep(b)'
    <2>1. /\ \A r \in Receipts : link[r] # c
          /\ \A r \in rows : link[r] = NoBatch
      BY <1>0, <1>3, UnusedBatchIsEmpty DEF IInv
    <2>2. CASE b = c
      <3>1. Held(b)' = rows
        BY <1>3, <2>1, <2>2 DEF CreateRemittance, Held
      <3> QED
        BY <1>0, <1>3, <2>2, <3>1, RecountedIsInStep DEF CreateRemittance, IInv
    <2>3. CASE b # c
      <3>1. /\ count'[b] = count[b] /\ total'[b] = total[b]
            /\ batch'[b] = batch[b] /\ amount' = amount
        BY <1>0, <1>3, <2>3 DEF CreateRemittance, Recount, IInv, TypeOK
      <3>2. \A q \in Receipts : link'[q] = b <=> link[q] = b
        BY <1>3, <2>1, <2>3 DEF CreateRemittance
      <3> QED
        BY <1>0, <1>1, <3>1, <3>2, StaysInStep DEF TypeOK
    <2> QED
      BY <2>2, <2>3
  <1>4. ASSUME NEW c \in Remittances, CancelRemittance(c) PROVE InStep(b)'
    <2>1. CASE b = c
      <3>1. Held(b)' = {}
        BY <1>4, <2>1 DEF CancelRemittance, Held
      <3> QED
        BY <1>0, <1>4, <2>1, <3>1, RecountedIsInStep DEF CancelRemittance, IInv
    <2>2. CASE b # c
      <3>1. /\ count'[b] = count[b] /\ total'[b] = total[b]
            /\ batch'[b] = batch[b] /\ amount' = amount
        BY <1>0, <1>4, <2>2 DEF CancelRemittance, Recount, IInv, TypeOK
      <3>2. \A q \in Receipts : link'[q] = b <=> link[q] = b
        BY <1>4, <2>2 DEF CancelRemittance, Held
      <3> QED
        BY <1>0, <1>1, <3>1, <3>2, StaysInStep DEF TypeOK
    <2> QED
      BY <2>1, <2>2
  <1>5. ASSUME NEW r \in Receipts, NEW a \in Amounts,
               \/ CreateReceipt(r, a) \/ RaiseEmitted(r, a) \/ UpdateReceipt(r, a)
               \/ \E open \in SUBSET Receipts : PurchaseMembership(r, a, open)
        PROVE  InStep(b)'
    <2>1. link[r] # b
      BY <1>0, <1>5
         DEF CreateReceipt, RaiseEmitted, RaiseAs, UpdateReceipt, PurchaseMembership, IInv, HeldAmountsStand
    <2>2. /\ UNCHANGED <<link, batch, count, total>>
          /\ \A q \in Receipts : q # r => amount'[q] = amount[q]
      BY <1>0, <1>5
         DEF CreateReceipt, RaiseEmitted, RaiseAs, UpdateReceipt, PurchaseMembership, counterVars, IInv, TypeOK
    <2> QED
      BY <1>0, <1>1, <2>1, <2>2, StaysInStep DEF TypeOK
  <1>6. ASSUME UNCHANGED <<link, amount, counterVars>>,
               batch[b] \in BatchOpen \union {"cancelled"}
        PROVE  InStep(b)'
    BY <1>0, <1>1, <1>6, StaysInStep DEF TypeOK, counterVars
  <1>7. ASSUME NEW c \in Remittances,
               GenerateXml(c) \/ MarkSubmitted(c) \/ CloseRemittance(c)
                 \/ \E named \in SUBSET Receipts : ImportReturns(c, named)
        PROVE  UNCHANGED <<link, amount, counterVars>> /\ batch[b] \in BatchOpen \union {"cancelled"}
    BY <1>0, <1>7
       DEF GenerateXml, MayWriteFile, MarkSubmitted, CloseRemittance, ImportReturns,
           BatchOpen, receiptVars, IInv, TypeOK
  <1>8. ASSUME UNCHANGED batch PROVE batch[b] \in BatchOpen \union {"cancelled"}
    BY <1>8
  <1> QED
    BY <1>2, <1>3, <1>4, <1>5, <1>6, <1>7, <1>8
       DEF Next, ReceiptStep, BatchStep, WorldStep, PayByHand, CancelReceipt, ReemitReceipt,
           CallReasons, EmitReceipt, DailyReminders, ProviderConfirms, ReturnReceipt,
           CancelRegistration, GenerateXmlRolledBack, CreateMandate, CancelMandate, LoseFile,
           vars, receiptVars

WithFile == {"ready"} \union BatchHistory

\* A file keeps covering a batch that only loses receipts.
LEMMA StaysCovered ==
  ASSUME NEW b \in Remittances, Lines(Held(b)) \subseteq disk[b], disk'[b] = disk[b],
         \A r \in Receipts : link'[r] = b => link[r] = b /\ amount'[r] = amount[r]
  PROVE  Lines(Held(b))' \subseteq disk'[b]
  BY DEF Lines, Held

\* No handler adds a receipt to a batch after its file was written.
LEMMA HeldIsInFilePreserved ==
  ASSUME IInv, [Next]_vars
  PROVE  HeldIsInFile'
  <1> SUFFICES ASSUME NEW b \in Remittances, batch'[b] \in WithFile, disk'[b] # {}
               PROVE  Lines(Held(b))' \subseteq disk'[b]
    BY DEF HeldIsInFile, WithFile
  <1> USE NoBatchIsNoBatch, RegistrationReceipts
  <1>0. TypeOK
    BY DEF IInv
  <1>1. batch[b] \in WithFile /\ disk[b] # {} => Lines(Held(b)) \subseteq disk[b]
    BY DEF IInv, HeldIsInFile, WithFile
  <1>2. ASSUME NEW r \in Receipts, NEW reason \in CallReasons, Release(r, reason),
               UNCHANGED <<amount, batch, fileVars>>
        PROVE  Lines(Held(b))' \subseteq disk'[b]
    <2>1. \A q \in Receipts : link'[q] = b => link[q] = b
      BY <1>0, <1>2 DEF Release, TypeOK
    <2> QED
      BY <1>1, <1>2, <2>1, StaysCovered DEF fileVars
  <1>3. ASSUME NEW c \in Remittances, NEW rows \in SUBSET Receipts, CreateRemittance(c, rows)
        PROVE  Lines(Held(b))' \subseteq disk'[b]
    <2>1. b # c
      BY <1>0, <1>3 DEF CreateRemittance, WithFile, BatchHistory, TypeOK
    <2>2. \A q \in Receipts : link'[q] = b => link[q] = b
      BY <1>3, <2>1 DEF CreateRemittance
    <2>3. batch'[b] = batch[b] /\ UNCHANGED <<amount, disk>>
      BY <1>0, <1>3, <2>1 DEF CreateRemittance, TypeOK, fileVars
    <2> QED
      BY <1>1, <2>2, <2>3, StaysCovered
  <1>4. ASSUME NEW c \in Remittances, CancelRemittance(c)
        PROVE  Lines(Held(b))' \subseteq disk'[b]
    <2>1. b # c
      BY <1>0, <1>4 DEF CancelRemittance, WithFile, BatchHistory, TypeOK
    <2>2. \A q \in Receipts : link'[q] = b => link[q] = b
      BY <1>4, <2>1 DEF CancelRemittance
    <2>3. batch'[b] = batch[b] /\ UNCHANGED <<amount, disk>>
      BY <1>0, <1>4, <2>1 DEF CancelRemittance, TypeOK, fileVars
    <2> QED
      BY <1>1, <2>2, <2>3, StaysCovered
  <1>5. ASSUME NEW r \in Receipts, NEW a \in Amounts,
               \/ CreateReceipt(r, a) \/ RaiseEmitted(r, a) \/ UpdateReceipt(r, a)
               \/ \E open \in SUBSET Receipts : PurchaseMembership(r, a, open)
        PROVE  Lines(Held(b))' \subseteq disk'[b]
    <2>1. link[r] # b
      BY <1>5
        DEF CreateReceipt, RaiseEmitted, RaiseAs, UpdateReceipt, PurchaseMembership, IInv,
            HeldAmountsStand
    <2>2. /\ UNCHANGED <<link, batch, disk>>
          /\ \A q \in Receipts : q # r => amount'[q] = amount[q]
      BY <1>0, <1>5
         DEF CreateReceipt, RaiseEmitted, RaiseAs, UpdateReceipt, PurchaseMembership, fileVars, TypeOK
    <2> QED
      BY <1>1, <2>1, <2>2, StaysCovered
  <1>6. ASSUME UNCHANGED <<link, amount, disk>>, batch[b] \in WithFile
        PROVE  Lines(Held(b))' \subseteq disk'[b]
    BY <1>1, <1>6, StaysCovered
  <1>7. ASSUME NEW c \in Remittances,
               MarkSubmitted(c) \/ CloseRemittance(c)
                 \/ \E named \in SUBSET Receipts : ImportReturns(c, named)
        PROVE  UNCHANGED <<link, amount, disk>> /\ batch[b] \in WithFile
    BY <1>0, <1>7, BatchMoves
       DEF MarkSubmitted, CloseRemittance, ImportReturns, WithFile, BatchHistory,
           receiptVars, fileVars, TypeOK
  <1>8. ASSUME NEW c \in Remittances,
               GenerateXml(c) \/ GenerateXmlRolledBack(c) \/ LoseFile(c)
        PROVE  Lines(Held(b))' \subseteq disk'[b]
    <2>1. UNCHANGED <<link, amount>>
      BY <1>8 DEF GenerateXml, GenerateXmlRolledBack, LoseFile, receiptVars
    <2>2. CASE b = c
      <3>1. disk'[b] = Lines(Held(b))
        BY <1>0, <1>8, <2>2 DEF GenerateXml, GenerateXmlRolledBack, LoseFile, TypeOK
      <3>2. Lines(Held(b))' = Lines(Held(b))
        BY <2>1 DEF Lines, Held
      <3> QED
        BY <3>1, <3>2
    <2>3. CASE b # c
      <3>1. disk'[b] = disk[b] /\ batch'[b] = batch[b]
        BY <1>0, <1>8, <2>3 DEF GenerateXml, GenerateXmlRolledBack, LoseFile, TypeOK
      <3> QED
        BY <1>1, <2>1, <3>1, StaysCovered
    <2> QED
      BY <2>2, <2>3
  <1> QED
    BY <1>2, <1>3, <1>4, <1>5, <1>6, <1>7, <1>8
       DEF Next, ReceiptStep, BatchStep, WorldStep, PayByHand, CancelReceipt, ReemitReceipt,
           CallReasons, EmitReceipt, DailyReminders, ProviderConfirms, ReturnReceipt,
           CancelRegistration, CreateMandate, CancelMandate, vars, receiptVars, fileVars

------------------------------------------------------------------------------

\* The empty database satisfies the inductive invariant.
LEMMA InitEstablishes == Init => IInv
  <1> SUFFICES ASSUME Init PROVE IInv
    OBVIOUS
  <1> USE NoBatchIsNoBatch DEF Init
  <1>1. TypeOK
    BY DEF TypeOK, Totals
  <1>2. HistoryMatchesLinks
    BY DEF HistoryMatchesLinks
  <1>3. HeldAmountsStand /\ NoStrandedDebt
    BY DEF HeldAmountsStand, NoStrandedDebt
  <1>4. OpenCountersAgree
    BY DEF OpenCountersAgree, BatchOpen
  <1>5. HeldIsInFile
    BY DEF HeldIsInFile
  <1> QED
    BY <1>1, <1>2, <1>3, <1>4, <1>5 DEF IInv

\* Every step preserves the inductive invariant.
LEMMA StepPreserves == IInv /\ [Next]_vars => IInv'
  <1> SUFFICES ASSUME IInv, [Next]_vars PROVE IInv'
    OBVIOUS
  <1>1. TypeOK'
    BY TypePreserved DEF IInv
  <1> QED
    BY <1>1, HistoryMatchesLinksPreserved, HeldAmountsStandPreserved, NoStrandedDebtPreserved,
       OpenCountersAgreePreserved, HeldIsInFilePreserved DEF IInv

\* The inductive invariant holds throughout.
THEOREM Inductive == Spec => []IInv
  BY InitEstablishes, StepPreserves, PTL DEF Spec

\* The refusal refuse_if_out_of_step guards against is unreachable: whatever leaves an open
\* or cancelled batch is taken off its counters.
THEOREM CountersAgree == Spec => []OpenCountersAgree
  <1>1. IInv => OpenCountersAgree
    BY DEF IInv
  <1> QED
    BY <1>1, Inductive, PTL

\* remittance_receipts and receipts.remittance_id always tell the same story.
THEOREM HistoryAgrees == Spec => []HistoryMatchesLinks
  <1>1. IInv => HistoryMatchesLinks
    BY DEF IInv
  <1> QED
    BY <1>1, Inductive, PTL

\* What a batch holds was issued before it joined and still is for the amount recorded.
THEOREM AmountsStand == Spec => []HeldAmountsStand
  <1>1. IInv => HeldAmountsStand
    BY DEF IInv
  <1> QED
    BY <1>1, Inductive, PTL

\* No debt is left in a batch that can no longer collect it.
THEOREM NothingStranded == Spec => []NoStrandedDebt
  <1>1. IInv => NoStrandedDebt
    BY DEF IInv
  <1> QED
    BY <1>1, Inductive, PTL

\* Whatever a batch with a file holds is in that file: close_remittance and import_returns
\* act on receipts the bank was asked for.
THEOREM FileCoversBatch == Spec => []HeldIsInFile
  <1>1. IInv => HeldIsInFile
    BY DEF IInv
  <1> QED
    BY <1>1, Inductive, PTL
------------------------------------------------------------------------------

\* No step rewrites the counters, the sent set or an ended line of a batch in BatchHistory.
LEMMA SentRecordsKept ==
  ASSUME IInv, [Next]_vars
  PROVE  KeepsSentRecords
  <1> SUFFICES ASSUME NEW b \in Remittances, batch[b] \in BatchHistory
               PROVE  /\ count'[b] = count[b] /\ total'[b] = total[b] /\ sent'[b] = sent[b]
                      /\ \A r \in Receipts :
                           history[b][r] # "held" => history'[b][r] = history[b][r]
    BY DEF KeepsSentRecords
  <1> USE DEF BatchHistory
  <1>0. TypeOK
    BY DEF IInv
  <1>1. ASSUME NEW r \in Receipts, NEW reason \in CallReasons, Release(r, reason),
               UNCHANGED sent
        PROVE  /\ count'[b] = count[b] /\ total'[b] = total[b] /\ sent'[b] = sent[b]
               /\ \A q \in Receipts :
                    history[b][q] # "held" => history'[b][q] = history[b][q]
    <2>1. count'[b] = count[b] /\ total'[b] = total[b]
      BY <1>0, <1>1 DEF Release, InOpenBatch, BatchOpen, Recount, counterVars, TypeOK
    <2>2. ASSUME NEW q \in Receipts, history[b][q] # "held"
          PROVE  history'[b][q] = history[b][q]
      <3>1. CASE link[r] \in Remittances
        <4>1. history' = [history EXCEPT ![link[r]] =
                            [history[link[r]] EXCEPT ![r] = IF @ = "held" THEN reason ELSE @]]
          BY <1>1, <3>1 DEF Release, MarkReleased
        <4>2. CASE b = link[r]
          <5>1. history[b] \in [Receipts -> {"none", "held"} \union ReleaseReasons]
            BY <1>0 DEF TypeOK
          <5>2. history'[b] = [history[b] EXCEPT ![r] = IF @ = "held" THEN reason ELSE @]
            BY <1>0, <4>1, <4>2 DEF TypeOK
          <5> QED
            BY <2>2, <5>1, <5>2
        <4>3. CASE b # link[r]
          BY <1>0, <4>1, <4>3 DEF TypeOK
        <4> QED
          BY <4>2, <4>3
      <3>2. CASE link[r] \notin Remittances
        BY <1>1, <3>2 DEF Release
      <3> QED
        BY <3>1, <3>2
    <2> QED
      BY <1>1, <2>1, <2>2
  <1>2. ASSUME NEW c \in Remittances, NEW rows \in SUBSET Receipts, CreateRemittance(c, rows)
        PROVE  b # c /\ UNCHANGED <<count[b], total[b], sent[b], history[b]>>
    BY <1>0, <1>2 DEF CreateRemittance, Recount, TypeOK
  <1>3. ASSUME NEW c \in Remittances, CancelRemittance(c)
        PROVE  b # c /\ UNCHANGED <<count[b], total[b], sent[b], history[b]>>
    BY <1>0, <1>3, BatchMoves DEF CancelRemittance, Recount, TypeOK
  <1>4. CASE UNCHANGED <<link, history, sent, counterVars>>
    BY <1>4 DEF counterVars
  <1> QED
    BY <1>1, <1>2, <1>3, <1>4, LinkSteps

\* The counters, rows and amounts of a batch that has been sent never change again, save
\* that a row still held may be released.
THEOREM SentRecordsFrozen == Spec => SentRecordFrozen
  <1>1. IInv /\ [Next]_vars => [KeepsSentRecords]_vars
    BY SentRecordsKept
  <1> QED
    BY <1>1, Inductive, PTL DEF Spec, SentRecordFrozen

\* A step that takes a receipt off a batch in BatchHistory takes a returned one.
LEMMA OnlyReturnedLeaveEveryStep ==
  ASSUME IInv, [Next]_vars
  PROVE  OnlyReturnedLeave
  <1> SUFFICES ASSUME NEW r \in Receipts, link[r] \in Remittances,
                      batch[link[r]] \in BatchHistory, link'[r] # link[r]
               PROVE  status[r] = "returned" /\ link'[r] = NoBatch
    BY DEF OnlyReturnedLeave
  <1> USE NoBatchIsNoBatch DEF BatchHistory
  <1>0. TypeOK
    BY DEF IInv
  <1>1. status[r] \notin {"none", "new", "pending"}
    BY DEF IInv, HeldAmountsStand
  <1>2. batch[link[r]] = "closed" => status[r] \notin {"emitted", "overdue"}
    BY DEF IInv, NoStrandedDebt, AwaitingSettlement
  <1>3. ASSUME NEW q \in Receipts, PayByHand(q) \/ CancelReceipt(q) \/ ReemitReceipt(q)
        PROVE  status[r] = "returned" /\ link'[r] = NoBatch
    <2>1. q = r /\ link'[r] = NoBatch
      BY <1>0, <1>3 DEF PayByHand, CancelReceipt, ReemitReceipt, Release, TypeOK
    <2>2. status[r] \in {"emitted", "overdue"} => ~PayByHand(r) /\ ~CancelReceipt(r)
      BY <1>2 DEF PayByHand, CancelReceipt, InFlight, BatchSent
    <2> QED
      BY <1>1, <1>3, <2>1, <2>2, ReceiptMoves DEF PayByHand, CancelReceipt, ReemitReceipt
  <1>4. ASSUME NEW b \in Remittances, NEW rows \in SUBSET Receipts, CreateRemittance(b, rows)
        PROVE  FALSE
    BY <1>4 DEF CreateRemittance, Eligible
  <1>5. ASSUME NEW b \in Remittances, CancelRemittance(b) PROVE FALSE
    <2>1. link[r] = b
      BY <1>5 DEF CancelRemittance, Held
    <2> QED
      BY <1>5, <2>1, BatchMoves DEF CancelRemittance
  <1>6. CASE UNCHANGED link
    BY <1>6
  <1> QED
    BY <1>3, <1>4, <1>5, <1>6
       DEF Next, ReceiptStep, BatchStep, WorldStep, CreateReceipt, RaiseEmitted, RaiseAs,
           UpdateReceipt, EmitReceipt, DailyReminders, PurchaseMembership, ProviderConfirms, ReturnReceipt,
           CancelRegistration, GenerateXml, GenerateXmlRolledBack, MarkSubmitted,
           ImportReturns, CloseRemittance, CreateMandate, CancelMandate, LoseFile,
           vars, receiptVars

\* A receipt leaves a batch that has been sent only as a returned debit.
THEOREM SentBatchKeepsItsReceipts == Spec => OnlyReturnsLeaveSentBatch
  <1>1. IInv /\ [Next]_vars => [OnlyReturnedLeave]_vars
    BY OnlyReturnedLeaveEveryStep
  <1> QED
    BY <1>1, Inductive, PTL DEF Spec, OnlyReturnsLeaveSentBatch

------------------------------------------------------------------------------
(* Collection implements DebtLedger.                                       *)

Debt  == [r \in Receipts |-> DebtOf(status[r])]
Phase == [b \in Remittances |-> PhaseOf(batch[b])]

\* The value of DebtOf and PhaseOf on every word of the tables.
LEMMA DebtValues ==
  /\ DebtOf("none") = "none"
  /\ DebtOf("new") = "draft" /\ DebtOf("pending") = "draft"
  /\ DebtOf("emitted") = "owed" /\ DebtOf("overdue") = "owed"
  /\ DebtOf("returned") = "returned"
  /\ DebtOf("paid") = "settled"
  /\ DebtOf("cancelled") = "void"
  BY DEF DebtOf

\* The ledger phase of each remittance status.
LEMMA PhaseValues ==
  /\ PhaseOf("none") = "none"
  /\ PhaseOf("draft") = "open" /\ PhaseOf("ready") = "open"
  /\ PhaseOf("submitted") = "sent" /\ PhaseOf("processed") = "sent"
  /\ PhaseOf("closed") = "closed"
  /\ PhaseOf("cancelled") = "void"
  BY DEF PhaseOf, BatchOpen, BatchSent

\* Only the two sent statuses are "sent", only the two unpaid ones are "owed".
LEMMA OwedAndSent ==
  ASSUME TypeOK
  PROVE  /\ \A r \in Receipts : DebtOf(status[r]) = "owed" <=> status[r] \in AwaitingSettlement
         /\ \A b \in Remittances : PhaseOf(batch[b]) = "sent" <=> batch[b] \in BatchSent
  <1>1. \A r \in Receipts :
          status[r] \in {"none", "new", "pending", "emitted", "paid", "returned", "cancelled", "overdue"}
    BY DEF TypeOK, ReceiptStatuses
  <1>2. \A b \in Remittances :
          batch[b] \in {"none", "draft", "ready", "submitted", "processed", "closed", "cancelled"}
    BY DEF TypeOK, RemittanceStatuses
  <1>3. ASSUME NEW r \in Receipts
        PROVE  DebtOf(status[r]) = "owed" <=> status[r] \in AwaitingSettlement
    BY <1>1, DebtValues DEF AwaitingSettlement
  <1>4. ASSUME NEW b \in Remittances
        PROVE  PhaseOf(batch[b]) = "sent" <=> batch[b] \in BatchSent
    BY <1>2, PhaseValues DEF BatchSent
  <1> QED
    BY <1>3, <1>4

\* Debts that change as Becomes says, claims and phases as they are: a move of the ledger.
LEMMA MovesLedger ==
  ASSUME TypeOK, UNCHANGED <<link, batch>>,
         \A r \in Receipts : \/ status'[r] = status[r]
                             \/ DebtOf(status'[r]) = DebtOf(status[r])
                             \/ DebtOf(status'[r]) \in Ledger!Becomes[DebtOf(status[r])]
  PROVE  Ledger!Move
  <1>1. \A r \in Receipts : Debt'[r] = Debt[r] \/ Debt'[r] \in Ledger!Becomes[Debt[r]]
    BY DEF Debt
  <1>2. \A s : DebtOf(s) \in Ledger!Debts
    BY DEF DebtOf, Ledger!Debts
  <1>3. Debt' \in [Receipts -> Ledger!Debts]
    BY <1>2 DEF Debt
  <1>4. Phase' = Phase
    BY DEF Phase
  <1> QED
    BY <1>1, <1>3, <1>4 DEF Ledger!Move, Debt, Phase

\* The entries of the ledger's table.
LEMMA Lives ==
  /\ Ledger!Becomes["none"] = {"draft", "owed"}
  /\ Ledger!Becomes["draft"] = {"owed", "void"}
  /\ Ledger!Becomes["owed"] = {"returned", "settled", "void"}
  /\ Ledger!Becomes["returned"] = {"void"}
  BY DEF Ledger!Becomes

\* A receipt that is paid or cancelled and released, seen from the ledger.
LEMMA ReleaseLeaves ==
  ASSUME TypeOK, NEW r \in Receipts, NEW reason, NEW s \in {"paid", "cancelled"},
         Release(r, reason), ~InFlight(r), SetStatus(r, s), UNCHANGED batch,
         DebtOf(s) \in Ledger!Becomes[DebtOf(status[r])]
  PROVE  Ledger!Leave(r)
  <1>1. link' = [link EXCEPT ![r] = NoBatch]
    BY DEF Release
  <1>2. link[r] = NoBatch \/ Phase[link[r]] # "sent"
    BY OwedAndSent DEF InFlight, Phase, TypeOK
  <1>3. Debt' = [Debt EXCEPT ![r] = DebtOf(s)]
    BY DEF Debt, SetStatus, TypeOK
  <1>4. DebtOf(s) \in {"settled", "void"}
    BY DebtValues
  <1> QED
    BY <1>1, <1>2, <1>3, <1>4 DEF Ledger!Leave, Debt, Phase

\* A step on receipts (raise, pay, return, cancel, re-emit, jobs) is a ledger step or a
\* stutter.
LEMMA ReceiptStepRefines ==
  ASSUME IInv, ReceiptStep
  PROVE  [Ledger!Next]_<<Debt, link, Phase>>
  <1>0. TypeOK
    BY DEF IInv
  <1> USE DEF receiptVars, SetStatus
  <1>1. ASSUME NEW r \in Receipts, NEW a \in Amounts,
               CreateReceipt(r, a) \/ RaiseEmitted(r, a) \/ UpdateReceipt(r, a)
        PROVE  Ledger!Move
    BY <1>0, <1>1, DebtValues, Lives, MovesLedger
       DEF CreateReceipt, RaiseEmitted, RaiseAs, UpdateReceipt, TypeOK
  <1>2. ASSUME NEW r \in Receipts, NEW a \in Amounts, NEW open \in SUBSET Receipts,
               PurchaseMembership(r, a, open)
        PROVE  Ledger!Move
    <2>1. ASSUME NEW q \in Receipts
          PROVE  \/ status'[q] = status[q]
                 \/ DebtOf(status'[q]) \in Ledger!Becomes[DebtOf(status[q])]
      BY <1>0, <1>2, DebtValues, Lives DEF PurchaseMembership, OpenPurchase, TypeOK
    <2> QED
      BY <1>0, <1>2, <2>1, MovesLedger DEF PurchaseMembership
  <1>3. ASSUME NEW r \in Receipts, EmitReceipt(r) \/ ProviderConfirms(r) \/ ReturnReceipt(r)
        PROVE  Ledger!Move
    <2>1. \/ status[r] \in {"new", "pending"} /\ status'[r] = "emitted"
          \/ status[r] \in {"emitted", "overdue"} /\ status'[r] \in {"paid", "returned"}
      <3>1. r \in DOMAIN status
        BY <1>0 DEF TypeOK
      <3>2. CASE EmitReceipt(r)
        BY <3>1, <3>2, ReceiptMoves DEF EmitReceipt
      <3>3. CASE ProviderConfirms(r)
        BY <3>1, <3>3, ReceiptMoves DEF ProviderConfirms
      <3>4. CASE ReturnReceipt(r)
        BY <3>1, <3>4, ReceiptMoves DEF ReturnReceipt
      <3> QED
        BY <1>3, <3>2, <3>3, <3>4
    <2>2. DebtOf(status'[r]) \in Ledger!Becomes[DebtOf(status[r])]
      BY <2>1, DebtValues, Lives
    <2>3. \A q \in Receipts : q # r => status'[q] = status[q]
      BY <1>0, <1>3 DEF EmitReceipt, ProviderConfirms, ReturnReceipt, TypeOK
    <2> QED
      BY <1>0, <1>3, <2>2, <2>3, MovesLedger DEF EmitReceipt, ProviderConfirms, ReturnReceipt
  <1>4. ASSUME NEW expired \in SUBSET Receipts, NEW late \in SUBSET Receipts,
               DailyReminders(expired, late)
        PROVE  Ledger!Move
    BY <1>0, <1>4, DebtValues, Lives, MovesLedger DEF DailyReminders, OpenPurchase, TypeOK
  <1>5. ASSUME NEW rows \in SUBSET FromRegistration, CancelRegistration(rows)
        PROVE  Ledger!Move
    BY <1>0, <1>5, DebtValues, Lives, MovesLedger, RegistrationReceipts
       DEF CancelRegistration, TypeOK
  <1>6. ASSUME NEW r \in Receipts, PayByHand(r) PROVE Ledger!Leave(r)
    <2>1. DebtOf("paid") \in Ledger!Becomes[DebtOf(status[r])]
      BY <1>6, ReceiptMoves, DebtValues, Lives DEF PayByHand
    <2> QED
      BY <1>0, <1>6, <2>1, ReleaseLeaves DEF PayByHand
  <1>7. ASSUME NEW r \in Receipts, CancelReceipt(r) PROVE Ledger!Leave(r)
    <2>1. DebtOf("cancelled") \in Ledger!Becomes[DebtOf(status[r])]
      BY <1>7, ReceiptMoves, DebtValues, Lives DEF CancelReceipt
    <2> QED
      BY <1>0, <1>7, <2>1, ReleaseLeaves DEF CancelReceipt
  <1>8. ASSUME NEW r \in Receipts, ReemitReceipt(r), status[r] # "new" PROVE Ledger!Retry(r)
    <2>1. DebtOf(status[r]) = "returned"
      BY <1>0, <1>8, ReceiptMoves, DebtValues DEF ReemitReceipt
    <2> QED
      BY <1>0, <1>8, <2>1, DebtValues
        DEF ReemitReceipt, Release, Ledger!Retry, TypeOK, Debt, Phase
  <1>9. ASSUME NEW r \in Receipts, ReemitReceipt(r), status[r] = "new"
        PROVE  UNCHANGED <<Debt, link, Phase>>
    <2>1. link[r] = NoBatch
      BY <1>0, <1>9 DEF IInv, HeldAmountsStand, TypeOK
    <2> QED
      BY <1>0, <1>9, <2>1, DebtValues DEF ReemitReceipt, Release, TypeOK, Debt, Phase
  <1> QED
    BY <1>1, <1>2, <1>3, <1>4, <1>5, <1>6, <1>7, <1>8, <1>9 DEF ReceiptStep, Ledger!Next

\* A step on remittances (create, generate, submit, import, close, cancel) is a ledger step
\* or a stutter.
LEMMA BatchStepRefines ==
  ASSUME IInv, BatchStep
  PROVE  [Ledger!Next]_<<Debt, link, Phase>>
  <1> USE DEF Debt, Phase, Ledger!Claimed, Held, receiptVars
  <1>0. TypeOK
    BY DEF IInv
  <1>1. ASSUME NEW b \in Remittances, NEW rows \in SUBSET Receipts, CreateRemittance(b, rows)
        PROVE  Ledger!Claim(b, rows)
    <2>1. \A r \in rows : DebtOf(status[r]) = "owed" /\ link[r] = NoBatch
      BY <1>1, DebtValues DEF CreateRemittance, Eligible
    <2> QED
      BY <1>0, <1>1, <2>1, PhaseValues DEF CreateRemittance, Ledger!Claim, TypeOK
  <1>2. ASSUME NEW b \in Remittances, GenerateXml(b) PROVE UNCHANGED <<Debt, link, Phase>>
    BY <1>0, <1>2, PhaseValues DEF GenerateXml, MayWriteFile, TypeOK
  <1>3. ASSUME NEW b \in Remittances, GenerateXmlRolledBack(b)
        PROVE  UNCHANGED <<Debt, link, Phase>>
    BY <1>3 DEF GenerateXmlRolledBack
  <1>4. ASSUME NEW b \in Remittances, MarkSubmitted(b) PROVE Ledger!Send(b)
    BY <1>0, <1>4, BatchMoves, PhaseValues DEF MarkSubmitted, Ledger!Send, TypeOK
  <1>5. ASSUME NEW b \in Remittances, NEW named \in SUBSET Receipts, ImportReturns(b, named)
        PROVE  Ledger!Move
    <2>1. \A r \in Receipts :
            \/ DebtOf(status'[r]) = DebtOf(status[r])
            \/ DebtOf(status'[r]) \in Ledger!Becomes[DebtOf(status[r])]
      BY <1>0, <1>5, DebtValues, Lives DEF ImportReturns, ReturnableStatuses, TypeOK
    <2>2. Debt' \in [Receipts -> Ledger!Debts]
      BY DEF DebtOf, Ledger!Debts
    <2>3. Phase' = Phase
      BY <1>0, <1>5, PhaseValues DEF ImportReturns, TypeOK
    <2> QED
      BY <1>5, <2>1, <2>2, <2>3 DEF ImportReturns, Ledger!Move
  <1>6. ASSUME NEW b \in Remittances, CloseRemittance(b) PROVE Ledger!Close(b)
    <2>1. Phase[b] = "sent"
      BY <1>6, BatchMoves, PhaseValues DEF CloseRemittance
    <2>2. Phase' = [Phase EXCEPT ![b] = "closed"]
      BY <1>0, <1>6, PhaseValues DEF CloseRemittance, TypeOK
    <2>3. \A r \in Receipts : Debt[r] = "owed" <=> status[r] \in AwaitingSettlement
      BY <1>0, OwedAndSent
    <2>4. Debt' = [r \in Receipts |->
                     IF link[r] = b /\ Debt[r] = "owed" THEN "settled" ELSE Debt[r]]
      BY <1>0, <1>6, <2>3, DebtValues DEF CloseRemittance, TypeOK
    <2>5. link' = link
      BY <1>6 DEF CloseRemittance
    <2> QED
      BY <2>1, <2>2, <2>4, <2>5 DEF Ledger!Close
  <1>7. ASSUME NEW b \in Remittances, CancelRemittance(b) PROVE Ledger!Abandon(b)
    <2>1. Phase[b] = "open"
      BY <1>7, BatchMoves, PhaseValues DEF CancelRemittance
    <2>2. Phase' = [Phase EXCEPT ![b] = "void"]
      BY <1>0, <1>7, PhaseValues DEF CancelRemittance, TypeOK
    <2>3. link' = [r \in Receipts |-> IF link[r] = b THEN NoBatch ELSE link[r]]
      BY <1>7 DEF CancelRemittance
    <2>4. Debt' = Debt
      BY <1>7 DEF CancelRemittance
    <2> QED
      BY <2>1, <2>2, <2>3, <2>4 DEF Ledger!Abandon
  <1> QED
    BY <1>1, <1>2, <1>3, <1>4, <1>5, <1>6, <1>7 DEF BatchStep, Ledger!Next

\* Mandates and the file on disk are not in the ledger.
LEMMA WorldStepRefines ==
  ASSUME WorldStep
  PROVE  UNCHANGED <<Debt, link, Phase>>
  BY DEF WorldStep, CreateMandate, CancelMandate, LoseFile, receiptVars, Debt, Phase

\* Every behaviour of the handlers, jobs and notifications is a behaviour of the promise:
\* one claim per debt, given up by a sent batch only for a returned one, settled on closing.
THEOREM Implements == Spec => ImplementsLedger
  <1>1. Init => Ledger!Init
    BY DebtValues, PhaseValues DEF Init, Ledger!Init
  <1>2. IInv /\ [Next]_vars => [Ledger!Next]_<<Debt, link, Phase>>
    <2> SUFFICES ASSUME IInv, [Next]_vars PROVE [Ledger!Next]_<<Debt, link, Phase>>
      OBVIOUS
    <2>1. CASE UNCHANGED vars
      BY <2>1 DEF vars, receiptVars, Debt, Phase
    <2> QED
      BY <2>1, ReceiptStepRefines, BatchStepRefines, WorldStepRefines DEF Next
  <1> QED
    BY <1>1, <1>2, Inductive, PTL DEF Spec, ImplementsLedger, Ledger!Spec, Debt, Phase
==============================================================================
