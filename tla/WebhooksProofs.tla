---------------------------- MODULE WebhooksProofs ----------------------------
(***************************************************************************)
(* That Webhooks applies every event exactly once, and implements          *)
(* EventLedger, for any number of API processes, desks, events, receipts   *)
(* and faults.                                                             *)
(***************************************************************************)
EXTENDS Webhooks, TLAPS

\* What a commit finds and what it leaves.
Committed(p) ==
  /\ event[p] \in Events /\ pc[p] = "record"
  /\ outcome[p] \in Settled \union {"failed"}
  /\ rowHolder[event[p]] = p
  /\ eventStatus[event[p]] \notin Settled
  /\ \A r \in Receipts : lock[r] = p =>
       /\ outcome[p] = "processed"
       /\ r = ReceiptOf[event[p]]
       /\ TargetOf[KindOf[event[p]]] \in ReceiptStatuses
  /\ \A e \in Events \ {event[p]} : rowHolder[e] # p
  /\ eventStatus' = [eventStatus EXCEPT ![event[p]] = outcome[p]]
  /\ rowHolder' \in [Events -> Processes \union {Nobody}]
  /\ \A e \in Events : rowHolder'[e] = IF e = event[p] THEN Nobody ELSE rowHolder[e]
  /\ lock' = Unlocked(p)
  /\ \A q \in Processes \ {p} :
       pc'[q] = pc[q] /\ event'[q] = event[q] /\ outcome'[q] = outcome[q]
  /\ outcome[p] = "failed" => pc'[p] = "idle"
  /\ outcome[p] # "failed" =>
       /\ pc'[p] \in {"dispatch", "answer"}
       /\ event'[p] = event[p]
       /\ outcome[p] # "processed" => pc'[p] = "answer"
  /\ pc' \in [Processes -> PCs]
  /\ event' \in [Processes -> Events \union {Nobody}]
  /\ outcome' \in [Processes -> Settled \union {"none", "failed"}]

\* What receive_webhook's commit does, with its two outcomes told apart.
LEMMA CommitFacts ==
  ASSUME TypeOK, RowsAreHeld, LocksAreHeld, OutcomesFit, NEW p \in Processes, Commit(p)
  PROVE  Committed(p)
  <1>0. /\ pc \in [Processes -> PCs]
        /\ event \in [Processes -> Events \union {Nobody}]
        /\ outcome \in [Processes -> Settled \union {"none", "failed"}]
        /\ rowHolder \in [Events -> Processes \union {Nobody}]
    BY DEF TypeOK
  <1>1. event[p] \in Events /\ pc[p] = "record" /\ outcome[p] \in Settled \union {"failed"}
    BY <1>0 DEF Commit, RowsAreHeld, OutcomesFit
  <1>2. /\ rowHolder[event[p]] = p /\ eventStatus[event[p]] \notin Settled
        /\ \A e \in Events \ {event[p]} : rowHolder[e] # p
    BY <1>1, NobodyIsNobody DEF RowsAreHeld
  <1>3. ASSUME NEW r \in Receipts, lock[r] = p
        PROVE  /\ outcome[p] = "processed" /\ r = ReceiptOf[event[p]]
               /\ TargetOf[KindOf[event[p]]] \in ReceiptStatuses
    <2>1. outcome[p] = "processed" /\ r = ReceiptOf[event[p]]
      BY <1>3 DEF LocksAreHeld
    <2>2. KindOf[event[p]] \in {"captured", "expired"}
      BY <1>1, <2>1, KindsAreKnown DEF OutcomesFit
    <2> QED
      BY <2>1, <2>2 DEF TargetOf, ReceiptStatuses
  <1>4. /\ eventStatus' = [eventStatus EXCEPT ![event[p]] = outcome[p]]
        /\ lock' = Unlocked(p)
    BY DEF Commit, CommitRows
  <1>5. /\ rowHolder' \in [Events -> Processes \union {Nobody}]
        /\ \A e \in Events : rowHolder'[e] = IF e = event[p] THEN Nobody ELSE rowHolder[e]
    BY <1>0, <1>1, <1>2 DEF Commit, CommitRows, RowsWithout
  <1>6. CASE outcome[p] = "failed"
    <2>1. /\ pc' = [pc EXCEPT ![p] = "idle"]
          /\ event' = [event EXCEPT ![p] = Nobody]
          /\ outcome' = [outcome EXCEPT ![p] = "none"]
      BY <1>6 DEF Commit, Rest, Goto
    <2>2. /\ \A q \in Processes \ {p} :
               pc'[q] = pc[q] /\ event'[q] = event[q] /\ outcome'[q] = outcome[q]
          /\ pc'[p] = "idle"
          /\ pc' \in [Processes -> PCs]
          /\ event' \in [Processes -> Events \union {Nobody}]
          /\ outcome' \in [Processes -> Settled \union {"none", "failed"}]
      BY <1>0, <2>1 DEF PCs
    <2> QED
      BY <1>1, <1>2, <1>3, <1>4, <1>5, <1>6, <2>2 DEF Committed
  <1>7. CASE outcome[p] # "failed"
    <2>1. /\ \/ pc' = [pc EXCEPT ![p] = "dispatch"] /\ outcome[p] = "processed"
             \/ pc' = [pc EXCEPT ![p] = "answer"]
          /\ event' = event /\ outcome' = outcome
      BY <1>7 DEF Commit, AfterCommit, Goto
    <2>2. /\ \A q \in Processes \ {p} :
               pc'[q] = pc[q] /\ event'[q] = event[q] /\ outcome'[q] = outcome[q]
          /\ pc'[p] \in {"dispatch", "answer"} /\ event'[p] = event[p]
          /\ outcome[p] # "processed" => pc'[p] = "answer"
          /\ pc' \in [Processes -> PCs]
          /\ event' \in [Processes -> Events \union {Nobody}]
          /\ outcome' \in [Processes -> Settled \union {"none", "failed"}]
      BY <1>0, <2>1 DEF PCs
    <2> QED
      BY <1>1, <1>2, <1>3, <1>4, <1>5, <1>7, <2>2 DEF Committed
  <1> QED
    BY <1>6, <1>7

\* Every column keeps a value of its kind.
LEMMA TypeNext ==
  ASSUME TypeOK, RowsAreHeld, LocksAreHeld, OutcomesFit, [Next]_vars
  PROVE  TypeOK'
  <1> USE NobodyIsNobody, ActorsAreApart, KindsAreKnown, EventsNameReceipts
      DEF rowVars, receiptVars, runVars, history, Settled, TypeOK, RowsAreHeld, OutcomesFit, PCs
  <1>1. ASSUME NEW p \in Processes, NEW e \in Events, Deliver(p, e) PROVE TypeOK'
    BY <1>1 DEF Deliver, Goto
  <1>2. ASSUME NEW p \in Processes, InsertEvent(p) PROVE TypeOK'
    BY <1>2 DEF InsertEvent, Goto
  <1>3. ASSUME NEW p \in Processes, InsertConflicts(p) PROVE TypeOK'
    BY <1>3 DEF InsertConflicts, Goto
  <1>4. ASSUME NEW p \in Processes, ClaimFailedEvent(p) PROVE TypeOK'
    BY <1>4 DEF ClaimFailedEvent, Goto
  <1>5. ASSUME NEW p \in Processes, Duplicate(p) PROVE TypeOK'
    BY <1>5 DEF Duplicate, Rest, Goto
  <1>6. ASSUME NEW p \in Processes, ReadReceipt(p) PROVE TypeOK'
    BY <1>6 DEF ReadReceipt, Goto, Applies
  <1>7. ASSUME NEW p \in Processes, WriteReceipt(p) PROVE TypeOK'
    BY <1>7 DEF WriteReceipt, Goto
  <1>8. ASSUME NEW p \in Processes, Commit(p) PROVE TypeOK'
    <2>1. Committed(p)
      BY <1>8, CommitFacts
    <2>2. /\ status' \in [Receipts -> ReceiptStatuses]
          /\ lock' \in [Receipts -> Processes \union Desks \union {Nobody}]
      BY <1>8, <2>1 DEF Commit, CommitRows, Unlocked, Committed
    <2>3. applied' \in [Events -> Nat]
      BY <1>8, <2>1 DEF Commit, CommitRows, Committed
    <2>4. eventStatus' \in [Events -> Settled \union {"none", "failed"}]
      BY <2>1 DEF Committed
    <2>5. /\ pc' \in [Processes -> PCs]
          /\ event' \in [Processes -> Events \union {Nobody}]
          /\ outcome' \in [Processes -> Settled \union {"none", "failed"}]
          /\ rowHolder' \in [Events -> Processes \union {Nobody}]
      BY <2>1 DEF Committed
    <2>6. job' = job /\ provider' = provider /\ faults' = faults /\ queued' = queued
          /\ byDesk' = byDesk
      BY <1>8 DEF Commit
    <2> QED
      BY ONLY TypeOK, <2>2, <2>3, <2>4, <2>5, <2>6 DEF TypeOK
  <1>9. ASSUME NEW p \in Processes, Dispatch(p) PROVE TypeOK'
    <2>0. queued \in [Events -> Nat] /\ event[p] \in Events
      BY <1>9 DEF Dispatch
    <2>1. queued' \in [Events -> Nat]
      <3>1. CASE queued' = [queued EXCEPT ![event[p]] = @ + 1]
        BY ONLY <2>0, <3>1
      <3>2. CASE queued' = queued
        BY <3>2
      <3> QED
        BY <1>9, <3>1, <3>2 DEF Dispatch
    <2>2. pc' \in [Processes -> PCs]
      BY <1>9 DEF Dispatch, Goto
    <2> QED
      BY <1>9, <2>1, <2>2 DEF Dispatch
  <1>10. ASSUME NEW p \in Processes, Answer(p) PROVE TypeOK'
    BY <1>10 DEF Answer, Rest, Goto
  <1>11. ASSUME NEW p \in Processes, HandlerFails(p) PROVE TypeOK'
    BY FaultsAreBounded, <1>11 DEF HandlerFails, Goto, Hurt, Unlocked
  <1>12. ASSUME NEW p \in Processes, Crash(p) PROVE TypeOK'
    BY FaultsAreBounded, <1>12 DEF Crash, Rest, Goto, Hurt, RowsWithout, Hosted
  <1>13. ASSUME NEW d \in Desks, NEW r \in Receipts, NEW s \in ReceiptStatuses, DeskReads(d, r, s)
         PROVE  TypeOK'
    BY <1>13 DEF DeskReads
  <1>14. ASSUME NEW d \in Desks, NEW r \in Receipts, NEW s \in ReceiptStatuses, DeskWrites(d, r, s)
         PROVE  TypeOK'
    BY <1>14 DEF DeskWrites
  <1>15. ASSUME NEW d \in Desks, NEW r \in Receipts, NEW s \in ReceiptStatuses, DeskCommits(d, r, s)
         PROVE  TypeOK'
    BY <1>15 DEF DeskCommits, Unlocked
  <1>16. ASSUME NEW d \in Desks, NEW r \in Receipts, NEW s \in ReceiptStatuses, DeskFails(d, r, s)
         PROVE  TypeOK'
    BY <1>16 DEF DeskFails
  <1>17. ASSUME NEW d \in Desks, NEW r \in Receipts, NEW s \in ReceiptStatuses, DeskCloses(d, r, s)
         PROVE  TypeOK'
    BY <1>17 DEF DeskCloses, Unlocked
  <1>18. CASE UNCHANGED vars
    BY <1>18 DEF vars
  <1> QED
    BY <1>1, <1>2, <1>3, <1>4, <1>5, <1>6, <1>7, <1>8, <1>9,
       <1>10, <1>11, <1>12, <1>13, <1>14, <1>15, <1>16, <1>17, <1>18
       DEF Next, Proceed, DeskStep, DeskEnds

\* A row has one holder at a time, the process at work on it.
LEMMA RowsNext ==
  ASSUME TypeOK, RowsAreHeld, LocksAreHeld, OutcomesFit, [Next]_vars
  PROVE  RowsAreHeld'
  <1> USE NobodyIsNobody, ActorsAreApart, KindsAreKnown, EventsNameReceipts
      DEF rowVars, receiptVars, runVars, history, Settled, TypeOK, RowsAreHeld, PCs
  <1>1. ASSUME NEW p \in Processes, NEW e \in Events, Deliver(p, e) PROVE RowsAreHeld'
    BY <1>1 DEF Deliver, Goto
  <1>2. ASSUME NEW p \in Processes, InsertEvent(p) PROVE RowsAreHeld'
    BY <1>2 DEF InsertEvent, Goto
  <1>3. ASSUME NEW p \in Processes, InsertConflicts(p) PROVE RowsAreHeld'
    BY <1>3 DEF InsertConflicts, Goto
  <1>4. ASSUME NEW p \in Processes, ClaimFailedEvent(p) PROVE RowsAreHeld'
    BY <1>4 DEF ClaimFailedEvent, Goto
  <1>5. ASSUME NEW p \in Processes, Duplicate(p) PROVE RowsAreHeld'
    BY <1>5 DEF Duplicate, Rest, Goto
  <1>6. ASSUME NEW p \in Processes, ReadReceipt(p) PROVE RowsAreHeld'
    BY <1>6 DEF ReadReceipt, Goto, Applies
  <1>7. ASSUME NEW p \in Processes, WriteReceipt(p) PROVE RowsAreHeld'
    BY <1>7 DEF WriteReceipt, Goto
  <1>8. ASSUME NEW p \in Processes, Commit(p) PROVE RowsAreHeld'
    <2>1. Committed(p)
      BY <1>8, CommitFacts
    <2>2. \A e \in Events : eventStatus'[e] = IF e = event[p] THEN outcome[p] ELSE eventStatus[e]
      BY <2>1 DEF Committed
    <2>3. \A q \in Processes : pc'[q] # "idle" => event'[q] \in Events
      BY <2>1 DEF Committed
    <2>4. \A q \in Processes : pc'[q] = "claim" => eventStatus'[event'[q]] # "none"
      BY <2>1, <2>2 DEF Committed
    <2>5. ASSUME NEW e \in Events, NEW q \in Processes
          PROVE  rowHolder'[e] = q <=> pc'[q] \in {"read", "write", "record"} /\ event'[q] = e
      <3>1. CASE q = p
        BY <2>1, <3>1 DEF Committed
      <3>2. CASE q # p
        BY <2>1, <3>2 DEF Committed
      <3> QED
        BY <3>1, <3>2
    <2>6. \A e \in Events : rowHolder'[e] # Nobody => eventStatus'[e] \notin Settled
      BY <2>1, <2>2 DEF Committed
    <2> QED
      BY <2>3, <2>4, <2>5, <2>6
  <1>9. ASSUME NEW p \in Processes, Dispatch(p) PROVE RowsAreHeld'
    BY <1>9 DEF Dispatch, Goto
  <1>10. ASSUME NEW p \in Processes, Answer(p) PROVE RowsAreHeld'
    BY <1>10 DEF Answer, Rest, Goto
  <1>11. ASSUME NEW p \in Processes, HandlerFails(p) PROVE RowsAreHeld'
    BY <1>11 DEF HandlerFails, Goto, Hurt, Unlocked
  <1>12. ASSUME NEW p \in Processes, Crash(p) PROVE RowsAreHeld'
    BY <1>12 DEF Crash, Rest, Goto, Hurt, RowsWithout, Hosted
  <1>13. ASSUME NEW d \in Desks, NEW r \in Receipts, NEW s \in ReceiptStatuses, DeskReads(d, r, s)
         PROVE  RowsAreHeld'
    BY <1>13 DEF DeskReads
  <1>14. ASSUME NEW d \in Desks, NEW r \in Receipts, NEW s \in ReceiptStatuses, DeskWrites(d, r, s)
         PROVE  RowsAreHeld'
    BY <1>14 DEF DeskWrites
  <1>15. ASSUME NEW d \in Desks, NEW r \in Receipts, NEW s \in ReceiptStatuses, DeskCommits(d, r, s)
         PROVE  RowsAreHeld'
    BY <1>15 DEF DeskCommits, Unlocked
  <1>16. ASSUME NEW d \in Desks, NEW r \in Receipts, NEW s \in ReceiptStatuses, DeskFails(d, r, s)
         PROVE  RowsAreHeld'
    BY <1>16 DEF DeskFails
  <1>17. ASSUME NEW d \in Desks, NEW r \in Receipts, NEW s \in ReceiptStatuses, DeskCloses(d, r, s)
         PROVE  RowsAreHeld'
    BY <1>17 DEF DeskCloses, Unlocked
  <1>18. CASE UNCHANGED vars
    BY <1>18 DEF vars
  <1> QED
    BY <1>1, <1>2, <1>3, <1>4, <1>5, <1>6, <1>7, <1>8, <1>9,
       <1>10, <1>11, <1>12, <1>13, <1>14, <1>15, <1>16, <1>17, <1>18
       DEF Next, Proceed, DeskStep, DeskEnds

\* Receipts are unlocked by whoever locked them.
LEMMA LocksNext ==
  ASSUME TypeOK, RowsAreHeld, LocksAreHeld, OutcomesFit, [Next]_vars
  PROVE  LocksAreHeld'
  <1> USE NobodyIsNobody, ActorsAreApart, KindsAreKnown, EventsNameReceipts
      DEF rowVars, receiptVars, runVars, history, Settled, TypeOK, RowsAreHeld, LocksAreHeld,
          OutcomesFit, PCs
  <1>1. ASSUME NEW p \in Processes, NEW e \in Events, Deliver(p, e) PROVE LocksAreHeld'
    BY <1>1 DEF Deliver, Goto
  <1>2. ASSUME NEW p \in Processes, InsertEvent(p) PROVE LocksAreHeld'
    BY <1>2 DEF InsertEvent, Goto
  <1>3. ASSUME NEW p \in Processes, InsertConflicts(p) PROVE LocksAreHeld'
    BY <1>3 DEF InsertConflicts, Goto
  <1>4. ASSUME NEW p \in Processes, ClaimFailedEvent(p) PROVE LocksAreHeld'
    BY <1>4 DEF ClaimFailedEvent, Goto
  <1>5. ASSUME NEW p \in Processes, Duplicate(p) PROVE LocksAreHeld'
    BY <1>5 DEF Duplicate, Rest, Goto
  <1>6. ASSUME NEW p \in Processes, ReadReceipt(p) PROVE LocksAreHeld'
    BY <1>6 DEF ReadReceipt, Goto, Applies
  <1>7. ASSUME NEW p \in Processes, WriteReceipt(p) PROVE LocksAreHeld'
    BY <1>7 DEF WriteReceipt, Goto
  <1>8. ASSUME NEW p \in Processes, Commit(p) PROVE LocksAreHeld'
    <2>1. Committed(p)
      BY <1>8, CommitFacts
    <2>2. ASSUME NEW r \in Receipts, NEW q \in Processes
          PROVE  lock'[r] = q <=> pc'[q] = "record" /\ outcome'[q] = "processed" /\ ReceiptOf[event'[q]] = r
      <3>1. lock'[r] = IF lock[r] = p THEN Nobody ELSE lock[r]
        BY <2>1 DEF Committed, Unlocked
      <3>2. CASE q = p
        BY <2>1, <3>1, <3>2 DEF Committed
      <3>3. CASE q # p
        BY <2>1, <3>1, <3>3 DEF Committed
      <3> QED
        BY <3>2, <3>3
    <2> QED
      BY <2>2
  <1>9. ASSUME NEW p \in Processes, Dispatch(p) PROVE LocksAreHeld'
    BY <1>9 DEF Dispatch, Goto
  <1>10. ASSUME NEW p \in Processes, Answer(p) PROVE LocksAreHeld'
    BY <1>10 DEF Answer, Rest, Goto
  <1>11. ASSUME NEW p \in Processes, HandlerFails(p) PROVE LocksAreHeld'
    BY <1>11 DEF HandlerFails, Goto, Hurt, Unlocked
  <1>12. ASSUME NEW p \in Processes, Crash(p) PROVE LocksAreHeld'
    BY <1>12 DEF Crash, Rest, Goto, Hurt, RowsWithout, Hosted
  <1>13. ASSUME NEW d \in Desks, NEW r \in Receipts, NEW s \in ReceiptStatuses, DeskReads(d, r, s)
         PROVE  LocksAreHeld'
    BY <1>13 DEF DeskReads
  <1>14. ASSUME NEW d \in Desks, NEW r \in Receipts, NEW s \in ReceiptStatuses, DeskWrites(d, r, s)
         PROVE  LocksAreHeld'
    BY <1>14 DEF DeskWrites
  <1>15. ASSUME NEW d \in Desks, NEW r \in Receipts, NEW s \in ReceiptStatuses, DeskCommits(d, r, s)
         PROVE  LocksAreHeld'
    BY <1>15 DEF DeskCommits, Unlocked
  <1>16. ASSUME NEW d \in Desks, NEW r \in Receipts, NEW s \in ReceiptStatuses, DeskFails(d, r, s)
         PROVE  LocksAreHeld'
    BY <1>16 DEF DeskFails
  <1>17. ASSUME NEW d \in Desks, NEW r \in Receipts, NEW s \in ReceiptStatuses, DeskCloses(d, r, s)
         PROVE  LocksAreHeld'
    BY <1>17 DEF DeskCloses, Unlocked
  <1>18. CASE UNCHANGED vars
    BY <1>18 DEF vars
  <1> QED
    BY <1>1, <1>2, <1>3, <1>4, <1>5, <1>6, <1>7, <1>8, <1>9,
       <1>10, <1>11, <1>12, <1>13, <1>14, <1>15, <1>16, <1>17, <1>18
       DEF Next, Proceed, DeskStep, DeskEnds

\* What a desk has locked it has written: it writes one receipt, and ends by unlocking it.
LEMMA DeskLocksNext ==
  ASSUME TypeOK, DeskLocksAreHeld, [Next]_vars
  PROVE  DeskLocksAreHeld'
  <1> USE NobodyIsNobody, ActorsAreApart
  <1> SUFFICES ASSUME NEW r \in Receipts, NEW d \in Desks, lock'[r] = d
               PROVE  \E step \in {"commit", "close"}, s \in ReceiptStatuses :
                        job'[d] = <<step, r, s>>
    BY DEF DeskLocksAreHeld
  <1>0. \A q \in Receipts :
          lock[q] = d => \E step \in {"commit", "close"}, s \in ReceiptStatuses :
                           job[d] = <<step, q, s>>
    BY DEF DeskLocksAreHeld
  <1>1. CASE lock[r] = d /\ job'[d] = job[d]
    BY <1>0, <1>1
  <1>2. ASSUME NEW p \in Processes, WriteReceipt(p) PROVE lock[r] = d /\ job'[d] = job[d]
    BY <1>2 DEF WriteReceipt, receiptVars, TypeOK
  <1>3. ASSUME NEW p \in Processes, Commit(p) \/ HandlerFails(p)
        PROVE  lock[r] = d /\ job'[d] = job[d]
    BY <1>3 DEF Commit, CommitRows, HandlerFails, Unlocked
  <1>4. ASSUME NEW p \in Processes, NEW e \in Events, Deliver(p, e)
        PROVE  lock[r] = d /\ job'[d] = job[d]
    BY <1>4 DEF Deliver, receiptVars
  <1>5. ASSUME NEW p \in Processes, Crash(p) PROVE lock[r] = d /\ job'[d] = job[d]
    <2>1. lock[r] = d /\ lock[r] \notin {p} \union Hosted(p)
      BY <1>5 DEF Crash
    <2> QED
      BY <1>5, <2>1 DEF Crash
  <1>6. ASSUME NEW c \in Desks, NEW q \in Receipts, NEW s \in ReceiptStatuses, c # d,
               DeskReads(c, q, s) \/ DeskWrites(c, q, s) \/ DeskCommits(c, q, s)
               \/ DeskFails(c, q, s) \/ DeskCloses(c, q, s)
        PROVE  lock[r] = d /\ job'[d] = job[d]
    BY <1>6 DEF DeskReads, DeskWrites, DeskCommits, DeskFails, DeskCloses, receiptVars, Unlocked,
                TypeOK
  <1>7. ASSUME NEW q \in Receipts, NEW s \in ReceiptStatuses, DeskReads(d, q, s)
        PROVE  FALSE
    <2>1. lock[r] = d /\ job[d] = <<>>
      BY <1>7 DEF DeskReads, receiptVars
    <2> QED
      BY <1>0, <2>1
  <1>8. ASSUME NEW q \in Receipts, NEW s \in ReceiptStatuses, DeskWrites(d, q, s)
        PROVE  job'[d] = <<"commit", r, s>>
    <2>1. job[d] = <<"write", q, s>> /\ job'[d] = <<"commit", q, s>>
      BY <1>8 DEF DeskWrites, TypeOK
    <2>2. lock[r] # d
      BY <1>0, <2>1
    <2>3. r = q
      BY <1>8, <2>2 DEF DeskWrites, TypeOK
    <2> QED
      BY <2>1, <2>3
  <1>9. ASSUME NEW q \in Receipts, NEW s \in ReceiptStatuses,
               DeskCommits(d, q, s) \/ DeskCloses(d, q, s)
        PROVE  FALSE
    BY <1>9 DEF DeskCommits, DeskCloses, Unlocked
  <1>10. ASSUME NEW q \in Receipts, NEW s \in ReceiptStatuses, DeskFails(d, q, s)
         PROVE  job'[d] = <<"close", r, s>>
    <2>1. job[d] = <<"commit", q, s>> /\ job'[d] = <<"close", q, s>> /\ lock[r] = d
      BY <1>10 DEF DeskFails, receiptVars, TypeOK
    <2>2. PICK step \in {"commit", "close"}, t \in ReceiptStatuses : job[d] = <<step, r, t>>
      BY <1>0, <2>1
    <2>3. r = q
      BY <2>1, <2>2
    <2> QED
      BY <2>1, <2>3
  <1>11. CASE UNCHANGED vars
    BY <1>1, <1>11 DEF vars, receiptVars
  <1>12. ASSUME NEW p \in Processes, Proceed(p) PROVE lock[r] = d /\ job'[d] = job[d]
    <2>1. CASE InsertEvent(p) \/ InsertConflicts(p) \/ ClaimFailedEvent(p) \/ Duplicate(p)
               \/ ReadReceipt(p) \/ Dispatch(p) \/ Answer(p)
      BY <2>1 DEF InsertEvent, InsertConflicts, ClaimFailedEvent, Duplicate, ReadReceipt,
                  Dispatch, Answer, receiptVars
    <2> QED
      BY <1>2, <1>3, <1>12, <2>1 DEF Proceed
  <1>13. ASSUME NEW c \in Desks, DeskStep(c)
         PROVE  \E step \in {"commit", "close"}, s \in ReceiptStatuses : job'[d] = <<step, r, s>>
    <2>1. CASE c = d
      BY <1>7, <1>8, <1>9, <1>10, <1>13, <2>1 DEF DeskStep, DeskEnds
    <2>2. CASE c # d
      BY <1>1, <1>6, <1>13, <2>2 DEF DeskStep, DeskEnds
    <2> QED
      BY <2>1, <2>2
  <1> QED
    BY <1>1, <1>3, <1>4, <1>5, <1>11, <1>12, <1>13 DEF Next

\* An outcome is that of an event that applies, or there is none.
LEMMA OutcomesNext ==
  ASSUME TypeOK, RowsAreHeld, LocksAreHeld, OutcomesFit, [Next]_vars
  PROVE  OutcomesFit'
  <1> USE NobodyIsNobody, ActorsAreApart, KindsAreKnown, EventsNameReceipts
      DEF rowVars, receiptVars, runVars, history, Settled, TypeOK, RowsAreHeld, OutcomesFit, PCs
  <1>1. ASSUME NEW p \in Processes, NEW e \in Events, Deliver(p, e) PROVE OutcomesFit'
    BY <1>1 DEF Deliver, Goto
  <1>2. ASSUME NEW p \in Processes, InsertEvent(p) PROVE OutcomesFit'
    BY <1>2 DEF InsertEvent, Goto
  <1>3. ASSUME NEW p \in Processes, InsertConflicts(p) PROVE OutcomesFit'
    BY <1>3 DEF InsertConflicts, Goto
  <1>4. ASSUME NEW p \in Processes, ClaimFailedEvent(p) PROVE OutcomesFit'
    BY <1>4 DEF ClaimFailedEvent, Goto
  <1>5. ASSUME NEW p \in Processes, Duplicate(p) PROVE OutcomesFit'
    BY <1>5 DEF Duplicate, Rest, Goto
  <1>6. ASSUME NEW p \in Processes, ReadReceipt(p) PROVE OutcomesFit'
    BY <1>6 DEF ReadReceipt, Goto, Applies
  <1>7. ASSUME NEW p \in Processes, WriteReceipt(p) PROVE OutcomesFit'
    BY <1>7 DEF WriteReceipt, Goto
  <1>8. ASSUME NEW p \in Processes, Commit(p) PROVE OutcomesFit'
    <2>1. Committed(p)
      BY <1>8, CommitFacts
    <2>2. pc'[p] \notin {"write", "record"}
      BY <2>1 DEF Committed
    <2>3. \A q \in Processes \ {p} : pc'[q] = pc[q] /\ event'[q] = event[q] /\ outcome'[q] = outcome[q]
      BY <2>1 DEF Committed
    <2>4. ASSUME NEW q \in Processes
          PROVE  /\ pc'[q] = "write" => outcome'[q] = "processed"
                 /\ pc'[q] = "record" => outcome'[q] # "none"
                 /\ outcome'[q] = "processed" /\ pc'[q] \in {"write", "record"}
                      => KindOf[event'[q]] # "other"
      <3>1. CASE q = p
        BY <2>2, <3>1
      <3>2. CASE q # p
        BY <2>3, <3>2
      <3> QED
        BY <3>1, <3>2
    <2> QED
      BY <2>4, Zenon
  <1>9. ASSUME NEW p \in Processes, Dispatch(p) PROVE OutcomesFit'
    BY <1>9 DEF Dispatch, Goto
  <1>10. ASSUME NEW p \in Processes, Answer(p) PROVE OutcomesFit'
    BY <1>10 DEF Answer, Rest, Goto
  <1>11. ASSUME NEW p \in Processes, HandlerFails(p) PROVE OutcomesFit'
    BY <1>11 DEF HandlerFails, Goto, Hurt, Unlocked
  <1>12. ASSUME NEW p \in Processes, Crash(p) PROVE OutcomesFit'
    BY <1>12 DEF Crash, Rest, Goto, Hurt, RowsWithout, Hosted
  <1>13. ASSUME NEW d \in Desks, NEW r \in Receipts, NEW s \in ReceiptStatuses, DeskReads(d, r, s)
         PROVE  OutcomesFit'
    BY <1>13 DEF DeskReads
  <1>14. ASSUME NEW d \in Desks, NEW r \in Receipts, NEW s \in ReceiptStatuses, DeskWrites(d, r, s)
         PROVE  OutcomesFit'
    BY <1>14 DEF DeskWrites
  <1>15. ASSUME NEW d \in Desks, NEW r \in Receipts, NEW s \in ReceiptStatuses, DeskCommits(d, r, s)
         PROVE  OutcomesFit'
    BY <1>15 DEF DeskCommits, Unlocked
  <1>16. ASSUME NEW d \in Desks, NEW r \in Receipts, NEW s \in ReceiptStatuses, DeskFails(d, r, s)
         PROVE  OutcomesFit'
    BY <1>16 DEF DeskFails
  <1>17. ASSUME NEW d \in Desks, NEW r \in Receipts, NEW s \in ReceiptStatuses, DeskCloses(d, r, s)
         PROVE  OutcomesFit'
    BY <1>17 DEF DeskCloses, Unlocked
  <1>18. CASE UNCHANGED vars
    BY <1>18 DEF vars
  <1> QED
    BY <1>1, <1>2, <1>3, <1>4, <1>5, <1>6, <1>7, <1>8, <1>9,
       <1>10, <1>11, <1>12, <1>13, <1>14, <1>15, <1>16, <1>17, <1>18
       DEF Next, Proceed, DeskStep, DeskEnds

\* Only the process that settled an event goes on to confirm it.
LEMMA AfterwardsNext ==
  ASSUME TypeOK, RowsAreHeld, LocksAreHeld, OutcomesFit, AfterwardsSettled,
         AppliedAsRecorded, ConfirmedOnce, [Next]_vars
  PROVE  AfterwardsSettled'
  <1> USE NobodyIsNobody, ActorsAreApart, KindsAreKnown, EventsNameReceipts
      DEF rowVars, receiptVars, runVars, history, Settled, TypeOK, RowsAreHeld, OutcomesFit,
          AfterwardsSettled, AppliedAsRecorded, ConfirmedOnce, PCs
  <1>1. ASSUME NEW p \in Processes, NEW e \in Events, Deliver(p, e) PROVE AfterwardsSettled'
    BY <1>1 DEF Deliver, Goto
  <1>2. ASSUME NEW p \in Processes, InsertEvent(p) PROVE AfterwardsSettled'
    BY <1>2 DEF InsertEvent, Goto
  <1>3. ASSUME NEW p \in Processes, InsertConflicts(p) PROVE AfterwardsSettled'
    BY <1>3 DEF InsertConflicts, Goto
  <1>4. ASSUME NEW p \in Processes, ClaimFailedEvent(p) PROVE AfterwardsSettled'
    BY <1>4 DEF ClaimFailedEvent, Goto
  <1>5. ASSUME NEW p \in Processes, Duplicate(p) PROVE AfterwardsSettled'
    BY <1>5 DEF Duplicate, Rest, Goto
  <1>6. ASSUME NEW p \in Processes, ReadReceipt(p) PROVE AfterwardsSettled'
    BY <1>6 DEF ReadReceipt, Goto, Applies
  <1>7. ASSUME NEW p \in Processes, WriteReceipt(p) PROVE AfterwardsSettled'
    BY <1>7 DEF WriteReceipt, Goto
  <1>8. ASSUME NEW p \in Processes, Commit(p) PROVE AfterwardsSettled'
    <2>1. Committed(p)
      BY <1>8, CommitFacts
    <2>2. /\ \A e \in Events : e # event[p] => eventStatus'[e] = eventStatus[e]
          /\ eventStatus'[event[p]] = outcome[p]
          /\ queued' = queued
      BY <1>8, <2>1 DEF Committed, Commit
    <2>3. \A q \in Processes : pc[q] \in {"dispatch", "answer"} => event[q] # event[p]
      BY <2>1 DEF Committed
    <2>4. queued[event[p]] = 0
      BY <2>1 DEF Committed
    <2>5. ASSUME NEW q \in Processes, pc'[q] \in {"dispatch", "answer"}
          PROVE  /\ event'[q] \in Events
                 /\ eventStatus'[event'[q]] \in Settled
                 /\ pc'[q] = "dispatch" =>
                      eventStatus'[event'[q]] = "processed" /\ queued'[event'[q]] = 0
      <3>1. CASE q = p
        BY <2>1, <2>2, <2>4, <2>5, <3>1 DEF Committed
      <3>2. CASE q # p
        BY <2>1, <2>2, <2>3, <2>5, <3>2 DEF Committed
      <3> QED
        BY <3>1, <3>2
    <2>6. ASSUME NEW q \in Processes, NEW c \in Processes,
                 pc'[q] = "dispatch", pc'[c] = "dispatch", event'[c] = event'[q]
          PROVE  c = q
      <3>1. CASE q = p /\ c # p
        BY <2>1, <2>3, <2>6, <3>1 DEF Committed
      <3>2. CASE q # p /\ c = p
        BY <2>1, <2>3, <2>6, <3>2 DEF Committed
      <3>3. CASE q # p /\ c # p
        <4>1. pc[q] = "dispatch" /\ pc[c] = "dispatch" /\ event[c] = event[q]
          BY <2>1, <2>6, <3>3 DEF Committed
        <4> QED
          BY <4>1
      <3> QED
        BY <3>1, <3>2, <3>3
    <2> QED
      BY <2>5, <2>6
  <1>9. ASSUME NEW p \in Processes, Dispatch(p) PROVE AfterwardsSettled'
    BY <1>9 DEF Dispatch, Goto
  <1>10. ASSUME NEW p \in Processes, Answer(p) PROVE AfterwardsSettled'
    BY <1>10 DEF Answer, Rest, Goto
  <1>11. ASSUME NEW p \in Processes, HandlerFails(p) PROVE AfterwardsSettled'
    BY <1>11 DEF HandlerFails, Goto, Hurt, Unlocked
  <1>12. ASSUME NEW p \in Processes, Crash(p) PROVE AfterwardsSettled'
    BY <1>12 DEF Crash, Rest, Goto, Hurt, RowsWithout, Hosted
  <1>13. ASSUME NEW d \in Desks, NEW r \in Receipts, NEW s \in ReceiptStatuses, DeskReads(d, r, s)
         PROVE  AfterwardsSettled'
    BY <1>13 DEF DeskReads
  <1>14. ASSUME NEW d \in Desks, NEW r \in Receipts, NEW s \in ReceiptStatuses, DeskWrites(d, r, s)
         PROVE  AfterwardsSettled'
    BY <1>14 DEF DeskWrites
  <1>15. ASSUME NEW d \in Desks, NEW r \in Receipts, NEW s \in ReceiptStatuses, DeskCommits(d, r, s)
         PROVE  AfterwardsSettled'
    BY <1>15 DEF DeskCommits, Unlocked
  <1>16. ASSUME NEW d \in Desks, NEW r \in Receipts, NEW s \in ReceiptStatuses, DeskFails(d, r, s)
         PROVE  AfterwardsSettled'
    BY <1>16 DEF DeskFails
  <1>17. ASSUME NEW d \in Desks, NEW r \in Receipts, NEW s \in ReceiptStatuses, DeskCloses(d, r, s)
         PROVE  AfterwardsSettled'
    BY <1>17 DEF DeskCloses, Unlocked
  <1>18. CASE UNCHANGED vars
    BY <1>18 DEF vars
  <1> QED
    BY <1>1, <1>2, <1>3, <1>4, <1>5, <1>6, <1>7, <1>8, <1>9,
       <1>10, <1>11, <1>12, <1>13, <1>14, <1>15, <1>16, <1>17, <1>18
       DEF Next, Proceed, DeskStep, DeskEnds

\* An effect is counted exactly when its event is settled, which happens once.
LEMMA AppliedNext ==
  ASSUME TypeOK, RowsAreHeld, OutcomesFit, AppliedAsRecorded, [Next]_vars
  PROVE  AppliedAsRecorded'
  <1> USE NobodyIsNobody, ActorsAreApart, KindsAreKnown, EventsNameReceipts
      DEF rowVars, receiptVars, runVars, history, Settled, TypeOK, RowsAreHeld, OutcomesFit,
          AppliedAsRecorded, PCs
  <1>1. ASSUME NEW p \in Processes, NEW e \in Events, Deliver(p, e) PROVE AppliedAsRecorded'
    BY <1>1 DEF Deliver, Goto
  <1>2. ASSUME NEW p \in Processes, InsertEvent(p) PROVE AppliedAsRecorded'
    BY <1>2 DEF InsertEvent, Goto
  <1>3. ASSUME NEW p \in Processes, InsertConflicts(p) PROVE AppliedAsRecorded'
    BY <1>3 DEF InsertConflicts, Goto
  <1>4. ASSUME NEW p \in Processes, ClaimFailedEvent(p) PROVE AppliedAsRecorded'
    BY <1>4 DEF ClaimFailedEvent, Goto
  <1>5. ASSUME NEW p \in Processes, Duplicate(p) PROVE AppliedAsRecorded'
    BY <1>5 DEF Duplicate, Rest, Goto
  <1>6. ASSUME NEW p \in Processes, ReadReceipt(p) PROVE AppliedAsRecorded'
    BY <1>6 DEF ReadReceipt, Goto, Applies
  <1>7. ASSUME NEW p \in Processes, WriteReceipt(p) PROVE AppliedAsRecorded'
    BY <1>7 DEF WriteReceipt, Goto
  <1>8. ASSUME NEW p \in Processes, Commit(p) PROVE AppliedAsRecorded'
    BY <1>8 DEF Commit, CommitRows, AfterCommit, Rest, Goto, RowsWithout, Unlocked, TargetOf
  <1>9. ASSUME NEW p \in Processes, Dispatch(p) PROVE AppliedAsRecorded'
    BY <1>9 DEF Dispatch, Goto
  <1>10. ASSUME NEW p \in Processes, Answer(p) PROVE AppliedAsRecorded'
    BY <1>10 DEF Answer, Rest, Goto
  <1>11. ASSUME NEW p \in Processes, HandlerFails(p) PROVE AppliedAsRecorded'
    BY <1>11 DEF HandlerFails, Goto, Hurt, Unlocked
  <1>12. ASSUME NEW p \in Processes, Crash(p) PROVE AppliedAsRecorded'
    BY <1>12 DEF Crash, Rest, Goto, Hurt, RowsWithout, Hosted
  <1>13. ASSUME NEW d \in Desks, NEW r \in Receipts, NEW s \in ReceiptStatuses, DeskReads(d, r, s)
         PROVE  AppliedAsRecorded'
    BY <1>13 DEF DeskReads
  <1>14. ASSUME NEW d \in Desks, NEW r \in Receipts, NEW s \in ReceiptStatuses, DeskWrites(d, r, s)
         PROVE  AppliedAsRecorded'
    BY <1>14 DEF DeskWrites
  <1>15. ASSUME NEW d \in Desks, NEW r \in Receipts, NEW s \in ReceiptStatuses, DeskCommits(d, r, s)
         PROVE  AppliedAsRecorded'
    BY <1>15 DEF DeskCommits, Unlocked
  <1>16. ASSUME NEW d \in Desks, NEW r \in Receipts, NEW s \in ReceiptStatuses, DeskFails(d, r, s)
         PROVE  AppliedAsRecorded'
    BY <1>16 DEF DeskFails
  <1>17. ASSUME NEW d \in Desks, NEW r \in Receipts, NEW s \in ReceiptStatuses, DeskCloses(d, r, s)
         PROVE  AppliedAsRecorded'
    BY <1>17 DEF DeskCloses, Unlocked
  <1>18. CASE UNCHANGED vars
    BY <1>18 DEF vars
  <1> QED
    BY <1>1, <1>2, <1>3, <1>4, <1>5, <1>6, <1>7, <1>8, <1>9,
       <1>10, <1>11, <1>12, <1>13, <1>14, <1>15, <1>16, <1>17, <1>18
       DEF Next, Proceed, DeskStep, DeskEnds

\* Only a settled event is answered 2xx.
LEMMA AcknowledgedNext ==
  ASSUME TypeOK, RowsAreHeld, AfterwardsSettled, AcknowledgedIsSettled, [Next]_vars
  PROVE  AcknowledgedIsSettled'
  <1> USE NobodyIsNobody, ActorsAreApart, KindsAreKnown, EventsNameReceipts
      DEF rowVars, receiptVars, runVars, history, Settled, TypeOK, RowsAreHeld,
          AfterwardsSettled, AcknowledgedIsSettled, PCs
  <1>1. ASSUME NEW p \in Processes, NEW e \in Events, Deliver(p, e) PROVE AcknowledgedIsSettled'
    BY <1>1 DEF Deliver, Goto
  <1>2. ASSUME NEW p \in Processes, InsertEvent(p) PROVE AcknowledgedIsSettled'
    BY <1>2 DEF InsertEvent, Goto
  <1>3. ASSUME NEW p \in Processes, InsertConflicts(p) PROVE AcknowledgedIsSettled'
    BY <1>3 DEF InsertConflicts, Goto
  <1>4. ASSUME NEW p \in Processes, ClaimFailedEvent(p) PROVE AcknowledgedIsSettled'
    BY <1>4 DEF ClaimFailedEvent, Goto
  <1>5. ASSUME NEW p \in Processes, Duplicate(p) PROVE AcknowledgedIsSettled'
    BY <1>5 DEF Duplicate, Rest, Goto
  <1>6. ASSUME NEW p \in Processes, ReadReceipt(p) PROVE AcknowledgedIsSettled'
    BY <1>6 DEF ReadReceipt, Goto, Applies
  <1>7. ASSUME NEW p \in Processes, WriteReceipt(p) PROVE AcknowledgedIsSettled'
    BY <1>7 DEF WriteReceipt, Goto
  <1>8. ASSUME NEW p \in Processes, Commit(p) PROVE AcknowledgedIsSettled'
    BY <1>8 DEF Commit, CommitRows, AfterCommit, Rest, Goto, RowsWithout, Unlocked, TargetOf
  <1>9. ASSUME NEW p \in Processes, Dispatch(p) PROVE AcknowledgedIsSettled'
    BY <1>9 DEF Dispatch, Goto
  <1>10. ASSUME NEW p \in Processes, Answer(p) PROVE AcknowledgedIsSettled'
    BY <1>10 DEF Answer, Rest, Goto
  <1>11. ASSUME NEW p \in Processes, HandlerFails(p) PROVE AcknowledgedIsSettled'
    BY <1>11 DEF HandlerFails, Goto, Hurt, Unlocked
  <1>12. ASSUME NEW p \in Processes, Crash(p) PROVE AcknowledgedIsSettled'
    BY <1>12 DEF Crash, Rest, Goto, Hurt, RowsWithout, Hosted
  <1>13. ASSUME NEW d \in Desks, NEW r \in Receipts, NEW s \in ReceiptStatuses, DeskReads(d, r, s)
         PROVE  AcknowledgedIsSettled'
    BY <1>13 DEF DeskReads
  <1>14. ASSUME NEW d \in Desks, NEW r \in Receipts, NEW s \in ReceiptStatuses, DeskWrites(d, r, s)
         PROVE  AcknowledgedIsSettled'
    BY <1>14 DEF DeskWrites
  <1>15. ASSUME NEW d \in Desks, NEW r \in Receipts, NEW s \in ReceiptStatuses, DeskCommits(d, r, s)
         PROVE  AcknowledgedIsSettled'
    BY <1>15 DEF DeskCommits, Unlocked
  <1>16. ASSUME NEW d \in Desks, NEW r \in Receipts, NEW s \in ReceiptStatuses, DeskFails(d, r, s)
         PROVE  AcknowledgedIsSettled'
    BY <1>16 DEF DeskFails
  <1>17. ASSUME NEW d \in Desks, NEW r \in Receipts, NEW s \in ReceiptStatuses, DeskCloses(d, r, s)
         PROVE  AcknowledgedIsSettled'
    BY <1>17 DEF DeskCloses, Unlocked
  <1>18. CASE UNCHANGED vars
    BY <1>18 DEF vars
  <1> QED
    BY <1>1, <1>2, <1>3, <1>4, <1>5, <1>6, <1>7, <1>8, <1>9,
       <1>10, <1>11, <1>12, <1>13, <1>14, <1>15, <1>16, <1>17, <1>18
       DEF Next, Proceed, DeskStep, DeskEnds

\* A confirmation is queued by the one process about to dispatch it.
LEMMA ConfirmedNext ==
  ASSUME TypeOK, RowsAreHeld, AfterwardsSettled, AppliedAsRecorded, ConfirmedOnce, [Next]_vars
  PROVE  ConfirmedOnce'
  <1> USE NobodyIsNobody, ActorsAreApart, KindsAreKnown, EventsNameReceipts
      DEF rowVars, receiptVars, runVars, history, Settled, TypeOK, RowsAreHeld,
          AfterwardsSettled, AppliedAsRecorded, ConfirmedOnce, PCs
  <1>1. ASSUME NEW p \in Processes, NEW e \in Events, Deliver(p, e) PROVE ConfirmedOnce'
    BY <1>1 DEF Deliver, Goto
  <1>2. ASSUME NEW p \in Processes, InsertEvent(p) PROVE ConfirmedOnce'
    BY <1>2 DEF InsertEvent, Goto
  <1>3. ASSUME NEW p \in Processes, InsertConflicts(p) PROVE ConfirmedOnce'
    BY <1>3 DEF InsertConflicts, Goto
  <1>4. ASSUME NEW p \in Processes, ClaimFailedEvent(p) PROVE ConfirmedOnce'
    BY <1>4 DEF ClaimFailedEvent, Goto
  <1>5. ASSUME NEW p \in Processes, Duplicate(p) PROVE ConfirmedOnce'
    BY <1>5 DEF Duplicate, Rest, Goto
  <1>6. ASSUME NEW p \in Processes, ReadReceipt(p) PROVE ConfirmedOnce'
    BY <1>6 DEF ReadReceipt, Goto, Applies
  <1>7. ASSUME NEW p \in Processes, WriteReceipt(p) PROVE ConfirmedOnce'
    BY <1>7 DEF WriteReceipt, Goto
  <1>8. ASSUME NEW p \in Processes, Commit(p) PROVE ConfirmedOnce'
    BY <1>8 DEF Commit, CommitRows, AfterCommit, Rest, Goto, RowsWithout, Unlocked, TargetOf
  <1>9. ASSUME NEW p \in Processes, Dispatch(p) PROVE ConfirmedOnce'
    <2>1. event[p] \in Events /\ applied[event[p]] = 1 /\ queued[event[p]] = 0
      BY <1>9 DEF Dispatch
    <2>2. CASE queued' = [queued EXCEPT ![event[p]] = @ + 1]
      BY <1>9, <2>1, <2>2 DEF Dispatch
    <2>3. CASE UNCHANGED queued
      BY <1>9, <2>3 DEF Dispatch
    <2> QED
      BY <1>9, <2>2, <2>3 DEF Dispatch
  <1>10. ASSUME NEW p \in Processes, Answer(p) PROVE ConfirmedOnce'
    BY <1>10 DEF Answer, Rest, Goto
  <1>11. ASSUME NEW p \in Processes, HandlerFails(p) PROVE ConfirmedOnce'
    BY <1>11 DEF HandlerFails, Goto, Hurt, Unlocked
  <1>12. ASSUME NEW p \in Processes, Crash(p) PROVE ConfirmedOnce'
    BY <1>12 DEF Crash, Rest, Goto, Hurt, RowsWithout, Hosted
  <1>13. ASSUME NEW d \in Desks, NEW r \in Receipts, NEW s \in ReceiptStatuses, DeskReads(d, r, s)
         PROVE  ConfirmedOnce'
    BY <1>13 DEF DeskReads
  <1>14. ASSUME NEW d \in Desks, NEW r \in Receipts, NEW s \in ReceiptStatuses, DeskWrites(d, r, s)
         PROVE  ConfirmedOnce'
    BY <1>14 DEF DeskWrites
  <1>15. ASSUME NEW d \in Desks, NEW r \in Receipts, NEW s \in ReceiptStatuses, DeskCommits(d, r, s)
         PROVE  ConfirmedOnce'
    BY <1>15 DEF DeskCommits, Unlocked
  <1>16. ASSUME NEW d \in Desks, NEW r \in Receipts, NEW s \in ReceiptStatuses, DeskFails(d, r, s)
         PROVE  ConfirmedOnce'
    BY <1>16 DEF DeskFails
  <1>17. ASSUME NEW d \in Desks, NEW r \in Receipts, NEW s \in ReceiptStatuses, DeskCloses(d, r, s)
         PROVE  ConfirmedOnce'
    BY <1>17 DEF DeskCloses, Unlocked
  <1>18. CASE UNCHANGED vars
    BY <1>18 DEF vars
  <1> QED
    BY <1>1, <1>2, <1>3, <1>4, <1>5, <1>6, <1>7, <1>8, <1>9,
       <1>10, <1>11, <1>12, <1>13, <1>14, <1>15, <1>16, <1>17, <1>18
       DEF Next, Proceed, DeskStep, DeskEnds

\* A receipt becomes paid with the commit that accounts for it.
LEMMA PaidNext ==
  ASSUME TypeOK, RowsAreHeld, LocksAreHeld, OutcomesFit, PaidIsAccounted, [Next]_vars
  PROVE  PaidIsAccounted'
  <1> USE NobodyIsNobody, ActorsAreApart, KindsAreKnown, EventsNameReceipts
      DEF rowVars, receiptVars, runVars, history, Settled, TypeOK, RowsAreHeld, LocksAreHeld,
          OutcomesFit, PaidIsAccounted, PCs
  <1>1. ASSUME NEW p \in Processes, NEW e \in Events, Deliver(p, e) PROVE PaidIsAccounted'
    BY <1>1 DEF Deliver, Goto
  <1>2. ASSUME NEW p \in Processes, InsertEvent(p) PROVE PaidIsAccounted'
    BY <1>2 DEF InsertEvent, Goto
  <1>3. ASSUME NEW p \in Processes, InsertConflicts(p) PROVE PaidIsAccounted'
    BY <1>3 DEF InsertConflicts, Goto
  <1>4. ASSUME NEW p \in Processes, ClaimFailedEvent(p) PROVE PaidIsAccounted'
    BY <1>4 DEF ClaimFailedEvent, Goto
  <1>5. ASSUME NEW p \in Processes, Duplicate(p) PROVE PaidIsAccounted'
    BY <1>5 DEF Duplicate, Rest, Goto
  <1>6. ASSUME NEW p \in Processes, ReadReceipt(p) PROVE PaidIsAccounted'
    BY <1>6 DEF ReadReceipt, Goto, Applies
  <1>7. ASSUME NEW p \in Processes, WriteReceipt(p) PROVE PaidIsAccounted'
    BY <1>7 DEF WriteReceipt, Goto
  <1>8. ASSUME NEW p \in Processes, Commit(p) PROVE PaidIsAccounted'
    BY <1>8 DEF Commit, CommitRows, AfterCommit, Rest, Goto, RowsWithout, Unlocked, TargetOf
  <1>9. ASSUME NEW p \in Processes, Dispatch(p) PROVE PaidIsAccounted'
    BY <1>9 DEF Dispatch, Goto
  <1>10. ASSUME NEW p \in Processes, Answer(p) PROVE PaidIsAccounted'
    BY <1>10 DEF Answer, Rest, Goto
  <1>11. ASSUME NEW p \in Processes, HandlerFails(p) PROVE PaidIsAccounted'
    BY <1>11 DEF HandlerFails, Goto, Hurt, Unlocked
  <1>12. ASSUME NEW p \in Processes, Crash(p) PROVE PaidIsAccounted'
    BY <1>12 DEF Crash, Rest, Goto, Hurt, RowsWithout, Hosted
  <1>13. ASSUME NEW d \in Desks, NEW r \in Receipts, NEW s \in ReceiptStatuses, DeskReads(d, r, s)
         PROVE  PaidIsAccounted'
    BY <1>13 DEF DeskReads
  <1>14. ASSUME NEW d \in Desks, NEW r \in Receipts, NEW s \in ReceiptStatuses, DeskWrites(d, r, s)
         PROVE  PaidIsAccounted'
    BY <1>14 DEF DeskWrites
  <1>15. ASSUME NEW d \in Desks, NEW r \in Receipts, NEW s \in ReceiptStatuses, DeskCommits(d, r, s)
         PROVE  PaidIsAccounted'
    BY <1>15 DEF DeskCommits, Unlocked
  <1>16. ASSUME NEW d \in Desks, NEW r \in Receipts, NEW s \in ReceiptStatuses, DeskFails(d, r, s)
         PROVE  PaidIsAccounted'
    BY <1>16 DEF DeskFails
  <1>17. ASSUME NEW d \in Desks, NEW r \in Receipts, NEW s \in ReceiptStatuses, DeskCloses(d, r, s)
         PROVE  PaidIsAccounted'
    BY <1>17 DEF DeskCloses, Unlocked
  <1>18. CASE UNCHANGED vars
    BY <1>18 DEF vars
  <1> QED
    BY <1>1, <1>2, <1>3, <1>4, <1>5, <1>6, <1>7, <1>8, <1>9,
       <1>10, <1>11, <1>12, <1>13, <1>14, <1>15, <1>16, <1>17, <1>18
       DEF Next, Proceed, DeskStep, DeskEnds

\* The invariant holds at the start, before any event has been sent.
LEMMA InvInit == Init => IInv
  BY NobodyIsNobody, FaultsAreBounded
  DEF Init, IInv, TypeOK, RowsAreHeld, LocksAreHeld, DeskLocksAreHeld, OutcomesFit,
      AfterwardsSettled, AppliedAsRecorded, AcknowledgedIsSettled, ConfirmedOnce, PaidIsAccounted,
      PCs, ReceiptStatuses, Settled

\* ... and every step keeps it.
LEMMA InvNext == IInv /\ [Next]_vars => IInv'
  BY TypeNext, RowsNext, LocksNext, DeskLocksNext, OutcomesNext, AfterwardsNext, AppliedNext,
     AcknowledgedNext, ConfirmedNext, PaidNext
  DEF IInv

\* The inductive invariant is an invariant.
THEOREM WebhooksInductive == Spec => []IInv
  BY InvInit, InvNext, PTL DEF Spec

\* The columns keep their types.
THEOREM WebhooksTyped == Spec => []TypeOK
  <1>1. IInv => TypeOK
    BY DEF IInv
  <1> QED
    BY <1>1, WebhooksInductive, PTL

\* Every event is applied exactly as often as its row says: once, or not at all.
THEOREM AppliedExactlyOnce == Spec => []AppliedAsRecorded
  <1>1. IInv => AppliedAsRecorded
    BY DEF IInv
  <1> QED
    BY <1>1, WebhooksInductive, PTL

\* No provider is told to stop retrying an event that has not been dealt with.
THEOREM AcknowledgedOnlySettled == Spec => []AcknowledgedIsSettled
  <1>1. IInv => AcknowledgedIsSettled
    BY DEF IInv
  <1> QED
    BY <1>1, WebhooksInductive, PTL

\* At most one confirmation is queued for a payment, and only once it is committed.
THEOREM ConfirmedAtMostOnce == Spec => []ConfirmedOnce
  <1>1. IInv => ConfirmedOnce
    BY DEF IInv
  <1> QED
    BY <1>1, WebhooksInductive, PTL

\* No receipt is paid on the strength of a handler that failed.
THEOREM PaymentsAccounted == Spec => []PaidIsAccounted
  <1>1. IInv => PaidIsAccounted
    BY DEF IInv
  <1> QED
    BY <1>1, WebhooksInductive, PTL

\* A settled row is written by nobody: whoever changes a row holds it, and nobody holds a
\* settled one.
THEOREM SettledForEver == Spec => SettledIsFinal
  <1>1. IInv /\ [Next]_vars => SettledStays
    <2> SUFFICES ASSUME IInv, [Next]_vars, NEW e \in Events, eventStatus[e] \in Settled
                 PROVE  eventStatus'[e] = eventStatus[e]
      BY DEF SettledStays
    <2>1. CASE UNCHANGED eventStatus
      BY <2>1
    <2>2. ASSUME NEW p \in Processes, Commit(p) PROVE eventStatus'[e] = eventStatus[e]
      <3>1. Committed(p)
        BY <2>2, CommitFacts DEF IInv
      <3>2. event[p] # e
        BY <3>1 DEF Committed
      <3> QED
        BY <3>1, <3>2 DEF Committed, IInv, TypeOK
    <2> QED
      BY <2>1, <2>2
      DEF Next, Proceed, DeskStep, DeskEnds, vars, rowVars, Deliver, InsertEvent, InsertConflicts,
          ClaimFailedEvent, Duplicate, ReadReceipt, WriteReceipt, Dispatch, Answer, HandlerFails,
          Crash, DeskReads, DeskWrites, DeskCommits, DeskFails, DeskCloses
  <1> QED
    BY <1>1, WebhooksInductive, PTL DEF Spec, SettledIsFinal
------------------------------------------------------------------------------

\* Who is about to confirm a payment has committed a capture, and a desk writes what a
\* receipt may become.
CapturesAndMoves ==
  /\ \A p \in Processes : pc[p] = "dispatch" => KindOf[event[p]] = "captured"
  /\ \A d \in Desks : job[d] # <<>> =>
       \E from \in ReceiptStatuses : CanMove(from, job[d][3])

\* Every step keeps both.
LEMMA CapturesAndMovesNext ==
  ASSUME IInv, CapturesAndMoves, [Next]_vars
  PROVE  CapturesAndMoves'
  <1> USE DEF IInv, TypeOK, CapturesAndMoves, Goto, Rest
  <1>1. ASSUME UNCHANGED <<pc, event, job>>
        PROVE  CapturesAndMoves'
    BY <1>1
  <1>2. ASSUME NEW p \in Processes, Proceed(p)
        PROVE  CapturesAndMoves'
    BY <1>2 DEF Proceed, InsertEvent, InsertConflicts, ClaimFailedEvent, Duplicate, ReadReceipt,
                WriteReceipt, Commit, AfterCommit, Dispatch, Answer
  <1>3. ASSUME NEW p \in Processes, NEW e \in Events, Deliver(p, e)
        PROVE  CapturesAndMoves'
    BY <1>3 DEF Deliver
  <1>4. ASSUME NEW p \in Processes, HandlerFails(p)
        PROVE  CapturesAndMoves'
    BY <1>4 DEF HandlerFails
  <1>5. ASSUME NEW p \in Processes, Crash(p)
        PROVE  CapturesAndMoves'
    BY <1>5 DEF Crash
  <1>6. ASSUME NEW d \in Desks, NEW r \in Receipts, NEW s \in ReceiptStatuses,
               DeskReads(d, r, s)
        PROVE  CapturesAndMoves'
    <2>1. CanMove(status[r], s) /\ status[r] \in ReceiptStatuses
      BY <1>6 DEF DeskReads
    <2> QED
      BY <1>6, <2>1 DEF DeskReads, runVars
  <1>7. ASSUME NEW d \in Desks, NEW r \in Receipts, NEW s \in ReceiptStatuses,
               DeskWrites(d, r, s) \/ DeskFails(d, r, s)
        PROVE  CapturesAndMoves'
    <2>1. job[d][3] = s /\ job[d] # <<>>
      BY <1>7 DEF DeskWrites, DeskFails
    <2>2. \E from \in ReceiptStatuses : CanMove(from, s)
      BY <2>1
    <2>3. PICK step \in {"commit", "close"} : job' = [job EXCEPT ![d] = <<step, r, s>>]
      BY <1>7 DEF DeskWrites, DeskFails
    <2>4. job'[d][3] = s /\ \A c \in Desks \ {d} : job'[c] = job[c]
      BY <2>3
    <2>5. UNCHANGED <<pc, event>>
      BY <1>7 DEF DeskWrites, DeskFails, runVars
    <2> QED
      BY <2>2, <2>4, <2>5
  <1>8. ASSUME NEW d \in Desks, NEW r \in Receipts, NEW s \in ReceiptStatuses,
               DeskCommits(d, r, s) \/ DeskCloses(d, r, s)
        PROVE  CapturesAndMoves'
    BY <1>8 DEF DeskCommits, DeskCloses, runVars
  <1> QED
    BY <1>1, <1>2, <1>3, <1>4, <1>5, <1>6, <1>7, <1>8
       DEF Next, DeskStep, DeskEnds, vars, runVars

Told == {e \in Events : provider[e] = "acked"}
Thanked == {e \in Events : queued[e] > 0}

\* A commit rules on its event: with its effect, or without.
LEMMA CommitRules ==
  ASSUME IInv, NEW p \in Processes, Commit(p)
  PROVE  \E e \in Events : \/ Ledger!Process(e)
                           \/ Ledger!Decline(e, "ignored") \/ Ledger!Decline(e, "failed")
  <1> DEFINE e == event[p]
  <1>1. Committed(p)
    BY CommitFacts DEF IInv
  <1>2. /\ e \in Events /\ eventStatus[e] \notin Ledger!Final
        /\ eventStatus' = [eventStatus EXCEPT ![e] = outcome[p]]
        /\ outcome[p] \in {"processed", "ignored", "failed"}
    BY <1>1 DEF Committed, Settled, Ledger!Final
  <1>3. Told' = Told /\ Thanked' = Thanked
    BY DEF Commit, Told, Thanked
  <1>4. status' = [r \in Receipts |-> IF lock[r] = p THEN TargetOf[KindOf[e]] ELSE status[r]]
    BY DEF Commit, CommitRows
  <1>5. status \in [Receipts -> ReceiptStatuses]
    BY DEF IInv, TypeOK
  <1>6. CASE outcome[p] = "processed"
    <2>1. KindOf[e] \in {"captured", "expired"}
      BY <1>1, <1>2, <1>6, KindsAreKnown DEF IInv, OutcomesFit, Committed
    <2>2. \A r \in Receipts : lock[r] = p <=> r = ReceiptOf[e]
      BY <1>1, <1>6 DEF IInv, LocksAreHeld, Committed
    <2>3. ReceiptOf[e] \in Receipts
      BY <1>2, EventsNameReceipts
    <2>4. status' = [status EXCEPT ![ReceiptOf[e]] = TargetOf[KindOf[e]]]
      BY <1>4, <1>5, <2>2, <2>3
    <2>5. KindOf[e] \in DOMAIN Ledger!EffectOf /\ Ledger!EffectOf = TargetOf
      BY <2>1 DEF Ledger!EffectOf, TargetOf
    <2>6. Ledger!Process(e)
      BY <1>2, <1>3, <1>6, <2>4, <2>5 DEF Ledger!Process, Told, Thanked
    <2> QED
      BY <1>2, <2>6
  <1>7. CASE outcome[p] # "processed"
    <2>1. \A r \in Receipts : lock[r] # p
      BY <1>1, <1>7 DEF Committed
    <2>2. status' = status
      BY <1>4, <1>5, <2>1
    <2>3. Ledger!Decline(e, outcome[p])
      BY <1>2, <1>3, <2>2 DEF Ledger!Decline, Told, Thanked
    <2> QED
      BY <1>2, <1>7, <2>3
  <1> QED
    BY <1>6, <1>7

\* The provider is told of what is settled, or hears it again.
LEMMA AnswerTells ==
  ASSUME IInv, NEW p \in Processes, Duplicate(p) \/ Answer(p)
  PROVE  \E e \in Events : Ledger!Tell(e)
  <1> DEFINE sent == event[p]
  <1>1. sent \in Events /\ eventStatus[sent] \in Settled
    <2>1. CASE Duplicate(p)
      BY <2>1 DEF IInv, TypeOK, RowsAreHeld, Duplicate, Settled
    <2>2. CASE Answer(p)
      BY <2>2 DEF IInv, RowsAreHeld, AfterwardsSettled, Answer
    <2> QED
      BY <2>1, <2>2
  <1>2. Told' = Told \cup {sent}
    BY <1>1 DEF IInv, TypeOK, Told, Duplicate, Answer
  <1>3. UNCHANGED <<eventStatus, status, Thanked>>
    BY DEF Duplicate, Answer, Thanked, rowVars, receiptVars, history
  <1>4. Ledger!Tell(sent)
    BY <1>1, <1>2, <1>3 DEF Ledger!Tell, Ledger!Final, Settled, Told, Thanked
  <1> QED
    BY <1>1, <1>4 DEF Ledger!Tell

\* The payer is thanked for a payment that is committed and has not been confirmed yet.
LEMMA DispatchThanks ==
  ASSUME IInv, CapturesAndMoves, NEW p \in Processes, Dispatch(p)
  PROVE  \/ \E e \in Events : Ledger!Thank(e)
         \/ UNCHANGED <<eventStatus, status, Told, Thanked>>
  <1> DEFINE e == event[p]
  <1>1. /\ e \in Events /\ eventStatus[e] = "processed" /\ queued[e] = 0
        /\ KindOf[e] = "captured"
    BY DEF IInv, RowsAreHeld, AfterwardsSettled, CapturesAndMoves, Dispatch
  <1>2. UNCHANGED <<eventStatus, status, Told>>
    BY DEF Dispatch, rowVars, receiptVars, Told
  <1>3. CASE queued' = queued
    BY <1>2, <1>3 DEF Thanked
  <1>4. CASE queued' = [queued EXCEPT ![e] = @ + 1]
    <2>1. Thanked' = Thanked \cup {e} /\ e \notin Thanked
      BY <1>1, <1>4 DEF IInv, TypeOK, Thanked
    <2> QED
      BY <1>1, <1>2, <2>1 DEF Ledger!Thank, Told, Thanked
  <1> QED
    BY <1>3, <1>4 DEF Dispatch

\* The handler, its retries and its crashes, however they interleave with the office, do
\* what EventLedger promises: each event and its effect at once and for good, the provider
\* and the payer told of nothing that is not committed.
THEOREM WebhooksImplement == Spec => ImplementsEventLedger
  <1>1. Init => Ledger!Init
    BY DEF Init, Ledger!Init, Ledger!AwaitingSettlement
  <1>2. IInv /\ CapturesAndMoves /\ [Next]_vars =>
          [Ledger!Next]_<<eventStatus, status, Told, Thanked>>
    <2> SUFFICES ASSUME IInv, CapturesAndMoves, [Next]_vars
                 PROVE  [Ledger!Next]_<<eventStatus, status, Told, Thanked>>
      OBVIOUS
    <2>1. ASSUME UNCHANGED <<eventStatus, status, Told, Thanked>>
          PROVE  [Ledger!Next]_<<eventStatus, status, Told, Thanked>>
      BY <2>1
    <2>2. ASSUME NEW p \in Processes, Commit(p)
          PROVE  Ledger!Next
      BY <2>2, CommitRules DEF Ledger!Next
    <2>3. ASSUME NEW p \in Processes, Duplicate(p) \/ Answer(p)
          PROVE  Ledger!Next
      BY <2>3, AnswerTells DEF Ledger!Next
    <2>4. ASSUME NEW p \in Processes, Dispatch(p)
          PROVE  [Ledger!Next]_<<eventStatus, status, Told, Thanked>>
      BY <2>4, DispatchThanks DEF Ledger!Next
    <2>5. ASSUME NEW p \in Processes,
                 \/ InsertEvent(p) \/ InsertConflicts(p) \/ ClaimFailedEvent(p)
                 \/ ReadReceipt(p) \/ WriteReceipt(p) \/ HandlerFails(p) \/ Crash(p)
          PROVE  UNCHANGED <<eventStatus, status, Told, Thanked>>
      BY <2>5 DEF InsertEvent, InsertConflicts, ClaimFailedEvent, ReadReceipt, WriteReceipt,
                  HandlerFails, Crash, rowVars, receiptVars, history, Told, Thanked
    <2>6. ASSUME NEW p \in Processes, NEW e \in Events, Deliver(p, e)
          PROVE  UNCHANGED <<eventStatus, status, Told, Thanked>>
      <3>1. Told' = Told
        BY <2>6 DEF Deliver, Told, IInv, TypeOK
      <3> QED
        BY <2>6, <3>1 DEF Deliver, rowVars, receiptVars, history, Thanked
    <2>7. ASSUME NEW d \in Desks, NEW r \in Receipts, NEW s \in ReceiptStatuses,
                 DeskCommits(d, r, s)
          PROVE  Ledger!Next
      <3>1. job[d] # <<>> /\ job[d][3] = s
        BY <2>7 DEF DeskCommits
      <3>2. \E from \in ReceiptStatuses : CanMove(from, s)
        BY <3>1 DEF CapturesAndMoves
      <3>3. UNCHANGED <<eventStatus, Told, Thanked>>
        BY <2>7 DEF DeskCommits, rowVars, Told, Thanked
      <3>4. Ledger!Office(r, s)
        BY <2>7, <3>2, <3>3
           DEF DeskCommits, Ledger!Office, Told, Thanked, Ledger!CanMove, CanMove,
               Ledger!ReceiptStatuses, ReceiptStatuses, Ledger!ValidTransitions, ValidTransitions
      <3> QED
        BY <3>4 DEF Ledger!Next, Ledger!ReceiptStatuses, ReceiptStatuses
    <2>8. ASSUME NEW d \in Desks, NEW r \in Receipts, NEW s \in ReceiptStatuses,
                 DeskReads(d, r, s) \/ DeskWrites(d, r, s) \/ DeskFails(d, r, s)
                   \/ DeskCloses(d, r, s)
          PROVE  UNCHANGED <<eventStatus, status, Told, Thanked>>
      BY <2>8 DEF DeskReads, DeskWrites, DeskFails, DeskCloses, rowVars, receiptVars, history,
                  Told, Thanked
    <2>9. CASE UNCHANGED vars
      BY <2>1, <2>9 DEF vars, rowVars, receiptVars, history, Told, Thanked
    <2> QED
      BY <2>1, <2>2, <2>3, <2>4, <2>5, <2>6, <2>7, <2>8, <2>9
         DEF Next, Proceed, DeskStep, DeskEnds
  <1>3. Init => CapturesAndMoves
    BY DEF Init, CapturesAndMoves
  <1>4. IInv /\ CapturesAndMoves /\ [Next]_vars => CapturesAndMoves'
    BY CapturesAndMovesNext
  <1> QED
    BY <1>1, <1>2, <1>3, <1>4, WebhooksInductive, PTL
       DEF Spec, ImplementsEventLedger, Ledger!Spec, Told, Thanked
==============================================================================
