---------------------------- MODULE BookingsProofs ----------------------------
(***************************************************************************)
(* That a slot of Bookings is never overbooked, that a member has at most  *)
(* one active booking of it, that promotion is in order of arrival, that a *)
(* cancellation voids what was owed, and that requests under the slot's    *)
(* lock implement SlotLedger, for any number of bookings, members and      *)
(* concurrent requests.                                                    *)
(***************************************************************************)
EXTENDS Bookings, FiniteSetTheorems, TLAPS

\* The types hold.
LEMMA TypeNext ==
  ASSUME TypeOK, [Next]_vars
  PROVE  TypeOK'
  <1> USE NobodyIsNoRequest, NoRowIsNoRow, SlotHasRoom, MovesAreStatuses,
          SomeAreHandled, SomeMayChange
      DEF slotVars, bookVars, billVars, readVars, planVars, TypeOK, BookingStatuses,
          Labels, Booked, Waiting, Active, ReceiptStatuses, AwaitingSettlement,
          VoidableStatuses
  <1>1. ASSUME NEW t \in Requests, NEW b \in Rows, Book(t, b)
        PROVE  TypeOK'
    BY <1>1 DEF Book, Goto, Locks, Duplicate
  <1>2. ASSUME NEW t \in Requests, NEW b \in Rows, LoadCancel(t, b)
        PROVE  TypeOK'
    BY <1>2 DEF LoadCancel, Goto
  <1>3. ASSUME NEW t \in Requests, CommitBook(t)
        PROVE  TypeOK'
    BY <1>3 DEF CommitBook, Goto, Ends
  <1>4. ASSUME NEW t \in Requests, CommitWait(t)
        PROVE  TypeOK'
    BY <1>4 DEF CommitWait, Goto, Ends
  <1>5. ASSUME NEW t \in Requests, Cancel(t)
        PROVE  TypeOK'
    BY <1>5 DEF Cancel, Goto, Locks, FirstEligible
  <1>6. ASSUME NEW t \in Requests, CommitCancel(t)
        PROVE  TypeOK'
    BY <1>6 DEF CommitCancel, Goto, Ends, LeaveLine
  <1>7. ASSUME NEW t \in Requests, Rollback(t)
        PROVE  TypeOK'
    BY <1>7 DEF Rollback, Goto, Ends
  <1>8. ASSUME NEW t \in Requests, LoadDelete(t)
        PROVE  TypeOK'
    BY <1>8 DEF LoadDelete, Goto
  <1>9. ASSUME NEW t \in Requests, CommitDelete(t)
        PROVE  TypeOK'
    BY <1>9 DEF CommitDelete, Goto, Ends, LeaveLine
  <1>10. ASSUME NEW n \in Capacities, UpdateSlot(n)
        PROVE  TypeOK'
    BY <1>10 DEF UpdateSlot
  <1>11. ASSUME NEW p \in MayChange, ChangeTier(p)
        PROVE  TypeOK'
    BY <1>11 DEF ChangeTier
  <1>12. ASSUME NEW b \in Handled, SendReceipt(b)
        PROVE  TypeOK'
    BY <1>12 DEF SendReceipt
  <1>13. ASSUME NEW b \in Handled, NEW to \in Moves, MoveReceipt(b, to)
        PROVE  TypeOK'
    BY <1>13 DEF MoveReceipt
  <1>14. CASE UNCHANGED vars
    BY <1>14 DEF vars
  <1> QED
    BY <1>1, <1>2, <1>3, <1>4, <1>5, <1>6, <1>7, <1>8, <1>9, <1>10, <1>11, <1>12,
      <1>13, <1>14 DEF Next, Step

\* The lock is taken with the decision and released with its end.
LEMMA LockNext ==
  ASSUME TypeOK, TypeOK', LockIsHeld, [Next]_vars
  PROVE  LockIsHeld'
  <1> USE NobodyIsNoRequest
      DEF slotVars, bookVars, billVars, readVars, planVars, TypeOK, BookingStatuses,
          Labels, Booked, Waiting, Active, LockIsHeld
  <1>1. ASSUME NEW t \in Requests, NEW b \in Rows, Book(t, b)
        PROVE  LockIsHeld'
    BY <1>1 DEF Book, Goto, Locks, Duplicate
  <1>2. ASSUME NEW t \in Requests, NEW b \in Rows, LoadCancel(t, b)
        PROVE  LockIsHeld'
    BY <1>2 DEF LoadCancel, Goto
  <1>3. ASSUME NEW t \in Requests, CommitBook(t)
        PROVE  LockIsHeld'
    BY <1>3 DEF CommitBook, Goto, Ends
  <1>4. ASSUME NEW t \in Requests, CommitWait(t)
        PROVE  LockIsHeld'
    BY <1>4 DEF CommitWait, Goto, Ends
  <1>5. ASSUME NEW t \in Requests, Cancel(t)
        PROVE  LockIsHeld'
    BY <1>5 DEF Cancel, Goto, Locks, FirstEligible
  <1>6. ASSUME NEW t \in Requests, CommitCancel(t)
        PROVE  LockIsHeld'
    BY <1>6 DEF CommitCancel, Goto, Ends, LeaveLine
  <1>7. ASSUME NEW t \in Requests, Rollback(t)
        PROVE  LockIsHeld'
    BY <1>7 DEF Rollback, Goto, Ends
  <1>8. ASSUME NEW t \in Requests, LoadDelete(t)
        PROVE  LockIsHeld'
    BY <1>8 DEF LoadDelete, Goto
  <1>9. ASSUME NEW t \in Requests, CommitDelete(t)
        PROVE  LockIsHeld'
    BY <1>9 DEF CommitDelete, Goto, Ends, LeaveLine
  <1>10. ASSUME NEW n \in Capacities, UpdateSlot(n)
        PROVE  LockIsHeld'
    BY <1>10 DEF UpdateSlot
  <1>11. ASSUME NEW p \in MayChange, ChangeTier(p)
        PROVE  LockIsHeld'
    BY <1>11 DEF ChangeTier
  <1>12. ASSUME NEW b \in Handled, SendReceipt(b)
        PROVE  LockIsHeld'
    BY <1>12 DEF SendReceipt
  <1>13. ASSUME NEW b \in Handled, NEW to \in Moves, MoveReceipt(b, to)
        PROVE  LockIsHeld'
    BY <1>13 DEF MoveReceipt
  <1>14. CASE UNCHANGED vars
    BY <1>14 DEF vars
  <1> QED
    BY <1>1, <1>2, <1>3, <1>4, <1>5, <1>6, <1>7, <1>8, <1>9, <1>10, <1>11, <1>12,
      <1>13, <1>14 DEF Next, Step

\* While a request decides, no other adds or removes a row.
LEMMA InsertNext ==
  ASSUME TypeOK, TypeOK', LockIsHeld, InsertIsFree, [Next]_vars
  PROVE  InsertIsFree'
  <1> USE NobodyIsNoRequest
      DEF slotVars, bookVars, billVars, readVars, planVars, TypeOK, BookingStatuses,
          Labels, Booked, Waiting, Active, LockIsHeld, InsertIsFree, Duplicate
  <1>1. ASSUME NEW t \in Requests, NEW b \in Rows, Book(t, b)
        PROVE  InsertIsFree'
    BY <1>1 DEF Book, Goto, Locks, Duplicate
  <1>2. ASSUME NEW t \in Requests, NEW b \in Rows, LoadCancel(t, b)
        PROVE  InsertIsFree'
    BY <1>2 DEF LoadCancel, Goto
  <1>3. ASSUME NEW t \in Requests, CommitBook(t)
        PROVE  InsertIsFree'
    BY <1>3 DEF CommitBook, Goto, Ends
  <1>4. ASSUME NEW t \in Requests, CommitWait(t)
        PROVE  InsertIsFree'
    BY <1>4 DEF CommitWait, Goto, Ends
  <1>5. ASSUME NEW t \in Requests, Cancel(t)
        PROVE  InsertIsFree'
    BY <1>5 DEF Cancel, Goto, Locks, FirstEligible
  <1>6. ASSUME NEW t \in Requests, CommitCancel(t)
        PROVE  InsertIsFree'
    BY <1>6 DEF CommitCancel, Goto, Ends, LeaveLine
  <1>7. ASSUME NEW t \in Requests, Rollback(t)
        PROVE  InsertIsFree'
    BY <1>7 DEF Rollback, Goto, Ends
  <1>8. ASSUME NEW t \in Requests, LoadDelete(t)
        PROVE  InsertIsFree'
    BY <1>8 DEF LoadDelete, Goto
  <1>9. ASSUME NEW t \in Requests, CommitDelete(t)
        PROVE  InsertIsFree'
    BY <1>9 DEF CommitDelete, Goto, Ends, LeaveLine
  <1>10. ASSUME NEW n \in Capacities, UpdateSlot(n)
        PROVE  InsertIsFree'
    BY <1>10 DEF UpdateSlot
  <1>11. ASSUME NEW p \in MayChange, ChangeTier(p)
        PROVE  InsertIsFree'
    BY <1>11 DEF ChangeTier
  <1>12. ASSUME NEW b \in Handled, SendReceipt(b)
        PROVE  InsertIsFree'
    BY <1>12 DEF SendReceipt
  <1>13. ASSUME NEW b \in Handled, NEW to \in Moves, MoveReceipt(b, to)
        PROVE  InsertIsFree'
    BY <1>13 DEF MoveReceipt
  <1>14. CASE UNCHANGED vars
    BY <1>14 DEF vars
  <1> QED
    BY <1>1, <1>2, <1>3, <1>4, <1>5, <1>6, <1>7, <1>8, <1>9, <1>10, <1>11, <1>12,
      <1>13, <1>14 DEF Next, Step

\* While a cancellation decides, the line it looked at stands.
LEMMA PromotionNext ==
  ASSUME TypeOK, TypeOK', LockIsHeld, LineIsTotal, PromotionStands, [Next]_vars
  PROVE  PromotionStands'
  <1> USE NobodyIsNoRequest, NoRowIsNoRow
      DEF slotVars, bookVars, billVars, readVars, planVars, TypeOK, BookingStatuses,
          Labels, Booked, Waiting, Active, LockIsHeld, LineIsTotal, PromotionStands
  <1>1. ASSUME NEW t \in Requests, NEW b \in Rows, Book(t, b)
        PROVE  PromotionStands'
    BY <1>1 DEF Book, Goto, Locks, Duplicate
  <1>2. ASSUME NEW t \in Requests, NEW b \in Rows, LoadCancel(t, b)
        PROVE  PromotionStands'
    BY <1>2 DEF LoadCancel, Goto
  <1>3. ASSUME NEW t \in Requests, CommitBook(t)
        PROVE  PromotionStands'
    BY <1>3 DEF CommitBook, Goto, Ends
  <1>4. ASSUME NEW t \in Requests, CommitWait(t)
        PROVE  PromotionStands'
    BY <1>4 DEF CommitWait, Goto, Ends
  <1>5. ASSUME NEW t \in Requests, Cancel(t)
        PROVE  PromotionStands'
    BY <1>5 DEF Cancel, Goto, Locks, FirstEligible
  <1>6. ASSUME NEW t \in Requests, CommitCancel(t)
        PROVE  PromotionStands'
    BY <1>6 DEF CommitCancel, Goto, Ends, LeaveLine
  <1>7. ASSUME NEW t \in Requests, Rollback(t)
        PROVE  PromotionStands'
    BY <1>7 DEF Rollback, Goto, Ends
  <1>8. ASSUME NEW t \in Requests, LoadDelete(t)
        PROVE  PromotionStands'
    BY <1>8 DEF LoadDelete, Goto
  <1>9. ASSUME NEW t \in Requests, CommitDelete(t)
        PROVE  PromotionStands'
    BY <1>9 DEF CommitDelete, Goto, Ends, LeaveLine
  <1>10. ASSUME NEW n \in Capacities, UpdateSlot(n)
        PROVE  PromotionStands'
    BY <1>10 DEF UpdateSlot
  <1>11. ASSUME NEW p \in MayChange, ChangeTier(p)
        PROVE  PromotionStands'
    BY <1>11 DEF ChangeTier
  <1>12. ASSUME NEW b \in Handled, SendReceipt(b)
        PROVE  PromotionStands'
    BY <1>12 DEF SendReceipt
  <1>13. ASSUME NEW b \in Handled, NEW to \in Moves, MoveReceipt(b, to)
        PROVE  PromotionStands'
    BY <1>13 DEF MoveReceipt
  <1>14. CASE UNCHANGED vars
    BY <1>14 DEF vars
  <1> QED
    BY <1>1, <1>2, <1>3, <1>4, <1>5, <1>6, <1>7, <1>8, <1>9, <1>10, <1>11, <1>12,
      <1>13, <1>14 DEF Next, Step

\* Who joins the line joins behind everybody in it.
LEMMA LineNext ==
  ASSUME TypeOK, TypeOK', PromotionStands, LineIsTotal, [Next]_vars
  PROVE  LineIsTotal'
  <1> USE NobodyIsNoRequest
      DEF slotVars, bookVars, billVars, readVars, planVars, TypeOK, BookingStatuses,
          Labels, Booked, Waiting, Active, PromotionStands, LineIsTotal
  <1>1. ASSUME NEW t \in Requests, NEW b \in Rows, Book(t, b)
        PROVE  LineIsTotal'
    BY <1>1 DEF Book, Goto, Locks, Duplicate
  <1>2. ASSUME NEW t \in Requests, NEW b \in Rows, LoadCancel(t, b)
        PROVE  LineIsTotal'
    BY <1>2 DEF LoadCancel, Goto
  <1>3. ASSUME NEW t \in Requests, CommitBook(t)
        PROVE  LineIsTotal'
    BY <1>3 DEF CommitBook, Goto, Ends
  <1>4. ASSUME NEW t \in Requests, CommitWait(t)
        PROVE  LineIsTotal'
    BY <1>4 DEF CommitWait, Goto, Ends
  <1>5. ASSUME NEW t \in Requests, Cancel(t)
        PROVE  LineIsTotal'
    BY <1>5 DEF Cancel, Goto, Locks, FirstEligible
  <1>6. ASSUME NEW t \in Requests, CommitCancel(t)
        PROVE  LineIsTotal'
    BY <1>6 DEF CommitCancel, Goto, Ends, LeaveLine
  <1>7. ASSUME NEW t \in Requests, Rollback(t)
        PROVE  LineIsTotal'
    BY <1>7 DEF Rollback, Goto, Ends
  <1>8. ASSUME NEW t \in Requests, LoadDelete(t)
        PROVE  LineIsTotal'
    BY <1>8 DEF LoadDelete, Goto
  <1>9. ASSUME NEW t \in Requests, CommitDelete(t)
        PROVE  LineIsTotal'
    BY <1>9 DEF CommitDelete, Goto, Ends, LeaveLine
  <1>10. ASSUME NEW n \in Capacities, UpdateSlot(n)
        PROVE  LineIsTotal'
    BY <1>10 DEF UpdateSlot
  <1>11. ASSUME NEW p \in MayChange, ChangeTier(p)
        PROVE  LineIsTotal'
    BY <1>11 DEF ChangeTier
  <1>12. ASSUME NEW b \in Handled, SendReceipt(b)
        PROVE  LineIsTotal'
    BY <1>12 DEF SendReceipt
  <1>13. ASSUME NEW b \in Handled, NEW to \in Moves, MoveReceipt(b, to)
        PROVE  LineIsTotal'
    BY <1>13 DEF MoveReceipt
  <1>14. CASE UNCHANGED vars
    BY <1>14 DEF vars
  <1> QED
    BY <1>1, <1>2, <1>3, <1>4, <1>5, <1>6, <1>7, <1>8, <1>9, <1>10, <1>11, <1>12,
      <1>13, <1>14 DEF Next, Step

\* A row is only added for a party that has none.
LEMMA OneRowNext ==
  ASSUME TypeOK, TypeOK', InsertIsFree, PromotionStands, OneRowEach, [Next]_vars
  PROVE  OneRowEach'
  <1> USE NobodyIsNoRequest
      DEF slotVars, bookVars, billVars, readVars, planVars, TypeOK, BookingStatuses,
          Labels, Booked, Waiting, Active, InsertIsFree, PromotionStands, Duplicate,
          OneRowEach
  <1>1. ASSUME NEW t \in Requests, NEW b \in Rows, Book(t, b)
        PROVE  OneRowEach'
    BY <1>1 DEF Book, Goto, Locks, Duplicate
  <1>2. ASSUME NEW t \in Requests, NEW b \in Rows, LoadCancel(t, b)
        PROVE  OneRowEach'
    BY <1>2 DEF LoadCancel, Goto
  <1>3. ASSUME NEW t \in Requests, CommitBook(t)
        PROVE  OneRowEach'
    BY <1>3 DEF CommitBook, Goto, Ends
  <1>4. ASSUME NEW t \in Requests, CommitWait(t)
        PROVE  OneRowEach'
    BY <1>4 DEF CommitWait, Goto, Ends
  <1>5. ASSUME NEW t \in Requests, Cancel(t)
        PROVE  OneRowEach'
    BY <1>5 DEF Cancel, Goto, Locks, FirstEligible
  <1>6. ASSUME NEW t \in Requests, CommitCancel(t)
        PROVE  OneRowEach'
    BY <1>6 DEF CommitCancel, Goto, Ends, LeaveLine
  <1>7. ASSUME NEW t \in Requests, Rollback(t)
        PROVE  OneRowEach'
    BY <1>7 DEF Rollback, Goto, Ends
  <1>8. ASSUME NEW t \in Requests, LoadDelete(t)
        PROVE  OneRowEach'
    BY <1>8 DEF LoadDelete, Goto
  <1>9. ASSUME NEW t \in Requests, CommitDelete(t)
        PROVE  OneRowEach'
    BY <1>9 DEF CommitDelete, Goto, Ends, LeaveLine
  <1>10. ASSUME NEW n \in Capacities, UpdateSlot(n)
        PROVE  OneRowEach'
    BY <1>10 DEF UpdateSlot
  <1>11. ASSUME NEW p \in MayChange, ChangeTier(p)
        PROVE  OneRowEach'
    BY <1>11 DEF ChangeTier
  <1>12. ASSUME NEW b \in Handled, SendReceipt(b)
        PROVE  OneRowEach'
    BY <1>12 DEF SendReceipt
  <1>13. ASSUME NEW b \in Handled, NEW to \in Moves, MoveReceipt(b, to)
        PROVE  OneRowEach'
    BY <1>13 DEF MoveReceipt
  <1>14. CASE UNCHANGED vars
    BY <1>14 DEF vars
  <1> QED
    BY <1>1, <1>2, <1>3, <1>4, <1>5, <1>6, <1>7, <1>8, <1>9, <1>10, <1>11, <1>12,
      <1>13, <1>14 DEF Next, Step

\* The bookings of a slot are finitely many.
LEMMA BookedIsFinite == IsFiniteSet(Booked)
  BY RowsAreFinite, FS_Subset DEF Booked

\* Capacities and counts can be compared.
LEMMA CountsAreNat ==
  ASSUME TypeOK
  PROVE  /\ capacity \in Nat /\ highest \in Nat
         /\ Cardinality(Booked) \in Nat
         /\ \A t \in Requests : room[t] \in Nat /\ Cardinality(Booked \ {row[t]}) \in Nat
  <1>1. \A t \in Requests : Cardinality(Booked \ {row[t]}) \in Nat
    BY BookedIsFinite, FS_RemoveElement, FS_CardinalityType
  <1>2. Cardinality(Booked) \in Nat
    BY BookedIsFinite, FS_CardinalityType
  <1>3. capacity \in Nat /\ highest \in Nat
    BY SlotHasRoom DEF TypeOK
  <1>4. ASSUME NEW t \in Requests PROVE room[t] \in Nat
    <2>1. room \in [Requests -> Capacities \cup {0}]
      BY DEF TypeOK
    <2>2. room[t] \in Capacities \cup {0}
      BY <2>1
    <2>3. Capacities \cup {0} \subseteq Nat
      BY SlotHasRoom
    <2> QED
      BY <2>2, <2>3
  <1> QED
    BY <1>1, <1>2, <1>3, <1>4

\* The seats counted stay counted, when nobody is given a seat and the capacity stays.
LEMMA SeatsStand ==
  ASSUME SeatIsThere, NeverOverbooked, UNCHANGED <<capacity, highest>>, Booked' = Booked,
         \A u \in Requests :
           \/ pc'[u] = pc[u] /\ row'[u] = row[u] /\ room'[u] = room[u] /\ next'[u] = next[u]
           \/ pc'[u] \notin {"books", "cancels"} /\ room'[u] <= highest
           \/ pc'[u] = "books" /\ room'[u] <= highest /\ Cardinality(Booked) < highest
           \/ /\ pc'[u] = "cancels" /\ row'[u] = row[u] /\ room'[u] <= highest
              /\ next'[u] # {} => Cardinality(Booked \ {row[u]}) < highest
  PROVE  (SeatIsThere /\ NeverOverbooked)'
  <1>1. capacity' <= highest' /\ \A u \in Requests : room'[u] <= highest'
    BY DEF SeatIsThere
  <1>2. \A u \in Requests : pc'[u] = "books" => Cardinality(Booked') < highest'
    BY DEF SeatIsThere
  <1>3. ASSUME NEW u \in Requests, pc'[u] = "cancels", next'[u] # {}
        PROVE  Cardinality((Booked \ {row[u]})') < highest'
    <2>1. row'[u] = row[u] /\ Cardinality(Booked \ {row[u]}) < highest
      BY <1>3 DEF SeatIsThere
    <2> QED
      BY <2>1
  <1>4. Cardinality(Booked') <= highest'
    BY DEF NeverOverbooked
  <1> QED
    BY <1>1, <1>2, <1>3, <1>4 DEF SeatIsThere, NeverOverbooked

\* A seat is given only where one was counted, and nobody else gives one meanwhile.
LEMMA SeatNext ==
  ASSUME TypeOK, TypeOK', LockIsHeld, InsertIsFree, PromotionStands, SeatIsThere,
         NeverOverbooked, [Next]_vars
  PROVE  (SeatIsThere /\ NeverOverbooked)'
  <1> USE NobodyIsNoRequest
      DEF slotVars, readVars, planVars, TypeOK, Labels, LockIsHeld
  <1>1. ASSUME NEW t \in Requests, NEW b \in Rows, Book(t, b)
        PROVE  (SeatIsThere /\ NeverOverbooked)'
    <2>1. Booked' = Booked
      BY <1>1 DEF Book, Booked, bookVars
    <2>2. pc'[t] = "books" => Cardinality(Booked) < highest
      BY <1>1, CountsAreNat DEF Book, Goto, SeatIsThere
    <2>3. pc'[t] \in {"books", "waits"}
      BY <1>1 DEF Book, Goto
    <2> QED
      BY <1>1, <2>1, <2>2, <2>3, SeatsStand DEF Book, Goto, SeatIsThere
  <1>2. ASSUME NEW t \in Requests, NEW b \in Rows, LoadCancel(t, b)
        PROVE  (SeatIsThere /\ NeverOverbooked)'
    <2>1. Booked' = Booked
      BY <1>2 DEF LoadCancel, Booked, InsertIsFree, bookVars
    <2> QED
      BY <1>2, <2>1, CountsAreNat, SeatsStand DEF LoadCancel, SeatIsThere, Goto
  <1>3. ASSUME NEW t \in Requests, CommitBook(t)
        PROVE  (SeatIsThere /\ NeverOverbooked)'
    <2>1. Booked' = Booked \cup {row[t]} /\ row[t] \notin Booked
      BY <1>3 DEF CommitBook, Booked, InsertIsFree
    <2>2. Cardinality(Booked') = Cardinality(Booked) + 1
      BY <2>1, BookedIsFinite, FS_AddElement
    <2>3. Cardinality(Booked') <= highest
      <3>1. Cardinality(Booked) < highest
        BY <1>3 DEF CommitBook, SeatIsThere
      <3> QED
        BY <2>2, <3>1, CountsAreNat
    <2>4. \A u \in Requests : pc'[u] \notin {"books", "cancels"} /\ room'[u] <= highest
      <3>1. \A u \in Requests : pc'[u] \notin {"books", "cancels"}
        BY <1>3 DEF CommitBook, Ends, Goto
      <3>2. \A u \in Requests : room'[u] = IF u = t THEN 0 ELSE room[u]
        BY <1>3 DEF CommitBook, Ends
      <3>3. 0 <= highest
        BY CountsAreNat
      <3> QED
        BY <3>1, <3>2, <3>3 DEF SeatIsThere
    <2> QED
      BY <1>3, <2>3, <2>4 DEF CommitBook, SeatIsThere, NeverOverbooked
  <1>4. ASSUME NEW t \in Requests, CommitWait(t)
        PROVE  (SeatIsThere /\ NeverOverbooked)'
    <2>1. Booked' = Booked
      BY <1>4 DEF CommitWait, Booked, InsertIsFree, bookVars
    <2>2. /\ pc'[t] = "idle" /\ room'[t] = 0
          /\ \A u \in Requests \ {t} : /\ pc'[u] = pc[u] /\ row'[u] = row[u]
                                     /\ room'[u] = room[u] /\ next'[u] = next[u]
      BY <1>4 DEF CommitWait, Ends, Goto
    <2>3. 0 <= highest
      BY CountsAreNat
    <2>4. UNCHANGED <<capacity, highest>>
      BY <1>4 DEF CommitWait
    <2> QED
      BY <2>1, <2>2, <2>3, <2>4, SeatsStand
  <1>5. ASSUME NEW t \in Requests, Cancel(t)
        PROVE  (SeatIsThere /\ NeverOverbooked)'
    <2>1. Booked' = Booked
      BY <1>5 DEF Cancel, Booked, bookVars
    <2>2. next'[t] # {} => Cardinality(Booked \ {row[t]}) < room[t]
      BY <1>5 DEF Cancel
    <2>3. Cardinality(Booked \ {row[t]}) < room[t] => Cardinality(Booked \ {row[t]}) < highest
      <3>1. /\ room[t] \in Nat /\ highest \in Nat /\ Cardinality(Booked \ {row[t]}) \in Nat
            /\ room[t] <= highest
        BY CountsAreNat DEF SeatIsThere
      <3> QED
        BY <3>1
    <2> QED
      BY <1>5, <2>1, <2>2, <2>3, SeatsStand DEF Cancel, Goto, Locks, SeatIsThere
  <1>6. ASSUME NEW t \in Requests, CommitCancel(t)
        PROVE  (SeatIsThere /\ NeverOverbooked)'
    <2>1. Booked' = (Booked \ {row[t]}) \cup (next[t] \ {row[t]})
      BY <1>6 DEF CommitCancel, Booked, Waiting, PromotionStands
    <2>2. /\ IsFiniteSet(Booked \ {row[t]})
          /\ Cardinality(Booked \ {row[t]}) \in Nat
          /\ Cardinality(Booked \ {row[t]}) <= Cardinality(Booked)
      <3>1. Booked \ {row[t]} \in SUBSET Booked
        OBVIOUS
      <3> QED
        BY <3>1, BookedIsFinite, FS_Subset, FS_CardinalityType
    <2>3. Cardinality(Booked') <= highest
      <3>1. CASE next[t] \ {row[t]} = {}
        <4>1. Booked' = Booked \ {row[t]}
          BY <2>1, <3>1
        <4> QED
          BY <2>2, <4>1, CountsAreNat DEF NeverOverbooked
      <3>2. CASE next[t] \ {row[t]} # {}
        <4>1. PICK b \in next[t] : next[t] \ {row[t]} = {b} /\ b # row[t]
          BY <1>6, <3>2 DEF CommitCancel, PromotionStands
        <4>2. Booked' = (Booked \ {row[t]}) \cup {b}
          BY <2>1, <4>1
        <4>3. /\ Cardinality(Booked') <= Cardinality(Booked \ {row[t]}) + 1
              /\ Cardinality(Booked') \in Nat
          <5>1. \/ Cardinality(Booked') = Cardinality(Booked \ {row[t]})
                \/ Cardinality(Booked') = Cardinality(Booked \ {row[t]}) + 1
            BY <2>2, <4>2, FS_AddElement
          <5> QED
            BY <2>2, <5>1
        <4>4. Cardinality(Booked \ {row[t]}) < highest
          BY <1>6, <4>1 DEF CommitCancel, SeatIsThere
        <4> QED
          BY <2>2, <4>3, <4>4, CountsAreNat
      <3> QED
        BY <3>1, <3>2
    <2>4. \A u \in Requests : pc'[u] \notin {"books", "cancels"} /\ room'[u] <= highest
      <3>1. \A u \in Requests : pc'[u] \notin {"books", "cancels"}
        BY <1>6 DEF CommitCancel, Ends, Goto
      <3>2. \A u \in Requests : room'[u] = IF u = t THEN 0 ELSE room[u]
        BY <1>6 DEF CommitCancel, Ends
      <3>3. 0 <= highest
        BY CountsAreNat
      <3> QED
        BY <3>1, <3>2, <3>3 DEF SeatIsThere
    <2> QED
      BY <1>6, <2>3, <2>4 DEF CommitCancel, SeatIsThere, NeverOverbooked
  <1>7. ASSUME NEW t \in Requests, Rollback(t)
        PROVE  (SeatIsThere /\ NeverOverbooked)'
    <2>1. Booked' = Booked
      BY <1>7 DEF Rollback, Booked, InsertIsFree, bookVars
    <2>2. /\ pc'[t] = "idle" /\ room'[t] = 0
          /\ \A u \in Requests \ {t} : /\ pc'[u] = pc[u] /\ row'[u] = row[u]
                                     /\ room'[u] = room[u] /\ next'[u] = next[u]
      BY <1>7 DEF Rollback, Ends, Goto
    <2>3. 0 <= highest
      BY CountsAreNat
    <2>4. UNCHANGED <<capacity, highest>>
      BY <1>7 DEF Rollback
    <2> QED
      BY <2>1, <2>2, <2>3, <2>4, SeatsStand
  <1>8. ASSUME NEW t \in Requests, LoadDelete(t)
        PROVE  (SeatIsThere /\ NeverOverbooked)'
    <2>1. Booked' = Booked
      BY <1>8 DEF LoadDelete, Booked, InsertIsFree, bookVars
    <2> QED
      BY <1>8, <2>1, CountsAreNat, SeatsStand DEF LoadDelete, SeatIsThere, Goto
  <1>9. ASSUME NEW t \in Requests, CommitDelete(t)
        PROVE  (SeatIsThere /\ NeverOverbooked)'
    <2>1. Booked' = {}
      BY <1>9 DEF CommitDelete, Booked
    <2>2. Cardinality(Booked') <= highest
      BY <2>1, FS_EmptySet, CountsAreNat
    <2>3. \A u \in Requests : pc'[u] \notin {"books", "cancels"} /\ room'[u] <= highest
      <3>1. \A u \in Requests : pc'[u] \notin {"books", "cancels"}
        BY <1>9 DEF CommitDelete, Ends, Goto
      <3>2. \A u \in Requests : room'[u] = IF u = t THEN 0 ELSE room[u]
        BY <1>9 DEF CommitDelete, Ends
      <3>3. 0 <= highest
        BY CountsAreNat
      <3> QED
        BY <3>1, <3>2, <3>3 DEF SeatIsThere
    <2> QED
      BY <1>9, <2>2, <2>3 DEF CommitDelete, SeatIsThere, NeverOverbooked
  <1>10. ASSUME NEW n \in Capacities, UpdateSlot(n)
        PROVE  (SeatIsThere /\ NeverOverbooked)'
    <2>1. highest <= highest' /\ capacity' <= highest' /\ highest' \in Nat
      BY <1>10, CountsAreNat, SlotHasRoom DEF UpdateSlot
    <2>2. Booked' = Booked /\ UNCHANGED <<pc, readVars, planVars>>
      BY <1>10 DEF UpdateSlot, Booked, bookVars
    <2>3. Cardinality(Booked') <= highest'
      BY <2>1, <2>2, CountsAreNat DEF NeverOverbooked
    <2>4. ASSUME NEW u \in Requests
          PROVE  /\ room'[u] <= highest'
                 /\ pc'[u] = "books" => Cardinality(Booked') < highest'
      <3>1. /\ room'[u] = room[u] /\ room[u] \in Nat /\ highest \in Nat
            /\ Cardinality(Booked) \in Nat
        BY <2>2, CountsAreNat DEF readVars
      <3>2. room[u] <= highest /\ (pc'[u] = "books" => Cardinality(Booked) < highest)
        BY <2>2 DEF SeatIsThere
      <3>3. Cardinality(Booked') = Cardinality(Booked)
        BY <2>2
      <3> QED
        BY <2>1, <3>1, <3>2, <3>3
    <2>5. ASSUME NEW u \in Requests, pc'[u] = "cancels", next'[u] # {}
          PROVE  Cardinality((Booked \ {row[u]})') < highest'
      <3>1. Cardinality((Booked \ {row[u]})') = Cardinality(Booked \ {row[u]})
        BY <2>2
      <3>2. Cardinality(Booked \ {row[u]}) < highest
        BY <2>2, <2>5 DEF SeatIsThere
      <3> QED
        BY <2>1, <3>1, <3>2, CountsAreNat
    <2> QED
      BY <2>1, <2>3, <2>4, <2>5 DEF SeatIsThere, NeverOverbooked
  <1>11. ASSUME NEW p \in MayChange, ChangeTier(p)
        PROVE  (SeatIsThere /\ NeverOverbooked)'
    <2>1. Booked' = Booked
      BY <1>11 DEF ChangeTier, Booked, InsertIsFree, bookVars
    <2> QED
      BY <1>11, <2>1, CountsAreNat, SeatsStand DEF ChangeTier, SeatIsThere
  <1>12. ASSUME NEW b \in Handled, SendReceipt(b)
        PROVE  (SeatIsThere /\ NeverOverbooked)'
    <2>1. Booked' = Booked
      BY <1>12 DEF SendReceipt, Booked, InsertIsFree, bookVars
    <2> QED
      BY <1>12, <2>1, CountsAreNat, SeatsStand DEF SendReceipt, SeatIsThere
  <1>13. ASSUME NEW b \in Handled, NEW to \in Moves, MoveReceipt(b, to)
        PROVE  (SeatIsThere /\ NeverOverbooked)'
    <2>1. Booked' = Booked
      BY <1>13 DEF MoveReceipt, Booked, InsertIsFree, bookVars
    <2> QED
      BY <1>13, <2>1, CountsAreNat, SeatsStand DEF MoveReceipt, SeatIsThere
  <1>14. CASE UNCHANGED vars
    <2>1. Booked' = Booked
      BY <1>14 DEF vars, Booked, InsertIsFree, bookVars
    <2> QED
      BY <1>14, <2>1, CountsAreNat, SeatsStand DEF vars, SeatIsThere
  <1> QED
    BY <1>1, <1>2, <1>3, <1>4, <1>5, <1>6, <1>7, <1>8, <1>9, <1>10, <1>11, <1>12,
      <1>13, <1>14 DEF Next, Step

\* The initial state is empty.
LEMMA BookingsInit == Init => IInv
  <1> SUFFICES ASSUME Init PROVE IInv
      OBVIOUS
  <1> USE
      DEF Init
  <1>1. TypeOK
    BY SlotHasRoom DEF TypeOK, BookingStatuses, Labels
  <1>2. Booked = {} /\ Waiting = {}
    BY DEF Booked, Waiting
  <1>3. LockIsHeld /\ InsertIsFree /\ PromotionStands
    BY NobodyIsNoRequest DEF LockIsHeld, InsertIsFree, PromotionStands
  <1>4. SeatIsThere /\ NeverOverbooked
    BY <1>2, SlotHasRoom, FS_EmptySet DEF SeatIsThere, NeverOverbooked
  <1>5. LineIsTotal /\ OneRowEach
    BY <1>2 DEF LineIsTotal, OneRowEach, Active
  <1> QED
    BY <1>1, <1>3, <1>4, <1>5 DEF IInv

\* The inductive invariant holds always.
THEOREM BookingsInductive == Spec => []IInv
  <1>1. ASSUME IInv, [Next]_vars PROVE IInv'
    <2>1. TypeOK'
      BY <1>1, TypeNext DEF IInv
    <2>2. LockIsHeld'
      BY <1>1, <2>1, LockNext DEF IInv
    <2>3. InsertIsFree'
      BY <1>1, <2>1, InsertNext DEF IInv
    <2>4. PromotionStands'
      BY <1>1, <2>1, PromotionNext DEF IInv
    <2>5. LineIsTotal'
      BY <1>1, <2>1, LineNext DEF IInv
    <2>6. OneRowEach'
      BY <1>1, <2>1, OneRowNext DEF IInv
    <2>7. (SeatIsThere /\ NeverOverbooked)'
      BY <1>1, <2>1, SeatNext DEF IInv
    <2> QED
      BY <2>1, <2>2, <2>3, <2>4, <2>5, <2>6, <2>7 DEF IInv
  <1> QED
    BY BookingsInit, <1>1, PTL DEF Spec

\* The types of Bookings hold always.
THEOREM BookingsTyped == Spec => []TypeOK
  <1>1. IInv => TypeOK
    BY DEF IInv
  <1> QED
    BY BookingsInductive, <1>1, PTL

\* However many requests interleave, the slot never holds more bookings than the highest
\* capacity it has had.
THEOREM SlotNeverOverbooked == Spec => []NeverOverbooked
  <1>1. IInv => NeverOverbooked
    BY DEF IInv
  <1> QED
    BY BookingsInductive, <1>1, PTL

\* A member never has two active bookings of the slot.
THEOREM OneBookingEach == Spec => []OneRowEach
  <1>1. IInv => OneRowEach
    BY DEF IInv
  <1> QED
    BY BookingsInductive, <1>1, PTL

\* Nobody who was eligible when a promotion looked is overtaken by it.
THEOREM PromotionInOrder == Spec => PromotedInOrder
  <1> DEFINE InOrder ==
        \A b \in Rows : status[b] = "waitlisted" /\ status'[b] = "booked" =>
          \A c \in ahead[b] : status'[c] = "waitlisted" => \E t \in Requests : c \in barred[t]
  <1>1. ASSUME IInv, [Next]_vars PROVE [InOrder]_vars
    <2> USE <1>1 DEF IInv, TypeOK, Booked, Waiting
    <2>1. ASSUME NEW t \in Requests, CommitCancel(t) PROVE InOrder
      BY <2>1 DEF CommitCancel, PromotionStands
    <2>2. ASSUME NEW t \in Requests, CommitBook(t) PROVE InOrder
      BY <2>2 DEF CommitBook, InsertIsFree
    <2>3. ASSUME NEW t \in Requests, CommitWait(t) PROVE InOrder
      BY <2>3 DEF CommitWait, InsertIsFree
    <2>4. ASSUME NEW t \in Requests, CommitDelete(t) PROVE InOrder
      BY <2>4 DEF CommitDelete
    <2>5. CASE UNCHANGED status
      BY <2>5
    <2> QED
      BY <2>1, <2>2, <2>3, <2>4, <2>5
        DEF Next, Step, Book, LoadCancel, Cancel, Rollback, LoadDelete, UpdateSlot, ChangeTier,
            SendReceipt, MoveReceipt, bookVars, vars
  <1> QED
    BY BookingsInductive, <1>1, PTL DEF Spec, PromotedInOrder

------------------------------------------------------------------------------

\* A booking that was loaded as booked does not wait later, while the slot exists.
LoadedStands ==
  \A t \in Requests : pc[t] \in {"loaded", "cancels"} =>
    \/ ~exists
    \/ /\ status[row[t]] # "none"
       /\ was[t] = "booked" => status[row[t]] # "waitlisted"

\* So nobody is promoted by the cancellation of their own booking.
NobodyPromotesSelf ==
  \A t \in Requests : pc[t] = "cancels" => row[t] \notin next[t]

\* Every step keeps both.
LEMMA LoadedNext ==
  ASSUME IInv, LoadedStands, NobodyPromotesSelf, [Next]_vars
  PROVE  (LoadedStands /\ NobodyPromotesSelf)'
  <1> USE NoRowIsNoRow, NobodyIsNoRequest
      DEF IInv, TypeOK, PromotionStands, InsertIsFree, LoadedStands, NobodyPromotesSelf,
          slotVars, bookVars, billVars, readVars, planVars
  <1>1. ASSUME NEW t \in Requests, NEW b \in Rows, Book(t, b)
        PROVE  (LoadedStands /\ NobodyPromotesSelf)'
    BY <1>1 DEF Book, Goto
  <1>2. ASSUME NEW t \in Requests, NEW b \in Rows, LoadCancel(t, b)
        PROVE  (LoadedStands /\ NobodyPromotesSelf)'
    BY <1>2 DEF LoadCancel, Goto, Active, Booked, Waiting
  <1>3. ASSUME NEW t \in Requests, CommitBook(t)
        PROVE  (LoadedStands /\ NobodyPromotesSelf)'
    BY <1>3 DEF CommitBook, Goto, Ends
  <1>4. ASSUME NEW t \in Requests, CommitWait(t)
        PROVE  (LoadedStands /\ NobodyPromotesSelf)'
    BY <1>4 DEF CommitWait, Goto, Ends
  <1>5. ASSUME NEW t \in Requests, Cancel(t)
        PROVE  (LoadedStands /\ NobodyPromotesSelf)'
    BY <1>5 DEF Cancel, Goto, FirstEligible, Waiting
  <1>6. ASSUME NEW t \in Requests, CommitCancel(t)
        PROVE  (LoadedStands /\ NobodyPromotesSelf)'
    BY <1>6 DEF CommitCancel, Goto, Ends
  <1>7. ASSUME NEW t \in Requests, Rollback(t)
        PROVE  (LoadedStands /\ NobodyPromotesSelf)'
    BY <1>7 DEF Rollback, Goto, Ends
  <1>8. ASSUME NEW t \in Requests, LoadDelete(t)
        PROVE  (LoadedStands /\ NobodyPromotesSelf)'
    BY <1>8 DEF LoadDelete, Goto
  <1>9. ASSUME NEW t \in Requests, CommitDelete(t)
        PROVE  (LoadedStands /\ NobodyPromotesSelf)'
    BY <1>9 DEF CommitDelete, Goto, Ends
  <1>10. ASSUME UNCHANGED <<status, exists, pc, readVars, next>>
         PROVE  (LoadedStands /\ NobodyPromotesSelf)'
    BY <1>10
  <1> QED
    BY <1>1, <1>2, <1>3, <1>4, <1>5, <1>6, <1>7, <1>8, <1>9, <1>10
      DEF Next, Step, UpdateSlot, ChangeTier, SendReceipt, MoveReceipt, vars

\* A cancelled booking owes nothing that could still be voided.
LEMMA CancelledIsVoided ==
  ASSUME IInv, NobodyPromotesSelf, NEW t \in Requests, CommitCancel(t),
         NEW b \in Rows, status[b] \in {"booked", "waitlisted"}, status'[b] = "cancelled"
  PROVE  receipt'[b] \notin VoidableStatuses \/ b \in sent'
  <1>1. b = row[t] /\ b \notin next[t] /\ sent' = sent
    BY DEF CommitCancel, NobodyPromotesSelf
  <1>2. PICK billed \in SUBSET next[t] :
          receipt' = [c \in Rows |-> IF c \in {d \in {row[t]} : Voidable(d)} THEN "cancelled"
                                     ELSE IF c \in billed THEN "emitted" ELSE receipt[c]]
    BY DEF CommitCancel
  <1>3. CASE Voidable(b)
    BY <1>1, <1>2, <1>3 DEF VoidableStatuses
  <1>4. CASE ~Voidable(b)
    BY <1>1, <1>2, <1>4 DEF Voidable
  <1> QED
    BY <1>3, <1>4

\* Whichever path confirmed it, cancel_booking leaves no voidable receipt of the booking it
\* cancels, unless the bank is collecting it.
THEOREM CancellationVoids == Spec => CancelVoids
  <1> DEFINE Voids ==
        \A b \in Rows : status[b] \in {"booked", "waitlisted"} /\ status'[b] = "cancelled" =>
          receipt'[b] \notin VoidableStatuses \/ b \in sent'
      Stands == LoadedStands /\ NobodyPromotesSelf
  <1>1. Init => Stands
    BY DEF Init, LoadedStands, NobodyPromotesSelf
  <1>2. IInv /\ Stands /\ [Next]_vars => Stands'
    BY LoadedNext
  <1>3. ASSUME IInv, Stands, [Next]_vars PROVE [Voids]_vars
    <2> USE <1>3 DEF IInv, TypeOK
    <2>1. ASSUME NEW t \in Requests, CommitCancel(t) PROVE Voids
      BY <2>1, CancelledIsVoided
    <2>2. ASSUME NEW t \in Requests, CommitBook(t) PROVE Voids
      BY <2>2 DEF CommitBook, InsertIsFree
    <2>3. ASSUME NEW t \in Requests, CommitWait(t) PROVE Voids
      BY <2>3 DEF CommitWait, InsertIsFree
    <2>4. ASSUME NEW t \in Requests, CommitDelete(t) PROVE Voids
      BY <2>4 DEF CommitDelete
    <2>5. CASE UNCHANGED status
      BY <2>5
    <2> QED
      BY <2>1, <2>2, <2>3, <2>4, <2>5
        DEF Next, Step, Book, LoadCancel, Cancel, Rollback, LoadDelete, UpdateSlot, ChangeTier,
            SendReceipt, MoveReceipt, bookVars, vars
  <1> HIDE DEF Voids, Stands
  <1>4. [][Voids]_vars => CancelVoids
    BY PTL DEF CancelVoids, Voids
  <1> QED
    BY BookingsInductive, <1>1, <1>2, <1>3, <1>4, PTL DEF Spec

------------------------------------------------------------------------------
(* That Bookings implements SlotLedger.                                    *)

\* While a request decides the slot cannot go, and only who cancels has looked at the line.
DecidesOnSlot ==
  /\ holder # NoRequest => exists
  /\ \A t \in Requests : barred[t] # {} => pc[t] = "cancels"

\* Every step keeps both: a deletion waits for the slot's row.
LEMMA DecidesNext ==
  ASSUME IInv, DecidesOnSlot, [Next]_vars
  PROVE  DecidesOnSlot'
  <1> USE NobodyIsNoRequest
      DEF IInv, TypeOK, LockIsHeld, DecidesOnSlot, slotVars, readVars, planVars
  <1>1. ASSUME NEW t \in Requests, NEW b \in Rows, Book(t, b) \/ LoadCancel(t, b)
        PROVE  DecidesOnSlot'
    BY <1>1 DEF Book, LoadCancel, Goto, Locks
  <1>2. ASSUME NEW t \in Requests, CommitBook(t) \/ CommitWait(t) \/ CommitCancel(t) \/ Rollback(t)
        PROVE  DecidesOnSlot'
    BY <1>2 DEF CommitBook, CommitWait, CommitCancel, Rollback, Goto, Ends
  <1>3. ASSUME NEW t \in Requests, Cancel(t)
        PROVE  DecidesOnSlot'
    BY <1>3 DEF Cancel, Goto, Locks
  <1>4. ASSUME NEW t \in Requests, LoadDelete(t)
        PROVE  DecidesOnSlot'
    BY <1>4 DEF LoadDelete, Goto
  <1>5. ASSUME NEW t \in Requests, CommitDelete(t)
        PROVE  DecidesOnSlot'
    BY <1>5 DEF CommitDelete, Goto, Ends
  <1>6. ASSUME UNCHANGED <<exists, holder, pc, barred>>
        PROVE  DecidesOnSlot'
    BY <1>6
  <1> QED
    BY <1>1, <1>2, <1>3, <1>4, <1>5, <1>6
      DEF Next, Step, UpdateSlot, ChangeTier, SendReceipt, MoveReceipt, vars

Excused == UNION {barred[t] : t \in Requests}

\* The line was looked at for the one promotion under way.
LEMMA ExcusedByHolder ==
  ASSUME IInv, DecidesOnSlot
  PROVE  /\ \A t \in Requests : pc[t] = "cancels" => Excused = barred[t]
         /\ (\A t \in Requests : pc[t] # "cancels") => Excused = {}
  <1>1. \A t, u \in Requests : pc[t] = "cancels" /\ barred[u] # {} => u = t
    BY DEF IInv, LockIsHeld, DecidesOnSlot
  <1>2. ASSUME NEW t \in Requests, pc[t] = "cancels" PROVE Excused = barred[t]
    BY <1>1, <1>2 DEF Excused
  <1>3. (\A t \in Requests : pc[t] # "cancels") => Excused = {}
    BY DEF DecidesOnSlot, Excused
  <1> QED
    BY <1>2, <1>3

\* SlotLedger counts as Bookings does.
LEMMA LedgerCounts == \A S : Ledger!Cardinality(S) = Cardinality(S)
  BY DEF Cardinality, Ledger!Cardinality

ledgerVars == <<exists, highest, status, ahead, eligible, Excused>>

\* A booking is confirmed on a seat that is there, or joins the line as it is.
LEMMA BookingSeats ==
  ASSUME IInv, DecidesOnSlot, DecidesOnSlot', IInv', NEW t \in Requests,
         CommitBook(t) \/ CommitWait(t)
  PROVE  \E b \in Rows : Ledger!Seat(b) \/ Ledger!Queue(b)
  <1>1. holder = t /\ exists /\ row[t] \in Rows
    BY NobodyIsNoRequest
       DEF IInv, LockIsHeld, DecidesOnSlot, InsertIsFree, CommitBook, CommitWait
  <1>2. Ledger!Newcomer(row[t])
    BY DEF IInv, InsertIsFree, CommitBook, CommitWait, Duplicate, Active, Booked, Waiting,
           Ledger!Newcomer, Ledger!Seated, Ledger!InLine
  <1>3. Excused = {} /\ Excused' = {}
    <2>1. \A u \in Requests : pc[u] # "cancels" /\ pc'[u] # "cancels"
      BY <1>1 DEF IInv, LockIsHeld, TypeOK, CommitBook, CommitWait, Ends, Goto
    <2> QED
      BY <2>1 DEF DecidesOnSlot, Excused
  <1>4. CASE CommitBook(t)
    <2>1. Cardinality(Booked) < highest
      BY <1>4 DEF IInv, SeatIsThere, CommitBook
    <2>2. Ledger!Seated = Booked
      BY DEF Ledger!Seated, Booked
    <2>3. /\ status' = [status EXCEPT ![row[t]] = "booked"]
          /\ UNCHANGED <<exists, highest, ahead, eligible>>
      BY <1>4 DEF CommitBook, slotVars
    <2>4. Ledger!Seat(row[t])
      BY <1>1, <1>2, <1>3, <2>1, <2>2, <2>3, LedgerCounts DEF Ledger!Seat, Excused
    <2> QED
      BY <1>1, <2>4
  <1>5. CASE CommitWait(t)
    <2>1. Ledger!Queue(row[t])
      BY <1>1, <1>2, <1>3, <1>5
         DEF CommitWait, Ledger!Queue, Ledger!InLine, Waiting, Excused, slotVars
    <2> QED
      BY <1>1, <2>1
  <1> QED
    BY <1>4, <1>5

\* A cancellation promotes one of the line at most, to a seat that is there, over the heads
\* only of those it looked at.
LEMMA CancellingLeaves ==
  ASSUME IInv, DecidesOnSlot, DecidesOnSlot', IInv', LoadedStands,
         NEW t \in Requests, CommitCancel(t)
  PROVE  \E b \in Rows, promoted \in SUBSET Rows : Ledger!Leave(b, promoted)
  <1> DEFINE b == row[t]
             up == next[t]
  <1>1. /\ holder = t /\ exists /\ b \in Rows
        /\ status[b] # "none"
    BY NobodyIsNoRequest
       DEF IInv, LockIsHeld, DecidesOnSlot, PromotionStands, LoadedStands, CommitCancel
  <1>2. Excused = barred[t] /\ Excused' = {}
    <2>1. pc[t] = "cancels"
      BY DEF CommitCancel
    <2>2. \A u \in Requests : pc'[u] # "cancels"
      BY <1>1 DEF IInv, LockIsHeld, TypeOK, CommitCancel, Ends, Goto
    <2> QED
      BY <2>1, <2>2, ExcusedByHolder DEF DecidesOnSlot, Excused
  <1>3. /\ up \subseteq Waiting
        /\ \A c, d \in up : c = d
        /\ \A c \in up : ahead[c] \cap Waiting \subseteq barred[t]
    BY DEF IInv, PromotionStands, CommitCancel
  <1>4. Cardinality(up) <= 1
    <2>1. CASE up = {}
      BY <2>1, FS_EmptySet
    <2>2. CASE up # {}
      <3>1. PICK c \in up : up = {c}
        BY <1>3, <2>2
      <3> QED
        BY <3>1, FS_Singleton
    <2> QED
      BY <2>1, <2>2
  <1>5. ASSUME up # {} PROVE Cardinality((Booked \ {b}) \cup up) <= highest
    <2>1. PICK c \in up : up = {c}
      BY <1>3, <1>5
    <2>2. c \notin Booked \ {b}
      BY <1>3, <2>1 DEF Waiting, Booked
    <2>3. IsFiniteSet(Booked \ {b})
      BY BookedIsFinite, FS_RemoveElement
    <2>4. Cardinality((Booked \ {b}) \cup {c}) = Cardinality(Booked \ {b}) + 1
      BY <2>2, <2>3, FS_AddElement
    <2>5. Cardinality(Booked \ {b}) < highest
      BY <1>5 DEF IInv, SeatIsThere, CommitCancel
    <2>6. Cardinality(Booked \ {b}) \in Nat /\ highest \in Nat
      BY CountsAreNat DEF IInv
    <2> QED
      BY <2>1, <2>4, <2>5, <2>6
  <1>6. Ledger!Seated = Booked /\ Ledger!InLine = Waiting
    BY DEF Ledger!Seated, Ledger!InLine, Booked, Waiting
  <1>7. /\ status' = [c \in Rows |-> IF c = b THEN "cancelled"
                                     ELSE IF c \in up THEN "booked" ELSE status[c]]
        /\ ahead' = [c \in Rows |-> IF c \in {b} \cup up THEN {} ELSE ahead[c] \ ({b} \cup up)]
        /\ UNCHANGED <<exists, highest, eligible>>
    BY DEF CommitCancel, LeaveLine, slotVars
  <1>8. up \in SUBSET Rows
    BY DEF IInv, TypeOK
  <1> HIDE DEF b, up
  <1>9. Ledger!Leave(b, up)
    BY <1>1, <1>2, <1>3, <1>4, <1>5, <1>6, <1>7, LedgerCounts DEF Ledger!Leave, Excused
  <1> QED
    BY <1>1, <1>8, <1>9 DEF Ledger!Leave

\* Who cancels looks at the line as it is.
LEMMA CancelLooks ==
  ASSUME IInv, DecidesOnSlot, IInv', DecidesOnSlot', NEW t \in Requests, Cancel(t)
  PROVE  Ledger!Look
  <1>1. pc'[t] = "cancels" /\ exists
    BY DEF Cancel, Goto, IInv, TypeOK
  <1>2. Excused' = barred'[t]
    <2>1. \A u \in Requests : barred'[u] # {} => u = t
      BY <1>1 DEF IInv, LockIsHeld, DecidesOnSlot
    <2> QED
      BY <2>1 DEF Excused
  <1>3. barred'[t] = {b \in Waiting : PartyOf[b] \notin eligible}
    BY DEF Cancel, IInv, TypeOK
  <1> QED
    BY <1>1, <1>2, <1>3
       DEF Cancel, Ledger!Look, Ledger!InLine, Waiting, Excused, slotVars, bookVars

\* A request that ends without a commit leaves the slot as it is.
LEMMA RollbackForgets ==
  ASSUME IInv, DecidesOnSlot, NEW t \in Requests, Rollback(t)
  PROVE  Ledger!Forget \/ UNCHANGED ledgerVars
  <1>1. UNCHANGED <<exists, highest, status, ahead, eligible>>
    BY DEF Rollback, slotVars, bookVars
  <1>2. barred' = [barred EXCEPT ![t] = {}]
    BY DEF Rollback, Ends
  <1>3. CASE pc[t] = "cancels"
    <2>1. \A u \in Requests : barred'[u] = {}
      BY <1>2, <1>3 DEF IInv, TypeOK, LockIsHeld, DecidesOnSlot
    <2> QED
      BY <1>1, <2>1 DEF Ledger!Forget, Excused
  <1>4. CASE pc[t] # "cancels"
    <2>1. barred' = barred
      BY <1>2, <1>4 DEF IInv, TypeOK, DecidesOnSlot
    <2> QED
      BY <1>1, <2>1 DEF ledgerVars, Excused
  <1> QED
    BY <1>3, <1>4

\* A deletion takes the slot's row, so nobody is deciding.
LEMMA DeletionCloses ==
  ASSUME IInv, DecidesOnSlot, NEW t \in Requests, CommitDelete(t)
  PROVE  Ledger!Close
  <1>1. barred' = barred
    <2>1. barred[t] = {} /\ barred' = [barred EXCEPT ![t] = {}]
      BY DEF DecidesOnSlot, CommitDelete, Ends
    <2> QED
      BY <2>1 DEF IInv, TypeOK
  <1>2. ahead' = [b \in Rows |-> {}]
    BY DEF CommitDelete, LeaveLine
  <1> QED
    BY <1>1, <1>2 DEF CommitDelete, Ledger!Close, Excused

\* The slot's lock is the serialization point the module's comment claims: however requests
\* interleave, fail, and use what they loaded before the lock, they book, queue, promote and
\* cancel as SlotLedger does in single steps.
THEOREM BookingsImplement == Spec => ImplementsSlotLedger
  <1> DEFINE Stands == LoadedStands /\ NobodyPromotesSelf /\ DecidesOnSlot
  <1>1. Init => Ledger!Init
    <2> SUFFICES ASSUME Init PROVE Ledger!Init
      OBVIOUS
    <2>1. UNION {barred[t] : t \in Requests} = {}
      BY DEF Init
    <2> QED
      BY <2>1 DEF Init, Ledger!Init
  <1>2. Init => Stands
    BY DEF Init, LoadedStands, NobodyPromotesSelf, DecidesOnSlot
  <1>3. IInv /\ Stands /\ [Next]_vars => Stands'
    BY LoadedNext, DecidesNext
  <1>4. IInv /\ IInv' /\ Stands /\ Stands' /\ [Next]_vars => [Ledger!Next]_ledgerVars
    <2> SUFFICES ASSUME IInv, IInv', Stands, Stands', [Next]_vars
                 PROVE  [Ledger!Next]_ledgerVars
      OBVIOUS
    <2>1. ASSUME NEW t \in Requests, CommitBook(t) \/ CommitWait(t)
          PROVE  Ledger!Next
      BY <2>1, BookingSeats DEF Ledger!Next
    <2>2. ASSUME NEW t \in Requests, CommitCancel(t)
          PROVE  Ledger!Next
      BY <2>2, CancellingLeaves DEF Ledger!Next
    <2>3. ASSUME NEW t \in Requests, Cancel(t)
          PROVE  Ledger!Next
      BY <2>3, CancelLooks DEF Ledger!Next
    <2>4. ASSUME NEW t \in Requests, Rollback(t)
          PROVE  [Ledger!Next]_ledgerVars
      BY <2>4, RollbackForgets DEF Ledger!Next
    <2>5. ASSUME NEW t \in Requests, CommitDelete(t)
          PROVE  Ledger!Next
      BY <2>5, DeletionCloses DEF Ledger!Next
    <2>6. ASSUME NEW t \in Requests, NEW b \in Rows,
                 Book(t, b) \/ LoadCancel(t, b)
          PROVE  UNCHANGED ledgerVars
      BY <2>6 DEF Book, LoadCancel, slotVars, bookVars, planVars, ledgerVars, Excused
    <2>7. ASSUME NEW n \in Capacities, UpdateSlot(n)
          PROVE  Ledger!Next
      <3>1. highest' \in Capacities /\ highest' >= highest
        BY <2>7, SlotHasRoom DEF UpdateSlot, IInv, TypeOK
      <3>2. Ledger!Resize
        BY <2>7, <3>1 DEF UpdateSlot, Ledger!Resize, bookVars, planVars
      <3> QED
        BY <3>2 DEF Ledger!Next
    <2>8. ASSUME NEW p \in MayChange, ChangeTier(p)
          PROVE  Ledger!Next
      <3>1. Ledger!ChangeTier(p)
        BY <2>8 DEF ChangeTier, Ledger!ChangeTier, slotVars, bookVars, planVars
      <3> QED
        BY <3>1, SomeMayChange DEF Ledger!Next
    <2>9. ASSUME UNCHANGED <<slotVars, bookVars, eligible, barred>>
          PROVE  UNCHANGED ledgerVars
      BY <2>9 DEF slotVars, bookVars, ledgerVars, Excused
    <2>10. ASSUME UNCHANGED vars
           PROVE  UNCHANGED ledgerVars
      BY <2>10 DEF vars, slotVars, bookVars, planVars, ledgerVars, Excused
    <2> QED
      BY <2>1, <2>2, <2>3, <2>4, <2>5, <2>6, <2>7, <2>8, <2>9, <2>10
         DEF Next, Step, LoadDelete, SendReceipt, MoveReceipt, planVars
  <1> HIDE DEF Stands
  <1> QED
    BY <1>1, <1>2, <1>3, <1>4, BookingsInductive, PTL
       DEF Spec, ImplementsSlotLedger, Ledger!Spec, ledgerVars, Excused
===============================================================================
