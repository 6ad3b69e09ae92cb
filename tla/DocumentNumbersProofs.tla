------------------------- MODULE DocumentNumbersProofs -------------------------
(***************************************************************************)
(* That every series of DocumentNumbers is unbroken, that no number is     *)
(* refused and that requests never wait for each other in a circle, for    *)
(* any number of requests, years and receipts per request.                 *)
(***************************************************************************)
EXTENDS DocumentNumbers, TLAPS

\* The initial state is typed.
LEMMA TypeInit == Init => TypeOK
  <1> SUFFICES ASSUME Init PROVE TypeOK
      OBVIOUS
  <1>1. PICK y \in Years : TRUE
    BY SomeYear
  <1>2. (CHOOSE k \in Series : TRUE) \in Series
    <2>1. <<"receipt", y>> \in Series
      BY <1>1 DEF Series, Kinds
    <2> QED
      BY <2>1
  <1> QED
    BY <1>2, ModesAreBooleans, SMTT(30) DEF Init, TypeOK, PCs, Ended

\* The types hold because a number drawn is at least 1.
LEMMA TypeNext ==
  ASSUME TypeOK, LocksAreLive, StepsInOrder, [Next]_vars
  PROVE  TypeOK'
  <1> USE TxnsAreTxns
      DEF settings, rowVars, orgVars, TypeOK, PCs, Ended, LocksAreLive, StepsInOrder, NextOf,
          ByYear, Receipting
  <1>1. ASSUME NEW t \in Txns, NEW k \in Series, Begin(t, k) PROVE TypeOK'
    BY <1>1 DEF Begin, Goto
  <1>2. ASSUME NEW t \in Txns, Draw(t) PROVE TypeOK'
    BY <1>2 DEF Draw, Goto
  <1>3. ASSUME NEW t \in Txns, LockOrg(t) PROVE TypeOK'
    BY <1>3 DEF LockOrg, Goto
  <1>4. ASSUME NEW t \in Txns, TakeFromOrg(t) PROVE TypeOK'
    BY <1>4 DEF TakeFromOrg, Goto
  <1>5. ASSUME NEW t \in Txns, SelectRow(t) PROVE TypeOK'
    BY <1>5 DEF SelectRow, Goto
  <1>6. ASSUME NEW t \in Txns, SelectNothing(t) PROVE TypeOK'
    BY <1>6 DEF SelectNothing, Goto
  <1>7. ASSUME NEW t \in Txns, InsertRow(t) PROVE TypeOK'
    BY <1>7 DEF InsertRow, Goto
  <1>8. ASSUME NEW t \in Txns, InsertLoses(t) PROVE TypeOK'
    BY <1>8 DEF InsertLoses, Goto
  <1>9. ASSUME NEW t \in Txns, NumberDocument(t) PROVE TypeOK'
    BY <1>9 DEF NumberDocument, Goto
  <1>10. ASSUME NEW t \in Txns, Refuse(t) PROVE TypeOK'
    BY <1>10 DEF Refuse, Goto, Discard, ReleaseLocks
  <1>11. ASSUME NEW t \in Txns, Commit(t) PROVE TypeOK'
    BY <1>11 DEF Commit, Goto, ReleaseLocks
  <1>12. ASSUME NEW t \in Txns, Rollback(t) PROVE TypeOK'
    BY <1>12 DEF Rollback, Goto, Discard, ReleaseLocks
  <1>13. CASE UNCHANGED vars
    BY <1>13 DEF vars
  <1> QED
    BY <1>1, <1>2, <1>3, <1>4, <1>5, <1>6, <1>7, <1>8, <1>9, <1>10, <1>11, <1>12, <1>13
      DEF Next, Advance

\* Locks are taken by requests that run, and released when they end.
LEMMA LocksNext ==
  ASSUME TypeOK, TypeOK', LocksAreLive, StepsInOrder, [Next]_vars
  PROVE  LocksAreLive'
  <1> USE TxnsAreTxns
      DEF settings, rowVars, orgVars, TypeOK, PCs, Ended, LocksAreLive, StepsInOrder, NextOf,
          ByYear, Receipting
  <1>1. ASSUME NEW t \in Txns, NEW k \in Series, Begin(t, k) PROVE LocksAreLive'
    BY <1>1 DEF Begin, Goto
  <1>2. ASSUME NEW t \in Txns, Draw(t) PROVE LocksAreLive'
    BY <1>2 DEF Draw, Goto
  <1>3. ASSUME NEW t \in Txns, LockOrg(t) PROVE LocksAreLive'
    BY <1>3 DEF LockOrg, Goto
  <1>4. ASSUME NEW t \in Txns, TakeFromOrg(t) PROVE LocksAreLive'
    BY <1>4 DEF TakeFromOrg, Goto
  <1>5. ASSUME NEW t \in Txns, SelectRow(t) PROVE LocksAreLive'
    BY <1>5 DEF SelectRow, Goto
  <1>6. ASSUME NEW t \in Txns, SelectNothing(t) PROVE LocksAreLive'
    BY <1>6 DEF SelectNothing, Goto
  <1>7. ASSUME NEW t \in Txns, InsertRow(t) PROVE LocksAreLive'
    BY <1>7 DEF InsertRow, Goto
  <1>8. ASSUME NEW t \in Txns, InsertLoses(t) PROVE LocksAreLive'
    BY <1>8 DEF InsertLoses, Goto
  <1>9. ASSUME NEW t \in Txns, NumberDocument(t) PROVE LocksAreLive'
    BY <1>9 DEF NumberDocument, Goto
  <1>10. ASSUME NEW t \in Txns, Refuse(t) PROVE LocksAreLive'
    BY <1>10 DEF Refuse, Goto, Discard, ReleaseLocks
  <1>11. ASSUME NEW t \in Txns, Commit(t) PROVE LocksAreLive'
    BY <1>11 DEF Commit, Goto, ReleaseLocks
  <1>12. ASSUME NEW t \in Txns, Rollback(t) PROVE LocksAreLive'
    BY <1>12 DEF Rollback, Goto, Discard, ReleaseLocks
  <1>13. CASE UNCHANGED vars
    BY <1>13 DEF vars
  <1> QED
    BY <1>1, <1>2, <1>3, <1>4, <1>5, <1>6, <1>7, <1>8, <1>9, <1>10, <1>11, <1>12, <1>13
      DEF Next, Advance

\* A request that reads the organisation under its lock reads the committed counter.
LEMMA LoadedNext ==
  ASSUME TypeOK, TypeOK', LocksAreLive, LoadedUnderLock, StepsInOrder, [Next]_vars
  PROVE  LoadedUnderLock'
  <1> USE TxnsAreTxns
      DEF settings, rowVars, orgVars, TypeOK, PCs, Ended, LocksAreLive, LoadedUnderLock,
          StepsInOrder, ByYear, Receipting
  <1>1. ASSUME NEW t \in Txns, NEW k \in Series, Begin(t, k) PROVE LoadedUnderLock'
    BY <1>1 DEF Begin, Goto
  <1>2. ASSUME NEW t \in Txns, Draw(t) PROVE LoadedUnderLock'
    BY <1>2 DEF Draw, Goto
  <1>3. ASSUME NEW t \in Txns, LockOrg(t) PROVE LoadedUnderLock'
    BY <1>3 DEF LockOrg, Goto
  <1>4. ASSUME NEW t \in Txns, TakeFromOrg(t) PROVE LoadedUnderLock'
    BY <1>4 DEF TakeFromOrg, Goto
  <1>5. ASSUME NEW t \in Txns, SelectRow(t) PROVE LoadedUnderLock'
    BY <1>5 DEF SelectRow, Goto
  <1>6. ASSUME NEW t \in Txns, SelectNothing(t) PROVE LoadedUnderLock'
    BY <1>6 DEF SelectNothing, Goto
  <1>7. ASSUME NEW t \in Txns, InsertRow(t) PROVE LoadedUnderLock'
    BY <1>7 DEF InsertRow, Goto
  <1>8. ASSUME NEW t \in Txns, InsertLoses(t) PROVE LoadedUnderLock'
    BY <1>8 DEF InsertLoses, Goto
  <1>9. ASSUME NEW t \in Txns, NumberDocument(t) PROVE LoadedUnderLock'
    BY <1>9 DEF NumberDocument, Goto
  <1>10. ASSUME NEW t \in Txns, Refuse(t) PROVE LoadedUnderLock'
    BY <1>10 DEF Refuse, Goto, Discard, ReleaseLocks
  <1>11. ASSUME NEW t \in Txns, Commit(t) PROVE LoadedUnderLock'
    BY <1>11 DEF Commit, Goto, ReleaseLocks
  <1>12. ASSUME NEW t \in Txns, Rollback(t) PROVE LoadedUnderLock'
    BY <1>12 DEF Rollback, Goto, Discard, ReleaseLocks
  <1>13. CASE UNCHANGED vars
    BY <1>13 DEF vars
  <1> QED
    BY <1>1, <1>2, <1>3, <1>4, <1>5, <1>6, <1>7, <1>8, <1>9, <1>10, <1>11, <1>12, <1>13
      DEF Next, Advance

\* A request keeps to the order of its statements.
LEMMA StepsNext ==
  ASSUME TypeOK, TypeOK', LocksAreLive, StepsInOrder, [Next]_vars
  PROVE  StepsInOrder'
  <1> USE TxnsAreTxns
      DEF settings, rowVars, orgVars, TypeOK, PCs, Ended, LocksAreLive, StepsInOrder, NextOf,
          ByYear, Receipting
  <1>1. ASSUME NEW t \in Txns, NEW k \in Series, Begin(t, k) PROVE StepsInOrder'
    BY <1>1 DEF Begin, Goto
  <1>2. ASSUME NEW t \in Txns, Draw(t) PROVE StepsInOrder'
    BY <1>2 DEF Draw, Goto
  <1>3. ASSUME NEW t \in Txns, LockOrg(t) PROVE StepsInOrder'
    BY <1>3 DEF LockOrg, Goto
  <1>4. ASSUME NEW t \in Txns, TakeFromOrg(t) PROVE StepsInOrder'
    BY <1>4 DEF TakeFromOrg, Goto
  <1>5. ASSUME NEW t \in Txns, SelectRow(t) PROVE StepsInOrder'
    BY <1>5 DEF SelectRow, Goto
  <1>6. ASSUME NEW t \in Txns, SelectNothing(t) PROVE StepsInOrder'
    BY <1>6 DEF SelectNothing, Goto
  <1>7. ASSUME NEW t \in Txns, InsertRow(t) PROVE StepsInOrder'
    BY <1>7 DEF InsertRow, Goto
  <1>8. ASSUME NEW t \in Txns, InsertLoses(t) PROVE StepsInOrder'
    BY <1>8 DEF InsertLoses, Goto
  <1>9. ASSUME NEW t \in Txns, NumberDocument(t) PROVE StepsInOrder'
    BY <1>9 DEF NumberDocument, Goto
  <1>10. ASSUME NEW t \in Txns, Refuse(t) PROVE StepsInOrder'
    BY <1>10 DEF Refuse, Goto, Discard, ReleaseLocks
  <1>11. ASSUME NEW t \in Txns, Commit(t) PROVE StepsInOrder'
    BY <1>11 DEF Commit, Goto, ReleaseLocks
  <1>12. ASSUME NEW t \in Txns, Rollback(t) PROVE StepsInOrder'
    BY <1>12 DEF Rollback, Goto, Discard, ReleaseLocks
  <1>13. CASE UNCHANGED vars
    BY <1>13 DEF vars
  <1> QED
    BY <1>1, <1>2, <1>3, <1>4, <1>5, <1>6, <1>7, <1>8, <1>9, <1>10, <1>11, <1>12, <1>13
      DEF Next, Advance

\* Whatever is drawn is on a document, or about to be.
LEMMA DrawnNext ==
  ASSUME TypeOK, TypeOK', LocksAreLive, LocksAreLive', LoadedUnderLock, StepsInOrder,
         StepsInOrder', DrawnIsWritten, [Next]_vars
  PROVE  DrawnIsWritten'
  <1> USE TxnsAreTxns
      DEF settings, rowVars, orgVars, TypeOK, PCs, Ended, LocksAreLive, LoadedUnderLock,
    StepsInOrder, DrawnIsWritten, Written, Drawn, NextOf, ByYear, Receipting, ReadUnderLock
  <1>1. ASSUME NEW t \in Txns, NEW k \in Series, Begin(t, k) PROVE DrawnIsWritten'
    BY <1>1 DEF Begin, Goto
  <1>2. ASSUME NEW t \in Txns, Draw(t) PROVE DrawnIsWritten'
    BY <1>2 DEF Draw, Goto
  <1>3. ASSUME NEW t \in Txns, LockOrg(t) PROVE DrawnIsWritten'
    BY <1>3 DEF LockOrg, Goto
  <1>4. ASSUME NEW t \in Txns, TakeFromOrg(t) PROVE DrawnIsWritten'
    BY <1>4 DEF TakeFromOrg, Goto
  <1>5. ASSUME NEW t \in Txns, SelectRow(t) PROVE DrawnIsWritten'
    BY <1>5 DEF SelectRow, Goto
  <1>6. ASSUME NEW t \in Txns, SelectNothing(t) PROVE DrawnIsWritten'
    BY <1>6 DEF SelectNothing, Goto
  <1>7. ASSUME NEW t \in Txns, InsertRow(t) PROVE DrawnIsWritten'
    BY <1>7 DEF InsertRow, Goto
  <1>8. ASSUME NEW t \in Txns, InsertLoses(t) PROVE DrawnIsWritten'
    BY <1>8 DEF InsertLoses, Goto
  <1>9. ASSUME NEW t \in Txns, NumberDocument(t) PROVE DrawnIsWritten'
    BY <1>9 DEF NumberDocument, Goto
  <1>10. ASSUME NEW t \in Txns, Refuse(t) PROVE DrawnIsWritten'
    BY <1>10 DEF Refuse, Goto, Discard, ReleaseLocks
  <1>11. ASSUME NEW t \in Txns, Commit(t) PROVE DrawnIsWritten'
    BY <1>11 DEF Commit, Goto, ReleaseLocks
  <1>12. ASSUME NEW t \in Txns, Rollback(t) PROVE DrawnIsWritten'
    BY <1>12 DEF Rollback, Goto, Discard, ReleaseLocks
  <1>13. CASE UNCHANGED vars
    BY <1>13 DEF vars
  <1> QED
    BY <1>1, <1>2, <1>3, <1>4, <1>5, <1>6, <1>7, <1>8, <1>9, <1>10, <1>11, <1>12, <1>13
      DEF Next, Advance

\* A number just drawn is beyond every number issued from its counter.
LEMMA NoCollisionNext ==
  ASSUME TypeOK, LocksAreLive, LoadedUnderLock, StepsInOrder, Unbroken, NoFalseCollision,
         [Next]_vars
  PROVE  NoFalseCollision'
  <1> USE DEF settings, rowVars, orgVars, NoFalseCollision, ReadUnderLock
  <1>1. ASSUME NEW t \in Txns, Refuse(t) PROVE NoFalseCollision'
    <2>1. CASE ReadUnderLock(series[t])
      <3>1. num[t] >= NextOf(series[t])
        BY <1>1, <2>1 DEF Refuse, TypeOK, LocksAreLive, LoadedUnderLock, StepsInOrder, NextOf,
                          ByYear, Receipting, PCs, Ended, Series, Kinds
      <3>2. PICK u \in Txns : <<u, series[t], num[t]>> \in issued
        BY <1>1 DEF Refuse, Taken
      <3>3. series[t] \in Series /\ series[t] \in Sharing(series[t])
        BY DEF TypeOK, Sharing, Series, Kinds
      <3>4. <<u, series[t], num[t]>> \in Numbered(series[t])
        BY <3>2, <3>3 DEF Numbered
      <3>5. num[t] \in {i[3] : i \in Numbered(series[t])}
        BY <3>4
      <3>6. num[t] \in 1 .. (NextOf(series[t]) - 1)
        BY <2>1, <3>3, <3>5 DEF Unbroken
      <3> QED
        BY <3>1, <3>3, <3>6 DEF TypeOK, NextOf
    <2>2. CASE ~ReadUnderLock(series[t])
      BY <1>1, <2>2 DEF Refuse, Discard, Goto, TypeOK
    <2> QED
      BY <2>1, <2>2
  <1>2. ASSUME NEW t \in Txns, NEW k \in Series, Begin(t, k) PROVE NoFalseCollision'
    BY <1>2 DEF Begin, Goto, TypeOK
  <1>3. ASSUME NEW t \in Txns,
               \/ Draw(t) \/ LockOrg(t) \/ TakeFromOrg(t) \/ SelectRow(t) \/ SelectNothing(t)
               \/ InsertRow(t) \/ InsertLoses(t) \/ NumberDocument(t) \/ Commit(t) \/ Rollback(t)
        PROVE  NoFalseCollision'
    BY <1>3 DEF Draw, LockOrg, TakeFromOrg, SelectRow, SelectNothing, InsertRow, InsertLoses,
                NumberDocument, Commit, Rollback, Discard, Goto, TypeOK
  <1>4. CASE UNCHANGED vars
    BY <1>4 DEF vars
  <1> QED
    BY <1>1, <1>2, <1>3, <1>4 DEF Next, Advance

\* What a commit adds to the documents that share k's counter.
LEMMA CommitExtends ==
  ASSUME TypeOK, LocksAreLive, LoadedUnderLock, DrawnIsWritten, Unbroken,
         NEW t \in Txns, Commit(t), NEW k \in Series, ReadUnderLock(k)
  PROVE  /\ {i[3] : i \in Numbered(k)'} = 1 .. (NextOf(k)' - 1)
         /\ \A i, j \in Numbered(k)' : i[3] = j[3] => i = j
  <1> DEFINE new == {<<t, d[1], d[2]>> : d \in docs[t]}
  <1>1. Sharing(k)' = Sharing(k) /\ issued' = issued \union new
    BY DEF Commit, Sharing, settings
  <1>2. /\ {i[3] : i \in Numbered(k)} = 1 .. (NextOf(k) - 1)
        /\ \A i, j \in Numbered(k) : i[3] = j[3] => i = j
    BY DEF Unbroken
  <1>3. CASE series[t] \in Sharing(k)
    <2>1. ReadUnderLock(series[t]) /\ NextOf(series[t]) = NextOf(k)
      BY <1>3 DEF ReadUnderLock, Sharing, NextOf, Series, Kinds
    <2>2. docs[t] = {series[t]} \X Drawn(t)
      BY <2>1 DEF DrawnIsWritten, Commit, Written, Ended
    <2>3. Drawn(t) = NextOf(k) .. (NextOf(k)' - 1) /\ NextOf(k)' >= NextOf(k)
      BY <1>3, <2>1, <2>2, TxnsAreTxns
         DEF Commit, Drawn, NextOf, Sharing, ByYear, Receipting, TypeOK, LocksAreLive,
             LoadedUnderLock, ReadUnderLock, settings, Series, Kinds
    <2>4. new = {<<t, series[t], n>> : n \in Drawn(t)}
      <3>1. ASSUME NEW d \in docs[t]
            PROVE  <<t, d[1], d[2]>> \in {<<t, series[t], n>> : n \in Drawn(t)}
        BY <2>2
      <3>2. ASSUME NEW n \in Drawn(t) PROVE <<t, series[t], n>> \in new
        <4>1. <<series[t], n>> \in docs[t]
          BY <2>2
        <4> QED
          BY <4>1
      <3> QED
        BY <3>1, <3>2
    <2>5. Numbered(k)' = Numbered(k) \union {<<t, series[t], n>> : n \in Drawn(t)}
      BY <1>1, <1>3, <2>4 DEF Numbered
    <2>6. {i[3] : i \in Numbered(k)'} = {i[3] : i \in Numbered(k)} \union Drawn(t)
      <3>1. \A n \in Drawn(t) : <<t, series[t], n>> \in Numbered(k)'
        BY <2>5
      <3>2. \A i \in Numbered(k)' : i[3] \in {j[3] : j \in Numbered(k)} \union Drawn(t)
        BY <2>5
      <3>3. \A n \in Drawn(t) : n \in {i[3] : i \in Numbered(k)'}
        <4>1. ASSUME NEW n \in Drawn(t) PROVE n \in {i[3] : i \in Numbered(k)'}
          <5>1. <<t, series[t], n>>[3] = n
            OBVIOUS
          <5> QED
            BY <3>1, <5>1
        <4> QED
          BY <4>1
      <3>4. \A i \in Numbered(k) : i \in Numbered(k)'
        BY <2>5
      <3> QED
        BY <3>2, <3>3, <3>4
    <2>7. NextOf(k) \in Nat \ {0} /\ NextOf(k)' \in Int
      BY <2>3 DEF TypeOK, NextOf, Commit, settings
    <2>8. {i[3] : i \in Numbered(k)'} = 1 .. (NextOf(k)' - 1)
      <3>1. 1 .. (NextOf(k)' - 1)
              = (1 .. (NextOf(k) - 1)) \union (NextOf(k) .. (NextOf(k)' - 1))
        BY <2>3, <2>7
      <3> QED
        BY <1>2, <2>3, <2>6, <3>1
    <2>9. ASSUME NEW i \in Numbered(k)', NEW j \in Numbered(k)', i[3] = j[3] PROVE i = j
      <3>1. \A x \in Numbered(k) : x[3] \in 1 .. (NextOf(k) - 1)
        BY <1>2
      <3>2. \A n \in Drawn(t) : n \notin 1 .. (NextOf(k) - 1)
        BY <2>3, <2>7
      <3> QED
        BY <1>2, <2>5, <2>9, <3>1, <3>2
    <2> QED
      BY <2>8, <2>9
  <1>4. CASE series[t] \notin Sharing(k)
    <2>1. Numbered(k)' = Numbered(k)
      BY <1>1, <1>4 DEF Numbered, DrawnIsWritten
    <2>2. NextOf(k)' = NextOf(k)
      BY <1>4, TxnsAreTxns
         DEF Commit, NextOf, Sharing, LocksAreLive, TypeOK, settings, Series, Kinds, Receipting
    <2> QED
      BY <1>2, <2>1, <2>2
  <1> QED
    BY <1>3, <1>4

\* No step leaves a gap in a series: what is drawn is written in the transaction that drew
\* it, or the counter is rolled back with it.
LEMMA UnbrokenNext ==
  ASSUME TypeOK, LocksAreLive, LoadedUnderLock, DrawnIsWritten, Unbroken, [Next]_vars
  PROVE  Unbroken'
  <1> USE DEF settings, rowVars, orgVars
  <1>1. ASSUME NEW t \in Txns, Commit(t) PROVE Unbroken'
    <2>1. \A k \in Series : ReadUnderLock(k)' = ReadUnderLock(k)
      BY <1>1 DEF Commit, ReadUnderLock
    <2> QED
      BY <1>1, <2>1, CommitExtends DEF Unbroken
  <1>2. CASE UNCHANGED <<annual, keeps, next, orgNext, issued>>
    BY <1>2 DEF Unbroken, ReadUnderLock, Numbered, Sharing, NextOf
  <1>3. ASSUME NEW t \in Txns, NEW k \in Series, Begin(t, k) PROVE Unbroken'
    BY <1>2, <1>3 DEF Begin
  <1>4. ASSUME NEW t \in Txns,
               \/ Draw(t) \/ LockOrg(t) \/ TakeFromOrg(t) \/ SelectRow(t) \/ SelectNothing(t)
               \/ InsertRow(t) \/ InsertLoses(t) \/ NumberDocument(t) \/ Refuse(t) \/ Rollback(t)
        PROVE  Unbroken'
    BY <1>2, <1>4 DEF Draw, LockOrg, TakeFromOrg, SelectRow, SelectNothing, InsertRow,
                      InsertLoses, NumberDocument, Refuse, Rollback, Discard
  <1>5. CASE UNCHANGED vars
    BY <1>2, <1>5 DEF vars
  <1> QED
    BY <1>1, <1>3, <1>4, <1>5 DEF Next, Advance

\* The initial state satisfies the inductive invariant.
LEMMA InvInit == Init => IInv
  <1> SUFFICES ASSUME Init PROVE IInv
      OBVIOUS
  <1>1. TypeOK
    BY TypeInit
  <1>2. LocksAreLive /\ LoadedUnderLock /\ StepsInOrder /\ NoFalseCollision
    BY <1>1, TxnsAreTxns
       DEF Init, TypeOK, LocksAreLive, LoadedUnderLock, StepsInOrder, NoFalseCollision, Ended
  <1>3. DrawnIsWritten
    BY <1>1, TxnsAreTxns DEF Init, TypeOK, DrawnIsWritten, Written, Drawn, Ended
  <1>4. Unbroken
    BY <1>1 DEF Init, Unbroken, Numbered, NextOf
  <1> QED
    BY <1>1, <1>2, <1>3, <1>4 DEF IInv

\* Every step preserves the inductive invariant.
LEMMA InvNext == IInv /\ [Next]_vars => IInv'
  <1> SUFFICES ASSUME IInv, [Next]_vars PROVE IInv'
      OBVIOUS
  <1> USE DEF IInv
  <1>1. TypeOK'
    BY TypeNext
  <1>2. LocksAreLive' /\ StepsInOrder' /\ LoadedUnderLock'
    BY <1>1, LocksNext, StepsNext, LoadedNext
  <1>3. DrawnIsWritten'
    BY <1>1, <1>2, DrawnNext
  <1>4. Unbroken' /\ NoFalseCollision'
    BY UnbrokenNext, NoCollisionNext
  <1> QED
    BY <1>1, <1>2, <1>3, <1>4

\* IInv holds in every reachable state.
THEOREM NumbersInductive == Spec => []IInv
  BY InvInit, InvNext, PTL DEF Spec

\* Every column of the numbering keeps its type; in particular no number is 0.
THEOREM NumbersTyped == Spec => []TypeOK
  <1>1. IInv => TypeOK
    BY DEF IInv
  <1> QED
    BY NumbersInductive, <1>1, PTL

\* Documents that share a counter carry 1, 2, 3, ... with no gap and no repetition, however
\* many requests run at once and whichever of them fail.
THEOREM SeriesUnbroken == Spec => []Unbroken
  <1>1. IInv => Unbroken
    BY DEF IInv
  <1> QED
    BY NumbersInductive, <1>1, PTL

\* No request is refused the number it drew.
THEOREM NoNumberRefused == Spec => []NoFalseCollision
  <1>1. IInv => NoFalseCollision
    BY DEF IInv
  <1> QED
    BY NumbersInductive, <1>1, PTL

------------------------------------------------------------------------------
(* That requests do not wait for each other in a circle.                   *)

\* A request locks the organisation before the year, and writes nothing before its counter
\* is locked.
LEMMA OrderNext ==
  ASSUME IInv, IInv', LocksInOrder, [Next]_vars
  PROVE  LocksInOrder'
  <1> USE TxnsAreTxns
      DEF settings, rowVars, orgVars, IInv, TypeOK, PCs, Ended, LocksAreLive, StepsInOrder,
          DrawnIsWritten, LocksInOrder, ByYear, Receipting
  <1>1. ASSUME NEW t \in Txns, NEW k \in Series, Begin(t, k) PROVE LocksInOrder'
    BY <1>1 DEF Begin, Goto
  <1>2. ASSUME NEW t \in Txns, Draw(t) PROVE LocksInOrder'
    BY <1>2 DEF Draw, Goto
  <1>3. ASSUME NEW t \in Txns, LockOrg(t) PROVE LocksInOrder'
    BY <1>3 DEF LockOrg, Goto
  <1>4. ASSUME NEW t \in Txns, TakeFromOrg(t) PROVE LocksInOrder'
    BY <1>4 DEF TakeFromOrg, Goto
  <1>5. ASSUME NEW t \in Txns, SelectRow(t) PROVE LocksInOrder'
    BY <1>5 DEF SelectRow, Goto
  <1>6. ASSUME NEW t \in Txns, SelectNothing(t) PROVE LocksInOrder'
    BY <1>6 DEF SelectNothing, Goto
  <1>7. ASSUME NEW t \in Txns, InsertRow(t) PROVE LocksInOrder'
    BY <1>7 DEF InsertRow, Goto
  <1>8. ASSUME NEW t \in Txns, InsertLoses(t) PROVE LocksInOrder'
    BY <1>8 DEF InsertLoses, Goto
  <1>9. ASSUME NEW t \in Txns, NumberDocument(t) PROVE LocksInOrder'
    BY <1>9 DEF NumberDocument, Goto
  <1>10. ASSUME NEW t \in Txns, Refuse(t) PROVE LocksInOrder'
    BY <1>10 DEF Refuse, Goto, Discard, ReleaseLocks
  <1>11. ASSUME NEW t \in Txns, Commit(t) PROVE LocksInOrder'
    BY <1>11 DEF Commit, Goto, ReleaseLocks
  <1>12. ASSUME NEW t \in Txns, Rollback(t) PROVE LocksInOrder'
    BY <1>12 DEF Rollback, Goto, Discard, ReleaseLocks
  <1>13. CASE UNCHANGED vars
    BY <1>13 DEF vars
  <1> QED
    BY <1>1, <1>2, <1>3, <1>4, <1>5, <1>6, <1>7, <1>8, <1>9, <1>10, <1>11, <1>12, <1>13
      DEF Next, Advance

\* Nobody waits for an uncommitted document: who wrote it and who drew its number again
\* would both have the counter.
LEMMA NumbersDoNotWait ==
  ASSUME IInv, LocksInOrder, NEW t \in Txns, NEW u \in Txns, t # u, pc[t] = "check"
  PROVE  <<series[t], num[t]>> \notin docs[u]
  <1> SUFFICES ASSUME <<series[t], num[t]>> \in docs[u]
               PROVE  FALSE
      OBVIOUS
  <1>1. series[u] = series[t]
    BY DEF IInv, DrawnIsWritten
  <1>2. CASE ByYear(t)
    BY <1>1, <1>2 DEF IInv, StepsInOrder, LocksInOrder, ByYear, Receipting
  <1>3. CASE ~ByYear(t)
    BY <1>1, <1>3 DEF IInv, StepsInOrder, LocksInOrder, ByYear, Receipting
  <1> QED
    BY <1>2, <1>3

\* Who is waited for has locked something, and so waits for nobody.
LEMMA HoldersGoOn ==
  ASSUME IInv, LocksInOrder
  PROVE  NobodyWaitsForAWaiter
  <1> SUFFICES ASSUME NEW t \in Txns, NEW u \in Txns, NEW v \in Txns,
                      WaitsFor(t, u), WaitsFor(u, v)
               PROVE  FALSE
      BY DEF NobodyWaitsForAWaiter
  <1> USE DEF IInv
  <1>1. /\ t # u /\ u # v
        /\ \/ pc[t] = "org" /\ orgHolder = u
           \/ pc[t] \in {"row", "insert"} /\ holder[series[t]] = u
        /\ \/ pc[u] = "org" /\ orgHolder = v
           \/ pc[u] \in {"row", "insert"} /\ holder[series[u]] = v
    BY NumbersDoNotWait DEF WaitsFor
  <1>2. CASE pc[u] = "org"
    <2>1. orgHolder = v /\ Receipting(u)
      BY <1>1, <1>2 DEF StepsInOrder
    <2>2. pc[t] \in {"row", "insert"} /\ holder[series[t]] = u
      BY <1>1, <2>1
    <2>3. series[t] = series[u]
      BY <2>2 DEF LocksAreLive, TypeOK
    <2>4. orgHolder = u
      BY <2>1, <2>2, <2>3 DEF LocksInOrder
    <2> QED
      BY <1>1, <2>1, <2>4
  <1>3. CASE pc[u] \in {"row", "insert"}
    <2>1. holder[series[u]] = v
      BY <1>1, <1>3
    <2>2. series[v] = series[u]
      BY <2>1 DEF LocksAreLive, TypeOK
    <2>3. CASE Receipting(u)
      <3>1. orgHolder = u
        BY <1>3, <2>3 DEF LocksInOrder
      <3>2. orgHolder = v
        BY <2>1, <2>2, <2>3 DEF LocksInOrder, Receipting
      <3> QED
        BY <1>1, <3>1, <3>2
    <2>4. CASE ~Receipting(u)
      <3>1. orgHolder # u
        BY <2>4 DEF LocksAreLive
      <3>2. holder[series[t]] = u
        BY <1>1, <3>1
      <3>3. series[t] = series[u]
        BY <3>2 DEF LocksAreLive, TypeOK
      <3> QED
        BY <1>1, <2>1, <3>2, <3>3
    <2> QED
      BY <2>3, <2>4
  <1> QED
    BY <1>1, <1>2, <1>3

\* Requests that number receipts and remittances never deadlock, with any number of them, of
\* years and of receipts each: whoever one of them waits for can go on.
THEOREM NumberingNeverDeadlocks == Spec => []NobodyWaitsForAWaiter
  <1>1. Init => LocksInOrder
    <2> SUFFICES ASSUME Init PROVE LocksInOrder
        OBVIOUS
    <2>1. TypeOK
      BY TypeInit
    <2> QED
      BY <2>1, TxnsAreTxns DEF Init, LocksInOrder, TypeOK
  <1>2. IInv /\ IInv' /\ LocksInOrder /\ [Next]_vars => LocksInOrder'
    BY OrderNext
  <1>3. IInv /\ LocksInOrder => NobodyWaitsForAWaiter
    BY HoldersGoOn
  <1> QED
    BY NumbersInductive, <1>1, <1>2, <1>3, PTL DEF Spec
================================================================================
