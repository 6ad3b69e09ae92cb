---------------------------- MODULE DocumentNumbers ----------------------------
(***************************************************************************)
(* How receipts and remittances get their numbers while transactions run   *)
(* concurrently (PostgreSQL, READ COMMITTED): a counter row per year,      *)
(* locked FOR UPDATE and inserted by whoever draws the year's first        *)
(* number; and, where annual reset is off, one counter for all receipts on *)
(* the organisation's row.                                                 *)
(*                                                                         *)
(* A transaction takes one step per statement that may block or that reads *)
(* what others write. Its own changes become visible, and its locks are    *)
(* released, when it commits or rolls back. The organisation's settings    *)
(* are assumed not to be edited meanwhile.                                 *)
(***************************************************************************)
EXTENDS Integers, FiniteSets

CONSTANTS
  Txns,         \* transactions, each run once
  MayHoldOrg,   \* those whose caller may keep the organisation loaded while it draws
  Years,
  AnnualModes,  \* the values of invoice_annual_reset considered
  MaxReceipts,  \* bound: receipts one transaction issues
  NoTxn

ASSUME TxnsAreTxns      == NoTxn \notin Txns
ASSUME ModesAreBooleans == AnnualModes \subseteq BOOLEAN
ASSUME SomeYear         == Years # {}
ASSUME QuotaIsPositive  == MaxReceipts \in Nat \ {0}

VARIABLES
  annual,      \* organization_settings.invoice_annual_reset
  keeps,       \* the transactions whose caller keeps the organisation loaded
  next,        \* next_number of each series' committed row; 0 where there is no row
  holder,      \* who has locked, or inserted and not committed, a series' row
  draft,       \* next_number as the row's holder has it
  orgNext,     \* organization_settings.invoice_next_number, committed
  orgHolder,   \* who has locked the organisation's row
  seen,        \* invoice_next_number as the transaction's session has it; 0 is not loaded
  pc,
  series,      \* the series a transaction draws from, once it has begun
  num,         \* the number it has drawn and not yet written on a document
  docs,        \* numbers on its documents, not yet committed
  issued       \* <<transaction, series, number>> of every committed document

rowVars == <<next, holder, draft>>
orgVars == <<orgNext, orgHolder, seen>>
settings == <<annual, keeps>>
vars == <<settings, rowVars, orgVars, pc, series, num, docs, issued>>

Kinds  == {"receipt", "remittance"}
Series == Kinds \X Years

Ended  == {"done", "refused", "failed"}

Receipting(t) == series[t][1] = "receipt"

\* A request issues several receipts (a fee run, a bulk), but creates one remittance.
Quota(t) == IF Receipting(t) THEN MaxReceipts ELSE 1

\* receipt_number and remittance_number are unique among committed documents.
Taken(k, n) == \E t \in Txns : <<t, k, n>> \in issued

Goto(t, label) == pc' = [pc EXCEPT ![t] = label]

------------------------------------------------------------------------------

\* A request starts; some callers (generate_membership_fees, generate_booking_receipt) load
\* the organisation and keep it, so their session keeps the values it had then.
Begin(t, k) ==
  /\ pc[t] = "new"
  /\ series' = [series EXCEPT ![t] = k]
  /\ seen' = [seen EXCEPT ![t] = IF t \in keeps THEN orgNext ELSE 0]
  /\ Goto(t, "open")
  /\ UNCHANGED <<settings, rowVars, orgNext, orgHolder, num, docs, issued>>

\* generate_receipt_number locks the organisation's row first; generate_remittance_number
\* goes straight to its counter.
Draw(t) ==
  /\ pc[t] = "open"
  /\ Cardinality(docs[t]) < Quota(t)
  /\ Goto(t, IF Receipting(t) THEN "org" ELSE "row")
  /\ UNCHANGED <<settings, rowVars, orgVars, series, num, docs, issued>>

\* SELECT ... FOR UPDATE waits for the holder. A row the session already has keeps the
\* attributes it was loaded with.
LockOrg(t) ==
  /\ pc[t] = "org"
  /\ orgHolder \in {NoTxn, t}
  /\ orgHolder' = t
  /\ seen' = [seen EXCEPT ![t] = IF @ = 0 THEN orgNext ELSE @]
  /\ Goto(t, IF annual THEN "row" ELSE "take")
  /\ UNCHANGED <<settings, rowVars, orgNext, series, num, docs, issued>>

TakeFromOrg(t) ==
  /\ pc[t] = "take"
  /\ num' = [num EXCEPT ![t] = seen[t]]
  /\ seen' = [seen EXCEPT ![t] = @ + 1]
  /\ Goto(t, "check")
  /\ UNCHANGED <<settings, rowVars, orgNext, orgHolder, series, docs, issued>>

\* Mutant: the row is read without FOR UPDATE.
SelectRowUnlocked(t) ==
  LET k == series[t]
      n == IF holder[k] = t THEN draft[k] ELSE next[k] IN
  /\ pc[t] = "row"
  /\ next[k] # 0 \/ holder[k] = t
  /\ holder' = [holder EXCEPT ![k] = t]
  /\ num' = [num EXCEPT ![t] = n]
  /\ draft' = [draft EXCEPT ![k] = n + 1]
  /\ Goto(t, "check")
  /\ UNCHANGED <<settings, next, orgVars, series, docs, issued>>

\* next_yearly_number finds the year's row, once it is free, and bumps it.
SelectRow(t) ==
  LET k == series[t]
      n == IF holder[k] = t THEN draft[k] ELSE next[k] IN
  /\ pc[t] = "row"
  /\ next[k] # 0 \/ holder[k] = t
  /\ holder[k] \in {NoTxn, t}
  /\ holder' = [holder EXCEPT ![k] = t]
  /\ num' = [num EXCEPT ![t] = n]
  /\ draft' = [draft EXCEPT ![k] = n + 1]
  /\ Goto(t, "check")
  /\ UNCHANGED <<settings, next, orgVars, series, docs, issued>>

\* ... or finds none: somebody else's uncommitted row cannot be seen.
SelectNothing(t) ==
  /\ pc[t] = "row"
  /\ next[series[t]] = 0
  /\ holder[series[t]] # t
  /\ Goto(t, "insert")
  /\ UNCHANGED <<settings, rowVars, orgVars, series, num, docs, issued>>

\* Mutant: a series starts at 0.
InsertRowAtZero(t) ==
  LET k == series[t] IN
  /\ pc[t] = "insert"
  /\ next[k] = 0
  /\ holder[k] = NoTxn
  /\ holder' = [holder EXCEPT ![k] = t]
  /\ num' = [num EXCEPT ![t] = 0]
  /\ draft' = [draft EXCEPT ![k] = 1]
  /\ Goto(t, "check")
  /\ UNCHANGED <<settings, next, orgVars, series, docs, issued>>

\* The year's row is inserted; the unique key makes a second inserter wait for the first.
InsertRow(t) ==
  LET k == series[t] IN
  /\ pc[t] = "insert"
  /\ next[k] = 0
  /\ holder[k] = NoTxn
  /\ holder' = [holder EXCEPT ![k] = t]
  /\ num' = [num EXCEPT ![t] = 1]
  /\ draft' = [draft EXCEPT ![k] = 2]
  /\ Goto(t, "check")
  /\ UNCHANGED <<settings, next, orgVars, series, docs, issued>>

\* The first inserter committed: IntegrityError, the savepoint is rolled back and the row
\* read again under its lock.
InsertLoses(t) ==
  /\ pc[t] = "insert"
  /\ next[series[t]] # 0
  /\ Goto(t, "row")
  /\ UNCHANGED <<settings, rowVars, orgVars, series, num, docs, issued>>

\* No document has the number: it is written on this one. The unique index makes the
\* insertion wait for an uncommitted document with the same number.
NumberDocument(t) ==
  LET d == <<series[t], num[t]>> IN
  /\ pc[t] = "check"
  /\ ~Taken(series[t], num[t])
  /\ \A u \in Txns : d \notin docs[u]
  /\ docs' = [docs EXCEPT ![t] = @ \union {d}]
  /\ Goto(t, "open")
  /\ UNCHANGED <<settings, rowVars, orgVars, series, num, issued>>

------------------------------------------------------------------------------
(* The end of a transaction.                                               *)

ReleaseLocks(t) ==
  /\ holder' = [k \in Series |-> IF holder[k] = t THEN NoTxn ELSE holder[k]]
  /\ draft' = [k \in Series |-> IF holder[k] = t THEN 0 ELSE draft[k]]
  /\ orgHolder' = IF orgHolder = t THEN NoTxn ELSE orgHolder

Discard(t) ==
  /\ ReleaseLocks(t)
  /\ docs' = [docs EXCEPT ![t] = {}]
  /\ UNCHANGED <<settings, next, orgNext, seen, series, num, issued>>

\* "Receipt number ... already exists": HTTP 500, and nothing is kept.
Refuse(t) ==
  /\ pc[t] = "check"
  /\ Taken(series[t], num[t])
  /\ Goto(t, "refused")
  /\ Discard(t)

\* Mutant: what a failed transaction drew stays drawn.
RollbackKeepingNumbers(t) ==
  /\ pc[t] \in {"open", "org", "row", "insert", "take", "check"}
  /\ Goto(t, "failed")
  /\ ReleaseLocks(t)
  /\ next' = [k \in Series |-> IF holder[k] = t THEN draft[k] ELSE next[k]]
  /\ docs' = [docs EXCEPT ![t] = {}]
  /\ UNCHANGED <<settings, orgNext, seen, series, num, issued>>

\* Mutant: a failed transaction is never closed and keeps its locks.
RollbackLeavingLocks(t) ==
  /\ pc[t] \in {"open", "org", "row", "insert", "take", "check"}
  /\ Goto(t, "failed")
  /\ docs' = [docs EXCEPT ![t] = {}]
  /\ UNCHANGED <<settings, rowVars, orgVars, series, num, issued>>

\* Anything else in the request fails, or the process dies.
Rollback(t) ==
  /\ pc[t] \in {"open", "org", "row", "insert", "take", "check"}
  /\ Goto(t, "failed")
  /\ Discard(t)

Commit(t) ==
  /\ pc[t] = "open"
  /\ docs[t] # {}
  /\ next' = [k \in Series |-> IF holder[k] = t THEN draft[k] ELSE next[k]]
  /\ orgNext' = IF orgHolder = t /\ ~annual THEN seen[t] ELSE orgNext
  /\ issued' = issued \union {<<t, d[1], d[2]>> : d \in docs[t]}
  /\ ReleaseLocks(t)
  /\ docs' = [docs EXCEPT ![t] = {}]
  /\ Goto(t, "done")
  /\ UNCHANGED <<settings, seen, series, num>>

------------------------------------------------------------------------------

Init ==
  /\ annual \in AnnualModes
  /\ keeps \in SUBSET MayHoldOrg
  /\ next   = [k \in Series |-> 0]
  /\ holder = [k \in Series |-> NoTxn]
  /\ draft  = [k \in Series |-> 0]
  /\ orgNext = 1
  /\ orgHolder = NoTxn
  /\ seen   = [t \in Txns |-> 0]
  /\ pc     = [t \in Txns |-> "new"]
  /\ series = [t \in Txns |-> CHOOSE k \in Series : TRUE]
  /\ num    = [t \in Txns |-> 0]
  /\ docs   = [t \in Txns |-> {}]
  /\ issued = {}

\* What a transaction does by itself, as long as nothing fails.
Advance(t) ==
  \/ \E k \in Series : Begin(t, k)
  \/ Draw(t)
  \/ LockOrg(t)
  \/ TakeFromOrg(t)
  \/ SelectRow(t)
  \/ SelectNothing(t)
  \/ InsertRow(t)
  \/ InsertLoses(t)
  \/ NumberDocument(t)
  \/ Refuse(t)
  \/ Commit(t)

Next == \E t \in Txns : Advance(t) \/ Rollback(t)

Spec == Init /\ [][Next]_vars

\* A server keeps running the requests it has accepted, and PostgreSQL hands a released lock
\* to somebody who waits for it.
FairSpec == Spec /\ \A t \in Txns : WF_vars(Advance(t))

------------------------------------------------------------------------------
(* Correctness.                                                            *)

PCs == {"new", "open", "org", "row", "insert", "take", "check"} \union Ended

\* Numbers count from 1; every column has a value of its kind.
TypeOK ==
  /\ annual \in BOOLEAN
  /\ keeps \subseteq MayHoldOrg
  /\ next   \in [Series -> Nat]
  /\ holder \in [Series -> Txns \union {NoTxn}]
  /\ draft  \in [Series -> Nat]
  /\ orgNext \in Nat \ {0}
  /\ orgHolder \in Txns \union {NoTxn}
  /\ seen   \in [Txns -> Nat]
  /\ pc     \in [Txns -> PCs]
  /\ series \in [Txns -> Series]
  /\ num    \in [Txns -> Nat]
  /\ docs   \in [Txns -> SUBSET (Series \X (Nat \ {0}))]
  /\ issued \subseteq Txns \X Series \X (Nat \ {0})

\* The counter of k is read under its lock: always, but for receipts numbered from the
\* organisation's row by a caller that had it loaded before.
ReadUnderLock(k) == k[1] = "remittance" \/ annual \/ keeps = {}

\* The series that share k's counter, and the number that counter gives next.
Sharing(k)  == IF k[1] = "receipt" /\ ~annual THEN {"receipt"} \X Years ELSE {k}
NextOf(k)   == IF k[1] = "receipt" /\ ~annual THEN orgNext
               ELSE IF next[k] = 0 THEN 1 ELSE next[k]
Numbered(k) == {i \in issued : i[2] \in Sharing(k)}

\* "An invoice series has to be sequential and unbroken": the committed documents that share
\* a counter carry 1, 2, ... up to the last number drawn, each once, whoever rolled back.
Unbroken ==
  \A k \in Series : ReadUnderLock(k) =>
    /\ {i[3] : i \in Numbered(k)} = 1 .. (NextOf(k) - 1)
    /\ \A i, j \in Numbered(k) : i[3] = j[3] => i = j

\* "Under the locks above a collision means the counter disagrees with the receipts": as no
\* number is issued outside, nobody is ever refused one.
NoFalseCollision ==
  \A t \in Txns : ReadUnderLock(series[t]) => pc[t] # "refused"

\* The numbers of t come from a year's row, not from the organisation's.
ByYear(t) == ~Receipting(t) \/ annual

\* A lock belongs to a request that is still running, which draws from that row, and the
\* uncommitted counter is ahead of the committed one.
LocksAreLive ==
  /\ \A k \in Series, t \in Txns : holder[k] = t =>
       /\ k = series[t]
       /\ ByYear(t)
       /\ pc[t] \notin Ended \union {"new", "insert"}
       /\ draft[k] > NextOf(k)
  /\ \A t \in Txns : orgHolder = t =>
       /\ Receipting(t)
       /\ pc[t] \notin Ended \union {"new"}
       /\ seen[t] > 0

\* Without a caller that keeps the organisation, only its lock's holder has it loaded.
LoadedUnderLock ==
  ~annual /\ keeps = {} => \A t \in Txns :
    /\ orgHolder = t => seen[t] >= orgNext
    /\ pc[t] = "check" /\ ~ByYear(t) => seen[t] > orgNext
    /\ orgHolder # t /\ pc[t] \notin Ended => seen[t] = 0

\* Where a request is tells how it draws and what it has locked.
StepsInOrder ==
  \A t \in Txns :
    /\ pc[t] = "org" => Receipting(t)
    /\ pc[t] = "take" => ~ByYear(t) /\ orgHolder = t
    /\ pc[t] \in {"row", "insert"} => ByYear(t)
    /\ pc[t] = "check" /\ ByYear(t) => holder[series[t]] = t /\ num[t] = draft[series[t]] - 1
    /\ pc[t] = "check" /\ ~ByYear(t) => orgHolder = t /\ num[t] = seen[t] - 1
    /\ pc[t] = "check" => num[t] > 0

\* What t has drawn and not committed, and what of it is on a document.
Drawn(t) ==
  IF ByYear(t)
  THEN IF holder[series[t]] = t THEN NextOf(series[t]) .. (draft[series[t]] - 1) ELSE {}
  ELSE IF orgHolder = t THEN orgNext .. (seen[t] - 1) ELSE {}

Written(t) == IF pc[t] = "check" THEN Drawn(t) \ {num[t]} ELSE Drawn(t)

\* What a request draws it writes on its documents, at once and in its own series.
DrawnIsWritten ==
  \A t \in Txns :
    /\ \A d \in docs[t] : d[1] = series[t]
    /\ pc[t] = "new" => docs[t] = {}
    /\ ReadUnderLock(series[t]) /\ pc[t] \notin Ended => docs[t] = {series[t]} \X Written(t)

\* A request that draws from a receipts' row has the organisation's row locked as well, and
\* one with documents has its counter.
LocksInOrder ==
  \A t \in Txns :
    /\ pc[t] \in {"row", "insert", "take", "check"} /\ Receipting(t) => orgHolder = t
    /\ Receipting(t) /\ holder[series[t]] = t => orgHolder = t
    /\ docs[t] # {} => IF ByYear(t) THEN holder[series[t]] = t ELSE orgHolder = t

\* Why t cannot go on: u has the row it is to lock, the year's row it is to insert, or an
\* uncommitted document with its number.
WaitsFor(t, u) ==
  /\ t # u
  /\ \/ pc[t] = "org" /\ orgHolder = u
     \/ pc[t] \in {"row", "insert"} /\ holder[series[t]] = u
     \/ pc[t] = "check" /\ <<series[t], num[t]>> \in docs[u]

\* The order of the locks is one: whoever is waited for waits for nobody, so no deadlock
\* can arise, of however many requests.
NobodyWaitsForAWaiter == \A t, u, v \in Txns : ~(WaitsFor(t, u) /\ WaitsFor(u, v))

\* The inductive invariant.
IInv ==
  /\ TypeOK
  /\ LocksAreLive
  /\ LoadedUnderLock
  /\ StepsInOrder
  /\ DrawnIsWritten
  /\ Unbroken
  /\ NoFalseCollision

\* Every request that starts ends: no two of them wait for each other's locks, and those of
\* a request that fails do not outlive it.
EveryRequestEnds == \A t \in Txns : (pc[t] = "open") ~> (pc[t] \in Ended)
==============================================================================
