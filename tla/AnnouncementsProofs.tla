-------------------------- MODULE AnnouncementsProofs --------------------------
(***************************************************************************)
(* That a recipient marked as sent was mailed, and that a retry resumes,   *)
(* for any number of members, requests, deliveries, retries and faults.    *)
(***************************************************************************)
EXTENDS Announcements, TLAPS

\* The types hold.
LEMMA BoundsAreNats == MaxRetries \in Nat /\ MaxLost \in Nat /\ MaxTurns \in Nat
  BY RetriesAreCounted

\* A delivery that holds nothing is typed.
LEMMA IdleIsTask ==
  ASSUME NEW n \in 0 .. MaxRetries, NEW phase \in {"none", "queued", "failed", "done"}
  PROVE  Idle(phase, n) \in TaskType
  BY DEF Idle, TaskType

\* One delivery changes, and the others stay.
LEMMA TaskStep ==
  ASSUME task \in [Tasks -> TaskType], NEW t \in Tasks, NEW r, task' = [task EXCEPT ![t] = r]
  PROVE  /\ task'[t] = r
         /\ \A u \in Tasks \ {t} : task'[u] = task[u]
         /\ r \in TaskType => task' \in [Tasks -> TaskType]
  OBVIOUS

\* The initial state is typed.
LEMMA TypeInit == Init => TypeOK
  <1> SUFFICES ASSUME Init PROVE TypeOK
    OBVIOUS
  <1>1. NoTask \in TaskType
    BY IdleIsTask, BoundsAreNats DEF NoTask
  <1>2. task \in [Tasks -> TaskType] /\ request \in [Requests -> (SUBSET Members) \cup {NoSet}]
    BY <1>1 DEF Init
  <1>3. /\ rows \in [Members -> [yes : Nat, no : Nat]] /\ seen \in [Members -> 0 .. 2]
        /\ lost \in 0 .. MaxLost /\ turns \in 0 .. MaxTurns
    BY BoundsAreNats DEF Init
  <1> QED
    BY <1>2, <1>3 DEF Init, TypeOK

\* Every step keeps the types.
LEMMA TypeNext ==
  ASSUME TypeOK, [Next]_vars
  PROVE  TypeOK'
  <1> USE BoundsAreNats DEF TypeOK, peopleVars, mailVars
  <1>0. \A t \in Tasks : task[t].retries \in 0 .. MaxRetries
    BY DEF TaskType
  <1>1. ASSUME NEW q \in Requests, NEW audience \in SUBSET Members, Resolve(q, audience)
        PROVE  TypeOK'
    BY <1>1 DEF Resolve
  <1>2. ASSUME NEW q \in Requests, NEW t \in Tasks, Send(q, t)
        PROVE  TypeOK'
    <2>1. rows' \in [Members -> [yes : Nat, no : Nat]]
      BY <1>2 DEF Send
    <2>2. task' \in [Tasks -> TaskType]
      BY <1>2, IdleIsTask DEF Send
    <2>3. request' \in [Requests -> (SUBSET Members) \cup {NoSet}]
      BY <1>2 DEF Send
    <2>4. doubled' \in BOOLEAN
      BY <1>2, Zenon DEF Send
    <2> QED
      BY <1>2, <2>1, <2>2, <2>3, <2>4 DEF Send
  <1>3. ASSUME NEW t \in Tasks, NEW on \in BOOLEAN, Start(t, on)
        PROVE  TypeOK'
    <2>1. task' \in [Tasks -> TaskType]
      <3>1. [task[t] EXCEPT !.phase = "running", !.left = reach \ AlreadySent] \in TaskType
        BY DEF TaskType
      <3>2. Idle("done", 0) \in TaskType
        BY IdleIsTask
      <3> QED
        BY <1>3, <3>1, <3>2, TaskStep DEF Start
    <2>2. doubled' \in BOOLEAN
      BY <1>3, Zenon DEF Start
    <2> QED
      BY <1>3, <2>1, <2>2 DEF Start
  <1>4. ASSUME NEW t \in Tasks, NEW m \in Members, NEW taken \in BOOLEAN, Mail(t, m, taken)
        PROVE  TypeOK'
    <2>1. task' \in [Tasks -> TaskType]
      <3>1. [task[t] EXCEPT !.out = m, !.taken = taken] \in TaskType
        BY DEF TaskType
      <3> QED
        BY <1>4, <3>1, TaskStep DEF Mail
    <2>2. mailed' \in SUBSET Members
      BY <1>4 DEF Mail
    <2> QED
      BY <1>4, <2>1, <2>2 DEF Mail
  <1>5. ASSUME NEW t \in Tasks, Record(t)
        PROVE  TypeOK'
    <2> DEFINE m == task[t].out
    <2>0. m \in Members
      BY <1>5 DEF Record, TaskType
    <2>1. rows' \in [Members -> [yes : Nat, no : Nat]]
      <3>1. Written(rows[m], task[t].taken) \in [yes : Nat, no : Nat]
        BY <2>0 DEF Written
      <3>2. rows' = [rows EXCEPT ![m] = Written(rows[m], task[t].taken)]
        BY <1>5 DEF Record
      <3> QED
        BY <3>1, <3>2
    <2>2. seen' \in [Members -> 0 .. 2]
      <3> DEFINE k == IF task[t].taken /\ seen[m] < 2 THEN seen[m] + 1 ELSE seen[m]
      <3>1. k \in 0 .. 2
        BY <2>0
      <3>2. seen' = [seen EXCEPT ![m] = k]
        BY <1>5 DEF Record
      <3> QED
        BY <3>1, <3>2
    <2>3. task' \in [Tasks -> TaskType]
      <3>1. [task[t] EXCEPT !.left = @ \ {m}, !.out = NoMember, !.taken = FALSE] \in TaskType
        BY DEF TaskType
      <3> QED
        BY <1>5, <3>1, TaskStep DEF Record
    <2> QED
      BY <1>5, <2>1, <2>2, <2>3 DEF Record
  <1>6. ASSUME NEW t \in Tasks, Complete(t)
        PROVE  TypeOK'
    BY <1>6, IdleIsTask, TaskStep DEF Complete
  <1>7. ASSUME NEW t \in Tasks, Fail(t)
        PROVE  TypeOK'
    <2>1. CASE task[t].retries < MaxRetries
      <3>1. task' = [task EXCEPT ![t] = Idle("queued", task[t].retries + 1)]
        BY <1>7, <2>1 DEF Fail
      <3>2. Idle("queued", task[t].retries + 1) \in TaskType
        BY <1>0, <2>1, IdleIsTask
      <3> QED
        BY <1>7, <3>1, <3>2, TaskStep DEF Fail
    <2>2. CASE ~(task[t].retries < MaxRetries)
      <3>1. task' = [task EXCEPT ![t] = Idle("failed", 0)]
        BY <1>7, <2>2 DEF Fail
      <3> QED
        BY <1>7, <3>1, IdleIsTask, TaskStep DEF Fail
    <2> QED
      BY <2>1, <2>2
  <1>8. ASSUME NEW t \in Tasks, Kill(t)
        PROVE  TypeOK'
    <2>1. Idle("queued", task[t].retries) \in TaskType /\ Idle("failed", 0) \in TaskType
      BY <1>0, IdleIsTask
    <2>2. task' \in [Tasks -> TaskType]
      BY <1>8, <2>1 DEF Kill
    <2> QED
      BY <1>8, <2>2 DEF Kill
  <1>9. ASSUME NEW t \in Tasks, NEW u \in Tasks, Redeliver(t, u)
        PROVE  TypeOK'
    <2>1. Idle("queued", task[t].retries) \in TaskType
      BY <1>0, IdleIsTask
    <2>2. task' \in [Tasks -> TaskType]
      BY <1>9, <2>1 DEF Redeliver
    <2> QED
      BY <1>9, <2>2 DEF Redeliver
  <1>10. ASSUME NEW m \in Members, Turn(m)
         PROVE  TypeOK'
    BY <1>10 DEF Turn
  <1>11. CASE UNCHANGED vars
    BY <1>11 DEF vars
  <1> QED
    BY <1>1, <1>2, <1>3, <1>4, <1>5, <1>6, <1>7, <1>8, <1>9, <1>10, <1>11 DEF Next, Run

\* Whom a delivery has out, with a mail that was taken, has been mailed.
OutIsMailed == \A t \in Tasks : task[t].taken => task[t].out \in mailed

\* A delivery that ends or is cut off holds nobody any more.
LEMMA DropsTask ==
  ASSUME TypeOK, NEW t \in Tasks, Complete(t) \/ Fail(t) \/ Kill(t)
  PROVE  /\ task[t].phase = "running"
         /\ \A u \in Tasks \ {t} : task'[u] = task[u]
         /\ task'[t].phase # "running" /\ task'[t].left = {} /\ task'[t].out = NoMember
         /\ ~task'[t].taken
         /\ UNCHANGED <<status, rows, mailed, seen, doubled>>
  <1>1. /\ task[t].phase = "running"
        /\ UNCHANGED <<status, rows, mailed, seen, doubled>>
    BY DEF Complete, Fail, Kill, mailVars
  <1>2. PICK phase \in {"queued", "done", "failed"}, n \in 0 .. MaxRetries :
          task' = [task EXCEPT ![t] = Idle(phase, n)]
    <2>1. task[t].retries \in 0 .. MaxRetries /\ 0 \in 0 .. MaxRetries
      BY BoundsAreNats DEF TypeOK, TaskType
    <2>2. CASE Complete(t)
      BY <2>1, <2>2 DEF Complete
    <2>3. CASE Fail(t)
      <3>1. CASE task[t].retries < MaxRetries
        <4>1. task[t].retries + 1 \in 0 .. MaxRetries
          BY <2>1, <3>1, BoundsAreNats
        <4> QED
          BY <2>3, <3>1, <4>1 DEF Fail
      <3>2. CASE ~(task[t].retries < MaxRetries)
        BY <2>1, <2>3, <3>2 DEF Fail
      <3> QED
        BY <3>1, <3>2
    <2>4. CASE Kill(t)
      BY <2>1, <2>4 DEF Kill
    <2> QED
      BY <2>2, <2>3, <2>4
  <1>3. /\ task'[t] = Idle(phase, n)
        /\ \A u \in Tasks \ {t} : task'[u] = task[u]
    BY <1>2 DEF TypeOK
  <1> QED
    BY <1>1, <1>3 DEF Idle

\* A row is marked as sent after its mail was taken.
LEMMA MailedNext ==
  ASSUME TypeOK, OutIsMailed, SentWasMailed, [Next]_vars
  PROVE  OutIsMailed' /\ SentWasMailed'
  <1> USE NobodyIsNoMember
      DEF TypeOK, TaskType, NoTask, Idle, OutIsMailed, SentWasMailed, AlreadySent, peopleVars, mailVars
  <1>1. ASSUME UNCHANGED <<rows, task, mailed>>
        PROVE  OutIsMailed' /\ SentWasMailed'
    BY <1>1
  <1>2. ASSUME NEW q \in Requests, NEW t \in Tasks, Send(q, t)
        PROVE  OutIsMailed' /\ SentWasMailed'
    BY <1>2 DEF Send
  <1>3. ASSUME NEW t \in Tasks, NEW on \in BOOLEAN, Start(t, on)
        PROVE  OutIsMailed' /\ SentWasMailed'
    BY <1>3 DEF Start
  <1>4. ASSUME NEW t \in Tasks, NEW m \in Members, NEW taken \in BOOLEAN, Mail(t, m, taken)
        PROVE  OutIsMailed' /\ SentWasMailed'
    BY <1>4 DEF Mail
  <1>5. ASSUME NEW t \in Tasks, Record(t)
        PROVE  OutIsMailed' /\ SentWasMailed'
    <2> DEFINE m == task[t].out
    <2>1. \A n \in Members \ {m} : rows'[n] = rows[n]
      BY <1>5 DEF Record
    <2>2. rows'[m].yes > 0 => task[t].taken
      BY <1>5 DEF Record, Written
    <2> QED
      BY <1>5, <2>1, <2>2 DEF Record
  <1>6. ASSUME NEW t \in Tasks, Complete(t) \/ Fail(t) \/ Kill(t)
        PROVE  OutIsMailed' /\ SentWasMailed'
    BY <1>6, DropsTask
  <1>7. ASSUME NEW t \in Tasks, NEW u \in Tasks, Redeliver(t, u)
        PROVE  OutIsMailed' /\ SentWasMailed'
    BY <1>7 DEF Redeliver
  <1>8. ASSUME NEW q \in Requests, NEW audience \in SUBSET Members, Resolve(q, audience)
        PROVE  UNCHANGED <<rows, task, mailed>>
    BY <1>8 DEF Resolve
  <1>9. ASSUME NEW m \in Members, Turn(m)
        PROVE  UNCHANGED <<rows, task, mailed>>
    BY <1>9 DEF Turn
  <1>10. CASE UNCHANGED vars
    BY <1>1, <1>10 DEF vars
  <1> QED
    BY <1>1, <1>2, <1>3, <1>4, <1>5, <1>6, <1>7, <1>8, <1>9, <1>10 DEF Next, Run

\* Nothing is delivered or mailed before the announcement is sent.
NothingYet ==
  status = "draft" => /\ \A t \in Tasks : task[t].phase = "none"
                      /\ \A m \in Members : seen[m] = 0

\* Only what runs has somebody left.
WorkIsRunning ==
  \A t \in Tasks : task[t].phase # "running" => task[t].left = {} /\ task[t].out = NoMember

\* Who is out is still left.
OutIsLeft == \A t \in Tasks : task[t].out # NoMember => task[t].out \in task[t].left

\* Unless it was doubled, one delivery runs.
OneRuns ==
  doubled \/ \A t, u \in Tasks : task[t].phase = "running" /\ task[u].phase = "running" => t = u

\* Whom a delivery has left, and has a row, has none that says sent.
LeftIsUnsent ==
  doubled \/ \A t \in Tasks : \A m \in task[t].left : rows[m].yes = 0

\* A member with a row and no row that says sent has no mail seen through, and no member
\* has more than one.
UnsentIsUnseen ==
  doubled \/ \A m \in Members : HasRow(m) => seen[m] <= 1 /\ (rows[m].yes = 0 => seen[m] = 0)

Resuming == /\ NothingYet /\ WorkIsRunning /\ OutIsLeft
            /\ OneRuns /\ LeftIsUnsent /\ UnsentIsUnseen

\* Every step keeps what lets a retry resume.
LEMMA ResumingNext ==
  ASSUME TypeOK, TypeOK', Resuming, [Next]_vars
  PROVE  Resuming'
  <1> USE NobodyIsNoMember
      DEF TypeOK, TaskType, NoTask, Idle, Resuming, NothingYet, WorkIsRunning, OutIsLeft, OneRuns,
          LeftIsUnsent, UnsentIsUnseen, HasRow, peopleVars, mailVars
  <1>1. ASSUME UNCHANGED <<status, rows, task, seen, doubled>>
        PROVE  Resuming'
    BY <1>1
  <1>2. ASSUME NEW q \in Requests, NEW t \in Tasks, Send(q, t)
        PROVE  Resuming'
    <2>1. CASE status = "sent"
      <3>1. doubled' /\ status' = "sent"
        BY <1>2, <2>1 DEF Send
      <3>2. WorkIsRunning' /\ OutIsLeft'
        BY <1>2 DEF Send, Free
      <3> QED
        BY <3>1, <3>2
    <2>2. CASE status = "draft"
      <3>1. status' = "sent" /\ seen' = seen /\ \A m \in Members : seen[m] = 0
        BY <1>2, <2>2 DEF Send
      <3>2. \A u \in Tasks : task'[u].left = {} /\ task'[u].out = NoMember
                             /\ task'[u].phase # "running"
        BY <1>2, <2>2 DEF Send
      <3> QED
        BY <3>1, <3>2
    <2> QED
      BY <2>1, <2>2
  <1>3. ASSUME NEW t \in Tasks, NEW on \in BOOLEAN, Start(t, on)
        PROVE  Resuming'
    <2>1. NothingYet' /\ WorkIsRunning' /\ OutIsLeft'
      BY <1>3 DEF Start
    <2>2. OneRuns'
      BY <1>3 DEF Start
    <2>3. LeftIsUnsent'
      <3>1. rows' = rows /\ (doubled => doubled')
        BY <1>3 DEF Start
      <3>2. \A u \in Tasks \ {t} : task'[u] = task[u]
        BY <1>3 DEF Start
      <3>3. \A n \in task'[t].left : rows[n].yes = 0
        <4>1. CASE on
          <5>1. task'[t].left = reach \ AlreadySent
            BY <1>3, <4>1 DEF Start
          <5> QED
            BY <5>1 DEF AlreadySent
        <4>2. CASE ~on
          BY <1>3, <4>2 DEF Start
        <4> QED
          BY <4>1, <4>2
      <3> QED
        BY <3>1, <3>2, <3>3
    <2>4. UnsentIsUnseen'
      BY <1>3 DEF Start
    <2> QED
      BY <2>1, <2>2, <2>3, <2>4
  <1>4. ASSUME NEW t \in Tasks, NEW m \in Members, NEW taken \in BOOLEAN, Mail(t, m, taken)
        PROVE  Resuming'
    BY <1>4 DEF Mail
  <1>5. ASSUME NEW t \in Tasks, Record(t)
        PROVE  Resuming'
    <2> DEFINE m == task[t].out
    <2>1. m \in Members /\ m \in task[t].left /\ task[t].phase = "running"
      BY <1>5 DEF Record
    <2>2. /\ \A n \in Members \ {m} : rows'[n] = rows[n] /\ seen'[n] = seen[n]
          /\ rows'[m].yes + rows'[m].no = rows[m].yes + rows[m].no
          /\ status' = status /\ doubled' = doubled
      BY <1>5 DEF Record, Written
    <2>3. NothingYet'
      BY <1>5, <2>1, <2>2 DEF Record
    <2>4. WorkIsRunning' /\ OutIsLeft' /\ OneRuns'
      BY <1>5 DEF Record
    <2>5. LeftIsUnsent'
      <3>1. \A u \in Tasks \ {t} : task'[u] = task[u]
        BY <1>5 DEF Record
      <3>2. task'[t].left = task[t].left \ {m}
        BY <1>5 DEF Record
      <3>3. doubled \/ \A u \in Tasks \ {t} : task[u].left = {}
        BY <2>1
      <3>4. CASE doubled
        BY <2>2, <3>4
      <3>5. CASE ~doubled
        <4>1. \A n \in task'[t].left : rows'[n].yes = 0
          BY <2>2, <3>2, <3>5
        <4>2. \A u \in Tasks \ {t} : task'[u].left = {}
          BY <3>1, <3>3, <3>5
        <4> QED
          BY <4>1, <4>2
      <3> QED
        BY <3>4, <3>5
    <2>6. UnsentIsUnseen'
      <3>1. CASE doubled
        BY <2>2, <3>1
      <3>2. ASSUME ~doubled
            PROVE  rows[m].yes = 0
        BY <2>1, <3>2
      <3>3. CASE ~doubled /\ task[t].taken
        <4>1. rows'[m].yes = rows[m].no
          BY <1>5, <2>1, <3>2, <3>3 DEF Record, Written
        <4>3. seen' = [seen EXCEPT ![m] = IF seen[m] < 2 THEN seen[m] + 1 ELSE seen[m]]
          BY <1>5, <3>3 DEF Record
        <4>4. HasRow(m) => seen[m] = 0 /\ rows[m].no > 0
          BY <2>1, <3>2, <3>3
        <4>2. HasRow(m) => seen'[m] <= 1 /\ rows'[m].yes > 0
          BY <2>1, <4>1, <4>3, <4>4
        <4> QED
          BY <2>1, <2>2, <4>2
      <3>4. CASE ~doubled /\ ~task[t].taken
        <4>1. seen' = seen
          BY <1>5, <3>4 DEF Record
        <4> QED
          BY <2>1, <2>2, <3>2, <3>4, <4>1
      <3> QED
        BY <3>1, <3>3, <3>4
    <2> QED
      BY <2>3, <2>4, <2>5, <2>6
  <1>6. ASSUME NEW t \in Tasks, Complete(t) \/ Fail(t) \/ Kill(t)
        PROVE  Resuming'
    <2>1. /\ task[t].phase = "running"
          /\ \A u \in Tasks \ {t} : task'[u] = task[u]
          /\ task'[t].phase # "running" /\ task'[t].left = {} /\ task'[t].out = NoMember
          /\ UNCHANGED <<status, rows, seen, doubled>>
      BY <1>6, DropsTask
    <2>2. status # "draft"
      BY <2>1
    <2>3. \A u \in Tasks : task'[u].phase # "running" =>
                             task'[u].left = {} /\ task'[u].out = NoMember
      BY <2>1
    <2>6. \A u \in Tasks : task'[u].out # NoMember => task'[u].out \in task'[u].left
      BY <2>1
    <2>7. NothingYet'
      BY <2>1, <2>2
    <2>4. OneRuns'
      BY <2>1
    <2>5. LeftIsUnsent' /\ UnsentIsUnseen'
      BY <2>1
    <2> QED
      BY <2>3, <2>4, <2>5, <2>6, <2>7
  <1>7. ASSUME NEW t \in Tasks, NEW u \in Tasks, Redeliver(t, u)
        PROVE  Resuming'
    <2>1. /\ task[t].phase = "running"
          /\ \A v \in Tasks \ {u} : task'[v] = task[v]
          /\ task'[u].phase = "queued" /\ task'[u].left = {} /\ task'[u].out = NoMember
          /\ UNCHANGED <<status, rows, seen, doubled>>
      BY <1>7 DEF Redeliver
    <2> QED
      BY <2>1
  <1>8. ASSUME NEW q \in Requests, NEW audience \in SUBSET Members, Resolve(q, audience)
        PROVE  UNCHANGED <<status, rows, task, seen, doubled>>
    BY <1>8 DEF Resolve
  <1>9. ASSUME NEW m \in Members, Turn(m)
        PROVE  UNCHANGED <<status, rows, task, seen, doubled>>
    BY <1>9 DEF Turn
  <1>10. CASE UNCHANGED vars
    BY <1>1, <1>10 DEF vars
  <1> QED
    BY <1>1, <1>2, <1>3, <1>4, <1>5, <1>6, <1>7, <1>8, <1>9, <1>10 DEF Next, Run

\* The inductive invariant: the types, that a mail goes before its mark, and what a delivery
\* has left against the rows and the mails seen through.
AnnouncementsInv == TypeOK /\ OutIsMailed /\ SentWasMailed /\ Resuming

\* It holds of every reachable state, with any number of faults and retries.
THEOREM AnnouncementsInductive == Spec => []AnnouncementsInv
  <1>1. Init => AnnouncementsInv
    BY TypeInit DEF Init, AnnouncementsInv, NoTask, Idle, OutIsMailed, SentWasMailed, AlreadySent,
       Resuming, NothingYet, WorkIsRunning, OutIsLeft, OneRuns, LeftIsUnsent, UnsentIsUnseen,
       HasRow
  <1>2. AnnouncementsInv /\ [Next]_vars => AnnouncementsInv'
    BY TypeNext, MailedNext, ResumingNext DEF AnnouncementsInv
  <1> QED
    BY <1>1, <1>2, PTL DEF Spec

\* Every column keeps a value of its kind, and a delivery runs for members that exist.
THEOREM AnnouncementsTyped == Spec => []TypeOK
  <1>1. AnnouncementsInv => TypeOK
    BY DEF AnnouncementsInv
  <1> QED
    BY <1>1, AnnouncementsInductive, PTL

\* A row that says sent has a mail the transport took, through retries, crashes and second
\* deliveries of the task.
THEOREM SentOnlyMailed == Spec => []SentWasMailed
  <1>1. AnnouncementsInv => SentWasMailed
    BY DEF AnnouncementsInv
  <1> QED
    BY <1>1, AnnouncementsInductive, PTL

\* A retry of the task resumes: no recipient is mailed again after a mail seen through to its
\* commit, unless it was sent twice or two deliveries ran at once.
THEOREM RetryResumes == Spec => []MailedOnce
  <1>1. AnnouncementsInv => MailedOnce
    BY DEF AnnouncementsInv, Resuming, UnsentIsUnseen, MailedOnce
  <1> QED
    BY <1>1, AnnouncementsInductive, PTL
==============================================================================
