---------------------------- MODULE Announcements ----------------------------
(***************************************************************************)
(* One announcement, from the draft to its e-mails: the recipients noted   *)
(* when it is sent, and the task that mails them afterwards, is retried    *)
(* after an exception and delivered again after a worker dies.             *)
(*                                                                         *)
(* The send request reads and commits in two steps: it takes no lock. The  *)
(* task resolves its audience again when it starts, mails one member at a  *)
(* time and commits each outcome. The wording, the in-app notification     *)
(* each member gets with the recipient row, and its being read are left    *)
(* out.                                                                    *)
(***************************************************************************)
EXTENDS Naturals, FiniteSets

CONSTANTS
  Members,
  Requests,     \* 1 .. n: the requests to send it, in the order they come
  Tasks,        \* 1 .. n: the deliveries of its task, in the order they are made
  MaxRetries,   \* max_retries of send_announcement_task
  MaxLost,      \* bound: workers killed and tasks delivered twice
  MaxTurns,     \* bound: members joining, leaving, opting out and getting an address
  NoMember, NoSet

ASSUME RetriesAreCounted == {MaxRetries, MaxLost, MaxTurns} \subseteq Nat
ASSUME InOrder           == Requests \cup Tasks \subseteq Nat
ASSUME NobodyIsNoMember  == NoMember \notin Members

VARIABLES
  status,       \* announcements.status
  reach,        \* the members of the audience with an address and no opt-out
  rows,         \* the member's recipient rows, by email_sent
  request,      \* the audience a request to send has resolved
  task,         \* the task's deliveries: phase, retries, who is left, whose mail is out
  mailed,       \* external: the members for whom the transport has taken a mail
  seen,         \* auxiliary: a member's mails taken and seen through to the commit, up to 2
  lost,         \* workers killed and tasks delivered twice, for MaxLost
  turns,        \* members' changes, for MaxTurns
  doubled       \* auxiliary: it was sent twice, or two deliveries ran at once

peopleVars == <<reach, turns>>
mailVars == <<mailed, seen>>
vars == <<status, rows, request, task, peopleVars, mailVars, lost, doubled>>

\* A delivery that holds nothing: none yet, queued, ended, or given up.
Idle(phase, retries) ==
  [phase |-> phase, retries |-> retries, left |-> {}, out |-> NoMember, taken |-> FALSE]
NoTask == Idle("none", 0)

Free(t) == task[t].phase = "none" /\ \A u \in Tasks : u < t => task[u].phase # "none"
HasRow(m) == rows[m].yes + rows[m].no > 0

\* Whom the task skips: those with a row that says the mail went out.
AlreadySent == {m \in Members : rows[m].yes > 0}

------------------------------------------------------------------------------

\* send_announcement, up to its commit: only a draft, and only to somebody. The audience has
\* those as well whom no mail reaches.
Resolve(q, audience) ==
  /\ request[q] = NoSet /\ \A p \in Requests : p < q => request[p] # NoSet
  /\ status = "draft"
  /\ reach \subseteq audience /\ audience # {}
  /\ request' = [request EXCEPT ![q] = audience]
  /\ UNCHANGED <<status, rows, task, peopleVars, mailVars, lost, doubled>>

\* The commit, and the task enqueued after it, best effort. Each request adds its rows.
Send(q, t) ==
  /\ request[q] # NoSet /\ request[q] # {}
  /\ status' = "sent"
  /\ rows' = [m \in Members |-> IF m \in request[q] THEN [rows[m] EXCEPT !.no = @ + 1]
                                ELSE rows[m]]
  /\ request' = [request EXCEPT ![q] = {}]
  /\ Free(t)
  /\ \E enqueued \in BOOLEAN :
       task' = IF enqueued THEN [task EXCEPT ![t] = Idle("queued", 0)] ELSE task
  /\ doubled' = (doubled \/ status = "sent")
  /\ UNCHANGED <<peopleVars, mailVars, lost>>

------------------------------------------------------------------------------

\* Mutant: a retry starts again with everybody.
StartOver(t, on) ==
  /\ task[t].phase = "queued"
  /\ task' = [task EXCEPT ![t] = IF on THEN [task[t] EXCEPT !.phase = "running", !.left = reach]
                                 ELSE Idle("done", 0)]
  /\ doubled' = (doubled \/ \E u \in Tasks \ {t} : task[u].phase = "running")
  /\ UNCHANGED <<status, rows, request, peopleVars, mailVars, lost>>

\* send_announcement_task: the audience of now, but for those whose row says sent; nothing
\* where the club has the template switched off.
Start(t, on) ==
  /\ task[t].phase = "queued"
  /\ task' = [task EXCEPT ![t] =
       IF on THEN [task[t] EXCEPT !.phase = "running", !.left = reach \ AlreadySent]
       ELSE Idle("done", 0)]
  /\ doubled' = (doubled \/ \E u \in Tasks \ {t} : task[u].phase = "running")
  /\ UNCHANGED <<status, rows, request, peopleVars, mailVars, lost>>

\* send_announcement_email: the transport takes the mail, or refuses it, or the funnel drops
\* it because the template is off by now or the member has opted out since.
Mail(t, m, taken) ==
  /\ task[t].phase = "running" /\ task[t].out = NoMember
  /\ m \in task[t].left
  /\ mailed' = IF taken THEN mailed \cup {m} ELSE mailed
  /\ task' = [task EXCEPT ![t] = [task[t] EXCEPT !.out = m, !.taken = taken]]
  /\ UNCHANGED <<status, rows, request, peopleVars, seen, lost, doubled>>

\* Mutant: the row says the mail went out whatever the transport said.
WrittenAsSent(row, taken) == [yes |-> row.yes + row.no, no |-> 0]

\* The member's rows all get the outcome.
Written(row, taken) ==
  IF taken THEN [yes |-> row.yes + row.no, no |-> 0] ELSE [yes |-> 0, no |-> row.yes + row.no]

\* The outcome is committed. A member without a row has nothing to write it to.
Record(t) ==
  LET m == task[t].out IN
  /\ task[t].phase = "running" /\ m # NoMember
  /\ rows' = [rows EXCEPT ![m] = Written(@, task[t].taken)]
  /\ task' = [task EXCEPT ![t] =
       [task[t] EXCEPT !.left = @ \ {m}, !.out = NoMember, !.taken = FALSE]]
  /\ seen' = [seen EXCEPT ![m] = IF task[t].taken /\ @ < 2 THEN @ + 1 ELSE @]
  /\ UNCHANGED <<status, request, peopleVars, mailed, lost, doubled>>

Complete(t) ==
  /\ task[t].phase = "running" /\ task[t].left = {}
  /\ task' = [task EXCEPT ![t] = Idle("done", 0)]
  /\ UNCHANGED <<status, rows, request, peopleVars, mailVars, lost, doubled>>

\* Mutant: one retry too many.
RetryOnceMore(t) ==
  LET again == task[t].retries <= MaxRetries IN
  /\ task[t].phase = "running"
  /\ task' = [task EXCEPT ![t] = IF again THEN Idle("queued", @.retries + 1)
                                 ELSE Idle("failed", 0)]
  /\ UNCHANGED <<status, rows, request, peopleVars, mailVars, lost, doubled>>

\* Mutant: every exception is retried, the last one included.
RetryForever(t) ==
  /\ task[t].phase = "running"
  /\ task' = [task EXCEPT ![t] = Idle("queued", task[t].retries)]
  /\ UNCHANGED <<status, rows, request, peopleVars, mailVars, lost, doubled>>

\* An exception before, after or instead of the commit: the task is retried, or gives up.
Fail(t) ==
  LET again == task[t].retries < MaxRetries IN
  /\ task[t].phase = "running"
  /\ task' = [task EXCEPT ![t] = IF again THEN Idle("queued", @.retries + 1)
                                 ELSE Idle("failed", 0)]
  /\ UNCHANGED <<status, rows, request, peopleVars, mailVars, lost, doubled>>

\* task_acks_late: a worker that dies leaves the task to be delivered again. Where only the
\* process that runs it dies, the worker acknowledges it, and it is gone.
Kill(t) ==
  /\ lost < MaxLost
  /\ task[t].phase = "running"
  /\ lost' = lost + 1
  /\ task' \in {[task EXCEPT ![t] = Idle("queued", task[t].retries)],
                [task EXCEPT ![t] = Idle("failed", 0)]}
  /\ UNCHANGED <<status, rows, request, peopleVars, mailVars, doubled>>

\* The broker takes a delivery that runs too long for lost, and delivers it to another worker.
Redeliver(t, u) ==
  /\ lost < MaxLost
  /\ task[t].phase = "running" /\ Free(u)
  /\ lost' = lost + 1
  /\ task' = [task EXCEPT ![u] = Idle("queued", task[t].retries)]
  /\ UNCHANGED <<status, rows, request, peopleVars, mailVars, doubled>>

------------------------------------------------------------------------------

\* Members join, leave, opt out and get an address.
Turn(m) ==
  /\ turns < MaxTurns
  /\ turns' = turns + 1
  /\ reach' = (reach \ {m}) \cup ({m} \ reach)
  /\ UNCHANGED <<status, rows, request, task, mailVars, lost, doubled>>

Init ==
  /\ status = "draft"
  /\ reach \in SUBSET Members
  /\ rows = [m \in Members |-> [yes |-> 0, no |-> 0]]
  /\ request = [q \in Requests |-> NoSet]
  /\ task = [t \in Tasks |-> NoTask]
  /\ mailed = {}
  /\ seen = [m \in Members |-> 0]
  /\ lost = 0
  /\ turns = 0
  /\ doubled = FALSE

Run(t) ==
  \/ \E on \in BOOLEAN : Start(t, on)
  \/ \E m \in Members, taken \in BOOLEAN : Mail(t, m, taken)
  \/ Record(t)
  \/ Complete(t)

Next ==
  \/ \E q \in Requests, audience \in SUBSET Members : Resolve(q, audience)
  \/ \E q \in Requests, t \in Tasks : Send(q, t)
  \/ \E t \in Tasks : Run(t) \/ Fail(t) \/ Kill(t) \/ \E u \in Tasks : Redeliver(t, u)
  \/ \E m \in Members : Turn(m)

\* A worker takes what is queued and goes on with what it runs.
Fairness == \A t \in Tasks : WF_vars(Run(t))

Spec == Init /\ [][Next]_vars /\ Fairness
------------------------------------------------------------------------------

TaskType ==
  [phase : {"none", "queued", "running", "done", "failed"}, retries : 0 .. MaxRetries,
   left : SUBSET Members, out : Members \cup {NoMember}, taken : BOOLEAN]

\* Types: rows are counted by their outcome, and a delivery runs for members that exist.
TypeOK ==
  /\ status \in {"draft", "sent"}
  /\ reach \subseteq Members
  /\ rows \in [Members -> [yes : Nat, no : Nat]]
  /\ request \in [Requests -> (SUBSET Members) \cup {NoSet}]
  /\ task \in [Tasks -> TaskType]
  /\ mailed \subseteq Members
  /\ seen \in [Members -> 0 .. 2]
  /\ lost \in 0 .. MaxLost
  /\ turns \in 0 .. MaxTurns
  /\ doubled \in BOOLEAN

\* What the administrator is told went out did go out: a row marked as sent has a mail the
\* transport took, through every retry, crash and second delivery.
SentWasMailed == AlreadySent \subseteq mailed

\* A retry resumes: no member with a recipient row is mailed again after a mail that was
\* seen through to its commit, unless it was sent twice or two deliveries ran at once. Only
\* the mail a crash or an exception cut off from its commit goes out again.
MailedOnce == \A m \in Members : doubled \/ ~HasRow(m) \/ seen[m] <= 1

\* The fan-out ends: a task that is queued completes or gives up, however it is interrupted.
FanOutEnds ==
  \A t \in Tasks : task[t].phase = "queued" ~> task[t].phase \in {"done", "failed"}
==============================================================================
