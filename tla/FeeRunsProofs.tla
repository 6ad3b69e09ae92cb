---------------------------- MODULE FeeRunsProofs ----------------------------
(***************************************************************************)
(* That a member is billed once for a period, and a billed period stays    *)
(* billed, and that FeeRuns implements PeriodLedger, for any number of     *)
(* members, frequencies and open transactions.                             *)
(*                                                                         *)
(* The argument follows a frequency that no two transactions have raced    *)
(* for. A run that found no row gets to write one only while there still   *)
(* is none, and keeps the others waiting until it commits; a run that      *)
(* found the row of a failed run, and fees by hand, are alone.             *)
(***************************************************************************)
EXTENDS FeeRuns, TLAPS

Pairs == Members \X Frequencies

\* A transaction raises what it reads for, and has the row written of what it is done with.
Shape(w) ==
  /\ w.checked # NoMember => w.checked \in w.people
  /\ w.freq = NoFrequency => w.people = {}
  /\ w.kind = "run" /\ w.freq # NoFrequency => w.freq \in w.rest
  /\ w.kind = "byhand" => w.freq # NoFrequency
  /\ \A f \in Frequencies : w.wrote[f] # "none" => w.kind = "run" /\ f \notin w.rest
  /\ \A m \in Members, f \in Frequencies : <<m, f>> \in w.mark => w.wrote[f] # "none"
  /\ w.mark \subseteq w.raised
  /\ \A m \in Members, f \in Frequencies :
       <<m, f>> \in w.raised => w.freq = f \/ w.wrote[f] # "none"

Shaped == \A s \in Sessions : Open(s) => Shape(work[s])

\* One transaction at most has written the row of a period, and where it is to record a
\* failure there was none.
OneWrites ==
  \A s, t \in Sessions, f \in Frequencies :
    Open(s) /\ Open(t) /\ work[s].wrote[f] # "none" /\ work[t].wrote[f] # "none" => s = t
FailureIsNew ==
  \A s \in Sessions, f \in Frequencies :
    Open(s) /\ work[s].wrote[f] = "failed" => log[f] = "none"

Active(s, f) == Open(s) /\ (work[s].freq = f \/ work[s].wrote[f] # "none")
Alone(s, f) == \A t \in Sessions : Active(t, f) => t = s

\* Who raises the fees of a period by hand, or again after a failure, is alone.
Apart ==
  \A s \in Sessions, f \in Frequencies : f \notin raced /\ Active(s, f) =>
    /\ work[s].kind = "byhand" => Alone(s, f)
    /\ work[s].kind = "run" /\ work[s].freq = f /\ work[s].found = "failed" =>
         Alone(s, f) /\ log[f] = "failed"
    /\ work[s].wrote[f] # "none" =>
         /\ log[f] \in {"none", "failed"}
         /\ log[f] = "failed" => Alone(s, f)
         /\ log[f] = "none" => work[s].wrote[f] # "kept"

\* The member has no fee yet, or the run has found no row and will not get to write one.
Unbilled(s, m, f) ==
  \/ fees[m][f] = 0
  \/ work[s].kind = "run" /\ work[s].freq = f /\ work[s].found = "none" /\ log[f] # "none"

Raises(s, m, f) ==
  \/ <<m, f>> \in work[s].raised
  \/ work[s].freq = f /\ work[s].checked = m

\* Whom a transaction raises a fee for has none.
RaisesNew ==
  \A s \in Sessions, m \in Members, f \in Frequencies :
    f \notin raced /\ Open(s) /\ Raises(s, m, f) => Unbilled(s, m, f)

\* The inductive invariant.
FeeRunsInv ==
  TypeOK /\ Shaped /\ OneWrites /\ FailureIsNew /\ Apart /\ RaisesNew /\ BilledOnce

------------------------------------------------------------------------------

\* The bounds are numbers.
LEMMA BoundsAreNats == MaxRuns \in Nat /\ MaxChanges \in Nat
  BY BoundsAreCounts

\* A session is open exactly when it has work of the type.
LEMMA OpenIsWork ==
  ASSUME TypeOK, NEW s \in Sessions
  PROVE  Open(s) <=> work[s] \in WorkType
  BY IdleIsNoWork DEF TypeOK, Open

\* What each step leaves in its transaction, and that the others stay.
LEMMA WorkStep ==
  ASSUME work \in [Sessions -> WorkType \cup {Idle}], NEW s \in Sessions, NEW w,
         w \in WorkType \cup {Idle}, work' = [work EXCEPT ![s] = w]
  PROVE  /\ work'[s] = w
         /\ \A t \in Sessions \ {s} : work'[t] = work[t]
         /\ work' \in [Sessions -> WorkType \cup {Idle}]
  OBVIOUS

\* A transaction that begins is typed.
LEMMA BlankIsWork ==
  /\ \A due \in SUBSET Frequencies : [Blank EXCEPT !.rest = due] \in WorkType
  /\ \A f \in Frequencies :
       [Blank EXCEPT !.kind = "byhand", !.freq = f, !.people = Members] \in WorkType
  <1>1. [f \in Frequencies |-> "none"] \in [Frequencies -> {"none", "kept", "success", "failed"}]
    OBVIOUS
  <1> QED
    BY <1>1 DEF Blank, WorkType

\* The initial state is typed.
LEMMA TypeInit == Init => TypeOK
  <1> SUFFICES ASSUME Init PROVE TypeOK
    OBVIOUS
  <1>1. fees \in [Members -> [Frequencies -> Nat]]
    BY DEF Init
  <1>2. log \in [Frequencies -> {"none", "success", "failed"}] /\ work \in [Sessions -> WorkType \cup {Idle}]
    BY DEF Init
  <1> QED
    BY <1>1, <1>2, BoundsAreNats DEF Init, TypeOK

\* The step of one transaction, by what it leaves of it.
LEMMA BeginRunWork ==
  ASSUME TypeOK, NEW s \in Sessions, NEW due \in SUBSET Frequencies, BeginRun(s, due)
  PROVE  \E w \in WorkType : /\ work' = [work EXCEPT ![s] = w]
                             /\ w = [Blank EXCEPT !.rest = due]
  BY BlankIsWork DEF BeginRun

\* Fees by hand begin with everybody to look at.
LEMMA BeginByHandWork ==
  ASSUME TypeOK, NEW s \in Sessions, NEW f \in Frequencies, BeginByHand(s, f)
  PROVE  \E w \in WorkType : /\ work' = [work EXCEPT ![s] = w]
                             /\ w = [Blank EXCEPT !.kind = "byhand", !.freq = f,
                                                  !.people = Members]
  BY BlankIsWork DEF BeginByHand

\* A run starts a frequency, or passes over a billed one.
LEMMA StartFrequencyWork ==
  ASSUME TypeOK, NEW s \in Sessions, NEW f \in Frequencies, StartFrequency(s, f)
  PROVE  \E w \in WorkType : /\ work' = [work EXCEPT ![s] = w]
                             /\ w = IF Billed(f) THEN [work[s] EXCEPT !.rest = @ \ {f}]
                                    ELSE [work[s] EXCEPT !.freq = f, !.found = log[f],
                                          !.people = {m \in Members : plan[m] = f},
                                          !.mark = work[s].raised, !.result = "success"]
  <1> DEFINE w == IF Billed(f) THEN [work[s] EXCEPT !.rest = @ \ {f}]
                  ELSE [work[s] EXCEPT !.freq = f, !.found = log[f],
                                       !.people = {m \in Members : plan[m] = f},
                                       !.mark = work[s].raised, !.result = "success"]
  <1>1. work[s] \in WorkType
    BY OpenIsWork DEF StartFrequency
  <1>2. w \in WorkType
    BY <1>1 DEF WorkType, TypeOK, Billed
  <1>3. work' = [work EXCEPT ![s] = w]
    BY DEF StartFrequency
  <1> QED
    BY <1>2, <1>3

\* A member is set aside, or is about to be billed.
LEMMA CheckWork ==
  ASSUME TypeOK, NEW s \in Sessions, NEW m \in Members, NEW other \in BOOLEAN, Check(s, m, other)
  PROVE  \E w \in WorkType : /\ work' = [work EXCEPT ![s] = w]
                             /\ w = IF fees[m][work[s].freq] > 0 \/ other
                                    THEN [work[s] EXCEPT !.people = @ \ {m}]
                                    ELSE [work[s] EXCEPT !.checked = m]
  <1>1. work[s] \in WorkType
    BY OpenIsWork DEF Check
  <1>2. /\ [work[s] EXCEPT !.people = @ \ {m}] \in WorkType
        /\ [work[s] EXCEPT !.checked = m] \in WorkType
    BY <1>1 DEF WorkType
  <1> QED
    BY <1>2 DEF Check

\* A fee is raised for whoever was checked.
LEMMA RaiseFeeWork ==
  ASSUME TypeOK, Shaped, NEW s \in Sessions, RaiseFee(s)
  PROVE  \E w \in WorkType : /\ work' = [work EXCEPT ![s] = w]
                             /\ w = [work[s] EXCEPT !.checked = NoMember,
                                       !.people = @ \ {work[s].checked},
                                       !.raised = @ \cup {<<work[s].checked, work[s].freq>>}]
  <1> DEFINE w == [work[s] EXCEPT !.checked = NoMember,
                                  !.people = @ \ {work[s].checked},
                                  !.raised = @ \cup {<<work[s].checked, work[s].freq>>}]
  <1>1. work[s] \in WorkType /\ Shape(work[s])
    BY OpenIsWork DEF RaiseFee, Shaped
  <1>2. <<work[s].checked, work[s].freq>> \in Members \X Frequencies
    BY <1>1 DEF RaiseFee, WorkType, Shape
  <1>3. w \in WorkType
    BY <1>1, <1>2 DEF WorkType
  <1> QED
    BY <1>3 DEF RaiseFee

\* A failure leaves what the savepoint found.
LEMMA FailFrequencyWork ==
  ASSUME TypeOK, NEW s \in Sessions, FailFrequency(s)
  PROVE  \E w \in WorkType : /\ work' = [work EXCEPT ![s] = w]
                             /\ w = [work[s] EXCEPT !.people = {}, !.checked = NoMember,
                                       !.raised = work[s].mark, !.result = "failed"]
  <1>1. work[s] \in WorkType
    BY OpenIsWork DEF FailFrequency
  <1>2. [work[s] EXCEPT !.people = {}, !.checked = NoMember,
                        !.raised = work[s].mark, !.result = "failed"] \in WorkType
    BY <1>1 DEF WorkType
  <1> QED
    BY <1>2 DEF FailFrequency

\* The outcome of a frequency is written, and the run goes on to the next.
LEMMA LogRunWork ==
  ASSUME TypeOK, NEW s \in Sessions, LogRun(s)
  PROVE  \E w \in WorkType :
           /\ work' = [work EXCEPT ![s] = w]
           /\ w = [work[s] EXCEPT
                     !.wrote = [work[s].wrote EXCEPT ![work[s].freq] = Outcome(s)],
                     !.freq = NoFrequency, !.rest = @ \ {work[s].freq}]
  <1>1. work[s] \in WorkType
    BY OpenIsWork DEF LogRun
  <1>2. Outcome(s) \in {"kept", "success", "failed"}
    BY <1>1 DEF Outcome, WorkType
  <1>3. [work[s].wrote EXCEPT ![work[s].freq] = Outcome(s)]
          \in [Frequencies -> {"none", "kept", "success", "failed"}]
    BY <1>1, <1>2 DEF WorkType
  <1>4. [work[s] EXCEPT !.wrote = [work[s].wrote EXCEPT ![work[s].freq] = Outcome(s)],
                        !.freq = NoFrequency, !.rest = @ \ {work[s].freq}] \in WorkType
    BY <1>1, <1>3 DEF WorkType
  <1> QED
    BY <1>4 DEF LogRun

\* The types hold: who holds the lock of the numbers is open, and has raised a fee.
LEMMA TypeNext ==
  ASSUME TypeOK, Shaped, [Next]_vars
  PROVE  TypeOK'
  <1>0. work \in [Sessions -> WorkType \cup {Idle}] /\ Idle \notin WorkType
    BY IdleIsNoWork DEF TypeOK
  <1> DEFINE Locked == number' # Free => Open(number)' /\ work'[number'].raised # {}
  <1>1. ASSUME NEW s \in Sessions, NEW w \in WorkType, work' = [work EXCEPT ![s] = w],
               number' = number, Open(s) => w.raised = work[s].raised
        PROVE  work' \in [Sessions -> WorkType \cup {Idle}] /\ Locked
    BY <1>0, <1>1, NothingIsNothing DEF TypeOK, Open
  <1>2. ASSUME NEW s \in Sessions, NEW due \in SUBSET Frequencies, BeginRun(s, due)
        PROVE  TypeOK'
    <2>1. PICK w \in WorkType : work' = [work EXCEPT ![s] = w]
      BY <1>2, BeginRunWork
    <2>2. work' \in [Sessions -> WorkType \cup {Idle}] /\ Locked
      BY <1>1, <1>2, <2>1 DEF BeginRun
    <2> QED
      BY <1>2, <2>2, BoundsAreNats DEF BeginRun, TypeOK
  <1>3. ASSUME NEW s \in Sessions, NEW f \in Frequencies, BeginByHand(s, f)
        PROVE  TypeOK'
    <2>1. PICK w \in WorkType : work' = [work EXCEPT ![s] = w]
      BY <1>3, BeginByHandWork
    <2>2. work' \in [Sessions -> WorkType \cup {Idle}] /\ Locked
      BY <1>1, <1>3, <2>1 DEF BeginByHand
    <2>3. raced' \subseteq Frequencies
      BY <1>3 DEF BeginByHand, Race, TypeOK
    <2> QED
      BY <1>3, <2>2, <2>3, BoundsAreNats DEF BeginByHand, TypeOK
  <1>4. ASSUME NEW s \in Sessions, NEW f \in Frequencies, StartFrequency(s, f)
        PROVE  TypeOK'
    <2>1. PICK w \in WorkType :
            /\ work' = [work EXCEPT ![s] = w]
            /\ w = IF Billed(f) THEN [work[s] EXCEPT !.rest = @ \ {f}]
                   ELSE [work[s] EXCEPT !.freq = f, !.found = log[f],
                                        !.people = {m \in Members : plan[m] = f},
                                        !.mark = work[s].raised, !.result = "success"]
      BY <1>4, StartFrequencyWork
    <2>2. work[s] \in WorkType
      BY <1>4, OpenIsWork DEF StartFrequency
    <2>3. w.raised = work[s].raised
      BY <2>1, <2>2 DEF WorkType
    <2>4. work' \in [Sessions -> WorkType \cup {Idle}] /\ Locked
      BY <1>1, <1>4, <2>1, <2>3 DEF StartFrequency
    <2>5. raced' \subseteq Frequencies
      BY <1>4 DEF StartFrequency, Race, TypeOK
    <2> QED
      BY <1>4, <2>4, <2>5 DEF StartFrequency, TypeOK
  <1>5. ASSUME NEW s \in Sessions, NEW m \in Members, NEW other \in BOOLEAN, Check(s, m, other)
        PROVE  TypeOK'
    <2>1. PICK w \in WorkType :
            /\ work' = [work EXCEPT ![s] = w]
            /\ w = IF fees[m][work[s].freq] > 0 \/ other
                   THEN [work[s] EXCEPT !.people = @ \ {m}]
                   ELSE [work[s] EXCEPT !.checked = m]
      BY <1>5, CheckWork
    <2>2. work[s] \in WorkType
      BY <1>5, OpenIsWork DEF Check
    <2>3. w.raised = work[s].raised
      BY <2>1, <2>2 DEF WorkType
    <2>4. work' \in [Sessions -> WorkType \cup {Idle}] /\ Locked
      BY <1>1, <1>5, <2>1, <2>3 DEF Check
    <2> QED
      BY <1>5, <2>4 DEF Check, TypeOK
  <1>6. ASSUME NEW s \in Sessions, RaiseFee(s)
        PROVE  TypeOK'
    <2>1. PICK w \in WorkType :
            /\ work' = [work EXCEPT ![s] = w]
            /\ w = [work[s] EXCEPT !.checked = NoMember,
                                   !.people = @ \ {work[s].checked},
                                   !.raised = @ \cup {<<work[s].checked, work[s].freq>>}]
      BY <1>6, RaiseFeeWork
    <2>2. work[s] \in WorkType
      BY <1>6, OpenIsWork DEF RaiseFee
    <2>3. w.raised # {}
      BY <2>1, <2>2 DEF WorkType
    <2>4. work' \in [Sessions -> WorkType \cup {Idle}] /\ work'[s] = w
      BY <1>0, <2>1
    <2>5. number' = s /\ Locked
      BY <1>0, <1>6, <2>3, <2>4 DEF RaiseFee, Open
    <2> QED
      BY <1>6, <2>4, <2>5 DEF RaiseFee, TypeOK
  <1>7. ASSUME NEW s \in Sessions, FailFrequency(s)
        PROVE  TypeOK'
    <2>1. PICK w \in WorkType :
            /\ work' = [work EXCEPT ![s] = w]
            /\ w = [work[s] EXCEPT !.people = {}, !.checked = NoMember,
                                   !.raised = work[s].mark, !.result = "failed"]
      BY <1>7, FailFrequencyWork
    <2>2. work[s] \in WorkType
      BY <1>7, OpenIsWork DEF FailFrequency
    <2>3. w.raised = work[s].mark
      BY <2>1, <2>2 DEF WorkType
    <2>4. /\ work' \in [Sessions -> WorkType \cup {Idle}] /\ work'[s] = w
          /\ \A t \in Sessions \ {s} : work'[t] = work[t]
      BY <1>0, <2>1
    <2>5. number' \in Sessions \cup {Free} /\ Locked
      BY <1>0, <1>7, <2>3, <2>4, NothingIsNothing DEF FailFrequency, TypeOK, Open
    <2> QED
      BY <1>7, <2>4, <2>5 DEF FailFrequency, TypeOK
  <1>8. ASSUME NEW s \in Sessions, LogRun(s)
        PROVE  TypeOK'
    <2>1. PICK w \in WorkType :
            /\ work' = [work EXCEPT ![s] = w]
            /\ w = [work[s] EXCEPT
                      !.wrote = [work[s].wrote EXCEPT ![work[s].freq] = Outcome(s)],
                      !.freq = NoFrequency, !.rest = @ \ {work[s].freq}]
      BY <1>8, LogRunWork
    <2>2. work[s] \in WorkType
      BY <1>8, OpenIsWork DEF LogRun
    <2>3. w.raised = work[s].raised
      BY <2>1, <2>2 DEF WorkType
    <2>4. work' \in [Sessions -> WorkType \cup {Idle}] /\ Locked
      BY <1>1, <1>8, <2>1, <2>3 DEF LogRun
    <2> QED
      BY <1>8, <2>4 DEF LogRun, TypeOK
  <1>9. ASSUME NEW s \in Sessions, Commit(s)
        PROVE  TypeOK'
    <2>1. work[s] \in WorkType
      BY <1>9, OpenIsWork DEF Commit
    <2>2. fees' \in [Members -> [Frequencies -> Nat]]
      BY <1>9 DEF Commit, TypeOK
    <2>3. log' \in [Frequencies -> {"none", "success", "failed"}]
      BY <1>9, <2>1 DEF Commit, TypeOK, WorkType
    <2>4. work' = [work EXCEPT ![s] = Idle] /\ number' = IF number = s THEN Free ELSE number
      BY <1>9 DEF Commit
    <2>5. work' \in [Sessions -> WorkType \cup {Idle}] /\ number' \in Sessions \cup {Free}
          /\ Locked
      BY <1>0, <2>4, NothingIsNothing DEF TypeOK, Open
    <2> QED
      BY <1>9, <2>2, <2>3, <2>5 DEF Commit, TypeOK
  <1>10. ASSUME NEW s \in Sessions, Rollback(s)
         PROVE  TypeOK'
    <2>1. work' = [work EXCEPT ![s] = Idle] /\ number' = IF number = s THEN Free ELSE number
      BY <1>10 DEF Rollback
    <2>2. work' \in [Sessions -> WorkType \cup {Idle}] /\ number' \in Sessions \cup {Free}
          /\ Locked
      BY <1>0, <2>1, NothingIsNothing DEF TypeOK, Open
    <2> QED
      BY <1>10, <2>2 DEF Rollback, TypeOK
  <1>11. ASSUME NEW m \in Members, NEW f \in Frequencies, ChangePlan(m, f)
         PROVE  TypeOK'
    BY <1>11, BoundsAreNats DEF ChangePlan, TypeOK, Open
  <1>12. ASSUME NEW m \in Members, NEW f \in Frequencies, CancelFee(m, f)
         PROVE  TypeOK'
    <2>1. fees' \in [Members -> [Frequencies -> Nat]]
      <3>1. fees[m][f] - 1 \in Nat
        BY <1>12 DEF CancelFee, TypeOK
      <3>2. [fees[m] EXCEPT ![f] = fees[m][f] - 1] \in [Frequencies -> Nat]
        BY <3>1 DEF TypeOK
      <3> QED
        BY <1>12, <3>2 DEF CancelFee, TypeOK
    <2> QED
      BY <1>12, <2>1, BoundsAreNats DEF CancelFee, TypeOK, Open
  <1>13. CASE UNCHANGED vars
    BY <1>13 DEF vars, TypeOK, Open
  <1> QED
    BY <1>2, <1>3, <1>4, <1>5, <1>6, <1>7, <1>8, <1>9, <1>10, <1>11, <1>12, <1>13 DEF Next, Step

\* A transaction keeps its shape.
LEMMA ShapedNext ==
  ASSUME TypeOK, Shaped, [Next]_vars
  PROVE  Shaped'
  <1>0. work \in [Sessions -> WorkType \cup {Idle}] /\ Idle \notin WorkType
    BY IdleIsNoWork DEF TypeOK
  <1>1. ASSUME NEW s \in Sessions, NEW w \in WorkType, Shape(w), work' = [work EXCEPT ![s] = w]
        PROVE  Shaped'
    BY <1>0, <1>1 DEF Shaped, Open
  <1>2. ASSUME NEW s \in Sessions, NEW due \in SUBSET Frequencies, BeginRun(s, due)
        PROVE  Shaped'
    <2>1. PICK w \in WorkType : /\ work' = [work EXCEPT ![s] = w]
                                /\ w = [Blank EXCEPT !.rest = due]
      BY <1>2, BeginRunWork
    <2>2. Shape(w)
      BY <2>1, NothingIsNothing DEF Shape, Blank
    <2> QED
      BY <1>1, <2>1, <2>2
  <1>3. ASSUME NEW s \in Sessions, NEW f \in Frequencies, BeginByHand(s, f)
        PROVE  Shaped'
    <2>1. PICK w \in WorkType : /\ work' = [work EXCEPT ![s] = w]
                                /\ w = [Blank EXCEPT !.kind = "byhand", !.freq = f,
                                                     !.people = Members]
      BY <1>3, BeginByHandWork
    <2>2. Shape(w)
      BY <2>1, NothingIsNothing DEF Shape, Blank
    <2> QED
      BY <1>1, <2>1, <2>2
  <1>4. ASSUME NEW s \in Sessions, NEW f \in Frequencies, StartFrequency(s, f)
        PROVE  Shaped'
    <2>1. PICK w \in WorkType :
            /\ work' = [work EXCEPT ![s] = w]
            /\ w = IF Billed(f) THEN [work[s] EXCEPT !.rest = @ \ {f}]
                   ELSE [work[s] EXCEPT !.freq = f, !.found = log[f],
                                        !.people = {m \in Members : plan[m] = f},
                                        !.mark = work[s].raised, !.result = "success"]
      BY <1>4, StartFrequencyWork
    <2>2. /\ work[s] \in WorkType /\ Shape(work[s])
          /\ work[s].freq = NoFrequency /\ f \in work[s].rest
      BY <1>4, OpenIsWork DEF StartFrequency, Shaped
    <2>3. work[s].checked = NoMember /\ work[s].kind = "run"
      BY <2>2 DEF Shape, WorkType
    <2>4. CASE Billed(f)
      <3>1. Shape(w)
        BY <2>1, <2>2, <2>3, <2>4 DEF Shape, WorkType
      <3> QED
        BY <1>1, <2>1, <3>1
    <2>5. CASE ~Billed(f)
      <3>1. /\ w.checked = NoMember /\ w.freq = f /\ w.kind = "run" /\ w.rest = work[s].rest
            /\ w.wrote = work[s].wrote /\ w.mark = work[s].raised /\ w.raised = work[s].raised
        BY <2>1, <2>2, <2>3, <2>5 DEF WorkType
      <3>2. Shape(w)
        BY <2>2, <3>1, NothingIsNothing DEF Shape
      <3> QED
        BY <1>1, <2>1, <3>2
    <2> QED
      BY <2>4, <2>5
  <1>5. ASSUME NEW s \in Sessions, NEW m \in Members, NEW other \in BOOLEAN, Check(s, m, other)
        PROVE  Shaped'
    <2>1. PICK w \in WorkType :
            /\ work' = [work EXCEPT ![s] = w]
            /\ w = IF fees[m][work[s].freq] > 0 \/ other
                   THEN [work[s] EXCEPT !.people = @ \ {m}]
                   ELSE [work[s] EXCEPT !.checked = m]
      BY <1>5, CheckWork
    <2>2. /\ work[s] \in WorkType /\ Shape(work[s])
          /\ work[s].checked = NoMember /\ m \in work[s].people
      BY <1>5, OpenIsWork DEF Check, Shaped
    <2>3. Shape(w)
      BY <2>1, <2>2 DEF Shape, WorkType
    <2> QED
      BY <1>1, <2>1, <2>3
  <1>6. ASSUME NEW s \in Sessions, RaiseFee(s)
        PROVE  Shaped'
    <2>1. PICK w \in WorkType :
            /\ work' = [work EXCEPT ![s] = w]
            /\ w = [work[s] EXCEPT !.checked = NoMember,
                                   !.people = @ \ {work[s].checked},
                                   !.raised = @ \cup {<<work[s].checked, work[s].freq>>}]
      BY <1>6, RaiseFeeWork
    <2>2. work[s] \in WorkType /\ Shape(work[s])
      BY <1>6, OpenIsWork DEF RaiseFee, Shaped
    <2>3. Shape(w)
      BY <2>1, <2>2 DEF Shape, WorkType
    <2> QED
      BY <1>1, <2>1, <2>3
  <1>7. ASSUME NEW s \in Sessions, FailFrequency(s)
        PROVE  Shaped'
    <2>1. PICK w \in WorkType :
            /\ work' = [work EXCEPT ![s] = w]
            /\ w = [work[s] EXCEPT !.people = {}, !.checked = NoMember,
                                   !.raised = work[s].mark, !.result = "failed"]
      BY <1>7, FailFrequencyWork
    <2>2. work[s] \in WorkType /\ Shape(work[s])
      BY <1>7, OpenIsWork DEF FailFrequency, Shaped
    <2>3. Shape(w)
      BY <2>1, <2>2 DEF Shape, WorkType
    <2> QED
      BY <1>1, <2>1, <2>3
  <1>8. ASSUME NEW s \in Sessions, LogRun(s)
        PROVE  Shaped'
    <2>1. PICK w \in WorkType :
            /\ work' = [work EXCEPT ![s] = w]
            /\ w = [work[s] EXCEPT
                      !.wrote = [work[s].wrote EXCEPT ![work[s].freq] = Outcome(s)],
                      !.freq = NoFrequency, !.rest = @ \ {work[s].freq}]
      BY <1>8, LogRunWork
    <2>2. /\ work[s] \in WorkType /\ Shape(work[s]) /\ work[s].kind = "run"
          /\ work[s].freq # NoFrequency /\ work[s].people = {} /\ work[s].checked = NoMember
      BY <1>8, OpenIsWork DEF LogRun, Shaped, Generated
    <2>3. Outcome(s) # "none"
      BY <2>2 DEF Outcome, WorkType
    <2>4. /\ w.checked = NoMember /\ w.people = {} /\ w.kind = "run" /\ w.freq = NoFrequency
          /\ w.rest = work[s].rest \ {work[s].freq}
          /\ w.mark = work[s].mark /\ w.raised = work[s].raised
      BY <2>1, <2>2 DEF WorkType
    <2>5. /\ w.wrote[work[s].freq] # "none"
          /\ \A f \in Frequencies \ {work[s].freq} : w.wrote[f] = work[s].wrote[f]
      BY <2>1, <2>2, <2>3 DEF WorkType
    <2>6. Shape(w)
      BY <2>2, <2>4, <2>5 DEF Shape
    <2> QED
      BY <1>1, <2>1, <2>6
  <1>9. ASSUME NEW s \in Sessions, work' = [work EXCEPT ![s] = Idle]
        PROVE  Shaped'
    BY <1>0, <1>9 DEF Shaped, Open
  <1>10. ASSUME work' = work
         PROVE  Shaped'
    BY <1>10 DEF Shaped, Open
  <1>11. ASSUME NEW m \in Members, NEW f \in Frequencies, ChangePlan(m, f) \/ CancelFee(m, f)
         PROVE  Shaped'
    BY <1>10, <1>11 DEF ChangePlan, CancelFee
  <1>12. CASE UNCHANGED vars
    BY <1>10, <1>12 DEF vars
  <1>13. ASSUME NEW s \in Sessions, Commit(s) \/ Rollback(s)
         PROVE  Shaped'
    BY <1>9, <1>13 DEF Commit, Rollback
  <1> QED
    BY <1>2, <1>3, <1>4, <1>5, <1>6, <1>7, <1>8, <1>11, <1>12, <1>13 DEF Next, Step

\* The steps that write no row.
Unwritten(s, w) ==
  /\ work' = [work EXCEPT ![s] = w]
  /\ \A f \in Frequencies : w.wrote[f] # "none" => Open(s) /\ w.wrote[f] = work[s].wrote[f]

\* Reading, raising and failing write no row of a run.
LEMMA RaisingWritesNothing ==
  ASSUME TypeOK, Shaped, NEW s \in Sessions,
         \/ \E due \in SUBSET Frequencies : BeginRun(s, due)
         \/ \E f \in Frequencies : BeginByHand(s, f) \/ StartFrequency(s, f)
         \/ \E m \in Members, other \in BOOLEAN : Check(s, m, other)
         \/ RaiseFee(s)
         \/ FailFrequency(s)
  PROVE  log' = log /\ \E w \in WorkType : Unwritten(s, w)
  <1>1. ASSUME NEW due \in SUBSET Frequencies, BeginRun(s, due)
        PROVE  \E w \in WorkType : Unwritten(s, w)
    <2>1. PICK w \in WorkType : /\ work' = [work EXCEPT ![s] = w]
                                /\ w = [Blank EXCEPT !.rest = due]
      BY <1>1, BeginRunWork
    <2> QED
      BY <2>1 DEF Unwritten, Blank
  <1>2. ASSUME NEW f \in Frequencies, BeginByHand(s, f)
        PROVE  \E w \in WorkType : Unwritten(s, w)
    <2>1. PICK w \in WorkType : /\ work' = [work EXCEPT ![s] = w]
                                /\ w = [Blank EXCEPT !.kind = "byhand", !.freq = f,
                                                     !.people = Members]
      BY <1>2, BeginByHandWork
    <2> QED
      BY <2>1 DEF Unwritten, Blank
  <1>3. ASSUME NEW f \in Frequencies, StartFrequency(s, f)
        PROVE  \E w \in WorkType : Unwritten(s, w)
    <2>1. PICK w \in WorkType :
            /\ work' = [work EXCEPT ![s] = w]
            /\ w = IF Billed(f) THEN [work[s] EXCEPT !.rest = @ \ {f}]
                   ELSE [work[s] EXCEPT !.freq = f, !.found = log[f],
                                        !.people = {m \in Members : plan[m] = f},
                                        !.mark = work[s].raised, !.result = "success"]
      BY <1>3, StartFrequencyWork
    <2>2. Open(s) /\ work[s] \in WorkType
      BY <1>3, OpenIsWork DEF StartFrequency
    <2> QED
      BY <2>1, <2>2 DEF Unwritten, WorkType
  <1>4. ASSUME NEW m \in Members, NEW other \in BOOLEAN, Check(s, m, other)
        PROVE  \E w \in WorkType : Unwritten(s, w)
    <2>1. PICK w \in WorkType :
            /\ work' = [work EXCEPT ![s] = w]
            /\ w = IF fees[m][work[s].freq] > 0 \/ other
                   THEN [work[s] EXCEPT !.people = @ \ {m}]
                   ELSE [work[s] EXCEPT !.checked = m]
      BY <1>4, CheckWork
    <2>2. Open(s) /\ work[s] \in WorkType
      BY <1>4, OpenIsWork DEF Check
    <2> QED
      BY <2>1, <2>2 DEF Unwritten, WorkType
  <1>5. ASSUME RaiseFee(s)
        PROVE  \E w \in WorkType : Unwritten(s, w)
    <2>1. PICK w \in WorkType :
            /\ work' = [work EXCEPT ![s] = w]
            /\ w = [work[s] EXCEPT !.checked = NoMember,
                                   !.people = @ \ {work[s].checked},
                                   !.raised = @ \cup {<<work[s].checked, work[s].freq>>}]
      BY <1>5, RaiseFeeWork
    <2>2. Open(s) /\ work[s] \in WorkType
      BY <1>5, OpenIsWork DEF RaiseFee
    <2> QED
      BY <2>1, <2>2 DEF Unwritten, WorkType
  <1>6. ASSUME FailFrequency(s)
        PROVE  \E w \in WorkType : Unwritten(s, w)
    <2>1. PICK w \in WorkType :
            /\ work' = [work EXCEPT ![s] = w]
            /\ w = [work[s] EXCEPT !.people = {}, !.checked = NoMember,
                                   !.raised = work[s].mark, !.result = "failed"]
      BY <1>6, FailFrequencyWork
    <2>2. Open(s) /\ work[s] \in WorkType
      BY <1>6, OpenIsWork DEF FailFrequency
    <2> QED
      BY <2>1, <2>2 DEF Unwritten, WorkType
  <1>7. log' = log
    BY DEF BeginRun, BeginByHand, StartFrequency, Check, RaiseFee, FailFrequency
  <1> QED
    BY <1>1, <1>2, <1>3, <1>4, <1>5, <1>6, <1>7

\* What LogRun leaves.
LEMMA LogRunEffect ==
  ASSUME TypeOK, Shaped, NEW s \in Sessions, LogRun(s)
  PROVE  /\ Open(s) /\ Open(s)' /\ work[s].freq \in Frequencies
         /\ work[s] \in WorkType /\ work[s].kind = "run" /\ work[s].checked = NoMember
         /\ work'[s].kind = "run" /\ work'[s].freq = NoFrequency
         /\ work'[s].checked = NoMember /\ work'[s].raised = work[s].raised
         /\ work[s].wrote[work[s].freq] = "none"
         /\ work'[s].wrote[work[s].freq] = Outcome(s)
         /\ \A f \in Frequencies \ {work[s].freq} : work'[s].wrote[f] = work[s].wrote[f]
         /\ \A t \in Sessions \ {s} : work'[t] = work[t]
         /\ UNCHANGED <<fees, log, raced>>
  <1>0. work \in [Sessions -> WorkType \cup {Idle}] /\ Idle \notin WorkType
    BY IdleIsNoWork DEF TypeOK
  <1>1. PICK w \in WorkType :
            /\ work' = [work EXCEPT ![s] = w]
            /\ w = [work[s] EXCEPT
                      !.wrote = [work[s].wrote EXCEPT ![work[s].freq] = Outcome(s)],
                      !.freq = NoFrequency, !.rest = @ \ {work[s].freq}]
    BY LogRunWork
  <1>2. /\ work[s] \in WorkType /\ Shape(work[s]) /\ work[s].kind = "run"
        /\ work[s].freq # NoFrequency /\ work[s].checked = NoMember
        /\ Open(s) /\ UNCHANGED <<fees, log, raced>>
    BY OpenIsWork DEF LogRun, Shaped, Generated
  <1>3. work[s].freq \in Frequencies /\ work[s].wrote[work[s].freq] = "none"
    BY <1>2 DEF Shape, WorkType
  <1>4. /\ w.kind = "run" /\ w.freq = NoFrequency /\ w.checked = NoMember
        /\ w.raised = work[s].raised
    BY <1>1, <1>2 DEF WorkType
  <1>5. /\ w.wrote[work[s].freq] = Outcome(s)
        /\ \A f \in Frequencies \ {work[s].freq} : w.wrote[f] = work[s].wrote[f]
    BY <1>1, <1>2, <1>3 DEF WorkType
  <1>6. /\ work'[s] = w /\ \A t \in Sessions \ {s} : work'[t] = work[t]
        /\ Open(s)'
    BY <1>0, <1>1 DEF Open
  <1> QED
    BY <1>2, <1>3, <1>4, <1>5, <1>6

\* One transaction writes the row of a period, and a failure is recorded where there was none.
LEMMA WritesNext ==
  ASSUME TypeOK, Shaped, OneWrites, FailureIsNew, [Next]_vars
  PROVE  OneWrites' /\ FailureIsNew'
  <1>0. work \in [Sessions -> WorkType \cup {Idle}] /\ Idle \notin WorkType
    BY IdleIsNoWork DEF TypeOK
  <1>1. ASSUME NEW s \in Sessions, NEW w \in WorkType, Unwritten(s, w), log' = log
        PROVE  OneWrites' /\ FailureIsNew'
    <2>1. /\ work'[s] = w
          /\ \A t \in Sessions \ {s} : work'[t] = work[t]
      BY <1>0, <1>1 DEF Unwritten
    <2>2. \A t \in Sessions, f \in Frequencies :
            Open(t)' /\ work'[t].wrote[f] # "none" =>
              Open(t) /\ work'[t].wrote[f] = work[t].wrote[f]
      BY <1>1, <2>1 DEF Unwritten, Open
    <2> QED
      BY <1>1, <2>2 DEF OneWrites, FailureIsNew
  <1>2. ASSUME NEW s \in Sessions, LogRun(s)
        PROVE  OneWrites' /\ FailureIsNew'
    <2> DEFINE g == work[s].freq
    <2>1. \A t \in Sessions, f \in Frequencies \ {g} :
            work'[t].wrote[f] = work[t].wrote[f] /\ (Open(t)' <=> Open(t))
      BY <1>2, LogRunEffect DEF Open
    <2>2. g \in Frequencies /\ log' = log /\ work[s] \in WorkType
      BY <1>2, LogRunEffect
    <2>3. \A t \in Sessions \ {s} : Open(t)' => work'[t].wrote[g] = "none"
      BY <1>2, LogRunEffect DEF LogRun, RowIsFree, Open
    <2>4. work'[s].wrote[g] = "failed" => log[g] = "none"
      <3>1. work'[s].wrote[g] = "failed" => work[s].found # "failed"
        BY <1>2, LogRunEffect DEF Outcome
      <3>2. work[s].found = "none" => log[g] = "none"
        BY <1>2 DEF LogRun
      <3> QED
        BY <2>2, <3>1, <3>2 DEF WorkType
    <2>5. OneWrites'
      BY <2>1, <2>3 DEF OneWrites
    <2>6. FailureIsNew'
      BY <2>1, <2>2, <2>3, <2>4 DEF FailureIsNew
    <2> QED
      BY <2>5, <2>6
  <1>3. ASSUME NEW s \in Sessions, work' = [work EXCEPT ![s] = Idle]
        PROVE  /\ \A t \in Sessions : Open(t)' => t # s /\ Open(t) /\ work'[t] = work[t]
               /\ OneWrites'
    <2>1. \A t \in Sessions : Open(t)' => t # s /\ Open(t) /\ work'[t] = work[t]
      BY <1>0, <1>3 DEF Open
    <2> QED
      BY <2>1 DEF OneWrites
  <1>4. ASSUME NEW s \in Sessions, Commit(s)
        PROVE  OneWrites' /\ FailureIsNew'
    <2>1. work' = [work EXCEPT ![s] = Idle]
      BY <1>4 DEF Commit
    <2>2. ASSUME NEW t \in Sessions, NEW f \in Frequencies, Open(t)', work'[t].wrote[f] = "failed"
          PROVE  log'[f] = "none"
      <3>1. t # s /\ Open(t) /\ work[t].wrote[f] = "failed"
        BY <1>3, <2>1, <2>2
      <3>2. Open(s)
        BY <1>4 DEF Commit
      <3>3. work[s].wrote[f] = "none"
        BY <3>1, <3>2 DEF OneWrites
      <3>4. log[f] = "none"
        BY <3>1 DEF FailureIsNew
      <3> QED
        BY <1>4, <3>3, <3>4 DEF Commit
    <2> QED
      BY <1>3, <2>1, <2>2 DEF FailureIsNew
  <1>5. ASSUME NEW s \in Sessions, Rollback(s)
        PROVE  OneWrites' /\ FailureIsNew'
    <2>1. work' = [work EXCEPT ![s] = Idle] /\ log' = log
      BY <1>5 DEF Rollback
    <2> QED
      BY <1>3, <2>1 DEF FailureIsNew
  <1>6. ASSUME work' = work, log' = log
        PROVE  OneWrites' /\ FailureIsNew'
    BY <1>6 DEF OneWrites, FailureIsNew, Open
  <1>7. ASSUME NEW m \in Members, NEW f \in Frequencies, ChangePlan(m, f) \/ CancelFee(m, f)
        PROVE  OneWrites' /\ FailureIsNew'
    BY <1>6, <1>7 DEF ChangePlan, CancelFee
  <1>8. CASE UNCHANGED vars
    BY <1>6, <1>8 DEF vars
  <1>9. ASSUME NEW s \in Sessions, Step(s)
        PROVE  OneWrites' /\ FailureIsNew'
    BY <1>1, <1>2, <1>4, <1>5, <1>9, RaisingWritesNothing DEF Step
  <1> QED
    BY <1>7, <1>8, <1>9 DEF Next

------------------------------------------------------------------------------

\* What the close of a transaction leaves.
LEMMA CloseEffect ==
  ASSUME TypeOK, NEW s \in Sessions, Commit(s) \/ Rollback(s)
  PROVE  \A t \in Sessions : Open(t)' => t # s /\ Open(t) /\ work'[t] = work[t]
  BY IdleIsNoWork DEF TypeOK, Commit, Rollback, Open

\* What comes to raise the fees of a period: a run that starts it, or fees by hand.
Enter(s, f) == BeginByHand(s, f) \/ (StartFrequency(s, f) /\ ~Billed(f))

\* Who comes to a period has raised nothing for it, and marks it as raced for unless it is alone.
LEMMA EnterEffect ==
  ASSUME TypeOK, Shaped, NEW s \in Sessions, NEW f \in Frequencies, Enter(s, f)
  PROVE  /\ \A t \in Sessions \ {s} : work'[t] = work[t]
         /\ work'[s].freq = f /\ work'[s].wrote[f] = "none" /\ work'[s].checked = NoMember
         /\ work'[s].kind = "run" => work'[s].found = log[f] /\ log[f] # "success"
         /\ \A g \in Frequencies :
              work'[s].wrote[g] # "none" =>
                /\ Active(s, g) /\ work'[s].wrote[g] = work[s].wrote[g]
                /\ work'[s].kind = work[s].kind
         /\ \A m \in Members, g \in Frequencies :
              <<m, g>> \in work'[s].raised =>
                g # f /\ Open(s) /\ <<m, g>> \in work[s].raised /\ work[s].freq # g
         /\ raced \subseteq raced'
         /\ f \notin raced' =>
              \A t \in Sessions \ {s} :
                Active(t, f) => /\ work'[s].kind = "run" /\ work[t].kind # "byhand"
                                /\ log[f] # "failed"
         /\ UNCHANGED <<fees, log>>
  <1>0. work \in [Sessions -> WorkType \cup {Idle}] /\ Idle \notin WorkType
    BY IdleIsNoWork DEF TypeOK
  <1>1. CASE BeginByHand(s, f)
    <2>1. PICK w \in WorkType : /\ work' = [work EXCEPT ![s] = w]
                                /\ w = [Blank EXCEPT !.kind = "byhand", !.freq = f,
                                                     !.people = Members]
      BY <1>1, BeginByHandWork
    <2>2. /\ w.freq = f /\ w.checked = NoMember /\ w.kind = "byhand" /\ w.raised = {}
          /\ \A g \in Frequencies : w.wrote[g] = "none"
      BY <2>1 DEF Blank
    <2>3. work'[s] = w /\ \A t \in Sessions \ {s} : work'[t] = work[t]
      BY <1>0, <2>1
    <2>4. raced \subseteq raced' /\ (f \notin raced' => Others(s, f) = {})
      BY <1>1 DEF BeginByHand, Race
    <2>5. f \notin raced' => \A t \in Sessions \ {s} : ~Active(t, f)
      BY <2>4 DEF Others, Active
    <2>6. UNCHANGED <<fees, log>>
      BY <1>1 DEF BeginByHand
    <2> QED
      BY <2>2, <2>3, <2>4, <2>5, <2>6
  <1>2. CASE StartFrequency(s, f) /\ ~Billed(f)
    <2>1. PICK w \in WorkType :
            /\ work' = [work EXCEPT ![s] = w]
            /\ w = IF Billed(f) THEN [work[s] EXCEPT !.rest = @ \ {f}]
                   ELSE [work[s] EXCEPT !.freq = f, !.found = log[f],
                                        !.people = {m \in Members : plan[m] = f},
                                        !.mark = work[s].raised, !.result = "success"]
      BY <1>2, StartFrequencyWork
    <2>2. /\ Open(s) /\ work[s] \in WorkType /\ Shape(work[s])
          /\ work[s].freq = NoFrequency /\ f \in work[s].rest
      BY <1>2, OpenIsWork DEF StartFrequency, Shaped
    <2>3. /\ work[s].checked = NoMember /\ work[s].wrote[f] = "none"
          /\ \A g \in Frequencies : g # NoFrequency
      BY <2>2, NothingIsNothing DEF Shape, WorkType
    <2>4. /\ w.freq = f /\ w.checked = NoMember /\ w.kind = work[s].kind
          /\ w.raised = work[s].raised /\ w.wrote = work[s].wrote /\ w.found = log[f]
      BY <1>2, <2>1, <2>2, <2>3 DEF WorkType
    <2>5. work'[s] = w /\ \A t \in Sessions \ {s} : work'[t] = work[t]
      BY <1>0, <2>1
    <2>6. \A m \in Members, g \in Frequencies :
            <<m, g>> \in work[s].raised => g # f /\ work[s].freq # g
      BY <2>2, <2>3 DEF Shape
    <2>7. /\ raced \subseteq raced'
          /\ f \notin raced' =>
               \A t \in Others(s, f) : log[f] # "failed" /\ work[t].kind # "byhand"
      BY <1>2 DEF StartFrequency, Race, Billed
    <2>8. f \notin raced' =>
            \A t \in Sessions \ {s} :
              Active(t, f) => work[t].kind # "byhand" /\ log[f] # "failed"
      BY <2>7 DEF Others, Active
    <2>9. work[s].kind = "run"
      BY <2>2 DEF Shape, WorkType
    <2>10. UNCHANGED <<fees, log>> /\ log[f] # "success"
      BY <1>2 DEF StartFrequency, Billed
    <2>11. \A g \in Frequencies : work[s].wrote[g] # "none" => Active(s, g)
      BY <2>2 DEF Active
    <2>12. /\ work'[s].freq = f /\ work'[s].wrote[f] = "none"
           /\ work'[s].checked = NoMember /\ work'[s].found = log[f]
           /\ work'[s].kind = "run"
      BY <2>3, <2>4, <2>5, <2>9
    <2>13. \A g \in Frequencies :
             work'[s].wrote[g] # "none" =>
               /\ Active(s, g) /\ work'[s].wrote[g] = work[s].wrote[g]
               /\ work'[s].kind = work[s].kind
      BY <2>4, <2>5, <2>11
    <2>14. \A m \in Members, g \in Frequencies :
             <<m, g>> \in work'[s].raised =>
               g # f /\ Open(s) /\ <<m, g>> \in work[s].raised /\ work[s].freq # g
      BY <2>2, <2>4, <2>5, <2>6
    <2> QED
      BY <2>5, <2>7, <2>8, <2>10, <2>12, <2>13, <2>14
  <1> QED
    BY <1>1, <1>2 DEF Enter

\* The steps that leave who is active, and what for, as it was, or close it.
Stays ==
  /\ log' = log /\ raced' = raced
  /\ \A t \in Sessions, f \in Frequencies :
       Active(t, f)' =>
         /\ Active(t, f) /\ work'[t].kind = work[t].kind
         /\ work'[t].freq = f => work[t].freq = f /\ work'[t].found = work[t].found
         /\ work'[t].wrote[f] = work[t].wrote[f]

\* One member's step of a run: who is checked or raised, or the failure that drops it all.
MemberStep(s) == (\E m \in Members, other \in BOOLEAN : Check(s, m, other)) \/ RaiseFee(s) \/ FailFrequency(s)

\* A member's step touches its own transaction, and comes to raise only a fee that is missing.
LEMMA MemberStepEffect ==
  ASSUME TypeOK, Shaped, NEW s \in Sessions, MemberStep(s)
  PROVE  /\ Open(s)
         /\ \A t \in Sessions \ {s} : work'[t] = work[t]
         /\ work'[s].kind = work[s].kind /\ work'[s].freq = work[s].freq
         /\ work'[s].found = work[s].found /\ work'[s].wrote = work[s].wrote
         /\ \A m \in Members, f \in Frequencies :
              Raises(s, m, f)' => Raises(s, m, f) \/ fees[m][f] = 0
         /\ UNCHANGED <<fees, log, raced>>
  <1>0. work \in [Sessions -> WorkType \cup {Idle}] /\ Idle \notin WorkType
    BY IdleIsNoWork DEF TypeOK
  <1>1. Open(s) /\ work[s] \in WorkType /\ Shape(work[s]) /\ UNCHANGED <<fees, log, raced>>
    BY OpenIsWork DEF MemberStep, Check, RaiseFee, FailFrequency, Shaped
  <1>2. ASSUME NEW m \in Members, NEW other \in BOOLEAN, Check(s, m, other)
        PROVE  \E w \in WorkType :
                 /\ work' = [work EXCEPT ![s] = w]
                 /\ w.kind = work[s].kind /\ w.freq = work[s].freq
                 /\ w.found = work[s].found /\ w.wrote = work[s].wrote
                 /\ w.raised = work[s].raised
                 /\ w.checked # NoMember => fees[w.checked][w.freq] = 0
    <2>1. PICK w \in WorkType :
            /\ work' = [work EXCEPT ![s] = w]
            /\ w = IF fees[m][work[s].freq] > 0 \/ other
                   THEN [work[s] EXCEPT !.people = @ \ {m}]
                   ELSE [work[s] EXCEPT !.checked = m]
      BY <1>2, CheckWork
    <2>2. work[s].checked = NoMember /\ work[s].freq \in Frequencies
      BY <1>1, <1>2 DEF Check, Shape, WorkType
    <2>3. fees[m][work[s].freq] \in Nat
      BY <2>2 DEF TypeOK
    <2>4. CASE fees[m][work[s].freq] > 0 \/ other
      BY <1>1, <2>1, <2>2, <2>4 DEF WorkType
    <2>5. CASE ~(fees[m][work[s].freq] > 0 \/ other)
      <3>1. /\ w.checked = m /\ w.freq = work[s].freq /\ w.kind = work[s].kind
            /\ w.found = work[s].found /\ w.wrote = work[s].wrote
            /\ w.raised = work[s].raised
        BY <1>1, <2>1, <2>5 DEF WorkType
      <3>2. fees[m][work[s].freq] = 0
        BY <2>3, <2>5
      <3>3. fees[w.checked][w.freq] = 0
        BY <3>1, <3>2, Zenon
      <3> QED
        BY <2>1, <3>1, <3>3
    <2> QED
      BY <2>4, <2>5
  <1>3. ASSUME NEW m \in Members, NEW other \in BOOLEAN, Check(s, m, other)
        PROVE  /\ \A t \in Sessions \ {s} : work'[t] = work[t]
               /\ work'[s].kind = work[s].kind /\ work'[s].freq = work[s].freq
               /\ work'[s].found = work[s].found /\ work'[s].wrote = work[s].wrote
               /\ \A n \in Members, f \in Frequencies :
                    Raises(s, n, f)' => Raises(s, n, f) \/ fees[n][f] = 0
    BY <1>0, <1>2, <1>3, NothingIsNothing DEF Raises
  <1>4. CASE RaiseFee(s)
    <2>1. PICK w \in WorkType :
            /\ work' = [work EXCEPT ![s] = w]
            /\ w = [work[s] EXCEPT !.checked = NoMember,
                                   !.people = @ \ {work[s].checked},
                                   !.raised = @ \cup {<<work[s].checked, work[s].freq>>}]
      BY <1>4, RaiseFeeWork
    <2>2. /\ w.checked = NoMember /\ w.freq = work[s].freq /\ w.kind = work[s].kind
          /\ w.found = work[s].found /\ w.wrote = work[s].wrote
          /\ w.raised = work[s].raised \cup {<<work[s].checked, work[s].freq>>}
      BY <1>1, <2>1 DEF WorkType
    <2>3. work'[s] = w /\ \A t \in Sessions \ {s} : work'[t] = work[t]
      BY <1>0, <2>1
    <2>4. \A m \in Members, f \in Frequencies : Raises(s, m, f)' => Raises(s, m, f)
      BY <2>2, <2>3, NothingIsNothing DEF Raises
    <2> QED
      BY <1>1, <2>2, <2>3, <2>4
  <1>5. CASE FailFrequency(s)
    <2>1. PICK w \in WorkType :
            /\ work' = [work EXCEPT ![s] = w]
            /\ w = [work[s] EXCEPT !.people = {}, !.checked = NoMember,
                                   !.raised = work[s].mark, !.result = "failed"]
      BY <1>5, FailFrequencyWork
    <2>2. /\ w.checked = NoMember /\ w.freq = work[s].freq /\ w.kind = work[s].kind
          /\ w.found = work[s].found /\ w.wrote = work[s].wrote
          /\ w.raised = work[s].mark
      BY <1>1, <2>1 DEF WorkType
    <2>3. work'[s] = w /\ \A t \in Sessions \ {s} : work'[t] = work[t]
      BY <1>0, <2>1
    <2>4. \A m \in Members, f \in Frequencies : Raises(s, m, f)' => Raises(s, m, f)
      BY <1>1, <2>2, <2>3, NothingIsNothing DEF Raises, Shape
    <2> QED
      BY <1>1, <2>2, <2>3, <2>4
  <1> QED
    BY <1>1, <1>3, <1>4, <1>5 DEF MemberStep

\* The steps that begin nothing for a period: a run opened, a period passed over.
Passing(s) ==
  \/ \E due \in SUBSET Frequencies : BeginRun(s, due)
  \/ \E f \in Frequencies : StartFrequency(s, f) /\ Billed(f)

\* A run that begins, or passes over a billed period, raises nothing.
LEMMA PassingEffect ==
  ASSUME TypeOK, NEW s \in Sessions, Passing(s)
  PROVE  /\ \A t \in Sessions \ {s} : work'[t] = work[t]
         /\ UNCHANGED <<fees, log, raced>>
         /\ \/ /\ Open(s)
               /\ work'[s].kind = work[s].kind /\ work'[s].freq = work[s].freq
               /\ work'[s].found = work[s].found /\ work'[s].wrote = work[s].wrote
               /\ work'[s].raised = work[s].raised /\ work'[s].checked = work[s].checked
            \/ /\ work'[s].freq = NoFrequency /\ work'[s].raised = {}
               /\ \A f \in Frequencies : work'[s].wrote[f] = "none"
  <1>0. work \in [Sessions -> WorkType \cup {Idle}]
    BY DEF TypeOK
  <1>1. ASSUME NEW due \in SUBSET Frequencies, BeginRun(s, due)
        PROVE  /\ \A t \in Sessions \ {s} : work'[t] = work[t]
               /\ UNCHANGED <<fees, log, raced>>
               /\ work'[s].freq = NoFrequency /\ work'[s].raised = {}
               /\ \A f \in Frequencies : work'[s].wrote[f] = "none"
    <2>1. PICK w \in WorkType : /\ work' = [work EXCEPT ![s] = w]
                                /\ w = [Blank EXCEPT !.rest = due]
      BY <1>1, BeginRunWork
    <2>2. /\ w.freq = NoFrequency /\ w.raised = {}
          /\ \A f \in Frequencies : w.wrote[f] = "none"
      BY <2>1 DEF Blank
    <2> QED
      BY <1>0, <1>1, <2>1, <2>2 DEF BeginRun
  <1>2. ASSUME NEW f \in Frequencies, StartFrequency(s, f), Billed(f)
        PROVE  /\ \A t \in Sessions \ {s} : work'[t] = work[t]
               /\ UNCHANGED <<fees, log, raced>>
               /\ Open(s)
               /\ work'[s].kind = work[s].kind /\ work'[s].freq = work[s].freq
               /\ work'[s].found = work[s].found /\ work'[s].wrote = work[s].wrote
               /\ work'[s].raised = work[s].raised /\ work'[s].checked = work[s].checked
    <2>1. Open(s) /\ work[s] \in WorkType
      BY <1>2, OpenIsWork DEF StartFrequency
    <2>2. work' = [work EXCEPT ![s] = [work[s] EXCEPT !.rest = @ \ {f}]]
      BY <1>2 DEF StartFrequency
    <2>3. work'[s] = [work[s] EXCEPT !.rest = @ \ {f}]
      BY <1>0, <2>2
    <2> QED
      BY <1>0, <1>2, <2>1, <2>2, <2>3 DEF StartFrequency, WorkType
  <1> QED
    BY <1>1, <1>2 DEF Passing

\* Who raises the fees of a period by hand, or again after a failure, stays alone.
LEMMA ApartNext ==
  ASSUME TypeOK, Shaped, OneWrites, Apart, [Next]_vars
  PROVE  Apart'
  <1>1. ASSUME Stays
        PROVE  Apart'
    BY <1>1 DEF Stays, Apart, Alone
  <1>2. ASSUME NEW s \in Sessions, MemberStep(s)
        PROVE  Stays
    BY <1>2, MemberStepEffect DEF Stays, Active, Open
  <1>3. ASSUME NEW s \in Sessions, Passing(s)
        PROVE  Stays
    BY <1>3, PassingEffect, NothingIsNothing DEF Stays, Active, Open
  <1>4. ASSUME NEW s \in Sessions, NEW f \in Frequencies, Enter(s, f)
        PROVE  Apart'
    <2>1. \A t \in Sessions, g \in Frequencies :
            Active(t, g)' => Active(t, g) \/ (t = s /\ g = f)
      BY <1>4, EnterEffect DEF Active, Open
    <2>2. raced \subseteq raced' /\ log' = log
      BY <1>4, EnterEffect
    <2>3. ASSUME f \notin raced', NEW t \in Sessions \ {s}, Active(t, f)
          PROVE  /\ work'[s].kind = "run" /\ work[t].kind # "byhand" /\ log[f] # "failed"
                 /\ work'[s].kind # "byhand"
      BY <1>4, <2>3, EnterEffect
    <2>4. ASSUME NEW t \in Sessions, NEW g \in Frequencies, g \notin raced', Active(t, g)'
          PROVE  /\ work'[t].kind = "byhand" => Alone(t, g)'
                 /\ work'[t].kind = "run" /\ work'[t].freq = g /\ work'[t].found = "failed" =>
                      Alone(t, g)' /\ log'[g] = "failed"
                 /\ work'[t].wrote[g] # "none" =>
                      /\ log'[g] \in {"none", "failed"}
                      /\ log'[g] = "failed" => Alone(t, g)'
                      /\ log'[g] = "none" => work'[t].wrote[g] # "kept"
      <3>1. CASE t = s /\ g = f
        <4>1. (work'[s].kind = "byhand" \/ log[f] = "failed") => \A u \in Sessions \ {s} : ~Active(u, f)
          BY <2>3, <2>4, <3>1
        <4>2. (work'[s].kind = "byhand" \/ log[f] = "failed") => Alone(s, f)'
          BY <2>1, <4>1 DEF Alone
        <4> QED
          BY <1>4, <2>2, <3>1, <4>2, EnterEffect
      <3>2. CASE t = s /\ g # f
        <4>1. /\ Active(s, g) /\ work'[s].wrote[g] = work[s].wrote[g]
              /\ work'[s].kind = work[s].kind /\ work'[s].freq # g
          BY <1>4, <2>4, <3>2, EnterEffect DEF Active
        <4>2. Alone(s, g) => Alone(s, g)'
          BY <2>1, <3>2 DEF Alone
        <4> QED
          BY <2>2, <2>4, <3>2, <4>1, <4>2 DEF Apart
      <3>3. CASE t # s /\ g # f
        <4>1. Active(t, g) /\ work'[t] = work[t]
          BY <1>4, <2>1, <2>4, <3>3, EnterEffect
        <4>2. Alone(t, g) => Alone(t, g)'
          BY <2>1, <3>3 DEF Alone
        <4> QED
          BY <2>2, <2>4, <4>1, <4>2 DEF Apart
      <3>4. CASE t # s /\ g = f
        <4>1. Active(t, f) /\ work'[t] = work[t]
          BY <1>4, <2>1, <2>4, <3>4, EnterEffect
        <4>2. work[t].kind # "byhand" /\ log[f] # "failed"
          BY <2>3, <2>4, <3>4, <4>1
        <4> QED
          BY <2>2, <2>4, <3>4, <4>1, <4>2 DEF Apart
      <3> QED
        BY <3>1, <3>2, <3>3, <3>4
    <2> QED
      BY <2>4 DEF Apart
  <1>5. ASSUME NEW s \in Sessions, LogRun(s)
        PROVE  Apart'
    <2> DEFINE f == work[s].freq
    <2>1. /\ \A t \in Sessions, g \in Frequencies : Active(t, g)' => Active(t, g)
          /\ raced' = raced /\ log' = log
      BY <1>5, LogRunEffect, NothingIsNothing DEF Active, Open
    <2>2. \A t \in Sessions, g \in Frequencies : Alone(t, g) => Alone(t, g)'
      BY <2>1 DEF Alone
    <2>3. ASSUME NEW t \in Sessions, NEW g \in Frequencies, t # s \/ g # f, Active(t, g)'
          PROVE  /\ work'[t].kind = work[t].kind
                 /\ work'[t].freq = g => work[t].freq = g /\ work'[t].found = work[t].found
                 /\ work'[t].wrote[g] = work[t].wrote[g]
      BY <1>5, <2>3, LogRunEffect, NothingIsNothing
    <2>4. ASSUME f \notin raced
          PROVE  /\ log[f] \in {"none", "failed"}
                 /\ log[f] = "failed" => Alone(s, f)
                 /\ log[f] = "none" => work'[s].wrote[f] # "kept"
      <3>1. Active(s, f) /\ f \in Frequencies /\ work[s].kind = "run"
        BY <1>5, LogRunEffect DEF Active
      <3>2. CASE work[s].found = "failed"
        BY <2>4, <3>1, <3>2 DEF Apart
      <3>3. CASE work[s].found = "none"
        <4>1. log[f] = "none"
          BY <1>5, <3>3 DEF LogRun
        <4>2. work'[s].wrote[f] = Outcome(s) /\ work[s] \in WorkType
          BY <1>5, LogRunEffect
        <4>3. Outcome(s) # "kept"
          BY <3>3, <4>2 DEF Outcome, WorkType
        <4> QED
          BY <4>1, <4>2, <4>3
      <3> QED
        BY <1>5, <3>2, <3>3, LogRunEffect DEF WorkType
    <2>5. /\ work'[s].kind = "run" /\ work'[s].freq = NoFrequency /\ f \in Frequencies
          /\ NoFrequency \notin Frequencies
      BY <1>5, LogRunEffect, NothingIsNothing
    <2>6. ASSUME NEW t \in Sessions, NEW g \in Frequencies, g \notin raced', Active(t, g)'
          PROVE  /\ work'[t].kind = "byhand" => Alone(t, g)'
                 /\ work'[t].kind = "run" /\ work'[t].freq = g /\ work'[t].found = "failed" =>
                      Alone(t, g)' /\ log'[g] = "failed"
                 /\ work'[t].wrote[g] # "none" =>
                      /\ log'[g] \in {"none", "failed"}
                      /\ log'[g] = "failed" => Alone(t, g)'
                      /\ log'[g] = "none" => work'[t].wrote[g] # "kept"
      <3>1. CASE t = s /\ g = f
        BY <2>1, <2>2, <2>4, <2>5, <2>6, <3>1
      <3>2. CASE t # s \/ g # f
        <4>1. Active(t, g) /\ g \notin raced
          BY <2>1, <2>6
        <4> QED
          BY <2>1, <2>2, <2>3, <2>6, <3>2, <4>1 DEF Apart
      <3> QED
        BY <3>1, <3>2
    <2> QED
      BY <2>6 DEF Apart
  <1>6. ASSUME NEW s \in Sessions, Commit(s)
        PROVE  Apart'
    <2>1. \A t \in Sessions, g \in Frequencies :
            Active(t, g)' => t # s /\ Active(t, g) /\ work'[t] = work[t]
      BY <1>6, CloseEffect DEF Active
    <2>2. \A t \in Sessions, g \in Frequencies : Alone(t, g) => Alone(t, g)'
      BY <2>1 DEF Alone
    <2>3. raced' = raced /\ Open(s)
      BY <1>6 DEF Commit
    <2>4. ASSUME NEW t \in Sessions, NEW g \in Frequencies, g \notin raced, Active(t, g)', Active(s, g),
                 log'[g] # log[g]
          PROVE  /\ work[t].kind # "byhand"
                 /\ ~(work[t].kind = "run" /\ work[t].freq = g /\ work[t].found = "failed")
                 /\ work[t].wrote[g] = "none"
      <3>1. t # s /\ Active(t, g) /\ ~Alone(t, g)
        BY <2>1, <2>4 DEF Alone
      <3>2. work[s].wrote[g] # "none"
        BY <1>6, <2>4 DEF Commit
      <3>3. work[t].wrote[g] = "none"
        BY <2>3, <3>1, <3>2 DEF OneWrites, Active
      <3> QED
        BY <2>4, <3>1, <3>3 DEF Apart
    <2>5. ASSUME NEW g \in Frequencies, log'[g] # log[g]
          PROVE  Active(s, g)
      BY <1>6, <2>3, <2>5 DEF Commit, Active
    <2>6. ASSUME NEW t \in Sessions, NEW g \in Frequencies, g \notin raced', Active(t, g)'
          PROVE  /\ work'[t].kind = "byhand" => Alone(t, g)'
                 /\ work'[t].kind = "run" /\ work'[t].freq = g /\ work'[t].found = "failed" =>
                      Alone(t, g)' /\ log'[g] = "failed"
                 /\ work'[t].wrote[g] # "none" =>
                      /\ log'[g] \in {"none", "failed"}
                      /\ log'[g] = "failed" => Alone(t, g)'
                      /\ log'[g] = "none" => work'[t].wrote[g] # "kept"
      <3>1. Active(t, g) /\ work'[t] = work[t] /\ g \notin raced
        BY <2>1, <2>3, <2>6
      <3>2. CASE log'[g] # log[g]
        BY <2>4, <2>5, <2>6, <3>1, <3>2
      <3>3. CASE log'[g] = log[g]
        BY <2>2, <3>1, <3>3 DEF Apart
      <3> QED
        BY <3>2, <3>3
    <2> QED
      BY <2>6 DEF Apart
  <1>7. ASSUME NEW s \in Sessions, Rollback(s)
        PROVE  Stays
    <2>1. \A t \in Sessions, g \in Frequencies :
            Active(t, g)' => t # s /\ Active(t, g) /\ work'[t] = work[t]
      BY <1>7, CloseEffect DEF Active
    <2> QED
      BY <1>7, <2>1 DEF Rollback, Stays
  <1>8. ASSUME UNCHANGED <<work, log, raced>>
        PROVE  Stays
    BY <1>8 DEF Stays, Active, Open
  <1>9. ASSUME NEW m \in Members, NEW f \in Frequencies, ChangePlan(m, f) \/ CancelFee(m, f)
        PROVE  Stays
    BY <1>8, <1>9 DEF ChangePlan, CancelFee
  <1>10. CASE UNCHANGED vars
    BY <1>1, <1>8, <1>10 DEF vars
  <1>11. ASSUME NEW s \in Sessions, Step(s)
         PROVE  MemberStep(s) \/ Passing(s) \/ (\E f \in Frequencies : Enter(s, f))
                \/ LogRun(s) \/ Commit(s) \/ Rollback(s)
    BY <1>11 DEF Step, MemberStep, Passing, Enter
  <1> QED
    BY <1>1, <1>2, <1>3, <1>4, <1>5, <1>6, <1>7, <1>9, <1>10, <1>11 DEF Next

\* Whom a transaction raises a fee for, it is active for.
LEMMA RaisesIsActive ==
  ASSUME Shaped, NEW s \in Sessions, NEW m \in Members, NEW f \in Frequencies,
         Open(s), Raises(s, m, f)
  PROVE  Active(s, f)
  BY DEF Shaped, Shape, Raises, Active

\* What is committed: each fee that was raised, where there was none, in a period that nobody
\* raced for; and a row for each period of a run.
LEMMA CommitEffect ==
  ASSUME TypeOK, Shaped, RaisesNew, NEW s \in Sessions, Commit(s)
  PROVE  /\ Open(s) /\ raced' = raced
         /\ \A t \in Sessions : Open(t)' => t # s /\ Open(t) /\ work'[t] = work[t]
         /\ \A m \in Members, f \in Frequencies :
              /\ <<m, f>> \notin work[s].raised => fees'[m][f] = fees[m][f]
              /\ <<m, f>> \in work[s].raised => fees'[m][f] = fees[m][f] + 1
              /\ <<m, f>> \in work[s].raised =>
                   work[s].kind = "byhand" \/ work[s].wrote[f] # "none"
              /\ <<m, f>> \in work[s].raised /\ f \notin raced => fees[m][f] = 0
         /\ \A f \in Frequencies :
              log'[f] = IF work[s].wrote[f] \in {"none", "kept"} THEN log[f]
                        ELSE work[s].wrote[f]
  <1>1. Open(s) /\ raced' = raced /\ work[s] \in WorkType /\ Shape(work[s]) /\ Done(s)
    BY OpenIsWork DEF Commit, Shaped
  <1>2. work[s].kind = "run" => work[s].freq = NoFrequency
    BY <1>1 DEF Done
  <1>3. ASSUME NEW m \in Members, NEW f \in Frequencies, <<m, f>> \in work[s].raised
        PROVE  work[s].kind = "byhand" \/ work[s].wrote[f] # "none"
    BY <1>1, <1>2, <1>3, NothingIsNothing DEF Shape, WorkType
  <1>4. ASSUME NEW m \in Members, NEW f \in Frequencies, <<m, f>> \in work[s].raised, f \notin raced
        PROVE  fees[m][f] = 0
    <2>1. Unbilled(s, m, f)
      BY <1>1, <1>4 DEF RaisesNew, Raises
    <2> QED
      BY <1>2, <2>1, NothingIsNothing DEF Unbilled
  <1>5. \A m \in Members, f \in Frequencies :
          fees'[m][f] = IF <<m, f>> \in work[s].raised THEN fees[m][f] + 1 ELSE fees[m][f]
    BY DEF Commit
  <1>6. \A f \in Frequencies :
          log'[f] = IF work[s].wrote[f] \in {"none", "kept"} THEN log[f] ELSE work[s].wrote[f]
    BY DEF Commit
  <1> QED
    BY <1>1, <1>3, <1>4, <1>5, <1>6, CloseEffect

\* Whom a transaction raises a fee for has none, and so nobody gets two.
LEMMA RaisesNext ==
  ASSUME TypeOK, Shaped, OneWrites, Apart, RaisesNew, BilledOnce, [Next]_vars
  PROVE  RaisesNew' /\ BilledOnce'
  <1>1. ASSUME NEW s \in Sessions, MemberStep(s)
        PROVE  RaisesNew' /\ BilledOnce'
    <2>1. \A t \in Sessions, m \in Members, f \in Frequencies :
            /\ Open(t)' /\ Raises(t, m, f)' => Open(t) /\ (Raises(t, m, f) \/ fees[m][f] = 0)
            /\ work'[t].kind = work[t].kind /\ work'[t].freq = work[t].freq
            /\ work'[t].found = work[t].found
      BY <1>1, MemberStepEffect DEF Raises, Open
    <2>2. UNCHANGED <<fees, log, raced>>
      BY <1>1, MemberStepEffect
    <2> QED
      BY <2>1, <2>2 DEF RaisesNew, Unbilled, BilledOnce
  <1>2. ASSUME NEW s \in Sessions, Passing(s)
        PROVE  RaisesNew' /\ BilledOnce'
    <2>1. UNCHANGED <<fees, log, raced>> /\ \A t \in Sessions \ {s} : work'[t] = work[t]
      BY <1>2, PassingEffect
    <2>2. ASSUME NEW m \in Members, NEW f \in Frequencies, Raises(s, m, f)'
          PROVE  /\ Open(s) /\ Raises(s, m, f)
                 /\ work'[s].kind = work[s].kind /\ work'[s].freq = work[s].freq
                 /\ work'[s].found = work[s].found
      BY <1>2, <2>2, PassingEffect, NothingIsNothing DEF Raises
    <2>3. \A m \in Members, f \in Frequencies :
            Raises(s, m, f)' /\ f \notin raced => Unbilled(s, m, f)'
      BY <2>1, <2>2 DEF RaisesNew, Unbilled
    <2>4. \A t \in Sessions \ {s}, m \in Members, f \in Frequencies :
            Raises(t, m, f)' /\ Open(t)' /\ f \notin raced => Unbilled(t, m, f)'
      BY <2>1 DEF RaisesNew, Unbilled, Raises, Open
    <2> QED
      BY <2>1, <2>3, <2>4 DEF RaisesNew, BilledOnce
  <1>3. ASSUME NEW s \in Sessions, NEW f \in Frequencies, Enter(s, f)
        PROVE  RaisesNew' /\ BilledOnce'
    <2>1. /\ UNCHANGED <<fees, log>> /\ raced \subseteq raced'
          /\ \A t \in Sessions \ {s} : work'[t] = work[t]
      BY <1>3, EnterEffect
    <2>2. ASSUME NEW m \in Members, NEW g \in Frequencies, Raises(s, m, g)', g \notin raced
          PROVE  fees[m][g] = 0
      <3>1. work'[s].checked # m
        BY <1>3, EnterEffect, NothingIsNothing
      <3>2. Open(s) /\ <<m, g>> \in work[s].raised /\ work[s].freq # g
        BY <1>3, <2>2, <3>1, EnterEffect DEF Raises
      <3> QED
        BY <2>2, <3>2 DEF RaisesNew, Raises, Unbilled
    <2>3. \A m \in Members, g \in Frequencies :
            Raises(s, m, g)' /\ g \notin raced' => Unbilled(s, m, g)'
      BY <2>1, <2>2 DEF Unbilled
    <2>4. \A t \in Sessions \ {s}, m \in Members, g \in Frequencies :
            Raises(t, m, g)' /\ Open(t)' /\ g \notin raced' => Unbilled(t, m, g)'
      BY <2>1 DEF RaisesNew, Unbilled, Raises, Open
    <2> QED
      BY <2>1, <2>3, <2>4 DEF RaisesNew, BilledOnce
  <1>4. ASSUME NEW s \in Sessions, LogRun(s)
        PROVE  RaisesNew' /\ BilledOnce'
    <2> DEFINE f == work[s].freq
    <2>1. /\ UNCHANGED <<fees, log, raced>> /\ Open(s) /\ f \in Frequencies
          /\ \A t \in Sessions \ {s} : work'[t] = work[t]
          /\ work'[s].checked = NoMember /\ work'[s].raised = work[s].raised
      BY <1>4, LogRunEffect
    <2>2. work[s].found = "none" => log[f] = "none"
      BY <1>4 DEF LogRun
    <2>3. ASSUME NEW m \in Members, NEW g \in Frequencies, Raises(s, m, g)', g \notin raced
          PROVE  fees[m][g] = 0
      <3>1. Raises(s, m, g)
        BY <2>1, <2>3, NothingIsNothing DEF Raises
      <3> QED
        BY <2>1, <2>2, <2>3, <3>1 DEF RaisesNew, Unbilled
    <2>4. \A m \in Members, g \in Frequencies :
            Raises(s, m, g)' /\ g \notin raced => Unbilled(s, m, g)'
      BY <2>1, <2>3 DEF Unbilled
    <2>5. \A t \in Sessions \ {s}, m \in Members, g \in Frequencies :
            Raises(t, m, g)' /\ Open(t)' /\ g \notin raced => Unbilled(t, m, g)'
      BY <2>1 DEF RaisesNew, Unbilled, Raises, Open
    <2> QED
      BY <2>1, <2>4, <2>5 DEF RaisesNew, BilledOnce
  <1>5. ASSUME NEW s \in Sessions, Commit(s)
        PROVE  RaisesNew' /\ BilledOnce'
    <2>1. ASSUME NEW t \in Sessions, NEW m \in Members, NEW f \in Frequencies,
                 f \notin raced, Open(t)', Raises(t, m, f)'
          PROVE  Unbilled(t, m, f)'
      <3>1. t # s /\ Open(t) /\ work'[t] = work[t]
        BY <1>5, <2>1, CommitEffect
      <3>2. Raises(t, m, f)
        BY <2>1, <3>1 DEF Raises
      <3>3. Unbilled(t, m, f) /\ Active(t, f)
        BY <2>1, <3>1, <3>2, RaisesIsActive DEF RaisesNew
      <3>4. log[f] # "none" => log'[f] # "none"
        BY <1>5, CommitEffect
      <3>5. CASE <<m, f>> \notin work[s].raised
        <4>1. fees'[m][f] = fees[m][f]
          BY <1>5, <3>5, CommitEffect
        <4> QED
          BY <3>1, <3>3, <3>4, <4>1 DEF Unbilled
      <3>6. CASE <<m, f>> \in work[s].raised
        <4>1. Active(s, f) /\ Open(s)
          BY <1>5, <3>6, CommitEffect, RaisesIsActive DEF Raises
        <4>2. ~Alone(s, f) /\ ~Alone(t, f)
          BY <3>1, <3>3, <4>1 DEF Alone
        <4>3. work[s].wrote[f] # "none" /\ work[s].wrote[f] # "kept"
          BY <1>5, <2>1, <3>6, <4>1, <4>2, CommitEffect DEF Apart
        <4>4. work[t].wrote[f] = "none"
          BY <3>1, <4>1, <4>3 DEF OneWrites
        <4>5. work[t].freq = f
          BY <3>3, <4>4 DEF Active
        <4>6. work[t].kind = "run" /\ work[t].found = "none"
          <5>1. work[t] \in WorkType
            BY <3>1, OpenIsWork
          <5> QED
            BY <2>1, <3>3, <4>2, <4>5, <5>1 DEF Apart, WorkType
        <4>7. log'[f] # "none"
          BY <1>5, <4>3, CommitEffect
        <4> QED
          BY <3>1, <4>5, <4>6, <4>7 DEF Unbilled
      <3> QED
        BY <3>5, <3>6
    <2>2. ASSUME NEW m \in Members, NEW f \in Frequencies, f \notin raced
          PROVE  fees'[m][f] <= 1
      <3>1. CASE <<m, f>> \in work[s].raised
        <4>1. fees[m][f] = 0 /\ fees'[m][f] = fees[m][f] + 1
          BY <1>5, <2>2, <3>1, CommitEffect
        <4> QED
          BY <4>1
      <3>2. CASE <<m, f>> \notin work[s].raised
        <4>1. fees'[m][f] = fees[m][f]
          BY <1>5, <3>2, CommitEffect
        <4> QED
          BY <2>2, <4>1 DEF BilledOnce
      <3> QED
        BY <3>1, <3>2
    <2>3. raced' = raced
      BY <1>5, CommitEffect
    <2> QED
      BY <2>1, <2>2, <2>3 DEF RaisesNew, BilledOnce
  <1>6. ASSUME NEW s \in Sessions, Rollback(s)
        PROVE  RaisesNew' /\ BilledOnce'
    <2>1. \A t \in Sessions : Open(t)' => Open(t) /\ work'[t] = work[t]
      BY <1>6, CloseEffect
    <2>2. UNCHANGED <<fees, log, raced>>
      BY <1>6 DEF Rollback
    <2> QED
      BY <2>1, <2>2 DEF RaisesNew, Raises, Unbilled, BilledOnce
  <1>7. ASSUME NEW m \in Members, NEW f \in Frequencies, CancelFee(m, f)
        PROVE  RaisesNew' /\ BilledOnce'
    <2>1. UNCHANGED <<work, log, raced>>
      BY <1>7 DEF CancelFee
    <2>2. \A n \in Members, g \in Frequencies :
            fees'[n][g] \in Nat /\ fees'[n][g] <= fees[n][g]
      <3>1. fees[m][f] \in Nat /\ fees[m][f] > 0
        BY <1>7 DEF CancelFee, TypeOK
      <3>2. fees' = [fees EXCEPT ![m] = [fees[m] EXCEPT ![f] = fees[m][f] - 1]]
        BY <1>7 DEF CancelFee
      <3> QED
        BY <3>1, <3>2 DEF TypeOK
    <2>3. \A n \in Members, g \in Frequencies : fees[n][g] = 0 => fees'[n][g] = 0
      BY <2>2
    <2>4. \A n \in Members, g \in Frequencies : fees[n][g] <= 1 => fees'[n][g] <= 1
      BY <2>2 DEF TypeOK
    <2> QED
      BY <2>1, <2>3, <2>4 DEF RaisesNew, Raises, Unbilled, BilledOnce, Open
  <1>8. ASSUME UNCHANGED <<work, fees, log, raced>>
        PROVE  RaisesNew' /\ BilledOnce'
    BY <1>8 DEF RaisesNew, Raises, Unbilled, BilledOnce, Open
  <1>9. ASSUME NEW m \in Members, NEW f \in Frequencies, ChangePlan(m, f)
        PROVE  RaisesNew' /\ BilledOnce'
    BY <1>8, <1>9 DEF ChangePlan
  <1>10. CASE UNCHANGED vars
    BY <1>8, <1>10 DEF vars
  <1>11. ASSUME NEW s \in Sessions, Step(s)
         PROVE  MemberStep(s) \/ Passing(s) \/ (\E f \in Frequencies : Enter(s, f))
                \/ LogRun(s) \/ Commit(s) \/ Rollback(s)
    BY <1>11 DEF Step, MemberStep, Passing, Enter
  <1> QED
    BY <1>1, <1>2, <1>3, <1>4, <1>5, <1>6, <1>7, <1>9, <1>10, <1>11 DEF Next

------------------------------------------------------------------------------

\* The inductive invariant holds of every reachable state: any number of runs, by hand or
\* scheduled, at once, failing and starting again.
THEOREM FeeRunsInductive == Spec => []FeeRunsInv
  <1>1. Init => FeeRunsInv
    <2> SUFFICES ASSUME Init PROVE FeeRunsInv
      OBVIOUS
    <2>1. TypeOK /\ \A s \in Sessions : ~Open(s)
      BY TypeInit DEF Init, Open
    <2>2. \A m \in Members, f \in Frequencies : fees[m][f] = 0
      BY DEF Init
    <2> QED
      BY <2>1, <2>2 DEF FeeRunsInv, Shaped, OneWrites, FailureIsNew, Apart, RaisesNew, BilledOnce,
         Active
  <1>2. FeeRunsInv /\ [Next]_vars => FeeRunsInv'
    BY TypeNext, ShapedNext, WritesNext, ApartNext, RaisesNext DEF FeeRunsInv
  <1> QED
    BY <1>1, <1>2, PTL DEF Spec

\* Every column keeps a value of its kind, and who holds the lock of the number series is an
\* open transaction that has raised a fee.
THEOREM FeeRunsTyped == Spec => []TypeOK
  <1>1. FeeRunsInv => TypeOK
    BY DEF FeeRunsInv
  <1> QED
    BY <1>1, FeeRunsInductive, PTL

\* A member has one fee for a period, through concurrent runs, failures and retries: the row
\* two runs both insert lets one of them commit.
THEOREM OneFeePerPeriod == Spec => []BilledOnce
  <1>1. FeeRunsInv => BilledOnce
    BY DEF FeeRunsInv
  <1> QED
    BY <1>1, FeeRunsInductive, PTL

\* A step that leaves a billed period billed.
StaysBilled ==
  \A f \in Frequencies : log[f] = "success" =>
    /\ log'[f] = "success"
    /\ \/ f \in raced
       \/ \A m \in Members :
            fees'[m][f] > fees[m][f] =>
              \E s \in Sessions : Open(s) /\ work'[s] = Idle /\ work[s].kind = "byhand"

\* A period that was billed stays billed, and no run raises a fee for it after: only fees by
\* hand, and two retries of a failed run that raced.
THEOREM BilledPeriodIsClosed == Spec => OncePerPeriod
  <1>1. ASSUME log' = log, \A m \in Members, f \in Frequencies : ~(fees'[m][f] > fees[m][f])
        PROVE  StaysBilled
    BY <1>1 DEF StaysBilled
  <1>2. ASSUME TypeOK, log' = log, fees' = fees
        PROVE  StaysBilled
    <2>1. \A m \in Members, f \in Frequencies : ~(fees[m][f] > fees[m][f])
      BY <1>2 DEF TypeOK
    <2> QED
      BY <1>1, <1>2, <2>1
  <1>3. ASSUME FeeRunsInv, NEW s \in Sessions, Commit(s)
        PROVE  StaysBilled
    <2> USE DEF FeeRunsInv
    <2>1. work'[s] = Idle /\ Open(s) /\ work[s] \in WorkType
      BY <1>3, OpenIsWork DEF Commit, TypeOK
    <2>2. ASSUME NEW f \in Frequencies, log[f] = "success"
          PROVE  /\ log'[f] = "success"
                 /\ \/ f \in raced
                    \/ \A m \in Members :
                         fees'[m][f] > fees[m][f] => work[s].kind = "byhand"
      <3>1. work[s].wrote[f] # "failed"
        BY <1>3, <2>1, <2>2 DEF FailureIsNew
      <3>2. log'[f] = "success"
        BY <1>3, <2>1, <2>2, <3>1, CommitEffect DEF WorkType
      <3>3. ASSUME f \notin raced, NEW m \in Members, fees'[m][f] > fees[m][f]
            PROVE  work[s].kind = "byhand"
        <4>1. <<m, f>> \in work[s].raised
          <5>1. CASE <<m, f>> \notin work[s].raised
            BY <1>3, <3>3, <5>1, CommitEffect DEF TypeOK
          <5> QED
            BY <5>1
        <4>2. work[s].wrote[f] = "none"
          BY <2>1, <1>3, <2>2, <3>3 DEF Apart, Active
        <4> QED
          BY <1>3, <4>1, <4>2, CommitEffect
      <3> QED
        BY <3>2, <3>3
    <2> QED
      BY <2>1, <2>2 DEF StaysBilled
  <1>4. ASSUME TypeOK, NEW m \in Members, NEW f \in Frequencies, CancelFee(m, f)
        PROVE  StaysBilled
    <2>1. fees[m][f] \in Nat /\ log' = log
      BY <1>4 DEF CancelFee, TypeOK
    <2>2. fees' = [fees EXCEPT ![m] = [fees[m] EXCEPT ![f] = fees[m][f] - 1]]
      BY <1>4 DEF CancelFee
    <2>3. \A n \in Members, g \in Frequencies : ~(fees'[n][g] > fees[n][g])
      BY <1>4, <2>1, <2>2 DEF TypeOK
    <2> QED
      BY <1>1, <2>1, <2>3
  <1>5. ASSUME FeeRunsInv, [Next]_vars
        PROVE  StaysBilled
    <2>1. TypeOK
      BY <1>5 DEF FeeRunsInv
    <2>2. ASSUME NEW s \in Sessions, Step(s), ~Commit(s)
          PROVE  log' = log /\ fees' = fees
      BY <2>2 DEF Step, BeginRun, BeginByHand, StartFrequency, Check, RaiseFee, FailFrequency,
         LogRun, Rollback
    <2>3. ASSUME NEW s \in Sessions, Step(s)
          PROVE  StaysBilled
      BY <1>2, <1>3, <1>5, <2>1, <2>2, <2>3
    <2>4. ASSUME NEW m \in Members, NEW f \in Frequencies, ChangePlan(m, f)
          PROVE  StaysBilled
      BY <1>2, <2>1, <2>4 DEF ChangePlan
    <2>5. CASE UNCHANGED vars
      BY <1>2, <2>1, <2>5 DEF vars
    <2> QED
      BY <1>4, <1>5, <2>1, <2>3, <2>4, <2>5 DEF Next
  <1>6. FeeRunsInv /\ [Next]_vars => [StaysBilled]_vars
    BY <1>5
  <1> QED
    BY <1>6, FeeRunsInductive, PTL DEF Spec, OncePerPeriod, StaysBilled

------------------------------------------------------------------------------
(* That FeeRuns implements PeriodLedger.                                   *)

\* A frequency that failed has raised nothing, and goes on raising nothing; who has written
\* the row of a period and raised fees for it has written a success.
Savepoint(w) ==
  /\ w.kind = "run" /\ w.result = "failed" => w.people = {}
  /\ \A m \in Members, f \in Frequencies : <<m, f>> \in w.raised =>
       /\ w.wrote[f] \in {"none", "success"}
       /\ w.kind = "run" /\ w.result = "failed" => w.freq # f

Savepoints == \A s \in Sessions : Open(s) => Savepoint(work[s])

\* What a savepoint rolls back is what its frequency raised, whatever step comes.
LEMMA SavepointsNext ==
  ASSUME TypeOK, Shaped, Savepoints, [Next]_vars
  PROVE  Savepoints'
  <1>0. work \in [Sessions -> WorkType \cup {Idle}] /\ Idle \notin WorkType
    BY IdleIsNoWork DEF TypeOK
  <1>1. ASSUME NEW s \in Sessions, NEW w \in WorkType, Savepoint(w), work' = [work EXCEPT ![s] = w]
        PROVE  Savepoints'
    BY <1>0, <1>1 DEF Savepoints, Open
  <1>2. ASSUME NEW s \in Sessions, NEW due \in SUBSET Frequencies, BeginRun(s, due)
        PROVE  Savepoints'
    <2>1. PICK w \in WorkType : /\ work' = [work EXCEPT ![s] = w]
                                /\ w = [Blank EXCEPT !.rest = due]
      BY <1>2, BeginRunWork
    <2>2. Savepoint(w)
      BY <2>1 DEF Savepoint, Blank
    <2> QED
      BY <1>1, <2>1, <2>2
  <1>3. ASSUME NEW s \in Sessions, NEW f \in Frequencies, BeginByHand(s, f)
        PROVE  Savepoints'
    <2>1. PICK w \in WorkType : /\ work' = [work EXCEPT ![s] = w]
                                /\ w = [Blank EXCEPT !.kind = "byhand", !.freq = f,
                                                     !.people = Members]
      BY <1>3, BeginByHandWork
    <2>2. Savepoint(w)
      BY <2>1 DEF Savepoint, Blank
    <2> QED
      BY <1>1, <2>1, <2>2
  <1>4. ASSUME NEW s \in Sessions, NEW f \in Frequencies, StartFrequency(s, f)
        PROVE  Savepoints'
    <2>1. PICK w \in WorkType :
            /\ work' = [work EXCEPT ![s] = w]
            /\ w = IF Billed(f) THEN [work[s] EXCEPT !.rest = @ \ {f}]
                   ELSE [work[s] EXCEPT !.freq = f, !.found = log[f],
                                        !.people = {m \in Members : plan[m] = f},
                                        !.mark = work[s].raised, !.result = "success"]
      BY <1>4, StartFrequencyWork
    <2>2. work[s] \in WorkType /\ Savepoint(work[s])
      BY <1>4, OpenIsWork DEF StartFrequency, Savepoints
    <2>3. Savepoint(w)
      BY <2>1, <2>2 DEF Savepoint, WorkType
    <2> QED
      BY <1>1, <2>1, <2>3
  <1>5. ASSUME NEW s \in Sessions, NEW m \in Members, NEW other \in BOOLEAN, Check(s, m, other)
        PROVE  Savepoints'
    <2>1. PICK w \in WorkType :
            /\ work' = [work EXCEPT ![s] = w]
            /\ w = IF fees[m][work[s].freq] > 0 \/ other
                   THEN [work[s] EXCEPT !.people = @ \ {m}]
                   ELSE [work[s] EXCEPT !.checked = m]
      BY <1>5, CheckWork
    <2>2. work[s] \in WorkType /\ Savepoint(work[s])
      BY <1>5, OpenIsWork DEF Check, Savepoints
    <2>3. Savepoint(w)
      BY <2>1, <2>2 DEF Savepoint, WorkType
    <2> QED
      BY <1>1, <2>1, <2>3
  <1>6. ASSUME NEW s \in Sessions, RaiseFee(s)
        PROVE  Savepoints'
    <2>1. PICK w \in WorkType :
            /\ work' = [work EXCEPT ![s] = w]
            /\ w = [work[s] EXCEPT !.checked = NoMember,
                                   !.people = @ \ {work[s].checked},
                                   !.raised = @ \cup {<<work[s].checked, work[s].freq>>}]
      BY <1>6, RaiseFeeWork
    <2>2. /\ work[s] \in WorkType /\ Shape(work[s]) /\ Savepoint(work[s])
          /\ work[s].checked \in work[s].people
      BY <1>6, OpenIsWork DEF RaiseFee, Shaped, Shape, Savepoints
    <2>3. work[s].freq \in Frequencies /\ work[s].wrote[work[s].freq] = "none"
      BY <2>2 DEF Shape, WorkType
    <2>4. Savepoint(w)
      BY <2>1, <2>2, <2>3 DEF Savepoint, WorkType
    <2> QED
      BY <1>1, <2>1, <2>4
  <1>7. ASSUME NEW s \in Sessions, FailFrequency(s)
        PROVE  Savepoints'
    <2>1. PICK w \in WorkType :
            /\ work' = [work EXCEPT ![s] = w]
            /\ w = [work[s] EXCEPT !.people = {}, !.checked = NoMember,
                                   !.raised = work[s].mark, !.result = "failed"]
      BY <1>7, FailFrequencyWork
    <2>2. /\ work[s] \in WorkType /\ Shape(work[s]) /\ Savepoint(work[s])
          /\ work[s].kind = "run" /\ work[s].freq # NoFrequency
      BY <1>7, OpenIsWork DEF FailFrequency, Shaped, Savepoints
    <2>3. \A m \in Members, f \in Frequencies : <<m, f>> \in work[s].mark => work[s].freq # f
      BY <2>2 DEF Shape
    <2>4. work[s].mark \subseteq work[s].raised
      BY <2>2 DEF Shape
    <2>5. Savepoint(w)
      BY <2>1, <2>2, <2>3, <2>4 DEF Savepoint, WorkType
    <2> QED
      BY <1>1, <2>1, <2>5
  <1>8. ASSUME NEW s \in Sessions, LogRun(s)
        PROVE  Savepoints'
    <2>1. PICK w \in WorkType :
            /\ work' = [work EXCEPT ![s] = w]
            /\ w = [work[s] EXCEPT
                      !.wrote = [work[s].wrote EXCEPT ![work[s].freq] = Outcome(s)],
                      !.freq = NoFrequency, !.rest = @ \ {work[s].freq}]
      BY <1>8, LogRunWork
    <2>2. /\ work[s] \in WorkType /\ Savepoint(work[s]) /\ work[s].kind = "run"
          /\ work[s].people = {}
      BY <1>8, OpenIsWork DEF LogRun, Savepoints, Generated
    <2>3. work[s].result = "success" => Outcome(s) = "success"
      BY <2>2 DEF Outcome, WorkType
    <2>4. /\ w.people = {} /\ w.freq = NoFrequency /\ w.raised = work[s].raised
          /\ \A f \in Frequencies :
               w.wrote[f] = IF f = work[s].freq THEN Outcome(s) ELSE work[s].wrote[f]
      BY <2>1, <2>2 DEF WorkType
    <2>5. work[s].result \in {"success", "failed"}
      BY <2>2 DEF WorkType
    <2>6. Savepoint(w)
      BY <2>2, <2>3, <2>4, <2>5, NothingIsNothing DEF Savepoint
    <2> QED
      BY <1>1, <2>1, <2>6
  <1>9. ASSUME NEW s \in Sessions, Commit(s) \/ Rollback(s)
        PROVE  Savepoints'
    <2>1. work' = [work EXCEPT ![s] = Idle]
      BY <1>9 DEF Commit, Rollback
    <2> QED
      BY <1>0, <2>1 DEF Savepoints, Open
  <1>10. ASSUME work' = work
         PROVE  Savepoints'
    BY <1>10 DEF Savepoints, Open
  <1>11. ASSUME NEW m \in Members, NEW f \in Frequencies, ChangePlan(m, f) \/ CancelFee(m, f)
         PROVE  Savepoints'
    BY <1>10, <1>11 DEF ChangePlan, CancelFee
  <1>12. CASE UNCHANGED vars
    BY <1>10, <1>12 DEF vars
  <1> QED
    BY <1>2, <1>3, <1>4, <1>5, <1>6, <1>7, <1>8, <1>9, <1>11, <1>12 DEF Next, Step

ledgerVars == <<fees, log, raced>>

\* A commit bills whom it raised a fee for, and records it, all at once.
LEMMA CommitBills ==
  ASSUME FeeRunsInv, Savepoints, NEW s \in Sessions, Commit(s)
  PROVE  \E S \in SUBSET Pairs : Ledger!Run(S) \/ Ledger!ByHand(S)
  <1> DEFINE S == work[s].raised
  <1> USE DEF FeeRunsInv
  <1>1. /\ Open(s) /\ work[s] \in WorkType /\ Shape(work[s]) /\ Savepoint(work[s])
        /\ raced' = raced
    BY OpenIsWork, CommitEffect DEF Commit, Shaped, Savepoints
  <1>2. S \in SUBSET Pairs
    BY <1>1 DEF WorkType, Pairs
  <1>3. Ledger!AreDue(S) /\ Ledger!Add(S)
    <2>1. \A m \in Members, f \in Frequencies :
            <<m, f>> \in S /\ f \notin raced => fees[m][f] = 0
      BY CommitEffect
    <2> QED
      BY <2>1 DEF Commit, Ledger!AreDue, Ledger!Add
  <1>4. CASE work[s].kind = "run"
    <2>1. ASSUME NEW f \in Frequencies
          PROVE  \/ log'[f] = log[f]
                 \/ log[f] # "success" /\ log'[f] = "success"
                 \/ log[f] = "none" /\ log'[f] = "failed"
      <3>1. work[s].wrote[f] \in {"none", "kept", "success", "failed"}
        BY <1>1 DEF WorkType
      <3>2. work[s].wrote[f] = "failed" => log[f] = "none"
        BY <1>1 DEF FailureIsNew
      <3> QED
        BY <3>1, <3>2, CommitEffect
    <2>2. ASSUME NEW m \in Members, NEW f \in Frequencies, <<m, f>> \in S
          PROVE  log'[f] = "success" /\ (f \in raced \/ log[f] # "success")
      <3>1. work[s].wrote[f] = "success"
        BY <1>1, <1>4, <2>2, CommitEffect DEF Savepoint
      <3>2. log'[f] = "success"
        BY <3>1, CommitEffect
      <3>3. f \in raced \/ log[f] # "success"
        BY <1>1, <3>1 DEF Apart, Active
      <3> QED
        BY <3>2, <3>3
    <2>3. Ledger!Run(S)
      BY <1>1, <1>3, <2>1, <2>2 DEF Ledger!Run, Ledger!RecordGrows
    <2> QED
      BY <1>2, <2>3 DEF Ledger!Run
  <1>5. CASE work[s].kind = "byhand"
    <2>1. \A f \in Frequencies : work[s].wrote[f] = "none"
      BY <1>1, <1>5 DEF Shape
    <2>2. log' = log
      BY <2>1 DEF Commit, TypeOK
    <2>3. \A p \in S : p[2] = work[s].freq
      BY <1>1, <1>2, <2>1 DEF Shape, Pairs
    <2>4. Ledger!ByHand(S)
      BY <1>1, <1>3, <2>2, <2>3 DEF Ledger!ByHand
    <2> QED
      BY <1>2, <2>4 DEF Ledger!ByHand
  <1> QED
    BY <1>1, <1>4, <1>5 DEF WorkType

\* Nothing else bills anybody: a step may only let a period be contested.
LEMMA OpenRunsBillNobody ==
  ASSUME NEW s \in Sessions, Step(s), ~Commit(s)
  PROVE  (\E f \in Frequencies : Ledger!Contest(f)) \/ UNCHANGED ledgerVars
  <1>1. fees' = fees /\ log' = log
    BY DEF Step, BeginRun, BeginByHand, StartFrequency, Check, RaiseFee, FailFrequency, LogRun,
           Rollback
  <1>2. ASSUME NEW f \in Frequencies, BeginByHand(s, f) \/ StartFrequency(s, f)
        PROVE  raced' = raced \/ raced' = raced \cup {f}
    BY <1>2 DEF BeginByHand, StartFrequency, Race
  <1>3. raced' = raced \/ \E f \in Frequencies : raced' = raced \cup {f}
    BY <1>2 DEF Step, BeginRun, Check, RaiseFee, FailFrequency, LogRun, Rollback
  <1> QED
    BY <1>1, <1>3 DEF ledgerVars, Ledger!Contest

\* However many transactions are open, whatever fails in its savepoint and is retried,
\* generate_membership_fees and run_billing do in their commits what PeriodLedger does in
\* single steps: the fees of a period and its record come together, for members without one.
THEOREM FeeRunsImplement == Spec => ImplementsPeriodLedger
  <1>1. Init => Ledger!Init /\ Savepoints
    BY DEF Init, Ledger!Init, Savepoints, Open
  <1>2. FeeRunsInv /\ Savepoints /\ [Next]_vars => Savepoints'
    BY SavepointsNext DEF FeeRunsInv
  <1>3. FeeRunsInv /\ Savepoints /\ [Next]_vars => [Ledger!Next]_ledgerVars
    <2> SUFFICES ASSUME FeeRunsInv, Savepoints, [Next]_vars
                 PROVE  [Ledger!Next]_ledgerVars
      OBVIOUS
    <2>1. ASSUME NEW s \in Sessions, Commit(s)
          PROVE  Ledger!Next
      BY <2>1, CommitBills DEF Ledger!Next, Pairs
    <2>2. ASSUME NEW s \in Sessions, Step(s), ~Commit(s)
          PROVE  [Ledger!Next]_ledgerVars
      BY <2>2, OpenRunsBillNobody DEF Ledger!Next
    <2>3. ASSUME NEW m \in Members, NEW f \in Frequencies, CancelFee(m, f)
          PROVE  Ledger!Next
      <3>1. Ledger!Cancel(m, f)
        BY <2>3 DEF CancelFee, Ledger!Cancel
      <3> QED
        BY <3>1 DEF Ledger!Next
    <2>4. ASSUME NEW m \in Members, NEW f \in Frequencies, ChangePlan(m, f)
          PROVE  UNCHANGED ledgerVars
      BY <2>4 DEF ChangePlan, ledgerVars
    <2>5. ASSUME UNCHANGED vars
          PROVE  UNCHANGED ledgerVars
      BY <2>5 DEF vars, ledgerVars
    <2> QED
      BY <2>1, <2>2, <2>3, <2>4, <2>5 DEF Next
  <1> QED
    BY <1>1, <1>2, <1>3, FeeRunsInductive, PTL
       DEF Spec, ImplementsPeriodLedger, Ledger!Spec, Ledger!vars, ledgerVars
==============================================================================
