------------------------- MODULE RegistrationsProofs -------------------------
(***************************************************************************)
(* That the cached counters are the numbers of the rows, that a place is   *)
(* billed once and that only an administrator seats people beyond the      *)
(* capacity, for any number of registrations, modalities, receipts and     *)
(* open transactions.                                                      *)
(*                                                                         *)
(* A commit marks every transaction it overtakes, so one that is not       *)
(* marked has read what still stands: its counters are those of the rows,  *)
(* and what it writes over them are those of the rows it leaves.           *)
(***************************************************************************)
EXTENDS Registrations, FiniteSetTheorems, TLAPS

\* What an open transaction that nobody has overtaken has read still stands; whom it
\* promotes is waiting for the modality of the seat it frees.
Fresh ==
  \A s \in Sessions : work[s] # Idle /\ ~work[s].stale =>
    LET w == work[s] IN
    /\ w.was = status[w.reg] /\ w.was # w.to
    /\ w.seats = seats /\ w.waiting = waiting
    /\ w.modSeats = ModCount(offer[w.reg].mod)
    /\ w.next # NoRow => Frees(w) /\ w.next \in InLine(offer[w.reg].mod)

\* Any two receipts that stand for one registration are the same.
OneStands == \A g \in Rows : \A b, c \in LiveBills(g) : b = c

\* The inductive invariant.
RegistrationsInv == TypeOK /\ Fresh /\ CountersAreTheRows /\ OneStands

------------------------------------------------------------------------------

\* Registrations are finitely many, and so is any choice of them.
LEMMA RowsAreCounted ==
  ASSUME NEW S \in SUBSET Rows
  PROVE  IsFiniteSet(S) /\ Cardinality(S) \in Nat
  BY RowsAreNumbered, FS_Subset, FS_CardinalityType

\* One row more, one row less: a counter above nothing goes down by one.
LEMMA OneMore ==
  ASSUME NEW S \in SUBSET Rows, NEW g \in Rows \ S
  PROVE  Cardinality(S \cup {g}) = Cardinality(S) + 1
  BY RowsAreCounted, FS_AddElement

\* A set with one row less counts one less, and had one to give.
LEMMA OneLess ==
  ASSUME NEW S \in SUBSET Rows, NEW g \in S
  PROVE  Cardinality(S \ {g}) = Down(Cardinality(S)) /\ Cardinality(S) >= 1
  <1>1. Cardinality(S \ {g}) = Cardinality(S) - 1
    BY RowsAreCounted, FS_RemoveElement
  <1>2. S \ {g} \in SUBSET Rows
    OBVIOUS
  <1>3. Cardinality(S \ {g}) \in Nat /\ Cardinality(S) \in Nat
    BY <1>2, RowsAreCounted
  <1> QED
    BY <1>1, <1>3 DEF Down

\* A counter that goes down stays a number.
LEMMA DownIsNat ==
  ASSUME NEW n \in Nat
  PROVE  Down(n) \in Nat
  BY DEF Down

\* A commit marks whatever it leaves open.
LEMMA OvertakenAreMarked ==
  ASSUME TypeOK, NEW but, work' = Overtake(but)
  PROVE  /\ work' \in [Sessions -> WorkType \cup {Idle}]
         /\ \A s \in Sessions : work'[s] # Idle => work'[s].stale
  <1> SUFFICES ASSUME NEW s \in Sessions
               PROVE  /\ work'[s] \in WorkType \cup {Idle}
                      /\ work'[s] # Idle => work'[s].stale
    BY DEF Overtake
  <1>1. CASE s = but \/ work[s] = Idle
    BY <1>1 DEF Overtake
  <1>2. CASE ~(s = but \/ work[s] = Idle)
    <2>1. work'[s] = [work[s] EXCEPT !.stale = TRUE] /\ work[s] \in WorkType
      BY <1>2 DEF Overtake, TypeOK
    <2> QED
      BY <2>1 DEF WorkType
  <1> QED
    BY <1>1, <1>2

\* A row's modality is known, and so is its count.
LEMMA OffersHaveModalities ==
  ASSUME TypeOK, NEW g \in Rows
  PROVE  /\ offer[g].mod \in Modalities \cup {NoModality}
         /\ ModCount(offer[g].mod) \in Nat
  <1>1. offer[g].mod \in Modalities \cup {NoModality}
    BY OffersAreTyped DEF TypeOK, NoOffer
  <1> QED
    BY <1>1 DEF TypeOK, ModCount

------------------------------------------------------------------------------

\* The initial state is typed.
LEMMA TypeInit == Init => TypeOK
  <1> SUFFICES ASSUME Init PROVE TypeOK
    OBVIOUS
  <1>1. /\ status \in [Rows -> RegistrationStatuses \cup {"none"}]
        /\ party \in [Rows -> Parties \cup {NoParty}]
        /\ offer \in [Rows -> Offers \cup {NoOffer}]
    BY DEF Init
  <1>2. /\ bill \in [Bills -> {"none", "owed", "kept", "cancelled"}]
        /\ billOf \in [Bills -> Rows \cup {NoRow}]
    BY DEF Init
  <1>3. work \in [Sessions -> WorkType \cup {Idle}]
    BY DEF Init
  <1>4. modSeats \in [Modalities -> Nat]
    BY DEF Init
  <1> QED
    BY <1>1, <1>2, <1>3, <1>4 DEF Init, TypeOK

\* Raising a receipt keeps the types of the receipts' columns.
LEMMA RaiseTypes ==
  ASSUME TypeOK, NEW g \in Rows \cup {NoRow}, NEW b, NEW S,
         NEW bs, bs = [c \in Bills |-> IF c \in S THEN "cancelled" ELSE bill[c]]
  PROVE  /\ Raise(bs, b) \in [Bills -> {"none", "owed", "kept", "cancelled"}]
         /\ Raise(bill, b) \in [Bills -> {"none", "owed", "kept", "cancelled"}]
         /\ RaiseFor(b, g) \in [Bills -> Rows \cup {NoRow}]
  BY DEF TypeOK, Raise, RaiseFor

\* A registration keeps the types.
LEMMA TypeRegister ==
  ASSUME TypeOK, NEW g \in Rows, NEW p \in Parties, NEW o \in Offers,
         NEW waitlists \in BOOLEAN, NEW b \in Bills \cup {NoBill},
         Register(g, p, o, waitlists, b)
  PROVE  TypeOK'
  <1>1. work' \in [Sessions -> WorkType \cup {Idle}]
    BY OvertakenAreMarked DEF Register
  <1>2. bill' \in [Bills -> {"none", "owed", "kept", "cancelled"}]
    BY RaiseTypes DEF Register
  <1>3. billOf' \in [Bills -> Rows \cup {NoRow}]
    BY RaiseTypes DEF Register
  <1>4. /\ status' \in [Rows -> RegistrationStatuses \cup {"none"}]
        /\ party' \in [Rows -> Parties \cup {NoParty}]
        /\ offer' \in [Rows -> Offers \cup {NoOffer}]
    BY DEF TypeOK, Register, RegistrationStatuses
  <1>5. seats' \in Nat /\ waiting' \in Nat /\ uses' \in Nat
    BY DEF TypeOK, Register
  <1>6. modSeats' \in [Modalities -> Nat]
    BY OffersAreTyped DEF TypeOK, Register
  <1>7. cap' \in Caps /\ changes' \in Nat /\ overtaken' \in BOOLEAN
    BY DEF TypeOK, Register
  <1> QED
    BY <1>1, <1>2, <1>3, <1>4, <1>5, <1>6, <1>7 DEF TypeOK

\* What Load leaves open, field by field.
LEMMA LoadWork ==
  ASSUME TypeOK, NEW s \in Sessions, NEW g \in Rows, NEW how \in Hows,
         NEW to \in RegistrationStatuses, Load(s, g, how, to)
  PROVE  \E w \in WorkType :
           /\ work' = [work EXCEPT ![s] = w]
           /\ w.reg = g /\ w.was = status[g] /\ w.to = to /\ w.how = how
           /\ w.seats = seats /\ w.waiting = waiting
           /\ w.modSeats = ModCount(offer[g].mod)
           /\ w.next # NoRow => Frees(w) /\ w.next \in InLine(offer[g].mod)
  <1> DEFINE base == [reg |-> g, how |-> how, was |-> status[g], to |-> to,
                      seats |-> seats, modSeats |-> ModCount(offer[g].mod),
                      waiting |-> waiting, cap |-> cap, next |-> NoRow,
                      owed |-> OwedBills(g), stale |-> FALSE]
             With(n) == [base EXCEPT !.next = n]
  <1>1. PICK n \in IF Promoted(base) = {} THEN {NoRow} ELSE Promoted(base) :
          work' = [work EXCEPT ![s] = With(n)]
    BY DEF Load, Read
  <1>2. n # NoRow => Frees(base) /\ n \in InLine(offer[g].mod)
    BY <1>1 DEF Promoted, FirstInLine
  <1>3. n \in Rows \cup {NoRow}
    BY <1>1, <1>2 DEF InLine, Having
  <1>4. /\ status[g] \in RegistrationStatuses
        /\ cap \in Nat /\ seats \in Nat /\ waiting \in Nat
        /\ ModCount(offer[g].mod) \in Nat
        /\ OwedBills(g) \in SUBSET Bills
        /\ how \in {"cancel", "admin"}
    BY OffersHaveModalities, CapsAreCounts, HowsAreHows DEF TypeOK, Load, OwedBills
  <1>5. With(n) \in WorkType
    BY <1>3, <1>4 DEF WorkType
  <1>6. /\ With(n).reg = g /\ With(n).was = status[g] /\ With(n).to = to
        /\ With(n).how = how /\ With(n).seats = seats /\ With(n).waiting = waiting
        /\ With(n).modSeats = ModCount(offer[g].mod) /\ With(n).next = n
    OBVIOUS
  <1>7. n # NoRow => Frees(With(n))
    BY <1>2, <1>6 DEF Frees
  <1> HIDE DEF With
  <1> QED
    BY <1>1, <1>2, <1>5, <1>6, <1>7

\* A transaction that loads keeps the types.
LEMMA TypeLoad ==
  ASSUME TypeOK, NEW s \in Sessions, NEW g \in Rows, NEW how \in Hows,
         NEW to \in RegistrationStatuses, Load(s, g, how, to)
  PROVE  TypeOK'
  <1>1. work' \in [Sessions -> WorkType \cup {Idle}]
    BY LoadWork DEF TypeOK
  <1>2. changes' \in Nat
    BY DEF Load, TypeOK
  <1> QED
    BY <1>1, <1>2 DEF Load, TypeOK, rowVars, countVars, billVars

\* The counters as a transaction leaves them are numbers.
LEMMA LeftAreNats ==
  ASSUME NEW w \in WorkType
  PROVE  SeatsLeft(w) \in Nat /\ ModSeatsLeft(w) \in Nat /\ WaitingLeft(w) \in Nat
  <1>1. w.seats \in Nat /\ w.modSeats \in Nat /\ w.waiting \in Nat
    BY DEF WorkType
  <1>2. Down(w.seats) \in Nat /\ Down(w.modSeats) \in Nat /\ Down(w.waiting) \in Nat
    BY <1>1, DownIsNat
  <1>3. Down(w.waiting + 1) \in Nat /\ Down(Down(w.waiting)) \in Nat
    BY <1>1, <1>2, DownIsNat
  <1> QED
    BY <1>1, <1>2, <1>3 DEF SeatsLeft, ModSeatsLeft, WaitingLeft

\* A transaction that commits keeps the types.
LEMMA TypeFinish ==
  ASSUME TypeOK, NEW s \in Sessions, NEW b \in Bills \cup {NoBill}, Finish(s, b)
  PROVE  TypeOK'
  <1> DEFINE w == work[s]
             seated == IF w.to = "confirmed" THEN w.reg ELSE w.next
  <1>1. w \in WorkType
    BY DEF Finish, TypeOK
  <1>2. w.reg \in Rows /\ w.to \in RegistrationStatuses /\ seated \in Rows \cup {NoRow}
    BY <1>1 DEF WorkType
  <1>3. work' \in [Sessions -> WorkType \cup {Idle}]
    BY OvertakenAreMarked DEF Finish
  <1>4. bill' \in [Bills -> {"none", "owed", "kept", "cancelled"}]
    BY <1>2, RaiseTypes DEF Finish
  <1>5. billOf' \in [Bills -> Rows \cup {NoRow}]
    BY <1>2, RaiseTypes DEF Finish
  <1>6. status' \in [Rows -> RegistrationStatuses \cup {"none"}]
    BY <1>2 DEF TypeOK, Finish, RegistrationStatuses
  <1>7. seats' \in Nat /\ waiting' \in Nat
    BY <1>1, LeftAreNats DEF TypeOK, Finish, Written
  <1>8. modSeats' \in [Modalities -> Nat]
    BY <1>1, LeftAreNats DEF TypeOK, Finish, Written
  <1>9. uses' \in Nat
    BY DownIsNat DEF TypeOK, Finish, UsesLeft
  <1>10. overtaken' \in BOOLEAN
    BY <1>1 DEF Finish, TypeOK, WorkType
  <1> QED
    BY <1>3, <1>4, <1>5, <1>6, <1>7, <1>8, <1>9, <1>10 DEF TypeOK, Finish

\* Every step keeps the types.
LEMMA TypeStep ==
  ASSUME TypeOK, [Next]_vars
  PROVE  TypeOK'
  <1>1. ASSUME NEW c \in Caps, SetCap(c)
        PROVE  TypeOK'
    <2>1. work' \in [Sessions -> WorkType \cup {Idle}]
      BY <1>1, OvertakenAreMarked DEF SetCap
    <2> QED
      BY <1>1, <2>1 DEF SetCap, TypeOK, rowVars, countVars, billVars
  <1>2. ASSUME NEW b \in Bills, NEW st \in {"owed", "kept", "cancelled"}, MoveBill(b, st)
        PROVE  TypeOK'
    <2>1. bill' \in [Bills -> {"none", "owed", "kept", "cancelled"}]
      BY <1>2 DEF MoveBill, TypeOK
    <2> QED
      BY <1>2, <2>1 DEF MoveBill, TypeOK, rowVars, countVars, workVars
  <1>3. CASE UNCHANGED vars
    BY <1>3 DEF TypeOK, vars, rowVars, countVars, billVars, workVars
  <1>4. ASSUME NEW s \in Sessions, Abandon(s)
        PROVE  TypeOK'
    BY <1>4 DEF Abandon, TypeOK, rowVars, countVars, billVars
  <1> QED
    BY <1>1, <1>2, <1>3, <1>4, TypeRegister, TypeLoad, TypeFinish DEF Next, Change

------------------------------------------------------------------------------

\* What was read still stands until something commits, and then it is marked.
LEMMA FreshStep ==
  ASSUME TypeOK, Fresh, [Next]_vars
  PROVE  Fresh'
  <1>1. ASSUME \A s \in Sessions : work'[s] # Idle => work'[s].stale
        PROVE  Fresh'
    BY <1>1 DEF Fresh
  <1>2. ASSUME NEW s \in Sessions, NEW g \in Rows, NEW how \in Hows,
               NEW to \in RegistrationStatuses, Load(s, g, how, to)
        PROVE  Fresh'
    <2>1. PICK w \in WorkType :
             /\ work' = [work EXCEPT ![s] = w]
             /\ w.reg = g /\ w.was = status[g] /\ w.to = to
             /\ w.seats = seats /\ w.waiting = waiting
             /\ w.modSeats = ModCount(offer[g].mod)
             /\ w.next # NoRow => Frees(w) /\ w.next \in InLine(offer[g].mod)
      BY <1>2, LoadWork
    <2>2. UNCHANGED <<status, offer, seats, modSeats, waiting>>
      BY <1>2 DEF Load, rowVars, countVars
    <2>3. /\ \A m : InLine(m)' = InLine(m) /\ ModCount(m)' = ModCount(m)
          /\ \A v : Frees(v)' = Frees(v)
      BY <2>2 DEF InLine, Having, In, ModCount, Frees
    <2>4. work'[s] = w /\ \A t \in Sessions \ {s} : work'[t] = work[t]
      BY <2>1 DEF TypeOK
    <2>5. w.was # w.to
      BY <1>2, <2>1 DEF Load
    <2> SUFFICES ASSUME NEW t \in Sessions, work'[t] # Idle, ~work'[t].stale
                 PROVE  /\ work'[t].was = status[work'[t].reg] /\ work'[t].was # work'[t].to
                        /\ work'[t].seats = seats /\ work'[t].waiting = waiting
                        /\ work'[t].modSeats = ModCount(offer[work'[t].reg].mod)
                        /\ work'[t].next # NoRow =>
                             /\ Frees(work'[t])
                             /\ work'[t].next \in InLine(offer[work'[t].reg].mod)
      BY <2>2, <2>3 DEF Fresh, ModCount, InLine, Having, In, Frees
    <2>6. CASE t = s
      BY <2>1, <2>4, <2>5, <2>6
    <2>7. CASE t # s
      BY <2>4, <2>7 DEF Fresh
    <2> QED
      BY <2>6, <2>7
  <1>3. ASSUME NEW but, work' = Overtake(but)
        PROVE  Fresh'
    BY <1>1, <1>3, OvertakenAreMarked
  <1>4. CASE UNCHANGED vars
    BY <1>4 DEF Fresh, vars, rowVars, countVars, billVars, workVars, ModCount, InLine,
                Having, In, Frees
  <1>5. ASSUME NEW g \in Rows, NEW p \in Parties, NEW o \in Offers,
               NEW waitlists \in BOOLEAN, NEW b \in Bills \cup {NoBill},
               Register(g, p, o, waitlists, b)
        PROVE  Fresh'
    BY <1>3, <1>5 DEF Register
  <1>6. ASSUME NEW s \in Sessions, NEW b \in Bills \cup {NoBill}, Finish(s, b)
        PROVE  Fresh'
    BY <1>3, <1>6 DEF Finish
  <1>7. ASSUME NEW c \in Caps, SetCap(c)
        PROVE  Fresh'
    BY <1>3, <1>7 DEF SetCap
  <1>8. ASSUME UNCHANGED <<rowVars, countVars>>,
               \A s \in Sessions : work'[s] \in {work[s], Idle}
        PROVE  Fresh'
    BY <1>8 DEF Fresh, rowVars, countVars, ModCount, InLine, Having, In, Frees
  <1>9. ASSUME NEW b \in Bills, NEW st \in {"owed", "kept", "cancelled"}, MoveBill(b, st)
        PROVE  Fresh'
    BY <1>8, <1>9 DEF MoveBill, workVars
  <1>10. ASSUME NEW s \in Sessions, Abandon(s)
         PROVE  Fresh'
    BY <1>8, <1>10 DEF Abandon, TypeOK
  <1> QED
    BY <1>2, <1>4, <1>5, <1>6, <1>7, <1>9, <1>10 DEF Next, Change

------------------------------------------------------------------------------

\* A receipt is raised only where none stands, and never for two registrations.
LEMMA RaisedAlone ==
  ASSUME TypeOK, OneStands, NEW g \in Rows \cup {NoRow}, NEW priced, NEW b, NEW S,
         g = NoRow => b = NoBill,
         g # NoRow => Ensure(g, priced, b),
         bill' = Raise([c \in Bills |-> IF c \in S THEN "cancelled" ELSE bill[c]], b),
         billOf' = RaiseFor(b, g)
  PROVE  OneStands'
  <1> SUFFICES ASSUME NEW h \in Rows, NEW x \in LiveBills(h)', NEW y \in LiveBills(h)'
               PROVE  x = y
    BY DEF OneStands
  <1>1. /\ x \in Bills /\ billOf'[x] = h /\ bill'[x] \notin {"none", "cancelled"}
        /\ y \in Bills /\ billOf'[y] = h /\ bill'[y] \notin {"none", "cancelled"}
    BY DEF LiveBills
  <1>2. \A c \in Bills \ {b} :
          /\ billOf'[c] = billOf[c]
          /\ bill'[c] \notin {"none", "cancelled"} => bill[c] \notin {"none", "cancelled"}
    BY DEF Raise, RaiseFor
  <1>3. \A c \in Bills \ {b} : c \in LiveBills(h)' => c \in LiveBills(h)
    BY <1>2 DEF LiveBills
  <1>4. CASE b \notin Bills
    BY <1>1, <1>3, <1>4 DEF OneStands
  <1>5. CASE b \in Bills
    <2>1. g # NoRow /\ LiveBills(g) = {} /\ billOf'[b] = g
      BY <1>5, NobodysBill DEF Ensure, RaiseFor
    <2> QED
      BY <1>1, <1>3, <2>1 DEF OneStands
  <1> QED
    BY <1>4, <1>5

\* No step raises a second receipt beside one that stands.
LEMMA OneStandsStep ==
  ASSUME TypeOK, OneStands, [Next]_vars
  PROVE  OneStands'
  <1>1. ASSUME NEW g \in Rows, NEW p \in Parties, NEW o \in Offers,
               NEW waitlists \in BOOLEAN, NEW b \in Bills \cup {NoBill},
               Register(g, p, o, waitlists, b)
        PROVE  OneStands'
    <2> DEFINE none == {}
               priced == Fits(seats, ModCount(o.mod), cap, o.mod) /\ o.fee
    <2>1. bill' = Raise([c \in Bills |-> IF c \in none THEN "cancelled" ELSE bill[c]], b)
      BY <1>1 DEF Register, Raise
    <2>2. billOf' = RaiseFor(b, g) /\ Ensure(g, priced, b)
      BY <1>1 DEF Register
    <2>3. g \in Rows \cup {NoRow} /\ g # NoRow
      BY NobodysRow
    <2> HIDE DEF none, priced
    <2> QED
      BY <2>1, <2>2, <2>3, RaisedAlone
  <1>2. ASSUME NEW s \in Sessions, NEW b \in Bills \cup {NoBill}, Finish(s, b)
        PROVE  OneStands'
    <2> DEFINE w == work[s]
               seated == IF w.to = "confirmed" THEN w.reg ELSE w.next
    <2>1. seated \in Rows \cup {NoRow}
      BY <1>2 DEF TypeOK, Finish, WorkType
    <2>2. /\ bill' = Raise([c \in Bills |->
                              IF c \in Voids(w) THEN "cancelled" ELSE bill[c]], b)
          /\ billOf' = RaiseFor(b, seated)
          /\ seated = NoRow => b = NoBill
          /\ seated # NoRow => Ensure(seated, offer[seated].fee, b)
      BY <1>2 DEF Finish
    <2> HIDE DEF seated
    <2> QED
      BY <2>1, <2>2, RaisedAlone
  <1>3. ASSUME NEW b \in Bills, NEW st \in {"owed", "kept", "cancelled"}, MoveBill(b, st)
        PROVE  OneStands'
    <2>1. \A c \in Bills :
            bill'[c] \notin {"none", "cancelled"} => bill[c] \notin {"none", "cancelled"}
      BY <1>3 DEF MoveBill, TypeOK
    <2>2. \A g \in Rows : LiveBills(g)' \subseteq LiveBills(g)
      BY <1>3, <2>1 DEF MoveBill, LiveBills
    <2> QED
      BY <2>2 DEF OneStands
  <1>4. CASE UNCHANGED billVars
    BY <1>4 DEF OneStands, LiveBills, billVars
  <1> QED
    BY <1>1, <1>2, <1>3, <1>4 DEF Next, Change, Load, Abandon, SetCap, vars

------------------------------------------------------------------------------

Confirmed == Having("confirmed")
Coded == {g \in Live : offer[g].code}

\* The rows a registration adds to.
LEMMA RegisterRows ==
  ASSUME TypeOK, NEW g \in Rows, NEW p \in Parties, NEW o \in Offers,
         NEW waitlists \in BOOLEAN, NEW b \in Bills \cup {NoBill},
         Register(g, p, o, waitlists, b),
         NEW fits, fits = Fits(seats, ModCount(o.mod), cap, o.mod)
  PROVE  /\ g \notin Confirmed /\ g \notin Having("waitlist") /\ g \notin Coded
         /\ Confirmed' = Confirmed \cup (IF fits THEN {g} ELSE {})
         /\ Having("waitlist")' = Having("waitlist") \cup (IF fits THEN {} ELSE {g})
         /\ Coded' = Coded \cup (IF o.code THEN {g} ELSE {})
         /\ \A m \in Modalities :
              (Confirmed \cap In(m))' =
                (Confirmed \cap In(m)) \cup (IF fits /\ o.mod = m THEN {g} ELSE {})
  <1>1. /\ status[g] = "none"
        /\ status'[g] = IF fits THEN "confirmed" ELSE "waitlist"
        /\ \A h \in Rows \ {g} : status'[h] = status[h] /\ offer'[h] = offer[h]
        /\ offer'[g] = o
    BY DEF Register, TypeOK
  <1>2. g \notin Confirmed /\ g \notin Having("waitlist") /\ g \notin Coded
    BY <1>1 DEF Confirmed, Having, Coded, Live
  <1>3. Confirmed' = Confirmed \cup (IF fits THEN {g} ELSE {})
    BY <1>1 DEF Confirmed, Having
  <1>4. Having("waitlist")' = Having("waitlist") \cup (IF fits THEN {} ELSE {g})
    BY <1>1 DEF Having
  <1>5. Coded' = Coded \cup (IF o.code THEN {g} ELSE {})
    BY <1>1 DEF Coded, Live
  <1>6. ASSUME NEW m \in Modalities
        PROVE  (Confirmed \cap In(m))' =
                 (Confirmed \cap In(m)) \cup (IF fits /\ o.mod = m THEN {g} ELSE {})
    BY <1>1 DEF Confirmed, Having, In
  <1> QED
    BY <1>2, <1>3, <1>4, <1>5, <1>6

\* The counters follow a registration.
LEMMA CountersRegister ==
  ASSUME TypeOK, CountersAreTheRows, NEW g \in Rows, NEW p \in Parties, NEW o \in Offers,
         NEW waitlists \in BOOLEAN, NEW b \in Bills \cup {NoBill},
         Register(g, p, o, waitlists, b)
  PROVE  CountersAreTheRows'
  <1> DEFINE fits == Fits(seats, ModCount(o.mod), cap, o.mod)
  <1> SUFFICES ASSUME ~overtaken
               PROVE  /\ seats' = Cardinality(Confirmed')
                      /\ \A m \in Modalities : modSeats'[m] = Cardinality((Confirmed \cap In(m))')
                      /\ waiting' = Cardinality(Having("waitlist")')
                      /\ uses' = Cardinality(Coded')
    BY DEF CountersAreTheRows, Register, Confirmed, Coded
  <1>1. /\ seats = Cardinality(Confirmed)
        /\ \A m \in Modalities : modSeats[m] = Cardinality(Confirmed \cap In(m))
        /\ waiting = Cardinality(Having("waitlist"))
        /\ uses = Cardinality(Coded)
    BY DEF CountersAreTheRows, Confirmed, Coded
  <1>2. /\ seats' = IF fits THEN seats + 1 ELSE seats
        /\ modSeats' = IF fits /\ o.mod # NoModality
                       THEN [modSeats EXCEPT ![o.mod] = @ + 1] ELSE modSeats
        /\ waiting' = IF fits THEN waiting ELSE waiting + 1
        /\ uses' = IF o.code THEN uses + 1 ELSE uses
    BY DEF Register
  <1>3. /\ Confirmed \in SUBSET Rows /\ Having("waitlist") \in SUBSET Rows
        /\ Coded \in SUBSET Rows
    BY DEF Confirmed, Having, Coded, Live
  <1>4. /\ g \notin Confirmed /\ g \notin Having("waitlist") /\ g \notin Coded
        /\ Confirmed' = Confirmed \cup (IF fits THEN {g} ELSE {})
        /\ Having("waitlist")' = Having("waitlist") \cup (IF fits THEN {} ELSE {g})
        /\ Coded' = Coded \cup (IF o.code THEN {g} ELSE {})
        /\ \A m \in Modalities :
             (Confirmed \cap In(m))' =
               (Confirmed \cap In(m)) \cup (IF fits /\ o.mod = m THEN {g} ELSE {})
    BY RegisterRows
  <1> HIDE DEF fits
  <1>5. seats' = Cardinality(Confirmed')
    BY <1>1, <1>2, <1>3, <1>4, OneMore
  <1>6. waiting' = Cardinality(Having("waitlist")')
    BY <1>1, <1>2, <1>3, <1>4, OneMore
  <1>7. uses' = Cardinality(Coded')
    BY <1>1, <1>2, <1>3, <1>4, OneMore
  <1>8. ASSUME NEW m \in Modalities
        PROVE  modSeats'[m] = Cardinality((Confirmed \cap In(m))')
    <2>1. modSeats'[m] = IF fits /\ o.mod = m THEN modSeats[m] + 1 ELSE modSeats[m]
      BY <1>2, NobodysModality DEF TypeOK
    <2> DEFINE S == Confirmed \cap In(m)
    <2>2. S \in SUBSET Rows /\ g \in Rows \ S /\ modSeats[m] = Cardinality(S)
      BY <1>1, <1>3, <1>4
    <2>3. (Confirmed \cap In(m))' = S \cup (IF fits /\ o.mod = m THEN {g} ELSE {})
      BY <1>4
    <2> HIDE DEF S
    <2>4. CASE fits /\ o.mod = m
      BY <2>1, <2>2, <2>3, <2>4, OneMore
    <2>5. CASE ~(fits /\ o.mod = m)
      BY <2>1, <2>2, <2>3, <2>5
    <2> QED
      BY <2>4, <2>5
  <1> QED
    BY <1>5, <1>6, <1>7, <1>8

------------------------------------------------------------------------------

\* A counter of confirmed rows as a transaction leaves it: the rows it takes and those it
\* adds, whether all of the activity or those of one modality are counted.
SeatsFollow(w, n) ==
  LET freed == IF Frees(w) THEN Down(n) ELSE IF w.to = "confirmed" THEN n + 1 ELSE n
  IN IF w.next = NoRow THEN freed ELSE freed + 1

RowsFollow(w, S) ==
  (IF Frees(w) THEN S \ {w.reg} ELSE IF w.to = "confirmed" THEN S \cup {w.reg} ELSE S)
    \cup (IF w.next = NoRow THEN {} ELSE {w.next})

\* The seats a commit computes from what it loaded are those of the rows it leaves.
LEMMA SeatsAreFollowed ==
  ASSUME NEW w \in WorkType, NEW S \in SUBSET Rows, w.was # w.to,
         w.was = "confirmed" <=> w.reg \in S,
         w.next # NoRow => Frees(w) /\ w.next \notin S
  PROVE  Cardinality(RowsFollow(w, S)) = SeatsFollow(w, Cardinality(S))
  <1>1. w.reg \in Rows /\ w.next \in Rows \cup {NoRow}
    BY DEF WorkType
  <1>2. CASE Frees(w)
    <2> DEFINE T == S \ {w.reg}
    <2>1. w.reg \in S
      BY <1>2 DEF Frees
    <2>2. Cardinality(T) = Down(Cardinality(S)) /\ T \in SUBSET Rows
      BY <2>1, OneLess
    <2>3. CASE w.next = NoRow
      BY <1>2, <2>2, <2>3 DEF RowsFollow, SeatsFollow
    <2>4. CASE w.next # NoRow
      <3>1. w.next \in Rows \ T
        BY <1>1, <2>4
      <3>2. Cardinality(T \cup {w.next}) = Cardinality(T) + 1
        BY <2>2, <3>1, OneMore
      <3> QED
        BY <1>2, <2>2, <2>4, <3>2 DEF RowsFollow, SeatsFollow
    <2> QED
      BY <2>3, <2>4
  <1>3. CASE ~Frees(w) /\ w.to = "confirmed"
    BY <1>1, <1>3, OneMore DEF RowsFollow, SeatsFollow
  <1>4. CASE ~Frees(w) /\ w.to # "confirmed"
    BY <1>4 DEF RowsFollow, SeatsFollow
  <1> QED
    BY <1>2, <1>3, <1>4

\* The counter of the waitlist, likewise.
WaitersFollow(w, S) ==
  (IF w.was = "waitlist" THEN S \ {w.reg}
   ELSE IF w.to = "waitlist" THEN S \cup {w.reg} ELSE S)
    \ (IF w.next = NoRow THEN {} ELSE {w.next})

\* So is the length of the waitlist.
LEMMA WaitingIsFollowed ==
  ASSUME NEW w \in WorkType, NEW S \in SUBSET Rows, w.was # w.to,
         w.was = "waitlist" <=> w.reg \in S,
         w.next # NoRow => Frees(w) /\ w.next \in S,
         w.waiting = Cardinality(S)
  PROVE  Cardinality(WaitersFollow(w, S)) = WaitingLeft(w)
  <1> DEFINE T == IF w.was = "waitlist" THEN S \ {w.reg}
                  ELSE IF w.to = "waitlist" THEN S \cup {w.reg} ELSE S
             left == IF w.was = "waitlist" THEN Down(w.waiting)
                     ELSE IF w.to = "waitlist" THEN w.waiting + 1 ELSE w.waiting
  <1>1. w.reg \in Rows /\ w.next \in Rows \cup {NoRow}
    BY DEF WorkType
  <1>2. T \in SUBSET Rows
    BY <1>1
  <1>3. Cardinality(T) = left
    BY <1>1, OneLess, OneMore
  <1>4. w.next # NoRow => w.next \in T
    BY DEF Frees
  <1>5. WaitersFollow(w, S) = T \ (IF w.next = NoRow THEN {} ELSE {w.next})
    BY DEF WaitersFollow
  <1>6. WaitingLeft(w) = IF w.next = NoRow THEN left ELSE Down(left)
    BY DEF WaitingLeft
  <1> HIDE DEF T, left
  <1>7. CASE w.next = NoRow
    BY <1>3, <1>5, <1>6, <1>7
  <1>8. CASE w.next # NoRow
    BY <1>2, <1>3, <1>4, <1>5, <1>6, <1>8, OneLess
  <1> QED
    BY <1>7, <1>8

\* The rows a cancellation or a change of status takes and adds to, when nobody has
\* overtaken it.
LEMMA FinishRows ==
  ASSUME TypeOK, Fresh, NEW s \in Sessions, NEW b \in Bills \cup {NoBill}, Finish(s, b),
         ~work[s].stale,
         NEW w, w = work[s]
  PROVE  /\ w \in WorkType /\ w.was = status[w.reg] /\ w.was # w.to
         /\ w.next # NoRow => Frees(w) /\ w.next \in InLine(offer[w.reg].mod)
         /\ w.seats = seats /\ w.waiting = waiting
         /\ w.modSeats = ModCount(offer[w.reg].mod)
         /\ Confirmed' = RowsFollow(w, Confirmed)
         /\ Having("waitlist")' = WaitersFollow(w, Having("waitlist"))
         /\ \A m \in Modalities :
              (Confirmed \cap In(m))' = IF offer[w.reg].mod = m
                                        THEN RowsFollow(w, Confirmed \cap In(m))
                                        ELSE Confirmed \cap In(m)
  <1>1. /\ w \in WorkType /\ w # Idle /\ ~w.stale
        /\ status' = IF w.next = NoRow THEN [status EXCEPT ![w.reg] = w.to]
                     ELSE [[status EXCEPT ![w.reg] = w.to] EXCEPT ![w.next] = "confirmed"]
        /\ offer' = offer
    BY DEF TypeOK, Finish
  <1>2. /\ w.was = status[w.reg] /\ w.was # w.to
        /\ w.next # NoRow => Frees(w) /\ w.next \in InLine(offer[w.reg].mod)
        /\ w.seats = seats /\ w.waiting = waiting
        /\ w.modSeats = ModCount(offer[w.reg].mod)
    BY <1>1 DEF Fresh
  <1>3. w.reg \in Rows /\ w.next \in Rows \cup {NoRow} /\ w.to \in RegistrationStatuses
    BY <1>1 DEF WorkType
  <1>4. w.next # NoRow =>
          /\ w.was = "confirmed" /\ w.to # "confirmed"
          /\ status[w.next] = "waitlist" /\ offer[w.next].mod = offer[w.reg].mod
          /\ w.next # w.reg
    BY <1>2 DEF Frees, InLine, Having, In
  <1>5. \A g \in Rows : status'[g] = IF g = w.reg THEN w.to
                                     ELSE IF w.next # NoRow /\ g = w.next THEN "confirmed"
                                     ELSE status[g]
    BY <1>1, <1>3, <1>4 DEF TypeOK
  <1>6. Confirmed' = RowsFollow(w, Confirmed)
    BY <1>2, <1>3, <1>4, <1>5 DEF Confirmed, Having, RowsFollow, Frees
  <1>7. Having("waitlist")' = WaitersFollow(w, Having("waitlist"))
    BY <1>2, <1>3, <1>4, <1>5 DEF Having, WaitersFollow
  <1>8. ASSUME NEW m \in Modalities
        PROVE  (Confirmed \cap In(m))' = IF offer[w.reg].mod = m
                                         THEN RowsFollow(w, Confirmed \cap In(m))
                                         ELSE Confirmed \cap In(m)
    <2> DEFINE Y == {g \in Rows : offer[g].mod = m}
    <2>1. Confirmed \cap In(m) = Confirmed \cap Y
      BY DEF Confirmed, Having, In
    <2>2. (Confirmed \cap In(m))' = Confirmed' \cap Y
      BY <1>1 DEF Confirmed, Having, In
    <2>3. w.reg \in Y <=> offer[w.reg].mod = m
      BY <1>3
    <2>4. w.next # NoRow => w.next \in Rows /\ (w.next \in Y <=> w.reg \in Y)
      BY <1>3, <1>4
    <2> HIDE DEF Y
    <2>5. CASE offer[w.reg].mod = m
      BY <1>6, <2>1, <2>2, <2>3, <2>4, <2>5 DEF RowsFollow
    <2>6. CASE offer[w.reg].mod # m
      BY <1>6, <2>1, <2>2, <2>3, <2>4, <2>6 DEF RowsFollow
    <2> QED
      BY <2>5, <2>6
  <1> QED
    BY <1>1, <1>2, <1>6, <1>7, <1>8

\* The uses of the code follow the registrations that have one, whatever else the
\* transaction changes: they are read under the lock.
LEMMA UsesFollow ==
  ASSUME TypeOK, Fresh, NEW s \in Sessions, NEW b \in Bills \cup {NoBill}, Finish(s, b),
         ~work[s].stale, uses = Cardinality(Coded)
  PROVE  uses' = Cardinality(Coded')
  <1> DEFINE w == work[s]
  <1>1. /\ w \in WorkType /\ w # Idle
        /\ status' = IF w.next = NoRow THEN [status EXCEPT ![w.reg] = w.to]
                     ELSE [[status EXCEPT ![w.reg] = w.to] EXCEPT ![w.next] = "confirmed"]
        /\ offer' = offer /\ uses' = UsesLeft(w)
    BY DEF TypeOK, Finish
  <1>2. /\ w.was = status[w.reg] /\ w.was # w.to
        /\ w.next # NoRow => Frees(w) /\ w.next \in InLine(offer[w.reg].mod)
    BY <1>1 DEF Fresh
  <1>3. w.reg \in Rows /\ w.next \in Rows \cup {NoRow} /\ w.to \in RegistrationStatuses
        /\ w.was \in RegistrationStatuses
    BY <1>1 DEF WorkType
  <1>4. w.next # NoRow => status[w.next] = "waitlist" /\ w.next # w.reg
    BY <1>2 DEF Frees, InLine, Having
  <1>5. \A g \in Rows : status'[g] = IF g = w.reg THEN w.to
                                     ELSE IF w.next # NoRow /\ g = w.next THEN "confirmed"
                                     ELSE status[g]
    BY <1>1, <1>3, <1>4 DEF TypeOK
  <1>6. \A g \in Rows \ {w.reg} :
          status'[g] \notin {"none", "cancelled"} <=> status[g] \notin {"none", "cancelled"}
    BY <1>4, <1>5
  <1>7. Coded' \ {w.reg} = Coded \ {w.reg}
    BY <1>1, <1>6 DEF Coded, Live
  <1>8. /\ w.reg \in Coded <=> offer[w.reg].code /\ w.was # "cancelled"
        /\ w.reg \in Coded' <=> offer[w.reg].code /\ w.to # "cancelled"
    BY <1>1, <1>2, <1>3, <1>5 DEF Coded, Live, RegistrationStatuses
  <1>9. Coded \in SUBSET Rows
    BY DEF Coded, Live
  <1>10. CASE offer[w.reg].code /\ w.to = "cancelled"
    <2>1. w.reg \in Coded /\ Coded' = Coded \ {w.reg}
      BY <1>2, <1>7, <1>8, <1>10
    <2> QED
      BY <1>1, <1>9, <1>10, <2>1, OneLess DEF UsesLeft
  <1>11. CASE offer[w.reg].code /\ w.was = "cancelled"
    <2>1. w.reg \in Rows \ Coded /\ Coded' = Coded \cup {w.reg}
      BY <1>2, <1>3, <1>7, <1>8, <1>11
    <2> QED
      BY <1>1, <1>2, <1>9, <1>11, <2>1, OneMore DEF UsesLeft
  <1>12. CASE ~offer[w.reg].code \/ (w.to # "cancelled" /\ w.was # "cancelled")
    <2>1. Coded' = Coded
      BY <1>7, <1>8, <1>12
    <2> QED
      BY <1>1, <1>12, <2>1 DEF UsesLeft
  <1> QED
    BY <1>10, <1>11, <1>12

\* What a commit that nobody has overtaken makes of the number of confirmed rows, of the
\* activity and of each modality.
LEMMA SeatsAfterFinish ==
  ASSUME TypeOK, Fresh, CountersAreTheRows, ~overtaken,
         NEW s \in Sessions, NEW b \in Bills \cup {NoBill}, Finish(s, b), ~work[s].stale,
         NEW w, w = work[s]
  PROVE  /\ Cardinality(Confirmed') = SeatsFollow(w, Cardinality(Confirmed))
         /\ \A m \in Modalities :
              Cardinality((Confirmed \cap In(m))') =
                IF offer[w.reg].mod = m THEN SeatsFollow(w, Cardinality(Confirmed \cap In(m)))
                ELSE Cardinality(Confirmed \cap In(m))
  <1>1. /\ w \in WorkType /\ w.was = status[w.reg] /\ w.was # w.to
        /\ w.next # NoRow => Frees(w) /\ w.next \in InLine(offer[w.reg].mod)
        /\ Confirmed' = RowsFollow(w, Confirmed)
        /\ \A m \in Modalities :
             (Confirmed \cap In(m))' = IF offer[w.reg].mod = m
                                       THEN RowsFollow(w, Confirmed \cap In(m))
                                       ELSE Confirmed \cap In(m)
    BY FinishRows
  <1>2. w.reg \in Rows /\ w.next \in Rows \cup {NoRow}
    BY <1>1 DEF WorkType
  <1>3. w.next # NoRow => w.next \notin Confirmed
    BY <1>1 DEF InLine, Having, Confirmed
  <1>4. w.was = "confirmed" <=> w.reg \in Confirmed
    BY <1>1, <1>2 DEF Confirmed, Having
  <1>5. Confirmed \in SUBSET Rows
    BY DEF Confirmed, Having
  <1>6. Cardinality(Confirmed') = SeatsFollow(w, Cardinality(Confirmed))
    BY <1>1, <1>3, <1>4, <1>5, SeatsAreFollowed
  <1>7. ASSUME NEW m \in Modalities, offer[w.reg].mod = m
        PROVE  Cardinality((Confirmed \cap In(m))') =
                 SeatsFollow(w, Cardinality(Confirmed \cap In(m)))
    <2> DEFINE S == Confirmed \cap In(m)
    <2>1. S \in SUBSET Rows /\ (w.next # NoRow => w.next \notin S)
      BY <1>3, <1>5
    <2>2. w.was = "confirmed" <=> w.reg \in S
      BY <1>1, <1>2, <1>4, <1>7 DEF In
    <2>3. (Confirmed \cap In(m))' = RowsFollow(w, S)
      BY <1>1, <1>7
    <2> HIDE DEF S
    <2>4. Cardinality(RowsFollow(w, S)) = SeatsFollow(w, Cardinality(S))
      BY <1>1, <2>1, <2>2, SeatsAreFollowed
    <2> QED
      BY <2>3, <2>4 DEF S
  <1> QED
    BY <1>1, <1>6, <1>7

\* The counters follow a cancellation or a change of status, or it was overtaken.
LEMMA CountersFinish ==
  ASSUME TypeOK, Fresh, CountersAreTheRows,
         NEW s \in Sessions, NEW b \in Bills \cup {NoBill}, Finish(s, b)
  PROVE  CountersAreTheRows'
  <1> DEFINE w == work[s]
             m0 == offer[w.reg].mod
  <1>1. overtaken' = (overtaken \/ w.stale)
    BY DEF Finish
  <1> SUFFICES ASSUME ~overtaken, ~w.stale
               PROVE  /\ seats' = Cardinality(Confirmed')
                      /\ \A m \in Modalities : modSeats'[m] = Cardinality((Confirmed \cap In(m))')
                      /\ waiting' = Cardinality(Having("waitlist")')
                      /\ uses' = Cardinality(Coded')
    BY <1>1 DEF CountersAreTheRows, Confirmed, Coded
  <1>2. /\ seats = Cardinality(Confirmed)
        /\ \A m \in Modalities : modSeats[m] = Cardinality(Confirmed \cap In(m))
        /\ waiting = Cardinality(Having("waitlist"))
        /\ uses = Cardinality(Coded)
    BY DEF CountersAreTheRows, Confirmed, Coded
  <1>3. /\ w \in WorkType /\ w.was = status[w.reg] /\ w.was # w.to
        /\ w.next # NoRow => Frees(w) /\ w.next \in InLine(m0)
        /\ w.seats = seats /\ w.waiting = waiting /\ w.modSeats = ModCount(m0)
        /\ Having("waitlist")' = WaitersFollow(w, Having("waitlist"))
    BY FinishRows
  <1>4. /\ Cardinality(Confirmed') = SeatsFollow(w, Cardinality(Confirmed))
        /\ \A m \in Modalities :
             Cardinality((Confirmed \cap In(m))') =
               IF m0 = m THEN SeatsFollow(w, Cardinality(Confirmed \cap In(m)))
               ELSE Cardinality(Confirmed \cap In(m))
    BY SeatsAfterFinish
  <1>5. /\ seats' = SeatsLeft(w) /\ waiting' = WaitingLeft(w)
        /\ modSeats' = IF m0 = NoModality THEN modSeats
                       ELSE [modSeats EXCEPT ![m0] = Written(modSeats[m0], w.modSeats,
                                                              ModSeatsLeft(w))]
    BY <1>3 DEF Finish, Written
  <1>6. SeatsLeft(w) = SeatsFollow(w, w.seats) /\ ModSeatsLeft(w) = SeatsFollow(w, w.modSeats)
    BY DEF SeatsLeft, ModSeatsLeft, SeatsFollow
  <1>7. seats' = Cardinality(Confirmed')
    BY <1>2, <1>3, <1>4, <1>5, <1>6
  <1>8. ASSUME NEW m \in Modalities
        PROVE  modSeats'[m] = Cardinality((Confirmed \cap In(m))')
    <2>1. CASE m0 = m
      <3>1. m0 # NoModality /\ w.modSeats = modSeats[m]
        BY <1>3, <2>1, NobodysModality DEF ModCount
      <3>2. modSeats'[m] = ModSeatsLeft(w)
        BY <1>5, <2>1, <3>1 DEF Written, TypeOK
      <3> QED
        BY <1>2, <1>4, <1>6, <2>1, <3>1, <3>2
    <2>2. CASE m0 # m
      BY <1>2, <1>4, <1>5, <2>2 DEF TypeOK
    <2> QED
      BY <2>1, <2>2
  <1>9. waiting' = Cardinality(Having("waitlist")')
    <2>1. Having("waitlist") \in SUBSET Rows
      BY DEF Having
    <2>2. w.was = "waitlist" <=> w.reg \in Having("waitlist")
      BY <1>3 DEF WorkType, Having
    <2>3. w.next # NoRow => Frees(w) /\ w.next \in Having("waitlist")
      BY <1>3 DEF InLine
    <2>4. Cardinality(WaitersFollow(w, Having("waitlist"))) = WaitingLeft(w)
      BY <1>2, <1>3, <2>1, <2>2, <2>3, WaitingIsFollowed
    <2> QED
      BY <1>3, <1>5, <2>4
  <1>10. uses' = Cardinality(Coded')
    BY <1>2, UsesFollow
  <1> QED
    BY <1>7, <1>8, <1>9, <1>10

\* Every step keeps the counters, unless it overtakes or is overtaken.
LEMMA CountersStep ==
  ASSUME TypeOK, Fresh, CountersAreTheRows, [Next]_vars
  PROVE  CountersAreTheRows'
  <1>1. ASSUME UNCHANGED <<rowVars, countVars, overtaken>>
        PROVE  CountersAreTheRows'
    BY <1>1 DEF CountersAreTheRows, rowVars, countVars, Having, In, Live
  <1>2. ASSUME NEW s \in Sessions, Change(s)
        PROVE  CountersAreTheRows'
    BY <1>1, <1>2, CountersFinish DEF Change, Load, Abandon
  <1>3. ASSUME NEW c \in Caps, SetCap(c)
        PROVE  CountersAreTheRows'
    BY <1>1, <1>3 DEF SetCap
  <1>4. ASSUME NEW b \in Bills, NEW st \in {"owed", "kept", "cancelled"}, MoveBill(b, st)
        PROVE  CountersAreTheRows'
    BY <1>1, <1>4 DEF MoveBill, workVars
  <1>5. CASE UNCHANGED vars
    BY <1>1, <1>5 DEF vars, workVars
  <1> QED
    BY <1>2, <1>3, <1>4, <1>5, CountersRegister DEF Next

------------------------------------------------------------------------------

\* The initial state satisfies the inductive invariant.
LEMMA InvInit == Init => RegistrationsInv
  <1> SUFFICES ASSUME Init PROVE RegistrationsInv
    OBVIOUS
  <1>1. TypeOK
    BY TypeInit
  <1>2. Fresh
    BY DEF Init, Fresh
  <1>3. /\ Having("confirmed") = {} /\ Having("waitlist") = {}
        /\ {g \in Live : offer[g].code} = {}
    BY DEF Init, Having, Live
  <1>4. \A m \in Modalities : Having("confirmed") \cap In(m) = {}
    BY <1>3
  <1>5. CountersAreTheRows
    BY <1>3, <1>4, FS_EmptySet DEF Init, CountersAreTheRows
  <1>6. OneStands
    BY DEF Init, OneStands, LiveBills
  <1> QED
    BY <1>1, <1>2, <1>5, <1>6 DEF RegistrationsInv

\* The invariant holds always.
THEOREM RegistrationsInductive == Spec => []RegistrationsInv
  <1>1. RegistrationsInv /\ [Next]_vars => RegistrationsInv'
    BY TypeStep, FreshStep, CountersStep, OneStandsStep DEF RegistrationsInv
  <1> QED
    BY <1>1, InvInit, PTL DEF Spec

\* Types: every column of the activity's rows, its counters and its receipts keeps a value of
\* its kind, and no counter goes below nothing.
THEOREM RegistrationsTyped == Spec => []TypeOK
  <1>1. RegistrationsInv => TypeOK
    BY DEF RegistrationsInv
  <1> QED
    BY <1>1, RegistrationsInductive, PTL

\* Whatever registers, cancels, is promoted or is moved by an administrator, the counters
\* register_member, cancel_registration and admin_change_status keep are the numbers of the
\* rows they stand for, as long as no transaction writes over another.
THEOREM CountersCountTheRows == Spec => []CountersAreTheRows
  <1>1. RegistrationsInv => CountersAreTheRows
    BY DEF RegistrationsInv
  <1> QED
    BY <1>1, RegistrationsInductive, PTL

\* However many transactions confirm a registration, ensure_registration_receipt never
\* leaves two receipts standing for it, even where one transaction overtakes another.
THEOREM PlaceBilledOnce == Spec => []BilledOnce
  <1>1. ASSUME OneStands
        PROVE  BilledOnce
    <2> SUFFICES ASSUME NEW g \in Rows
                 PROVE  Cardinality(LiveBills(g)) <= 1
      BY DEF BilledOnce
    <2>1. CASE LiveBills(g) = {}
      BY <2>1, FS_EmptySet
    <2>2. CASE LiveBills(g) # {}
      <3>1. PICK b : LiveBills(g) = {b}
        BY <1>1, <2>2 DEF OneStands
      <3>2. Cardinality({b}) = 1
        BY FS_Singleton
      <3> QED
        BY <3>1, <3>2
    <2> QED
      BY <2>1, <2>2
  <1>2. RegistrationsInv => BilledOnce
    BY <1>1 DEF RegistrationsInv
  <1> QED
    BY <1>2, RegistrationsInductive, PTL

------------------------------------------------------------------------------

\* What the promise says of a step that neither an administrator's hand nor an overtaken
\* transaction explains.
KeepsToCapacity ==
  \/ overtaken'
  \/ \E s \in Sessions : GivesSeat(s)
  \/ /\ ~Grows(Cardinality(Having("confirmed")), Cardinality(Having("confirmed"))', cap)
     /\ \A m \in Modalities :
          ~Grows(Cardinality(Having("confirmed") \cap In(m)),
                 Cardinality(Having("confirmed") \cap In(m))', ModalityCap[m])

\* A registration takes a seat only where both counters show room.
LEMMA RegisterKeepsToCapacity ==
  ASSUME TypeOK, CountersAreTheRows, ~overtaken,
         NEW g \in Rows, NEW p \in Parties, NEW o \in Offers,
         NEW waitlists \in BOOLEAN, NEW b \in Bills \cup {NoBill},
         Register(g, p, o, waitlists, b)
  PROVE  KeepsToCapacity
  <1> DEFINE fits == Fits(seats, ModCount(o.mod), cap, o.mod)
  <1>1. /\ seats = Cardinality(Confirmed)
        /\ \A m \in Modalities : modSeats[m] = Cardinality(Confirmed \cap In(m))
    BY DEF CountersAreTheRows, Confirmed
  <1>2. /\ g \notin Confirmed
        /\ Confirmed' = Confirmed \cup (IF fits THEN {g} ELSE {})
        /\ \A m \in Modalities :
             (Confirmed \cap In(m))' =
               (Confirmed \cap In(m)) \cup (IF fits /\ o.mod = m THEN {g} ELSE {})
    BY RegisterRows
  <1>3. Confirmed \in SUBSET Rows
    BY DEF Confirmed, Having
  <1>4. cap \in Nat /\ seats \in Nat
    BY CapsAreCounts DEF TypeOK
  <1>5. fits => seats < cap
    BY DEF Fits
  <1>6. \A m \in Modalities : fits /\ o.mod = m => modSeats[m] < ModalityCap[m]
    BY NobodysModality DEF Fits, ModCount
  <1> HIDE DEF fits
  <1>7. ~Grows(Cardinality(Confirmed), Cardinality(Confirmed'), cap)
    <2>1. CASE fits
      <3>1. Cardinality(Confirmed') = seats + 1
        BY <1>1, <1>2, <1>3, <2>1, OneMore
      <3> QED
        BY <1>1, <1>4, <1>5, <2>1, <3>1 DEF Grows
    <2>2. CASE ~fits
      <3>1. Cardinality(Confirmed') = seats
        BY <1>1, <1>2, <2>2
      <3> QED
        BY <1>1, <1>4, <3>1 DEF Grows
    <2> QED
      BY <2>1, <2>2
  <1>8. ASSUME NEW m \in Modalities
        PROVE  ~Grows(Cardinality(Confirmed \cap In(m)), Cardinality((Confirmed \cap In(m))'),
                      ModalityCap[m])
    <2> DEFINE S == Confirmed \cap In(m)
    <2>1. /\ S \in SUBSET Rows /\ g \in Rows \ S /\ modSeats[m] = Cardinality(S)
          /\ modSeats[m] \in Nat /\ ModalityCap[m] \in Nat
      BY <1>1, <1>2, <1>3, ModalitiesAreCapped DEF TypeOK
    <2>2. (Confirmed \cap In(m))' = S \cup (IF fits /\ o.mod = m THEN {g} ELSE {})
      BY <1>2
    <2>3. CASE fits /\ o.mod = m
      <3>1. Cardinality((Confirmed \cap In(m))') = modSeats[m] + 1
        BY <2>1, <2>2, <2>3, OneMore
      <3> QED
        BY <1>6, <2>1, <2>3, <3>1 DEF Grows
    <2>4. CASE ~(fits /\ o.mod = m)
      <3>1. Cardinality((Confirmed \cap In(m))') = modSeats[m]
        BY <2>1, <2>2, <2>4
      <3> QED
        BY <2>1, <3>1 DEF Grows
    <2> QED
      BY <2>3, <2>4
  <1> QED
    BY <1>7, <1>8 DEF KeepsToCapacity, Confirmed

\* A promotion gives again the seat that was freed.
LEMMA FinishKeepsToCapacity ==
  ASSUME TypeOK, Fresh, CountersAreTheRows,
         NEW s \in Sessions, NEW b \in Bills \cup {NoBill}, Finish(s, b)
  PROVE  KeepsToCapacity
  <1> DEFINE w == work[s]
  <1>1. w # Idle /\ work'[s] = Idle /\ overtaken' = (overtaken \/ w.stale)
    BY DEF Finish, Overtake
  <1>2. CASE overtaken \/ w.stale
    BY <1>1, <1>2 DEF KeepsToCapacity
  <1>3. CASE w.to = "confirmed"
    BY <1>1, <1>3 DEF KeepsToCapacity, GivesSeat
  <1>4. CASE ~overtaken /\ ~w.stale /\ w.to # "confirmed"
    <2>1. /\ Cardinality(Confirmed') = SeatsFollow(w, Cardinality(Confirmed))
          /\ \A m \in Modalities :
               Cardinality((Confirmed \cap In(m))') =
                 IF offer[w.reg].mod = m THEN SeatsFollow(w, Cardinality(Confirmed \cap In(m)))
                 ELSE Cardinality(Confirmed \cap In(m))
      BY <1>4, SeatsAfterFinish
    <2>2. /\ w \in WorkType /\ w.was = status[w.reg]
          /\ w.next # NoRow => Frees(w)
      BY <1>4, FinishRows
    <2>3. w.reg \in Rows /\ (Frees(w) => w.reg \in Confirmed)
      BY <2>2 DEF WorkType, Frees, Confirmed, Having
    <2>4. ASSUME NEW S \in SUBSET Rows, Frees(w) => w.reg \in S
          PROVE  SeatsFollow(w, Cardinality(S)) <= Cardinality(S)
      <3>1. Cardinality(S) \in Nat
        BY RowsAreCounted
      <3>2. CASE Frees(w)
        <4>1. Cardinality(S) >= 1
          BY <2>4, <3>2, OneLess
        <4> QED
          BY <3>1, <3>2, <4>1 DEF SeatsFollow, Down
      <3>3. CASE ~Frees(w)
        BY <1>4, <2>2, <3>1, <3>3 DEF SeatsFollow
      <3> QED
        BY <3>2, <3>3
    <2>5. ASSUME NEW S \in SUBSET Rows, NEW limit, Frees(w) => w.reg \in S
          PROVE  ~Grows(Cardinality(S), SeatsFollow(w, Cardinality(S)), limit)
      <3>1. Cardinality(S) \in Nat
        BY RowsAreCounted
      <3>2. SeatsFollow(w, Cardinality(S)) \in Nat
        BY <3>1, DownIsNat DEF SeatsFollow
      <3> QED
        BY <2>4, <2>5, <3>1, <3>2 DEF Grows
    <2>6. Confirmed \in SUBSET Rows
      BY DEF Confirmed, Having
    <2>7. ~Grows(Cardinality(Confirmed), Cardinality(Confirmed'), cap)
      BY <2>1, <2>3, <2>5, <2>6
    <2>8. ASSUME NEW m \in Modalities
          PROVE  ~Grows(Cardinality(Confirmed \cap In(m)),
                        Cardinality((Confirmed \cap In(m))'), ModalityCap[m])
      <3>1. CASE offer[w.reg].mod = m
        <4>1. Frees(w) => w.reg \in Confirmed \cap In(m)
          BY <2>2, <2>3, <3>1 DEF In, Frees
        <4> QED
          BY <2>1, <2>5, <2>6, <3>1, <4>1
      <3>2. CASE offer[w.reg].mod # m
        <4>1. Cardinality(Confirmed \cap In(m)) \in Nat
          BY <2>6, RowsAreCounted
        <4> QED
          BY <2>1, <3>2, <4>1 DEF Grows
      <3> QED
        BY <3>1, <3>2
    <2> QED
      BY <2>7, <2>8 DEF KeepsToCapacity, Confirmed
  <1> QED
    BY <1>2, <1>3, <1>4

\* The seats of the activity, or of a modality, grow beyond the capacity only by an
\* administrator's hand: never by register_member, nor by _promote_from_waitlist.
THEOREM SeatsKeepToCapacity == Spec => OnlyForced
  <1>1. RegistrationsInv /\ [Next]_vars => [KeepsToCapacity]_vars
    <2> SUFFICES ASSUME RegistrationsInv, Next
                 PROVE  KeepsToCapacity
      OBVIOUS
    <2>1. TypeOK /\ Fresh /\ CountersAreTheRows
      BY DEF RegistrationsInv
    <2>2. ASSUME NEW g \in Rows, NEW p \in Parties, NEW o \in Offers,
                 NEW waitlists \in BOOLEAN, NEW b \in Bills \cup {NoBill},
                 Register(g, p, o, waitlists, b)
          PROVE  KeepsToCapacity
      <3>1. CASE overtaken
        BY <2>2, <3>1 DEF Register, KeepsToCapacity
      <3>2. CASE ~overtaken
        BY <2>1, <2>2, <3>2, RegisterKeepsToCapacity
      <3> QED
        BY <3>1, <3>2
    <2>3. ASSUME UNCHANGED rowVars
          PROVE  KeepsToCapacity
      <3>1. Having("confirmed")' = Having("confirmed") /\ \A m : In(m)' = In(m)
        BY <2>3 DEF Having, In, rowVars
      <3>2. \A n, limit : n \in Nat => ~Grows(n, n, limit)
        BY DEF Grows
      <3>3. /\ Cardinality(Having("confirmed")) \in Nat
            /\ \A m \in Modalities : Cardinality(Having("confirmed") \cap In(m)) \in Nat
        BY RowsAreCounted DEF Having
      <3> QED
        BY <3>1, <3>2, <3>3 DEF KeepsToCapacity
    <2> QED
      BY <2>1, <2>2, <2>3, FinishKeepsToCapacity DEF Next, Change, Load, Abandon, SetCap, MoveBill
  <1>2. [KeepsToCapacity]_vars =>
          [\/ overtaken'
           \/ \E s \in Sessions : GivesSeat(s)
           \/ /\ ~Grows(Cardinality(Having("confirmed")), Cardinality(Having("confirmed"))', cap)
              /\ \A m \in Modalities :
                   ~Grows(Cardinality(Having("confirmed") \cap In(m)),
                          Cardinality(Having("confirmed") \cap In(m))', ModalityCap[m])]_vars
    BY DEF KeepsToCapacity
  <1> QED
    BY <1>1, <1>2, RegistrationsInductive, PTL DEF Spec, OnlyForced
==============================================================================
