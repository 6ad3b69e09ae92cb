---------------------------- MODULE Registrations ----------------------------
(***************************************************************************)
(* The seats of one activity: who is confirmed, who waits, the cached      *)
(* counters the capacity rule reads, the uses of its discount code and the *)
(* receipts that bill the seats.                                           *)
(*                                                                         *)
(* A registration locks the counters it decides on and is one step. A      *)
(* cancellation and an administrator's change of status read the row and   *)
(* the counters without a lock and write them at their commit: they are    *)
(* two steps, Load and Finish, and whatever commits between them overtakes *)
(* them. The ORM writes a column only where its value is not the one it    *)
(* loaded.                                                                 *)
(*                                                                         *)
(* A receipt is "owed" while it is new, pending, emitted or overdue, and   *)
(* "kept" when it is paid or returned: a cancellation leaves those. The    *)
(* counter of a price moves with that of its modality and caps nothing: it *)
(* is left out, and so is what decides only who may ask (eligibility,      *)
(* dates, consents).                                                       *)
(***************************************************************************)
EXTENDS Integers, FiniteSets

CONSTANTS
  Parties,
  Rows,         \* 1 .. n: the registrations, in the order they are created
  Modalities,
  Bills,        \* the receipts raised for the registrations, those made by hand left out
  Sessions,     \* the transactions that may be open at once
  Offers,       \* bound: the modality, code and price people register with
  Caps,         \* bound: the capacities an administrator sets
  ModalityCap,  \* activity_modalities.max_participants
  Hows,         \* bound: "cancel", for cancellations, and "admin", for changes of status
  MaxUses,      \* discount_codes.max_uses
  MaxChanges,   \* bound: cancellations and changes of status
  NoModality, NoBill, NoRow, NoParty, Idle

ASSUME RowsAreNumbered == Rows \subseteq Nat /\ IsFiniteSet(Rows)
ASSUME CapsAreCounts   == Caps \subseteq Nat
ASSUME ModalitiesAreCapped == ModalityCap \in [Modalities -> Nat]
ASSUME HowsAreHows   == Hows \subseteq {"cancel", "admin"}
ASSUME NobodysRow      == NoRow \notin Rows
ASSUME NobodysModality == NoModality \notin Modalities
ASSUME NobodysBill     == NoBill \notin Bills
ASSUME OffersAreTyped  ==
  Offers \subseteq [mod : Modalities \cup {NoModality}, code : BOOLEAN, fee : BOOLEAN]

VARIABLES
  status,     \* registrations.status; "none" where there is no row
  party,      \* registrations.party_id
  offer,      \* its modality, whether it used the code, whether it costs anything
  cap,        \* activities.max_participants
  seats,      \* activities.current_participants
  modSeats,   \* activity_modalities.current_participants
  waiting,    \* activities.waitlist_count
  uses,       \* discount_codes.current_uses
  bill,       \* the receipts' status
  billOf,     \* receipts.registration_id
  work,       \* what an open transaction has read and is about to write
  changes,    \* the number of transactions begun, for MaxChanges
  overtaken   \* auxiliary: a transaction has written over what it had not read

rowVars == <<status, party, offer>>
countVars == <<seats, modSeats, waiting, uses>>
billVars == <<bill, billOf>>
workVars == <<work, changes, overtaken>>
vars == <<rowVars, cap, countVars, billVars, workVars>>

NoOffer == [mod |-> NoModality, code |-> FALSE, fee |-> FALSE]

RegistrationStatuses == {"confirmed", "waitlist", "cancelled", "pending"}

Having(st) == {g \in Rows : status[g] = st}
In(m) == {g \in Rows : status[g] # "none" /\ offer[g].mod = m}
Live == {g \in Rows : status[g] \notin {"none", "cancelled"}}
LiveBills(g) == {b \in Bills : billOf[b] = g /\ bill[b] \notin {"none", "cancelled"}}
OwedBills(g) == {b \in Bills : billOf[b] = g /\ bill[b] = "owed"}

\* Mutant: a counter is not kept from going below nothing.
DownBelow(n) == n - 1

\* max(0, n - 1)
Down(n) == IF n = 0 THEN 0 ELSE n - 1

\* The commit of one transaction overtakes those that are open.
Overtake(but) ==
  [s \in Sessions |-> IF s = but THEN Idle
                      ELSE IF work[s] = Idle THEN Idle
                      ELSE [work[s] EXCEPT !.stale = TRUE]]

\* Mutant: the capacity of the modality is not asked.
FitsActivity(taken, modTaken, limit, m) == taken < limit

\* _full_level and _has_capacity, on the counters a transaction has read.
Fits(taken, modTaken, limit, m) ==
  /\ taken < limit
  /\ m # NoModality => modTaken < ModalityCap[m]

ModCount(m) == IF m = NoModality THEN 0 ELSE modSeats[m]

\* Mutant: whoever is confirmed is billed, whether or not a receipt stands.
EnsureAlways(g, priced, b) ==
  \/ b = NoBill
  \/ b \in Bills /\ priced /\ bill[b] = "none"

\* ensure_registration_receipt raises the receipt b, or NoBill where nothing is owed, a
\* live receipt stands (one made by hand too), or raising it fails. The look for a live
\* receipt comes after the flush that locks the registration's row.
Ensure(g, priced, b) ==
  \/ b = NoBill
  \/ b \in Bills /\ priced /\ LiveBills(g) = {} /\ bill[b] = "none"

Raise(bs, b) == [c \in Bills |-> IF c = b THEN "owed" ELSE bs[c]]
RaiseFor(b, g) == [c \in Bills |-> IF c = b THEN g ELSE billOf[c]]

------------------------------------------------------------------------------

\* register_member, under the lock of the code and then of the capacity rows. The index on
\* live registrations admits one of each party.
Register(g, p, o, waitlists, b) ==
  LET fits == Fits(seats, ModCount(o.mod), cap, o.mod) IN
  /\ status[g] = "none"
  /\ \A h \in Rows : h < g => status[h] # "none"
  /\ \A h \in Live : party[h] # p
  /\ o.code => uses < MaxUses
  /\ fits \/ waitlists
  /\ status' = [status EXCEPT ![g] = IF fits THEN "confirmed" ELSE "waitlist"]
  /\ party' = [party EXCEPT ![g] = p]
  /\ offer' = [offer EXCEPT ![g] = o]
  /\ seats' = IF fits THEN seats + 1 ELSE seats
  /\ modSeats' = IF fits /\ o.mod # NoModality
                 THEN [modSeats EXCEPT ![o.mod] = @ + 1] ELSE modSeats
  /\ waiting' = IF fits THEN waiting ELSE waiting + 1
  /\ uses' = IF o.code THEN uses + 1 ELSE uses
  /\ Ensure(g, fits /\ o.fee, b)
  /\ bill' = Raise(bill, b)
  /\ billOf' = RaiseFor(b, g)
  /\ work' = Overtake(NoRow)
  /\ UNCHANGED <<cap, changes, overtaken>>

------------------------------------------------------------------------------

Frees(w) == w.was = "confirmed" /\ w.to # "confirmed"

\* Who waits for the modality of the freed seat.
InLine(m) == Having("waitlist") \cap In(m)

\* The oldest in line.
FirstInLine(w) ==
  LET line == InLine(offer[w.reg].mod) IN
  {g \in line : \A h \in line : g <= h}

\* _promote_from_waitlist: the first in line, if the seat is still there to give.
Promoted(w) ==
  IF /\ Frees(w)
     /\ Fits(Down(w.seats), Down(w.modSeats), w.cap, offer[w.reg].mod)
  THEN FirstInLine(w) ELSE {}

\* What the endpoint and the service read: the registration with its activity and modality,
\* the first in line and the receipts to cancel.
Read(g, how, to) ==
  LET w == [reg |-> g, how |-> how, was |-> status[g], to |-> to,
            seats |-> seats, modSeats |-> ModCount(offer[g].mod), waiting |-> waiting,
            cap |-> cap, next |-> NoRow, owed |-> OwedBills(g), stale |-> FALSE] IN
  {[w EXCEPT !.next = n] : n \in IF Promoted(w) = {} THEN {NoRow} ELSE Promoted(w)}

\* cancel_registration takes a seat or a place in line away, admin_change_status sets any
\* other status: they read without a lock.
Load(s, g, how, to) ==
  /\ work[s] = Idle
  /\ changes < MaxChanges
  /\ status[g] \notin {"none", to}
  /\ how = "cancel" => to = "cancelled"
  /\ \E w \in Read(g, how, to) : work' = [work EXCEPT ![s] = w]
  /\ changes' = changes + 1
  /\ UNCHANGED <<rowVars, cap, countVars, billVars, overtaken>>

\* What is written over a counter: nothing where the value is the one that was loaded.
Written(now, loaded, value) == IF value = loaded THEN now ELSE value

\* The receipts cancel_registration cancels: read again where the promotion has flushed.
Voids(w) ==
  IF w.how # "cancel" THEN {}
  ELSE IF w.next # NoRow /\ offer[w.next].fee THEN OwedBills(w.reg)
  ELSE w.owed

\* The counters as the transaction leaves them in memory: the change of status, and then
\* the promotion.
SeatsLeft(w) ==
  LET freed == IF Frees(w) THEN Down(w.seats)
               ELSE IF w.to = "confirmed" THEN w.seats + 1 ELSE w.seats
  IN IF w.next = NoRow THEN freed ELSE freed + 1

ModSeatsLeft(w) ==
  LET freed == IF Frees(w) THEN Down(w.modSeats)
               ELSE IF w.to = "confirmed" THEN w.modSeats + 1 ELSE w.modSeats
  IN IF w.next = NoRow THEN freed ELSE freed + 1

WaitingLeft(w) ==
  LET left == IF w.was = "waitlist" THEN Down(w.waiting)
              ELSE IF w.to = "waitlist" THEN w.waiting + 1 ELSE w.waiting
  IN IF w.next = NoRow THEN left ELSE Down(left)

\* Mutant: the use goes back to the code and is not taken again with the seat.
UsesReleased(w) ==
  IF offer[w.reg].code /\ w.to = "cancelled" THEN Down(uses) ELSE uses

\* release_usage and retake_usage, which has no cap. They lock the code's row and read it
\* then, and keep it to the commit.
UsesLeft(w) ==
  IF ~offer[w.reg].code THEN uses
  ELSE IF w.to = "cancelled" THEN Down(uses)
  ELSE IF w.was = "cancelled" THEN uses + 1
  ELSE uses

\* uq_registration_active_party
OnlyLive(g) == \A h \in Live \ {g} : party[h] # party[g]

\* The commit of cancel_registration or admin_change_status. The registration that is
\* confirmed, by an administrator or off the waitlist, is billed.
Finish(s, b) ==
  LET w == work[s]
      m == offer[w.reg].mod
      seated == IF w.to = "confirmed" THEN w.reg ELSE w.next
      rows == [status EXCEPT ![w.reg] = w.to] IN
  /\ w # Idle
  /\ w.to # "cancelled" => OnlyLive(w.reg)
  /\ w.next # NoRow => OnlyLive(w.next)
  /\ status' = IF w.next = NoRow THEN rows ELSE [rows EXCEPT ![w.next] = "confirmed"]
  /\ seats' = Written(seats, w.seats, SeatsLeft(w))
  /\ modSeats' = IF m = NoModality THEN modSeats
                 ELSE [modSeats EXCEPT ![m] = Written(@, w.modSeats, ModSeatsLeft(w))]
  /\ waiting' = Written(waiting, w.waiting, WaitingLeft(w))
  /\ uses' = UsesLeft(w)
  /\ IF seated = NoRow THEN b = NoBill ELSE Ensure(seated, offer[seated].fee, b)
  /\ bill' = Raise([c \in Bills |-> IF c \in Voids(w) THEN "cancelled" ELSE bill[c]], b)
  /\ billOf' = RaiseFor(b, seated)
  /\ work' = Overtake(s)
  /\ overtaken' = (overtaken \/ w.stale)
  /\ UNCHANGED <<party, offer, cap, changes>>

\* The index refuses a registration, or the request fails otherwise: nothing is kept.
Abandon(s) ==
  /\ work[s] # Idle
  /\ work' = [work EXCEPT ![s] = Idle]
  /\ UNCHANGED <<rowVars, cap, countVars, billVars, changes, overtaken>>

------------------------------------------------------------------------------

\* update_activity sets the capacity and looks at no seat.
SetCap(c) ==
  /\ cap' = c /\ c # cap
  /\ work' = Overtake(NoRow)
  /\ UNCHANGED <<rowVars, countVars, billVars, changes, overtaken>>

\* Billing settles, returns, re-emits or cancels a receipt on its own.
MoveBill(b, st) ==
  /\ bill[b] \in {"owed", "kept"} /\ bill[b] # st
  /\ bill' = [bill EXCEPT ![b] = st]
  /\ UNCHANGED <<rowVars, cap, countVars, billOf, workVars>>


------------------------------------------------------------------------------

Init ==
  /\ status = [g \in Rows |-> "none"]
  /\ party = [g \in Rows |-> NoParty]
  /\ offer = [g \in Rows |-> NoOffer]
  /\ cap \in Caps
  /\ seats = 0
  /\ modSeats = [m \in Modalities |-> 0]
  /\ waiting = 0
  /\ uses = 0
  /\ bill = [b \in Bills |-> "none"]
  /\ billOf = [b \in Bills |-> NoRow]
  /\ work = [s \in Sessions |-> Idle]
  /\ changes = 0
  /\ overtaken = FALSE

Change(s) ==
  \/ \E g \in Rows, how \in Hows, to \in RegistrationStatuses : Load(s, g, how, to)
  \/ \E b \in Bills \cup {NoBill} : Finish(s, b)
  \/ Abandon(s)

Next ==
  \/ \E g \in Rows, p \in Parties, o \in Offers, waitlists \in BOOLEAN,
        b \in Bills \cup {NoBill} : Register(g, p, o, waitlists, b)
  \/ \E s \in Sessions : Change(s)
  \/ \E c \in Caps : SetCap(c)
  \/ \E b \in Bills, st \in {"owed", "kept", "cancelled"} : MoveBill(b, st)

Spec == Init /\ [][Next]_vars
------------------------------------------------------------------------------

WorkType ==
  [reg : Rows, how : {"cancel", "admin"}, was : RegistrationStatuses,
   to : RegistrationStatuses, seats : Nat, modSeats : Nat, waiting : Nat,
   cap : Nat, next : Rows \cup {NoRow},
   owed : SUBSET Bills, stale : BOOLEAN]

\* Types: rows, counters and receipts hold what their columns may, and a transaction is
\* about to change the status of a registration that exists.
TypeOK ==
  /\ status \in [Rows -> RegistrationStatuses \cup {"none"}]
  /\ party \in [Rows -> Parties \cup {NoParty}]
  /\ offer \in [Rows -> Offers \cup {NoOffer}]
  /\ cap \in Caps
  /\ seats \in Nat
  /\ modSeats \in [Modalities -> Nat]
  /\ waiting \in Nat
  /\ uses \in Nat
  /\ bill \in [Bills -> {"none", "owed", "kept", "cancelled"}]
  /\ billOf \in [Bills -> Rows \cup {NoRow}]
  /\ work \in [Sessions -> WorkType \cup {Idle}]
  /\ changes \in Nat
  /\ overtaken \in BOOLEAN

\* However registrations, cancellations, promotions and an administrator's changes follow
\* one another, the four cached counters are the numbers of the rows they stand for, the
\* uses of the code included; they drift only when one transaction has written over another.
CountersAreTheRows ==
  \/ overtaken
  \/ /\ seats = Cardinality(Having("confirmed"))
     /\ \A m \in Modalities : modSeats[m] = Cardinality(Having("confirmed") \cap In(m))
     /\ waiting = Cardinality(Having("waitlist"))
     /\ uses = Cardinality({g \in Live : offer[g].code})

Grows(before, after, limit) == after > before /\ after > limit

\* An administrator gives a seat, whatever the capacity.
GivesSeat(s) == work[s] # Idle /\ work'[s] = Idle /\ work[s].to = "confirmed"

\* The confirmed seats of the activity, or of a modality, grow beyond the capacity only by an
\* administrator's hand: neither a registration nor a promotion does it, a capacity lowered
\* under those seated and waiting included.
OnlyForced ==
  [][\/ overtaken'
     \/ \E s \in Sessions : GivesSeat(s)
     \/ /\ ~Grows(Cardinality(Having("confirmed")), Cardinality(Having("confirmed"))', cap)
        /\ \A m \in Modalities :
             ~Grows(Cardinality(Having("confirmed") \cap In(m)),
                    Cardinality(Having("confirmed") \cap In(m))', ModalityCap[m])]_vars

\* A place is billed once: a registration never has two receipts standing, confirmed,
\* cancelled and confirmed again by however many transactions at once. (A receipt an
\* administrator makes for it by hand comes on top: nothing looks for the others then.)
BilledOnce == \A g \in Rows : Cardinality(LiveBills(g)) <= 1

\* What the member guide says: waitlisted registrations are promoted in order when a place
\* is freed. So nobody new is given a place that someone waiting could have taken, even where
\* no transaction ever overtakes another.
NobodyPassedOver ==
  [][\/ overtaken
     \/ \A g, h \in Rows :
          /\ status[g] = "none" /\ status'[g] = "confirmed"
          /\ status[h] = "waitlist"
          => ~Fits(seats, ModCount(offer[h].mod), cap, offer[h].mod)]_vars
==============================================================================
