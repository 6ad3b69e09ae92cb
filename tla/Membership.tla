------------------------------ MODULE Membership ------------------------------
(***************************************************************************)
(* The plan a member holds and the receipts that give it and take it away: *)
(* purchases, which grant a plan when they are paid and expire when they   *)
(* are not, and membership fees, which cost the member the plan when they  *)
(* go unpaid past the grace period and bring it back when they are settled.*)
(*                                                                         *)
(* A handler or a nightly job is one transaction and one step. What only   *)
(* restricts who may ask or who is billed (age, approval, period, feature  *)
(* switches) is left free: the step may just not be taken. Days are two    *)
(* sets: the receipts past their due date and the fees past the cutoff.    *)
(***************************************************************************)
EXTENDS Naturals, FiniteSets, ReceiptStatus

CONSTANTS
  Members,
  Receipts,
  Plans,
  Priced,      \* the plans with a base price
  FirstDefault,\* the free plan that is the default at first
  Defaults,    \* bound: the free plans an administrator makes the default
  Assigns,     \* bound: the plans an administrator puts members on
  Retires,     \* bound: the plans an administrator retires and brings back
  NoPlan,
  NoMember

ASSUME PricedArePlans    == Priced \subseteq Plans
ASSUME DefaultsAreFree   == Defaults \cup {FirstDefault} \subseteq Plans \ Priced
ASSUME AssignsArePlans   == Assigns \subseteq Plans
ASSUME RetiresArePlans   == Retires \subseteq Plans
ASSUME NoPlanIsNoPlan    == NoPlan \notin Plans
ASSUME NobodyIsNoMember  == NoMember \notin Members

VARIABLES
  tier,      \* members.membership_type_id
  parked,    \* members.membership_reverted_from_id
  default,   \* the plan with is_default
  onSale,    \* the plans with is_active
  status,    \* receipts.status; "none" where there is no row
  payer,     \* receipts.party_id
  buys,      \* receipts.purchased_membership_type_id; NoPlan for a fee
  banked,    \* the receipts with a remittance_id
  pastDue,   \* the receipts whose due_date is past
  lapsing,   \* the fees whose due_date or return_date is past the cutoff
  given,     \* auxiliary: the plan a person or a paid purchase last gave the member
  disturbed  \* auxiliary: who had a plan parked when an administrator changed the free tier,
             \* or put them on it

auxVars == <<given, disturbed>>
planVars == <<tier, parked, auxVars>>
saleVars == <<default, onSale>>
rowVars == <<payer, buys>>
dayVars == <<pastDue, lapsing>>
vars == <<planVars, saleVars, status, rowVars, banked, dayVars>>

OpenPurchaseStatuses == {"new", "pending", "emitted", "overdue", "returned"}
LapsableStatuses == {"emitted", "overdue", "returned"}

IsPurchase(r) == buys[r] # NoPlan

\* The purchases that void_open_purchases and expire_unpaid_purchases may cancel: those
\* still owed and not handed to the bank.
OpenPurchases ==
  {r \in Receipts : IsPurchase(r) /\ r \notin banked /\ status[r] \in OpenPurchaseStatuses}

\* default_membership_type: the default, while it is active.
FreeTier == IF default \in onSale THEN default ELSE NoPlan

\* Mutant: only what was never returned or re-emitted expires.
ExpiresEmitted == {r \in OpenPurchases \cap pastDue : status[r] = "emitted"}

\* expire_unpaid_purchases
Expires == OpenPurchases \cap pastDue

\* mark_overdue, where the pass before it has just cancelled what expires.
FallsOverdue(r) ==
  status[r] \in {"pending", "emitted"} /\ r \in pastDue \ Expires

\* lapsed_receipts
Lapsed == {r \in lapsing : ~IsPurchase(r) /\ status[r] \in LapsableStatuses}

------------------------------------------------------------------------------

\* generate_membership_fees and create_receipt: a fee raised by the run is emitted, one
\* raised by hand is pending.
RaiseFee(r, m, st) ==
  /\ status[r] = "none"
  /\ status' = [status EXCEPT ![r] = st]
  /\ payer' = [payer EXCEPT ![r] = m]
  /\ UNCHANGED <<planVars, saleVars, buys, banked, dayVars>>

\* _assert_purchasable
Purchasable(m, p) == p \in onSale \cap Priced /\ p # tier[m]

\* purchase_membership: what the member still owes for other purchases is voided; the plan
\* does not change until the receipt is paid.
Purchase(r, m, p) ==
  /\ status[r] = "none"
  /\ Purchasable(m, p)
  /\ status' = [s \in Receipts |-> IF s = r THEN "emitted"
                                   ELSE IF s \in OpenPurchases /\ payer[s] = m THEN "cancelled"
                                   ELSE status[s]]
  /\ payer' = [payer EXCEPT ![r] = m]
  /\ buys' = [buys EXCEPT ![r] = p]
  /\ UNCHANGED <<planVars, saleVars, banked, dayVars>>

\* activate_purchased_membership, as a member's <<plan, parked plan>>. A plan already held
\* is left as it is, and so is the parked one.
Activated(r, held) ==
  IF IsPurchase(r) /\ held[1] # buys[r] THEN <<buys[r], NoPlan>> ELSE held

\* Mutant: the parked plan is given back whatever the member holds by now.
RestoredWhatever(held) ==
  IF held[2] = NoPlan THEN held ELSE <<held[2], NoPlan>>

\* restore_reverted_membership: whoever has moved on keeps the newer plan.
Restored(held) ==
  IF held[2] = NoPlan THEN held
  ELSE IF FreeTier # NoPlan /\ held[1] # FreeTier THEN <<held[1], NoPlan>>
  ELSE <<held[2], NoPlan>>

\* mark_receipt_paid, by whatever method: the plan moves in the same transaction. Only an
\* administrator's assertion takes the receipt out of an open batch.
Pay(r) ==
  LET m == payer[r]
      after == Restored(Activated(r, <<tier[m], parked[m]>>)) IN
  /\ CanMove(status[r], "paid")
  /\ status' = [status EXCEPT ![r] = "paid"]
  /\ tier' = [tier EXCEPT ![m] = after[1]]
  /\ parked' = [parked EXCEPT ![m] = after[2]]
  /\ given' = IF IsPurchase(r) THEN [given EXCEPT ![m] = buys[r]] ELSE given
  /\ banked' \in {banked, banked \ {r}}
  /\ UNCHANGED <<disturbed, saleVars, rowVars, dayVars>>

------------------------------------------------------------------------------

Emit(r) ==
  /\ CanMove(status[r], "emitted")
  /\ status' = [status EXCEPT ![r] = "emitted"]
  /\ UNCHANGED <<planVars, saleVars, rowVars, banked, dayVars>>

Return(r) ==
  /\ CanMove(status[r], "returned")
  /\ status' = [status EXCEPT ![r] = "returned"]
  /\ UNCHANGED <<planVars, saleVars, rowVars, banked, dayVars>>

\* reemit_receipt clears the return date, so a fee may be within the cutoff again.
Reemit(r) ==
  /\ CanMove(status[r], "pending")
  /\ status' = [status EXCEPT ![r] = "pending"]
  /\ banked' = banked \ {r}
  /\ lapsing' \in {lapsing, lapsing \ {r}}
  /\ UNCHANGED <<planVars, saleVars, rowVars, pastDue>>

\* cancel_receipt, of one that is not at the bank.
Cancel(r) ==
  /\ CanMove(status[r], "cancelled")
  /\ status' = [status EXCEPT ![r] = "cancelled"]
  /\ banked' = banked \ {r}
  /\ UNCHANGED <<planVars, saleVars, rowVars, dayVars>>

\* create_remittance and cancel_remittance, for one receipt.
JoinBatch(r) ==
  /\ status[r] \in AwaitingSettlement /\ r \notin banked
  /\ banked' = banked \cup {r}
  /\ UNCHANGED <<planVars, saleVars, status, rowVars, dayVars>>

LeaveBatch(r) ==
  /\ r \in banked
  /\ banked' = banked \ {r}
  /\ UNCHANGED <<planVars, saleVars, status, rowVars, dayVars>>

\* The days pass.
DueDatePasses(r) ==
  /\ status[r] # "none"
  /\ pastDue' = pastDue \cup {r}
  /\ UNCHANGED <<planVars, saleVars, status, rowVars, banked, lapsing>>

GracePasses(r) ==
  /\ status[r] # "none" /\ ~IsPurchase(r)
  /\ r \in pastDue \/ status[r] = "returned"
  /\ lapsing' = lapsing \cup {r}
  /\ UNCHANGED <<planVars, saleVars, status, rowVars, banked, pastDue>>

------------------------------------------------------------------------------

\* Mutant: the overdue pass goes first, and leaves nothing it has marked to expire.
NightlyOverdueFirst(reminding) ==
  /\ status' = [r \in Receipts |-> IF /\ reminding
                                      /\ status[r] \in {"pending", "emitted"}
                                      /\ r \in pastDue THEN "overdue"
                                   ELSE IF r \in Expires THEN "cancelled"
                                   ELSE status[r]]
  /\ UNCHANGED <<planVars, saleVars, rowVars, banked, dayVars>>

\* scheduled_payment_reminders: purchases expire whether or not the club has switched
\* reminders on, and the overdue pass runs after it in the same transaction.
NightlyReminders(reminding) ==
  /\ status' = [r \in Receipts |-> IF r \in Expires THEN "cancelled"
                                   ELSE IF reminding /\ FallsOverdue(r) THEN "overdue"
                                   ELSE status[r]]
  /\ UNCHANGED <<planVars, saleVars, rowVars, banked, dayVars>>

\* Mutant: the club may have no active default plan.
LapseOntoNothing ==
  LET reverts == {m \in {payer[r] : r \in Lapsed} : tier[m] # FreeTier} IN
  /\ tier' = [m \in Members |-> IF m \in reverts THEN FreeTier ELSE tier[m]]
  /\ parked' = [m \in Members |-> IF m \in reverts THEN tier[m] ELSE parked[m]]
  /\ UNCHANGED <<auxVars, saleVars, status, rowVars, banked, dayVars>>

\* revert_lapsed_members: the plan is parked, over whatever was parked before.
LapseMembers ==
  LET due == {payer[r] : r \in Lapsed}
      reverts == {m \in due : tier[m] # FreeTier} IN
  /\ FreeTier # NoPlan
  /\ tier' = [m \in Members |-> IF m \in reverts THEN FreeTier ELSE tier[m]]
  /\ parked' = [m \in Members |-> IF m \in reverts THEN tier[m] ELSE parked[m]]
  /\ UNCHANGED <<auxVars, saleVars, status, rowVars, banked, dayVars>>

\* Those whose plan is parked while an administrator changes what the free tier is, or
\* chooses it for them.
Disturb(S) == disturbed' = disturbed \cup {m \in S : parked[m] # NoPlan}

\* update_member and approve_registration: the plan is set, the parked one is left.
Assign(m, p) ==
  /\ tier' = [tier EXCEPT ![m] = p]
  /\ given' = [given EXCEPT ![m] = p]
  /\ Disturb(IF p = default THEN {m} ELSE {})
  /\ UNCHANGED <<parked, saleVars, status, rowVars, banked, dayVars>>

\* update_membership_type: marking a plan the default takes the mark from the other.
MakeDefault(p) ==
  /\ p # default
  /\ default' = p
  /\ Disturb(Members)
  /\ UNCHANGED <<tier, parked, given, onSale, status, rowVars, banked, dayVars>>

\* delete_membership_type hides the plan, update_membership_type may show it again.
Retire(p) ==
  /\ onSale' = (onSale \ {p}) \cup ({p} \ onSale)
  /\ Disturb(IF p = default THEN Members ELSE {})
  /\ UNCHANGED <<tier, parked, given, default, status, rowVars, banked, dayVars>>

------------------------------------------------------------------------------

Init ==
  /\ tier \in [Members -> Assigns \cup {FirstDefault}]
  /\ parked = [m \in Members |-> NoPlan]
  /\ default = FirstDefault
  /\ onSale = Plans
  /\ status = [r \in Receipts |-> "none"]
  /\ payer = [r \in Receipts |-> NoMember]
  /\ buys = [r \in Receipts |-> NoPlan]
  /\ banked = {}
  /\ pastDue = {}
  /\ lapsing = {}
  /\ given = tier
  /\ disturbed = {}

Handle(r) ==
  \/ \E m \in Members, st \in {"pending", "emitted"} : RaiseFee(r, m, st)
  \/ \E m \in Members, p \in Plans : Purchase(r, m, p)
  \/ Pay(r)
  \/ Emit(r)
  \/ Return(r)
  \/ Reemit(r)
  \/ Cancel(r)
  \/ JoinBatch(r)
  \/ LeaveBatch(r)
  \/ DueDatePasses(r)
  \/ GracePasses(r)

Administer ==
  \/ \E m \in Members, p \in Assigns : Assign(m, p)
  \/ \E p \in Defaults : MakeDefault(p)
  \/ \E p \in Retires : Retire(p)

Next ==
  \/ \E r \in Receipts : Handle(r)
  \/ \E reminding \in BOOLEAN : NightlyReminders(reminding)
  \/ LapseMembers
  \/ Administer

\* Days pass, and the job of 03:00 runs, and succeeds, again and again.
Fairness ==
  /\ WF_vars(\E reminding \in BOOLEAN : NightlyReminders(reminding))
  /\ \A r \in Receipts : WF_vars(DueDatePasses(r))

Spec == Init /\ [][Next]_vars /\ Fairness
------------------------------------------------------------------------------

\* Types: what a member holds and has parked are plans, and a purchase names a priced one.
TypeOK ==
  /\ tier \in [Members -> Plans]
  /\ parked \in [Members -> Plans \cup {NoPlan}]
  /\ default \in Plans \ Priced
  /\ onSale \subseteq Plans
  /\ status \in [Receipts -> ReceiptStatuses \cup {"none"}]
  /\ payer \in [Receipts -> Members \cup {NoMember}]
  /\ buys \in [Receipts -> Priced \cup {NoPlan}]
  /\ banked \subseteq Receipts
  /\ pastDue \subseteq Receipts
  /\ lapsing \subseteq Receipts
  /\ given \in [Members -> Plans]
  /\ disturbed \subseteq Members

\* A member holds the plan last given, or has lost it to the free tier and has it parked.
Keeps(m) == \/ tier[m] = given[m]
            \/ tier[m] = default /\ parked[m] = given[m]

\* However many fees and purchases a member has, and in whatever order they fall due, lapse,
\* come back and are paid, the member holds the plan last given (bought and paid, or chosen
\* by an administrator), or is on the free tier with that very plan parked to come back;
\* unless an administrator changed the free tier while a plan was parked, or put on it
\* somebody who had one parked.
HoldsGiven == \A m \in Members : m \in disturbed \/ Keeps(m)

\* A purchase is never chased: a receipt for a plan nobody received becomes overdue only
\* while a batch has it, however often it was returned and emitted again before.
NeverChased ==
  [][\A r \in Receipts : status[r] # "overdue" /\ status'[r] = "overdue" =>
       ~IsPurchase(r) \/ r \in banked]_vars

\* An abandoned purchase does not stay open: it is paid, voided or expires, or the bank is
\* asked for it.
PurchaseEnds == \A r \in Receipts : r \in OpenPurchases ~> r \notin OpenPurchases
==============================================================================
