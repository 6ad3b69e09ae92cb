--------------------------- MODULE MembershipProofs ---------------------------
(***************************************************************************)
(* That a member of Membership holds the plan last given or has it parked, *)
(* and that a purchase is never chased, for any number of members, plans   *)
(* and receipts.                                                           *)
(***************************************************************************)
EXTENDS Membership, TLAPS

\* The types hold.
LEMMA TypeInit == Init => TypeOK
  BY PricedArePlans, DefaultsAreFree, AssignsArePlans
  DEF Init, TypeOK, ReceiptStatuses

\* Every step keeps the types.
LEMMA TypeNext ==
  ASSUME TypeOK, [Next]_vars
  PROVE  TypeOK'
  <1> USE PricedArePlans, DefaultsAreFree, AssignsArePlans, RetiresArePlans,
          NoPlanIsNoPlan, NobodyIsNoMember
      DEF TypeOK, ReceiptStatuses, planVars, auxVars, saleVars, rowVars, dayVars
  <1>1. ASSUME NEW r \in Receipts, NEW m \in Members, NEW st \in {"pending", "emitted"},
               RaiseFee(r, m, st)
        PROVE  TypeOK'
    BY <1>1 DEF RaiseFee
  <1>2. ASSUME NEW r \in Receipts, NEW m \in Members, NEW p \in Plans, Purchase(r, m, p)
        PROVE  TypeOK'
    BY <1>2 DEF Purchase, Purchasable
  <1>3. ASSUME NEW r \in Receipts, Pay(r)
        PROVE  TypeOK'
    <2> DEFINE m     == payer[r]
               after == Restored(Activated(r, <<tier[m], parked[m]>>))
    <2>1. ASSUME m \in Members
          PROVE  after[1] \in Plans /\ after[2] \in Plans \cup {NoPlan}
      BY <2>1 DEF Activated, Restored, FreeTier, IsPurchase
    <2>2. tier' \in [Members -> Plans] /\ parked' \in [Members -> Plans \cup {NoPlan}]
      BY <1>3, <2>1 DEF Pay
    <2>3. given' \in [Members -> Plans]
      BY <1>3 DEF Pay, IsPurchase
    <2> QED
      BY <1>3, <2>2, <2>3 DEF Pay
  <1>4. ASSUME NEW r \in Receipts, Emit(r) \/ Return(r) \/ Reemit(r) \/ Cancel(r)
        PROVE  TypeOK'
    BY <1>4 DEF Emit, Return, Reemit, Cancel
  <1>5. ASSUME NEW r \in Receipts, JoinBatch(r) \/ LeaveBatch(r)
        PROVE  TypeOK'
    BY <1>5 DEF JoinBatch, LeaveBatch
  <1>6. ASSUME NEW r \in Receipts, DueDatePasses(r) \/ GracePasses(r)
        PROVE  TypeOK'
    BY <1>6 DEF DueDatePasses, GracePasses
  <1>7. ASSUME NEW reminding \in BOOLEAN, NightlyReminders(reminding)
        PROVE  TypeOK'
    BY <1>7 DEF NightlyReminders
  <1>8. ASSUME LapseMembers
        PROVE  TypeOK'
    BY <1>8 DEF LapseMembers, FreeTier
  <1>9. ASSUME NEW m \in Members, NEW p \in Assigns, Assign(m, p)
        PROVE  TypeOK'
    BY <1>9 DEF Assign, Disturb
  <1>10. ASSUME NEW p \in Defaults, MakeDefault(p)
         PROVE  TypeOK'
    BY <1>10 DEF MakeDefault, Disturb
  <1>11. ASSUME NEW p \in Retires, Retire(p)
         PROVE  TypeOK'
    BY <1>11 DEF Retire, Disturb
  <1>12. CASE UNCHANGED vars
    BY <1>12 DEF vars
  <1> QED
    BY <1>1, <1>2, <1>3, <1>4, <1>5, <1>6, <1>7, <1>8, <1>9, <1>10, <1>11, <1>12
    DEF Next, Handle, Administer

\* What is parked is the plan last given, while the member is on the default plan.
ParkedIsGiven(m) == tier[m] = default /\ parked[m] # NoPlan => parked[m] = given[m]

\* A plan that is parked has a free tier to come back from.
ParkedOnSale(m) == parked[m] # NoPlan => default \in onSale

\* What a step keeps of each member whose free tier was left alone.
PlanKept(m) == m \in disturbed \/ (Keeps(m) /\ ParkedIsGiven(m) /\ ParkedOnSale(m))

PlansKept == \A m \in Members : PlanKept(m)

\* A payment gives the plan that was bought, or brings the parked one back.
LEMMA PayKeeps ==
  ASSUME TypeOK, NEW r \in Receipts, Pay(r), NEW m \in Members, PlanKept(m)
  PROVE  PlanKept(m)'
  <1> USE NoPlanIsNoPlan, PricedArePlans
      DEF TypeOK, PlanKept, Keeps, ParkedIsGiven, ParkedOnSale, saleVars
  <1> DEFINE held  == <<tier[m], parked[m]>>
             after == Restored(Activated(r, held))
  <1>1. CASE m # payer[r]
    BY <1>1 DEF Pay
  <1>2. CASE m \in disturbed
    BY <1>2 DEF Pay
  <1>3. CASE m = payer[r] /\ m \notin disturbed
    <2>1. /\ tier'[m] = after[1] /\ parked'[m] = after[2]
          /\ given'[m] = IF IsPurchase(r) THEN buys[r] ELSE given[m]
          /\ default' = default /\ onSale' = onSale /\ disturbed' = disturbed
      BY <1>3 DEF Pay
    <2>2. CASE IsPurchase(r) /\ tier[m] # buys[r]
      <3>1. Activated(r, held) = <<buys[r], NoPlan>>
        BY <2>2 DEF Activated
      <3>2. after = <<buys[r], NoPlan>>
        BY <3>1 DEF Restored
      <3> QED
        BY <1>3, <2>1, <2>2, <3>2
    <2>3. CASE ~(IsPurchase(r) /\ tier[m] # buys[r])
      <3>1. after = Restored(held)
        BY <2>3 DEF Activated
      <3>2. IsPurchase(r) => buys[r] = tier[m] /\ tier[m] # default
        BY <2>3 DEF IsPurchase
      <3>3. CASE parked[m] = NoPlan
        <4>1. after = held
          BY <3>1, <3>3 DEF Restored
        <4> QED
          BY <1>3, <2>1, <3>2, <3>3, <4>1
      <3>4. CASE parked[m] # NoPlan /\ tier[m] # default
        <4>1. FreeTier = default /\ default # NoPlan
          BY <1>3, <3>4 DEF FreeTier
        <4>2. after = <<tier[m], NoPlan>>
          BY <3>1, <3>4, <4>1 DEF Restored
        <4> QED
          BY <1>3, <2>1, <3>2, <3>4, <4>2
      <3>5. CASE parked[m] # NoPlan /\ tier[m] = default
        <4>1. FreeTier = default /\ default # NoPlan
          BY <1>3, <3>5 DEF FreeTier
        <4>2. after = <<parked[m], NoPlan>>
          BY <3>1, <3>5, <4>1 DEF Restored
        <4> QED
          BY <1>3, <2>1, <3>2, <3>5, <4>2
      <3> QED
        BY <3>3, <3>4, <3>5
    <2> QED
      BY <2>2, <2>3
  <1> QED
    BY <1>1, <1>2, <1>3

\* The other steps that move a plan or the free tier.
LEMMA KeptNext ==
  ASSUME TypeOK, PlansKept, [Next]_vars
  PROVE  PlansKept'
  <1> SUFFICES ASSUME NEW m \in Members
               PROVE  PlanKept(m)'
    BY DEF PlansKept
  <1>0. PlanKept(m)
    BY DEF PlansKept
  <1> USE <1>0, NoPlanIsNoPlan
      DEF TypeOK, PlanKept, Keeps, ParkedIsGiven, ParkedOnSale, planVars, auxVars, saleVars
  <1>1. ASSUME UNCHANGED <<planVars, saleVars>>
        PROVE  PlanKept(m)'
    BY <1>1
  <1>2. ASSUME NEW r \in Receipts, Handle(r), ~Pay(r)
        PROVE  UNCHANGED <<planVars, saleVars>>
    BY <1>2 DEF Handle, RaiseFee, Purchase, Emit, Return, Reemit, Cancel, JoinBatch,
                LeaveBatch, DueDatePasses, GracePasses
  <1>3. ASSUME NEW r \in Receipts, Pay(r)
        PROVE  PlanKept(m)'
    BY <1>3, PayKeeps
  <1>4. ASSUME NEW reminding \in BOOLEAN, NightlyReminders(reminding)
        PROVE  UNCHANGED <<planVars, saleVars>>
    BY <1>4 DEF NightlyReminders
  <1>5. ASSUME LapseMembers
        PROVE  PlanKept(m)'
    <2>1. default \in onSale /\ FreeTier = default
      BY <1>5 DEF LapseMembers, FreeTier
    <2>2. UNCHANGED <<given, disturbed, default, onSale>>
      BY <1>5 DEF LapseMembers
    <2>3. CASE tier'[m] = tier[m] /\ parked'[m] = parked[m]
      BY <2>2, <2>3
    <2>4. CASE tier[m] # default /\ tier'[m] = default /\ parked'[m] = tier[m]
      BY <2>1, <2>2, <2>4
    <2> QED
      BY <1>5, <2>1, <2>3, <2>4 DEF LapseMembers
  <1>6. ASSUME NEW n \in Members, NEW p \in Assigns, Assign(n, p)
        PROVE  PlanKept(m)'
    BY <1>6 DEF Assign, Disturb
  <1>7. ASSUME NEW p \in Defaults, MakeDefault(p)
        PROVE  PlanKept(m)'
    BY <1>7 DEF MakeDefault, Disturb
  <1>8. ASSUME NEW p \in Retires, Retire(p)
        PROVE  PlanKept(m)'
    BY <1>8 DEF Retire, Disturb
  <1>9. CASE UNCHANGED vars
    BY <1>1, <1>9 DEF vars
  <1> QED
    BY <1>1, <1>2, <1>3, <1>4, <1>5, <1>6, <1>7, <1>8, <1>9 DEF Next, Administer

\* The inductive invariant: the types, and what each member's plan, parked plan and free
\* tier say of each other.
MembershipInv == TypeOK /\ PlansKept

\* It holds of every reachable state, however handlers and jobs follow one another.
THEOREM MembershipInductive == Spec => []MembershipInv
  <1>1. Init => MembershipInv
    BY TypeInit DEF Init, MembershipInv, PlansKept, PlanKept, Keeps, ParkedIsGiven, ParkedOnSale
  <1>2. MembershipInv /\ [Next]_vars => MembershipInv'
    BY TypeNext, KeptNext DEF MembershipInv
  <1> QED
    BY <1>1, <1>2, PTL DEF Spec

\* Every column keeps a value of its kind: what a member holds and has parked are plans.
THEOREM MembershipTyped == Spec => []TypeOK
  <1>1. MembershipInv => TypeOK
    BY DEF MembershipInv
  <1> QED
    BY <1>1, MembershipInductive, PTL

\* A member holds the plan last given or has lost it to the free tier with it parked, through
\* every lapse, purchase and payment, unless the free tier was changed under a parked plan.
THEOREM PlanIsNeverLost == Spec => []HoldsGiven
  <1>1. MembershipInv => HoldsGiven
    BY DEF MembershipInv, PlansKept, PlanKept, HoldsGiven
  <1> QED
    BY <1>1, MembershipInductive, PTL

\* What the nightly job marks overdue is no purchase that it could have let expire.
LEMMA ChaseStep ==
  ASSUME TypeOK, [Next]_vars, NEW r \in Receipts,
         status[r] # "overdue", status'[r] = "overdue"
  PROVE  ~IsPurchase(r) \/ r \in banked
  <1> USE DEF TypeOK
  <1>1. PICK reminding \in BOOLEAN : NightlyReminders(reminding)
    <2>1. ASSUME NEW s \in Receipts, Handle(s)
          PROVE  FALSE
      BY <2>1 DEF Handle, RaiseFee, Purchase, Pay, Emit, Return, Reemit, Cancel, JoinBatch,
                  LeaveBatch, DueDatePasses, GracePasses
    <2>2. ~(LapseMembers \/ Administer)
      BY DEF LapseMembers, Administer, Assign, MakeDefault, Retire
    <2> QED
      BY <2>1, <2>2 DEF Next, vars
  <1>2. FallsOverdue(r)
    BY <1>1 DEF NightlyReminders
  <1> QED
    BY <1>2 DEF FallsOverdue, Expires, OpenPurchases, OpenPurchaseStatuses

\* A receipt for a plan nobody received becomes overdue only while a batch has it.
THEOREM PurchaseNeverChased == Spec => NeverChased
  <1>1. TypeOK /\ [Next]_vars =>
          [\A r \in Receipts : status[r] # "overdue" /\ status'[r] = "overdue" =>
             ~IsPurchase(r) \/ r \in banked]_vars
    BY ChaseStep
  <1> QED
    BY <1>1, MembershipTyped, PTL DEF Spec, NeverChased
==============================================================================
