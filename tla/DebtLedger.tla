------------------------------ MODULE DebtLedger ------------------------------
(***************************************************************************)
(* What SEPA collection promises, without files, counters, mandates or     *)
(* history: a debt goes through its life in one direction and starts again *)
(* only when it came back; it is claimed by at most one batch at a time;   *)
(* once that batch has been sent the claim is given up only for a debt     *)
(* that came back; closing a batch settles everything it still claims.     *)
(***************************************************************************)
CONSTANTS Receipts, Remittances, NoBatch

VARIABLES
  debt,    \* what is owed on each receipt
  claim,   \* the batch collecting it, or NoBatch
  phase    \* how far each batch has got

Debts  == {"none", "draft", "owed", "returned", "settled", "void"}
Phases == {"none", "open", "sent", "closed", "void"}

\* What a debt may become while its claim stands.
Becomes ==
  [ none     |-> {"draft", "owed"},
    draft    |-> {"owed", "void"},
    owed     |-> {"returned", "settled", "void"},
    returned |-> {"void"},
    settled  |-> {},
    void     |-> {} ]

Claimed(b) == {r \in Receipts : claim[r] = b}

------------------------------------------------------------------------------

\* Debts are raised, fall due, come back, are paid or given up: any number of them in one
\* transaction, and no claim changes.
Move ==
  /\ debt' \in [Receipts -> Debts]
  /\ \A r \in Receipts : debt'[r] = debt[r] \/ debt'[r] \in Becomes[debt[r]]
  /\ UNCHANGED <<claim, phase>>

\* A debt that is paid or given up while no batch has been sent for it leaves its batch.
Leave(r) ==
  /\ claim[r] = NoBatch \/ phase[claim[r]] # "sent"
  /\ \E d \in Becomes[debt[r]] \intersect {"settled", "void"} : debt' = [debt EXCEPT ![r] = d]
  /\ claim' = [claim EXCEPT ![r] = NoBatch]
  /\ UNCHANGED phase

\* A debt that came back starts again, out of whatever batch it was in.
Retry(r) ==
  /\ debt[r] = "returned"
  /\ debt' = [debt EXCEPT ![r] = "draft"]
  /\ claim' = [claim EXCEPT ![r] = NoBatch]
  /\ UNCHANGED phase

Claim(b, rows) ==
  /\ phase[b] = "none"
  /\ \A r \in rows : debt[r] = "owed" /\ claim[r] = NoBatch
  /\ claim' = [r \in Receipts |-> IF r \in rows THEN b ELSE claim[r]]
  /\ phase' = [phase EXCEPT ![b] = "open"]
  /\ UNCHANGED debt

Send(b) ==
  /\ phase[b] = "open"
  /\ Claimed(b) # {}
  /\ phase' = [phase EXCEPT ![b] = "sent"]
  /\ UNCHANGED <<debt, claim>>

Close(b) ==
  /\ phase[b] = "sent"
  /\ phase' = [phase EXCEPT ![b] = "closed"]
  /\ debt' = [r \in Receipts |->
                IF r \in Claimed(b) /\ debt[r] = "owed" THEN "settled" ELSE debt[r]]
  /\ UNCHANGED claim

Abandon(b) ==
  /\ phase[b] = "open"
  /\ phase' = [phase EXCEPT ![b] = "void"]
  /\ claim' = [r \in Receipts |-> IF claim[r] = b THEN NoBatch ELSE claim[r]]
  /\ UNCHANGED debt

------------------------------------------------------------------------------

Init ==
  /\ debt  = [r \in Receipts |-> "none"]
  /\ claim = [r \in Receipts |-> NoBatch]
  /\ phase = [b \in Remittances |-> "none"]

Next ==
  \/ Move
  \/ \E r \in Receipts : Leave(r) \/ Retry(r)
  \/ \E b \in Remittances : Send(b) \/ Close(b) \/ Abandon(b)
  \/ \E b \in Remittances, rows \in SUBSET Receipts : Claim(b, rows)

Spec == Init /\ [][Next]_<<debt, claim, phase>>
==============================================================================
