---------------------------- MODULE ReceiptStatus ----------------------------
(***************************************************************************)
(* The status vocabulary of the billing domain: which status words a       *)
(* receipt and a remittance may carry and which moves between them the     *)
(* service layer accepts. Every billing module shares these tables.        *)
(***************************************************************************)

ReceiptStatuses ==
  {"new", "pending", "emitted", "paid", "returned", "cancelled", "overdue"}

ValidTransitions ==
  [ new       |-> {"pending", "emitted", "cancelled"},
    pending   |-> {"emitted", "cancelled", "overdue"},
    emitted   |-> {"paid", "returned", "cancelled", "overdue"},
    overdue   |-> {"paid", "returned", "cancelled"},
    returned  |-> {"pending", "cancelled"},
    paid      |-> {},
    cancelled |-> {} ]

\* validate_status_transition: a status outside the table allows nothing.
CanMove(from, to) == from \in DOMAIN ValidTransitions /\ to \in ValidTransitions[from]

\* A receipt whose money is still expected through its batch.
AwaitingSettlement == {"emitted", "overdue"}

\* The statuses a bank return can act on.
ReturnableStatuses == {"emitted", "overdue"}

------------------------------------------------------------------------------

RemittanceStatuses ==
  {"draft", "ready", "submitted", "processed", "closed", "cancelled"}

ValidRemittanceTransitions ==
  [ draft     |-> {"ready", "cancelled"},
    ready     |-> {"submitted", "cancelled"},
    submitted |-> {"processed", "closed"},
    processed |-> {"closed"},
    closed    |-> {},
    cancelled |-> {} ]

CanMoveBatch(from, to) ==
  from \in DOMAIN ValidRemittanceTransitions /\ to \in ValidRemittanceTransitions[from]

BatchOpen    == {"draft", "ready"}
BatchSent    == {"submitted", "processed"}
BatchHistory == {"submitted", "processed", "closed"}

ReleaseReasons ==
  {"reemitted", "cancelled", "paid_by_other_means", "batch_cancelled"}
==============================================================================
