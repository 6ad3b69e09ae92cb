------------------------------ MODULE MCWebhooks ------------------------------
(***************************************************************************)
(* Bounded instance of Webhooks: one receipt with a Stripe session and a   *)
(* Redsys attempt, so that two captures and an expiry compete for it.      *)
(***************************************************************************)
EXTENDS Webhooks

CONSTANTS p1, p2, d1, rcpt, stripe, redsys, session

Kinds == [e \in Events |-> IF e = session THEN "expired" ELSE "captured"]

ForOneReceipt == [e \in Events |-> rcpt]

\* The desk is a job of the worker ...
InWorker == [d \in Desks |-> Nobody]

\* ... or a request to the process that takes the notifications.
InLoop == [d \in Desks |-> p1]
==============================================================================
