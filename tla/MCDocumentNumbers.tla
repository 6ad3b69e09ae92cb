-------------------------- MODULE MCDocumentNumbers --------------------------
(***************************************************************************)
(* Bounded instance of DocumentNumbers: three requests, each of which     *)
(* issues up to two receipts or creates a remittance, in either of two     *)
(* years; one of them may have had the organisation loaded before.         *)
(***************************************************************************)
EXTENDS DocumentNumbers

CONSTANTS t1, t2, t3
==============================================================================
