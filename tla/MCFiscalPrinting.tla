------------------------- MODULE MCFiscalPrinting -------------------------
(***************************************************************************)
(* A cash sale, its refund, and two threads that print them.               *)
(***************************************************************************)
EXTENDS FiscalPrinting

CONSTANTS sale, refund, till, office, noone

MCOriginalOf == [r \in Refunds |-> sale]
=============================================================================
