------------------------------ MODULE MCReceipts ------------------------------
(* Model-checking instance of Receipts: the constants are in the cfg file. *)
EXTENDS Receipts
=============================================================================
