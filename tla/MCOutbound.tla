------------------------------ MODULE MCOutbound ------------------------------
(* Model-checking instances of Outbound: the constants are in the cfg files. *)
EXTENDS Outbound
===============================================================================
