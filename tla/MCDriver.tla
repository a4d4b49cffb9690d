------------------------------ MODULE MCDriver ------------------------------
(* The Driver runs on the register tree of MCRegisterTree. *)
EXTENDS Driver, MCRegisterTree
=============================================================================
