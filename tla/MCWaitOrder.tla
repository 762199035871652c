---------------------------- MODULE MCWaitOrder ----------------------------
(***************************************************************************)
(* The models of MCWriteArbitration with the history of WaitOrder.         *)
(***************************************************************************)
EXTENDS MCWriteArbitration, WaitOrder

OrderControl == <<Control, ahead>>
=============================================================================
