------------------------------ MODULE MCWSSServer ------------------------------
(* The instance of WSSServer that is model-checked.                           *)
EXTENDS WSSServer
=============================================================================
