---------------------------- MODULE MCRecordStore ----------------------------
(* The instance of RecordStore that is model-checked.                          *)
EXTENDS RecordStore
=============================================================================
