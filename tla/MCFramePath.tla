------------------------------ MODULE MCFramePath ------------------------------
(* The instance of FramePath that is model-checked.                           *)
EXTENDS FramePath
=============================================================================
