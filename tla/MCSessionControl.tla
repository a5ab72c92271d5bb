--------------------------- MODULE MCSessionControl ---------------------------
(* The instances of SessionControl that are model-checked.                    *)
EXTENDS SessionControl, TLC

(* The workers run the same loop.  Only for runs without liveness.            *)
WorkerSymmetry == Permutations(Workers)
=============================================================================
