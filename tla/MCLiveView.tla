------------------------------ MODULE MCLiveView ------------------------------
(* LiveView and SessionControl side by side: while one runs the other has not begun, so  *)
(* that each is checked as if it were alone.  Nothing is fair of one that has not begun.  *)
EXTENDS LiveView, SessionControl

ViewStep == Init /\ ViewNext /\ UNCHANGED vars
SessionStep == ViewInit /\ Next /\ UNCHANGED viewVars

NoneBegun == Init /\ ViewInit

SideBySide ==
  /\ NoneBegun
  /\ [][ViewStep \/ SessionStep]_<<viewVars, vars>>
  /\ ViewFairness /\ Fairness
=============================================================================
