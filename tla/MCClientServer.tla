---------------------------- MODULE MCClientServer ----------------------------
(* ClientServer and DatabaseWriter side by side: while one runs the other has not      *)
(* begun, so that each is checked as if it were alone.                          *)
EXTENDS ClientServer, DatabaseWriter

ServerStep == Init /\ ServerNext /\ UNCHANGED vars
WriterStep == ServerInit /\ Next /\ UNCHANGED serverVars

NoneBegun == Init /\ ServerInit

SideBySide ==
  /\ NoneBegun
  /\ [][ServerStep \/ WriterStep]_<<serverVars, vars>>
  /\ ServerFairness /\ Fairness
=============================================================================
