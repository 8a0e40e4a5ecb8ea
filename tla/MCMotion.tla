-------------------------------- MODULE MCMotion --------------------------------
(* Motion for TLC: a handful of positions, three parameter requests.       *)
EXTENDS Motion

MCMinPos16 == -3
MCMotionParams == {
  [minPos |-> 0, maxPos |-> 0, posFactor |-> 0],
  [minPos |-> -2, maxPos |-> 2, posFactor |-> 4],
  [minPos |-> 0, maxPos |-> 1, posFactor |-> 7]}
MCSetpoint ==
  [position : {-2, 0, 1}, relative : BOOLEAN, time : {0, 1}, coasts : BOOLEAN]
=================================================================================
