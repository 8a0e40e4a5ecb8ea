------------------------------ MODULE SetpointFifo ------------------------------
(***************************************************************************)
(* What the setpoint queue of apps/driver promises its clients: setpoints  *)
(* are executed one at a time, "in order of arrival", each exactly as it   *)
(* was accepted.  The motor driver is on while one makes steps; it is      *)
(* released after a setpoint that ends with zero velocity and when there   *)
(* is no work, before which the motor may be moved back inside limits that *)
(* have become narrower.  A setpoint that is not accepted is a stuttering step.      *)
(* SetpointQueue is shown to implement this specification.                 *)
(***************************************************************************)
EXTENDS Sequences

CONSTANTS
  Setpoint,   (* the setpoints clients may ask for                         *)
  Coasting,   (* those with a non-zero exit velocity                       *)
  None        (* no setpoint                                               *)

VARIABLES
  pending,    (* accepted, not yet started, in order of arrival            *)
  active,     (* the setpoint being executed, or None                      *)
  moving,     (* it makes steps                                            *)
  powered     (* the motor driver is enabled                               *)

vars == <<pending, active, moving, powered>>

TypeOK ==
  /\ pending \in Seq(Setpoint)
  /\ active \in Setpoint \cup {None}
  /\ moving \in BOOLEAN /\ powered \in BOOLEAN

Init == pending = <<>> /\ active = None /\ moving = FALSE /\ powered = FALSE

Accept(s) ==
  /\ pending' = Append(pending, s)
  /\ UNCHANGED <<active, moving, powered>>

(* A setpoint that needs steps enables the driver, a dwell leaves it.      *)
Start ==
  /\ active = None /\ pending # <<>>
  /\ active' = Head(pending)
  /\ pending' = Tail(pending)
  /\ moving' \in BOOLEAN
  /\ powered' = (moving' \/ powered)

Finish ==
  /\ active # None
  /\ active' = None /\ moving' = FALSE
  /\ powered' = (powered /\ active \in Coasting)
  /\ UNCHANGED pending

Halt ==
  /\ active = None
  /\ powered' = FALSE
  /\ UNCHANGED <<pending, active, moving>>

Return ==
  /\ active = None
  /\ powered' = TRUE
  /\ UNCHANGED <<pending, active, moving>>

Next == (\E s \in Setpoint : Accept(s)) \/ Start \/ Finish \/ Halt \/ Return

Spec == Init /\ [][Next]_vars
=================================================================================
