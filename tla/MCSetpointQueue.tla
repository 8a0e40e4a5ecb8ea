------------------------------ MODULE MCSetpointQueue ------------------------------
(* SetpointQueue for TLC: one setpoint that ends stopped, two that coast.  *)
EXTENDS SetpointQueue

CONSTANTS s1, s2, s3

MCSetpoint == {s1, s2, s3}
MCCoasting == {s2, s3}
====================================================================================
