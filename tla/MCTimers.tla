------------------------------ MODULE MCTimers ------------------------------
(* The programs that compute what a hardware timer is loaded with: the     *)
(* driver's step timing, rampstep's ramp and the bit rate calculator.      *)
(* They are programs of their own: a behaviour is one of them running.     *)
EXTENDS StepTimer, RampStep, CanRate

VARIABLE program

allVars == <<program, vars, rampVars, canRateVars>>

MCSteps == {1, 2, 3, 4}
MCTimes == 0..2

\* Bound: the moves of a behaviour whose clocks wrap.
MaxHurries == 2

\* Moves of every parity, about the two lengths at which the ramp just gets to
\* its full speed, and the 10000 of the source.
MCFars == (1..12) \cup (2828..2846) \cup {10000}

MCRates == {10000, 20000, 50000, 100000, 125000, 250000, 500000, 800000, 1000000}
MCClocks == {8000000, 12000000, 48000000, 72000000}

MCInit == /\ program \in {"driver", "rampstep", "canRate"}
          /\ Init /\ RampInit /\ CanRateInit
          /\ program = "rampstep" \/ far = 1

Driver == /\ program = "driver" /\ Next /\ hurries' <= MaxHurries
          /\ UNCHANGED <<program, rampVars, canRateVars>>
Ramp == program = "rampstep" /\ RampNext /\ UNCHANGED <<program, vars, canRateVars>>
CanRateRuns == program = "canRate" /\ CanRateNext /\ UNCHANGED <<program, vars, rampVars>>
MainReturns == program = "canRate" /\ request # {} /\ UNCHANGED allVars

MCNext == Driver \/ Ramp \/ CanRateRuns \/ MainReturns

MCSpec == MCInit /\ [][MCNext]_allVars

TypesOK == TypeOK /\ RampTypeOK /\ CanRateTypeOK
=============================================================================
