------------------------------ MODULE RampStep ------------------------------
(***************************************************************************)
(* apps/rampstep: one stepper motor, pulsed by a 32-bit timer whose        *)
(* interrupt computes the period of the next pulse, so that the speed goes *)
(* up along a linear ramp and down along its mirror image.  The main       *)
(* program moves far away and back, for ever.                              *)
(*                                                                         *)
(* Rates are periods in 24.8 fixed point microseconds, as in the code.     *)
(* Only the outcome of the integer divisions decides whether a move ends,  *)
(* and where, so they are kept exactly.                                    *)
(***************************************************************************)
EXTENDS Integers

CONSTANTS Fars,    \* the positions main goes to, one of them per behaviour
          CSLOW,   \* the period at rest
          CFAST    \* the shortest period

\* Full speed is more than two steps away from rest, and less than half as
\* many steps as CFAST counts.  In the code CSLOW is 50 times CFAST, and CFAST
\* is 25600.
ASSUME RampAssumption ==
  /\ Fars \subseteq Int \ {0} /\ CSLOW \in Nat /\ CFAST \in Nat \ {0}
  /\ 15 * CFAST < 7 * CSLOW
  /\ \E ratio \in 1..CFAST : CSLOW <= ratio * CFAST /\ 27 * ratio * ratio <= 8 * CFAST

VARIABLES far,       \* where main goes to before it comes back to 0
          outward,   \* main's next moveTo is the one away from 0
          state,     \* "idle", "up", "max", "down", "last"
          running, pos, inc, rate, stepNo, stepDown, move, midPt, denom,
          timer,     \* the timer and its interrupt are on
          motor      \* pulses the motor has been given, forward minus back

rampVars == <<far, outward, state, running, pos, inc, rate, stepNo, stepDown,
              move, midPt, denom, timer, motor>>

RampInit ==
  /\ far \in Fars /\ outward = TRUE
  /\ state = "idle" /\ running = FALSE /\ timer = FALSE
  /\ pos = 0 /\ inc = 0 /\ rate = 0 /\ stepNo = 0 /\ stepDown = 0
  /\ move = 0 /\ midPt = 0 /\ denom = 0 /\ motor = 0

Distance(a, b) == IF a < b THEN b - a ELSE a - b

\* C's division of a non-negative number, towards zero.
Quotient(a, b) == IF b > 0 THEN a \div b ELSE -(a \div (-b))

\* main has found running clear and calls moveTo.
MoveTo ==
  /\ ~running
  /\ outward' = ~outward
  /\ LET posNew == IF outward THEN far ELSE 0 IN
       /\ posNew # pos
       /\ move' = Distance(pos, posNew)
       /\ inc' = IF posNew < pos THEN -1 ELSE 1
  /\ midPt' = (move' - 1) \div 2
  /\ rate' = CSLOW /\ stepNo' = 0 /\ denom' = 1
  /\ state' = "up" /\ running' = TRUE /\ timer' = TRUE
  /\ UNCHANGED <<far, pos, stepDown, motor>>

-----------------------------------------------------------------------------
(* Vector88, once per period of the timer: the match that raises the       *)
(* interrupt has also given the motor its pulse.                           *)

\* What follows the switch, in every state but rampIdle.
Step == /\ timer
        /\ motor' = motor + inc
        /\ pos' = pos + inc
        /\ stepNo' = stepNo + 1
        /\ UNCHANGED <<far, outward, running, inc, move, midPt, timer>>

\* Mutant of OneLeft: the last step is looked for one step late.
OneLeftLate == stepNo = move
OneLeft == stepNo = move - 1

\* case rampDown, also reached from rampUp: the next period from the
\* denominator of the previous one.
NextRate(st, den) ==
  IF OneLeft
  THEN state' = "last" /\ denom' = den /\ UNCHANGED <<rate, stepDown>>
  ELSE LET r == rate - Quotient(2 * rate, den + 4) IN
         /\ denom' = den + 4
         /\ state' = IF r <= CFAST THEN "max" ELSE st
         /\ rate' = IF r <= CFAST THEN CFAST ELSE r
         /\ stepDown' = IF r <= CFAST THEN move - stepNo ELSE stepDown

RampUp == state = "up" /\ stepNo # midPt /\ Step /\ NextRate("up", denom)

\* Mutant of TurnDenom: one step short of the mirror image.
TurnDenomShort(offset) == 4 * (stepNo - move) + offset - 4
\* The denominator from which the way down counts up to zero.
TurnDenom(offset) == 4 * (stepNo - move) + offset

\* The middle of an even move repeats the period of the step before it.
TurnEven == /\ state = "up" /\ stepNo = midPt /\ move % 2 = 0
            /\ Step
            /\ state' = "down" /\ denom' = TurnDenom(1) + 4
            /\ UNCHANGED <<rate, stepDown>>

TurnOdd == /\ state = "up" /\ stepNo = midPt /\ move % 2 = 1
           /\ Step
           /\ NextRate("down", TurnDenom(1))

RampMax == /\ state = "max"
           /\ Step
           /\ IF stepNo = stepDown
              THEN state' = "down" /\ denom' = TurnDenom(5)
              ELSE UNCHANGED <<state, denom>>
           /\ UNCHANGED <<rate, stepDown>>

RampDown == state = "down" /\ Step /\ NextRate("down", denom)

\* The last match stops the timer; the motor gets its pulse, pos does not
\* count it.
RampLast == /\ state = "last" /\ timer
            /\ state' = "idle" /\ timer' = FALSE /\ running' = FALSE
            /\ motor' = motor + inc
            /\ UNCHANGED <<far, outward, pos, inc, rate, stepNo, stepDown,
                           move, midPt, denom>>

RampNext == MoveTo \/ RampUp \/ TurnEven \/ TurnOdd \/ RampMax \/ RampDown \/ RampLast

-----------------------------------------------------------------------------
RampTypeOK ==
  /\ far \in Int /\ {outward, running, timer} \subseteq BOOLEAN
  /\ state \in {"idle", "up", "max", "down", "last"}
  /\ {pos, inc, rate, stepNo, stepDown, move, midPt, denom, motor} \subseteq Int

\* A move never counts past its end, and when main may start the next one the
\* position is the one asked for and the timer is off.  The pulse more that
\* each way takes is made good by the way back: at 0 the motor stands where it
\* began.
Arrives ==
  /\ running => stepNo <= move
  /\ ~running => /\ ~timer
                 /\ pos = IF outward THEN 0 ELSE far
                 /\ pos = 0 => motor = 0

\* The way down mirrors the way up: the motor never runs faster than CFAST or
\* noticeably slower than CSLOW, and when a move of any length comes to its last step
\* the period is back at CSLOW, to one part in a thousand, although every
\* division on the way has been rounded.
EndsSlow ==
  /\ running => rate \in CFAST..(CSLOW + CSLOW \div 1000)
  /\ state = "last" => 1000 * Distance(rate, CSLOW) <= CSLOW
=============================================================================
