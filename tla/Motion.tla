--------------------------------- MODULE Motion ---------------------------------
(***************************************************************************)
(* apps/driver/motion.cpp: the step counter shared by the stepper thread,  *)
(* the main thread and the timer interrupt.  The stepper thread executes   *)
(* setpoints, and motionStop when it has none; main handles abort and      *)
(* parameter requests and reports; the timer interrupt makes the steps.    *)
(*                                                                         *)
(* The queue is abstracted: any setpoint may come next, or none (module    *)
(* SetpointQueue has the queue).  As there, an action is what a thread     *)
(* does until it sleeps, blocks or yields; the interrupt comes between     *)
(* any two actions.  The end of motionTarget, where a timer that is still  *)
(* on from the last move counts to the new rate already, is an action for  *)
(* each line.  The rate of the timer is the subject of StepTimer; here the *)
(* timer is off, counting to MR3 = rate, or parked at MR3 = ~0.            *)
(***************************************************************************)
EXTENDS Integers

CONSTANTS
  One,                  (* 1.0 in the fixed point of posFactor: 256        *)
  MinPos16, MaxPos16,   (* the int16_t range of positions                  *)
  Word,                 (* 2^32, the number of values of a machine word    *)
  MotionParams,         (* the parameter records requests carry            *)
  Setpoint              (* the setpoint records requests carry             *)

Abs(x) == IF x < 0 THEN -x ELSE x

(* C's integer division rounds towards zero.                               *)
CDiv(a, b) == IF a >= 0 THEN a \div b ELSE -((-a) \div b)

Pos16 == MinPos16..MaxPos16

ASSUME MotionAssumption ==
  /\ One \in Nat /\ One >= 2 /\ One % 2 = 0
  /\ Word \in Nat /\ Word >= 2 /\ Word % 2 = 0
  /\ MinPos16 \in Int /\ MaxPos16 \in Int /\ MinPos16 < 0 /\ MaxPos16 > 0
  /\ MotionParams \subseteq [minPos : Pos16, maxPos : Pos16, posFactor : Nat]
  /\ Setpoint \subseteq [position : Pos16, relative : BOOLEAN, time : Nat, coasts : BOOLEAN]

VARIABLES
  params,      (* motion.params                                            *)
  targetStep, direction, stepsToGo,
  errors,      (* motion.errors                                            *)
  timer,       (* "off" (TCR = 0), "armed" (MR3 = rate), "parked" (~0)     *)
  dirPin,      (* the DIR pin, as the direction it stands for              *)
  powered,     (* the EN pin is low                                        *)
  launch,      (* the next line of a thread that starts a move: it sets    *)
               (* the "DIR" pin, the "EN" pin, or "TCR"                    *)
  stepper,     (* where the stepper thread is                              *)
  coasts,      (* the setpoint it executes has a non-zero velocity         *)
  main,        (* where the main thread is                                 *)
  rash,        (* history: parameters were set in the middle of a move, or *)
               (* with limits that exclude the position of the motor       *)
  aborted,     (* history: there has been an abort request                 *)
  slipped,     (* history, of a client that did neither: what a step was   *)
               (* counted before that the motor missed or made the wrong   *)
               (* way                                                      *)
  sharp        (* history of such a client: a move was started with the    *)
               (* timer on that had to turn round or switch the motor on   *)

pins == <<timer, dirPin, powered>>
steps == <<targetStep, direction, stepsToGo>>
history == <<rash, aborted, slipped, sharp>>
vars == <<params, steps, errors, pins, launch, stepper, coasts, main, history>>

(* A thread in motionTarget polls stepsToGo ("moving", in motionStop       *)
(* "stopMoving") or sleeps ("dwelling", in motionStop "stopping").  The    *)
(* stepper is "reset" when chMBReset has woken it from "waiting".          *)
StepperStates == {"fetch", "moving", "dwelling", "stopMoving", "stopping", "waiting", "reset"}
MainStates == {"idle", "stopMoving", "stopping"}
Lines == {"DIR", "EN", "TCR", "none"}

---------------------------------------------------------------------------------
Signed(x) == ((x + Word \div 2) % Word) - Word \div 2

(* int motionPosition ()                                                   *)
motionPosition == Signed(targetStep - direction * stepsToGo)

(* Mutant of posToStep: no rounding.                                       *)
posToStepTruncates(p, pos) == CDiv(pos * p.posFactor, One)

(* int posToStep (int pos), with the factor of parameters p.               *)
posToStep(p, pos) == CDiv(pos * p.posFactor + One \div 2, One)

MinStep(p) == posToStep(p, p.minPos)
MaxStep(p) == posToStep(p, p.maxPos)

(* What motionParams makes of the parameters it is given.                  *)
Sane(p) ==
  LET whole == p.maxPos <= p.minPos
  IN  [posFactor |-> IF p.posFactor = 0 THEN One ELSE p.posFactor,
       minPos |-> IF whole THEN MinPos16 ELSE p.minPos,
       maxPos |-> IF whole THEN MaxPos16 ELSE p.maxPos]

(* Positions that are sent fit 16 bits, factors too: the limits in steps   *)
(* are well inside an int, for all parameters and for those at the start.  *)
NoParams == [minPos |-> 0, maxPos |-> 0, posFactor |-> 0]
FitsInt(x) == -(Word \div 2) < x /\ x < Word \div 2 - 1
ASSUME StepsFit ==
  \A p \in MotionParams \cup {NoParams} :
    FitsInt(MinStep(Sane(p))) /\ FitsInt(MaxStep(Sane(p)))

(* The soft limits, applied in the order of the code.                      *)
AtLeastMin(t) == IF t < MinStep(params) THEN MinStep(params) ELSE t
(* Mutant of Clip: the upper limit is not enforced.                        *)
ClipMinOnly(t) == AtLeastMin(t)

Clip(t) == IF AtLeastMin(t) > MaxStep(params) THEN MaxStep(params) ELSE AtLeastMin(t)
Bumps(t) == {f \in {"HITMIN", "HITMAX"} :
               \/ f = "HITMIN" /\ t < MinStep(params)
               \/ f = "HITMAX" /\ AtLeastMin(t) > MaxStep(params)}

StopSetpoint == [position |-> 0, relative |-> TRUE, time |-> 1, coasts |-> FALSE]

(* Mutant of StepDiff: taken from the previous target, not the position.   *)
StepDiffFromTarget(target) == target - targetStep
StepDiff(target) == target - motionPosition
StepCount(diff) == Abs(diff)

(* The first half of motionTarget.                                         *)
SetTarget(s) ==
  LET wanted == posToStep(params, s.position) + (IF s.relative THEN motionPosition ELSE 0)
      stepDiff == StepDiff(Clip(wanted))
  IN  /\ targetStep' = Clip(wanted)
      /\ direction' = IF stepDiff > 0 THEN 1 ELSE -1
      /\ stepsToGo' = StepCount(stepDiff)
      /\ errors' \in {errors \cup Bumps(wanted)}
                     \cup IF stepDiff = 0 THEN {} ELSE {errors \cup Bumps(wanted) \cup {"TOOFAST"}}

(* MR3 = rate.  The motor must turn round or be switched on before the     *)
(* next match, which may be at once if the timer is on.                    *)
Arm == timer' = IF timer = "off" THEN "off" ELSE "armed"

(* Mutant of StopTimer: it keeps counting, at MR3 = ~0.                    *)
SlowTimer == timer' = IF timer = "armed" THEN "parked" ELSE timer
StopTimer == timer' = "off"

(* Its second half, up to the point where the thread waits or returns, or  *)
(* has set MR3.                                                            *)
StartMove(s) ==
  /\ SetTarget(s) /\ stepsToGo' > 0
  /\ Arm
  /\ launch' = "DIR"
  /\ UNCHANGED <<dirPin, powered>>

StartDwell(s) ==
  /\ SetTarget(s) /\ stepsToGo' = 0 /\ s.time > 0
  /\ StopTimer
  /\ UNCHANGED <<dirPin, powered, launch>>

NoMotion(s) ==
  /\ SetTarget(s) /\ stepsToGo' = 0 /\ s.time = 0
  /\ SlowTimer
  /\ powered' = (powered /\ s.coasts)
  /\ UNCHANGED <<dirPin, launch>>

(* A client that sets parameters only at rest and never aborts; a move that *)
(* starts with the timer on and must turn round or switch the motor on; and *)
(* what the histories keep of a call, calm when the client still is so.     *)
Calm == ~rash /\ ~aborted
Sharp == launch' = "DIR" /\ timer # "off" /\ (dirPin # direction' \/ ~powered)
Remember(calm) ==
  /\ sharp' = (calm /\ (sharp \/ Sharp))
  /\ slipped' = IF calm THEN slipped ELSE {}

---------------------------------------------------------------------------------
Init ==
  /\ params = Sane(NoParams)
  /\ targetStep = 0 /\ direction = 0 /\ stepsToGo = 0
  /\ errors = {}
  /\ timer = "off" /\ dirPin = -1 /\ powered = FALSE
  /\ launch = "none" /\ stepper = "fetch" /\ coasts = FALSE /\ main = "idle"
  /\ slipped = {} /\ rash = FALSE /\ aborted = FALSE /\ sharp = FALSE

(* A thread that starts a move does not give the processor up.             *)
ThreadsFree == launch = "none"
StepperHasCpu == stepper = "fetch"
Polling(th) == th \in {"moving", "stopMoving"}

(* The stepper runs before any sleep of main ends.                         *)
StepperReady == stepper \in {"fetch", "reset"} \/ (Polling(stepper) /\ stepsToGo = 0)

(* Mutant of ParkAtZero: the timer is not slowed down after the last step. *)
ParkNever == UNCHANGED timer
ParkAtZero == timer' = IF stepsToGo' = 0 THEN "parked" ELSE timer

(* Vector88, the timer interrupt: a step, the last one parks the timer.    *)
Tick ==
  /\ timer = "armed"
  /\ stepsToGo' = stepsToGo - 1
  /\ ParkAtZero
  /\ slipped' = IF Calm => powered /\ dirPin = direction
                THEN slipped ELSE slipped \cup {launch}
  /\ UNCHANGED <<params, targetStep, direction, errors, dirPin, powered, launch>>
  /\ UNCHANGED <<stepper, coasts, main, rash, aborted, sharp>>

(* A parked timer reaches 2^32 - 1 after 89 seconds and interrupts too,    *)
(* with no steps to go.  No sleep and no poll lasts that long; only a      *)
(* stepper that is blocked in chMBFetch can still be where it was.         *)
TimerWraps ==
  /\ timer = "parked" /\ stepper = "waiting" /\ main = "idle"
  /\ stepsToGo = 0     \* bound: the first of them
  /\ stepsToGo' = (stepsToGo - 1) % Word
  /\ slipped' = IF Calm THEN slipped \cup {launch} ELSE slipped
  /\ UNCHANGED <<params, targetStep, direction, errors, pins, launch>>
  /\ UNCHANGED <<stepper, coasts, main, rash, aborted, sharp>>

(* The rest of motionTarget once MR3 is set, line by line.                 *)
(* Mutant of After: the timer is started before the motor is on.           *)
AfterTimerFirst(line) == CASE line = "DIR" -> "TCR" [] line = "TCR" -> "EN" [] line = "EN" -> "none"
After(line) == CASE line = "DIR" -> "EN" [] line = "EN" -> "TCR" [] line = "TCR" -> "none"

Line(line) ==
  /\ launch = line /\ launch' = After(line)
  /\ UNCHANGED <<params, steps, errors, stepper, coasts, main, history>>

(* Mutant of DirFor: the pin is left as it was.                            *)
DirForNot(dir) == dirPin
DirFor(dir) == dir

SetDir == Line("DIR") /\ dirPin' = DirFor(direction) /\ UNCHANGED <<timer, powered>>
Enable == Line("EN") /\ powered' = TRUE /\ UNCHANGED <<timer, dirPin>>

(* Mutant of Started: the timer is not started.                            *)
StartedNot(t) == t
Started(t) == IF t = "off" THEN "armed" ELSE t

StartTimer == Line("TCR") /\ timer' = Started(timer) /\ UNCHANGED <<dirPin, powered>>

(* The stepper thread fetches a setpoint.                                  *)
Take(s) ==
  /\ ThreadsFree /\ stepper \in {"fetch", "waiting"}
  /\ \/ StartMove(s) /\ stepper' = "moving"
     \/ StartDwell(s) /\ stepper' = "dwelling"
     \/ NoMotion(s) /\ stepper' = "fetch"
  /\ coasts' = s.coasts
  /\ Remember(Calm)
  /\ UNCHANGED <<params, main, rash, aborted>>

(* There is none, or the mailbox was reset: motionStop.                    *)
NoWork ==
  /\ ThreadsFree /\ stepper \in {"fetch", "reset"}
  /\ \/ StartMove(StopSetpoint) /\ stepper' = "stopMoving"
     \/ StartDwell(StopSetpoint) /\ stepper' = "stopping"
  /\ Remember(Calm)
  /\ UNCHANGED <<params, coasts, main, rash, aborted>>

(* motionTarget is done waiting: release the motor unless it coasts.       *)
TargetDone ==
  /\ ThreadsFree
  /\ stepper = "dwelling" \/ (stepper = "moving" /\ stepsToGo = 0)
  /\ stepper' = "fetch"
  /\ powered' = (powered /\ coasts)
  /\ UNCHANGED <<params, steps, errors, timer, dirPin, launch, coasts, main, history>>

StopDone ==
  /\ ThreadsFree
  /\ stepper = "stopping" \/ (stepper = "stopMoving" /\ stepsToGo = 0)
  /\ stepper' = "waiting"
  /\ powered' = FALSE
  /\ UNCHANGED <<params, steps, errors, timer, dirPin, launch, coasts, main, history>>

---------------------------------------------------------------------------------
MainRuns == ThreadsFree /\ main = "idle" /\ ~StepperHasCpu

InsideLimits(p) == motionPosition \in MinStep(Sane(p))..MaxStep(Sane(p))

(* A request to set the parameters.                                        *)
ParamsRequest(p) ==
  /\ MainRuns
  /\ params' = Sane(p)
  /\ rash' = (rash \/ stepsToGo > 0 \/ ~InsideLimits(p))
  /\ UNCHANGED <<steps, errors, pins, launch, stepper, coasts, main, aborted>>
  /\ Remember(~rash' /\ ~aborted)

(* An abort request: motionStop, and when it returns setpointReset.        *)
AbortBegins ==
  /\ MainRuns
  /\ \/ StartMove(StopSetpoint) /\ main' = "stopMoving"
     \/ StartDwell(StopSetpoint) /\ main' = "stopping"
  /\ aborted' = TRUE
  /\ Remember(FALSE)
  /\ UNCHANGED <<params, stepper, coasts, rash>>

AbortEnds ==
  /\ ThreadsFree
  /\ \/ main = "stopping" /\ ~StepperReady
     \/ main = "stopMoving" /\ stepsToGo = 0 /\ ~StepperHasCpu
  /\ main' = "idle"
  /\ powered' = FALSE
  /\ stepper' = IF stepper = "waiting" THEN "reset" ELSE stepper
  /\ UNCHANGED <<params, steps, errors, timer, dirPin, launch, coasts, history>>

(* reportQueueAndStatus: motionStatus clears the errors it reports.        *)
Report ==
  /\ MainRuns
  /\ errors' = {}
  /\ UNCHANGED <<params, steps, pins, launch, stepper, coasts, main, history>>

---------------------------------------------------------------------------------
StepperTh == (\E s \in Setpoint : Take(s)) \/ NoWork \/ TargetDone \/ StopDone
SetParams == \E p \in MotionParams : ParamsRequest(p)
Abort == AbortBegins \/ AbortEnds

Launching == SetDir \/ Enable \/ StartTimer
Timer == Tick \/ TimerWraps

Next == Timer \/ Launching \/ StepperTh \/ SetParams \/ Abort \/ Report

(* The timer runs, a thread that runs goes on, sleeps end, and the stepper *)
(* gets the processor.                                                     *)
Fairness == WF_vars(Tick) /\ WF_vars(Launching) /\ WF_vars(StepperTh) /\ WF_vars(AbortEnds)

Spec == Init /\ [][Next]_vars /\ Fairness

---------------------------------------------------------------------------------
(* Properties.                                                             *)

TypeOK ==
  /\ params \in [minPos : Pos16, maxPos : Pos16, posFactor : Nat \ {0}]
  /\ targetStep \in Int /\ direction \in {-1, 0, 1} /\ stepsToGo \in 0..(Word - 1)
  /\ errors \subseteq {"HITMIN", "HITMAX", "TOOFAST"}
  /\ timer \in {"off", "armed", "parked"} /\ dirPin \in {-1, 1} /\ powered \in BOOLEAN
  /\ launch \in Lines /\ stepper \in StepperStates /\ main \in MainStates
  /\ coasts \in BOOLEAN /\ slipped \subseteq Lines
  /\ rash \in BOOLEAN /\ aborted \in BOOLEAN /\ sharp \in BOOLEAN

(* While the client sets parameters only at rest and around the position,  *)
(* aborts included, the timer is armed only while there are steps to make, *)
(* and there is a thread that will notice the last one; once that thread   *)
(* has started the move the timer is armed for every step, with the DIR    *)
(* pin set for it.  So the unsigned stepsToGo is never decremented at      *)
(* zero, whichever of the two threads set the target and whichever stops   *)
(* it.  At rest the timer is off: one left parked with TCR set would count *)
(* to 2^32 and decrement stepsToGo below zero a minute and a half later.   *)
ArmedForSteps == ~rash =>
  /\ timer = "armed" => stepsToGo > 0
  /\ stepsToGo > 0 => Polling(stepper) \/ Polling(main)
  /\ stepsToGo > 0 /\ launch = "none" => timer = "armed" /\ dirPin = direction
  /\ stepper = "waiting" /\ main = "idle" => timer = "off"

(* Setting a new target, from either thread and in the middle of a move,   *)
(* never changes the position, which is the target less the steps to go:   *)
(* it only changes by single steps of the interrupt, in the direction of   *)
(* the move.                                                               *)
PositionContinuous ==
  [][motionPosition' # motionPosition =>
       /\ Timer
       /\ motionPosition' = motionPosition + direction]_vars

(* posToStep is within half a step of the exact product for positions that *)
(* are not negative and within one and a half for the others, and it keeps *)
(* order, so that the soft limits of motionTarget are in order too.        *)
Error2(p) == 2 * Abs(posToStep(params, p) * One - p * params.posFactor)
ScalesClosely ==
  /\ \A p \in Pos16 : IF p >= 0 THEN Error2(p) <= One ELSE Error2(p) < 3 * One
  /\ \A p \in MinPos16..(MaxPos16 - 1) : posToStep(params, p) <= posToStep(params, p + 1)
  /\ MinStep(params) <= MaxStep(params)

(* For such a client a move never leads out of the limits in force.        *)
StepsWithinLimits ==
  ~rash /\ stepsToGo > 0 => targetStep \in MinStep(params)..MaxStep(params)

(* If such a client has never aborted either, the motor makes every step   *)
(* that is counted, with its driver on and its DIR pin as the count goes,  *)
(* except between the lines that set MR3 and the two pins: no line after   *)
(* them is too early.  And even there a step can only be lost when a move  *)
(* follows another at once and turns round, or finds the motor released.   *)
NeverSlips == Calm =>
  /\ slipped \subseteq {"DIR", "EN"}
  /\ ~sharp => slipped = {}

(* Where the steps of such a client lead, and which the motor makes.       *)
StepsAsCounted == StepsWithinLimits /\ NeverSlips

(* Every move ends.                                                        *)
MoveEnds == Polling(stepper) ~> ~Polling(stepper)

=================================================================================
