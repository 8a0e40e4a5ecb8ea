-------------------------------- MODULE StepTimer --------------------------------
(***************************************************************************)
(* The pacing of steps in apps/driver/motion.cpp: the rate motionTarget    *)
(* computes from the time of a setpoint, the residue it carries to the     *)
(* next one, and the hardware counter that turns the rate into steps.      *)
(* Arithmetic is that of uint32_t, modulo Word.  Positions and threads are *)
(* in module Motion.                                                       *)
(***************************************************************************)
EXTENDS Integers

CONSTANTS
  Word,       (* 2^32                                                      *)
  Unit,       (* MHZ * USPT = 6000 clocks per time unit of a setpoint      *)
  MinRate,    (* MHZ * 10 = 480 clocks, the fastest rate                   *)
  Steps,      (* the step counts moves are asked for                       *)
  Times       (* the times they are given                                  *)

ASSUME TimerAssumption ==
  /\ Word \in Nat \ {0} /\ Word % 2 = 0
  /\ Unit \in Nat \ {0} /\ MinRate \in 1..(Word - 1)
  /\ Steps \subseteq Nat \ {0} /\ Times \subseteq Nat
  /\ \A t \in Times, n \in Steps : 2 * (Unit * t + n) < Word /\ 2 * n < Word

VARIABLES
  residue,     (* motion.residue                                           *)
  stepsToGo,   (* motion.stepsToGo                                         *)
  tcr, tc,     (* the timer counts; the count                              *)
  mr3,         (* the count at which it interrupts and starts again        *)
  asked,       (* history: the step count of the last move                 *)
  debt,        (* history: clocks asked for minus clocks programmed, in    *)
               (* total, before the rate limit                             *)
  hurries,     (* history: the moves that were too short to make up for    *)
               (* what the one before took too much                        *)
  began,       (* history: the count when the move in progress began       *)
  spent        (* history: the clocks it has taken so far                  *)

carried == <<residue, asked, debt, hurries>>
vars == <<carried, stepsToGo, tcr, tc, mr3, began, spent>>

Max32 == Word - 1     \* ~0, which "slows down" the timer
Signed(x) == ((x + Word \div 2) % Word) - Word \div 2

(* Mutant of Clocks: the residue is computed and never used.               *)
ClocksNoResidue(t) == (Unit * t) % Word

Clocks(t) == (Unit * t + residue) % Word
Rate(n, t) == ((Clocks(t) + n \div 2) % Word) \div n
Limited(rate) == IF rate < MinRate THEN MinRate ELSE rate

Init ==
  /\ residue = 0 /\ stepsToGo = 0
  /\ tcr = FALSE /\ tc = 0 /\ mr3 = Max32
  /\ asked = 0 /\ debt = 0 /\ hurries = 0 /\ began = 0 /\ spent = 0

(* Mutant of Left: the residue is kept unsigned.                           *)
LeftUnsigned(n, t) == (Clocks(t) - Rate(n, t) * n) % Word
Left(n, t) == Signed(Clocks(t) - Rate(n, t) * n)

(* A short time after a negative residue: the clocks, less than nothing    *)
(* and no step's rounding away from it, wrap to nearly Word.  It becomes   *)
(* the slowest of moves and not the fastest.                               *)
Hurried(n, t) == Unit * t + residue + n \div 2 < 0

(* motionTarget with n steps to make in t time units.                      *)
Move(n, t) ==
  /\ stepsToGo' = n
  /\ residue' = Left(n, t)
  /\ mr3' = Limited(Rate(n, t))
  /\ tcr' = TRUE
  /\ asked' = n
  /\ debt' = debt + Unit * t - Rate(n, t) * n
  /\ hurries' = IF Hurried(n, t) THEN hurries + 1 ELSE hurries
  /\ began' = tc /\ spent' = 0
  /\ UNCHANGED tc

(* motionTarget with no steps to make: MR3 = ~0.  If there is time (in     *)
(* motionStop, a unit) the timer stops where it is.                        *)
Dwell(t) ==
  /\ mr3' = Max32 /\ stepsToGo' = 0
  /\ tcr' = (tcr /\ t = 0)
  /\ began' = 0 /\ spent' = 0
  /\ UNCHANGED <<carried, tc>>

Moving == stepsToGo \in 1..asked    \* and not wrapped

(* The counter counts up to MR3, where the interrupt makes a step and the  *)
(* counter starts again.  Beyond MR3 it has all of 2^32 to go.             *)
Count ==
  /\ tcr /\ tc # mr3
  /\ tc' = (tc + 1) % Word
  /\ spent' = IF Moving THEN spent + 1 ELSE spent
  /\ UNCHANGED <<carried, stepsToGo, tcr, mr3, began>>

(* Mutant of Parked: the interrupt slows the timer down a step early.      *)
ParkedEarly(toGo) == IF toGo <= 1 THEN Max32 ELSE mr3
Parked(toGo) == IF toGo = 0 THEN Max32 ELSE mr3

Match ==
  /\ tcr /\ tc = mr3
  /\ 0 < stepsToGo /\ stepsToGo < Max32
  /\ tc' = 0
  /\ stepsToGo' = stepsToGo - 1
  /\ mr3' = Parked(stepsToGo')
  /\ spent' = IF stepsToGo' = 0 THEN 0 ELSE spent + 1
  /\ began' = IF stepsToGo' = 0 THEN 0 ELSE began
  /\ UNCHANGED <<carried, tcr>>

(* A parked counter gets to 2^32 - 1 too, if nothing comes in between, and *)
(* interrupts with no steps to go.                                         *)
Wraps ==
  /\ tcr /\ tc = mr3
  /\ stepsToGo = 0     \* bound: the first of them, here and in Match
  /\ tc' = 0
  /\ stepsToGo' = (stepsToGo - 1) % Word
  /\ mr3' = Parked(stepsToGo')
  /\ UNCHANGED <<carried, tcr, began, spent>>

(* The threads call motionTarget whenever they get to it.                  *)
Target ==
  \/ \E n \in Steps, t \in Times : Move(n, t)
  \/ \E t \in Times : Dwell(t)

Next == Target \/ Count \/ Match \/ Wraps

Spec == Init /\ [][Next]_vars

---------------------------------------------------------------------------------
(* Properties.                                                             *)

TypeOK ==
  /\ residue \in -(Word \div 2)..(Word \div 2 - 1)
  /\ stepsToGo \in 0..Max32 /\ asked \in Nat
  /\ tcr \in BOOLEAN /\ tc \in 0..Max32 /\ mr3 \in 0..Max32
  /\ debt \in Int /\ hurries \in Nat /\ began \in 0..Max32 /\ spent \in Nat

(* The rounding error of a rate is carried into the next setpoint, so that *)
(* it does not accumulate over a sequence of setpoints of different sizes: *)
(* whatever their number and times, what was programmed is within half a   *)
(* clock per step of the last move of what was asked for, but for the      *)
(* moves whose clocks have wrapped.  Each of those takes 2^32 clocks too   *)
(* many, and they are the only ones.                                       *)
ErrorCarried ==
  /\ debt = residue - Word * hurries
  /\ -asked <= 2 * residue /\ 2 * residue <= asked

(* The counter is neither stopped nor reset between two moves, and the     *)
(* code does not look at it.  The steps of a move are evenly paced all the *)
(* same, the rate and a clock apart, whatever the threads do and however   *)
(* late, but for the first one.  What has been counted before the move is  *)
(* taken off it; if that is beyond the new rate, the overrun of the TODO   *)
(* in motionTarget, the first step waits for one round of the counter, a   *)
(* minute and a half, and for no more than one.                            *)
PaceKept == Moving =>
  LET made == asked - stepsToGo IN
  /\ made = 0 => spent = (tc - began) % Word
  /\ made > 0 => /\ tc <= mr3
                 /\ spent = made * (mr3 + 1) + tc - began
                            + (IF began > mr3 THEN Word ELSE 0)
=================================================================================
