------------------------------ MODULE MotionProofs ------------------------------
(***************************************************************************)
(* Proofs about Motion, for every word size, range of positions, fixed     *)
(* point, and set of parameters and setpoints that its assumptions admit.  *)
(***************************************************************************)
EXTENDS Motion, TLAPS

(* Half of a word, and of the fixed point.                                 *)
LEMMA Halves ==
  /\ Word \in Nat \ {0} /\ Word \div 2 \in Nat /\ Word = 2 * (Word \div 2)
  /\ One \in Nat \ {0} /\ One \div 2 \in Nat /\ One = 2 * (One \div 2) /\ One \div 2 < One
BY MotionAssumption

(* A larger factor makes a larger product.                                 *)
LEMMA Products ==
  ASSUME NEW n \in Nat, NEW x \in Int, NEW y \in Int, x <= y
  PROVE  n * x \in Int /\ n * y \in Int /\ n * x <= n * y
<1>1. n * (y - x) >= 0
  OBVIOUS
<1> QED BY <1>1

(* A division rounds down to a whole number.                               *)
LEMMA Division ==
  ASSUME NEW n \in Nat \ {0}, NEW x \in Nat
  PROVE  /\ x \div n \in Nat
         /\ n * (x \div n) <= x /\ x < n * (x \div n) + n
<1>1. x \div n \in Int /\ n * (x \div n) <= x /\ x < n * (x \div n) + n
  OBVIOUS
<1>2. x \div n >= 0
  BY Z3
<1> QED BY <1>1, <1>2

(* C's division rounds towards zero.                                       *)
LEMMA DivisionInC ==
  ASSUME NEW n \in Nat \ {0}, NEW x \in Int
  PROVE  /\ CDiv(x, n) \in Int /\ n * CDiv(x, n) \in Int
         /\ x >= 0 => CDiv(x, n) >= 0 /\ n * CDiv(x, n) <= x /\ x < n * CDiv(x, n) + n
         /\ x < 0 => CDiv(x, n) <= 0 /\ n * CDiv(x, n) >= x /\ x > n * CDiv(x, n) - n
<1>1. CASE x >= 0
  BY <1>1, Division DEF CDiv
<1>2. CASE x < 0
  <2>1. -x \in Nat
    BY <1>2
  <2> DEFINE q == (-x) \div n
  <2>2. q \in Nat /\ n * q <= -x /\ -x < n * q + n
    BY <2>1, Division
  <2>3. CDiv(x, n) = -q
    BY <1>2 DEF CDiv
  <2> HIDE DEF q
  <2>4. n * (-q) = -(n * q)
    BY <2>2
  <2> QED BY <1>2, <2>2, <2>3, <2>4
<1> QED BY <1>1, <1>2

(* It keeps order.                                                         *)
LEMMA DivisionOrdered ==
  ASSUME NEW n \in Nat \ {0}, NEW x \in Int, NEW y \in Int, x <= y
  PROVE  CDiv(x, n) <= CDiv(y, n)
<1> DEFINE a == CDiv(x, n)
<1> DEFINE b == CDiv(y, n)
<1>1. /\ a \in Int /\ n * a \in Int
      /\ x >= 0 => a >= 0 /\ n * a <= x /\ x < n * a + n
      /\ x < 0 => a <= 0 /\ n * a >= x /\ x > n * a - n
  BY DivisionInC
<1>2. /\ b \in Int /\ n * b \in Int
      /\ y >= 0 => b >= 0 /\ n * b <= y /\ y < n * b + n
      /\ y < 0 => b <= 0 /\ n * b >= y /\ y > n * b - n
  BY DivisionInC
<1> HIDE DEF a, b
<1> SUFFICES ASSUME a > b PROVE FALSE
  BY <1>1, <1>2 DEF a, b
<1>3. n * (b + 1) <= n * a
  BY <1>1, <1>2, Products
<1>4. n * (b + 1) = n * b + n
  BY <1>2
<1> QED BY <1>1, <1>2, <1>3, <1>4

---------------------------------------------------------------------------------
(* posToStep.                                                              *)

LEMMA StepIsInt ==
  ASSUME NEW p, p.posFactor \in Nat \ {0}, NEW pos \in Int
  PROVE  /\ posToStep(p, pos) \in Int
         /\ pos * p.posFactor \in Int
<1> DEFINE x == pos * p.posFactor + One \div 2
<1>1. pos * p.posFactor \in Int /\ x \in Int
  BY Halves
<1> HIDE DEF x
<1>2. CDiv(x, One) \in Int
  BY <1>1, Halves, DivisionInC
<1> QED BY <1>1, <1>2 DEF posToStep, x

(* A position that is not smaller needs as many steps, or more.            *)
LEMMA StepsOrdered ==
  ASSUME NEW p, p.posFactor \in Nat \ {0}, NEW x \in Int, NEW y \in Int, x <= y
  PROVE  posToStep(p, x) <= posToStep(p, y)
<1>1. p.posFactor * x <= p.posFactor * y
  BY Products
<1>2. x * p.posFactor = p.posFactor * x /\ y * p.posFactor = p.posFactor * y
  OBVIOUS
<1>3. x * p.posFactor + One \div 2 <= y * p.posFactor + One \div 2
  BY <1>1, <1>2, Halves
<1>4. x * p.posFactor + One \div 2 \in Int /\ y * p.posFactor + One \div 2 \in Int
  BY Halves
<1> QED BY <1>3, <1>4, Halves, DivisionOrdered DEF posToStep

(* No movement is no steps.                                                *)
LEMMA NoSteps ==
  ASSUME NEW p, p.posFactor \in Nat \ {0}
  PROVE  posToStep(p, 0) = 0
<1> DEFINE h == One \div 2
<1> DEFINE q == CDiv(h, One)
<1>1. 0 * p.posFactor + h = h /\ h \in Nat /\ h < One
  BY Halves
<1> HIDE DEF h
<1>2. q \in Int /\ q >= 0 /\ One * q <= h
  <2>1. One \in Nat \ {0} /\ h \in Int /\ h >= 0
    BY <1>1, Halves
  <2> QED BY <2>1, DivisionInC
<1> HIDE DEF q
<1>3. q >= 1 => One * 1 <= One * q
  BY <1>2, Halves, Products
<1>4. q = 0
  BY <1>1, <1>2, <1>3, Halves
<1> QED BY <1>1, <1>4 DEF posToStep, q, h

(* How far a rounded position is from the exact one.                       *)
LEMMA Rounding ==
  ASSUME NEW p, p.posFactor \in Nat \ {0}, NEW pos \in Int
  PROVE  LET e == 2 * Abs(posToStep(p, pos) * One - pos * p.posFactor)
         IN  IF pos >= 0 THEN e <= One ELSE e < 3 * One
<1> DEFINE x == pos * p.posFactor
<1> DEFINE h == One \div 2
<1> DEFINE q == posToStep(p, pos)
<1>1. x \in Int /\ h \in Nat /\ One = 2 * h /\ h > 0
  BY Halves
<1>2. pos >= 0 => x >= 0
  OBVIOUS
<1>3. x + h \in Int
  BY <1>1
<1>4. /\ q \in Int /\ One * q \in Int
      /\ x + h >= 0 => One * q <= x + h /\ x + h < One * q + One
      /\ x + h < 0 => One * q >= x + h /\ x + h > One * q - One
  BY <1>3, Halves, DivisionInC DEF posToStep
<1>5. q * One = One * q
  BY <1>4, Halves
<1> HIDE DEF x, h, q
<1>6. CASE pos >= 0
  <2>1. -One <= 2 * (q * One - x) /\ 2 * (q * One - x) <= One
    BY <1>1, <1>2, <1>4, <1>5, <1>6
  <2> QED BY <2>1, <1>1, <1>4, <1>5, <1>6 DEF Abs, x, q
<1>7. CASE pos < 0
  <2>1. -(3 * One) < 2 * (q * One - x) /\ 2 * (q * One - x) < 3 * One
    BY <1>1, <1>4, <1>5
  <2> QED BY <2>1, <1>1, <1>4, <1>5, <1>7 DEF Abs, x, q
<1> QED BY <1>6, <1>7
---------------------------------------------------------------------------------
(* Words as int32_t.                                                       *)

LEMMA Modulo ==
  ASSUME NEW x \in Int
  PROVE  /\ x % Word \in 0..(Word - 1)
         /\ 0 <= x /\ x < Word => x % Word = x
         /\ -Word <= x /\ x < 0 => x % Word = x + Word
         /\ Word <= x /\ x < 2 * Word => x % Word = x - Word
<1>1. Word \in Nat \ {0}
  BY Halves
<1>2. x % Word \in 0..(Word - 1)
  BY <1>1
<1>3. 0 <= x /\ x < Word => x % Word = x
  BY <1>1
<1>4. -Word <= x /\ x < 0 => x % Word = x + Word
  BY <1>1
<1>5. Word <= x /\ x < 2 * Word => x % Word = x - Word
  BY <1>1
<1> QED BY <1>2, <1>3, <1>4, <1>5

InInt(x) == x \in Int /\ -(Word \div 2) <= x /\ x < Word \div 2

(* A conversion yields an int, which a small number is already; and a      *)
(* number that is off by a word is brought back.                           *)
LEMMA SignedWord ==
  ASSUME NEW x \in Int
  PROVE  /\ InInt(Signed(x))
         /\ InInt(x) => Signed(x) = x
         /\ InInt(x + Word) => Signed(x) = x + Word
         /\ InInt(x - Word) => Signed(x) = x - Word
<1> DEFINE y == x + Word \div 2
<1>1. y \in Int /\ Signed(x) = (y % Word) - Word \div 2
  BY Halves DEF Signed
<1>2. /\ y % Word \in 0..(Word - 1)
      /\ 0 <= y /\ y < Word => y % Word = y
      /\ -Word <= y /\ y < 0 => y % Word = y + Word
      /\ Word <= y /\ y < 2 * Word => y % Word = y - Word
  BY <1>1, Modulo
<1> DEFINE r == y % Word
<1> HIDE DEF r
<1>3. InInt(Signed(x))
  BY <1>1, <1>2, Halves DEF InInt, r
<1>4. InInt(x) => Signed(x) = x
  BY <1>1, <1>2, Halves DEF InInt, r
<1>5. InInt(x + Word) => Signed(x) = x + Word
  BY <1>1, <1>2, Halves DEF InInt, r
<1>6. InInt(x - Word) => Signed(x) = x - Word
  BY <1>1, <1>2, Halves DEF InInt, r
<1> QED BY <1>3, <1>4, <1>5, <1>6

---------------------------------------------------------------------------------
(* The limits.                                                             *)

(* The limits in force are in order, and fit an int with room to spare.    *)
LimitsFit ==
  /\ params.minPos < params.maxPos
  /\ FitsInt(MinStep(params)) /\ FitsInt(MaxStep(params))

Params == [minPos : Pos16, maxPos : Pos16, posFactor : Nat \ {0}]

(* Whatever a client sends, the parameters end up in order.                *)
LEMMA Sanity ==
  ASSUME NEW p \in MotionParams \cup {NoParams}
  PROVE  /\ Sane(p) \in Params /\ Sane(p).minPos < Sane(p).maxPos
         /\ FitsInt(MinStep(Sane(p))) /\ FitsInt(MaxStep(Sane(p)))
<1>1. p \in [minPos : Pos16, maxPos : Pos16, posFactor : Nat]
  BY MotionAssumption DEF NoParams, Pos16
<1>2. One \in Nat \ {0} /\ MinPos16 \in Pos16 /\ MaxPos16 \in Pos16 /\ MinPos16 < MaxPos16
  BY MotionAssumption DEF Pos16
<1>3. p.minPos \in Int /\ p.maxPos \in Int
  BY <1>1, MotionAssumption DEF Pos16
<1>4. Sane(p) \in Params
  BY <1>1, <1>2 DEF Sane, Params
<1>5. Sane(p).minPos < Sane(p).maxPos
  BY <1>1, <1>2, <1>3 DEF Sane
<1> QED BY <1>4, <1>5, StepsFit

(* The limits in steps are numbers, in order.                              *)
LEMMA LimitsOrdered ==
  ASSUME NEW p \in Params, p.minPos <= p.maxPos
  PROVE  MinStep(p) \in Int /\ MaxStep(p) \in Int /\ MinStep(p) <= MaxStep(p)
<1>1. p.posFactor \in Nat \ {0} /\ p.minPos \in Int /\ p.maxPos \in Int
  BY MotionAssumption DEF Params, Pos16
<1> QED BY <1>1, StepIsInt, StepsOrdered DEF MinStep, MaxStep

(* A motor at position zero is inside the limits it starts with.           *)
LEMMA StartInside ==
  /\ Sane(NoParams) \in Params
  /\ MinStep(Sane(NoParams)) <= 0 /\ 0 <= MaxStep(Sane(NoParams))
<1> DEFINE p == Sane(NoParams)
<1>1. p \in Params
  BY Sanity
<1>2. p.minPos = MinPos16 /\ p.maxPos = MaxPos16
  BY DEF Sane, NoParams
<1>3. p.posFactor \in Nat \ {0} /\ p.minPos \in Int /\ p.maxPos \in Int
      /\ p.minPos <= 0 /\ 0 <= p.maxPos
  BY <1>1, <1>2, MotionAssumption DEF Params
<1> HIDE DEF p
<1>4. posToStep(p, 0) = 0 /\ MinStep(p) <= posToStep(p, 0) /\ posToStep(p, 0) <= MaxStep(p)
  BY <1>3, NoSteps, StepsOrdered DEF MinStep, MaxStep
<1> QED BY <1>1, <1>4 DEF p
---------------------------------------------------------------------------------
(* What always holds, whatever parameters the client sets and when.        *)

Setpoints == Setpoint \cup {StopSetpoint}

(* The position, before it is made an int.                                 *)
Place == targetStep - direction * stepsToGo

(* A parked timer that has wrapped has counted one step too many.          *)
Wrapped == timer = "parked" /\ stepsToGo = Word - 1

(* Steps to go and an armed timer come together, except after a wrap and   *)
(* before a thread starts the timer; what is left leads from a place       *)
(* inside an int to a target that is well inside one.                      *)
Counted ==
  /\ targetStep \in Int /\ FitsInt(targetStep)
  /\ timer = "armed" => stepsToGo > 0
  /\ stepsToGo > 0 => timer = "armed" \/ Wrapped \/ (launch # "none" /\ timer = "off")
  /\ launch # "none" /\ timer = "off" => stepsToGo > 0
  /\ Wrapped \/ InInt(Place)
  /\ direction = 0 => stepsToGo = 0 /\ timer = "off"

Inv == TypeOK /\ LimitsFit /\ Counted

LEMMA LimitsInForce ==
  ASSUME TypeOK, LimitsFit
  PROVE  /\ MinStep(params) \in Int /\ MaxStep(params) \in Int
         /\ MinStep(params) <= MaxStep(params)
<1>1. params \in Params /\ params.minPos \in Int /\ params.maxPos \in Int
  BY MotionAssumption DEF TypeOK, Params, Pos16
<1> QED BY <1>1, LimitsOrdered DEF LimitsFit

LEMMA PlaceIsInt ==
  ASSUME TypeOK
  PROVE  Place \in Int /\ InInt(motionPosition) /\ motionPosition = Signed(Place)
<1>1. Place \in Int
  <2>1. direction \in Int /\ stepsToGo \in Int
    BY Halves DEF TypeOK
  <2> QED BY <2>1 DEF TypeOK, Place
<1> QED BY <1>1, SignedWord DEF motionPosition, Place

(* The soft limits hold for every target.                                  *)
LEMMA Clipped ==
  ASSUME TypeOK, LimitsFit, NEW t \in Int
  PROVE  /\ Clip(t) \in Int
         /\ MinStep(params) <= Clip(t) /\ Clip(t) <= MaxStep(params)
         /\ MinStep(params) <= t /\ t <= MaxStep(params) => Clip(t) = t
BY LimitsInForce DEF Clip, AtLeastMin

(* motionTarget sets a target inside the limits, and the steps that lead   *)
(* there from where the motor is.                                          *)
LEMMA Targets ==
  ASSUME Inv, NEW s \in Setpoints, SetTarget(s)
  PROVE  /\ targetStep' \in Int /\ FitsInt(targetStep')
         /\ MinStep(params) <= targetStep' /\ targetStep' <= MaxStep(params)
         /\ direction' \in {-1, 1}
         /\ stepsToGo' \in 0..(Word - 1)
         /\ Place' = motionPosition
         /\ motionPosition' = motionPosition
<1> DEFINE wanted == posToStep(params, s.position) + (IF s.relative THEN motionPosition ELSE 0)
<1> DEFINE here == motionPosition
<1>1. InInt(here) /\ Place \in Int
  BY PlaceIsInt DEF Inv
<1>2. s.position \in Int
  BY MotionAssumption DEF Setpoints, StopSetpoint, Pos16
<1>3. wanted \in Int
  <2>1. params.posFactor \in Nat \ {0}
    BY DEF Inv, TypeOK
  <2>2. posToStep(params, s.position) \in Int
    BY <1>2, <2>1, StepIsInt
  <2>3. here \in Int
    BY <1>1 DEF InInt
  <2> HIDE DEF here
  <2> QED BY <2>2, <2>3 DEF here
<1>4. /\ targetStep' = Clip(wanted)
      /\ direction' = IF targetStep' - here > 0 THEN 1 ELSE -1
      /\ stepsToGo' = Abs(targetStep' - here)
  BY DEF SetTarget, StepDiff, StepCount
<1> HIDE DEF wanted, here
<1>5. /\ targetStep' \in Int
      /\ MinStep(params) <= targetStep' /\ targetStep' <= MaxStep(params)
  BY <1>3, <1>4, Clipped DEF Inv
<1>6. FitsInt(targetStep')
  <2>1. /\ -(Word \div 2) < MinStep(params) /\ MaxStep(params) < Word \div 2 - 1
        /\ MinStep(params) \in Int /\ MaxStep(params) \in Int
    BY LimitsInForce DEF Inv, LimitsFit, FitsInt
  <2> QED BY <2>1, <1>5, Halves DEF FitsInt
<1>7. stepsToGo' \in 0..(Word - 1)
  <2>1. here \in Int /\ -(Word \div 2) <= here /\ here < Word \div 2
    BY <1>1 DEF InInt
  <2>2. -(Word \div 2) < targetStep' /\ targetStep' < Word \div 2 - 1
    BY <1>6 DEF FitsInt
  <2> QED BY <2>1, <2>2, <1>4, <1>5, Halves DEF Abs
<1>8. Place' = here
  <2>1. here \in Int
    BY <1>1 DEF InInt
  <2>2. CASE targetStep' - here > 0
    BY <2>1, <2>2, <1>4, <1>5 DEF Place, Abs
  <2>3. CASE ~(targetStep' - here > 0)
    BY <2>1, <2>3, <1>4, <1>5 DEF Place, Abs
  <2> QED BY <2>2, <2>3
<1>9. motionPosition' = here
  <2>1. motionPosition' = Signed(Place')
    BY DEF motionPosition, Signed, Place
  <2> QED BY <2>1, <1>1, <1>8, SignedWord DEF InInt
<1> QED BY <1>4, <1>5, <1>6, <1>7, <1>8, <1>9 DEF here

(* The second half of motionTarget, whichever thread calls it.             *)
LEMMA TargetKeeps ==
  ASSUME Inv, launch = "none",
         NEW s \in Setpoints, StartMove(s) \/ StartDwell(s) \/ NoMotion(s)
  PROVE  /\ Counted'
         /\ motionPosition' = motionPosition
         /\ direction' \in {-1, 1} /\ stepsToGo' \in 0..(Word - 1)
         /\ errors' \subseteq {"HITMIN", "HITMAX", "TOOFAST"}
         /\ timer' \in {"off", "armed", "parked"} /\ dirPin' \in {-1, 1} /\ powered' \in BOOLEAN
         /\ launch' \in Lines
<1>1. SetTarget(s)
  BY DEF StartMove, StartDwell, NoMotion
<1>2. /\ targetStep' \in Int /\ FitsInt(targetStep')
      /\ direction' \in {-1, 1}
      /\ stepsToGo' \in 0..(Word - 1)
      /\ Place' = motionPosition
      /\ motionPosition' = motionPosition
  BY <1>1, Targets
<1>3. InInt(motionPosition)
  BY PlaceIsInt DEF Inv
<1>4. InInt(Place')
  BY <1>2, <1>3
<1>5. InInt(Place)'
  BY <1>4 DEF InInt
<1>6. /\ timer' \in {"off", "armed", "parked"} /\ dirPin' \in {-1, 1} /\ powered' \in BOOLEAN
      /\ timer' = "armed" => stepsToGo' > 0
      /\ stepsToGo' > 0 => timer' = "armed" \/ (launch' # "none" /\ timer' = "off")
      /\ launch' # "none" => stepsToGo' > 0
      /\ launch' \in Lines
  <2>1. /\ timer \in {"off", "armed", "parked"} /\ dirPin \in {-1, 1} /\ powered \in BOOLEAN
        /\ stepsToGo' \in Int
    BY <1>2, Halves DEF Inv, TypeOK
  <2>2. CASE StartMove(s)
    BY <2>1, <2>2, <1>2 DEF StartMove, Arm, Lines
  <2>3. CASE StartDwell(s)
    BY <2>1, <2>3 DEF StartDwell, StopTimer, Lines
  <2>4. CASE NoMotion(s)
    BY <2>1, <2>4 DEF NoMotion, SlowTimer, Lines
  <2> QED BY <2>2, <2>3, <2>4
<1>7. errors' \subseteq {"HITMIN", "HITMAX", "TOOFAST"}
  <2>1. errors \subseteq {"HITMIN", "HITMAX", "TOOFAST"}
    BY DEF Inv, TypeOK
  <2>2. errors' \in SUBSET (errors \cup {"HITMIN", "HITMAX", "TOOFAST"})
    BY <1>1 DEF SetTarget, Bumps
  <2> QED BY <2>1, <2>2
<1>8. Counted'
  BY <1>2, <1>5, <1>6 DEF Counted, FitsInt
<1> QED BY <1>2, <1>6, <1>7, <1>8
---------------------------------------------------------------------------------
(* The motor starts at rest, at position zero.                             *)
LEMMA InvInit == Init => Inv
<1> SUFFICES ASSUME Init PROVE Inv
  OBVIOUS
<1>1. params = Sane(NoParams) /\ NoParams \in MotionParams \cup {NoParams}
  BY DEF Init
<1>2. params \in Params /\ LimitsFit
  BY <1>1, Sanity DEF LimitsFit
<1>3. TypeOK
  <2>1. stepsToGo \in 0..(Word - 1)
    BY Halves DEF Init
  <2>2. errors \subseteq {"HITMIN", "HITMAX", "TOOFAST"}
    BY DEF Init
  <2>3. targetStep \in Int /\ direction \in {-1, 0, 1} /\ dirPin \in {-1, 1}
    BY DEF Init
  <2>4. /\ timer \in {"off", "armed", "parked"} /\ powered \in BOOLEAN
        /\ stepper \in StepperStates /\ main \in MainStates
        /\ coasts \in BOOLEAN /\ rash \in BOOLEAN /\ aborted \in BOOLEAN /\ sharp \in BOOLEAN
        /\ launch \in Lines /\ slipped \subseteq Lines
    BY DEF Init, StepperStates, MainStates, Lines
  <2> QED BY <1>2, <2>1, <2>2, <2>3, <2>4 DEF TypeOK, Params
<1>4. FitsInt(0)
  <2>1. MinStep(params) <= 0 /\ 0 <= MaxStep(params) /\ MaxStep(params) \in Int
        /\ MinStep(params) \in Int /\ FitsInt(MinStep(params)) /\ FitsInt(MaxStep(params))
    BY <1>1, <1>2, <1>3, Sanity, StartInside, LimitsInForce
  <2> QED BY <2>1, Halves DEF FitsInt
<1>5. targetStep = 0 /\ Place = 0
  BY DEF Init, Place
<1>6. InInt(Place)
  BY <1>5, Halves DEF InInt
<1>7. Counted
  BY <1>4, <1>5, <1>6 DEF Counted, Init
<1> QED BY <1>2, <1>3, <1>7 DEF Inv

(* An interrupt makes one step, towards the target.                        *)
LEMMA TickKeeps ==
  ASSUME Inv, Tick
  PROVE  Inv' /\ motionPosition' = motionPosition + direction
<1>1. /\ stepsToGo \in 0..(Word - 1) /\ direction \in {-1, 1} /\ targetStep \in Int
      /\ stepsToGo > 0 /\ timer = "armed"
      /\ FitsInt(targetStep)
  BY DEF Inv, TypeOK, Counted, Tick
<1>2. /\ targetStep' = targetStep /\ direction' = direction /\ stepsToGo' = stepsToGo - 1
      /\ stepsToGo' \in 0..(Word - 1)
  BY <1>1, Halves DEF Tick
<1>3. Place \in Int /\ InInt(Place) /\ motionPosition = Signed(Place)
  BY <1>1, PlaceIsInt DEF Inv, Counted, Wrapped
<1>4. Place' = Place + direction /\ InInt(Place')
  <2>1. CASE direction = 1
    BY <2>1, <1>1, <1>2, <1>3, Halves DEF Place, InInt, FitsInt
  <2>2. CASE direction = -1
    BY <2>2, <1>1, <1>2, <1>3, Halves DEF Place, InInt, FitsInt
  <2> QED BY <1>1, <2>1, <2>2
<1>5. motionPosition' = motionPosition + direction
  <2>1. motionPosition' = Signed(Place')
    BY DEF motionPosition, Signed, Place
  <2>2. motionPosition = Place
    BY <1>3, SignedWord
  <2>3. Signed(Place') = Place'
    BY <1>4, SignedWord DEF InInt
  <2> QED BY <1>4, <2>1, <2>2, <2>3
<1>6. TypeOK'
  <2>1. timer' \in {"off", "armed", "parked"} /\ slipped' \subseteq Lines
    BY DEF Tick, ParkAtZero, Inv, TypeOK
  <2> QED BY <1>2, <2>1 DEF Inv, TypeOK, Tick
<1>7. Counted'
  <2>1. InInt(Place)'
    BY <1>4 DEF InInt
  <2>2. timer' = IF stepsToGo' = 0 THEN "parked" ELSE timer
    BY DEF Tick, ParkAtZero
  <2> QED BY <1>1, <1>2, <2>1, <2>2 DEF Counted, FitsInt
<1>8. LimitsFit'
  BY DEF Inv, LimitsFit, Tick, MinStep, MaxStep, posToStep, CDiv, FitsInt
<1> QED BY <1>5, <1>6, <1>7, <1>8 DEF Inv

(* A parked timer that wraps makes one step more than was asked for.       *)
LEMMA WrapKeeps ==
  ASSUME Inv, TimerWraps
  PROVE  Inv' /\ motionPosition' = motionPosition + direction
<1>1. /\ stepsToGo = 0 /\ direction \in {-1, 0, 1} /\ targetStep \in Int /\ FitsInt(targetStep)
      /\ timer = "parked" /\ timer' = "parked"
      /\ targetStep' = targetStep /\ direction' = direction
  BY DEF Inv, TypeOK, Counted, TimerWraps, pins
<1>2. stepsToGo' = Word - 1
  <2>1. stepsToGo' = (-1) % Word
    BY <1>1 DEF TimerWraps
  <2>2. -Word <= -1
    BY Halves
  <2>3. (-1) % Word = -1 + Word
    BY <2>2, Halves, Modulo
  <2> QED BY <2>1, <2>3, Halves
<1>3. Place = targetStep
  BY <1>1 DEF Place
<1>4. motionPosition = targetStep
  <2>1. InInt(targetStep)
    BY <1>1, Halves DEF InInt, FitsInt
  <2> QED BY <1>1, <1>3, <2>1, SignedWord, PlaceIsInt DEF Inv
<1>5. motionPosition' = targetStep + direction
  <2> DEFINE p == targetStep - direction * (Word - 1)
  <2>1. motionPosition' = Signed(p)
    BY <1>1, <1>2 DEF motionPosition, Signed
  <2>2. InInt(targetStep + direction)
    BY <1>1, Halves DEF InInt, FitsInt
  <2>3. CASE direction = 0
    BY <2>3, <1>1 DEF Inv, Counted
  <2>4. CASE direction = 1
    <3>1. p \in Int /\ p + Word = targetStep + direction
      BY <2>4, <1>1, Halves
    <3> HIDE DEF p
    <3> QED BY <2>1, <2>2, <3>1, SignedWord
  <2>5. CASE direction = -1
    <3>1. p \in Int /\ p - Word = targetStep + direction
      BY <2>5, <1>1, Halves
    <3> HIDE DEF p
    <3> QED BY <2>1, <2>2, <3>1, SignedWord
  <2> QED BY <1>1, <2>3, <2>4, <2>5
<1>6. TypeOK'
  <2>1. slipped' \subseteq Lines
    BY DEF TimerWraps, Inv, TypeOK
  <2> QED BY <1>2, <2>1, Halves DEF Inv, TypeOK, TimerWraps, pins
<1>7. LimitsFit'
  BY DEF Inv, LimitsFit, TimerWraps, MinStep, MaxStep, posToStep, CDiv, FitsInt
<1>8. Counted'
  <2>1. direction # 0
    BY <1>1 DEF Inv, Counted
  <2> QED BY <1>1, <1>2, <2>1 DEF Counted, Wrapped, FitsInt
<1> QED BY <1>4, <1>5, <1>6, <1>7, <1>8 DEF Inv

(* A thread that goes through motionTarget leaves the position as it was.  *)
LEMMA ThreadsKeep ==
  ASSUME Inv, launch = "none",
         NEW s \in Setpoints, StartMove(s) \/ StartDwell(s) \/ NoMotion(s),
         params' = params, rash' = rash, slipped' \subseteq Lines, sharp' \in BOOLEAN,
         stepper' \in StepperStates, main' \in MainStates,
         coasts' \in BOOLEAN, aborted' \in BOOLEAN
  PROVE  Inv' /\ motionPosition' = motionPosition
<1>1. /\ Counted' /\ motionPosition' = motionPosition
      /\ direction' \in {-1, 1} /\ stepsToGo' \in 0..(Word - 1)
      /\ errors' \subseteq {"HITMIN", "HITMAX", "TOOFAST"}
      /\ timer' \in {"off", "armed", "parked"} /\ dirPin' \in {-1, 1} /\ powered' \in BOOLEAN
      /\ launch' \in Lines
  BY TargetKeeps
<1>2. targetStep' \in Int
  BY <1>1 DEF Counted
<1>3. LimitsFit'
  BY DEF Inv, LimitsFit, MinStep, MaxStep, posToStep, CDiv, FitsInt
<1>4. TypeOK'
  BY <1>1, <1>2 DEF Inv, TypeOK
<1> QED BY <1>1, <1>3, <1>4 DEF Inv

(* What leaves the steps alone leaves the position alone.                  *)
LEMMA RestKeeps ==
  ASSUME Inv, params' = params, UNCHANGED steps, timer' = timer, dirPin' = dirPin, launch' = launch,
         errors' \in {errors, {}}, powered' \in BOOLEAN,
         stepper' \in StepperStates, main' \in MainStates, coasts' = coasts, UNCHANGED history
  PROVE  Inv' /\ motionPosition' = motionPosition
<1>1. TypeOK'
  <2>1. errors' \subseteq {"HITMIN", "HITMAX", "TOOFAST"}
    BY DEF Inv, TypeOK
  <2> QED BY <2>1 DEF Inv, TypeOK, steps, history
<1>2. LimitsFit'
  BY DEF Inv, LimitsFit, MinStep, MaxStep, posToStep, CDiv, FitsInt
<1>3. Counted'
  BY DEF Inv, Counted, Wrapped, Place, InInt, FitsInt, steps
<1> QED BY <1>1, <1>2, <1>3 DEF Inv, motionPosition, Signed, steps

(* What the three lines that start a move do to the pins.                  *)
LEMMA Launched ==
  ASSUME Launching
  PROVE  /\ UNCHANGED <<params, steps, errors, stepper, coasts, main, history>>
         /\ launch # "none"
         /\ dirPin' = IF launch = "DIR" THEN direction ELSE dirPin
         /\ launch = "EN" => powered'
         /\ launch # "EN" => powered' = powered
         /\ timer' = IF launch = "TCR" /\ timer = "off" THEN "armed" ELSE timer
         /\ launch' = IF launch = "DIR" THEN "EN" ELSE IF launch = "EN" THEN "TCR" ELSE "none"
<1>1. CASE SetDir
  BY <1>1 DEF SetDir, Line, After, DirFor
<1>2. CASE Enable
  BY <1>2 DEF Enable, Line, After
<1>3. CASE StartTimer
  BY <1>3 DEF StartTimer, Line, After, Started
<1> QED BY <1>1, <1>2, <1>3 DEF Launching

LEMMA LaunchKeeps ==
  ASSUME Inv, Launching
  PROVE  Inv' /\ motionPosition' = motionPosition
<1>1. /\ params' = params /\ UNCHANGED steps /\ errors' = errors /\ UNCHANGED history
      /\ stepper' = stepper /\ coasts' = coasts /\ main' = main
      /\ launch # "none"
      /\ dirPin' = IF launch = "DIR" THEN direction ELSE dirPin
      /\ launch = "EN" => powered'
      /\ launch # "EN" => powered' = powered
      /\ timer' = IF launch = "TCR" /\ timer = "off" THEN "armed" ELSE timer
      /\ launch' = IF launch = "DIR" THEN "EN" ELSE IF launch = "EN" THEN "TCR" ELSE "none"
  BY Launched
<1>2. launch \in Lines /\ stepsToGo \in Nat /\ direction \in {-1, 0, 1}
  BY Halves DEF Inv, TypeOK
<1>3. direction # 0
  BY <1>1, <1>2 DEF Inv, Counted
<1>4. TypeOK'
  <2>1. /\ dirPin' \in {-1, 1} /\ powered' \in BOOLEAN
        /\ timer' \in {"off", "armed", "parked"} /\ launch' \in Lines
    BY <1>1, <1>2, <1>3 DEF Inv, TypeOK, Lines
  <2> QED BY <1>1, <2>1 DEF Inv, TypeOK, steps, history
<1>5. LimitsFit'
  BY <1>1 DEF Inv, LimitsFit, MinStep, MaxStep, posToStep, CDiv, FitsInt
<1>6. /\ timer' = "armed" => stepsToGo > 0
      /\ stepsToGo > 0 => \/ timer' = "armed"
                          \/ timer' = "parked" /\ stepsToGo = Word - 1
                          \/ launch' # "none" /\ timer' = "off"
      /\ launch' # "none" /\ timer' = "off" => stepsToGo > 0
      /\ Wrapped => timer' = "parked"
  BY <1>1, <1>2 DEF Inv, Counted, Wrapped, Lines
<1>7. Counted'
  BY <1>1, <1>3, <1>6 DEF Inv, Counted, Wrapped, Place, InInt, FitsInt, steps
<1> QED BY <1>1, <1>4, <1>5, <1>7 DEF Inv, motionPosition, Signed, steps

(* Every step keeps the invariant, and only the timer's changes the        *)
(* position.                                                               *)
LEMMA StepKeeps ==
  ASSUME Inv, [Next]_vars
  PROVE  /\ Inv'
         /\ motionPosition' # motionPosition =>
              Timer /\ motionPosition' = motionPosition + direction
<1>1. CASE Tick
  BY <1>1, TickKeeps DEF Timer
<1>2. CASE TimerWraps
  BY <1>2, WrapKeeps DEF Timer
<1>3. ASSUME NEW s \in Setpoint, Take(s)
      PROVE  Inv' /\ motionPosition' = motionPosition
  <2>1. s \in Setpoints /\ s.coasts \in BOOLEAN
    BY MotionAssumption DEF Setpoints
  <2>2. stepper' \in StepperStates /\ main' \in MainStates /\ coasts' \in BOOLEAN /\ aborted' \in BOOLEAN
    BY <1>3, <2>1 DEF Take, StepperStates, Inv, TypeOK
  <2>3. StartMove(s) \/ StartDwell(s) \/ NoMotion(s)
    BY <1>3 DEF Take
  <2>4. params' = params /\ rash' = rash /\ slipped' \subseteq Lines /\ sharp' \in BOOLEAN
        /\ launch = "none"
    BY <1>3 DEF Take, ThreadsFree, Remember, Calm, Inv, TypeOK
  <2> QED BY <2>1, <2>2, <2>3, <2>4, ThreadsKeep
<1>4. ASSUME NoWork \/ AbortBegins
      PROVE  Inv' /\ motionPosition' = motionPosition
  <2>1. StopSetpoint \in Setpoints
    BY DEF Setpoints
  <2>2. stepper' \in StepperStates /\ main' \in MainStates /\ coasts' \in BOOLEAN /\ aborted' \in BOOLEAN
    BY <1>4 DEF NoWork, AbortBegins, Remember, StepperStates, MainStates, Inv, TypeOK
  <2>3. StartMove(StopSetpoint) \/ StartDwell(StopSetpoint)
    BY <1>4 DEF NoWork, AbortBegins, Remember
  <2>4. params' = params /\ rash' = rash /\ slipped' \subseteq Lines /\ sharp' \in BOOLEAN
        /\ launch = "none"
    BY <1>4 DEF NoWork, AbortBegins, MainRuns, ThreadsFree, Remember, Calm, Inv, TypeOK
  <2> QED BY <2>1, <2>2, <2>3, <2>4, ThreadsKeep
<1>5. ASSUME TargetDone \/ StopDone \/ AbortEnds \/ Report \/ UNCHANGED vars
      PROVE  Inv' /\ motionPosition' = motionPosition
  <2>1. params' = params /\ UNCHANGED steps /\ timer' = timer /\ dirPin' = dirPin
        /\ coasts' = coasts /\ launch' = launch /\ UNCHANGED history
    BY <1>5 DEF TargetDone, StopDone, AbortEnds, Report, vars, pins
  <2>2. errors' \in {errors, {}}
    BY <1>5 DEF TargetDone, StopDone, AbortEnds, Report, vars
  <2>3. powered' \in BOOLEAN
    BY <1>5 DEF TargetDone, StopDone, AbortEnds, Report, vars, pins, Inv, TypeOK
  <2>4. stepper' \in StepperStates /\ main' \in MainStates
    BY <1>5 DEF TargetDone, StopDone, AbortEnds, Report, vars, pins, Inv, TypeOK,
                StepperStates, MainStates
  <2> QED BY <2>1, <2>2, <2>3, <2>4, RestKeeps
<1>6. ASSUME NEW p \in MotionParams, ParamsRequest(p)
      PROVE  Inv' /\ motionPosition' = motionPosition
  <2>1. /\ params' = Sane(p)
        /\ UNCHANGED <<targetStep, direction, stepsToGo, errors, timer, dirPin, powered>>
        /\ UNCHANGED <<launch, stepper, coasts, main, aborted>>
    BY <1>6 DEF ParamsRequest, steps, pins
  <2>2. /\ params' \in Params /\ params'.minPos < params'.maxPos
        /\ FitsInt(MinStep(params')) /\ FitsInt(MaxStep(params'))
    BY <2>1, Sanity
  <2>3. LimitsFit'
    BY <2>2 DEF LimitsFit, MinStep, MaxStep, posToStep, CDiv, FitsInt
  <2>4. rash' \in BOOLEAN /\ slipped' \subseteq Lines /\ sharp' \in BOOLEAN
    BY <1>6 DEF ParamsRequest, Remember, Inv, TypeOK
  <2>5. TypeOK'
    BY <2>1, <2>2, <2>4 DEF Inv, TypeOK, Params
  <2>6. Counted'
    BY <2>1 DEF Inv, Counted, Wrapped, Place, InInt, FitsInt
  <2> QED BY <2>1, <2>3, <2>5, <2>6 DEF Inv, motionPosition, Signed
<1>7. ASSUME Launching
      PROVE  Inv' /\ motionPosition' = motionPosition
  BY <1>7, LaunchKeeps
<1> QED BY <1>1, <1>2, <1>3, <1>4, <1>5, <1>6, <1>7
        DEF Next, Timer, StepperTh, SetParams, Abort

LEMMA Invariant == Spec => []Inv
<1>1. Inv /\ [Next]_vars => Inv'
  BY StepKeeps
<1> QED BY InvInit, <1>1, PTL DEF Spec

(* The counters of motion.cpp stay in their ranges, and its threads in     *)
(* their states, whatever the client sets and sends.                       *)
THEOREM TypeCorrect == Spec => []TypeOK
<1>1. Inv => TypeOK
  BY DEF Inv
<1> QED BY Invariant, <1>1, PTL

(* motionTarget never changes the position the motor is at: only the       *)
(* interrupt does, by one step, in any word size and for any parameters.   *)
THEOREM PositionContinuousHolds == Spec => PositionContinuous
<1>1. Inv /\ [Next]_vars => [motionPosition' # motionPosition =>
                               /\ Timer
                               /\ motionPosition' = motionPosition + direction]_vars
  BY StepKeeps
<1> QED BY Invariant, <1>1, PTL DEF Spec, PositionContinuous

(* posToStep rounds to the nearest step, or the one next to it for a       *)
(* negative position, and keeps the limits in order.                       *)
THEOREM ScalesCloselyHolds == Spec => []ScalesClosely
<1>1. Inv => ScalesClosely
  <2> SUFFICES ASSUME Inv PROVE ScalesClosely
    OBVIOUS
  <2>1. params.posFactor \in Nat \ {0}
    BY DEF Inv, TypeOK
  <2>2. \A p \in Pos16 : p \in Int
    BY MotionAssumption DEF Pos16
  <2>3. \A p \in Pos16 : IF p >= 0 THEN Error2(p) <= One ELSE Error2(p) < 3 * One
    <3> TAKE p \in Pos16
    <3> QED BY <2>1, <2>2, Rounding DEF Error2
  <2>4. \A p \in MinPos16..(MaxPos16 - 1) : posToStep(params, p) <= posToStep(params, p + 1)
    <3> TAKE p \in MinPos16..(MaxPos16 - 1)
    <3>1. p \in Int /\ p + 1 \in Int /\ p <= p + 1
      BY MotionAssumption
    <3> QED BY <2>1, <3>1, StepsOrdered
  <2>5. MinStep(params) <= MaxStep(params)
    BY LimitsInForce DEF Inv
  <2> QED BY <2>3, <2>4, <2>5 DEF ScalesClosely
<1> QED BY Invariant, <1>1, PTL

---------------------------------------------------------------------------------
(* What holds for a client that sets parameters at rest and around the     *)
(* position.  motionStop then never starts a move, and so the timer is off *)
(* when it is done.                                                        *)

InLimits(x) == MinStep(params) <= x /\ x <= MaxStep(params)

Careful == ~rash =>
  /\ InLimits(targetStep) /\ InLimits(motionPosition)
  /\ stepsToGo > 0 => stepper = "moving"
  /\ stepsToGo > 0 => timer = "armed" \/ (launch # "none" /\ timer = "off")
  /\ stepsToGo > 0 /\ launch # "DIR" => dirPin = direction
  /\ launch # "none" => stepper = "moving"
  /\ stepper \in {"stopping", "waiting"} => timer = "off"
  /\ stepper # "stopMoving" /\ main # "stopMoving"

(* If it does not abort either, main stays out of the way, and only a move *)
(* that has to turn round or switch the motor on in time can slip.         *)
Powered == Calm =>
  /\ main = "idle"
  /\ stepsToGo > 0 /\ launch \in {"TCR", "none"} => powered
  /\ ~sharp /\ launch # "none" /\ timer # "off" => powered /\ dirPin = direction
  /\ slipped \subseteq {"DIR", "EN"}
  /\ ~sharp => slipped = {}

ClientInv == Inv /\ Careful /\ Powered

(* At rest, the motor is at its target.                                    *)
LEMMA RestIsTarget ==
  ASSUME Inv, stepsToGo = 0
  PROVE  motionPosition = targetStep
<1>1. targetStep \in Int /\ FitsInt(targetStep) /\ direction \in {-1, 0, 1}
  BY DEF Inv, Counted, TypeOK
<1>2. Place = targetStep
  BY <1>1 DEF Place
<1>3. InInt(targetStep)
  BY <1>1, Halves DEF InInt, FitsInt
<1> QED BY <1>2, <1>3, SignedWord, PlaceIsInt DEF Inv

(* A motor inside its limits is told to stop where it is.                  *)
LEMMA StopsHere ==
  ASSUME Inv, InLimits(motionPosition), SetTarget(StopSetpoint)
  PROVE  stepsToGo' = 0
<1> DEFINE here == motionPosition
<1>1. here \in Int
  BY PlaceIsInt DEF Inv, InInt
<1>2. posToStep(params, 0) = 0
  BY NoSteps DEF Inv, TypeOK
<1>3. /\ targetStep' = Clip(posToStep(params, 0) + here)
      /\ stepsToGo' = Abs(targetStep' - here)
  BY DEF SetTarget, StopSetpoint, StepDiff, StepCount
<1> HIDE DEF here
<1>4. posToStep(params, 0) + here = here
  BY <1>1, <1>2
<1>5. Clip(here) = here
  BY <1>1, Clipped DEF Inv, InLimits, here
<1> QED BY <1>1, <1>3, <1>4, <1>5 DEF Abs

LEMMA ClientInit == Init => ClientInv
<1> SUFFICES ASSUME Init PROVE ClientInv
  OBVIOUS
<1>1. Inv
  BY InvInit
<1>2. motionPosition = 0 /\ targetStep = 0
  BY <1>1, RestIsTarget DEF Init
<1>3. InLimits(0)
  BY StartInside DEF Init, InLimits
<1>4. Careful
  BY <1>2, <1>3 DEF Careful, Init
<1>5. Powered
  BY DEF Powered, Init
<1> QED BY <1>1, <1>4, <1>5 DEF ClientInv

(* An interrupt brings the position nearer to the target.                  *)
LEMMA TickStaysInside ==
  ASSUME Inv, Careful, ~rash, Tick
  PROVE  InLimits(motionPosition + direction)
<1>1. /\ stepsToGo \in Nat /\ stepsToGo > 0 /\ direction \in {-1, 1} /\ targetStep \in Int
      /\ InInt(Place)
  BY Halves DEF Inv, TypeOK, Counted, Wrapped, Tick
<1>2. Place \in Int /\ motionPosition = Place
  BY <1>1, PlaceIsInt, SignedWord DEF Inv
<1>3. InLimits(Place) /\ InLimits(targetStep)
  BY <1>2 DEF Careful
<1>4. MinStep(params) \in Int /\ MaxStep(params) \in Int
  BY LimitsInForce DEF Inv
<1>5. CASE direction = 1
  BY <1>1, <1>2, <1>3, <1>4, <1>5 DEF Place, InLimits
<1>6. CASE direction = -1
  BY <1>1, <1>2, <1>3, <1>4, <1>6 DEF Place, InLimits
<1> QED BY <1>1, <1>5, <1>6

(* motionTarget leaves a motor that starts inside its limits a way that    *)
(* ends inside them.                                                       *)
LEMMA TargetInside ==
  ASSUME Inv, InLimits(motionPosition), params' = params,
         NEW s \in Setpoints, StartMove(s) \/ StartDwell(s) \/ NoMotion(s)
  PROVE  InLimits(targetStep)' /\ InLimits(motionPosition)'
<1>1. SetTarget(s)
  BY DEF StartMove, StartDwell, NoMotion
<1>2. /\ MinStep(params) <= targetStep' /\ targetStep' <= MaxStep(params)
      /\ motionPosition' = motionPosition
  BY <1>1, Targets
<1> QED BY <1>2 DEF InLimits, MinStep, MaxStep, posToStep, CDiv

LEMMA TickCareful ==
  ASSUME ClientInv, Tick
  PROVE  Careful' /\ Powered'
<1>1. /\ rash' = rash /\ aborted' = aborted /\ stepper' = stepper /\ main' = main
      /\ params' = params /\ targetStep' = targetStep /\ direction' = direction
      /\ dirPin' = dirPin /\ powered' = powered /\ launch' = launch /\ sharp' = sharp
      /\ slipped' = IF Calm => powered /\ dirPin = direction
                    THEN slipped ELSE slipped \cup {launch}
      /\ timer = "armed" /\ timer' = IF stepsToGo' = 0 THEN "parked" ELSE "armed"
  BY DEF Tick, ParkAtZero
<1>2. stepsToGo > 0 /\ stepsToGo' \in Nat
  <2>1. stepsToGo > 0 /\ stepsToGo \in Nat /\ stepsToGo' = stepsToGo - 1
    BY Halves DEF ClientInv, Inv, TypeOK, Counted, Tick
  <2> QED BY <2>1
<1>3. motionPosition' = motionPosition + direction
  BY TickKeeps DEF ClientInv
<1>4. ASSUME ~rash
      PROVE  /\ InLimits(targetStep)' /\ InLimits(motionPosition)'
             /\ stepper = "moving" /\ main # "stopMoving"
             /\ launch # "DIR" => dirPin = direction
  <2>1. InLimits(targetStep) /\ InLimits(motionPosition + direction)
    BY <1>4, TickStaysInside DEF ClientInv, Careful
  <2>2. /\ stepper = "moving" /\ main # "stopMoving"
        /\ launch # "DIR" => dirPin = direction
    BY <1>2, <1>4 DEF ClientInv, Careful
  <2> QED BY <2>1, <2>2, <1>1, <1>3 DEF InLimits, MinStep, MaxStep, posToStep, CDiv
<1>5. Careful'
  BY <1>1, <1>2, <1>4 DEF Careful
<1>6. ASSUME Calm
      PROVE  /\ slipped' \subseteq {"DIR", "EN"}
             /\ ~sharp => slipped' = {}
  <2>1. /\ slipped \subseteq {"DIR", "EN"} /\ launch \in Lines
        /\ launch \in {"TCR", "none"} => powered /\ dirPin = direction
        /\ ~sharp => slipped = {}
        /\ ~sharp /\ launch # "none" => powered /\ dirPin = direction
    BY <1>1, <1>2, <1>4, <1>6 DEF ClientInv, Inv, TypeOK, Powered, Calm
  <2> QED BY <1>1, <1>6, <2>1 DEF Lines
<1>7. Powered'
  BY <1>1, <1>2, <1>6 DEF ClientInv, Powered, Calm
<1> QED BY <1>5, <1>7

(* The lines that start a move, the timer running or not.                  *)
LEMMA LaunchCareful ==
  ASSUME ClientInv, Launching
  PROVE  Careful' /\ Powered'
<1>1. /\ params' = params /\ UNCHANGED steps /\ UNCHANGED history
      /\ stepper' = stepper /\ main' = main
      /\ launch # "none"
      /\ dirPin' = IF launch = "DIR" THEN direction ELSE dirPin
      /\ launch = "EN" => powered'
      /\ launch # "EN" => powered' = powered
      /\ timer' = IF launch = "TCR" /\ timer = "off" THEN "armed" ELSE timer
      /\ launch' = IF launch = "DIR" THEN "EN" ELSE IF launch = "EN" THEN "TCR" ELSE "none"
  BY Launched
<1>2. InLimits(targetStep)' = InLimits(targetStep) /\ InLimits(motionPosition)' = InLimits(motionPosition)
  BY <1>1 DEF InLimits, motionPosition, Signed, MinStep, MaxStep, posToStep, CDiv, steps
<1>3. launch \in Lines /\ stepsToGo \in Nat
  BY Halves DEF ClientInv, Inv, TypeOK
<1>4. /\ stepsToGo' = stepsToGo /\ direction' = direction /\ rash' = rash
      /\ slipped' = slipped /\ sharp' = sharp /\ aborted' = aborted
  BY <1>1 DEF steps, history
<1>5. Careful'
  <2> SUFFICES ASSUME ~rash PROVE Careful'
    BY <1>4 DEF Careful
  <2>1. /\ InLimits(targetStep) /\ InLimits(motionPosition) /\ stepper = "moving"
        /\ stepsToGo > 0 => timer = "armed" \/ (launch # "none" /\ timer = "off")
        /\ stepsToGo > 0 /\ launch # "DIR" => dirPin = direction
        /\ main # "stopMoving"
    BY <1>1 DEF ClientInv, Careful
  <2>2. /\ stepsToGo > 0 => timer' = "armed" \/ (launch' # "none" /\ timer' = "off")
        /\ stepsToGo > 0 => dirPin' = direction
    BY <1>1, <1>3, <2>1 DEF Lines
  <2> QED BY <1>1, <1>2, <1>4, <2>1, <2>2 DEF Careful
<1>6. Powered'
  <2> SUFFICES ASSUME Calm PROVE Powered'
    BY <1>4 DEF Powered, Calm
  <2>1. /\ main = "idle" /\ slipped \subseteq {"DIR", "EN"} /\ (~sharp => slipped = {})
        /\ stepsToGo > 0 /\ launch \in {"TCR", "none"} => powered
        /\ ~sharp /\ timer # "off" => powered /\ dirPin = direction
    BY <1>1 DEF ClientInv, Powered
  <2>2. stepsToGo > 0 /\ launch' \in {"TCR", "none"} => powered'
    BY <1>1, <1>3, <2>1 DEF Lines
  <2>3. ~sharp /\ launch' # "none" /\ timer' # "off" => powered' /\ dirPin' = direction
    BY <1>1, <1>3, <2>1 DEF Lines
  <2> QED BY <1>1, <1>4, <2>1, <2>2, <2>3 DEF Powered
<1> QED BY <1>5, <1>6

(* What a thread that goes through motionTarget leaves behind: the first   *)
(* line of a move, or no steps to go.                                      *)
LEMMA TargetBegins ==
  ASSUME launch = "none", NEW s, StartMove(s) \/ StartDwell(s) \/ NoMotion(s)
  PROVE  /\ stepsToGo' > 0 => /\ launch' = "DIR" /\ dirPin' = dirPin /\ powered' = powered
                              /\ timer' = IF timer = "off" THEN "off" ELSE "armed"
         /\ ~(stepsToGo' > 0) => launch' = "none"
<1>1. CASE StartMove(s)
  BY <1>1 DEF StartMove, Arm
<1>2. CASE StartDwell(s)
  BY <1>2 DEF StartDwell
<1>3. CASE NoMotion(s)
  BY <1>3 DEF NoMotion
<1> QED BY <1>1, <1>2, <1>3

LEMMA TakeCareful ==
  ASSUME ClientInv, NEW s \in Setpoint, Take(s)
  PROVE  Careful' /\ Powered'
<1>1. /\ params' = params /\ main' = main
      /\ rash' = rash /\ aborted' = aborted
      /\ s \in Setpoints /\ launch = "none"
      /\ StartMove(s) \/ StartDwell(s) \/ NoMotion(s)
  BY DEF Take, ThreadsFree, Setpoints
<1>2. ~rash => InLimits(targetStep)' /\ InLimits(motionPosition)'
  BY <1>1, TargetInside DEF ClientInv, Careful
<1>3. stepsToGo' \in Nat
  <2>1. SetTarget(s)
    BY <1>1 DEF StartMove, StartDwell, NoMotion
  <2> QED BY <1>1, <2>1, Targets, Halves DEF ClientInv
<1>4. /\ stepsToGo' > 0 => /\ launch' = "DIR" /\ dirPin' = dirPin /\ powered' = powered
                           /\ timer' = IF timer = "off" THEN "off" ELSE "armed"
      /\ ~(stepsToGo' > 0) => launch' = "none"
  BY <1>1, TargetBegins
<1>5. /\ stepsToGo' > 0 => stepper' = "moving"
      /\ stepper' \in {"moving", "dwelling", "fetch"}
  BY DEF Take, StartDwell, NoMotion
<1>6. Careful'
  BY <1>1, <1>2, <1>4, <1>5 DEF ClientInv, Careful
<1>7. Powered'
  <2> SUFFICES ASSUME Calm PROVE Powered'
    BY <1>1 DEF Powered, Calm
  <2>1. /\ main = "idle" /\ slipped \subseteq {"DIR", "EN"} /\ (~sharp => slipped = {})
    BY DEF ClientInv, Powered
  <2>2. sharp' = (sharp \/ Sharp) /\ slipped' = slipped
    BY DEF Take, Remember
  <2>3. ~sharp' /\ launch' # "none" /\ timer' # "off" => powered' /\ dirPin' = direction'
    BY <1>4, <2>2 DEF Sharp
  <2> QED BY <1>1, <1>4, <2>1, <2>2, <2>3 DEF Powered
<1> QED BY <1>6, <1>7

(* What a careful client's histories keep of a call of motionStop.         *)
LEMMA StopRemembers ==
  ASSUME NoWork, Calm
  PROVE  slipped' = slipped /\ (~sharp' => ~sharp)
<1>1. slipped' = slipped
  BY DEF NoWork, Remember
<1>2. sharp' = (sharp \/ Sharp)
  BY DEF NoWork, Remember
<1> QED BY <1>1, <1>2

(* motionStop, of the stepper thread and of an abort.                      *)
LEMMA StopCareful ==
  ASSUME ClientInv, NoWork \/ AbortBegins
  PROVE  Careful' /\ Powered'
<1>1. /\ params' = params /\ rash' = rash
      /\ StopSetpoint \in Setpoints /\ launch = "none"
  BY DEF NoWork, AbortBegins, MainRuns, ThreadsFree, Remember, Setpoints
<1>2. StartMove(StopSetpoint) \/ StartDwell(StopSetpoint)
  BY DEF NoWork, AbortBegins, Remember
<1>3. ASSUME ~rash
      PROVE  /\ InLimits(targetStep)' /\ InLimits(motionPosition)'
             /\ stepsToGo' = 0 /\ StartDwell(StopSetpoint)
  <2>1. InLimits(motionPosition)
    BY <1>3 DEF ClientInv, Careful
  <2>2. SetTarget(StopSetpoint)
    BY <1>2 DEF StartMove, StartDwell
  <2>3. stepsToGo' = 0
    BY <2>1, <2>2, StopsHere DEF ClientInv
  <2> QED BY <1>1, <1>2, <2>1, <2>3, TargetInside DEF ClientInv, StartMove
<1>4. ~rash => timer' = "off" /\ launch' = "none"
  BY <1>1, <1>3 DEF StartDwell, StopTimer
<1>5. CASE NoWork
  <2>1. ~rash => stepper' = "stopping" /\ main' = main /\ aborted' = aborted
    BY <1>3, <1>5 DEF NoWork, StartMove, StartDwell
  <2>2. Careful'
    BY <1>1, <1>3, <1>4, <2>1 DEF ClientInv, Careful
  <2>3. Calm => slipped' = slipped /\ (~sharp' => ~sharp)
    BY <1>5, StopRemembers
  <2>4. Powered'
    BY <1>1, <1>3, <1>4, <2>1, <2>3 DEF ClientInv, Powered, Calm
  <2> QED BY <2>2, <2>4
<1>6. CASE AbortBegins
  <2>1. ~rash => main' = "stopping" /\ stepper' = stepper
    BY <1>3, <1>6 DEF AbortBegins, StartMove, StartDwell, Remember
  <2>2. aborted'
    BY <1>6 DEF AbortBegins, Remember
  <2>3. Careful'
    BY <1>1, <1>3, <1>4, <2>1 DEF ClientInv, Careful
  <2> QED BY <2>2, <2>3 DEF Powered, Calm
<1> QED BY <1>5, <1>6

(* The ends of motionTarget, and what does not touch the motor.            *)
LEMMA EndsCareful ==
  ASSUME ClientInv, TargetDone \/ StopDone \/ AbortEnds \/ Report \/ UNCHANGED vars
  PROVE  Careful' /\ Powered'
<1>1. /\ params' = params /\ UNCHANGED steps /\ timer' = timer /\ dirPin' = dirPin
      /\ launch' = launch /\ UNCHANGED history
  BY DEF TargetDone, StopDone, AbortEnds, Report, vars, pins
<1>2. InLimits(targetStep)' = InLimits(targetStep) /\ InLimits(motionPosition)' = InLimits(motionPosition)
  BY <1>1 DEF InLimits, motionPosition, Signed, MinStep, MaxStep, posToStep, CDiv, steps
<1>3. stepsToGo \in Nat
  BY Halves DEF ClientInv, Inv, TypeOK
<1>4. CASE TargetDone
  <2>1. /\ stepper' = "fetch" /\ main' = main /\ launch = "none"
        /\ stepper = "dwelling" \/ (stepper = "moving" /\ stepsToGo = 0)
    BY <1>4 DEF TargetDone, ThreadsFree
  <2>2. ~rash => stepsToGo = 0
    BY <1>3, <2>1 DEF ClientInv, Careful
  <2>3. Careful'
    BY <1>1, <1>2, <2>1, <2>2 DEF ClientInv, Careful, steps, history
  <2>4. Powered'
    BY <1>1, <2>1, <2>2 DEF ClientInv, Powered, Calm, steps, history
  <2> QED BY <2>3, <2>4
<1>5. CASE StopDone
  <2>1. /\ stepper' = "waiting" /\ main' = main /\ launch = "none"
        /\ stepper = "stopping" \/ (stepper = "stopMoving" /\ stepsToGo = 0)
    BY <1>5 DEF StopDone, ThreadsFree
  <2>2. ~rash => stepsToGo = 0 /\ timer = "off"
    BY <1>3, <2>1 DEF ClientInv, Careful
  <2>3. Careful'
    BY <1>1, <1>2, <2>1, <2>2 DEF ClientInv, Careful, steps, history
  <2>4. Powered'
    BY <1>1, <2>1, <2>2 DEF ClientInv, Powered, Calm, steps, history
  <2> QED BY <2>3, <2>4
<1>6. CASE AbortEnds
  <2>1. /\ main' = "idle" /\ main # "idle" /\ launch = "none"
        /\ stepper' = IF stepper = "waiting" THEN "reset" ELSE stepper
    BY <1>6 DEF AbortEnds, ThreadsFree
  <2>2. Careful'
    BY <1>1, <1>2, <2>1 DEF ClientInv, Careful, steps, history
  <2>3. Powered'
    BY <1>1, <2>1 DEF ClientInv, Powered, Calm, history
  <2> QED BY <2>2, <2>3
<1>7. CASE Report \/ UNCHANGED vars
  <2>1. stepper' = stepper /\ main' = main /\ powered' = powered
    BY <1>7 DEF Report, vars, pins
  <2>2. Careful'
    BY <1>1, <1>2, <2>1 DEF ClientInv, Careful, steps, history
  <2>3. Powered'
    BY <1>1, <2>1 DEF ClientInv, Powered, Calm, steps, history
  <2> QED BY <2>2, <2>3
<1> QED BY <1>4, <1>5, <1>6, <1>7

(* New parameters count as rash unless the motor is at rest inside them.   *)
LEMMA ParamsCareful ==
  ASSUME ClientInv, NEW p \in MotionParams, ParamsRequest(p)
  PROVE  Careful' /\ Powered'
<1>1. /\ params' = Sane(p) /\ launch = "none" /\ launch' = "none"
      /\ UNCHANGED <<targetStep, direction, stepsToGo, timer, dirPin, powered>>
      /\ UNCHANGED <<stepper, main, aborted>>
      /\ rash' = (rash \/ stepsToGo > 0 \/ ~InsideLimits(p))
  BY DEF ParamsRequest, MainRuns, ThreadsFree, steps, pins
<1>2. ASSUME ~rash'
      PROVE  ~rash /\ InLimits(targetStep)' /\ InLimits(motionPosition)'
  <2>1. ~rash /\ ~(stepsToGo > 0) /\ motionPosition \in MinStep(Sane(p))..MaxStep(Sane(p))
    BY <1>1, <1>2 DEF InsideLimits
  <2>2. stepsToGo = 0
    BY <2>1, Halves DEF ClientInv, Inv, TypeOK
  <2>3. motionPosition = targetStep
    BY <2>2, RestIsTarget DEF ClientInv
  <2>4. motionPosition' = motionPosition
    BY <1>1 DEF motionPosition, Signed
  <2>5. MinStep(Sane(p)) \in Int /\ MaxStep(Sane(p)) \in Int
    <3>1. Sane(p) \in Params /\ Sane(p).minPos < Sane(p).maxPos
      BY Sanity
    <3>2. Sane(p).minPos \in Int /\ Sane(p).maxPos \in Int
      BY <3>1, MotionAssumption DEF Params, Pos16
    <3> QED BY <3>1, <3>2, LimitsOrdered
  <2>6. MinStep(Sane(p)) <= motionPosition /\ motionPosition <= MaxStep(Sane(p))
    BY <2>1, <2>5
  <2> QED BY <1>1, <2>1, <2>3, <2>4, <2>6 DEF InLimits, MinStep, MaxStep, posToStep, CDiv
<1>3. Careful'
  BY <1>1, <1>2 DEF ClientInv, Careful
<1>4. ASSUME Calm' PROVE slipped' = slipped /\ (~sharp' => ~sharp)
  <2>1. ~rash' /\ ~aborted
    BY <1>1, <1>4 DEF Calm
  <2>2. /\ slipped' = IF ~rash' /\ ~aborted THEN slipped ELSE {}
        /\ sharp' <=> ~rash' /\ ~aborted /\ (sharp \/ Sharp)
    BY DEF ParamsRequest, Remember
  <2> QED BY <2>1, <2>2
<1>5. Powered'
  BY <1>1, <1>2, <1>4 DEF ClientInv, Powered, Calm
<1> QED BY <1>3, <1>5

LEMMA ClientInvariant == Spec => []ClientInv
<1>1. ClientInv /\ [Next]_vars => ClientInv'
  <2> SUFFICES ASSUME ClientInv, [Next]_vars PROVE ClientInv'
    OBVIOUS
  <2>1. Inv'
    BY StepKeeps DEF ClientInv
  <2>2. CASE TimerWraps
    BY <2>1, <2>2 DEF ClientInv, Careful, Powered, TimerWraps, Calm
  <2>3. Careful' /\ Powered'
    BY <2>2, TickCareful, LaunchCareful, TakeCareful, StopCareful, EndsCareful, ParamsCareful
       DEF Next, Timer, StepperTh, SetParams, Abort, ClientInv
  <2> QED BY <2>1, <2>3 DEF ClientInv
<1> QED BY ClientInit, <1>1, PTL DEF Spec

(* Whichever thread sets a target and whichever stops it, the timer is     *)
(* armed exactly while there are steps to make, for a client that sets     *)
(* parameters at rest; so stepsToGo is never decremented at zero.          *)
THEOREM ArmedForStepsHolds == Spec => []ArmedForSteps
<1>1. ClientInv => ArmedForSteps
  <2> SUFFICES ASSUME ClientInv, ~rash PROVE ArmedForSteps
    BY DEF ArmedForSteps
  <2>1. timer = "armed" => stepsToGo > 0
    BY DEF ClientInv, Inv, Counted
  <2>2. stepsToGo \in Nat
    BY Halves DEF ClientInv, Inv, TypeOK
  <2> QED BY <2>1, <2>2 DEF ClientInv, Careful, ArmedForSteps, Polling
<1> QED BY ClientInvariant, <1>1, PTL

(* The moves of such a client end inside the limits; and if nothing is     *)
(* aborted, the motor makes every step that is counted after the pins are  *)
(* set, and all of them if no move turns round, or switches the motor on,  *)
(* while the timer still runs from the one before.                         *)
THEOREM StepsAsCountedHolds == Spec => []StepsAsCounted
<1>1. ClientInv => StepsAsCounted
  <2> SUFFICES ASSUME ClientInv PROVE StepsAsCounted
    OBVIOUS
  <2>1. MinStep(params) \in Int /\ MaxStep(params) \in Int /\ targetStep \in Int
    BY LimitsInForce DEF ClientInv, Inv, TypeOK
  <2>2. StepsWithinLimits
    BY <2>1 DEF ClientInv, Careful, InLimits, StepsWithinLimits
  <2>3. NeverSlips
    BY DEF ClientInv, Powered, NeverSlips
  <2> QED BY <2>2, <2>3 DEF StepsAsCounted
<1> QED BY ClientInvariant, <1>1, PTL
=================================================================================
