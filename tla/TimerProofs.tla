------------------------------- MODULE TimerProofs -------------------------------
(***************************************************************************)
(* Proofs about the programs that load a hardware timer: StepTimer, for    *)
(* every word size, clock, rate limit and set of moves that                *)
(* TimerAssumption admits; RampStep, for moves of every length and every   *)
(* ramp RampAssumption admits; CanRate, for every bit rate and clock; and  *)
(* that each of them keeps its types when MCTimers runs them.              *)
(***************************************************************************)
EXTENDS MCTimers, TLAPS

---------------------------------------------------------------------------------
(* The halves of a number, as C divides by two.                            *)
LEMMA Half ==
  ASSUME NEW n \in Nat
  PROVE  /\ n \div 2 \in Nat
         /\ 2 * (n \div 2) <= n /\ n <= 2 * (n \div 2) + 1
OBVIOUS

(* A division rounds down to a whole number of steps.                      *)
LEMMA Division ==
  ASSUME NEW n \in Nat \ {0}, NEW x \in Nat
  PROVE  /\ x \div n \in Nat
         /\ (x \div n) * n <= x /\ x < (x \div n) * n + n
<1>1. x \div n \in Int /\ n * (x \div n) <= x /\ x < n * (x \div n) + n
  OBVIOUS
<1>2. x \div n >= 0
  BY Z3
<1>3. n * (x \div n) = (x \div n) * n
  BY <1>1
<1> QED BY <1>1, <1>2, <1>3

(* Numbers that fit a word are what they are modulo a word.                *)
LEMMA FitsWord ==
  ASSUME NEW x \in 0..(Word - 1)
  PROVE  x % Word = x
BY TimerAssumption

(* As int32_t, a small difference of words is the difference, also when    *)
(* it is off by a word.                                                    *)
LEMMA SignedIsIdentity ==
  ASSUME NEW x \in Int, -(Word \div 2) <= x, x < Word \div 2
  PROVE  Signed(x) = x /\ Signed(x + Word) = x
<1>1. /\ Word \in Nat \ {0} /\ Word \div 2 \in Nat /\ 2 * (Word \div 2) = Word
  BY TimerAssumption
<1> DEFINE y == x + Word \div 2
<1>2. y \in 0..(Word - 1)
  BY <1>1
<1>3. y % Word = y /\ (y + Word) % Word = y
  <2> HIDE DEF y
  <2> QED BY <1>1, <1>2
<1>4. x + Word + Word \div 2 = y + Word
  BY <1>1
<1> QED BY <1>1, <1>3, <1>4 DEF Signed

---------------------------------------------------------------------------------

(* The residue is what rounding the last move has left: at most half a     *)
(* clock for each of its steps.                                            *)
Rounded ==
  /\ asked \in Steps \cup {0} /\ asked \in Nat /\ 2 * asked < Word
  /\ residue \in Int
  /\ -asked <= 2 * residue /\ 2 * residue <= asked

(* The clocks of a move, half a step more so that the division rounds; a   *)
(* word more if it is hurried.                                             *)
Rounds(n, t) == Unit * t + residue + n \div 2 + (IF Hurried(n, t) THEN Word ELSE 0)

(* Whatever the last move was, that fits a word and is what the code       *)
(* divides: its two additions wrap both or neither, except in a hurry.     *)
LEMMA ClocksFit ==
  ASSUME Rounded, NEW n \in Steps, NEW t \in Times
  PROVE  /\ Rounds(n, t) \in 0..(Word - 1)
         /\ Rate(n, t) = Rounds(n, t) \div n
         /\ Clocks(t) \in Nat
         /\ LET e == Rounds(n, t) - n \div 2
            IN  Clocks(t) = e \/ Clocks(t) = e + Word
<1> DEFINE clocks == Unit * t
           c == clocks + residue
           h == n \div 2
<1>1. /\ clocks \in Nat /\ n \in Nat \ {0} /\ Word \in Nat \ {0}
      /\ 2 * (clocks + n) < Word
  BY TimerAssumption
<1>2. residue \in Int /\ 2 * (clocks + residue) < Word
      /\ 4 * (clocks + residue) + 2 * n < 2 * Word
      /\ -Word <= 2 * residue
  <2>1. CASE asked = 0
    <3>1. residue = 0
      BY <2>1 DEF Rounded
    <3> HIDE DEF clocks
    <3> QED BY <3>1, <1>1
  <2>2. CASE asked \in Steps
    <3>1. asked \in Nat /\ 2 * (clocks + asked) < Word
      BY <2>2, TimerAssumption
    <3>2. residue \in Int /\ -asked <= 2 * residue /\ 2 * residue <= asked
      BY DEF Rounded
    <3> HIDE DEF clocks
    <3> QED BY <3>1, <3>2, <1>1
  <2> QED BY <2>1, <2>2 DEF Rounded
<1>3. h \in Nat /\ 2 * h <= n
  BY <1>1, Half
<1> HIDE DEF clocks
<1>4. c \in Int /\ -Word <= 2 * c /\ 2 * c < Word /\ c + h < Word
  BY <1>1, <1>2, <1>3
<1>5. Clocks(t) = c % Word /\ Rate(n, t) = (((c % Word) + h) % Word) \div n
  BY DEF Clocks, Rate, clocks
<1>6. Hurried(n, t) <=> c + h < 0
  BY DEF Hurried, clocks
<1>7. Rounds(n, t) = c + h + (IF Hurried(n, t) THEN Word ELSE 0)
  BY DEF Rounds, clocks
<1> HIDE DEF c, h
<1>8. CASE c >= 0
  <2>1. c \in 0..(Word - 1) /\ c + h \in 0..(Word - 1)
    BY <1>1, <1>3, <1>4, <1>8
  <2>2. c % Word = c /\ (c + h) % Word = c + h
    BY <2>1, FitsWord
  <2>3. ~Hurried(n, t)
    BY <1>3, <1>4, <1>6, <1>8
  <2> QED BY <2>1, <2>2, <2>3, <1>3, <1>4, <1>5, <1>7 DEF h
<1>9. CASE c < 0
  <2>1. c % Word = c + Word /\ c + Word \in 0..(Word - 1)
    BY <1>1, <1>4, <1>9
  <2>2. CASE c + h >= 0
    <3>1. (c + Word + h) % Word = c + h /\ c + h \in 0..(Word - 1)
      <4> DEFINE y == c + h
      <4>1. y \in 0..(Word - 1)
        BY <1>1, <1>3, <1>4, <2>2
      <4>2. c + Word + h = y + Word
        BY <1>1, <1>3, <1>4
      <4> HIDE DEF y
      <4>3. (y + Word) % Word = y
        BY <4>1, <1>1
      <4> QED BY <4>1, <4>2, <4>3 DEF y
    <3>2. ~Hurried(n, t)
      BY <1>3, <1>4, <1>6, <2>2
    <3> QED BY <3>1, <3>2, <2>1, <1>1, <1>3, <1>4, <1>5, <1>7 DEF h
  <2>3. CASE c + h < 0
    <3>1. c + h + Word \in 0..(Word - 1) /\ c + Word + h = c + h + Word
      BY <1>1, <1>3, <1>4, <2>3
    <3>2. (c + Word + h) % Word = c + h + Word
      BY <3>1, FitsWord
    <3>3. Hurried(n, t)
      BY <1>6, <2>3
    <3> QED BY <3>1, <3>2, <3>3, <2>1, <1>1, <1>3, <1>4, <1>5, <1>7 DEF h
  <2> QED BY <2>2, <2>3, <1>3, <1>4
<1> QED BY <1>8, <1>9, <1>4

(* What is left of the clocks after as many whole steps as are nearest.    *)
LEMMA LeftIsRemainder ==
  ASSUME Rounded, NEW n \in Steps, NEW t \in Times
  PROVE  /\ Rate(n, t) \in Nat
         /\ Left(n, t) = Rounds(n, t) - n \div 2 - Rate(n, t) * n
         /\ Left(n, t) \in Int
         /\ -n <= 2 * Left(n, t) /\ 2 * Left(n, t) <= n
<1> DEFINE x == Rounds(n, t)
           made == Rate(n, t) * n
           left == x - n \div 2 - made
<1>1. /\ n \in Nat \ {0} /\ Word \in Nat /\ 2 * n < Word
      /\ 2 * (Word \div 2) = Word /\ Word \div 2 \in Nat
  BY TimerAssumption
<1>2. /\ x \in 0..(Word - 1) /\ Rate(n, t) = x \div n /\ Clocks(t) \in Nat
      /\ Clocks(t) = x - n \div 2 \/ Clocks(t) = x - n \div 2 + Word
  BY ClocksFit
<1>3. /\ n \div 2 \in Nat /\ 2 * (n \div 2) <= n /\ n <= 2 * (n \div 2) + 1
  BY <1>1, Half
<1> HIDE DEF x
<1>4. /\ Rate(n, t) \in Nat
      /\ made \in Int /\ made <= x /\ x < made + n
  <2>1. x \in Nat
    BY <1>1, <1>2
  <2>2. /\ x \div n \in Nat
        /\ (x \div n) * n <= x /\ x < (x \div n) * n + n
    BY <2>1, <1>1, Division
  <2> QED BY <2>2, <1>1, <1>2
<1> HIDE DEF made
<1>5. left \in Int /\ -n <= 2 * left /\ 2 * left <= n
  BY <1>1, <1>2, <1>3, <1>4
<1>6. Clocks(t) - made = left \/ Clocks(t) - made = left + Word
  BY <1>1, <1>2, <1>3, <1>4
<1> HIDE DEF left
<1>7. -(Word \div 2) <= left /\ left < Word \div 2
  BY <1>1, <1>5
<1>8. Left(n, t) = left
  BY <1>5, <1>6, <1>7, SignedIsIdentity DEF Left, made
<1> QED BY <1>4, <1>5, <1>8 DEF left, made, x

---------------------------------------------------------------------------------

Carried == Rounded /\ hurries \in Nat /\ debt = residue - Word * hurries

(* A move pays what the last one owed and owes what it rounds away; in a   *)
(* hurry it is a word longer.                                              *)
LEMMA MoveCarries ==
  ASSUME Carried, NEW n \in Steps, NEW t \in Times, Move(n, t)
  PROVE  Carried'
<1> DEFINE made == Rate(n, t) * n
           clocks == Unit * t
           h == n \div 2
           extra == IF Hurried(n, t) THEN Word ELSE 0
<1>1. /\ Left(n, t) = Rounds(n, t) - h - made
      /\ Left(n, t) \in Int /\ Rate(n, t) \in Nat
      /\ -n <= 2 * Left(n, t) /\ 2 * Left(n, t) <= n
  BY LeftIsRemainder DEF Carried
<1>2. asked' = n /\ residue' = Left(n, t) /\ debt' = debt + clocks - made
  BY DEF Move
<1>3. /\ clocks \in Int /\ n \in Nat \ {0} /\ Word \in Nat \ {0} /\ 2 * n < Word
  BY TimerAssumption
<1>4. h \in Nat
  BY <1>3, Half
<1>5. Rounded'
  BY <1>1, <1>2, <1>3 DEF Rounded
<1>6. hurries' \in Nat /\ Word * hurries' = Word * hurries + extra
  BY <1>3 DEF Move, Carried
<1>7. Rounds(n, t) = clocks + residue + h + extra
  BY DEF Rounds
<1>8. debt' = residue' - Word * hurries'
  <2>1. made \in Int /\ residue \in Int /\ extra \in Int /\ Word * hurries \in Int
    BY <1>1, <1>3 DEF Carried, Rounded
  <2> DEFINE w == Word * hurries
  <2>2. debt = residue - w /\ w \in Int
    BY <2>1 DEF Carried
  <2> HIDE DEF made, clocks, h, extra, w
  <2>3. residue' = clocks + residue + extra - made
    BY <1>1, <1>2, <1>3, <1>4, <1>7, <2>1
  <2>4. debt' = residue - w + clocks - made
    BY <1>2, <1>3, <2>1, <2>2
  <2> QED BY <1>3, <1>6, <2>1, <2>2, <2>3, <2>4 DEF w
<1> QED BY <1>5, <1>6, <1>8 DEF Carried

(* The error of any sequence of moves is that of rounding the last one,    *)
(* but for 2^32 clocks for each move whose clocks have wrapped.            *)
THEOREM ErrorCarriedHolds == Spec => []ErrorCarried
<1>1. Init => Carried
  BY TimerAssumption DEF Init, Carried, Rounded
<1>2. Carried /\ [Next]_vars => Carried'
  <2> SUFFICES ASSUME Carried, [Next]_vars PROVE Carried'
    OBVIOUS
  <2>1. ASSUME NEW n \in Steps, NEW t \in Times, Move(n, t)
        PROVE  Carried'
    BY <2>1, MoveCarries
  <2>2. ASSUME UNCHANGED carried PROVE Carried'
    BY <2>2 DEF Carried, Rounded, carried
  <2>3. ASSUME NEW t \in Times, Dwell(t) PROVE Carried'
    BY <2>3, <2>2 DEF Dwell
  <2>4. CASE Count \/ Match \/ Wraps
    BY <2>4, <2>2 DEF Count, Match, Wraps
  <2>5. CASE UNCHANGED vars
    BY <2>5, <2>2 DEF vars
  <2> QED BY <2>1, <2>3, <2>4, <2>5 DEF Next, Target
<1>3. Carried => ErrorCarried
  BY DEF Carried, Rounded, ErrorCarried
<1> QED BY <1>1, <1>2, <1>3, PTL DEF Spec

---------------------------------------------------------------------------------

(* The rate that is set is at least the limit and fits the register.       *)
LEMMA RateFits ==
  ASSUME Rounded, NEW n \in Steps, NEW t \in Times
  PROVE  Limited(Rate(n, t)) \in MinRate..Max32
<1> DEFINE x == Rounds(n, t)
           q == x \div n
<1>1. x \in 0..(Word - 1) /\ Rate(n, t) = q
  BY ClocksFit
<1>2. n \in Nat \ {0}
  BY TimerAssumption
<1> HIDE DEF x
<1>3. q \in Nat /\ q * n <= x
  BY <1>1, <1>2, Division, TimerAssumption
<1> HIDE DEF q
<1>4. q <= q * n /\ q * n \in Nat
  BY <1>2, <1>3, Z3
<1>5. q \in 0..(Word - 1)
  <2> DEFINE made == q * n
  <2>1. q <= made /\ made <= x /\ made \in Nat
    BY <1>3, <1>4
  <2> HIDE DEF made
  <2> QED BY <1>1, <1>3, <2>1, TimerAssumption
<1> QED BY <1>1, <1>5, TimerAssumption DEF Limited, Max32

Made == asked - stepsToGo

(* Before the first step the counter is on its way from where it was, or   *)
(* has gone round; after it the steps are a rate and a clock apart.        *)
Late == IF began > mr3 THEN Word ELSE 0
Starts == \/ began <= tc /\ spent = tc - began /\ (began <= mr3 => tc <= mr3)
          \/ mr3 < began /\ tc <= mr3 /\ spent = tc - began + Word
Paces == tc <= mr3 /\ spent = Made * (mr3 + 1) + tc - began + Late
Pace == Moving => (Made = 0 => Starts) /\ (Made > 0 => Paces)

(* There is a step to go only of the last move, or of a wrap.              *)
Counted == stepsToGo <= asked \/ stepsToGo = Max32

Inv == TypeOK /\ Carried /\ Counted /\ Pace

LEMMA InWords ==
  ASSUME Inv
  PROVE  /\ Word \in Nat \ {0} /\ Max32 = Word - 1 /\ Word % 2 = 0 /\ Word >= 2
         /\ stepsToGo \in Nat /\ asked \in Nat /\ tc \in Nat /\ mr3 \in Nat
         /\ began \in Nat /\ spent \in Nat
         /\ tc <= Max32 /\ mr3 <= Max32 /\ began <= Max32
         /\ 2 * asked < Word /\ Made \in Int
BY TimerAssumption DEF Inv, TypeOK, Carried, Rounded, Max32, Made

LEMMA InvInit == Init => Inv
<1> SUFFICES ASSUME Init PROVE Inv
  OBVIOUS
<1>1. Word \in Nat \ {0} /\ 2 * (Word \div 2) = Word /\ Word \div 2 \in Nat \ {0}
  BY TimerAssumption
<1>2. Carried /\ Counted /\ Pace
  BY <1>1 DEF Init, Carried, Rounded, Counted, Pace, Moving
<1>3. 0 \in 0..Max32 /\ Max32 \in 0..Max32 /\ 0 \in -(Word \div 2)..(Word \div 2 - 1)
  BY <1>1 DEF Max32
<1>4. tcr \in BOOLEAN
  BY DEF Init
<1>5. TypeOK
  BY <1>3, <1>4 DEF Init, TypeOK
<1> QED BY <1>2, <1>5 DEF Inv

LEMMA MoveKeepsInv ==
  ASSUME Inv, NEW n \in Steps, NEW t \in Times, Move(n, t)
  PROVE  Inv'
<1>1. Carried'
  BY MoveCarries DEF Inv
<1>2. mr3' \in MinRate..Max32
  BY RateFits DEF Inv, Carried, Move
<1>3. /\ Word \in Nat /\ 2 * (Word \div 2) = Word /\ Word \div 2 \in Nat
      /\ n \in Nat \ {0} /\ 2 * n < Word /\ MinRate \in Nat
  BY TimerAssumption
<1>4. residue' \in -(Word \div 2)..(Word \div 2 - 1)
  BY <1>1, <1>3 DEF Carried, Rounded, Move
<1>5. /\ stepsToGo' = n /\ asked' = n /\ tcr' = TRUE /\ tc' = tc
      /\ began' = tc /\ spent' = 0
  BY DEF Move
<1>6. debt' \in Int /\ hurries' \in Nat
  BY <1>1, <1>3 DEF Carried, Rounded
<1>7. mr3' \in 0..Max32 /\ n \in 0..Max32
  BY <1>2, <1>3 DEF Max32
<1>8. TypeOK'
  BY <1>3, <1>4, <1>5, <1>6, <1>7 DEF Inv, TypeOK
<1>9. Made' = 0 /\ Starts'
  BY <1>3, <1>5, <1>7, InWords DEF Made, Starts
<1>10. Counted' /\ Pace'
  BY <1>3, <1>5, <1>9 DEF Counted, Pace
<1> QED BY <1>1, <1>8, <1>10 DEF Inv

LEMMA DwellKeepsInv == ASSUME Inv, NEW t \in Times, Dwell(t) PROVE Inv'
<1>1. UNCHANGED <<residue, tc, asked, debt, hurries>>
  BY DEF Dwell, carried
<1>2. Carried'
  BY <1>1 DEF Inv, Carried, Rounded
<1>3. mr3' = Max32 /\ stepsToGo' = 0 /\ began' = 0 /\ spent' = 0
  BY DEF Dwell
<1>4. tcr' \in BOOLEAN
  BY DEF Dwell
<1>5. {mr3', stepsToGo', began'} \subseteq 0..Max32 /\ spent' \in Nat
  BY <1>3, TimerAssumption DEF Max32
<1>6. TypeOK'
  BY <1>1, <1>4, <1>5 DEF Inv, TypeOK
<1>7. Counted' /\ Pace'
  BY <1>1, <1>3, InWords DEF Counted, Pace, Moving
<1> QED BY <1>2, <1>6, <1>7 DEF Inv

LEMMA CountKeepsInv == ASSUME Inv, Count PROVE Inv'
<1>1. /\ UNCHANGED <<residue, asked, debt, hurries>>
      /\ UNCHANGED <<stepsToGo, tcr, mr3, began>>
  BY DEF Count, carried
<1>2. /\ tc # mr3 /\ tc' = (tc + 1) % Word
      /\ spent' = IF Moving THEN spent + 1 ELSE spent
  BY DEF Count
<1>3. tc' = IF tc = Max32 THEN 0 ELSE tc + 1
  <2>1. CASE tc = Max32
    <3>1. tc + 1 = Word /\ Word % Word = 0
      BY <2>1, InWords
    <3> QED BY <1>2, <2>1, <3>1
  <2>2. CASE tc # Max32
    <3>1. tc + 1 \in 0..(Word - 1)
      BY <2>2, InWords
    <3> QED BY <1>2, <2>2, <3>1, FitsWord
  <2> QED BY <2>1, <2>2
<1>4. TypeOK'
  <2>1. tc' \in 0..Max32 /\ spent' \in Nat
    BY <1>2, <1>3, InWords
  <2> QED BY <1>1, <2>1 DEF Inv, TypeOK
<1>5. Carried'
  BY <1>1 DEF Inv, Carried, Rounded
<1>6. Made' = Made /\ Late' = Late /\ mr3' = mr3 /\ began' = began
  BY <1>1 DEF Made, Late
<1>7. Pace'
  <2> SUFFICES ASSUME Moving'
               PROVE  /\ Made' = 0 => Starts'
                      /\ Made' > 0 => Paces'
    BY DEF Pace
  <2>1. Moving /\ spent' = spent + 1
    BY <1>1, <1>2 DEF Moving
  <2>2. CASE Made = 0
    <3>1. \/ began <= tc /\ spent = tc - began /\ (began <= mr3 => tc <= mr3)
          \/ mr3 < began /\ tc <= mr3 /\ spent = tc - began + Word
      BY <2>1, <2>2 DEF Inv, Pace, Starts
    <3>2. CASE tc = Max32
      <4>1. began <= tc /\ spent = tc - began /\ mr3 < began
        <5>1. tc # mr3 /\ mr3 <= tc
          BY <3>2, <1>2, InWords
        <5> QED BY <3>1, <5>1, InWords
      <4>2. tc' = 0 /\ spent' = 0 - began + Word
        BY <4>1, <3>2, <1>3, <2>1, InWords
      <4> QED BY <4>1, <4>2, <2>2, <1>6, InWords DEF Starts
    <3>3. CASE tc # Max32
      <4>1. tc' = tc + 1 /\ tc # mr3
        BY <3>3, <1>2, <1>3
      <4>2. \/ began <= tc' /\ spent' = tc' - began /\ (began <= mr3 => tc' <= mr3)
            \/ mr3 < began /\ tc' <= mr3 /\ spent' = tc' - began + Word
        BY <4>1, <3>1, <2>1, InWords
      <4> QED BY <4>2, <2>2, <1>6 DEF Starts
    <3> QED BY <3>2, <3>3
  <2>3. CASE Made > 0
    <3> DEFINE m == Made * (mr3 + 1)
    <3>1. tc <= mr3 /\ spent = m + tc - began + Late /\ m \in Int /\ Late \in Int
      BY <2>1, <2>3, InWords DEF Inv, Pace, Paces, Late
    <3> HIDE DEF m
    <3>2. tc' = tc + 1 /\ tc' <= mr3
      <4>1. tc <= mr3 /\ tc # mr3
        BY <3>1, <1>2
      <4>2. tc \in Nat /\ mr3 \in Nat /\ Max32 \in Nat /\ mr3 <= Max32
        BY InWords
      <4>3. tc # Max32 /\ tc + 1 <= mr3
        BY <4>1, <4>2
      <4> QED BY <4>3, <1>3
    <3>3. spent' = m + tc' - began + Late
      BY <3>1, <3>2, <2>1, InWords
    <3>4. Paces'
      BY <3>2, <3>3, <1>6 DEF Paces, m
    <3> QED BY <2>3, <3>4, <1>6, InWords
  <2> QED BY <2>2, <2>3, <1>6, InWords DEF Moving, Made
<1>8. Counted'
  BY <1>1 DEF Inv, Counted
<1> QED BY <1>4, <1>5, <1>7, <1>8 DEF Inv

LEMMA MatchKeepsInv == ASSUME Inv, Match PROVE Inv'
<1>1. UNCHANGED <<residue, tcr, asked, debt, hurries>>
  BY DEF Match, carried
<1>2. /\ 0 < stepsToGo /\ stepsToGo < Max32 /\ tc = mr3 /\ tc' = 0 /\ stepsToGo' = stepsToGo - 1
      /\ mr3' = IF stepsToGo' = 0 THEN Max32 ELSE mr3
      /\ spent' = IF stepsToGo' = 0 THEN 0 ELSE spent + 1
      /\ began' = IF stepsToGo' = 0 THEN 0 ELSE began
  BY DEF Match, Parked
<1>3. stepsToGo \in 1..asked /\ Moving
  BY <1>2, InWords DEF Inv, Counted, Moving
<1>4. TypeOK'
  <2>1. {tc', stepsToGo', mr3', began'} \subseteq 0..Max32 /\ spent' \in Nat
    BY <1>2, <1>3, InWords
  <2> QED BY <1>1, <2>1 DEF Inv, TypeOK
<1>5. Carried'
  BY <1>1 DEF Inv, Carried, Rounded
<1>6. Pace'
  <2>1. CASE stepsToGo' = 0
    BY <2>1 DEF Pace, Moving
  <2>2. CASE stepsToGo' # 0
    <3>1. mr3' = mr3 /\ began' = began /\ spent' = spent + 1 /\ Late' = Late
      BY <1>2, <2>2 DEF Late
    <3>2. Made' = Made + 1 /\ Made' > 0 /\ tc' <= mr3 /\ Made >= 0
      BY <1>1, <1>2, <1>3, InWords DEF Made
    <3> DEFINE m == Made * (mr3 + 1)
    <3>3. m \in Int /\ Late \in Int /\ (Made + 1) * (mr3 + 1) = m + mr3 + 1
      BY InWords DEF Late
    <3>4. spent = m + tc - began + Late
      <4>1. CASE Made = 0
        <5>1. m = 0
          BY <4>1, InWords
        <5> HIDE DEF m
        <5> QED BY <4>1, <5>1, <1>2, <1>3, InWords DEF Inv, Pace, Starts, Late
      <4>2. CASE Made > 0
        BY <4>2, <1>2, <1>3 DEF Inv, Pace, Paces
      <4> QED BY <4>1, <4>2, <3>2, InWords
    <3> HIDE DEF m
    <3>5. spent' = m + mr3 + 1 + tc' - began + Late
      BY <3>1, <3>3, <3>4, <1>2, InWords
    <3>6. spent' = Made' * (mr3' + 1) + tc' - began' + Late'
      BY <3>1, <3>2, <3>3, <3>5
    <3>7. tc' <= mr3' /\ Made' # 0
      BY <3>1, <3>2
    <3> QED BY <3>6, <3>7 DEF Pace, Paces
  <2> QED BY <2>1, <2>2
<1>7. Counted'
  BY <1>1, <1>2, <1>3, InWords DEF Counted
<1> QED BY <1>4, <1>5, <1>6, <1>7 DEF Inv

LEMMA WrapsKeepsInv == ASSUME Inv, Wraps PROVE Inv'
<1>1. UNCHANGED <<residue, tcr, asked, debt, hurries, began, spent>>
  BY DEF Wraps, carried
<1>2. (0 - 1) % Word = Word - 1
  BY InWords
<1>3. tc' = 0 /\ stepsToGo' = Max32 /\ mr3' = mr3
  <2>1. stepsToGo' = Max32
    BY <1>2, InWords DEF Wraps
  <2> QED BY <2>1, InWords DEF Wraps, Parked
<1>4. TypeOK'
  <2>1. {tc', stepsToGo', mr3'} \subseteq 0..Max32
    BY <1>3, InWords
  <2> QED BY <1>1, <2>1 DEF Inv, TypeOK
<1>5. Carried'
  BY <1>1 DEF Inv, Carried, Rounded
<1>6. Counted' /\ Pace'
  <2>1. ~(stepsToGo' <= asked')
    BY <1>1, <1>3, InWords
  <2>2. Max32' = Max32 /\ ~Moving'
    BY <2>1, <1>1, InWords DEF Moving, Max32
  <2> QED BY <2>2, <1>3 DEF Counted, Pace
<1> QED BY <1>4, <1>5, <1>6 DEF Inv

LEMMA InvHolds == Spec => []Inv
<1>1. Inv /\ [Next]_vars => Inv'
  <2> SUFFICES ASSUME Inv, [Next]_vars PROVE Inv'
    OBVIOUS
  <2>1. CASE UNCHANGED vars
    BY <2>1 DEF vars, carried, Inv, TypeOK, Carried, Rounded, Counted, Pace, Starts, Paces, Moving, Made, Late
  <2> QED
    BY <2>1, MoveKeepsInv, DwellKeepsInv, CountKeepsInv, MatchKeepsInv, WrapsKeepsInv
       DEF Next, Target
<1> QED BY InvInit, <1>1, PTL DEF Spec

(* Residue, counter, rate and steps to go stay within their 32 bits.       *)
THEOREM TypeCorrect == Spec => []TypeOK
<1>1. Inv => TypeOK
  BY DEF Inv
<1> QED BY InvHolds, <1>1, PTL

(* The steps of every move are the rate and a clock apart, however late    *)
(* the threads are and whatever move they cut short.  The overrun of the   *)
(* TODO in motionTarget can make the first step late, by one round of the  *)
(* counter.                                                                *)
THEOREM PaceKeptHolds == Spec => []PaceKept
<1>1. Inv => PaceKept
  <2> SUFFICES ASSUME Inv, Moving PROVE PaceKept
    BY DEF PaceKept
  <2>1. CASE Made = 0
    <3>1. CASE began <= tc /\ spent = tc - began
      <4>1. spent \in 0..(Word - 1)
        BY <3>1, InWords
      <4> QED BY <2>1, <3>1, <4>1, FitsWord, InWords DEF PaceKept, Made
    <3>2. CASE mr3 < began /\ tc <= mr3 /\ spent = tc - began + Word
      <4>1. /\ tc - began \in Int /\ tc - began < 0 /\ -Word < tc - began
            /\ Word \in Nat \ {0}
        BY <3>2, InWords
      <4>2. (tc - began) % Word = tc - began + Word
        <5> DEFINE y == tc - began
        <5> HIDE DEF y
        <5>1. y % Word = y + Word
          BY <4>1 DEF y
        <5> QED BY <5>1 DEF y
      <4> QED BY <2>1, <3>2, <4>2, InWords DEF PaceKept, Made
    <3> QED BY <2>1, <3>1, <3>2 DEF Inv, Pace, Starts
  <2>2. CASE Made # 0
    <3>1. Made > 0
      BY <2>2, InWords DEF Made, Moving
    <3> QED BY <3>1, InWords DEF Inv, Pace, Paces, PaceKept, Made, Late
  <2> QED BY <2>1, <2>2
<1> QED BY InvHolds, <1>1, PTL

---------------------------------------------------------------------------------
(* RampStep.  While the speed goes up, the period after k steps is bounded *)
(* by Decline: as far as the divisions are exact it falls with the root of *)
(* k, and what they are rounded by adds less than a unit for each step.    *)

LEMMA Multiply ==
  ASSUME NEW a \in Int, NEW b \in Int, NEW c \in Int, a <= b, c >= 0
  PROVE  a * c <= b * c
<1>1. (b - a) * c >= 0
  <2>1. PICK d \in Nat : d = b - a
    OBVIOUS
  <2>2. d * c >= 0
    OBVIOUS
  <2> QED BY <2>1, <2>2
<1> QED BY <1>1

LEMMA Squares ==
  ASSUME NEW a \in Nat, NEW b \in Int, a <= b
  PROVE  a * a <= b * b
<1>1. a * a <= b * a /\ a * b <= b * b
  BY Multiply
<1> QED BY <1>1

Decline(r, k) == (3 * r - 2 * k - 1) * (3 * r - 2 * k - 1) * (4 * k + 3) <= 27 * CSLOW * CSLOW

(* At rest the bound is met.                                               *)
LEMMA DeclineStarts == Decline(CSLOW, 0)
<1>1. PICK c \in Nat : c = CSLOW
  BY RampAssumption
<1>2. (3 * c - 1) * (3 * c - 1) <= (3 * c) * (3 * c)
  <2>1. c > 0
    BY <1>1, RampAssumption
  <2>2. 3 * c - 1 \in Nat /\ 3 * c \in Int /\ 3 * c - 1 <= 3 * c
    BY <2>1
  <2> QED BY <2>2, Squares
<1>3. (3 * c - 2 * 0 - 1) * (3 * c - 2 * 0 - 1) * (4 * 0 + 3) = 3 * ((3 * c - 1) * (3 * c - 1))
  OBVIOUS
<1>4. 3 * ((3 * c) * (3 * c)) = 27 * c * c
  OBVIOUS
<1> QED BY <1>1, <1>2, <1>3, <1>4 DEF Decline

(* One division, exact but for less than a unit.                           *)
LEMMA OneDivision ==
  ASSUME NEW r \in Nat, NEW d \in Nat \ {0}, NEW q, q = (2 * r) \div d
  PROVE  /\ q \in Nat /\ q * d <= 2 * r /\ 2 * r < q * d + d
<1>1. (2 * r) \div d \in Int /\ d * ((2 * r) \div d) <= 2 * r
      /\ 2 * r < d * ((2 * r) \div d) + d
  BY Z3
<1>2. (2 * r) \div d >= 0
  BY Z3
<1> QED BY <1>1, <1>2

LEMMA DeclineKept ==
  ASSUME NEW r \in Nat, NEW k \in Nat, Decline(r, k), 2 * k <= r,
         NEW s \in Nat, s = r - (2 * r) \div (4 * k + 5), 3 * s >= 2 * k + 3
  PROVE  Decline(s, k + 1)
<1>1. PICK d \in Nat \ {0}, m \in Int : d = 4 * k + 5 /\ m = 27 * CSLOW * CSLOW
  BY RampAssumption
<1>2. PICK t \in Int, u \in Nat : t = 3 * r - 2 * k - 1 /\ u = 3 * s - 2 * (k + 1) - 1
  OBVIOUS
<1>3. t * t * (d - 2) <= m
  BY <1>1, <1>2 DEF Decline
<1>4. u * d <= t * (d - 2)
  <2>1. PICK q : q = (2 * r) \div d
    OBVIOUS
  <2>2. q \in Nat /\ 2 * r < q * d + d
    BY <2>1, OneDivision
  <2>3. s = r - q
    BY <1>1, <2>1
  <2>4. u = t - 3 * q - 2
    BY <1>2, <2>2, <2>3
  <2>5. u * d = t * d - 3 * (q * d) - 2 * d
    BY <1>2, <2>2, <2>4
  <2>6. 3 * (q * d) + 2 * d >= 6 * r - d + 3
    BY <2>2
  <2>7. 2 * t = 6 * r - d + 3
    BY <1>1, <1>2
  <2>8. t * (d - 2) = t * d - 2 * t
    BY <1>2
  <2> QED BY <1>2, <2>2, <2>5, <2>6, <2>7, <2>8
<1>5. (u * d) * (u * d) <= (t * (d - 2)) * (t * (d - 2))
  <2>1. PICK x \in Nat, y \in Int : x = u * d /\ y = t * (d - 2)
    <3>1. u * d \in Nat /\ t * (d - 2) \in Int
      BY <1>2
    <3> QED BY <3>1
  <2>2. x * x <= y * y
    BY <1>4, <2>1, Squares
  <2> QED BY <2>1, <2>2
<1>6. (u * u * (d + 2)) * (d * d) <= m * (d * d)
  <2>1. PICK a \in Nat, b \in Nat : a = u * u /\ b = t * t
    <3>1. u * u \in Nat /\ t * t \in Nat
      BY <1>2
    <3> QED BY <3>1
  <2>2. a * (d * d) <= b * ((d - 2) * (d - 2))
    <3>1. (u * d) * (u * d) = a * (d * d)
      BY <1>2, <2>1
    <3>2. (t * (d - 2)) * (t * (d - 2)) = b * ((d - 2) * (d - 2))
      BY <1>2, <2>1
    <3> QED BY <1>5, <3>1, <3>2
  <2>3. (a * (d * d)) * (d + 2) <= (b * ((d - 2) * (d - 2))) * (d + 2)
    BY <2>1, <2>2, Multiply
  <2>4. (b * (d - 2)) * ((d - 2) * (d + 2)) <= (b * (d - 2)) * (d * d)
    <3>1. (d - 2) * (d + 2) = d * d - 4 /\ d >= 5
      BY <1>1
    <3>2. b * (d - 2) >= 0
      BY <2>1, <3>1
    <3>3. ((d - 2) * (d + 2)) * (b * (d - 2)) <= (d * d) * (b * (d - 2))
      BY <2>1, <3>1, <3>2, Multiply
    <3> QED BY <2>1, <3>3
  <2>5. (b * (d - 2)) * (d * d) <= m * (d * d)
    <3>1. b * (d - 2) <= m
      BY <1>3, <2>1
    <3>2. d * d >= 0
      OBVIOUS
    <3> QED BY <1>1, <2>1, <3>1, <3>2, Multiply
  <2>6. (b * ((d - 2) * (d - 2))) * (d + 2) = (b * (d - 2)) * ((d - 2) * (d + 2))
    BY <2>1
  <2>7. (a * (d * d)) * (d + 2) = (a * (d + 2)) * (d * d)
    BY <2>1
  <2> QED BY <2>1, <2>3, <2>4, <2>5, <2>6, <2>7
<1>7. u * u * (d + 2) <= m
  <2> SUFFICES ASSUME u * u * (d + 2) > m PROVE FALSE
    BY <1>1, <1>2
  <2>1. PICK x \in Int, e \in Nat : x = u * u * (d + 2) /\ e = d * d
    BY <1>2
  <2>2. e >= 1
    BY <1>1, <2>1
  <2>3. x >= m + 1
    BY <1>1, <2>1
  <2>4. (m + 1) * e <= x * e
    BY <1>1, <2>1, <2>2, <2>3, Multiply
  <2> QED BY <1>1, <1>6, <2>1, <2>2, <2>4
<1>8. d + 2 = 4 * (k + 1) + 3
  BY <1>1
<1> QED BY <1>1, <1>2, <1>7, <1>8 DEF Decline

(* So the ramp is over, one way or the other, in time.                     *)
LEMMA RampEnds ==
  ASSUME NEW r \in Nat, NEW k \in Nat, Decline(r, k), r > CFAST, 2 * k <= CFAST + 2
  PROVE  2 * k <= CFAST
<1> SUFFICES ASSUME 2 * k > CFAST PROVE FALSE
  BY RampAssumption
<1>1. PICK f \in Nat \ {0}, c \in Nat : f = CFAST /\ c = CSLOW
  BY RampAssumption
<1>2. PICK ratio \in 1..f : c <= ratio * f /\ 27 * ratio * ratio <= 8 * f
  BY <1>1, RampAssumption
<1>3. PICK t \in Nat, h \in Nat : t = 3 * r - 2 * k - 1 /\ h = 4 * k + 3
  BY <1>1
<1>4. t >= 2 * f /\ h >= 2 * f + 1
  BY <1>1, <1>3
<1>5. t * t * h <= 27 * c * c
  BY <1>1, <1>3 DEF Decline
<1>6. (2 * f) * (2 * f) * (2 * f + 1) <= t * t * h
  <2>1. (2 * f) * (2 * f) <= t * t
    BY <1>4, Squares
  <2>2. ((2 * f) * (2 * f)) * (2 * f + 1) <= (t * t) * (2 * f + 1)
    BY <2>1, Multiply
  <2>3. (2 * f + 1) * (t * t) <= h * (t * t)
    <3>1. t * t >= 0
      OBVIOUS
    <3> QED BY <1>4, <3>1, Multiply
  <2> QED BY <2>2, <2>3
<1>7. 27 * c * c <= 8 * (f * f * f)
  <2>1. c * c <= (ratio * f) * (ratio * f)
    BY <1>2, Squares
  <2>2. (27 * ratio * ratio) * (f * f) <= (8 * f) * (f * f)
    <3>1. f * f >= 0
      OBVIOUS
    <3> QED BY <1>2, <3>1, Multiply
  <2>3. 27 * ((ratio * f) * (ratio * f)) = (27 * ratio * ratio) * (f * f)
    OBVIOUS
  <2>4. (8 * f) * (f * f) = 8 * (f * f * f)
    OBVIOUS
  <2> QED BY <2>1, <2>2, <2>3, <2>4
<1>8. (2 * f) * (2 * f) * (2 * f + 1) = 8 * (f * f * f) + 4 * (f * f)
  OBVIOUS
<1>9. f * f >= 1
  OBVIOUS
<1> QED BY <1>5, <1>6, <1>7, <1>8, <1>9

(* Where a move comes from and goes to.                                    *)
Sign(n) == IF n < 0 THEN -1 ELSE 1

RampTypes ==
  /\ far \in Int \ {0} /\ outward \in BOOLEAN /\ running \in BOOLEAN /\ timer \in BOOLEAN
  /\ pos \in Int /\ inc \in Int /\ rate \in Int /\ stepNo \in Int /\ stepDown \in Int
  /\ move \in Int /\ midPt \in Int /\ denom \in Int /\ motor \in Int

(* Between two moves, and within one, on the way out or back: position and *)
(* motor have come as far as there have been steps.                        *)
Underway ==
  /\ ~running => /\ ~timer /\ state = "idle"
                 /\ pos = IF outward THEN 0 ELSE far
                 /\ motor = IF outward THEN 0 ELSE far + Sign(far)
  /\ running => /\ timer /\ move = Distance(far, 0) /\ midPt = (move - 1) \div 2
                /\ ~outward => inc = Sign(far) /\ pos = inc * stepNo /\ motor = pos
                /\ outward => /\ inc = -Sign(far)
                              /\ pos = far + inc * stepNo /\ motor = pos - inc

(* How far a move has come, in each state of the interrupt.                *)
Going ==
  \/ /\ state = "up" /\ 0 <= stepNo /\ stepNo <= midPt /\ denom = 4 * stepNo + 1
     /\ CFAST < rate /\ 2 * stepNo <= CFAST /\ Decline(rate, stepNo)
     /\ stepNo = 0 => rate = CSLOW
     /\ stepNo = 1 => 3 * CSLOW <= 5 * rate
  \/ /\ state = "max" /\ rate = CFAST /\ stepNo <= stepDown /\ denom % 4 = 1
     /\ stepDown + 2 <= move /\ 4 * (move - stepDown) - 9 <= 2 * CFAST
     /\ stepNo < move
  \/ /\ state = "down" /\ stepNo < move /\ denom = 4 * (stepNo - move) + 1
     /\ CFAST <= rate /\ (CFAST < rate \/ 4 * (move - stepNo) - 5 <= 2 * rate)
  \/ state = "last" /\ stepNo = move /\ CFAST <= rate

RampInv == RampTypes /\ Underway /\ (running => Going)

(* The next period on the way down is a longer one.                        *)
LEMMA SlowsDown ==
  ASSUME NEW r \in Int, NEW n \in Int, CFAST <= r, n <= -2,
         CFAST < r \/ -(4 * n) - 5 <= 2 * r
  PROVE  r - Quotient(2 * r, 4 * n + 5) \in Int /\ CFAST < r - Quotient(2 * r, 4 * n + 5)
<1>1. PICK d \in Nat \ {0}, q \in Int : d = -(4 * n + 5) /\ q = (2 * r) \div d
  OBVIOUS
<1>2. r \in Nat
  BY RampAssumption
<1>3. q \in Nat /\ q * d <= 2 * r /\ 2 * r < q * d + d
  BY <1>1, <1>2, OneDivision
<1>4. Quotient(2 * r, 4 * n + 5) = -q
  BY <1>1 DEF Quotient
<1>5. CFAST < r \/ q >= 1
  <2>1. CASE d <= 2 * r
    <3>1. q # 0
      BY <1>1, <1>3, <2>1
    <3> QED BY <1>3, <3>1
  <2> QED BY <1>1, <2>1
<1> QED BY <1>2, <1>3, <1>4, <1>5, RampAssumption

(* The next period on the way up is a shorter one; the first two are not   *)
(* yet the shortest.                                                       *)
LEMMA SpeedsUp ==
  ASSUME NEW r \in Int, NEW n \in Nat, CFAST < r, 2 * n <= CFAST, Decline(r, n),
         n = 0 => r = CSLOW, n = 1 => 3 * CSLOW <= 5 * r,
         NEW s, s = r - Quotient(2 * r, 4 * n + 5)
  PROVE  /\ s \in Nat
         /\ n = 0 => 3 * CSLOW <= 5 * s
         /\ n \in {0, 1} => CFAST < s
         /\ CFAST < s => 2 * (n + 1) <= CFAST /\ Decline(s, n + 1)
<1>1. PICK d \in Nat \ {0}, q \in Int : d = 4 * n + 5 /\ q = (2 * r) \div d
  OBVIOUS
<1>2. r \in Nat
  BY RampAssumption
<1>3. q \in Nat /\ q * d <= 2 * r /\ 2 * r < q * d + d
  BY <1>1, <1>2, OneDivision
<1>4. s = r - q /\ s = r - (2 * r) \div (4 * n + 5)
  BY <1>1 DEF Quotient
<1>5. 5 * q <= 2 * r
  <2>1. 5 * q <= d * q
    BY <1>1, <1>3, Multiply
  <2> QED BY <1>1, <1>3, <2>1
<1>6. s \in Nat
  BY <1>2, <1>3, <1>4, <1>5
<1>7. n = 0 => 3 * CSLOW <= 5 * s
  BY <1>4, <1>5, RampAssumption, <1>3
<1>8. n \in {0, 1} => CFAST < s
  <2>1. CASE n = 0
    BY <1>3, <1>4, <1>5, <2>1, RampAssumption
  <2>2. CASE n = 1
    <3>1. q * 9 <= 2 * r
      BY <1>1, <1>3, <2>2
    <3> QED BY <1>3, <1>4, <2>2, <3>1, RampAssumption
  <2> QED BY <2>1, <2>2
<1>9. ASSUME CFAST < s PROVE 2 * (n + 1) <= CFAST /\ Decline(s, n + 1)
  <2>1. CFAST \in Nat
    BY RampAssumption
  <2>2. 2 * n <= r /\ 3 * s >= 2 * n + 3
    BY <1>2, <1>6, <1>9, <2>1
  <2>3. Decline(s, n + 1)
    BY <1>2, <1>4, <1>6, <2>2, DeclineKept
  <2>4. 2 * (n + 1) <= CFAST + 2 /\ n + 1 \in Nat
    BY <2>1
  <2> QED BY <1>6, <1>9, <2>3, <2>4, RampEnds
<1> QED BY <1>6, <1>7, <1>8, <1>9

LEMMA AtRest ==
  ASSUME RampTypes, Underway, MoveTo
  PROVE  RampTypes' /\ Underway' /\ Going'
<1>1. PICK target \in Int : target = IF outward THEN far ELSE 0
  BY DEF RampTypes
<1>2. /\ pos = (IF outward THEN 0 ELSE far) /\ motor = (IF outward THEN 0 ELSE far + Sign(far))
      /\ outward' = ~outward /\ running' /\ timer' /\ state' = "up"
      /\ move' = Distance(pos, target) /\ inc' = IF target < pos THEN -1 ELSE 1
      /\ midPt' = (move' - 1) \div 2
      /\ rate' = CSLOW /\ stepNo' = 0 /\ denom' = 1
      /\ UNCHANGED <<far, pos, stepDown, motor>>
  BY <1>1 DEF MoveTo, Underway
<1>3. far \in Int \ {0}
  BY DEF RampTypes
<1>4. move' = Distance(far, 0) /\ move' \in Nat \ {0}
  BY <1>1, <1>2, <1>3 DEF Distance
<1>5. inc' = (IF outward THEN Sign(far) ELSE -Sign(far)) /\ inc' \in {-1, 1}
  BY <1>1, <1>2, <1>3 DEF Sign
<1>6. midPt' \in Nat
  BY <1>2, <1>4
<1>7. RampTypes'
  BY <1>2, <1>4, <1>5, <1>6, RampAssumption DEF RampTypes, MoveTo
<1>8. pos = (IF outward' THEN far + inc' * 0 ELSE inc' * 0)
      /\ motor = (IF outward' THEN pos - inc' ELSE pos)
  <2>1. CASE outward
    <3>1. pos = 0 /\ motor = 0 /\ ~outward'
      BY <1>2, <2>1
    <3>2. inc' * 0 = 0
      BY <1>5
    <3> QED BY <3>1, <3>2
  <2>2. CASE ~outward
    <3>1. pos = far /\ motor = far + Sign(far) /\ outward' /\ inc' = -Sign(far)
      BY <1>2, <1>5, <2>2 DEF RampTypes
    <3>2. far + inc' * 0 = far /\ far - inc' = far + Sign(far)
      <4>1. Sign(far) \in Int
        BY DEF Sign
      <4> QED BY <1>3, <3>1, <4>1
    <3> QED BY <3>1, <3>2
  <2> QED BY <2>1, <2>2
<1>9. Underway'
  BY <1>2, <1>4, <1>5, <1>8 DEF Underway, Sign, RampTypes
<1>10. Decline(CSLOW, 0)
  BY DeclineStarts
<1>11. CFAST < CSLOW /\ 2 * 0 <= CFAST
  BY RampAssumption
<1>12. Decline(rate, stepNo)'
  BY <1>2, <1>10 DEF Decline
<1> QED BY <1>2, <1>6, <1>7, <1>9, <1>11, <1>12 DEF Going

(* A step takes position, motor and count along.                           *)
LEMMA StepTaken ==
  ASSUME RampTypes, Underway, running, Step, outward' = outward
  PROVE  /\ stepNo' = stepNo + 1
         /\ UNCHANGED <<far, outward, running, inc, move, midPt, timer>>
         /\ pos' \in Int /\ motor' \in Int /\ Underway'
<1>1. /\ motor' = motor + inc /\ pos' = pos + inc /\ stepNo' = stepNo + 1
      /\ UNCHANGED <<far, outward, running, inc, move, midPt, timer>>
  BY DEF Step
<1>2. inc \in {-1, 1} /\ far \in Int /\ stepNo \in Int /\ pos \in Int /\ motor \in Int
  BY DEF RampTypes, Underway, Sign
<1>3. inc * (stepNo + 1) = inc * stepNo + inc /\ inc * stepNo \in Int
  BY <1>2
<1>4. /\ ~outward => pos' = inc * (stepNo + 1) /\ motor' = pos'
      /\ outward => pos' = far + inc * (stepNo + 1) /\ motor' = pos' - inc
  BY <1>1, <1>2, <1>3 DEF Underway
<1> QED BY <1>1, <1>2, <1>4 DEF Underway, Sign

(* The interrupt's next period, going up and going down.                   *)
LEMMA RateUp ==
  ASSUME RampTypes, Underway, running, Going, RampUp
  PROVE  Going' /\ rate' \in Int /\ stepDown' \in Int /\ denom' \in Int
<1>1. /\ state = "up" /\ stepNo # midPt /\ Step /\ NextRate("up", denom)
      /\ stepNo' = stepNo + 1 /\ move' = move /\ midPt' = midPt
  BY DEF RampUp, Step
<1>2. /\ 0 <= stepNo /\ stepNo < midPt /\ denom = 4 * stepNo + 1
      /\ CFAST < rate /\ 2 * stepNo <= CFAST /\ Decline(rate, stepNo)
      /\ stepNo = 0 => rate = CSLOW
      /\ stepNo = 1 => 3 * CSLOW <= 5 * rate
      /\ stepNo \in Nat /\ rate \in Int /\ move \in Int /\ midPt \in Int
  BY <1>1 DEF Going, RampTypes
<1>3. 2 * midPt <= move - 1 /\ stepNo + 2 <= move
  <2>1. midPt = (move - 1) \div 2
    BY DEF Underway
  <2> QED BY <1>2, <2>1
<1>4. PICK s : s = rate - Quotient(2 * rate, denom + 4)
  OBVIOUS
<1>5. denom + 4 = 4 * stepNo + 5
  BY <1>2
<1>6. /\ s \in Nat
      /\ stepNo = 0 => 3 * CSLOW <= 5 * s
      /\ stepNo \in {0, 1} => CFAST < s
      /\ CFAST < s => 2 * (stepNo + 1) <= CFAST /\ Decline(s, stepNo + 1)
  <2>1. s = rate - Quotient(2 * rate, 4 * stepNo + 5)
    BY <1>4, <1>5
  <2> QED BY <1>2, <2>1, SpeedsUp
<1>7. /\ denom' = denom + 4
      /\ state' = IF s <= CFAST THEN "max" ELSE "up"
      /\ rate' = IF s <= CFAST THEN CFAST ELSE s
      /\ stepDown' = IF s <= CFAST THEN move - stepNo ELSE stepDown
  <2>1. ~OneLeft
    BY <1>2, <1>3 DEF OneLeft
  <2> QED BY <1>1, <1>4, <2>1 DEF NextRate
<1>8. CFAST \in Nat
  BY RampAssumption
<1>9. CASE CFAST < s
  <2>1. state' = "up" /\ rate' = s
    BY <1>6, <1>7, <1>8, <1>9
  <2>2. Decline(rate, stepNo)'
    BY <1>1, <1>6, <1>9, <2>1 DEF Decline
  <2>3. rate' \in Int /\ stepDown' \in Int /\ denom' \in Int
    BY <1>2, <1>6, <1>7, <2>1 DEF RampTypes
  <2>4. /\ 0 <= stepNo' /\ stepNo' <= midPt' /\ denom' = 4 * stepNo' + 1
        /\ CFAST < rate' /\ 2 * stepNo' <= CFAST
        /\ stepNo' # 0 /\ (stepNo' = 1 => 3 * CSLOW <= 5 * rate')
    BY <1>1, <1>2, <1>6, <1>7, <1>9, <2>1
  <2> QED BY <2>1, <2>2, <2>3, <2>4 DEF Going
<1>10. CASE s <= CFAST
  <2>1. state' = "max" /\ rate' = CFAST /\ stepDown' = move - stepNo /\ denom' = denom + 4
    BY <1>7, <1>10
  <2>2. 2 <= stepNo
    BY <1>2, <1>6, <1>8, <1>10
  <2>3. /\ stepNo' <= stepDown' /\ stepDown' + 2 <= move' /\ stepNo' < move'
        /\ 4 * (move' - stepDown') - 9 <= 2 * CFAST
    BY <1>1, <1>2, <1>3, <1>8, <2>1, <2>2
  <2>4. denom' % 4 = 1 /\ denom' \in Int
    <3>1. denom' = 4 * (stepNo + 1) + 1
      BY <1>2, <2>1
    <3> QED BY <1>2, <3>1, Z3
  <2>5. rate' \in Int /\ stepDown' \in Int
    BY <1>2, <1>8, <2>1
  <2> QED BY <2>1, <2>3, <2>4, <2>5 DEF Going
<1> QED BY <1>6, <1>8, <1>9, <1>10

LEMMA RateDown ==
  ASSUME RampTypes, running, Step, NEW den \in Int, NextRate("down", den),
         den + 4 = 4 * (stepNo - move) + 5, CFAST <= rate, stepNo < move,
         CFAST < rate \/ 4 * (move - stepNo) - 5 <= 2 * rate
  PROVE  Going' /\ rate' \in Int /\ stepDown' \in Int /\ denom' \in Int
<1>1. stepNo' = stepNo + 1 /\ move' = move
  BY DEF Step
<1>2. stepNo \in Int /\ rate \in Int /\ move \in Int /\ stepDown \in Int
  BY DEF RampTypes
<1>3. CASE OneLeft
  <2>1. state' = "last" /\ denom' = den /\ rate' = rate /\ stepDown' = stepDown
    BY <1>3 DEF NextRate
  <2> QED BY <1>1, <1>2, <1>3, <2>1 DEF Going, OneLeft
<1>4. CASE ~OneLeft
  <2>1. PICK n \in Int : n = stepNo - move
    BY <1>2
  <2>2. n <= -2 /\ (CFAST < rate \/ -(4 * n) - 5 <= 2 * rate)
    BY <1>2, <1>4, <2>1 DEF OneLeft
  <2>3. PICK s : s = rate - Quotient(2 * rate, den + 4)
    OBVIOUS
  <2>4. s \in Int /\ CFAST < s
    <3>1. s = rate - Quotient(2 * rate, 4 * n + 5)
      BY <2>1, <2>3
    <3> QED BY <1>2, <2>2, <3>1, SlowsDown
  <2>5. CFAST \in Nat
    BY RampAssumption
  <2>6. state' = "down" /\ rate' = s /\ denom' = den + 4 /\ stepDown' = stepDown
    <3>1. ~(s <= CFAST)
      BY <2>4, <2>5
    <3>2. /\ denom' = den + 4
          /\ state' = IF s <= CFAST THEN "max" ELSE "down"
          /\ rate' = IF s <= CFAST THEN CFAST ELSE s
          /\ stepDown' = IF s <= CFAST THEN move - stepNo ELSE stepDown
      BY <1>4, <2>3 DEF NextRate
    <3> QED BY <3>1, <3>2
  <2>7. /\ stepNo' < move' /\ denom' = 4 * (stepNo' - move') + 1 /\ CFAST <= rate'
        /\ CFAST < rate' /\ denom' \in Int
    BY <1>1, <1>2, <2>1, <2>2, <2>4, <2>5, <2>6
  <2> QED BY <1>2, <2>4, <2>6, <2>7 DEF Going
<1> QED BY <1>3, <1>4

LEMMA RampKept == RampInv /\ [RampNext]_rampVars => RampInv'
<1> SUFFICES ASSUME RampInv, [RampNext]_rampVars PROVE RampInv'
  OBVIOUS
<1>1. RampTypes /\ Underway /\ (running => Going) /\ CFAST \in Nat
  BY RampAssumption DEF RampInv
<1>2. CASE MoveTo
  BY <1>1, <1>2, AtRest DEF RampInv
<1>3. ASSUME running, Step, Going', rate' \in Int, stepDown' \in Int, denom' \in Int
      PROVE  RampInv'
  <2>1. /\ stepNo' = stepNo + 1
        /\ UNCHANGED <<far, outward, running, inc, move, midPt, timer>>
        /\ pos' \in Int /\ motor' \in Int /\ Underway'
    BY <1>1, <1>3, StepTaken DEF Step
  <2>2. RampTypes'
    BY <1>1, <1>3, <2>1 DEF RampTypes
  <2> QED BY <1>3, <2>1, <2>2 DEF RampInv
<1>4. timer => running
  BY <1>1 DEF Underway
<1>5. CASE RampUp
  <2>1. running /\ Step
    BY <1>4, <1>5 DEF RampUp, Step
  <2>2. Going' /\ rate' \in Int /\ stepDown' \in Int /\ denom' \in Int
    BY <1>1, <1>5, <2>1, RateUp
  <2> QED BY <1>3, <2>1, <2>2
<1>6. ASSUME state = "up", stepNo = midPt, running
      PROVE  /\ stepNo \in Nat /\ move \in Nat \ {0} /\ stepNo = (move - 1) \div 2
             /\ CFAST < rate /\ rate \in Int
  <2>1. stepNo >= 0 /\ CFAST < rate
    BY <1>1, <1>6 DEF Going
  <2>2. move \in Nat \ {0} /\ midPt = (move - 1) \div 2
    BY <1>1, <1>6 DEF Underway, Distance, RampTypes
  <2> QED BY <1>1, <1>6, <2>1, <2>2 DEF RampTypes
<1>7. CASE TurnEven
  <2>1. running /\ Step /\ state = "up" /\ stepNo = midPt /\ move % 2 = 0
    BY <1>4, <1>7 DEF TurnEven, Step
  <2>2. /\ stepNo' = stepNo + 1 /\ move' = move /\ state' = "down"
        /\ denom' = 4 * (stepNo - move) + 5 /\ rate' = rate /\ stepDown' = stepDown
    <3>1. 4 * (stepNo - move) + 1 + 4 = 4 * (stepNo - move) + 5
      BY <1>1 DEF RampTypes
    <3> QED BY <1>7, <2>1, <3>1 DEF TurnEven, TurnDenom, Step
  <2>3. /\ stepNo \in Nat /\ move \in Nat \ {0} /\ stepNo = (move - 1) \div 2
        /\ CFAST < rate /\ rate \in Int
    BY <1>6, <2>1
  <2>4. stepNo + 1 < move
    BY <2>1, <2>3
  <2>5. Going' /\ denom' \in Int
    BY <1>1, <2>2, <2>3, <2>4 DEF Going
  <2> QED BY <1>1, <1>3, <2>1, <2>2, <2>5 DEF RampTypes
<1>8. CASE TurnOdd
  <2>1. running /\ Step /\ state = "up" /\ stepNo = midPt /\ NextRate("down", TurnDenom(1))
    BY <1>4, <1>8 DEF TurnOdd, Step
  <2>2. /\ stepNo \in Nat /\ move \in Nat \ {0} /\ stepNo = (move - 1) \div 2
        /\ CFAST < rate /\ rate \in Int
    BY <1>6, <2>1
  <2>3. stepNo < move /\ CFAST <= rate
    BY <1>1, <2>2
  <2>4. PICK den \in Int : den = TurnDenom(1) /\ den + 4 = 4 * (stepNo - move) + 5
    BY <2>2 DEF TurnDenom
  <2>5. Going' /\ rate' \in Int /\ stepDown' \in Int /\ denom' \in Int
    BY <1>1, <2>1, <2>2, <2>3, <2>4, RateDown
  <2> QED BY <1>3, <2>1, <2>5
<1>9. CASE RampMax
  <2>1. /\ running /\ Step /\ state = "max" /\ rate' = rate /\ stepDown' = stepDown
        /\ IF stepNo = stepDown
           THEN state' = "down" /\ denom' = TurnDenom(5)
           ELSE UNCHANGED <<state, denom>>
    BY <1>4, <1>9 DEF RampMax, Step
  <2>2. /\ rate = CFAST /\ stepNo <= stepDown /\ denom % 4 = 1
        /\ stepDown + 2 <= move /\ 4 * (move - stepDown) - 9 <= 2 * CFAST
        /\ stepNo \in Int /\ stepDown \in Int /\ move \in Int /\ denom \in Int
    BY <1>1, <2>1 DEF Going, RampTypes
  <2>3. stepNo' = stepNo + 1 /\ move' = move
    BY <2>1 DEF Step
  <2>4. CASE stepNo = stepDown
    <3>1. state' = "down" /\ denom' = 4 * (stepNo - move) + 5
      BY <2>1, <2>4 DEF TurnDenom
    <3>2. /\ stepNo' < move' /\ denom' = 4 * (stepNo' - move') + 1
          /\ 4 * (move' - stepNo') - 5 <= 2 * rate' /\ CFAST <= rate' /\ denom' \in Int
      BY <1>1, <2>1, <2>2, <2>3, <2>4, <3>1
    <3>3. Going'
      BY <3>1, <3>2 DEF Going
    <3> QED BY <1>1, <1>3, <2>1, <2>2, <3>2, <3>3
  <2>5. CASE stepNo # stepDown
    <3>1. /\ state' = "max" /\ rate' = CFAST /\ stepNo' <= stepDown' /\ denom' % 4 = 1
          /\ stepDown' + 2 <= move' /\ 4 * (move' - stepDown') - 9 <= 2 * CFAST
          /\ stepNo' < move' /\ denom' = denom
      BY <2>1, <2>2, <2>3, <2>5
    <3>2. Going'
      BY <3>1 DEF Going
    <3> QED BY <1>1, <1>3, <2>1, <2>2, <3>1, <3>2
  <2> QED BY <2>4, <2>5
<1>10. CASE RampDown
  <2>1. running /\ Step /\ state = "down" /\ NextRate("down", denom)
    BY <1>4, <1>10 DEF RampDown, Step
  <2>2. /\ stepNo < move /\ denom = 4 * (stepNo - move) + 1
        /\ CFAST <= rate /\ (CFAST < rate \/ 4 * (move - stepNo) - 5 <= 2 * rate)
    BY <1>1, <2>1 DEF Going
  <2>3. denom \in Int /\ denom + 4 = 4 * (stepNo - move) + 5
    BY <1>1, <2>2 DEF RampTypes
  <2>4. Going' /\ rate' \in Int /\ stepDown' \in Int /\ denom' \in Int
    BY <1>1, <2>1, <2>2, <2>3, RateDown
  <2> QED BY <1>3, <2>1, <2>4
<1>11. CASE RampLast
  <2>1. /\ state = "last" /\ timer /\ running
        /\ state' = "idle" /\ timer' = FALSE /\ running' = FALSE /\ motor' = motor + inc
        /\ UNCHANGED <<far, outward, pos, inc, rate, stepNo, stepDown, move, midPt, denom>>
    BY <1>4, <1>11 DEF RampLast
  <2>2. stepNo = move /\ move = Distance(far, 0)
    BY <1>1, <2>1 DEF Going, Underway
  <2>3. far \in Int \ {0} /\ inc \in {-1, 1} /\ motor \in Int
    BY <1>1, <2>1 DEF RampTypes, Underway, Sign
  <2>4. Sign(far) * move = far /\ -Sign(far) * move = -far
    BY <2>2, <2>3 DEF Sign, Distance
  <2>5. /\ pos = IF outward THEN 0 ELSE far
        /\ motor + inc = IF outward THEN 0 ELSE far + Sign(far)
    <3>1. CASE outward
      <4>1. inc = -Sign(far) /\ pos = far + inc * move /\ motor = pos - inc
        BY <1>1, <2>1, <2>2, <3>1 DEF Underway
      <4>2. inc * move = -far
        BY <2>2, <2>3, <4>1 DEF Sign, Distance
      <4> QED BY <2>3, <3>1, <4>1, <4>2
    <3>2. CASE ~outward
      <4>1. inc = Sign(far) /\ pos = inc * move /\ motor = pos
        BY <1>1, <2>1, <2>2, <3>2 DEF Underway
      <4>2. pos = far /\ motor = far
        BY <2>4, <4>1
      <4> QED BY <3>2, <4>1, <4>2
    <3> QED BY <3>1, <3>2
  <2>6. Underway'
    BY <2>1, <2>5 DEF Underway, Sign
  <2>7. RampTypes'
    <3>1. motor' \in Int
      BY <2>1, <2>3
    <3>2. running' \in BOOLEAN /\ timer' \in BOOLEAN
      BY <2>1
    <3> QED BY <1>1, <2>1, <3>1, <3>2 DEF RampTypes
  <2> QED BY <2>1, <2>6, <2>7 DEF RampInv
<1>12. CASE UNCHANGED rampVars
  BY <1>1, <1>12
     DEF rampVars, RampInv, RampTypes, Underway, Going, Sign, Distance, Decline
<1> QED BY <1>2, <1>5, <1>7, <1>8, <1>9, <1>10, <1>11, <1>12 DEF RampNext

LEMMA RampInvHolds == RampInit /\ [][RampNext]_rampVars => []RampInv
<1>1. RampInit => RampInv
  <2> SUFFICES ASSUME RampInit PROVE RampInv
    OBVIOUS
  <2>1. far \in Int \ {0}
    BY RampAssumption DEF RampInit
  <2>2. RampTypes
    <3>1. outward \in BOOLEAN /\ running \in BOOLEAN /\ timer \in BOOLEAN
      BY DEF RampInit
    <3> QED BY <2>1, <3>1 DEF RampInit, RampTypes
  <2>3. Underway
    <3>1. outward /\ ~running /\ ~timer /\ state = "idle" /\ pos = 0 /\ motor = 0
      BY DEF RampInit
    <3> QED BY <3>1 DEF Underway
  <2> QED BY <2>2, <2>3 DEF RampInit, RampInv
<1> QED BY <1>1, RampKept, PTL

(* A move of any length, with any ramp that is short enough, ends at the   *)
(* position main asked for with the timer off: neither the middle nor the  *)
(* end of the ramp is missed, and the way down is never taken for a way up *)
(* that has reached full speed.                                            *)
THEOREM ArrivesHolds == RampInit /\ [][RampNext]_rampVars => []Arrives
<1>1. RampInv => Arrives
  <2> SUFFICES ASSUME RampInv PROVE Arrives
    OBVIOUS
  <2>1. running => stepNo <= move
    <3>1. ASSUME running, state = "up" PROVE stepNo <= move
      <4>1. stepNo <= midPt /\ stepNo \in Int /\ stepNo >= 0
        BY <3>1 DEF RampInv, Going, RampTypes
      <4>2. midPt = (move - 1) \div 2 /\ move \in Nat
        BY <3>1 DEF RampInv, Underway, RampTypes, Distance
      <4> QED BY <4>1, <4>2
    <3> QED BY <3>1 DEF RampInv, RampTypes, Going
  <2>2. far # 0
    BY DEF RampInv, RampTypes
  <2> QED BY <2>1, <2>2 DEF RampInv, Underway, Arrives
<1> QED BY <1>1, RampInvHolds, PTL

---------------------------------------------------------------------------------
(***************************************************************************)
(* How slowly a ramp ends.  The way down has the divisors of the way up in *)
(* the reverse order, and undoes it but for rounding, which only makes it  *)
(* slower (PacedReturns); so the later a move turns, the slower it ends.   *)
(***************************************************************************)

\* What the interrupt makes of a period: rate -= (rate << 1) / denom.
Paced(r, den) == r - Quotient(2 * r, den)

\* For its induction over the naturals; nothing is folded here.
Numbers == INSTANCE FoldFacts WITH Op <- Paced

\* The periods of a way up of n steps, u[k] after k of them.
GoesUp(u, n) ==
  /\ u[0] = CSLOW
  /\ \A k \in 0..n : u[k] \in Nat /\ CFAST < u[k] /\ u[k] <= CSLOW
  /\ \A k \in 0..(n - 1) : u[k + 1] = Paced(u[k], 4 * k + 5)
\* One more step is full speed.
TopSpeed(u, n) == GoesUp(u, n) /\ Paced(u[n], 4 * n + 5) <= CFAST

\* The periods of a way down from r, v[j] with j steps to go.
GoesDown(v, r, n) ==
  /\ v[n] = r
  /\ \A j \in 0..n : v[j] \in Nat /\ r <= v[j]
  /\ \A j \in 0..(n - 1) : v[j] = Paced(v[j + 1], -4 * j - 3)


(* A division of more is no less.                                          *)
LEMMA DivisionKeepsOrder ==
  ASSUME NEW a \in Nat, NEW b \in Nat, a <= b, NEW d \in Nat \ {0}
  PROVE  (2 * a) \div d <= (2 * b) \div d
<1>1. PICK q, p : q = (2 * a) \div d /\ p = (2 * b) \div d
  OBVIOUS
<1>2. q \in Nat /\ q * d <= 2 * a /\ p \in Nat /\ 2 * b < p * d + d
  BY <1>1, OneDivision
<1>3. SUFFICES ASSUME p + 1 <= q PROVE FALSE
  BY <1>1, <1>2
<1>4. (p + 1) * d <= q * d
  BY <1>2, <1>3, Multiply
<1>5. (p + 1) * d = p * d + d
  BY <1>2
<1> QED BY <1>2, <1>4, <1>5

(* A period gets shorter on the way up and longer on the way down.         *)
LEMMA PacedUp ==
  ASSUME NEW r \in Nat, NEW k \in Nat
  PROVE  /\ Paced(r, 4 * k + 5) = r - (2 * r) \div (4 * k + 5)
         /\ Paced(r, 4 * k + 5) \in Nat /\ Paced(r, 4 * k + 5) <= r
<1>1. PICK d \in Nat \ {0}, q \in Int : d = 4 * k + 5 /\ q = (2 * r) \div d
  OBVIOUS
<1>2. q \in Nat /\ q * d <= 2 * r
  BY <1>1, OneDivision
<1>3. 2 * q <= q * d
  <2>1. 2 * q <= d * q
    BY <1>1, <1>2, Multiply
  <2> QED BY <1>2, <2>1
<1>4. Paced(r, 4 * k + 5) = r - q
  BY <1>1 DEF Paced, Quotient
<1> QED BY <1>1, <1>2, <1>3, <1>4

LEMMA PacedDown ==
  ASSUME NEW r \in Nat, NEW j \in Nat
  PROVE  /\ Paced(r, -4 * j - 3) = r + (2 * r) \div (4 * j + 3)
         /\ Paced(r, -4 * j - 3) \in Nat /\ r <= Paced(r, -4 * j - 3)
<1>1. PICK d \in Nat \ {0}, q \in Int : d = 4 * j + 3 /\ q = (2 * r) \div d
  OBVIOUS
<1>2. q \in Nat
  BY <1>1, OneDivision
<1>3. -4 * j - 3 = -d /\ ~(-d > 0) /\ -(-d) = d
  BY <1>1
<1>4. Paced(r, -d) = r + q
  BY <1>1, <1>2, <1>3 DEF Paced, Quotient
<1> QED BY <1>1, <1>2, <1>3, <1>4

LEMMA PacedKeepsOrder ==
  ASSUME NEW a \in Nat, NEW b \in Nat, a <= b, NEW j \in Nat
  PROVE  Paced(a, -4 * j - 3) <= Paced(b, -4 * j - 3)
<1>1. PICK p, q : p = (2 * a) \div (4 * j + 3) /\ q = (2 * b) \div (4 * j + 3)
  OBVIOUS
<1>2. p \in Nat /\ q \in Nat /\ p <= q
  BY <1>1, OneDivision, DivisionKeepsOrder
<1> QED BY <1>1, <1>2, PacedDown

(* The step down undoes the step up, but for a rounding that makes it      *)
(* slower: both divisions have the same quotient, or the second one more.  *)
LEMMA PacedReturns ==
  ASSUME NEW r \in Nat, NEW k \in Nat
  PROVE  r <= Paced(Paced(r, 4 * k + 5), -4 * k - 3)
<1>1. PICK d \in Nat \ {0}, q \in Int : d = 4 * k + 5 /\ q = (2 * r) \div d
  OBVIOUS
<1>2. q \in Nat /\ q * d <= 2 * r
  BY <1>1, OneDivision
<1>3. PICK s \in Nat : s = Paced(r, 4 * k + 5) /\ s = r - q
  BY <1>1, PacedUp
<1>4. PICK p : p = (2 * s) \div (4 * k + 3)
  OBVIOUS
<1>5. p \in Nat /\ 2 * s < p * (4 * k + 3) + (4 * k + 3)
  BY <1>4, OneDivision
<1>6. PICK e \in Nat \ {0} : e = 4 * k + 3 /\ d = e + 2
  BY <1>1
<1>7. q <= p
  <2> SUFFICES ASSUME p + 1 <= q PROVE FALSE
    BY <1>2, <1>5
  <2>1. (p + 1) * e <= q * e
    BY <1>2, <1>5, Multiply
  <2>2. q * d = q * e + 2 * q /\ (p + 1) * e = p * e + e
    BY <1>2, <1>5, <1>6
  <2>3. PICK x \in Int, y \in Int : x = q * e /\ y = p * e
    BY <1>2, <1>5, <1>6
  <2>4. y + e <= x /\ x + 2 * q <= 2 * r /\ 2 * s < y + e
    BY <1>2, <1>5, <1>6, <2>1, <2>2, <2>3
  <2> QED BY <1>2, <1>3, <2>3, <2>4
<1>8. Paced(s, -4 * k - 3) = s + p
  BY <1>4, PacedDown
<1> QED BY <1>2, <1>3, <1>5, <1>7, <1>8

(* A way down from any period.                                             *)
LEMMA DownExists ==
  ASSUME NEW r \in Nat, NEW n \in Nat
  PROVE  \E v : GoesDown(v, r, n)
<1> DEFINE From(i, v) == /\ v[n] = r /\ \A j \in (n - i)..n : v[j] \in Nat /\ v[j] >= r
                         /\ \A j \in (n - i)..(n - 1) : v[j] = Paced(v[j + 1], -4 * j - 3)
           T == {i \in Nat : i <= n => \E v : From(i, v)}
<1>1. 0 \in T
  <2>1. From(0, [j \in {n} |-> r])
    OBVIOUS
  <2> QED BY <2>1
<1>2. ASSUME NEW i \in Nat, i \in T PROVE i + 1 \in T
  <2> SUFFICES ASSUME i + 1 <= n PROVE \E v : From(i + 1, v)
    OBVIOUS
  <2>1. PICK v : From(i, v)
    BY <1>2
  <2>2. PICK m \in Nat : m = n - (i + 1)
    OBVIOUS
  <2> DEFINE w == [j \in m..n |-> IF j = m THEN Paced(v[m + 1], -4 * m - 3) ELSE v[j]]
  <2>3. v[m + 1] \in Nat /\ v[m + 1] >= r
    BY <2>1, <2>2
  <2>4. w[m] \in Nat /\ w[m] >= r
    <3>1. PICK x \in Nat : x = v[m + 1] /\ x >= r
      BY <2>3
    <3>2. m \in m..n
      BY <2>2
    <3>3. w[m] = Paced(v[m + 1], -4 * m - 3)
      BY <3>2, Zenon
    <3>4. Paced(x, -4 * m - 3) \in Nat /\ x <= Paced(x, -4 * m - 3)
      BY <2>2, <3>1, PacedDown, Zenon
    <3> HIDE DEF w
    <3> QED BY <3>1, <3>3, <3>4
  <2>5. \A j \in (m + 1)..n : w[j] = v[j] /\ v[j] \in Nat /\ v[j] >= r
    BY <2>1, <2>2
  <2>6. w[n] = r
    BY <2>1, <2>2
  <2>7. w[m] = Paced(w[m + 1], -4 * m - 3)
    BY <2>2
  <2>8. \A j \in (m + 1)..(n - 1) : w[j] = Paced(w[j + 1], -4 * j - 3)
    BY <2>1, <2>2
  <2> HIDE DEF w
  <2>9. From(i + 1, w)
    <3>1. \A j \in m..n : j = m \/ j \in (m + 1)..n
      BY <2>2
    <3>2. \A j \in m..(n - 1) : j = m \/ j \in (m + 1)..(n - 1)
      BY <2>2
    <3> QED BY <2>2, <2>4, <2>5, <2>6, <2>7, <2>8, <3>1, <3>2
  <2> QED BY <2>9
<1> HIDE DEF T
<1>3. n \in T
  BY <1>1, <1>2, Numbers!Induction
<1>4. PICK v : From(n, v)
  BY <1>3 DEF T
<1>5. n - n = 0
  OBVIOUS
<1> QED BY <1>4, <1>5 DEF GoesDown

(* A way up ends, after more than two steps.                               *)
LEMMA TopExists == \E top \in Nat : \E u : 2 <= top /\ TopSpeed(u, top)
<1> DEFINE Goes(u, n) == /\ GoesUp(u, n) /\ 2 * n <= CFAST /\ Decline(u[n], n)
                         /\ n = 1 => 3 * CSLOW <= 5 * u[n]
           T == {n \in Nat : \E u : Goes(u, n)}
<1>1. CFAST \in Nat \ {0} /\ CSLOW \in Nat /\ CFAST < CSLOW
  BY RampAssumption
<1>2. 0 \in T
  <2> DEFINE u == [k \in {0} |-> CSLOW]
  <2>1. u[0] = CSLOW
    OBVIOUS
  <2> HIDE DEF u
  <2>2. \A k \in 0..0 : k = 0
    OBVIOUS
  <2>3. GoesUp(u, 0)
    BY <1>1, <2>1, <2>2 DEF GoesUp
  <2>4. Goes(u, 0)
    BY <1>1, <2>1, <2>3, DeclineStarts
  <2> QED BY <2>4
<1>3. PICK n \in T : n + 1 \notin T
  <2> SUFFICES ASSUME \A n \in T : n + 1 \in T PROVE FALSE
    OBVIOUS
  <2>1. CFAST \notin T
    BY <1>1
  <2> HIDE DEF T
  <2> QED BY <1>1, <1>2, <2>1, Numbers!Induction
<1>4. PICK u : Goes(u, n)
  OBVIOUS
<1>5. n \in Nat
  OBVIOUS
<1>6. PICK r \in Nat : r = u[n] /\ CFAST < r /\ r <= CSLOW /\ (n = 0 => r = CSLOW)
  BY <1>4, <1>5 DEF GoesUp
<1>7. PICK s \in Nat : s = Paced(r, 4 * n + 5) /\ s <= r
  BY <1>5, PacedUp
<1>8. /\ n \in {0, 1} => CFAST < s
      /\ n = 0 => 3 * CSLOW <= 5 * s
      /\ CFAST < s => 2 * (n + 1) <= CFAST /\ Decline(s, n + 1)
  BY <1>4, <1>5, <1>6, <1>7, SpeedsUp DEF Paced
<1>9. s <= CFAST
  <2> SUFFICES ASSUME CFAST < s PROVE FALSE
    BY <1>1, <1>7
  <2> DEFINE w == [k \in 0..(n + 1) |-> IF k = n + 1 THEN s ELSE u[k]]
  <2>1. w[n + 1] = s /\ \A k \in 0..n : w[k] = u[k]
    BY <1>5
  <2> HIDE DEF w
  <2>2. \A k \in 0..(n + 1) : k = n + 1 \/ k \in 0..n
    BY <1>5
  <2>3. GoesUp(w, n + 1)
    <3>1. w[0] = CSLOW
      BY <1>4, <1>5, <2>1 DEF GoesUp
    <3>2. \A k \in 0..(n + 1) : w[k] \in Nat /\ CFAST < w[k] /\ w[k] <= CSLOW
      BY <1>4, <1>1, <1>6, <1>7, <2>1, <2>2 DEF GoesUp
    <3>3. ASSUME NEW k \in 0..((n + 1) - 1) PROVE w[k + 1] = Paced(w[k], 4 * k + 5)
      <4>1. CASE k = n
        BY <1>5, <1>6, <1>7, <2>1, <4>1
      <4>2. CASE k # n
        <5>1. k \in 0..(n - 1) /\ k \in 0..n /\ k + 1 \in 0..n
          BY <1>5, <4>2
        <5> QED BY <1>4, <2>1, <5>1 DEF GoesUp
      <4> QED BY <4>1, <4>2
    <3> QED BY <3>1, <3>2, <3>3 DEF GoesUp
  <2>4. Goes(w, n + 1)
    BY <1>5, <1>8, <2>1, <2>3
  <2>5. n + 1 \in Nat
    BY <1>5
  <2> QED BY <1>3, <2>4, <2>5
<1>10. TopSpeed(u, n)
  BY <1>4, <1>6, <1>7, <1>9 DEF TopSpeed
<1>11. 2 <= n
  BY <1>1, <1>5, <1>8, <1>9, <1>7
<1> HIDE DEF T
<1> QED BY <1>5, <1>10, <1>11

\* The two ways that decide all others: up to the last period above CFAST and
\* back, and down from CFAST two steps below the top.
Deciding(top, u, v, w) ==
  /\ top \in Nat /\ 2 <= top /\ TopSpeed(u, top)
  /\ GoesDown(v, u[top], top) /\ GoesDown(w, CFAST, top - 2)

(* Back at a step, no way down that did not reach full speed is ahead of   *)
(* the way up, or behind the way down from the top.                        *)
LEMMA Envelope ==
  ASSUME NEW top, NEW u, NEW v, NEW w, Deciding(top, u, v, w)
  PROVE  \A j \in 0..top : u[j] <= v[j]
<1>1. top \in Nat /\ GoesUp(u, top) /\ GoesDown(v, u[top], top)
  BY DEF Deciding, TopSpeed
<1> DEFINE T == {i \in Nat : i <= top => u[top - i] <= v[top - i]}
<1>2. 0 \in T
  <2>1. u[top] \in Nat /\ v[top] = u[top] /\ top - 0 = top
    BY <1>1 DEF GoesUp, GoesDown
  <2> QED BY <2>1
<1>3. ASSUME NEW i \in Nat, i \in T PROVE i + 1 \in T
  <2> SUFFICES ASSUME i + 1 <= top PROVE u[top - (i + 1)] <= v[top - (i + 1)]
    OBVIOUS
  <2>1. PICK j \in 0..(top - 1) : j = top - (i + 1) /\ top - i = j + 1
    BY <1>1
  <2>2. PICK a \in Nat, b \in Nat, c \in Nat : a = u[j] /\ b = u[j + 1] /\ c = v[j + 1]
    <3>1. j \in 0..top /\ j + 1 \in 0..top
      BY <1>1
    <3>2. u[j] \in Nat /\ u[j + 1] \in Nat /\ v[j + 1] \in Nat
      BY <1>1, <3>1 DEF GoesUp, GoesDown
    <3> QED BY <3>2
  <2>3. b <= c
    BY <1>1, <1>3, <2>1, <2>2
  <2>4. b = Paced(a, 4 * j + 5) /\ v[j] = Paced(c, -4 * j - 3)
    BY <1>1, <2>2 DEF GoesUp, GoesDown
  <2>5. j \in Nat
    BY <2>1
  <2>6. /\ a <= Paced(b, -4 * j - 3) /\ Paced(b, -4 * j - 3) <= Paced(c, -4 * j - 3)
        /\ Paced(b, -4 * j - 3) \in Nat /\ Paced(c, -4 * j - 3) \in Nat
    BY <2>2, <2>3, <2>4, <2>5, PacedReturns, PacedKeepsOrder, PacedDown
  <2>7. a <= Paced(c, -4 * j - 3)
    BY <2>2, <2>6
  <2> QED BY <2>1, <2>2, <2>4, <2>7
<1> HIDE DEF T
<1>4. Nat \subseteq T
  BY <1>2, <1>3, Numbers!Induction
<1>5. ASSUME NEW j \in 0..top PROVE u[j] <= v[j]
  <2>1. top - j \in Nat /\ top - j <= top /\ top - (top - j) = j
    BY <1>1
  <2>2. top - j \in T
    BY <1>4, <2>1
  <2> QED BY <2>1, <2>2 DEF T
<1> QED BY <1>5

(* The last period of a way down is the longest.                           *)
LEMMA LastIsLongest ==
  ASSUME NEW v, NEW r, NEW n \in Nat, GoesDown(v, r, n)
  PROVE  \A j \in 0..n : v[j] <= v[0]
<1> DEFINE T == {j \in Nat : j <= n => v[j] <= v[0]}
<1>1. 0 \in T
  BY DEF GoesDown
<1>2. ASSUME NEW j \in Nat, j \in T PROVE j + 1 \in T
  <2> SUFFICES ASSUME j + 1 <= n PROVE v[j + 1] <= v[0]
    OBVIOUS
  <2>1. j \in 0..(n - 1) /\ j \in 0..n /\ j + 1 \in 0..n /\ 0 \in 0..n
    OBVIOUS
  <2>2. PICK a \in Nat, b \in Nat, c \in Nat : a = v[j + 1] /\ b = v[j] /\ c = v[0]
    BY <2>1 DEF GoesDown
  <2>3. b = Paced(a, -4 * j - 3) /\ b <= c
    BY <1>2, <2>1, <2>2 DEF GoesDown
  <2>4. a <= b
    BY <2>2, <2>3, PacedDown
  <2> QED BY <2>2, <2>3, <2>4
<1> HIDE DEF T
<1>3. Nat \subseteq T
  BY <1>1, <1>2, Numbers!Induction
<1>4. ASSUME NEW j \in 0..n PROVE v[j] <= v[0]
  BY <1>3 DEF T
<1> QED BY <1>4

\* With j steps to go, a period is on the way down from full speed, if the
\* move is long enough to get there; if not, it is between the way up and the
\* way down from the top, and on the latter if the move gets to the top.
Between(u, v, w, top, j) ==
  \/ /\ move <= 2 * top + 2 /\ j <= top
     /\ u[j] <= rate /\ rate <= v[j] /\ (move > 2 * top => rate = v[j])
  \/ move > 2 * top + 2 /\ j <= top - 2 /\ rate = w[j]

Mirrored(top, u, v, w) == running =>
  /\ state = "up" => stepNo <= top /\ rate = u[stepNo]
  /\ state = "max" => stepDown = move - top /\ move > 2 * top + 2
  /\ state = "down" => Between(u, v, w, top, move - stepNo - 1)
  /\ state = "last" => Between(u, v, w, top, 0)

(* One interrupt on the way down.                                          *)
LEMMA MirroredDown ==
  ASSUME NEW top, NEW u, NEW v, NEW w, Deciding(top, u, v, w), RampTypes,
         Step, NEW den \in Int, NextRate("down", den),
         den + 4 = 4 * (stepNo - move) + 5, CFAST <= rate, stepNo < move,
         CFAST < rate \/ 4 * (move - stepNo) - 5 <= 2 * rate,
         Between(u, v, w, top, move - stepNo - 1)
  PROVE  Mirrored(top, u, v, w)'
<1>1. /\ stepNo \in Int /\ move \in Int /\ rate \in Int /\ CFAST \in Nat
      /\ stepNo' = stepNo + 1 /\ move' = move
  BY RampAssumption DEF RampTypes, Step
<1>2. /\ top \in Nat /\ 2 <= top /\ GoesUp(u, top)
      /\ GoesDown(v, u[top], top) /\ GoesDown(w, CFAST, top - 2)
  BY DEF Deciding, TopSpeed
<1>3. CASE OneLeft
  <2>1. state' = "last" /\ rate' = rate /\ move - stepNo - 1 = 0
    BY <1>1, <1>3 DEF OneLeft, NextRate
  <2> QED BY <1>1, <2>1 DEF Mirrored, Between
<1>4. CASE ~OneLeft
  <2>1. PICK j \in Nat : j = move - stepNo - 2
    BY <1>1, <1>4 DEF OneLeft
  <2>2. move - stepNo - 1 = j + 1 /\ move' - stepNo' - 1 = j /\ den + 4 = -4 * j - 3
    BY <1>1, <2>1
  <2>3. PICK s : s = Paced(rate, -4 * j - 3)
    OBVIOUS
  <2>4. state' = "down" /\ rate' = s
    <3>1. s = rate - Quotient(2 * rate, den + 4)
      BY <2>2, <2>3 DEF Paced
    <3>2. /\ state' = IF s <= CFAST THEN "max" ELSE "down"
          /\ rate' = IF s <= CFAST THEN CFAST ELSE s
      BY <1>4, <3>1 DEF NextRate
    <3>3. PICK n \in Int : n = stepNo - move /\ n = -j - 2
      BY <1>1, <2>1
    <3>4. n <= -2 /\ (CFAST < rate \/ -(4 * n) - 5 <= 2 * rate) /\ 4 * n + 5 = -4 * j - 3
      BY <1>1, <3>3
    <3>5. s \in Int /\ CFAST < s
      BY <1>1, <2>3, <3>4, SlowsDown DEF Paced
    <3>6. ~(s <= CFAST)
      BY <1>1, <3>5
    <3> QED BY <3>2, <3>6
  <2>5. ASSUME j + 1 <= top, u[j + 1] <= rate, rate <= v[j + 1]
        PROVE  u[j] <= s /\ s <= v[j]
    <3>1. j \in 0..(top - 1) /\ j \in 0..top /\ j + 1 \in 0..top
      BY <1>2, <2>5
    <3>2. PICK a \in Nat, b \in Nat, c \in Nat : a = u[j] /\ b = u[j + 1] /\ c = v[j + 1]
      BY <1>2, <3>1 DEF GoesUp, GoesDown
    <3>3. b = Paced(a, 4 * j + 5) /\ v[j] = Paced(c, -4 * j - 3)
      BY <1>2, <3>1, <3>2 DEF GoesUp, GoesDown
    <3>4. rate \in Nat /\ b <= rate /\ rate <= c
      BY <1>1, <2>5, <3>2
    <3>5. /\ a <= Paced(b, -4 * j - 3) /\ Paced(b, -4 * j - 3) <= s /\ s <= Paced(c, -4 * j - 3)
          /\ Paced(b, -4 * j - 3) \in Nat /\ s \in Nat
      BY <2>3, <3>2, <3>3, <3>4, PacedReturns, PacedKeepsOrder, PacedDown
    <3>6. a <= s
      BY <3>2, <3>5
    <3> QED BY <3>2, <3>3, <3>5, <3>6
  <2>6. ASSUME j + 1 <= top - 2, rate = w[j + 1] PROVE s = w[j]
    <3>1. j \in 0..((top - 2) - 1)
      BY <1>2, <2>6
    <3> QED BY <1>2, <2>3, <2>6, <3>1 DEF GoesDown
  <2>7. ASSUME j + 1 <= top, rate = v[j + 1] PROVE s = v[j]
    <3>1. j \in 0..(top - 1)
      BY <1>2, <2>7
    <3> QED BY <1>2, <2>3, <2>7, <3>1 DEF GoesDown
  <2>8. Between(u, v, w, top, j)'
    <3>1. j + 1 <= top => j <= top
      BY <1>2
    <3>2. j + 1 <= top - 2 => j <= top - 2
      BY <1>2
    <3>3. Between(u, v, w, top, j + 1)
      BY <2>2
    <3> QED BY <1>1, <2>4, <2>5, <2>6, <2>7, <3>1, <3>2, <3>3 DEF Between
  <2> QED BY <2>2, <2>4, <2>8 DEF Mirrored, Between
<1> QED BY <1>3, <1>4

LEMMA MirroredKept ==
  ASSUME NEW top, NEW u, NEW v, NEW w, Deciding(top, u, v, w),
         RampInv, Mirrored(top, u, v, w), [RampNext]_rampVars
  PROVE  Mirrored(top, u, v, w)'
<1>1. /\ RampTypes /\ Underway /\ (running => Going) /\ CFAST \in Nat
      /\ stepNo \in Int /\ move \in Int /\ rate \in Int /\ (timer => running)
  BY RampAssumption DEF RampInv, RampTypes, Underway
<1>2. /\ top \in Nat /\ 2 <= top /\ GoesUp(u, top) /\ Paced(u[top], 4 * top + 5) <= CFAST
      /\ GoesDown(v, u[top], top) /\ GoesDown(w, CFAST, top - 2)
  BY DEF Deciding, TopSpeed
<1>3. CASE MoveTo
  <2>1. state' = "up" /\ stepNo' = 0 /\ rate' = CSLOW
    BY <1>3 DEF MoveTo
  <2>2. u[0] = CSLOW
    BY <1>2 DEF GoesUp
  <2> QED BY <1>2, <2>1, <2>2 DEF Mirrored
<1>4. CASE RampUp
  <2>1. /\ running /\ state = "up" /\ stepNo # midPt /\ NextRate("up", denom)
        /\ stepNo' = stepNo + 1 /\ move' = move
    BY <1>1, <1>4 DEF RampUp, Step
  <2>2. PICK k \in Nat : /\ k = stepNo /\ k < midPt /\ denom = 4 * k + 1
                         /\ k <= top /\ rate = u[k]
    <3>1. 0 <= stepNo /\ stepNo <= midPt /\ denom = 4 * stepNo + 1
      BY <1>1, <2>1 DEF Going
    <3>2. stepNo <= top /\ rate = u[stepNo]
      BY <2>1 DEF Mirrored
    <3> QED BY <1>1, <2>1, <3>1, <3>2 DEF RampTypes
  <2>3. 2 * k + 3 <= move
    <3>1. midPt = (move - 1) \div 2
      BY <2>1, <1>1 DEF Underway
    <3> QED BY <1>1, <2>2, <3>1
  <2>4. PICK s : s = Paced(rate, 4 * k + 5)
    OBVIOUS
  <2>5. /\ state' = IF s <= CFAST THEN "max" ELSE "up"
        /\ rate' = IF s <= CFAST THEN CFAST ELSE s
        /\ stepDown' = IF s <= CFAST THEN move - stepNo ELSE stepDown
    <3>1. ~OneLeft
      BY <1>1, <2>2, <2>3 DEF OneLeft
    <3>2. denom + 4 = 4 * k + 5
      BY <2>2
    <3> QED BY <2>1, <2>4, <3>1, <3>2 DEF NextRate, Paced
  <2>6. CASE k = top
    <3>1. s <= CFAST
      BY <1>2, <2>2, <2>4, <2>6
    <3>2. state' = "max" /\ stepDown' = move' - top /\ move' > 2 * top + 2
      BY <1>1, <2>1, <2>2, <2>3, <2>5, <2>6, <3>1
    <3> QED BY <3>2 DEF Mirrored
  <2>7. CASE k # top
    <3>1. k \in 0..(top - 1) /\ k + 1 \in 0..top
      BY <1>2, <2>2, <2>7
    <3>2. s = u[k + 1]
      BY <1>2, <2>2, <2>4, <3>1 DEF GoesUp
    <3>3. ~(s <= CFAST)
      <4>1. u[k + 1] \in Nat /\ CFAST < u[k + 1]
        BY <1>2, <3>1 DEF GoesUp
      <4> QED BY <1>1, <3>2, <4>1
    <3>4. state' = "up" /\ rate' = u[stepNo'] /\ stepNo' <= top
      BY <2>1, <2>2, <2>5, <3>1, <3>2, <3>3
    <3> QED BY <3>4 DEF Mirrored
  <2> QED BY <2>6, <2>7
<1>5. ASSUME running, state = "up", stepNo = midPt
      PROVE  /\ stepNo \in Nat /\ move \in Nat \ {0} /\ stepNo = (move - 1) \div 2
             /\ CFAST < rate /\ Between(u, v, w, top, stepNo)
  <2>1. stepNo >= 0 /\ CFAST < rate
    BY <1>1, <1>5 DEF Going
  <2>2. move \in Nat \ {0} /\ midPt = (move - 1) \div 2
    BY <1>1, <1>5 DEF Underway, Distance, RampTypes
  <2>3. stepNo <= top /\ rate = u[stepNo]
    BY <1>5 DEF Mirrored
  <2>4. u[stepNo] <= v[stepNo]
    <3>1. stepNo \in 0..top
      BY <1>1, <1>2, <2>1, <2>3
    <3> QED BY <3>1, Envelope
  <2>5. move <= 2 * top + 2 /\ (move > 2 * top => stepNo = top)
    BY <1>1, <1>2, <1>5, <2>2, <2>3
  <2>6. v[top] = u[top]
    BY <1>2 DEF GoesDown
  <2>7. u[stepNo] <= rate
    BY <1>1, <2>3
  <2> QED BY <1>1, <1>5, <2>1, <2>2, <2>3, <2>4, <2>5, <2>6, <2>7 DEF Between
<1>6. CASE TurnEven
  <2>1. /\ running /\ state = "up" /\ stepNo = midPt /\ move % 2 = 0
        /\ stepNo' = stepNo + 1 /\ move' = move /\ state' = "down" /\ rate' = rate
    BY <1>1, <1>6 DEF TurnEven, Step
  <2>2. /\ stepNo \in Nat /\ move \in Nat \ {0} /\ stepNo = (move - 1) \div 2
        /\ Between(u, v, w, top, stepNo)
    BY <1>5, <2>1
  <2>3. move' - stepNo' - 1 = stepNo
    BY <2>1, <2>2
  <2> QED BY <2>1, <2>2, <2>3 DEF Mirrored, Between
<1>7. CASE TurnOdd
  <2>1. /\ running /\ Step /\ state = "up" /\ stepNo = midPt /\ move % 2 = 1
        /\ NextRate("down", TurnDenom(1))
    BY <1>1, <1>7 DEF TurnOdd, Step
  <2>2. /\ stepNo \in Nat /\ move \in Nat \ {0} /\ stepNo = (move - 1) \div 2
        /\ CFAST < rate /\ Between(u, v, w, top, stepNo)
    BY <1>5, <2>1
  <2>3. move - stepNo - 1 = stepNo /\ stepNo < move /\ CFAST <= rate
    BY <1>1, <2>1, <2>2
  <2>4. PICK den \in Int : den = TurnDenom(1) /\ den + 4 = 4 * (stepNo - move) + 5
    BY <2>2 DEF TurnDenom
  <2>5. Between(u, v, w, top, move - stepNo - 1)
    BY <2>2, <2>3
  <2> QED BY <1>1, <2>1, <2>2, <2>3, <2>4, <2>5, MirroredDown
<1>8. CASE RampMax
  <2>1. /\ running /\ state = "max" /\ rate' = rate /\ stepDown' = stepDown
        /\ stepNo' = stepNo + 1 /\ move' = move
        /\ IF stepNo = stepDown
           THEN state' = "down"
           ELSE UNCHANGED state
    BY <1>1, <1>8 DEF RampMax, Step
  <2>2. stepDown = move - top /\ move > 2 * top + 2 /\ rate = CFAST
    BY <1>1, <2>1 DEF Mirrored, Going
  <2>3. CASE stepNo = stepDown
    <3>1. state' = "down" /\ move' - stepNo' - 1 = top - 2
      BY <1>1, <1>2, <2>1, <2>2, <2>3
    <3>2. rate' = w[top - 2]
      BY <1>2, <2>1, <2>2 DEF GoesDown
    <3>3. top - 2 <= top - 2
      BY <1>2
    <3> QED BY <2>1, <2>2, <3>1, <3>2, <3>3 DEF Mirrored, Between
  <2>4. CASE stepNo # stepDown
    <3>1. state' = "max" /\ stepDown' = move' - top /\ move' > 2 * top + 2
      BY <2>1, <2>2, <2>4
    <3> QED BY <3>1 DEF Mirrored
  <2> QED BY <2>3, <2>4
<1>9. CASE RampDown
  <2>1. running /\ Step /\ state = "down" /\ NextRate("down", denom)
    BY <1>1, <1>9 DEF RampDown, Step
  <2>2. /\ stepNo < move /\ denom = 4 * (stepNo - move) + 1
        /\ CFAST <= rate /\ (CFAST < rate \/ 4 * (move - stepNo) - 5 <= 2 * rate)
    BY <1>1, <2>1 DEF Going
  <2>3. denom \in Int /\ denom + 4 = 4 * (stepNo - move) + 5
    BY <1>1, <2>2 DEF RampTypes
  <2>4. Between(u, v, w, top, move - stepNo - 1)
    BY <2>1 DEF Mirrored
  <2> QED BY <1>1, <2>1, <2>2, <2>3, <2>4, MirroredDown
<1>10. CASE RampLast
  BY <1>10 DEF RampLast, Mirrored
<1>11. CASE UNCHANGED rampVars
  BY <1>11 DEF rampVars, Mirrored, Between
<1> QED BY <1>3, <1>4, <1>6, <1>7, <1>8, <1>9, <1>10, <1>11 DEF RampNext

\* What the two deciding ways say of all moves: no period is beyond their ends,
\* or shorter than CFAST; a move longer than 2 * top + 2 ends like the second,
\* one of 2 * top + 1 or 2 * top + 2 like the first, and a shorter one no faster
\* than it began and no slower than the first.
Bounded(top, v, w) ==
  /\ running => CFAST <= rate /\ (rate <= v[0] \/ rate <= w[0])
  /\ state = "last" =>
       IF move > 2 * top + 2
       THEN rate = w[0]
       ELSE CSLOW <= rate /\ rate <= v[0] /\ (move > 2 * top => rate = v[0])

(* How slowly a move ends is decided by two of them: the longest that does *)
(* not get to full speed, and any longer one.                              *)
THEOREM TwoMovesDecide ==
  ASSUME NEW top, NEW u, NEW v, NEW w, Deciding(top, u, v, w)
  PROVE  RampInit /\ [][RampNext]_rampVars => []Bounded(top, v, w)
<1>1. RampInit => Mirrored(top, u, v, w)
  BY DEF RampInit, Mirrored
<1>2. RampInv /\ Mirrored(top, u, v, w) /\ [RampNext]_rampVars => Mirrored(top, u, v, w)'
  BY MirroredKept
<1>3. RampInv /\ Mirrored(top, u, v, w) => Bounded(top, v, w)
  <2> SUFFICES ASSUME RampInv, Mirrored(top, u, v, w) PROVE Bounded(top, v, w)
    OBVIOUS
  <2>1. /\ top \in Nat /\ 2 <= top /\ GoesUp(u, top)
        /\ GoesDown(v, u[top], top) /\ GoesDown(w, CFAST, top - 2)
    BY DEF Deciding, TopSpeed
  <2>2. CFAST \in Nat /\ CSLOW \in Nat /\ rate \in Int /\ top - 2 \in Nat
    BY <2>1, RampAssumption DEF RampInv, RampTypes
  <2>3. v[0] \in Nat /\ w[0] \in Nat /\ CFAST <= w[0] /\ u[0] = CSLOW /\ u[0] <= v[0]
    BY <2>1, <2>2, Envelope DEF GoesUp, GoesDown
  <2>4. ASSUME NEW j \in Nat, Between(u, v, w, top, j) PROVE rate <= v[0] \/ rate <= w[0]
    <3>1. ASSUME j <= top, rate <= v[j] PROVE rate <= v[0]
      <4>1. j \in 0..top
        BY <2>1, <3>1
      <4>2. v[j] \in Nat /\ v[j] <= v[0]
        BY <2>1, <4>1, LastIsLongest DEF GoesDown
      <4> QED BY <2>2, <2>3, <3>1, <4>2
    <3>2. ASSUME j <= top - 2, rate = w[j] PROVE rate <= w[0]
      <4>1. j \in 0..(top - 2)
        BY <2>1, <3>2
      <4> QED BY <2>1, <2>2, <3>2, <4>1, LastIsLongest
    <3> QED BY <2>4, <3>1, <3>2 DEF Between
  <2>5. ASSUME running PROVE CFAST <= rate /\ (rate <= v[0] \/ rate <= w[0])
    <3>1. Going /\ RampTypes /\ Underway
      BY <2>5 DEF RampInv
    <3>2. CFAST <= rate
      BY <2>2, <3>1 DEF Going
    <3>3. CASE state = "up"
      <4>1. stepNo \in 0..top /\ rate = u[stepNo]
        BY <2>1, <2>5, <3>1, <3>3 DEF Mirrored, Going, RampTypes
      <4>2. u[stepNo] <= CSLOW
        BY <2>1, <4>1 DEF GoesUp
      <4> QED BY <2>2, <2>3, <3>2, <4>1, <4>2
    <3>4. CASE state = "max"
      <4>1. rate = CFAST
        BY <3>1, <3>4 DEF Going
      <4> QED BY <2>3, <3>2, <4>1
    <3>5. CASE state = "down"
      <4>1. move - stepNo - 1 \in Nat
        BY <3>1, <3>5 DEF Going, RampTypes
      <4> QED BY <2>4, <2>5, <3>2, <3>5, <4>1 DEF Mirrored
    <3>6. CASE state = "last"
      BY <2>4, <2>5, <3>2, <3>6 DEF Mirrored
    <3> QED BY <3>1, <3>3, <3>4, <3>5, <3>6 DEF Going
  <2>6. ASSUME state = "last"
        PROVE  IF move > 2 * top + 2
               THEN rate = w[0]
               ELSE CSLOW <= rate /\ rate <= v[0] /\ (move > 2 * top => rate = v[0])
    <3>1. running
      BY <2>6 DEF RampInv, Underway
    <3>2. Between(u, v, w, top, 0)
      BY <2>6, <3>1 DEF Mirrored
    <3>3. move \in Int
      BY DEF RampInv, RampTypes
    <3> QED BY <2>1, <2>3, <3>2, <3>3 DEF Between
  <2> QED BY <2>5, <2>6 DEF Bounded
<1> QED BY <1>1, <1>2, <1>3, RampInvHolds, PTL

\* The two come back to CSLOW, to one part in a thousand.  With the periods of
\* the code top is 1418: these are the moves of 2838 and of 2839 steps.
Slow(r) == 1000 * Distance(r, CSLOW) <= CSLOW
Tolerated == \A top, u, v, w : Deciding(top, u, v, w) => Slow(v[0]) /\ Slow(w[0])

(* If they do, so does every move, of any length.                          *)
THEOREM EndsSlowHolds ==
  ASSUME Tolerated
  PROVE  RampInit /\ [][RampNext]_rampVars => []EndsSlow
<1>1. PICK top, u, v, w : Deciding(top, u, v, w)
  <2>1. PICK top \in Nat : \E u : 2 <= top /\ TopSpeed(u, top)
    BY TopExists
  <2>2. PICK u : 2 <= top /\ TopSpeed(u, top)
    BY <2>1
  <2>3. u[top] \in Nat /\ CFAST \in Nat /\ top - 2 \in Nat
    BY <2>2, RampAssumption DEF TopSpeed, GoesUp
  <2>4. PICK v : GoesDown(v, u[top], top)
    BY <2>3, DownExists
  <2>5. PICK w : GoesDown(w, CFAST, top - 2)
    BY <2>3, DownExists
  <2> QED BY <2>2, <2>4, <2>5 DEF Deciding
<1>2. RampInit /\ [][RampNext]_rampVars => []Bounded(top, v, w)
  BY <1>1, TwoMovesDecide
<1>3. RampInv /\ Bounded(top, v, w) => EndsSlow
  <2> SUFFICES ASSUME RampInv, Bounded(top, v, w) PROVE EndsSlow
    OBVIOUS
  <2>1. PICK top0 \in Nat, a \in Nat, b \in Nat : a = v[0] /\ b = w[0] /\ top0 = top
    <3>1. 0 \in 0..top /\ 0 \in 0..(top - 2) /\ top \in Nat
      BY <1>1 DEF Deciding
    <3> QED BY <1>1, <3>1 DEF Deciding, GoesDown
  <2>2. Slow(a) /\ Slow(b)
    BY <1>1, <2>1 DEF Tolerated
  <2>3. CSLOW \in Nat /\ rate \in Int
    BY RampAssumption DEF RampInv, RampTypes
  <2>4. PICK m \in Nat : m = CSLOW \div 1000 /\ CSLOW < 1000 * m + 1000
    BY <2>3, Z3
  <2>5. a <= CSLOW + m /\ b <= CSLOW + m
    BY <2>1, <2>2, <2>3, <2>4 DEF Slow, Distance
  <2>6. running => rate \in CFAST..(CSLOW + CSLOW \div 1000)
    BY <2>1, <2>3, <2>4, <2>5, RampAssumption DEF Bounded
  <2>7. state = "last" => 1000 * Distance(rate, CSLOW) <= CSLOW
    <3> SUFFICES ASSUME state = "last" PROVE 1000 * Distance(rate, CSLOW) <= CSLOW
      OBVIOUS
    <3>1. rate = b \/ (CSLOW <= rate /\ rate <= a)
      BY <2>1 DEF Bounded
    <3> QED BY <2>1, <2>2, <2>3, <3>1 DEF Slow, Distance
  <2> QED BY <2>6, <2>7 DEF EndsSlow
<1> QED BY <1>2, <1>3, RampInvHolds, PTL

---------------------------------------------------------------------------------
(***************************************************************************)
(* The bit rate setting.                                                   *)
(***************************************************************************)

(* Four fields side by side, from the low bits, are read back as they are. *)
FieldOf(r, width, low) == (r \div low) % width

LEMMA Low == ASSUME NEW a \in 0..63, NEW k \in Nat PROVE ((a + 64 * k) \div 1) % 64 = a
BY Z3
LEMMA Above64 == ASSUME NEW a \in 0..63, NEW k \in Nat PROVE (a + 64 * k) \div 64 = k
BY Z3
LEMMA Above256 == ASSUME NEW a \in 0..255, NEW k \in Nat PROVE (a + 256 * k) \div 256 = k
BY Z3
LEMMA Above4096 == ASSUME NEW a \in Nat, a < 4096, NEW k \in Nat PROVE (a + 4096 * k) \div 4096 = k
BY Z3
LEMMA Low4 == ASSUME NEW b \in 0..3, NEW k \in Nat PROVE (b + 4 * k) % 4 = b
BY Z3
LEMMA Low16 == ASSUME NEW c \in 0..15, NEW k \in Nat PROVE (c + 16 * k) % 16 = c
BY Z3
LEMMA Low8 == ASSUME NEW d \in 0..7 PROVE d % 8 = d
BY Z3

Packed(a, b, c, d) == a + 64 * b + 256 * c + 4096 * d
Holds(r, a, b, c, d) ==
  /\ r \in Nat /\ r <= 32767
  /\ FieldOf(r, 64, 1) = a /\ FieldOf(r, 4, 64) = b
  /\ FieldOf(r, 16, 256) = c /\ FieldOf(r, 8, 4096) = d

LEMMA Unpacked ==
  ASSUME NEW a \in 0..63, NEW b \in 0..3, NEW c \in 0..15, NEW d \in 0..7
  PROVE  Holds(Packed(a, b, c, d), a, b, c, d)
<1>0. SUFFICES ASSUME NEW r \in Int, r = a + 64 * b + 256 * c + 4096 * d
               PROVE  Holds(r, a, b, c, d)
  BY DEF Packed
<1>1. 0 <= r /\ r <= 32767
  <2>1. 0 <= r
    BY <1>0
  <2>2. r <= 32767
    BY <1>0
  <2> QED BY <2>1, <2>2
<1>2. FieldOf(r, 64, 1) = a
  <2>1. PICK k \in Nat : r = a + 64 * k
    <3>1. b + 4 * c + 64 * d \in Nat /\ r = a + 64 * (b + 4 * c + 64 * d)
      BY <1>0
    <3> QED BY <3>1
  <2> QED BY <2>1, Low DEF FieldOf
<1>3. FieldOf(r, 4, 64) = b
  <2>1. PICK k \in Nat : k = c + 16 * d
    OBVIOUS
  <2>2. b + 4 * k \in Nat /\ r = a + 64 * (b + 4 * k)
    BY <1>0, <2>1
  <2>3. r \div 64 = b + 4 * k
    BY <2>2, Above64
  <2> QED BY <2>3, Low4 DEF FieldOf
<1>4. FieldOf(r, 16, 256) = c
  <2>1. c + 16 * d \in Nat /\ a + 64 * b \in 0..255 /\ r = (a + 64 * b) + 256 * (c + 16 * d)
    BY <1>0
  <2>2. r \div 256 = c + 16 * d
    BY <2>1, Above256
  <2> QED BY <2>2, Low16 DEF FieldOf
<1>5. FieldOf(r, 8, 4096) = d
  <2>1. d \in Nat /\ a + 64 * b + 256 * c \in Nat /\ a + 64 * b + 256 * c < 4096
        /\ r = (a + 64 * b + 256 * c) + 4096 * d
    BY <1>0
  <2>2. r \div 4096 = d
    BY <2>1, Above4096
  <2> QED BY <2>2, Low8 DEF FieldOf
<1> QED BY <1>1, <1>2, <1>3, <1>4, <1>5 DEF Holds

(* The register of a setting holds the setting, and a jump that fits.      *)
LEMMA RegisterFields ==
  ASSUME NEW q \in Quanta, NEW s \in Segs
  PROVE  /\ Register(q, s) \in Nat /\ Register(q, s) <= 32767
         /\ FieldOf(Register(q, s), 64, 1) = q - 1
         /\ 3 + FieldOf(Register(q, s), 16, 256) + FieldOf(Register(q, s), 8, 4096) = s
         /\ FieldOf(Register(q, s), 4, 64) <= FieldOf(Register(q, s), 16, 256)
         /\ FieldOf(Register(q, s), 4, 64) <= FieldOf(Register(q, s), 8, 4096)
<1>1. PICK seg1, seg2 : seg1 = (s - 3) \div 2 /\ seg2 = (s - 3) - seg1
  OBVIOUS
<1>2. /\ seg1 \in 0..7 /\ seg2 \in 0..7 /\ seg1 <= seg2 /\ 3 + seg1 + seg2 = s
      /\ Jump(seg1) \in 0..3 /\ Jump(seg1) <= seg1
  BY <1>1 DEF Segs, Jump
<1>3. PICK j : j = Jump(seg1)
  OBVIOUS
<1>4. PICK r : r = Register(q, s)
  OBVIOUS
<1>5. r = (q - 1) + 64 * j + 256 * seg1 + 4096 * seg2
  <2>1. (q - 1) % 64 = q - 1 /\ j % 4 = j /\ seg1 % 16 = seg1 /\ seg2 % 8 = seg2
    BY <1>2, <1>3 DEF Quanta
  <2> QED BY <1>1, <1>3, <1>4, <2>1 DEF Register
<1>6. q - 1 \in 0..63 /\ j \in 0..3 /\ seg1 \in 0..15 /\ seg2 \in 0..7 /\ r \in Int
  BY <1>2, <1>3, <1>5 DEF Quanta
<1>7. Holds(r, q - 1, j, seg1, seg2)
  <2>1. r = Packed(q - 1, j, seg1, seg2)
    BY <1>5 DEF Packed
  <2> QED BY <1>6, <2>1, Unpacked
<1> QED BY <1>2, <1>3, <1>4, <1>7 DEF Holds

(* What a call leaves: the registers of the first setting that fits.       *)
First(found) == {t \in found : \A u \in found \ {t} : Before(t, u)}
Outcome(clocks) ==
  \/ \E t \in First(Settings(clocks)) : canTimingCfg = <<t[1], Register(t[2], t[3])>>
  \/ Settings(clocks) = {} /\ canTimingCfg = <<0, 0>>

Calculated ==
  \/ request = {} /\ canTimingCfg = <<0, 0>>
  \/ \E baud \in BaudRates, pClk \in PeriphClocks :
       request = {<<baud, pClk>>} /\ Outcome(pClk \div baud)

(* A known first setting is the one that is taken.                         *)
LEMMA FirstIs ==
  ASSUME NEW clocks, NEW t0 \in Settings(clocks), NEW t \in First(Settings(clocks)),
         \A u \in Settings(clocks) : ~Before(u, t0)
  PROVE  t = t0
BY DEF First

LEMMA SettingsOf96 ==
  /\ <<0, 6, 16>> \in Settings(96)
  /\ \A u \in Settings(96) : ~Before(u, <<0, 6, 16>>)
<1>1. <<0, 6, 16>> \in Settings(96)
  BY DEF Settings, Divs, Quanta, Segs
<1>2. ASSUME NEW u \in Settings(96), Before(u, <<0, 6, 16>>) PROVE FALSE
  <2>1. PICK p \in Divs, q \in Quanta, s \in Segs : u = <<p, q, s>> /\ 96 = s * q * (p + 1)
    BY DEF Settings
  <2>2. p = 0 /\ (q < 6 \/ (q = 6 /\ s < 16))
    <3>1. p < 0 \/ (p = 0 /\ q < 6) \/ (p = 0 /\ q = 6 /\ s < 16)
      <4>1. PICK t0 : t0 = <<0, 6, 16>>
        OBVIOUS
      <4>2. t0[1] = 0 /\ t0[2] = 6 /\ t0[3] = 16 /\ u[1] = p /\ u[2] = q /\ u[3] = s
        BY <2>1, <4>1, Z3
      <4>3. Before(u, t0)
        BY <1>2, <4>1, Z3
      <4> QED BY <4>2, <4>3 DEF Before
    <3> QED BY <3>1 DEF Divs
  <2>3. 96 = s * q
    BY <2>1, <2>2 DEF Quanta, Segs
  <2>4. CASE q = 6
    BY <2>2, <2>3, <2>4 DEF Segs
  <2>5. CASE q \in 1..5
    BY <2>3, <2>5 DEF Segs
  <2> QED BY <2>2, <2>4, <2>5 DEF Quanta
<1> QED BY <1>1, <1>2

LEMMA SettingsOf480 ==
  /\ <<0, 30, 16>> \in Settings(480)
  /\ \A u \in Settings(480) : ~Before(u, <<0, 30, 16>>)
<1>1. <<0, 30, 16>> \in Settings(480)
  BY DEF Settings, Divs, Quanta, Segs
<1>2. ASSUME NEW u \in Settings(480), Before(u, <<0, 30, 16>>) PROVE FALSE
  <2>1. PICK p \in Divs, q \in Quanta, s \in Segs : u = <<p, q, s>> /\ 480 = s * q * (p + 1)
    BY DEF Settings
  <2>2. p = 0 /\ (q < 30 \/ (q = 30 /\ s < 16))
    <3>1. p < 0 \/ (p = 0 /\ q < 30) \/ (p = 0 /\ q = 30 /\ s < 16)
      <4>1. PICK t0 : t0 = <<0, 30, 16>>
        OBVIOUS
      <4>2. t0[1] = 0 /\ t0[2] = 30 /\ t0[3] = 16 /\ u[1] = p /\ u[2] = q /\ u[3] = s
        BY <2>1, <4>1, Z3
      <4>3. Before(u, t0)
        BY <1>2, <4>1, Z3
      <4> QED BY <4>2, <4>3 DEF Before
    <3> QED BY <3>1 DEF Divs
  <2>3. 480 = s * q
    BY <2>1, <2>2 DEF Quanta, Segs
  <2>4. CASE q = 30
    BY <2>2, <2>3, <2>4 DEF Segs
  <2>5. CASE q = 29
    BY <2>3, <2>5 DEF Segs
  <2>6. CASE q \in 1..28
    <3>1. s * q <= 17 * q
      BY <2>6 DEF Segs
    <3> QED BY <2>3, <2>6, <3>1
  <2> QED BY <2>2, <2>4, <2>5, <2>6 DEF Quanta
<1> QED BY <1>1, <1>2

LEMMA CalculatedHolds == CanRateInit /\ [][CanRateNext]_canRateVars => []Calculated
<1>1. CanRateInit => Calculated
  BY DEF CanRateInit, Calculated
<1>2. Calculated /\ [CanRateNext]_canRateVars => Calculated'
  <2> SUFFICES ASSUME Calculated, [CanRateNext]_canRateVars PROVE Calculated'
    OBVIOUS
  <2>1. CASE UNCHANGED canRateVars
    BY <2>1 DEF Calculated, Outcome, canRateVars
  <2>2. CASE baudrateCalculate
    <3>1. canTimingCfg = <<0, 0>>
      BY <2>2 DEF Calculated, baudrateCalculate
    <3>2. PICK baud \in BaudRates, pClk \in PeriphClocks :
            /\ request' = {<<baud, pClk>>}
            /\ \/ \E t \in Settings(pClk \div baud) :
                    /\ \A u \in Settings(pClk \div baud) \ {t} : Before(t, u)
                    /\ canTimingCfg' = <<t[1], Register(t[2], t[3])>>
               \/ Settings(pClk \div baud) = {} /\ UNCHANGED canTimingCfg
      BY <2>2, Zenon DEF baudrateCalculate
    <3>3. Outcome(pClk \div baud)'
      BY <3>1, <3>2 DEF Outcome, First
    <3> QED BY <3>2, <3>3 DEF Calculated
  <2> QED BY <2>1, <2>2 DEF CanRateNext
<1> QED BY <1>1, <1>2, PTL

(* A rate that has a setting gets it exactly, with a jump no longer than   *)
(* the segments, for all rates and clocks; for the two rates the firmware  *)
(* uses, the registers are the constants that are written in it.           *)
THEOREM BitTimeExactHolds == CanRateInit /\ [][CanRateNext]_canRateVars => []BitTimeExact
<1>1. Calculated => BitTimeExact
  <2> SUFFICES ASSUME Calculated, NEW a \in request
               PROVE  /\ Settings(a[2] \div a[1]) # {}
                           => /\ BitClocks = a[2] \div a[1]
                              /\ Field(4, 64) <= Field(16, 256)
                              /\ Field(4, 64) <= Field(8, 4096)
                      /\ a = <<500000, 48000000>> => canTimingCfg = <<0, 30405>>
                      /\ a = <<100000, 48000000>> => canTimingCfg = <<0, 30429>>
    BY DEF BitTimeExact
  <2>1. PICK clocks : clocks = a[2] \div a[1]
    OBVIOUS
  <2>2. Outcome(clocks)
    BY <2>1 DEF Calculated
  <2>3. ASSUME Settings(clocks) # {}
        PROVE  \E t \in First(Settings(clocks)) : canTimingCfg = <<t[1], Register(t[2], t[3])>>
    BY <2>2, <2>3, Zenon DEF Outcome
  <2>4. ASSUME Settings(clocks) # {}
        PROVE  /\ BitClocks = clocks
               /\ Field(4, 64) <= Field(16, 256) /\ Field(4, 64) <= Field(8, 4096)
    <3>1. PICK t \in First(Settings(clocks)) : canTimingCfg = <<t[1], Register(t[2], t[3])>>
      BY <2>3, <2>4
    <3>2. PICK p \in Divs, q \in Quanta, s \in Segs : t = <<p, q, s>> /\ clocks = s * q * (p + 1)
      BY DEF First, Settings
    <3>3. PICK r : r = Register(q, s)
      OBVIOUS
    <3>4. canTimingCfg[1] = p /\ canTimingCfg[2] = r
      BY <3>1, <3>2, <3>3
    <3>5. /\ FieldOf(r, 64, 1) = q - 1
          /\ 3 + FieldOf(r, 16, 256) + FieldOf(r, 8, 4096) = s
          /\ FieldOf(r, 4, 64) <= FieldOf(r, 16, 256)
          /\ FieldOf(r, 4, 64) <= FieldOf(r, 8, 4096)
      BY <3>3, RegisterFields
    <3>6. \A width, low \in Nat : Field(width, low) = FieldOf(r, width, low)
      BY <3>4 DEF Field, FieldOf
    <3>7. BitClocks = (p + 1) * (FieldOf(r, 64, 1) + 1)
                        * (3 + FieldOf(r, 16, 256) + FieldOf(r, 8, 4096))
      BY <3>4, <3>6 DEF BitClocks
    <3>8. BitClocks = (p + 1) * q * s
      <4>1. (q - 1) + 1 = q
        BY DEF Quanta
      <4> QED BY <3>5, <3>7, <4>1
    <3>9. (p + 1) * q * s = s * q * (p + 1)
      BY DEF Divs, Quanta, Segs
    <3> QED BY <3>2, <3>5, <3>6, <3>8, <3>9
  <2>5. ASSUME a = <<500000, 48000000>> PROVE canTimingCfg = <<0, 30405>>
    <3>1. clocks = 96
      BY <2>1, <2>5
    <3>2. PICK t \in First(Settings(96)) : canTimingCfg = <<t[1], Register(t[2], t[3])>>
      BY <2>3, <3>1, SettingsOf96
    <3>3. t = <<0, 6, 16>>
      BY <3>2, SettingsOf96, FirstIs
    <3>4. Register(6, 16) = 30405
      BY DEF Register, Jump
    <3> QED BY <3>2, <3>3, <3>4
  <2>6. ASSUME a = <<100000, 48000000>> PROVE canTimingCfg = <<0, 30429>>
    <3>1. clocks = 480
      BY <2>1, <2>6
    <3>2. PICK t \in First(Settings(480)) : canTimingCfg = <<t[1], Register(t[2], t[3])>>
      BY <2>3, <3>1, SettingsOf480
    <3>3. t = <<0, 30, 16>>
      BY <3>2, SettingsOf480, FirstIs
    <3>4. Register(30, 16) = 30429
      BY DEF Register, Jump
    <3> QED BY <3>2, <3>3, <3>4
  <2> QED BY <2>1, <2>4, <2>5, <2>6
<1> QED BY <1>1, CalculatedHolds, PTL

---------------------------------------------------------------------------------
(* The three of them, as MCTimers runs them: a step is a step of one, and  *)
(* nothing to the others.                                                  *)

LEMMA Separate ==
  MCSpec => Spec /\ (RampInit /\ [][RampNext]_rampVars)
                 /\ (CanRateInit /\ [][CanRateNext]_canRateVars)
<1>1. MCInit => Init /\ RampInit /\ CanRateInit
  BY DEF MCInit
<1>2. [MCNext]_allVars => [Next]_vars /\ [RampNext]_rampVars /\ [CanRateNext]_canRateVars
  <2> SUFFICES ASSUME [MCNext]_allVars
               PROVE  [Next]_vars /\ [RampNext]_rampVars /\ [CanRateNext]_canRateVars
    OBVIOUS
  <2>1. CASE Driver
    BY <2>1 DEF Driver
  <2>2. CASE Ramp
    BY <2>2 DEF Ramp
  <2>3. CASE CanRateRuns
    BY <2>3 DEF CanRateRuns
  <2>4. CASE MainReturns
    BY <2>4 DEF MainReturns, allVars
  <2>5. CASE UNCHANGED allVars
    BY <2>5 DEF allVars
  <2> QED BY <2>1, <2>2, <2>3, <2>4, <2>5 DEF MCNext
<1> QED BY <1>1, <1>2, PTL DEF MCSpec, Spec

(* Every variable of the three programs keeps its type: no division of the *)
(* ramp has a divisor that makes its result no number, and the divider and *)
(* the register of a bit rate fit the bits the hardware has for them.      *)
THEOREM TypesHold == MCSpec => []TypesOK
<1>1. RampInv => RampTypeOK
  <2> SUFFICES ASSUME RampInv PROVE RampTypeOK
    OBVIOUS
  <2>1. state \in {"idle", "up", "max", "down", "last"}
    BY DEF RampInv, RampTypes, Underway, Going
  <2> QED BY <2>1 DEF RampInv, RampTypes, RampTypeOK
<1>2. Calculated => CanRateTypeOK
  <2> SUFFICES ASSUME Calculated PROVE CanRateTypeOK
    OBVIOUS
  <2>1. PICK p, r : canTimingCfg = <<p, r>> /\ p \in Divs /\ r \in Nat /\ r <= 32767
    <3>1. CASE canTimingCfg = <<0, 0>>
      BY <3>1 DEF Divs
    <3>2. ASSUME NEW clocks, NEW t \in First(Settings(clocks)),
                 canTimingCfg = <<t[1], Register(t[2], t[3])>>
          PROVE  \E p, r : canTimingCfg = <<p, r>> /\ p \in Divs /\ r \in Nat /\ r <= 32767
      <4>1. t[1] \in Divs /\ t[2] \in Quanta /\ t[3] \in Segs
        BY <3>2 DEF First, Settings
      <4>2. Register(t[2], t[3]) \in Nat /\ Register(t[2], t[3]) <= 32767
        BY <4>1, RegisterFields
      <4> QED BY <3>2, <4>1, <4>2
    <3> QED BY <3>1, <3>2 DEF Calculated, Outcome
  <2> QED BY <2>1 DEF CanRateTypeOK
<1> QED BY <1>1, <1>2, Separate, TypeCorrect, RampInvHolds, CalculatedHolds, PTL DEF TypesOK
=================================================================================
