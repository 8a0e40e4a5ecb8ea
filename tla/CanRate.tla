------------------------------- MODULE CanRate ------------------------------
(***************************************************************************)
(* common/canRate.c: the clock divider and the bit timing register for a   *)
(* CAN bit rate.  The firmware holds its results as constants.             *)
(***************************************************************************)
EXTENDS Integers

CONSTANTS BaudRates,    \* bit rates asked for, in bits per second
          PeriphClocks  \* peripheral clocks, in Hz

ASSUME CanRateAssumption == BaudRates \subseteq Nat \ {0} /\ PeriphClocks \subseteq Nat

VARIABLES request,       \* the rate and the clock of the call, or {}
          canTimingCfg   \* divider and register, as a pair

canRateVars == <<request, canTimingCfg>>

CanRateInit == request = {} /\ canTimingCfg = <<0, 0>>

Divs == 0..15
Quanta == 1..32
Segs == 3..17

\* Every setting with this many clocks per bit.
Settings(clocks) == {t \in Divs \X Quanta \X Segs : clocks = t[3] * t[2] * (t[1] + 1)}

\* The order in which the three nested loops come to them.
Before(t, u) == \/ t[1] < u[1]
                \/ t[1] = u[1] /\ t[2] < u[2]
                \/ t[1] = u[1] /\ t[2] = u[2] /\ t[3] < u[3]

\* Mutant of Jump: as long as the register has room for.
JumpFull(seg1) == 3
Jump(seg1) == IF seg1 > 3 THEN 3 ELSE seg1

\* The fields of the register, from the low bits: prescaler, jump width and
\* the two segments.
Register(q, s) ==
  LET seg1 == (s - 3) \div 2
      seg2 == (s - 3) - seg1
  IN  ((q - 1) % 64) + 64 * (Jump(seg1) % 4) + 256 * (seg1 % 16) + 4096 * (seg2 % 8)

\* main calls it once; a rate that nothing fits leaves the zeros.
baudrateCalculate ==
  /\ request = {}
  /\ \E baud \in BaudRates, pClk \in PeriphClocks :
       /\ request' = {<<baud, pClk>>}
       /\ LET found == Settings(pClk \div baud) IN
            \/ \E t \in found :
                 /\ \A u \in found \ {t} : Before(t, u)
                 /\ canTimingCfg' = <<t[1], Register(t[2], t[3])>>
            \/ found = {} /\ UNCHANGED canTimingCfg

CanRateNext == baudrateCalculate

-----------------------------------------------------------------------------
CanRateTypeOK == canTimingCfg[1] \in Divs /\ canTimingCfg[2] \in 0..32767

\* How the controller reads the register: one quantum to synchronise and one
\* more than each field says.
Field(width, low) == (canTimingCfg[2] \div low) % width
BitClocks == (canTimingCfg[1] + 1) * (Field(64, 1) + 1)
               * (3 + Field(16, 256) + Field(8, 4096))

\* If any setting gives the bit time asked for, the registers hold one, with a
\* jump that is no longer than either segment; and for the rates the firmware
\* uses they are the constants written in it.
BitTimeExact ==
  \A a \in request :
    /\ Settings(a[2] \div a[1]) # {}
         => /\ BitClocks = a[2] \div a[1]
            /\ Field(4, 64) <= Field(16, 256) /\ Field(4, 64) <= Field(8, 4096)
    /\ a = <<500000, 48000000>> => canTimingCfg = <<0, 30405>>   \* 0x76C5
    /\ a = <<100000, 48000000>> => canTimingCfg = <<0, 30429>>   \* 0x76DD
=============================================================================
