------------------------------ MODULE SerialCan ------------------------------
(***************************************************************************)
(* The serial CAN bridges (apps/nucleo1 and, with the same code,           *)
(* apps/disco407): the bridge's text protocol read by an automaton, one    *)
(* character at a time, into the frame itself.                             *)
(*                                                                         *)
(* Nothing limits the digits of the data to those of a frame; a client     *)
(* sends no more, or it writes over the memory behind the frame.           *)
(***************************************************************************)
EXTENDS BridgeText

CONSTANT MaxLine   \* bound: characters of a line that "typed" remembers

ASSUME SerialAssumption == MaxLine \in Nat \ {0}

VARIABLES
  serial,     \* the sender's state: see SerialInit
  typed       \* history: what has come since the S that began the line; <<>>
              \* once it is no line, and when it is longer than MaxLine

serialVars == <<serial, typed>>

AtRest == [state |-> "sNONE", eid |-> 0, nibble |-> 0,
           data8 |-> [i \in 0..(MaxBytes - 1) |-> 0], sent |-> None]

SerialInit == serial = AtRest /\ typed = <<>>

\* Mutant of Shifted: the digit goes to the other half of the byte.
ShiftedHigh(byte, c) == (byte \div 16) + 16 * Nibble(c)
Shifted(byte, c) == ((16 * byte) % 256) + Nibble(c)

\* The frame a line of digits has made; it is extended if its id needs it.
FrameOf(s) == Frame(s.eid, FALSE, [k \in 1..(s.nibble \div 2) |-> s.data8[k - 1]])

\* One turn of the loop of CanSendThread.
CanSend(s, c) ==
  CASE s.state = "sNONE" -> IF c = S THEN [s EXCEPT !.state = "sADDR", !.eid = 0, !.sent = None]
                            ELSE [s EXCEPT !.sent = None]
    [] s.state = "sADDR" -> IF c = Hash THEN [s EXCEPT !.state = "sDATA", !.nibble = 0]
                            ELSE [s EXCEPT !.eid = (16 * @ + Nibble(c)) % Word]
    [] s.state = "sDATA" -> IF c >= 48
                            THEN [s EXCEPT !.data8[s.nibble \div 2] = Shifted(@, c), !.nibble = @ + 1]
                            ELSE [s EXCEPT !.state = "sNONE", !.sent = FrameOf(s)]

Type(c) ==
  /\ serial.state = "sDATA" /\ serial.nibble = 2 * MaxBytes => c < 48
  /\ serial' = CanSend(serial, c)
  /\ typed' = IF serial.state = "sNONE" THEN (IF c = S THEN <<S>> ELSE <<>>)
              ELSE IF typed # <<>> /\ Last(typed) >= Space /\ Len(typed) < MaxLine
                      /\ (IsHex(c) \/ c = Hash \/ c < Space)
              THEN Append(typed, c) ELSE <<>>

SerialNext == \E c \in Chars : Type(c)

-----------------------------------------------------------------------------
SerialTypeOK ==
  /\ serial.state \in {"sNONE", "sADDR", "sDATA"} /\ serial.eid \in 0..(Word - 1)
  /\ serial.nibble \in 0..(2 * MaxBytes) /\ serial.data8 \in [0..(MaxBytes - 1) -> 0..255]
  /\ typed \in Seq(Chars) /\ Len(typed) <= MaxLine

\* A well-formed data line is sent as the frame it means, whatever the lines
\* before it have left in the frame.
SerialAsWritten ==
  WellFormed(typed) => serial.sent = Meaning(typed)

\* The line printed for a frame, typed again, makes the same frame.
SerialEcho ==
  serial.sent # None =>
    LET text == canToBridge(serial.sent)
        echo == SubSeq(text, 1, Len(text) - 1)
    IN  FoldLeft(CanSend, serial, echo).sent = serial.sent
=============================================================================
