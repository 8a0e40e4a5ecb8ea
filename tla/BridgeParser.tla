------------------------------ MODULE BridgeParser ------------------------------
(***************************************************************************)
(* The text protocol of the CAN bridge (apps/netdemo/main.c): a client     *)
(* sends lines "S<id>#<data>" or "S<id>#R" over TCP, in chunks of any size *)
(* and among anything else; the bridge sends each as a CAN frame.  In the  *)
(* other direction it prints the frames it receives in the same form.      *)
(*                                                                         *)
(* The parser keeps its state from one chunk to the next, so chunks are    *)
(* modelled one character at a time.                                       *)
(* The fill is 8 bits wide and nothing holds it below the buffer's size    *)
(* while a line is read, so parsing may read on in the memory after the    *)
(* buffer (Beyond: nobody knows what is there) and then from the start.    *)
(***************************************************************************)
EXTENDS BridgeText

CONSTANTS
  BufSize,    (* sizeof canCmdBuf: 50                                      *)
  FillRange,  (* 256: what the 8 bits of canCmdFill reach                  *)
  Beyond      (* what may be in the memory canCmdFill reaches after the    *)
              (* buffer                                                    *)

ASSUME ParserAssumption ==
  /\ BufSize \in Nat \ {0}
  /\ FillRange \in Nat /\ FillRange > BufSize
  /\ Beyond \subseteq [BufSize..(FillRange - 1) -> 0..127]

VARIABLES
  canCmdBuf,
  canCmdFill,
  sent,       (* the frame the last character has made the bridge send     *)
  line        (* history: what has come since the last S, up to the first  *)
              (* control character; <<>> once anything more has come, and  *)
              (* when it is more than the buffer holds                     *)

parserVars == <<canCmdBuf, canCmdFill, sent, line>>

ParserInit ==
  /\ canCmdBuf = [i \in 0..(BufSize - 1) |-> 0]
  /\ canCmdFill = 0
  /\ sent = None /\ line = <<>>

---------------------------------------------------------------------------------
(* The memory the parser may read: the buffer, and what is behind it.      *)
Memory(buf, beyond) ==
  [i \in 0..(FillRange - 1) |-> IF i < BufSize THEN buf[i] ELSE beyond[i]]

(* The character canCmdFill = i stands at.                                 *)
At(mem, i) == mem[i % FillRange]

(* parseHexNum: spaces, and anything below, are skipped; the number ends   *)
(* at the first other character that is not a digit.  There is one: the S  *)
(* the memory starts with.                                                 *)
NumberEnd(mem, from) ==
  Min({i \in from..(from + FillRange) : At(mem, i) > Space /\ ~IsHex(At(mem, i))})
WithDigit(v, c) == IF IsHex(c) THEN (16 * v + Nibble(c)) % Word ELSE v
parseHexNum(mem, from) ==
  FoldLeft(WithDigit, 0, [k \in 1..(NumberEnd(mem, from) - from) |-> At(mem, from + k - 1)])

parseHexByte(mem, i) == 16 * Nibble(At(mem, i)) + Nibble(At(mem, i + 1))

(* The data: pairs of characters, up to one that starts with a space or    *)
(* anything below.                                                         *)
DataLength(mem, from) ==
  Min({k \in 0..MaxBytes : k = MaxBytes \/ At(mem, from + 2 * k) <= Space})

(* processCanCmd on the memory that starts with the buffer: the frame it   *)
(* sends, and where it leaves canCmdFill.                                  *)
processCanCmd(mem) ==
  LET from == NumberEnd(mem, 1) + 1
      id == parseHexNum(mem, 1)
      n == DataLength(mem, from)
      data == [k \in 1..n |-> parseHexByte(mem, from + 2 * (k - 1))]
  IN  IF At(mem, from - 1) # Hash THEN [frame |-> None, fill |-> from % FillRange]
      ELSE IF At(mem, from) = R
           THEN [frame |-> Frame(id, TRUE, <<>>), fill |-> from % FillRange]
           ELSE [frame |-> Frame(id, FALSE, data), fill |-> (from + 2 * n) % FillRange]

(* Where the next character goes.                                          *)
(* Mutant of Position: an S does not start a new line.                     *)
PositionNoReset(c) == IF canCmdFill >= BufSize THEN 0 ELSE canCmdFill
Position(c) == IF c = S \/ canCmdFill >= BufSize THEN 0 ELSE canCmdFill

(* A line that has been read is not read again.                            *)
(* Mutant of Emptied: it stays.                                              *)
EmptiedStays(buf) == buf
Emptied(buf) == [buf EXCEPT ![0] = 0]

Recorded(c) ==
  line' = IF c = S THEN <<c>>
          ELSE IF line = <<>> \/ Last(line) < Space \/ Len(line) = BufSize THEN <<>>
          ELSE Append(line, c)

(* parseCanCmds, for one character.                                        *)
Receive(c) ==
  LET buf == [canCmdBuf EXCEPT ![Position(c)] = c]
  IN  /\ Recorded(c)
      /\ IF c < Space /\ buf[0] = S
         THEN \E beyond \in Beyond :
                LET result == processCanCmd(Memory(buf, beyond))
                IN  /\ sent' = result.frame
                    /\ canCmdFill' = result.fill
                    /\ canCmdBuf' = Emptied(buf)
         ELSE /\ canCmdBuf' = buf /\ canCmdFill' = Position(c) + 1
              /\ sent' = None

ParserNext == \E c \in Chars : Receive(c)

---------------------------------------------------------------------------------
(* Properties.                                                             *)

(* canCmdFill stays where the buffer's check can send it back, and every   *)
(* frame is one the controller can send.                                   *)
ParserTypeOK ==
  /\ canCmdBuf \in [0..(BufSize - 1) -> 0..127]
  /\ canCmdFill \in 0..(FillRange - 1)
  /\ sent # None =>
       /\ sent.id \in 0..(Word - 1) /\ sent.ext \in BOOLEAN /\ sent.remote \in BOOLEAN
       /\ sent.data \in Seq(0..255) /\ Len(sent.data) <= MaxBytes

(* Whatever the client has sent before, complete commands, half of one, a  *)
(* line that was too long, and whatever they have left in the buffer, a    *)
(* well-formed line is sent as the frame it means.                         *)
SentAsWritten == WellFormed(line) => sent = Meaning(line)

(* A frame is sent only at the first control character after an S, and     *)
(* only when all that came since the S is in the buffer: no line is sent   *)
(* twice, and no rest of an old line is sent as part of a long one.        *)
SendsOnlyLines == sent # None => line # <<>> /\ Last(line) < Space

(* A client that sends back the line the bridge prints for a data frame    *)
(* makes it send the same frame, whatever is left in the buffer.           *)
EchoIsFrame ==
  sent # None /\ ~sent.remote =>
    LET text == canToBridge(sent)
        mem == [i \in 0..(FillRange - 1) |->
                  IF i < Len(text) - 1 THEN text[i + 1]
                  ELSE IF i < BufSize THEN canCmdBuf[i] ELSE 0]
    IN  Len(text) <= FillRange => processCanCmd(mem).frame = sent
=================================================================================
