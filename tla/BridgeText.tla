------------------------------- MODULE BridgeText -------------------------------
(***************************************************************************)
(* The text that stands for a CAN frame on the bridges of apps/netdemo,    *)
(* apps/nucleo1 and apps/disco407, "S<id>#<data>" or "S<id>#R", as they    *)
(* print it and as a client means it.  How it is read is in BridgeParser   *)
(* and SerialCan.  Characters are their ASCII codes.                       *)
(***************************************************************************)
EXTENDS Integers, SequencesExt, FiniteSetsExt

CONSTANTS
  Chars,      (* the characters clients send                               *)
  StdIds,     (* 0x800: ids below are standard ones                        *)
  Word,       (* 2^32                                                      *)
  MaxBytes,   (* 8: bytes in a frame                                       *)
  None        (* no frame                                                  *)

ASSUME TextAssumption ==
  /\ Chars \subseteq 0..127 /\ StdIds \in Nat /\ MaxBytes \in Nat \ {0}
  /\ Word \in Nat \ {0}
  /\ (Word - 1) \div 16 < 268435456     (* an id has at most eight digits *)

S == 83
R == 82
Hash == 35
Space == 32

IsHex(c) == c \in 48..57 \cup 65..70 \cup 97..102

(* A digit's value, and what the same bits make of any other character.    *)
(* Mutant of Nibble: the high bits are left in.                            *)
NibbleUnmasked(c) == IF c > 57 THEN c - 7 ELSE c
Nibble(c) == (IF c > 57 THEN c - 7 ELSE c) % 16

Frame(id, remote, data) == [ext |-> id >= StdIds, id |-> id, remote |-> remote, data |-> data]

(* canToBridge: the line printed for a frame.                              *)
HexDigit(v) == IF v < 10 THEN 48 + v ELSE 55 + v
LowDigit(v) == IF v < 10 THEN 48 + v ELSE 87 + v
Weight == <<1, 16, 256, 4096, 65536, 1048576, 16777216, 268435456>>
HexId(id) ==      \* %x: as many digits as it takes
  LET n == Max({k \in 1..8 : k = 1 \/ id >= Weight[k]})
  IN  [k \in 1..n |-> LowDigit((id \div Weight[n + 1 - k]) % 16)]

(* Mutant of appendHex: the nibbles the other way round.                   *)
appendHexSwapped(v) == <<HexDigit(v % 16), HexDigit(v \div 16)>>
appendHex(v) == <<HexDigit(v \div 16), HexDigit(v % 16)>>

canToBridge(frame) ==
  <<S>> \o HexId(frame.id) \o <<Hash>>
        \o [k \in 1..(2 * Len(frame.data)) |->
              appendHex(frame.data[(k + 1) \div 2])[2 - (k % 2)]]
        \o <<13, 10>>

(* What a well-formed line means, without regard to how it is parsed.      *)
WellFormed(l) ==
  /\ l # <<>> /\ Head(l) = S /\ Last(l) < Space
  /\ \E h \in 3..(Len(l) - 1) :
       /\ l[h] = Hash
       /\ \A i \in 2..(h - 1) : IsHex(l[i])
       /\ \/ /\ (Len(l) - h) % 2 = 1
             /\ \A i \in (h + 1)..(Len(l) - 1) : IsHex(l[i])
          \/ h = Len(l) - 2 /\ l[h + 1] = R
HashAt(l) == Min({i \in DOMAIN l : l[i] = Hash})
Value(c) == CHOOSE v \in 0..15 : c \in {HexDigit(v), LowDigit(v)}
Extended(v, c) == 16 * v + Value(c)
Meaning(l) ==
  LET h == HashAt(l)
      remote == l[h + 1] = R
  IN  Frame(FoldLeft(Extended, 0, SubSeq(l, 2, h - 1)) % Word,
            remote,
            IF remote THEN <<>>
            ELSE [k \in 1..Min({MaxBytes, (Len(l) - h) \div 2}) |->
                    16 * Value(l[h + 2 * k - 1]) + Value(l[h + 2 * k])])
=================================================================================
