------------------------------ MODULE BridgeProofs ------------------------------
(***************************************************************************)
(* Proofs about the parts of the bridge: its two parsers, for lines, ids   *)
(* and frames of any length, and whatever characters a client sends; its   *)
(* memory card, for every Interval; and its sessions, for any number of    *)
(* clients.                                                                *)
(***************************************************************************)
EXTENDS MCBridge, TLAPS

(* What the two parsers and the meaning of a line fold.                    *)
AsRead == INSTANCE FoldFacts WITH Op <- WithDigit
AsMeant == INSTANCE FoldFacts WITH Op <- Extended
AsTyped == INSTANCE FoldFacts WITH Op <- CanSend

---------------------------------------------------------------------------------
(* A digit stands for the value that its low bits make.                    *)
LEMMA DigitValue ==
  ASSUME NEW c, NEW v \in 0..15, c = HexDigit(v) \/ c = LowDigit(v)
  PROVE  IsHex(c) /\ Value(c) = v /\ Nibble(c) = v
<1>1. (c = 48 + v /\ v < 10) \/ (c = 55 + v /\ v >= 10) \/ (c = 87 + v /\ v >= 10)
  BY DEF HexDigit, LowDigit
<1>2. IsHex(c)
  BY <1>1 DEF IsHex
<1>3. Nibble(c) = v
  <2>1. CASE v < 10
    <3>1. c = 48 + v /\ ~(c > 57) /\ (48 + v) % 16 = v
      BY <1>1, <2>1
    <3> QED BY <3>1 DEF Nibble
  <2>2. CASE v >= 10
    <3>1. c > 57 /\ (c - 7 = 48 + v \/ c - 7 = 80 + v)
      BY <1>1, <2>2
    <3>2. (48 + v) % 16 = v /\ (80 + v) % 16 = v
      OBVIOUS
    <3> QED BY <3>1, <3>2 DEF Nibble
  <2> QED BY <2>1, <2>2
<1>4. \A w \in 0..15 : c \in {HexDigit(w), LowDigit(w)} => w = v
  <2> TAKE w \in 0..15
  <2> SUFFICES ASSUME c = HexDigit(w) \/ c = LowDigit(w) PROVE w = v
    OBVIOUS
  <2>1. (c = 48 + w /\ w < 10) \/ (c = 55 + w /\ w >= 10) \/ (c = 87 + w /\ w >= 10)
    BY DEF HexDigit, LowDigit
  <2> QED BY <1>1, <2>1
<1>5. Value(c) \in 0..15 /\ c \in {HexDigit(Value(c)), LowDigit(Value(c))}
  BY Zenon DEF Value
<1> QED BY <1>2, <1>3, <1>4, <1>5

(* Every digit is the one printed for some value.                           *)
LEMMA DigitOf ==
  ASSUME NEW c, IsHex(c)
  PROVE  \E v \in 0..15 : c = HexDigit(v) \/ c = LowDigit(v)
<1>1. CASE c \in 48..57
  BY <1>1 DEF HexDigit
<1>2. CASE c \in 65..70
  <2>1. c - 55 \in 0..15 /\ c = HexDigit(c - 55)
    BY <1>2 DEF HexDigit
  <2> QED BY <2>1
<1>3. CASE c \in 97..102
  <2>1. c - 87 \in 0..15 /\ c = LowDigit(c - 87)
    BY <1>3 DEF LowDigit
  <2> QED BY <2>1
<1> QED BY <1>1, <1>2, <1>3 DEF IsHex

(* A digit is no other character of a line, and both readers take it for    *)
(* the same value.                                                          *)
LEMMA HexFacts ==
  ASSUME NEW c, IsHex(c)
  PROVE  /\ c \in 48..102 /\ c > Space /\ ~(c < Space) /\ ~(c <= Space) /\ c # Hash /\ c # R /\ c # S
         /\ Value(c) \in 0..15 /\ Nibble(c) = Value(c)
<1>1. c \in 48..102 /\ c # R /\ c # S
  BY DEF IsHex, R, S
<1>2. PICK v \in 0..15 : c = HexDigit(v) \/ c = LowDigit(v)
  BY DigitOf
<1>3. Value(c) = v /\ Nibble(c) = v
  BY <1>2, DigitValue
<1> QED BY <1>1, <1>2, <1>3 DEF Space, Hash

(* The low bits of any character are a value of four bits.                  *)
LEMMA NibbleRange == ASSUME NEW c \in Int PROVE Nibble(c) \in 0..15
BY DEF Nibble

---------------------------------------------------------------------------------
(* The assumptions on the constants, one at a time.                         *)
LEMMA WordIsNat == Word \in Nat /\ Word > 0
BY TextAssumption

LEMMA CharsAreAscii == Chars \subseteq 0..127
BY TextAssumption

LEMMA StdIdsAreNat == StdIds \in Nat
BY TextAssumption

LEMMA BytesAreNat == MaxBytes \in Nat /\ MaxBytes > 0
BY TextAssumption

(* A remainder is what is left below the divisor, and there is only one.   *)
LEMMA Remainder ==
  ASSUME NEW n \in Nat \ {0}, NEW x \in Nat
  PROVE  /\ x \div n \in Nat /\ x % n \in 0..(n - 1)
         /\ x = n * (x \div n) + (x % n)
<1>1. x \div n \in Int /\ n * (x \div n) <= x /\ x < n * (x \div n) + n
  OBVIOUS
<1>2. x \div n >= 0
  BY Z3
<1>3. x % n \in 0..(n - 1)
  OBVIOUS
<1>4. x = n * (x \div n) + (x % n)
  BY Z3
<1> QED BY <1>1, <1>2, <1>3, <1>4

(* and it is found where it is written.                                     *)
LEMMA RemainderIs ==
  ASSUME NEW n \in Nat \ {0}, NEW q \in Nat, NEW r \in 0..(n - 1)
  PROVE  (n * q + r) % n = r /\ (n * q + r) \div n = q
<1> DEFINE x == n * q + r
           b == x \div n
           s == x % n
<1>1. n * q \in Nat /\ x \in Nat
  OBVIOUS
<1>2. b \in Nat /\ s \in 0..(n - 1) /\ n * q + r = n * b + s
  BY <1>1, Remainder
<1> HIDE DEF b, s
<1>3. n * (q - b) = n * q - n * b /\ n * b \in Nat
  BY <1>2
<1>4. q - b >= 1 => n * (q - b) >= n
  BY <1>2
<1>5. q - b <= -1 => n * (q - b) <= -n
  BY <1>2
<1>6. q - b = 0
  BY <1>1, <1>2, <1>3, <1>4, <1>5
<1>7. q = b /\ s = r
  BY <1>1, <1>2, <1>3, <1>6
<1> QED BY <1>7 DEF b, s

(* A product of sums, and a digit appended to a number that has wrapped     *)
(* around: it wraps around as the whole number does.                        *)
LEMMA Distribute ==
  ASSUME NEW n \in Nat, NEW a \in Nat, NEW b \in Nat
  PROVE  n * (a + b) = n * a + n * b /\ n * a \in Nat /\ n * b \in Nat
OBVIOUS

LEMMA Wraps ==
  ASSUME NEW a \in Nat, NEW d \in Nat
  PROVE  (16 * (a % Word) + d) % Word = (16 * a + d) % Word
<1> DEFINE q == a \div Word
           r == a % Word
           u == 16 * r + d
<1>1. q \in Nat /\ r \in Nat /\ a = Word * q + r
  BY Remainder, WordIsNat
<1> HIDE DEF q, r
<1>2. u \in Nat /\ u = 16 * r + d
  BY <1>1
<1> HIDE DEF u
<1>3. PICK k \in Nat, s \in 0..(Word - 1) : u = Word * k + s /\ s = u % Word
  <2>1. u \div Word \in Nat /\ u % Word \in 0..(Word - 1) /\ u = Word * (u \div Word) + (u % Word)
    <3>1. u \in Nat
      BY <1>2
    <3> QED BY <3>1, Remainder, WordIsNat
  <2> QED BY <2>1
<1>4. 16 * a + d = Word * (16 * q) + u
  BY <1>1, <1>2, WordIsNat
<1>5. /\ Word * (16 * q) + Word * k = Word * (16 * q + k) /\ 16 * q + k \in Nat
      /\ Word * (16 * q) \in Nat /\ Word * k \in Nat
  BY <1>1, <1>3, WordIsNat, Distribute
<1>6. 16 * a + d = Word * (16 * q + k) + s
  <2>1. s \in Nat
    BY <1>3, WordIsNat
  <2> QED BY <1>3, <1>4, <1>5, <2>1
<1>7. (16 * a + d) % Word = s
  <2> DEFINE j == 16 * q + k
  <2>1. j \in Nat /\ s \in 0..(Word - 1)
    BY <1>3, <1>5
  <2> HIDE DEF j
  <2>2. (Word * j + s) % Word = s
    BY <2>1, RemainderIs, WordIsNat
  <2> QED BY <1>6, <2>2 DEF j
<1>8. (16 * a + d) % Word = u % Word
  BY <1>3, <1>7
<1> QED BY <1>8 DEF u, r

(* The value of a number, as the parser takes it and as it is meant.       *)
LEMMA NumberMeant ==
  ASSUME NEW n \in Nat, NEW d, DOMAIN d = 1..n, \A k \in 1..n : IsHex(d[k])
  PROVE  /\ FoldLeft(WithDigit, 0, d) = FoldLeft(Extended, 0, d) % Word
         /\ FoldLeft(Extended, 0, d) \in Nat
<1>1. PICK v : AsRead!Runs(0, d, n, v) /\ FoldLeft(WithDigit, 0, d) = v[n]
  <2>1. AsRead!Folded(0, d, n) = FoldLeft(WithDigit, 0, d)
    BY Zenon DEF FoldLeft, MapThenFoldSet, AsRead!Folded, AsRead!Rec, Max, AsRead!Max
  <2> QED BY <2>1, AsRead!FoldRuns, Zenon
<1>2. PICK w : AsMeant!Runs(0, d, n, w) /\ FoldLeft(Extended, 0, d) = w[n]
  <2>1. AsMeant!Folded(0, d, n) = FoldLeft(Extended, 0, d)
    BY Zenon DEF FoldLeft, MapThenFoldSet, AsMeant!Folded, AsMeant!Rec, Max, AsMeant!Max
  <2> QED BY <2>1, AsMeant!FoldRuns, Zenon
<1>3. v[0] = 0 /\ \A k \in 1..n : v[k] = WithDigit(v[k - 1], d[k])
  BY <1>1, Zenon DEF AsRead!Runs
<1>4. w[0] = 0 /\ \A k \in 1..n : w[k] = Extended(w[k - 1], d[k])
  BY <1>2, Zenon DEF AsMeant!Runs
<1> DEFINE T == {k \in Nat : k <= n => w[k] \in Nat /\ v[k] = w[k] % Word}
<1>5. 0 \in T
  BY <1>3, <1>4, WordIsNat
<1>6. ASSUME NEW k \in Nat, k \in T PROVE k + 1 \in T
  <2> SUFFICES ASSUME k + 1 <= n PROVE w[k + 1] \in Nat /\ v[k + 1] = w[k + 1] % Word
    OBVIOUS
  <2>1. w[k] \in Nat /\ v[k] = w[k] % Word /\ k + 1 \in 1..n /\ (k + 1) - 1 = k
    BY <1>6
  <2>2. PICK x \in 0..15 : Value(d[k + 1]) = x /\ Nibble(d[k + 1]) = x
    BY <2>1, HexFacts
  <2>3. w[k + 1] = 16 * w[k] + x /\ v[k + 1] = (16 * v[k] + x) % Word
    BY <1>3, <1>4, <2>1, <2>2 DEF WithDigit, Extended
  <2>4. w[k + 1] \in Nat
    BY <2>1, <2>3
  <2>5. (16 * (w[k] % Word) + x) % Word = (16 * w[k] + x) % Word
    <3>1. x \in Nat
      OBVIOUS
    <3> QED BY <2>1, <3>1, Wraps, Zenon
  <2>6. v[k + 1] = w[k + 1] % Word
    BY <2>1, <2>3, <2>5, Zenon
  <2> QED BY <2>4, <2>6
<1> HIDE DEF T
<1>7. n \in T
  BY <1>5, <1>6, AsRead!Induction
<1> QED BY <1>1, <1>2, <1>7 DEF T

(* The least element of a set.                                              *)
LEMMA MinIs ==
  ASSUME NEW T \in SUBSET Int, NEW x \in T, \A y \in T : x <= y
  PROVE  Min(T) = x
<1>1. \A z \in T : (\A y \in T : z <= y) => z = x
  OBVIOUS
<1>2. Min(T) \in T /\ \A y \in T : Min(T) <= y
  BY Zenon DEF Min
<1> QED BY <1>1, <1>2

LEMMA MinOf ==
  ASSUME NEW T \in SUBSET Nat, T # {}
  PROVE  Min(T) \in T /\ \A y \in T : Min(T) <= y
BY AsRead!LeastNatural, Zenon DEF Min

(* The parts of a well-formed line, h being where the # is.                *)
Parts(l, h) ==
  /\ h \in 3..(Len(l) - 1) /\ l[1] = S /\ l[h] = Hash /\ l[Len(l)] < Space
  /\ \A i \in 2..(h - 1) : IsHex(l[i])
  /\ l[h + 1] # R =>
       /\ \A i \in (h + 1)..(Len(l) - 1) : IsHex(l[i])
       /\ \E m \in Nat : Len(l) - h = 2 * m + 1 /\ (Len(l) - h) \div 2 = m

(* A well-formed line has these parts, and only one #.                      *)
LEMMA LineParts ==
  ASSUME NEW l \in Seq(0..127), WellFormed(l)
  PROVE  \E h \in 3..(Len(l) - 1) : Parts(l, h) /\ HashAt(l) = h
<1>1. l # <<>> /\ Len(l) \in Nat /\ Len(l) > 0 /\ l[1] = S /\ l[Len(l)] < Space
  BY DEF WellFormed, Last
<1>2. PICK h \in 3..(Len(l) - 1) :
        /\ l[h] = Hash
        /\ \A i \in 2..(h - 1) : IsHex(l[i])
        /\ \/ /\ (Len(l) - h) % 2 = 1
              /\ \A i \in (h + 1)..(Len(l) - 1) : IsHex(l[i])
           \/ h = Len(l) - 2 /\ l[h + 1] = R
  BY Zenon DEF WellFormed
<1>3. HashAt(l) = h
  <2> DEFINE T == {i \in DOMAIN l : l[i] = Hash}
  <2>1. T \in SUBSET Int /\ h \in T
    BY <1>1, <1>2
  <2>2. ASSUME NEW y \in T PROVE h <= y
    <3>1. y \in 1..Len(l) /\ l[y] = Hash
      BY <1>1
    <3>2. y # 1
      BY <1>1, <3>1 DEF S, Hash
    <3>3. y \notin 2..(h - 1)
      BY <1>2, <3>1, HexFacts
    <3> QED BY <3>1, <3>2, <3>3
  <2> QED BY <2>1, <2>2, MinIs DEF HashAt
<1>4. ASSUME l[h + 1] # R
      PROVE  /\ \A i \in (h + 1)..(Len(l) - 1) : IsHex(l[i])
             /\ \E m \in Nat : Len(l) - h = 2 * m + 1 /\ (Len(l) - h) \div 2 = m
  <2>1. ASSUME NEW d \in Nat, d % 2 = 1
        PROVE  \E m \in Nat : d = 2 * m + 1 /\ d \div 2 = m
    <3>1. d = 2 * (d \div 2) + 1 /\ d \div 2 \in Nat
      BY <2>1
    <3> QED BY <3>1
  <2>2. Len(l) - h \in Nat
    BY <1>1, <1>2
  <2> QED BY <1>2, <1>4, <2>1, <2>2
<1>5. Parts(l, h)
  BY <1>1, <1>2, <1>4 DEF Parts
<1> QED BY <1>3, <1>5

(* The bytes of the data are as many as a frame has, or as the line has.   *)
LEMMA BytesOf ==
  ASSUME NEW m \in Nat
  PROVE  Min({MaxBytes, m}) = IF m < MaxBytes THEN m ELSE MaxBytes
<1>1. MaxBytes \in Nat
  BY TextAssumption
<1>2. CASE m < MaxBytes
  BY <1>1, <1>2, MinIs
<1>3. CASE ~(m < MaxBytes)
  BY <1>1, <1>3, MinIs
<1> QED BY <1>2, <1>3

(* The memory holds the line l.                                            *)
Holds(mem, l) ==
  Len(l) <= FillRange /\ \A i \in 1..Len(l) : mem[i - 1] = l[i]

(* A character of the line is where the parser looks for it.                *)
LEMMA HeldAt ==
  ASSUME NEW mem, NEW l \in Seq(0..127), Holds(mem, l), NEW i \in 0..(Len(l) - 1)
  PROVE  At(mem, i) = l[i + 1]
<1>1. i \in Nat /\ FillRange \in Nat /\ i < FillRange /\ i + 1 \in 1..Len(l)
  BY ParserAssumption DEF Holds
<1>2. i % FillRange = i
  BY <1>1
<1>3. mem[(i + 1) - 1] = l[i + 1] /\ (i + 1) - 1 = i
  BY <1>1 DEF Holds
<1> QED BY <1>2, <1>3 DEF At

(* The parser takes for the id what stands up to the #, and for the data   *)
(* the pairs of digits after it.                                           *)
LEMMA NumberEndsAtHash ==
  ASSUME NEW mem, NEW l \in Seq(0..127), Holds(mem, l), NEW h, Parts(l, h)
  PROVE  NumberEnd(mem, 1) = h - 1
<1> DEFINE T == {i \in 1..(1 + FillRange) : At(mem, i) > Space /\ ~IsHex(At(mem, i))}
<1>1. h \in 3..(Len(l) - 1) /\ Len(l) \in Nat /\ Len(l) <= FillRange /\ FillRange \in Nat
  BY ParserAssumption DEF Parts, Holds
<1>2. h - 1 \in T
  <2>1. At(mem, h - 1) = l[(h - 1) + 1] /\ (h - 1) + 1 = h
    BY <1>1, HeldAt
  <2>2. At(mem, h - 1) = Hash
    BY <2>1 DEF Parts
  <2>3. Hash > Space /\ ~IsHex(Hash)
    BY DEF Hash, Space, IsHex
  <2>4. h - 1 \in 1..(1 + FillRange)
    BY <1>1
  <2> QED BY <2>2, <2>3, <2>4
<1>3. ASSUME NEW i \in T PROVE h - 1 <= i
  <2>1. ASSUME i < h - 1 PROVE FALSE
    <3>1. i \in 1..(1 + FillRange) /\ ~IsHex(At(mem, i))
      BY <1>3
    <3>2. At(mem, i) = l[i + 1] /\ i + 1 \in 2..(h - 1)
      BY <1>1, <2>1, <3>1, HeldAt
    <3> QED BY <3>1, <3>2 DEF Parts
  <2>2. i \in Int
    BY <1>1
  <2> QED BY <1>1, <2>1, <2>2
<1>4. T \in SUBSET Int
  OBVIOUS
<1>5. Min(T) = h - 1
  BY <1>2, <1>3, <1>4, MinIs
<1> QED BY <1>5 DEF NumberEnd

(* Sequences, an element at a time.                                         *)
LEMMA Middle ==
  ASSUME NEW V, NEW s \in Seq(V), NEW m \in Int, NEW n \in Int, \A i \in m..n : i \in 1..Len(s)
  PROVE  SubSeq(s, m, n) \in Seq(V)
<1>1. \A i \in m..n : s[i] \in V
  OBVIOUS
<1> QED BY <1>1

LEMMA Element ==
  ASSUME NEW V, NEW s \in Seq(V), NEW i \in 1..Len(s)
  PROVE  s[i] \in V
OBVIOUS

LEMMA AsFunction ==
  ASSUME NEW V, NEW s \in Seq(V)
  PROVE  s = [k \in 1..Len(s) |-> s[k]] /\ 1..Len(s) = DOMAIN s
OBVIOUS

(* So the id is the number the digits before the # mean, as far as it fits  *)
(* in a word,                                                               *)
LEMMA IdRead ==
  ASSUME NEW mem, NEW l \in Seq(0..127), Holds(mem, l), NEW h, Parts(l, h)
  PROVE  parseHexNum(mem, 1) = FoldLeft(Extended, 0, SubSeq(l, 2, h - 1)) % Word
<1> DEFINE d == SubSeq(l, 2, h - 1)
           e == [k \in 1..(NumberEnd(mem, 1) - 1) |-> At(mem, 1 + k - 1)]
<1>1. h \in 3..(Len(l) - 1) /\ Len(l) \in Nat
  BY DEF Parts
<1>2. h - 2 \in Nat /\ DOMAIN d = 1..(h - 2) /\ \A k \in 1..(h - 2) : d[k] = l[k + 1]
  BY <1>1
<1>3. e = [k \in 1..(h - 2) |-> At(mem, 1 + k - 1)]
  BY <1>1, NumberEndsAtHash
<1>4. ASSUME NEW k \in 1..(h - 2) PROVE e[k] = d[k] /\ IsHex(d[k])
  <2>1. 1 + k - 1 = k /\ k \in 0..(Len(l) - 1) /\ k + 1 \in 2..(h - 1)
    BY <1>1
  <2>2. At(mem, k) = l[k + 1]
    BY <2>1, HeldAt
  <2>3. IsHex(l[k + 1])
    BY <2>1 DEF Parts
  <2> QED BY <1>2, <1>3, <2>1, <2>2, <2>3
<1>5. d = [k \in 1..(h - 2) |-> d[k]]
  <2>1. d \in Seq(0..127)
    <3>1. 2 \in Int /\ h - 1 \in Int /\ \A i \in 2..(h - 1) : i \in 1..Len(l)
      BY <1>1
    <3> QED BY <3>1, Middle, Zenon
  <2> HIDE DEF d
  <2>2. d = [k \in 1..Len(d) |-> d[k]] /\ 1..Len(d) = DOMAIN d
    BY <2>1, AsFunction, Zenon
  <2> QED BY <1>2, <2>2
<1> HIDE DEF d
<1>6. e = d
  BY <1>3, <1>4, <1>5
<1>7. FoldLeft(WithDigit, 0, d) = FoldLeft(Extended, 0, d) % Word
  BY <1>2, <1>4, NumberMeant
<1> QED BY <1>6, <1>7 DEF parseHexNum, d

PairsMeant(mem, l, h) ==
  \A k \in 1..DataLength(mem, h) :
    parseHexByte(mem, h + 2 * (k - 1)) = 16 * Value(l[h + 2 * k - 1]) + Value(l[h + 2 * k])

(* and the data are the bytes that the pairs of digits mean.                *)
LEMMA DataRead ==
  ASSUME NEW mem, NEW l \in Seq(0..127), Holds(mem, l), NEW h, Parts(l, h), l[h + 1] # R
  PROVE  /\ At(mem, h) # R
         /\ DataLength(mem, h) = Min({MaxBytes, (Len(l) - h) \div 2})
         /\ PairsMeant(mem, l, h)
<1>1. h \in 3..(Len(l) - 1) /\ Len(l) \in Nat /\ MaxBytes \in Nat
  BY TextAssumption DEF Parts
<1>2. PICK m \in Nat : Len(l) - h = 2 * m + 1 /\ (Len(l) - h) \div 2 = m
  BY DEF Parts
<1>3. At(mem, h) = l[h + 1]
  BY <1>1, HeldAt
<1> DEFINE least == IF m < MaxBytes THEN m ELSE MaxBytes
           T == {k \in 0..MaxBytes : k = MaxBytes \/ At(mem, h + 2 * k) <= Space}
<1>4. Min({MaxBytes, (Len(l) - h) \div 2}) = least
  BY <1>2, BytesOf
<1>5. least \in T
  <2>1. ASSUME m < MaxBytes PROVE At(mem, h + 2 * m) <= Space
    <3>1. h + 2 * m \in 0..(Len(l) - 1) /\ (h + 2 * m) + 1 = Len(l)
      BY <1>1, <1>2
    <3> DEFINE i == h + 2 * m
    <3>2. At(mem, i) = l[i + 1]
      BY <3>1, HeldAt
    <3>3. Len(l) \in 1..Len(l)
      BY <1>1
    <3>4. l[Len(l)] \in 0..127
      BY <3>3, Element, Zenon
    <3>5. l[Len(l)] < Space
      BY DEF Parts
    <3>6. \A x \in 0..127 : x < Space => x <= Space
      BY DEF Space
    <3> QED BY <3>1, <3>2, <3>4, <3>5, <3>6, Zenon
  <2>2. CASE m < MaxBytes
    BY <1>1, <2>1, <2>2
  <2>3. CASE ~(m < MaxBytes)
    BY <1>1, <2>3
  <2> QED BY <2>2, <2>3
<1>6. \A k \in 0..(m - 1) : IsHex(At(mem, h + 2 * k)) /\ IsHex(At(mem, h + 2 * k + 1))
  <2> TAKE k \in 0..(m - 1)
  <2>1. /\ h + 2 * k \in 0..(Len(l) - 1) /\ (h + 2 * k) + 1 \in (h + 1)..(Len(l) - 1)
        /\ h + 2 * k + 1 \in 0..(Len(l) - 1) /\ (h + 2 * k + 1) + 1 \in (h + 1)..(Len(l) - 1)
    BY <1>1, <1>2
  <2>2. At(mem, h + 2 * k) = l[(h + 2 * k) + 1] /\ At(mem, h + 2 * k + 1) = l[(h + 2 * k + 1) + 1]
    BY <2>1, HeldAt
  <2> QED BY <2>1, <2>2 DEF Parts
<1>7. ASSUME NEW k \in T PROVE least <= k
  <2>1. k \in 0..MaxBytes /\ (k = MaxBytes \/ At(mem, h + 2 * k) <= Space)
    BY <1>7
  <2>2. ASSUME k < m, k < MaxBytes PROVE FALSE
    <3>1. IsHex(At(mem, h + 2 * k))
      BY <1>6, <2>1, <2>2
    <3>2. ~(At(mem, h + 2 * k) <= Space)
      BY <3>1, HexFacts
    <3> QED BY <1>1, <2>1, <2>2, <3>2
  <2> QED BY <1>1, <2>1, <2>2
<1>8. T \in SUBSET Int
  OBVIOUS
<1>9. Min(T) = least
  BY <1>5, <1>7, <1>8, MinIs
<1>10. DataLength(mem, h) = least
  BY <1>9 DEF DataLength
<1>11. ASSUME NEW k \in 1..least
       PROVE  parseHexByte(mem, h + 2 * (k - 1))
                = 16 * Value(l[h + 2 * k - 1]) + Value(l[h + 2 * k])
  <2> DEFINE i == h + 2 * (k - 1)
  <2>1. /\ k - 1 \in 0..(m - 1) /\ i = h + 2 * k - 2 /\ i + 1 = h + 2 * k - 1
        /\ (i + 1) + 1 = h + 2 * k /\ i \in 0..(Len(l) - 1) /\ i + 1 \in 0..(Len(l) - 1)
    BY <1>1, <1>2
  <2>2. IsHex(At(mem, i)) /\ IsHex(At(mem, i + 1))
    BY <1>6, <2>1
  <2> HIDE DEF i
  <2>3. At(mem, i) = l[i + 1] /\ At(mem, i + 1) = l[(i + 1) + 1]
    BY <2>1, HeldAt
  <2>4. Nibble(At(mem, i)) = Value(l[h + 2 * k - 1]) /\ Nibble(At(mem, i + 1)) = Value(l[h + 2 * k])
    BY <2>1, <2>2, <2>3, HexFacts, Zenon
  <2>5. parseHexByte(mem, i) = 16 * Nibble(At(mem, i)) + Nibble(At(mem, i + 1))
    BY DEF parseHexByte
  <2> QED BY <2>4, <2>5 DEF i
<1>12. PairsMeant(mem, l, h)
  BY <1>10, <1>11, Zenon DEF PairsMeant
<1> QED BY <1>3, <1>4, <1>10, <1>12

(* The parser sends what a well-formed line means, which it finds at the   *)
(* start of the memory.                                                    *)
LEMMA LineRead ==
  ASSUME NEW mem, NEW l \in Seq(0..127), WellFormed(l), Holds(mem, l)
  PROVE  processCanCmd(mem).frame = Meaning(l)
<1>1. PICK h \in 3..(Len(l) - 1) : Parts(l, h) /\ HashAt(l) = h
  BY LineParts
<1> DEFINE id == FoldLeft(Extended, 0, SubSeq(l, 2, h - 1)) % Word
           n == Min({MaxBytes, (Len(l) - h) \div 2})
           data == [k \in 1..n |-> 16 * Value(l[h + 2 * k - 1]) + Value(l[h + 2 * k])]
<1>2. Meaning(l) = Frame(id, l[h + 1] = R, IF l[h + 1] = R THEN <<>> ELSE data)
  BY <1>1, Zenon DEF Meaning
<1>3. NumberEnd(mem, 1) = h - 1 /\ parseHexNum(mem, 1) = id
  BY <1>1, NumberEndsAtHash, IdRead
<1>4. NumberEnd(mem, 1) + 1 = h
  BY <1>3
<1>5. At(mem, h - 1) = Hash /\ At(mem, h) = l[h + 1]
  <2>1. Len(l) \in Nat
    OBVIOUS
  <2>2. h - 1 \in 0..(Len(l) - 1) /\ (h - 1) + 1 = h /\ h \in 0..(Len(l) - 1)
    BY <2>1
  <2> QED BY <2>2, HeldAt, <1>1 DEF Parts
<1> HIDE DEF id, n
<1>6. CASE l[h + 1] = R
  <2>1. processCanCmd(mem).frame = Frame(id, TRUE, <<>>)
    BY <1>3, <1>4, <1>5, <1>6, Zenon DEF processCanCmd
  <2> QED BY <1>2, <1>6, <2>1
<1>7. CASE l[h + 1] # R
  <2> DEFINE sentData == [k \in 1..DataLength(mem, h) |-> parseHexByte(mem, h + 2 * (k - 1))]
  <2>1. processCanCmd(mem).frame = Frame(id, FALSE, sentData)
    BY <1>3, <1>4, <1>5, <1>7, Zenon DEF processCanCmd
  <2>2. DataLength(mem, h) = n
    BY <1>1, <1>7, DataRead, Zenon DEF n
  <2>3. \A k \in 1..DataLength(mem, h) :
          parseHexByte(mem, h + 2 * (k - 1)) = 16 * Value(l[h + 2 * k - 1]) + Value(l[h + 2 * k])
    <3>1. PairsMeant(mem, l, h)
      BY <1>1, <1>7, DataRead, Zenon
    <3> QED BY <3>1, Zenon DEF PairsMeant
  <2>4. sentData = data
    BY <2>2, <2>3, Zenon
  <2> HIDE DEF data, sentData
  <2> QED BY <1>2, <1>7, <2>1, <2>4
<1> QED BY <1>6, <1>7

Memories == [0..(FillRange - 1) -> 0..127]

(* What the parser reads is a character, wherever it reads.                 *)
LEMMA AtMemory ==
  ASSUME NEW mem \in Memories, NEW i \in Nat
  PROVE  At(mem, i) \in 0..127
<1>1. FillRange \in Nat \ {0}
  BY ParserAssumption
<1>2. i % FillRange \in 0..(FillRange - 1)
  BY <1>1
<1> QED BY <1>2 DEF At, Memories

(* A number read is a word, whatever it is read from.                      *)
LEMMA NumberRange ==
  ASSUME NEW n \in Nat, NEW d, DOMAIN d = 1..n, \A k \in 1..n : d[k] \in 0..127
  PROVE  FoldLeft(WithDigit, 0, d) \in 0..(Word - 1)
<1>1. PICK v : AsRead!Runs(0, d, n, v) /\ FoldLeft(WithDigit, 0, d) = v[n]
  <2>1. AsRead!Folded(0, d, n) = FoldLeft(WithDigit, 0, d)
    BY Zenon DEF FoldLeft, MapThenFoldSet, AsRead!Folded, AsRead!Rec, Max, AsRead!Max
  <2> QED BY <2>1, AsRead!FoldRuns, Zenon
<1>2. v[0] = 0 /\ \A k \in 1..n : v[k] = WithDigit(v[k - 1], d[k])
  BY <1>1, Zenon DEF AsRead!Runs
<1> DEFINE T == {k \in Nat : k <= n => v[k] \in 0..(Word - 1)}
<1>3. 0 \in T
  BY <1>2, WordIsNat
<1>4. ASSUME NEW k \in Nat, k \in T PROVE k + 1 \in T
  <2> SUFFICES ASSUME k + 1 <= n PROVE v[k + 1] \in 0..(Word - 1)
    OBVIOUS
  <2>1. v[k] \in 0..(Word - 1) /\ k + 1 \in 1..n /\ (k + 1) - 1 = k
    BY <1>4
  <2>2. v[k + 1] = WithDigit(v[k], d[k + 1]) /\ d[k + 1] \in Int
    <3>1. d[k + 1] \in 0..127
      BY <2>1
    <3>2. v[k + 1] = WithDigit(v[(k + 1) - 1], d[k + 1])
      BY <1>2, <2>1
    <3>3. \A x \in 0..127 : x \in Int
      OBVIOUS
    <3> QED BY <2>1, <3>1, <3>2, <3>3, Zenon
  <2>3. PICK x \in 0..15 : x = Nibble(d[k + 1])
    BY <2>2, NibbleRange
  <2>4. PICK u \in Nat : u = v[k]
    BY <2>1, WordIsNat
  <2>5. 16 * u + x \in Nat
    OBVIOUS
  <2>6. (16 * u + x) % Word \in 0..(Word - 1)
    BY <2>5, WordIsNat
  <2> QED BY <2>1, <2>2, <2>3, <2>4, <2>6 DEF WithDigit
<1> HIDE DEF T
<1>5. n \in T
  BY <1>3, <1>4, AsRead!Induction
<1> QED BY <1>1, <1>5 DEF T

(* What the controller can send.                                           *)
Sendable(f) ==
  /\ f = Frame(f.id, f.remote, f.data)
  /\ f.id \in 0..(Word - 1) /\ f.ext \in BOOLEAN /\ f.remote \in BOOLEAN
  /\ f.data \in Seq(0..255) /\ Len(f.data) <= MaxBytes

(* An id of a word and a few bytes make a frame that can be sent.           *)
LEMMA FrameSendable ==
  ASSUME NEW id \in 0..(Word - 1), NEW r \in BOOLEAN, NEW d \in Seq(0..255), Len(d) <= MaxBytes
  PROVE  Sendable(Frame(id, r, d))
BY TextAssumption DEF Sendable, Frame

(* A command is read to its end, and makes nothing that cannot be sent.    *)
LEMMA CommandRead ==
  ASSUME NEW mem \in Memories, mem[0] = S
  PROVE  /\ processCanCmd(mem).fill \in 0..(FillRange - 1)
         /\ processCanCmd(mem).frame # None => Sendable(processCanCmd(mem).frame)
<1>1. FillRange \in Nat /\ FillRange > 1 /\ MaxBytes \in Nat
  BY ParserAssumption, TextAssumption
<1> DEFINE T == {i \in 1..(1 + FillRange) : At(mem, i) > Space /\ ~IsHex(At(mem, i))}
<1>2. FillRange \in T
  <2>1. FillRange % FillRange = 0 /\ FillRange \in 1..(1 + FillRange)
    BY <1>1
  <2>2. At(mem, FillRange) = S
    BY <2>1 DEF At
  <2>3. S > Space /\ ~IsHex(S)
    BY DEF S, Space, IsHex
  <2> QED BY <2>1, <2>2, <2>3
<1>3. T \in SUBSET Nat
  OBVIOUS
<1>4. NumberEnd(mem, 1) \in T
  BY <1>2, <1>3, MinOf DEF NumberEnd
<1> HIDE DEF T
<1> DEFINE e == NumberEnd(mem, 1)
           from == e + 1
           n == DataLength(mem, from)
           data == [k \in 1..n |-> parseHexByte(mem, from + 2 * (k - 1))]
<1>5. e \in Nat /\ e >= 1 /\ from \in Nat
  BY <1>4, <1>1 DEF T
<1>6. parseHexNum(mem, 1) \in 0..(Word - 1)
  <2> DEFINE d == [k \in 1..(e - 1) |-> At(mem, 1 + k - 1)]
  <2>1. e - 1 \in Nat /\ DOMAIN d = 1..(e - 1)
    BY <1>5
  <2>2. \A k \in 1..(e - 1) : d[k] \in 0..127
    <3> TAKE k \in 1..(e - 1)
    <3>1. 1 + k - 1 \in Nat
      BY <2>1
    <3> QED BY <3>1, AtMemory
  <2>3. parseHexNum(mem, 1) = FoldLeft(WithDigit, 0, d)
    BY Zenon DEF parseHexNum
  <2> HIDE DEF d, e
  <2> QED BY <2>1, <2>2, <2>3, NumberRange
<1> HIDE DEF e
<1>7. n \in 0..MaxBytes
  <2> DEFINE U == {k \in 0..MaxBytes : k = MaxBytes \/ At(mem, from + 2 * k) <= Space}
  <2>1. U \in SUBSET Nat /\ MaxBytes \in U
    BY <1>1
  <2>2. Min(U) \in U
    BY <2>1, MinOf
  <2> QED BY <2>2 DEF DataLength
<1> HIDE DEF from
<1>8. data \in Seq(0..255) /\ Len(data) = n
  <2>1. ASSUME NEW k \in 1..n PROVE parseHexByte(mem, from + 2 * (k - 1)) \in 0..255
    <3> DEFINE i == from + 2 * (k - 1)
    <3>1. i \in Nat /\ i + 1 \in Nat
      BY <1>5, <1>7 DEF from
    <3> HIDE DEF i
    <3>2. At(mem, i) \in Int /\ At(mem, i + 1) \in Int
      BY <3>1, AtMemory
    <3>3. Nibble(At(mem, i)) \in 0..15 /\ Nibble(At(mem, i + 1)) \in 0..15
      BY <3>2, NibbleRange
    <3>4. parseHexByte(mem, i) \in 0..255
      BY <3>3 DEF parseHexByte
    <3> QED BY <3>4 DEF i
  <2> HIDE DEF n
  <2>2. n \in Nat
    BY <1>7, <1>1
  <2> QED BY <2>1, <2>2
<1> HIDE DEF n, data
<1> DEFINE id == parseHexNum(mem, 1)
<1>9. /\ processCanCmd(mem).fill \in {from % FillRange, (from + 2 * n) % FillRange}
      /\ processCanCmd(mem).frame \in {None, Frame(id, TRUE, <<>>), Frame(id, FALSE, data)}
  <2>1. processCanCmd(mem) =
          IF At(mem, from - 1) # Hash THEN [frame |-> None, fill |-> from % FillRange]
          ELSE IF At(mem, from) = R
               THEN [frame |-> Frame(id, TRUE, <<>>), fill |-> from % FillRange]
               ELSE [frame |-> Frame(id, FALSE, data), fill |-> (from + 2 * n) % FillRange]
    BY Zenon DEF processCanCmd, from, n, data, e
  <2> HIDE DEF id
  <2> QED BY <2>1
<1> HIDE DEF id
<1>10. from \in Nat /\ from + 2 * n \in Nat
  BY <1>5, <1>7, <1>1 DEF from
<1>11. from % FillRange \in 0..(FillRange - 1) /\ (from + 2 * n) % FillRange \in 0..(FillRange - 1)
  BY <1>10, <1>1
<1>12. Sendable(Frame(id, TRUE, <<>>)) /\ Sendable(Frame(id, FALSE, data))
  <2>1. <<>> \in Seq(0..255) /\ Len(<<>>) <= MaxBytes /\ Len(data) <= MaxBytes
    BY <1>1, <1>7, <1>8
  <2> QED BY <1>6, <1>8, <2>1, FrameSendable DEF id
<1> QED BY <1>9, <1>11, <1>12

(* A line that has begun and not ended is in the buffer, from its start to *)
(* where the next character goes.                                          *)
Open == line # <<>> /\ Last(line) >= Space
Buffered ==
  /\ Len(line) <= BufSize /\ canCmdFill = Len(line) /\ line[1] = S
  /\ \A i \in 1..Len(line) : canCmdBuf[i - 1] = line[i]

Lined ==
  /\ canCmdBuf \in [0..(BufSize - 1) -> 0..127] /\ canCmdFill \in 0..(FillRange - 1)
  /\ line \in Seq(0..127)
  /\ Open => Buffered
  /\ canCmdBuf[0] = S => Open

Result == sent # None => Sendable(sent)

ParserInv == Lined /\ Result /\ SentAsWritten /\ SendsOnlyLines

(* The parser starts with an empty buffer and no line.                      *)
LEMMA ParserStarts == ParserInit => ParserInv
<1> SUFFICES ASSUME ParserInit PROVE ParserInv
  OBVIOUS
<1>1. line = <<>> /\ sent = None /\ canCmdFill = 0 /\ canCmdBuf = [i \in 0..(BufSize - 1) |-> 0]
  BY DEF ParserInit
<1>2. Lined
  <2>1. BufSize \in Nat \ {0} /\ FillRange \in Nat \ {0}
    BY ParserAssumption
  <2>2. canCmdBuf[0] # S
    BY <1>1, <2>1 DEF S
  <2> QED BY <1>1, <2>1, <2>2 DEF Lined, Open
<1>3. ~WellFormed(line)
  BY <1>1 DEF WellFormed
<1> QED BY <1>1, <1>2, <1>3 DEF ParserInv, Result, SentAsWritten, SendsOnlyLines

(* The last character of a line, and a line with one more.                  *)
LEMMA LastOf ==
  ASSUME NEW s \in Seq(0..127), s # <<>>
  PROVE  /\ Last(s) \in 0..127 /\ Len(s) \in Nat /\ Len(s) > 0
         /\ (Last(s) < Space <=> ~(Last(s) >= Space))
<1>1. Len(s) \in Nat /\ Len(s) > 0 /\ Len(s) \in 1..Len(s)
  OBVIOUS
<1>2. s[Len(s)] \in 0..127
  BY <1>1, Element, Zenon
<1>3. \A x \in 0..127 : x < Space <=> ~(x >= Space)
  BY DEF Space
<1> QED BY <1>1, <1>2, <1>3, Zenon DEF Last

LEMMA Appended ==
  ASSUME NEW s \in Seq(0..127), NEW c \in 0..127
  PROVE  /\ Append(s, c) \in Seq(0..127) /\ Len(Append(s, c)) = Len(s) + 1
         /\ Append(s, c) # <<>> /\ Last(Append(s, c)) = c
         /\ \A i \in 1..Len(s) : Append(s, c)[i] = s[i]
         /\ Append(s, c)[Len(s) + 1] = c
<1>1. Len(s) \in Nat
  OBVIOUS
<1>2. /\ Append(s, c) \in Seq(0..127) /\ Len(Append(s, c)) = Len(s) + 1
      /\ \A i \in 1..Len(s) : Append(s, c)[i] = s[i]
      /\ Append(s, c)[Len(s) + 1] = c
  OBVIOUS
<1>3. Append(s, c) # <<>>
  BY <1>1, <1>2
<1>4. Last(Append(s, c)) = c
  BY <1>2 DEF Last
<1> QED BY <1>2, <1>3, <1>4

(* A character that does not end a line.                                   *)
LEMMA CharKept ==
  ASSUME Lined, NEW c \in 0..127, Recorded(c), sent' = None,
         canCmdBuf' = [canCmdBuf EXCEPT ![Position(c)] = c], canCmdFill' = Position(c) + 1,
         ~(c < Space /\ canCmdBuf'[0] = S)
  PROVE  ParserInv'
<1>1. /\ BufSize \in Nat \ {0} /\ FillRange \in Nat /\ FillRange > BufSize
      /\ canCmdFill \in Nat /\ line \in Seq(0..127) /\ Len(line) \in Nat
  BY ParserAssumption DEF Lined
<1>2. Position(c) \in 0..(BufSize - 1)
  BY <1>1 DEF Position
<1>3. canCmdBuf' \in [0..(BufSize - 1) -> 0..127] /\ canCmdFill' \in 0..(FillRange - 1)
  BY <1>1, <1>2 DEF Lined
<1>4. canCmdBuf'[Position(c)] = c
      /\ \A i \in 0..(BufSize - 1) : i # Position(c) => canCmdBuf'[i] = canCmdBuf[i]
  BY <1>2 DEF Lined
<1>5. CASE c = S
  <2>1. line' = <<S>> /\ Position(c) = 0
    BY <1>5 DEF Recorded, Position
  <2>2. line' \in Seq(0..127) /\ Len(line') = 1 /\ line'[1] = S /\ Last(line') = S /\ line' # <<>>
    BY <2>1 DEF S, Last
  <2>3. Open'
    BY <2>2 DEF Open, S, Space
  <2>4. Buffered'
    BY <1>1, <1>4, <1>5, <2>1, <2>2 DEF Buffered
  <2>5. ~WellFormed(line')
    BY <2>2 DEF WellFormed
  <2> QED BY <1>3, <2>2, <2>3, <2>4, <2>5 DEF ParserInv, Lined, Result, SentAsWritten, SendsOnlyLines
<1>6. CASE c # S /\ Open /\ Len(line) < BufSize
  <2>1. line' = Append(line, c) /\ Position(c) = Len(line) /\ Buffered
    <3>1. ~(Last(line) < Space) /\ Len(line) # BufSize /\ line # <<>>
      <4>1. line # <<>> /\ Last(line) >= Space
        BY <1>6 DEF Open
      <4>2. ~(Last(line) < Space)
        BY <1>1, <4>1, LastOf, Zenon
      <4> QED BY <1>1, <1>6, <4>1, <4>2
    <3>2. Buffered
      BY <1>6 DEF Lined
    <3> QED BY <1>1, <1>6, <3>1, <3>2 DEF Recorded, Position, Buffered
  <2>2. line' \in Seq(0..127) /\ line' # <<>> /\ Last(line') = c /\ Len(line') = Len(line) + 1
    <3>1. line' \in Seq(0..127) /\ line' # <<>> /\ Last(line') = c
      <4> DEFINE l == Append(line, c)
      <4>1. l \in Seq(0..127) /\ l # <<>> /\ Last(l) = c
        BY <1>1, Appended
      <4> QED BY <2>1, <4>1, Zenon
    <3>2. Len(line') = Len(line) + 1
      BY <1>1, <2>1
    <3> QED BY <3>1, <3>2
  <2>3. Buffered'
    <3>1. Len(line') <= BufSize /\ canCmdFill' = Len(line')
      BY <1>1, <1>6, <2>1, <2>2
    <3>2. Len(line) > 0
      BY <1>1, <1>6 DEF Open
    <3>3. \A i \in 1..Len(line) : line'[i] = line[i] /\ canCmdBuf'[i - 1] = line[i]
      <4> TAKE i \in 1..Len(line)
      <4>1. i - 1 \in 0..(BufSize - 1) /\ i - 1 # Position(c)
        BY <1>1, <1>6, <2>1
      <4>2. canCmdBuf'[i - 1] = canCmdBuf[i - 1]
        BY <1>4, <4>1
      <4>3. line'[i] = line[i]
        BY <1>1, <2>1, Appended
      <4> QED BY <2>1, <4>2, <4>3 DEF Buffered
    <3>4. line'[Len(line) + 1] = c /\ canCmdBuf'[(Len(line) + 1) - 1] = c
      <4>1. line'[Len(line) + 1] = c
        BY <1>1, <2>1, Appended
      <4>2. (Len(line) + 1) - 1 = Position(c)
        BY <1>1, <2>1
      <4> QED BY <1>4, <4>1, <4>2
    <3>5. \A i \in 1..Len(line') : i \in 1..Len(line) \/ i = Len(line) + 1
      BY <1>1, <2>2
    <3>6. \A i \in 1..Len(line') : canCmdBuf'[i - 1] = line'[i]
      BY <3>3, <3>4, <3>5
    <3>7. line'[1] = S
      BY <1>1, <2>1, <3>2, <3>3 DEF Buffered
    <3> QED BY <3>1, <3>6, <3>7 DEF Buffered
  <2>4. c >= Space
    <3>1. canCmdBuf'[0] = S
      BY <1>1, <1>6, <2>2, <2>3, <1>1 DEF Buffered, Open
    <3> QED BY <3>1 DEF Space
  <2>5. Open' /\ ~WellFormed(line')
    BY <2>2, <2>4 DEF Open, WellFormed, Space
  <2> QED BY <1>3, <2>2, <2>3, <2>5 DEF ParserInv, Lined, Result, SentAsWritten, SendsOnlyLines
<1>7. CASE c # S /\ ~(Open /\ Len(line) < BufSize)
  <2>1. line' = <<>>
    <3>1. CASE ~Open
      <4>2. line = <<>> \/ Last(line) < Space
        BY <1>1, <3>1, LastOf, Zenon DEF Open
      <4> QED BY <1>7, <4>2 DEF Recorded
    <3>2. CASE Open
      <4>1. Len(line) = BufSize
        BY <1>1, <1>7, <3>2 DEF Lined, Buffered
      <4> QED BY <1>7, <4>1 DEF Recorded
    <3> QED BY <3>1, <3>2
  <2>2. canCmdBuf'[0] # S
    <3>1. CASE Position(c) = 0
      BY <1>4, <1>7, <3>1
    <3>2. CASE Position(c) # 0
      <4>1. canCmdFill < BufSize /\ canCmdBuf'[0] = canCmdBuf[0]
        BY <1>1, <1>4, <3>2 DEF Position
      <4>2. ~Open
        BY <1>1, <1>7, <4>1 DEF Lined, Buffered
      <4> QED BY <4>1, <4>2 DEF Lined
    <3> QED BY <3>1, <3>2
  <2>3. ~WellFormed(line') /\ ~Open' /\ line' \in Seq(0..127)
    BY <2>1 DEF WellFormed, Open
  <2> QED BY <1>3, <2>2, <2>3 DEF ParserInv, Lined, Result, SentAsWritten, SendsOnlyLines
<1> QED BY <1>5, <1>6, <1>7

(* A character that ends a line, with whatever is in the memory behind.    *)
LEMMA LineEnded ==
  ASSUME Lined, NEW c \in 0..127, Recorded(c), c < Space, NEW beyond \in Beyond, NEW buf,
         buf = [canCmdBuf EXCEPT ![Position(c)] = c], buf[0] = S,
         sent' = processCanCmd(Memory(buf, beyond)).frame,
         canCmdFill' = processCanCmd(Memory(buf, beyond)).fill, canCmdBuf' = Emptied(buf)
  PROVE  ParserInv'
<1> DEFINE mem == Memory(buf, beyond)
<1>1. /\ BufSize \in Nat \ {0} /\ FillRange \in Nat /\ FillRange > BufSize
      /\ canCmdFill \in Nat /\ line \in Seq(0..127) /\ Len(line) \in Nat
      /\ beyond \in [BufSize..(FillRange - 1) -> 0..127]
  BY ParserAssumption DEF Lined
<1>2. Position(c) \in 0..(BufSize - 1) /\ c # S
  BY <1>1 DEF Position, S, Space
<1>3. /\ buf \in [0..(BufSize - 1) -> 0..127] /\ buf[Position(c)] = c
      /\ \A i \in 0..(BufSize - 1) : i # Position(c) => buf[i] = canCmdBuf[i]
  BY <1>2 DEF Lined
<1>4. Position(c) # 0 /\ canCmdBuf[0] = S /\ canCmdFill < BufSize /\ Position(c) = canCmdFill
  BY <1>1, <1>2, <1>3 DEF Position
<1>5. Open /\ Buffered
  BY <1>4 DEF Lined
<1>6. line' = Append(line, c)
  <2>1. line # <<>> /\ Last(line) >= Space
    BY <1>5 DEF Open
  <2>2. ~(Last(line) < Space)
    BY <1>1, <2>1, LastOf, Zenon
  <2>3. Len(line) # BufSize
    BY <1>4, <1>5 DEF Buffered
  <2> QED BY <1>2, <2>1, <2>2, <2>3, Zenon DEF Recorded
<1>7. line' \in Seq(0..127) /\ line' # <<>> /\ Last(line') = c /\ Len(line') = Len(line) + 1
  <2> DEFINE l == Append(line, c)
  <2>1. l \in Seq(0..127) /\ l # <<>> /\ Last(l) = c /\ Len(l) = Len(line) + 1
    BY <1>1, Appended
  <2> QED BY <1>6, <2>1, Zenon
<1>8. mem \in Memories /\ \A i \in 0..(BufSize - 1) : mem[i] = buf[i]
  <2>1. mem = [i \in 0..(FillRange - 1) |-> IF i < BufSize THEN buf[i] ELSE beyond[i]]
    BY Zenon DEF Memory
  <2> HIDE DEF mem
  <2>2. mem \in Memories
    BY <1>1, <1>3, <2>1 DEF Memories
  <2>3. \A i \in 0..(BufSize - 1) : i \in 0..(FillRange - 1) /\ i < BufSize
    BY <1>1
  <2> QED BY <2>1, <2>2, <2>3, Zenon
<1> HIDE DEF mem
<1>9. Holds(mem, line')
  <2>1. Len(line') <= FillRange
    BY <1>1, <1>4, <1>5, <1>7 DEF Buffered
  <2>2. ASSUME NEW i \in 1..Len(line') PROVE mem[i - 1] = line'[i]
    <3> DEFINE l == Append(line, c)
    <3>1. CASE i \in 1..Len(line)
      <4>1. i - 1 \in 0..(BufSize - 1) /\ i - 1 # Position(c)
        BY <1>1, <1>4, <1>5, <3>1 DEF Buffered
      <4>2. mem[i - 1] = buf[i - 1] /\ buf[i - 1] = canCmdBuf[i - 1]
        BY <1>3, <1>8, <4>1
      <4>3. canCmdBuf[i - 1] = line[i]
        BY <1>5, <3>1 DEF Buffered
      <4>4. l[i] = line[i]
        BY <1>1, <3>1, Appended
      <4> QED BY <1>6, <4>2, <4>3, <4>4
    <3>2. CASE i = Len(line) + 1
      <4>1. i - 1 = Position(c)
        BY <1>1, <1>4, <1>5, <3>2 DEF Buffered
      <4>2. mem[i - 1] = c
        BY <1>2, <1>3, <1>8, <4>1
      <4>3. l[i] = c
        BY <1>1, <3>2, Appended
      <4> QED BY <1>6, <4>2, <4>3
    <3> QED BY <1>1, <1>7, <3>1, <3>2
  <2> QED BY <2>1, <2>2 DEF Holds
<1>10. mem[0] = S
  <2>1. 0 \in 0..(BufSize - 1)
    BY <1>1
  <2> QED BY <1>8, <2>1
<1>11. SentAsWritten'
  <2>1. ASSUME WellFormed(line') PROVE processCanCmd(mem).frame = Meaning(line')
    BY <1>7, <1>9, <2>1, LineRead
  <2> QED BY <2>1 DEF SentAsWritten, mem
<1>12. canCmdFill' \in 0..(FillRange - 1) /\ Result'
  BY <1>8, <1>10, CommandRead DEF Result, mem
<1>13. canCmdBuf' \in [0..(BufSize - 1) -> 0..127] /\ canCmdBuf'[0] # S
  <2>1. 0 \in 0..(BufSize - 1) /\ 0 \in 0..127 /\ 0 # S
    BY <1>1 DEF S
  <2>2. canCmdBuf' = [buf EXCEPT ![0] = 0]
    BY DEF Emptied
  <2> QED BY <1>3, <2>1, <2>2
<1>14. ~Open'
  BY <1>7 DEF Open, Space
<1>15. SendsOnlyLines'
  BY <1>7 DEF SendsOnlyLines
<1> QED BY <1>7, <1>11, <1>12, <1>13, <1>14, <1>15 DEF ParserInv, Lined

(* Every character keeps the invariant, and so does every step that leaves  *)
(* the parser alone.                                                        *)
LEMMA ParserSteps == ParserInv /\ ParserNext => ParserInv'
<1> SUFFICES ASSUME ParserInv, NEW c \in Chars, Receive(c) PROVE ParserInv'
  BY DEF ParserNext
<1> DEFINE buf == [canCmdBuf EXCEPT ![Position(c)] = c]
<1>1. Lined /\ c \in 0..127 /\ Recorded(c)
  BY TextAssumption DEF ParserInv, Receive
<1>2. CASE c < Space /\ buf[0] = S
  <2>1. PICK beyond \in Beyond :
          LET result == processCanCmd(Memory(buf, beyond))
          IN  sent' = result.frame /\ canCmdFill' = result.fill /\ canCmdBuf' = Emptied(buf)
    BY <1>2, Zenon DEF Receive
  <2> HIDE DEF buf
  <2> QED BY <1>1, <1>2, <2>1, LineEnded DEF buf
<1>3. CASE ~(c < Space /\ buf[0] = S)
  <2>1. canCmdBuf' = buf /\ canCmdFill' = Position(c) + 1 /\ sent' = None
    BY <1>3, Zenon DEF Receive
  <2> QED BY <1>1, <1>3, <2>1, CharKept
<1> QED BY <1>2, <1>3

LEMMA ParserStays == ParserInv /\ UNCHANGED parserVars => ParserInv'
BY Zenon DEF ParserInv, parserVars, Lined, Open, Buffered, Result, SentAsWritten, SendsOnlyLines

(* The invariant has the types of the parser.                               *)
LEMMA ParserTypes == ParserInv => ParserTypeOK
BY DEF ParserInv, Lined, Result, Sendable, ParserTypeOK

(* The id that the digits of a line up to its k-th character mean.         *)
IdTo(l, k) == FoldLeft(Extended, 0, SubSeq(l, 2, k))

(* It is a fold that grows with the line: 0 at the S, then one digit after  *)
(* another; what follows the line does not change it.                       *)
LEMMA IdIsFold ==
  ASSUME NEW V, NEW l \in Seq(V), NEW k \in 1..Len(l)
  PROVE  IdTo(l, k) = AsMeant!Folded(0, SubSeq(l, 2, k), k - 1)
<1> DEFINE d == SubSeq(l, 2, k)
<1>1. Len(l) \in Nat
  OBVIOUS
<1>2. DOMAIN d = 1..(k - 1)
  BY <1>1
<1> HIDE DEF d
<1>3. AsMeant!Folded(0, d, k - 1) = FoldLeft(Extended, 0, d)
  BY <1>2, Zenon DEF FoldLeft, MapThenFoldSet, AsMeant!Folded, AsMeant!Rec, Max, AsMeant!Max
<1> QED BY <1>3 DEF IdTo, d

LEMMA IdStarts ==
  ASSUME NEW V, NEW l \in Seq(V), l # <<>>
  PROVE  IdTo(l, 1) = 0
<1>1. 1 \in 1..Len(l) /\ 1 - 1 = 0
  OBVIOUS
<1>2. IdTo(l, 1) = AsMeant!Folded(0, SubSeq(l, 2, 1), 0)
  BY <1>1, IdIsFold, Zenon
<1> QED BY <1>2, AsMeant!FoldStarts, Zenon

LEMMA IdGrows ==
  ASSUME NEW V, NEW l \in Seq(V), NEW k \in 1..(Len(l) - 1)
  PROVE  IdTo(l, k + 1) = Extended(IdTo(l, k), l[k + 1])
<1> DEFINE d == SubSeq(l, 2, k)
           e == SubSeq(l, 2, k + 1)
<1>1. k \in 1..Len(l) /\ k + 1 \in 1..Len(l) /\ k - 1 \in Nat /\ (k + 1) - 1 = (k - 1) + 1
  OBVIOUS
<1>2. IdTo(l, k) = AsMeant!Folded(0, d, k - 1)
  BY <1>1, IdIsFold, Zenon
<1>3. IdTo(l, k + 1) = AsMeant!Folded(0, e, (k - 1) + 1)
  BY <1>1, IdIsFold, Zenon
<1>4. (\A i \in 1..(k - 1) : e[i] = d[i]) /\ e[(k - 1) + 1] = l[k + 1]
  OBVIOUS
<1> HIDE DEF d, e
<1>5. AsMeant!Folded(0, e, (k - 1) + 1) = Extended(AsMeant!Folded(0, d, k - 1), e[(k - 1) + 1])
  BY <1>1, <1>4, AsMeant!FoldGrows, Zenon
<1> QED BY <1>2, <1>3, <1>4, <1>5, Zenon

LEMMA IdSame ==
  ASSUME NEW V, NEW l \in Seq(V), NEW longer \in Seq(V), NEW k \in 1..Len(l), Len(l) <= Len(longer),
         \A i \in 1..Len(l) : longer[i] = l[i]
  PROVE  IdTo(longer, k) = IdTo(l, k)
<1>1. SubSeq(longer, 2, k) = SubSeq(l, 2, k)
  OBVIOUS
<1> QED BY <1>1 DEF IdTo

DataFrames ==
  {f \in [ext: BOOLEAN, id: 0..(Word - 1), remote: {FALSE}, data: Seq(0..255)] :
     f = Frame(f.id, FALSE, f.data) /\ Len(f.data) <= MaxBytes}
Sendings == {None} \cup DataFrames
Words == 0..(Word - 1)
Nibbles == 0..(2 * MaxBytes)
Buffers == [0..(MaxBytes - 1) -> 0..255]
SerialStates ==
  [state: {"sNONE", "sADDR", "sDATA"}, eid: Words, nibble: Nibbles, data8: Buffers, sent: Sendings]

Limited(s, c) == s.state = "sDATA" /\ s.nibble = 2 * MaxBytes => c < 48

(* Two digits make a byte.                                                  *)
LEMMA Half ==
  ASSUME NEW n \in Nat, NEW k \in 0..(2 * n)
  PROVE  /\ k \div 2 \in 0..n /\ k \div 2 \in Nat
         /\ k < 2 * n => k \div 2 \in 0..(n - 1)
         /\ k = 2 * (k \div 2) \/ k = 2 * (k \div 2) + 1
OBVIOUS

(* A digit pushes the one before it up, and what was before that out.      *)
LEMMA ShiftedByte ==
  ASSUME NEW b \in 0..255, NEW c \in Int
  PROVE  /\ Shifted(b, c) \in 0..255 /\ Shifted(b, c) % 16 = Nibble(c)
         /\ Shifted(b, c) = 16 * (b % 16) + Nibble(c)
<1>1. PICK x \in 0..15 : x = Nibble(c)
  BY NibbleRange
<1>2. (16 * b) % 256 = 16 * (b % 16) /\ b % 16 \in 0..15
  BY Z3
<1>3. \A y \in 0..15 : 16 * y + x \in 0..255 /\ (16 * y + x) % 16 = x
  BY Z3
<1> QED BY <1>1, <1>2, <1>3 DEF Shifted

(* What the automaton has read makes a data frame.                          *)
LEMMA MadeFrame ==
  ASSUME NEW s \in SerialStates
  PROVE  FrameOf(s) \in DataFrames
<1> DEFINE n == s.nibble \div 2
           d == [k \in 1..n |-> s.data8[k - 1]]
           made == [ext |-> s.eid >= StdIds, id |-> s.eid, remote |-> FALSE, data |-> d]
<1>1. s.nibble \in Nibbles /\ s.data8 \in Buffers /\ s.eid \in Words
  BY DEF SerialStates
<1>2. n \in 0..MaxBytes /\ n \in Nat
  BY <1>1, Half, BytesAreNat DEF Nibbles
<1>3. FrameOf(s) = made
  BY DEF FrameOf, Frame
<1> HIDE DEF n
<1>4. d \in Seq(0..255) /\ Len(d) = n
  <2>1. ASSUME NEW k \in 1..n PROVE s.data8[k - 1] \in 0..255
    <3>1. k - 1 \in 0..(MaxBytes - 1)
      BY <1>2, BytesAreNat
    <3> QED BY <1>1, <3>1 DEF Buffers
  <2> QED BY <1>2, <2>1
<1> HIDE DEF d
<1>5. s.eid \in 0..(Word - 1) /\ (s.eid >= StdIds) \in BOOLEAN
  BY <1>1, TextAssumption DEF Words
<1>6. made \in [ext: BOOLEAN, id: 0..(Word - 1), remote: {FALSE}, data: Seq(0..255)]
  BY <1>4, <1>5
<1>7. made = Frame(made.id, FALSE, made.data)
  BY DEF Frame
<1>8. Len(made.data) <= MaxBytes
  BY <1>2, <1>4, BytesAreNat
<1> QED BY <1>3, <1>6, <1>7, <1>8, Zenon DEF DataFrames

(* A character takes the automaton from one of its states to another.       *)
LEMMA SerialStep ==
  ASSUME NEW s \in SerialStates, NEW c \in 0..127, Limited(s, c)
  PROVE  CanSend(s, c) \in SerialStates
<1>1. MaxBytes \in Nat /\ Word \in Nat /\ Word > 0
  BY BytesAreNat, WordIsNat
<1>2. 0 \in Words /\ 0 \in Nibbles /\ None \in Sendings
  BY <1>1 DEF Words, Nibbles, Sendings
<1>3. CASE s.state = "sNONE"
  BY <1>2, <1>3 DEF CanSend, SerialStates
<1>4. CASE s.state = "sADDR"
  <2>1. (16 * s.eid + Nibble(c)) % Word \in Words
    <3>1. PICK x \in 0..15 : x = Nibble(c)
      BY NibbleRange
    <3>2. PICK y \in Nat : y = s.eid
      BY <1>1 DEF SerialStates, Words
    <3>3. 16 * y + x \in Nat
      OBVIOUS
    <3>4. (16 * y + x) % Word \in 0..(Word - 1)
      BY <1>1, <3>3
    <3> QED BY <3>1, <3>2, <3>4 DEF Words
  <2> QED BY <1>2, <1>4, <2>1 DEF CanSend, SerialStates
<1>5. CASE s.state = "sDATA"
  <2>1. CASE c >= 48
    <3> DEFINE i == s.nibble \div 2
               byte == Shifted(s.data8[i], c)
    <3>1. s.nibble \in Nibbles /\ s.data8 \in Buffers
      BY DEF SerialStates
    <3>2. s.nibble < 2 * MaxBytes
      BY <1>1, <1>5, <2>1, <3>1 DEF Limited, Nibbles
    <3>3. i \in 0..(MaxBytes - 1) /\ s.nibble + 1 \in Nibbles
      BY <1>1, <3>1, <3>2, Half DEF Nibbles
    <3>4. byte \in 0..255
      <4>1. PICK j \in 0..(MaxBytes - 1) : j = i
        BY <3>3
      <4>2. s.data8[j] \in 0..255
        <5>1. \A q \in Buffers : q[j] \in 0..255
          BY DEF Buffers
        <5> QED BY <3>1, <5>1, Zenon
      <4>3. Shifted(s.data8[j], c) \in 0..255
        <5>1. c \in Int
          OBVIOUS
        <5> QED BY <4>2, <5>1, ShiftedByte, Zenon
      <4> QED BY <4>1, <4>3
    <3>5. CanSend(s, c) = [s EXCEPT !.data8[i] = byte, !.nibble = s.nibble + 1]
      BY <1>5, <2>1 DEF CanSend
    <3> HIDE DEF i, byte
    <3>6. [s.data8 EXCEPT ![i] = byte] \in Buffers
      BY <3>1, <3>3, <3>4 DEF Buffers
    <3> QED BY <3>3, <3>5, <3>6 DEF SerialStates
  <2>2. CASE ~(c >= 48)
    <3>1. CanSend(s, c) = [s EXCEPT !.state = "sNONE", !.sent = FrameOf(s)]
      BY <1>5, <2>2 DEF CanSend
    <3>2. FrameOf(s) \in Sendings
      BY MadeFrame DEF Sendings
    <3> QED BY <3>1, <3>2 DEF SerialStates
  <2> QED BY <2>1, <2>2
<1> QED BY <1>3, <1>4, <1>5 DEF SerialStates

(* What the automaton knows after the first k characters of l: the id, and *)
(* once it has seen the # at h, the digits of the data, n so far.          *)
InId(s, l, k) ==
  /\ s.state = "sADDR" /\ k \in 1..Len(l) /\ l[1] = S
  /\ \A i \in 2..k : IsHex(l[i])
  /\ s.eid = IdTo(l, k) % Word /\ IdTo(l, k) \in Nat

Pairs(s, l, h, n) ==
  \A m \in Nat :
    /\ 2 * m + 2 <= n => s.data8[m] = 16 * Value(l[h + 2 * m + 1]) + Value(l[h + 2 * m + 2])
    /\ 2 * m + 1 = n => s.data8[m] % 16 = Value(l[h + 2 * m + 1])

InData(s, l, k, h) ==
  /\ s.state = "sDATA" /\ k \in 1..Len(l) /\ h \in 2..k /\ l[1] = S /\ l[h] = Hash
  /\ \A i \in 2..(h - 1) : IsHex(l[i])
  /\ \A i \in (h + 1)..k : IsHex(l[i])
  /\ s.eid = IdTo(l, h - 1) % Word
  /\ s.nibble = k - h
  /\ Pairs(s, l, h, k - h)

(* The S starts the id.                                                     *)
LEMMA FirstChar ==
  ASSUME NEW s \in SerialStates, s.state = "sNONE", NEW l \in Seq(0..127), l # <<>>, l[1] = S
  PROVE  InId(CanSend(s, l[1]), l, 1)
<1>1. CanSend(s, S) = [s EXCEPT !.state = "sADDR", !.eid = 0, !.sent = None]
  BY DEF CanSend
<1>2. CanSend(s, S).state = "sADDR" /\ CanSend(s, S).eid = 0
  BY <1>1 DEF SerialStates
<1>3. IdTo(l, 1) = 0
  BY IdStarts, Zenon
<1>4. 1 \in 1..Len(l) /\ 0 % Word = 0
  BY WordIsNat
<1> QED BY <1>2, <1>3, <1>4 DEF InId

(* A digit before the # goes to the id.                                     *)
LEMMA IdChar ==
  ASSUME NEW s \in SerialStates, NEW l \in Seq(0..127), NEW k \in 1..(Len(l) - 1), InId(s, l, k),
         IsHex(l[k + 1])
  PROVE  InId(CanSend(s, l[k + 1]), l, k + 1)
<1> DEFINE c == l[k + 1]
<1>1. Len(l) \in Nat /\ k + 1 \in 1..Len(l)
  OBVIOUS
<1>2. PICK x \in 0..15 : x = Nibble(c) /\ x = Value(c) /\ c # Hash
  BY HexFacts
<1>3. IdTo(l, k + 1) = Extended(IdTo(l, k), c)
  BY IdGrows, Zenon
<1> HIDE DEF c
<1>4. PICK a \in Nat : a = IdTo(l, k)
  BY DEF InId
<1>5. IdTo(l, k + 1) = 16 * a + x
  BY <1>2, <1>3, <1>4 DEF Extended
<1>6. CanSend(s, c) = [s EXCEPT !.eid = (16 * s.eid + x) % Word]
  BY <1>2 DEF CanSend, InId
<1>7. CanSend(s, c).state = "sADDR" /\ CanSend(s, c).eid = (16 * s.eid + x) % Word
  BY <1>6 DEF SerialStates, InId
<1>8. s.eid = a % Word
  BY <1>4 DEF InId
<1>9. (16 * (a % Word) + x) % Word = (16 * a + x) % Word
  <2>1. x \in Nat
    OBVIOUS
  <2> QED BY <2>1, Wraps, Zenon
<1>10. 16 * a + x \in Nat
  OBVIOUS
<1>11. CanSend(s, c).eid = IdTo(l, k + 1) % Word
  BY <1>5, <1>7, <1>8, <1>9, Zenon
<1>12. \A i \in 2..(k + 1) : IsHex(l[i])
  <2>1. \A i \in 2..(k + 1) : i \in 2..k \/ i = k + 1
    OBVIOUS
  <2> QED BY <2>1 DEF InId
<1> QED BY <1>1, <1>5, <1>7, <1>10, <1>11, <1>12 DEF InId, c

(* The # starts the data.                                                   *)
LEMMA HashChar ==
  ASSUME NEW s \in SerialStates, NEW l \in Seq(0..127), NEW k \in 1..(Len(l) - 1), InId(s, l, k),
         l[k + 1] = Hash
  PROVE  InData(CanSend(s, l[k + 1]), l, k + 1, k + 1)
<1> DEFINE t == CanSend(s, Hash)
<1>1. t = [s EXCEPT !.state = "sDATA", !.nibble = 0]
  BY DEF CanSend, InId
<1>2. t.state = "sDATA" /\ t.nibble = 0 /\ t.eid = s.eid
  BY <1>1 DEF SerialStates
<1> HIDE DEF t
<1>3. k + 1 \in 1..Len(l) /\ k + 1 \in 2..(k + 1) /\ (k + 1) - 1 = k /\ (k + 1) - (k + 1) = 0
  OBVIOUS
<1>4. \A i \in (k + 2)..(k + 1) : FALSE
  OBVIOUS
<1>5. Pairs(t, l, k + 1, 0)
  BY DEF Pairs
<1>6. t.nibble = (k + 1) - (k + 1) /\ Pairs(t, l, k + 1, (k + 1) - (k + 1))
  BY <1>2, <1>3, <1>5
<1>7. t.eid = IdTo(l, (k + 1) - 1) % Word
  BY <1>2, <1>3 DEF InId
<1>8. /\ \A i \in 2..((k + 1) - 1) : IsHex(l[i])
      /\ \A i \in ((k + 1) + 1)..(k + 1) : IsHex(l[i])
  BY <1>3 DEF InId
<1>9. InData(t, l, k + 1, k + 1)
  BY <1>2, <1>3, <1>6, <1>7, <1>8 DEF InId, InData
<1> QED BY <1>9 DEF t

(* A digit after the # goes to the half of the byte it belongs to.          *)
LEMMA DataChar ==
  ASSUME NEW s \in SerialStates, NEW l \in Seq(0..127), NEW k \in 1..(Len(l) - 1), NEW h,
         InData(s, l, k, h), IsHex(l[k + 1]), s.nibble < 2 * MaxBytes
  PROVE  InData(CanSend(s, l[k + 1]), l, k + 1, h)
<1> DEFINE c == l[k + 1]
           n == k - h
           i == n \div 2
           byte == Shifted(s.data8[i], c)
           t == CanSend(s, c)
<1>1. /\ h \in 2..k /\ n \in Nat /\ s.nibble = n /\ k + 1 \in 1..Len(l) /\ h \in 2..(k + 1)
      /\ (k + 1) - h = n + 1 /\ k + 1 = h + n + 1
  BY DEF InData
<1>2. PICK x \in 0..15 : x = Nibble(c) /\ x = Value(c) /\ c >= 48 /\ c \in Int
  <2> HIDE DEF c
  <2>1. IsHex(c)
    BY DEF c
  <2>2. c \in 48..102 /\ Value(c) \in 0..15 /\ Nibble(c) = Value(c)
    BY <2>1, HexFacts
  <2> QED BY <2>2
<1>3. i \in 0..(MaxBytes - 1) /\ i \in Nat /\ (n = 2 * i \/ n = 2 * i + 1)
  BY <1>1, BytesAreNat
<1>4. s.data8 \in Buffers /\ s.data8[i] \in 0..255
  <2> HIDE DEF i
  <2>1. s.data8 \in Buffers
    BY DEF SerialStates
  <2> QED BY <1>3, <2>1 DEF Buffers
<1>5. t = [s EXCEPT !.data8[i] = byte, !.nibble = n + 1]
  <2>1. s.state = "sDATA" /\ s.nibble = n
    BY <1>1 DEF InData
  <2> HIDE DEF c, n, byte
  <2>2. t = [s EXCEPT !.data8[s.nibble \div 2] = Shifted(s.data8[s.nibble \div 2], c), !.nibble = s.nibble + 1]
    BY <1>2, <2>1 DEF CanSend
  <2> QED BY <2>1, <2>2 DEF byte
<1> HIDE DEF c, n, i
<1>6. byte = 16 * (s.data8[i] % 16) + x /\ byte % 16 = x
  <2> DEFINE b == s.data8[i]
  <2>1. b \in 0..255 /\ c \in Int
    BY <1>2, <1>4
  <2> HIDE DEF b
  <2>2. Shifted(b, c) = 16 * (b % 16) + Nibble(c) /\ Shifted(b, c) % 16 = Nibble(c)
    BY <2>1, ShiftedByte, Zenon
  <2> QED BY <1>2, <2>2, Zenon DEF b
<1> HIDE DEF byte, t
<1>7. t.state = "sDATA" /\ t.eid = s.eid /\ t.nibble = n + 1 /\ t.data8 = [s.data8 EXCEPT ![i] = byte]
  BY <1>5 DEF SerialStates, InData
<1>8. t.data8[i] = byte /\ \A m \in 0..(MaxBytes - 1) : m # i => t.data8[m] = s.data8[m]
  BY <1>3, <1>4, <1>7 DEF Buffers
<1>9. Pairs(s, l, h, n)
  BY DEF InData, n
<1>10. c = l[h + n + 1]
  BY <1>1 DEF c
<1>11. Pairs(t, l, h, n + 1)
  <2> SUFFICES ASSUME NEW m \in Nat
               PROVE  /\ 2 * m + 2 <= n + 1 =>
                           t.data8[m] = 16 * Value(l[h + 2 * m + 1]) + Value(l[h + 2 * m + 2])
                      /\ 2 * m + 1 = n + 1 => t.data8[m] % 16 = Value(l[h + 2 * m + 1])
    BY DEF Pairs
  <2>1. CASE 2 * m + 2 <= n
    <3>1. m # i /\ 2 * m + 1 # n + 1
      BY <1>1, <1>3, <2>1
    <3>2. t.data8[m] = s.data8[m]
      BY <1>1, <1>3, <1>8, <2>1, <3>1, BytesAreNat
    <3>3. s.data8[m] = 16 * Value(l[h + 2 * m + 1]) + Value(l[h + 2 * m + 2])
      BY <1>9, <2>1 DEF Pairs
    <3> QED BY <3>1, <3>2, <3>3
  <2>2. CASE 2 * m + 2 = n + 1
    <3>1. m = i /\ 2 * m + 1 = n /\ h + n + 1 = h + 2 * m + 2 /\ 2 * m + 1 # n + 1
      BY <1>1, <1>3, <2>2
    <3>2. s.data8[m] % 16 = Value(l[h + 2 * m + 1])
      BY <1>9, <3>1 DEF Pairs
    <3>3. Value(l[h + 2 * m + 2]) = x
      BY <1>2, <1>10, <3>1
    <3>4. t.data8[m] = 16 * (s.data8[m] % 16) + x
      BY <1>6, <1>8, <3>1
    <3> QED BY <3>1, <3>2, <3>3, <3>4
  <2>3. CASE 2 * m + 1 = n + 1
    <3>1. m = i /\ h + n + 1 = h + 2 * m + 1 /\ ~(2 * m + 2 <= n + 1)
      BY <1>1, <1>3, <2>3
    <3>2. Value(l[h + 2 * m + 1]) = x
      BY <1>2, <1>10, <3>1
    <3>3. t.data8[m] % 16 = x
      BY <1>6, <1>8, <3>1
    <3> QED BY <3>1, <3>2, <3>3
  <2>4. CASE ~(2 * m + 2 <= n + 1) /\ 2 * m + 1 # n + 1
    BY <2>4
  <2>5. 2 * m + 2 <= n + 1 => 2 * m + 2 <= n \/ 2 * m + 2 = n + 1
    BY <1>1
  <2> QED BY <2>1, <2>2, <2>3, <2>4, <2>5
<1>12. \A j \in (h + 1)..(k + 1) : IsHex(l[j])
  <2>1. \A j \in (h + 1)..(k + 1) : j \in (h + 1)..k \/ j = k + 1
    BY <1>1
  <2> QED BY <2>1 DEF InData
<1>13. t.nibble = (k + 1) - h /\ Pairs(t, l, h, (k + 1) - h)
  BY <1>1, <1>7, <1>11
<1>14. InData(t, l, k + 1, h)
  BY <1>1, <1>7, <1>12, <1>13, Zenon DEF InData
<1> QED BY <1>14 DEF t, c

(* The end of the line sends the frame that the line means.                 *)
LEMMA EndChar ==
  ASSUME NEW s \in SerialStates, NEW l \in Seq(0..127), NEW k \in Nat, NEW h,
         InData(s, l, k, h), Len(l) = k + 1, WellFormed(l)
  PROVE  CanSend(s, l[k + 1]).sent = Meaning(l) /\ CanSend(s, l[k + 1]).state = "sNONE"
<1>1. h \in 2..k /\ k - h \in Nat /\ s.nibble = k - h /\ s.nibble \in 0..(2 * MaxBytes)
  BY DEF InData, SerialStates, Nibbles
<1>2. PICK g \in 3..(Len(l) - 1) : Parts(l, g) /\ HashAt(l) = g
  BY LineParts
<1>3. g = h
  <2>1. g \in 2..k /\ l[g] = Hash
    BY <1>2 DEF Parts
  <2>2. ~IsHex(l[g])
    BY <2>1, HexFacts
  <2>3. g \notin 2..(h - 1) /\ g \notin (h + 1)..k
    BY <2>2 DEF InData
  <2> QED BY <1>1, <2>1, <2>3
<1>4. l[Len(l)] \in 0..127 /\ l[Len(l)] < Space
  <2>1. Len(l) \in 1..Len(l)
    OBVIOUS
  <2> QED BY <1>2, <2>1, Element, Zenon DEF Parts
<1>5. l[h + 1] # R
  <2>1. CASE h + 1 = Len(l)
    <3>1. ~(R < Space)
      BY DEF R, Space
    <3> QED BY <1>4, <2>1, <3>1
  <2>2. CASE h + 1 \in (h + 1)..k
    BY <2>2, HexFacts DEF InData
  <2> QED BY <1>1, <2>1, <2>2
<1>6. PICK m \in Nat : Len(l) - h = 2 * m + 1 /\ (Len(l) - h) \div 2 = m
  BY <1>2, <1>3, <1>5 DEF Parts
<1>7. s.nibble \div 2 = m /\ m <= MaxBytes /\ k - h = 2 * m
  BY <1>1, <1>6, BytesAreNat
<1>8. Min({MaxBytes, m}) = m
  BY <1>7, BytesOf, BytesAreNat
<1> DEFINE data == [j \in 1..m |-> s.data8[j - 1]]
           meant == [j \in 1..m |-> 16 * Value(l[h + 2 * j - 1]) + Value(l[h + 2 * j])]
<1>9. data = meant
  <2>1. ASSUME NEW j \in 1..m
        PROVE  s.data8[j - 1] = 16 * Value(l[h + 2 * j - 1]) + Value(l[h + 2 * j])
    <3> DEFINE q == j - 1
    <3>1. /\ q \in Nat /\ 2 * q + 2 <= k - h
          /\ h + 2 * q + 1 = h + 2 * j - 1 /\ h + 2 * q + 2 = h + 2 * j
      BY <1>1, <1>7
    <3> HIDE DEF q
    <3>2. s.data8[q] = 16 * Value(l[h + 2 * q + 1]) + Value(l[h + 2 * q + 2])
      BY <3>1 DEF InData, Pairs
    <3>3. s.data8[q] = 16 * Value(l[h + 2 * j - 1]) + Value(l[h + 2 * j])
      BY <3>1, <3>2
    <3> QED BY <3>3 DEF q
  <2> QED BY <2>1, Zenon
<1> HIDE DEF data, meant
<1>10. FrameOf(s) = Frame(s.eid, FALSE, data)
  BY <1>7, Zenon DEF FrameOf, data
<1>11. Meaning(l) = Frame(s.eid, FALSE, meant)
  <2>1. s.eid = FoldLeft(Extended, 0, SubSeq(l, 2, h - 1)) % Word
    BY Zenon DEF InData, IdTo
  <2>2. HashAt(l) = h /\ (l[h + 1] = R) = FALSE
    BY <1>2, <1>3, <1>5
  <2> QED BY <1>6, <1>8, <2>1, <2>2, Zenon DEF Meaning, meant
<1>12. l[k + 1] = l[Len(l)] /\ ~(l[Len(l)] >= 48)
  <2>1. \A x \in 0..127 : x < Space => ~(x >= 48)
    BY DEF Space
  <2> QED BY <1>4, <2>1, Zenon
<1>13. CanSend(s, l[k + 1]) = [s EXCEPT !.state = "sNONE", !.sent = FrameOf(s)]
  <2>1. s.state = "sDATA"
    BY DEF InData
  <2> QED BY <1>12, <2>1 DEF CanSend
<1>14. CanSend(s, l[k + 1]).sent = FrameOf(s) /\ CanSend(s, l[k + 1]).state = "sNONE"
  BY <1>13 DEF SerialStates
<1> QED BY <1>9, <1>10, <1>11, <1>14

Begun == typed # <<>> /\ Last(typed) >= Space

SerialShape ==
  /\ serial \in SerialStates /\ (serial.state # "sNONE" => serial.sent = None)
  /\ typed \in Seq(Chars) /\ Len(typed) <= MaxLine

Following ==
  Begun => /\ serial.state = "sADDR" => InId(serial, typed, Len(typed))
           /\ serial.state = "sDATA" => \E h \in Nat : InData(serial, typed, Len(typed), h)

SerialInv == SerialShape /\ Following /\ SerialAsWritten

(* The automaton starts at rest.                                            *)
LEMMA SerialStarts == SerialInit => SerialInv
<1> SUFFICES ASSUME SerialInit PROVE SerialInv
  OBVIOUS
<1>1. serial = AtRest /\ typed = <<>>
  BY DEF SerialInit
<1>2. AtRest \in SerialStates
  <2>1. 0 \in Words /\ 0 \in Nibbles /\ None \in Sendings
    BY WordIsNat, BytesAreNat DEF Words, Nibbles, Sendings
  <2>2. [i \in 0..(MaxBytes - 1) |-> 0] \in Buffers
    BY DEF Buffers
  <2> QED BY <2>1, <2>2 DEF AtRest, SerialStates
<1>3. AtRest.state = "sNONE"
  BY DEF AtRest
<1>4. <<>> \in Seq(Chars) /\ Len(<<>>) <= MaxLine /\ ~WellFormed(<<>>)
  BY SerialAssumption DEF WellFormed
<1> QED BY <1>1, <1>2, <1>3, <1>4 DEF SerialInv, SerialShape, Following, Begun, SerialAsWritten

(* A frame is only there when its line has ended.                           *)
LEMMA SentWhenDone ==
  ASSUME NEW s \in SerialStates, NEW c \in 0..127, s.state # "sNONE" => s.sent = None
  PROVE  CanSend(s, c).state # "sNONE" => CanSend(s, c).sent = None
<1>1. CASE s.state = "sNONE"
  BY <1>1 DEF CanSend, SerialStates
<1>2. CASE s.state = "sADDR"
  BY <1>2 DEF CanSend, SerialStates
<1>3. CASE s.state = "sDATA"
  <2>1. CASE c >= 48
    <3> DEFINE i == s.nibble \div 2
               b == Shifted(s.data8[i], c)
    <3>1. CanSend(s, c) = [s EXCEPT !.data8[i] = b, !.nibble = s.nibble + 1]
      BY <1>3, <2>1 DEF CanSend
    <3> HIDE DEF i, b
    <3> QED BY <1>3, <3>1 DEF SerialStates
  <2>2. CASE ~(c >= 48)
    <3>1. CanSend(s, c) = [s EXCEPT !.state = "sNONE", !.sent = FrameOf(s)]
      BY <1>3, <2>2 DEF CanSend
    <3> QED BY <3>1 DEF SerialStates
  <2> QED BY <2>1, <2>2
<1> QED BY <1>1, <1>2, <1>3 DEF SerialStates

(* What is known after a line is known after the same characters of a      *)
(* longer one.                                                             *)
LEMMA Prefix ==
  ASSUME NEW s, NEW l \in Seq(0..127), NEW c \in 0..127, l # <<>>
  PROVE  /\ InId(s, l, Len(l)) => InId(s, Append(l, c), Len(l))
         /\ \A h \in Nat : InData(s, l, Len(l), h) => InData(s, Append(l, c), Len(l), h)
<1> DEFINE m == Append(l, c)
           n == Len(l)
<1>1. /\ m \in Seq(0..127) /\ Len(m) = n + 1 /\ n \in Nat /\ n \in 1..n /\ n \in 1..Len(m)
      /\ \A i \in 1..n : m[i] = l[i]
  <2>1. /\ m \in Seq(0..127) /\ Len(m) = n + 1 /\ \A i \in 1..n : m[i] = l[i]
    BY Appended
  <2>2. n \in Nat /\ n \in 1..n
    OBVIOUS
  <2> HIDE DEF m, n
  <2> QED BY <2>1, <2>2
<1> HIDE DEF m
<1>2. \A k \in 1..n : IdTo(m, k) = IdTo(l, k)
  <2>1. Len(l) <= Len(m)
    BY <1>1
  <2> QED BY <1>1, <2>1, IdSame, Zenon
<1> HIDE DEF n
<1>3. ASSUME InId(s, l, n) PROVE InId(s, m, n)
  <2>1. IdTo(m, n) = IdTo(l, n)
    BY <1>1, <1>2
  <2>2. m[1] = l[1] /\ \A i \in 2..n : m[i] = l[i]
    BY <1>1
  <2> QED BY <1>1, <1>3, <2>1, <2>2, Zenon DEF InId
<1>4. ASSUME NEW h \in Nat, InData(s, l, n, h) PROVE InData(s, m, n, h)
  <2>1. h \in 2..n /\ h - 1 \in 1..n /\ n - h \in Nat
    BY <1>4 DEF InData
  <2>2. IdTo(m, h - 1) = IdTo(l, h - 1)
    BY <1>2, <2>1
  <2>3. m[1] = l[1] /\ m[h] = l[h] /\ (\A i \in 2..(h - 1) : m[i] = l[i]) /\ \A i \in (h + 1)..n : m[i] = l[i]
    BY <1>1, <2>1
  <2>4. Pairs(s, m, h, n - h)
    <3> SUFFICES ASSUME NEW j \in Nat
                 PROVE  /\ 2 * j + 2 <= n - h =>
                             s.data8[j] = 16 * Value(m[h + 2 * j + 1]) + Value(m[h + 2 * j + 2])
                        /\ 2 * j + 1 = n - h => s.data8[j] % 16 = Value(m[h + 2 * j + 1])
      BY DEF Pairs
    <3>1. /\ 2 * j + 2 <= n - h =>
               s.data8[j] = 16 * Value(l[h + 2 * j + 1]) + Value(l[h + 2 * j + 2])
          /\ 2 * j + 1 = n - h => s.data8[j] % 16 = Value(l[h + 2 * j + 1])
      BY <1>4 DEF InData, Pairs
    <3>2. /\ 2 * j + 2 <= n - h => m[h + 2 * j + 1] = l[h + 2 * j + 1] /\ m[h + 2 * j + 2] = l[h + 2 * j + 2]
          /\ 2 * j + 1 = n - h => m[h + 2 * j + 1] = l[h + 2 * j + 1]
      BY <1>1, <2>1
    <3> QED BY <3>1, <3>2, Zenon
  <2> QED BY <1>1, <1>4, <2>1, <2>2, <2>3, <2>4, Zenon DEF InData
<1> QED BY <1>3, <1>4 DEF m, n

(* A sequence over a set is one over a larger set.                          *)
LEMMA SeqOfMore ==
  ASSUME NEW V, NEW W, V \subseteq W, NEW q \in Seq(V)
  PROVE  q \in Seq(W)
<1>1. \A i \in 1..Len(q) : q[i] \in W
  OBVIOUS
<1> QED BY <1>1

(* What is empty or goes on is no line.                                     *)
LEMMA NotALine ==
  ASSUME NEW l \in Seq(0..127), l = <<>> \/ ~(Last(l) < Space)
  PROVE  ~WellFormed(l)
BY Zenon DEF WellFormed

(* A line that ends before its # means nothing.                            *)
LEMMA NoHash ==
  ASSUME NEW l \in Seq(0..127), NEW n \in Nat, Len(l) = n + 1, \A i \in 2..n : IsHex(l[i])
  PROVE  ~WellFormed(l)
<1> SUFFICES ASSUME WellFormed(l) PROVE FALSE
  OBVIOUS
<1>1. PICK g \in 3..(Len(l) - 1) : Parts(l, g)
  BY LineParts
<1>2. g \in 2..n /\ l[g] = Hash
  BY <1>1 DEF Parts
<1> QED BY <1>2, HexFacts

(* Every character keeps the shape of the state,                            *)
LEMMA Typing ==
  ASSUME SerialInv, NEW c \in Chars, Type(c)
  PROVE  SerialShape'
<1>1. serial \in SerialStates /\ typed \in Seq(Chars) /\ Len(typed) <= MaxLine /\ c \in 0..127
  BY CharsAreAscii DEF SerialInv, SerialShape
<1>2. serial' = CanSend(serial, c) /\ Limited(serial, c)
  BY DEF Type, Limited
<1>3. serial' \in SerialStates
  BY <1>1, <1>2, SerialStep
<1>4. serial'.state # "sNONE" => serial'.sent = None
  BY <1>1, <1>2, SentWhenDone DEF SerialInv, SerialShape
<1>5. typed' \in Seq(Chars) /\ Len(typed') <= MaxLine
  <2>1. \/ typed' = <<>>
        \/ typed' = <<S>> /\ c = S
        \/ typed' = Append(typed, c) /\ Len(typed) < MaxLine
    BY Zenon DEF Type
  <2>2. CASE typed' = <<>>
    BY <2>2, SerialAssumption
  <2>3. CASE typed' = <<S>> /\ c = S
    BY <2>3, SerialAssumption
  <2>4. CASE typed' = Append(typed, c) /\ Len(typed) < MaxLine
    BY <1>1, <2>4, SerialAssumption
  <2> QED BY <2>1, <2>2, <2>3, <2>4
<1> QED BY <1>3, <1>4, <1>5 DEF SerialShape

(* and what is known of the line.                                           *)
LEMMA Reading ==
  ASSUME SerialInv, NEW c \in Chars, Type(c), SerialShape'
  PROVE  Following' /\ SerialAsWritten'
<1>1. /\ serial \in SerialStates /\ typed \in Seq(Chars) /\ Len(typed) <= MaxLine /\ c \in 0..127
      /\ typed \in Seq(0..127) /\ typed' \in Seq(0..127)
      /\ serial' = CanSend(serial, c) /\ Limited(serial, c)
  <2>1. \A q \in Seq(Chars) : q \in Seq(0..127)
    BY CharsAreAscii, SeqOfMore, Zenon
  <2>2. /\ serial \in SerialStates /\ typed \in Seq(Chars) /\ Len(typed) <= MaxLine
        /\ typed' \in Seq(Chars)
    BY DEF SerialInv, SerialShape
  <2>3. serial' = CanSend(serial, c) /\ Limited(serial, c)
    BY Zenon DEF Type, Limited
  <2>4. c \in 0..127
    BY CharsAreAscii
  <2> QED BY <2>1, <2>2, <2>3, <2>4, Zenon
<1>2. CASE typed' = <<>>
  BY <1>1, <1>2, NotALine DEF Following, Begun, SerialAsWritten
<1>3. CASE serial.state = "sNONE" /\ typed' = <<S>> /\ c = S
  <2> DEFINE l == <<S>>
  <2>1. l \in Seq(0..127) /\ l # <<>> /\ l[1] = S /\ Len(l) = 1 /\ Last(l) = S /\ ~(Last(l) < Space)
    BY DEF S, Space, Last
  <2> HIDE DEF l
  <2>2. InId(CanSend(serial, l[1]), l, 1)
    BY <1>1, <1>3, <2>1, FirstChar
  <2>3. InId(serial', typed', Len(typed'))
    BY <1>1, <1>3, <2>1, <2>2 DEF l
  <2>4. serial'.state = "sADDR" /\ ~WellFormed(typed')
    BY <1>3, <2>1, <2>3, NotALine DEF InId, l
  <2> QED BY <2>3, <2>4 DEF Following, SerialAsWritten
<1>4. CASE /\ serial.state # "sNONE" /\ typed # <<>> /\ Last(typed) >= Space
           /\ IsHex(c) \/ c = Hash \/ c < Space
           /\ typed' = Append(typed, c)
  <2> DEFINE n == Len(typed)
             m == Append(typed, c)
  <2>1. n \in Nat /\ n > 0 /\ Begun
    BY <1>1, <1>4 DEF Begun
  <2>2. m \in Seq(0..127) /\ Len(m) = n + 1 /\ m[n + 1] = c /\ m # <<>> /\ Last(m) = c
    <3>1. typed \in Seq(0..127) /\ c \in 0..127
      BY <1>1
    <3> QED BY <3>1, Appended
  <2>3. m = typed'
    BY <1>4
  <2> HIDE DEF m, n
  <2>4. n \in 1..(Len(m) - 1)
    BY <2>1, <2>2
  <2>5. ~(c < Space) => ~WellFormed(m)
    BY <2>2, NotALine
  <2>6. CASE serial.state = "sADDR"
    <3>1. InId(serial, m, n)
      BY <1>1, <1>4, <2>1, <2>6, Prefix DEF SerialInv, Following, m, n
    <3>2. CASE IsHex(c)
      <4>1. InId(serial', m, n + 1)
        BY <1>1, <2>2, <2>4, <3>1, <3>2, IdChar
      <4>2. serial'.state = "sADDR" /\ ~(c < Space)
        BY <3>2, <4>1, HexFacts DEF InId
      <4> QED BY <2>2, <2>3, <2>5, <4>1, <4>2 DEF Following, SerialAsWritten
    <3>3. CASE c = Hash
      <4>1. InData(serial', m, n + 1, n + 1)
        BY <1>1, <2>2, <2>4, <3>1, <3>3, HashChar
      <4>2. serial'.state = "sDATA" /\ n + 1 \in Nat /\ ~(c < Space)
        BY <2>1, <3>3, <4>1 DEF InData, Hash, Space
      <4> QED BY <2>2, <2>3, <2>5, <4>1, <4>2 DEF Following, SerialAsWritten
    <3>4. CASE c < Space
      <4>1. ~WellFormed(m)
        BY <2>1, <2>2, <3>1, NoHash DEF InId
      <4>2. ~(c >= Space)
        BY <1>1, <3>4 DEF Space
      <4> QED BY <2>2, <2>3, <4>1, <4>2 DEF Following, Begun, SerialAsWritten
    <3> QED BY <1>4, <3>2, <3>3, <3>4
  <2>7. CASE serial.state = "sDATA"
    <3>1. PICK h \in Nat : InData(serial, m, n, h)
      BY <1>1, <1>4, <2>1, <2>7, Prefix DEF SerialInv, Following, m, n
    <3>2. CASE IsHex(c)
      <4>1. c >= 48 /\ ~(c < 48) /\ ~(c < Space)
        BY <3>2, HexFacts
      <4>2. serial.nibble < 2 * MaxBytes
        BY <1>1, <2>7, <4>1, BytesAreNat DEF Limited, SerialStates, Nibbles
      <4>3. InData(serial', m, n + 1, h)
        BY <1>1, <2>2, <2>4, <3>1, <3>2, <4>2, DataChar
      <4>4. serial'.state = "sDATA"
        BY <4>3 DEF InData
      <4> QED BY <2>2, <2>3, <2>5, <4>1, <4>3, <4>4 DEF Following, SerialAsWritten
    <3>3. CASE c = Hash
      <4>1. serial'.state = "sNONE"
        <5>1. serial' = [serial EXCEPT !.state = "sNONE", !.sent = FrameOf(serial)]
          BY <1>1, <2>7, <3>3 DEF CanSend, Hash
        <5> QED BY <1>1, <5>1 DEF SerialStates
      <4>2. ~(c < Space)
        BY <3>3 DEF Hash, Space
      <4> QED BY <2>3, <2>5, <4>1, <4>2 DEF Following, SerialAsWritten
    <3>4. CASE c < Space
      <4>1. ~(c >= Space)
        BY <1>1, <3>4 DEF Space
      <4>2. WellFormed(m) => serial'.sent = Meaning(m)
        BY <1>1, <2>1, <2>2, <3>1, EndChar
      <4> QED BY <2>2, <2>3, <4>1, <4>2 DEF Following, Begun, SerialAsWritten
    <3> QED BY <1>4, <3>2, <3>3, <3>4
  <2> QED BY <1>1, <1>4, <2>6, <2>7 DEF SerialStates
<1> QED BY <1>2, <1>3, <1>4, Zenon DEF Type

(* So it keeps the invariant, and so does every step that leaves the        *)
(* automaton alone.                                                         *)
LEMMA SerialSteps == SerialInv /\ SerialNext => SerialInv'
<1> SUFFICES ASSUME SerialInv, NEW c \in Chars, Type(c) PROVE SerialInv'
  BY DEF SerialNext
<1>1. SerialShape'
  BY Typing
<1> QED BY <1>1, Reading DEF SerialInv

LEMMA SerialStays == SerialInv /\ UNCHANGED serialVars => SerialInv'
BY Zenon DEF SerialInv, serialVars, SerialShape, Following, Begun, SerialAsWritten

(* The invariant has the types of the automaton.                            *)
LEMMA SerialTypes == SerialInv => SerialTypeOK
BY DEF SerialInv, SerialShape, SerialStates, Words, Nibbles, Buffers, SerialTypeOK

(* The greatest element of a bounded set.                                   *)
LEMMA MaxOf ==
  ASSUME NEW n \in Nat, NEW T \in SUBSET (1..n), T # {}
  PROVE  Max(T) \in T /\ \A y \in T : Max(T) >= y
<1> DEFINE U == {n - y : y \in T}
<1>1. U \in SUBSET Nat /\ U # {}
  <2>1. \A y \in T : n - y \in Nat
    OBVIOUS
  <2>2. \A x \in U : x \in Nat
    BY <2>1
  <2>3. PICK y \in T : TRUE
    OBVIOUS
  <2>4. n - y \in U
    OBVIOUS
  <2> QED BY <2>2, <2>4
<1>2. PICK u \in U : \A x \in U : u <= x
  BY <1>1, AsRead!LeastNatural
<1>3. PICK t \in T : u = n - t
  BY <1>2
<1>4. \A y \in T : t >= y
  <2> TAKE y \in T
  <2>1. n - y \in U
    OBVIOUS
  <2>2. n - t <= n - y
    BY <1>2, <1>3, <2>1
  <2> QED BY <2>2
<1> QED BY <1>4, Zenon DEF Max

(* Each digit of a number weighs sixteen times the one after it.            *)
LEMMA Weights ==
  /\ \A k \in 1..8 : Weight[k] \in Nat /\ Weight[k] > 0
  /\ \A k \in 1..7 : Weight[k + 1] = 16 * Weight[k]
  /\ Weight[1] = 1
<1>1. /\ Weight[1] = 1 /\ Weight[2] = 16 /\ Weight[3] = 256 /\ Weight[4] = 4096 /\ Weight[5] = 65536
      /\ Weight[6] = 1048576 /\ Weight[7] = 16777216 /\ Weight[8] = 268435456
  BY DEF Weight
<1>2. \A k \in 1..8 : k = 1 \/ k = 2 \/ k = 3 \/ k = 4 \/ k = 5 \/ k = 6 \/ k = 7 \/ k = 8
  OBVIOUS
<1> QED BY <1>1, <1>2

(* The digits of a number, one at a time.                                  *)
LEMMA DivTwice ==
  ASSUME NEW w \in Nat \ {0}, NEW x \in Nat
  PROVE  x \div w = (16 * (x \div (16 * w))) + ((x \div w) % 16)
<1>1. PICK q \in Nat, r \in 0..(w - 1) : x = w * q + r /\ q = x \div w
  <2>1. x \div w \in Nat /\ x % w \in 0..(w - 1) /\ x = (w * (x \div w)) + (x % w)
    BY Remainder
  <2> QED BY <2>1
<1>2. PICK a \in Nat, b \in 0..15 : q = 16 * a + b /\ b = q % 16
  <2>1. q \div 16 \in Nat /\ q % 16 \in 0..15 /\ q = (16 * (q \div 16)) + (q % 16)
    BY Z3
  <2> QED BY <2>1
<1>3. w * b + r \in 0..(16 * w - 1) /\ 16 * w \in Nat \ {0}
  <2>1. w * b <= w * 15 /\ w * b \in Nat
    <3>1. w * (15 - b) \in Nat
      OBVIOUS
    <3>2. w * (15 - b) = w * 15 - w * b
      OBVIOUS
    <3> QED BY <3>1, <3>2
  <2> QED BY <2>1
<1>4. x = (16 * w) * a + (w * b + r)
  <2>1. w * q = w * (16 * a) + w * b
    BY <1>2
  <2>2. w * (16 * a) = (16 * w) * a
    OBVIOUS
  <2> QED BY <1>1, <2>1, <2>2
<1> DEFINE n == 16 * w
           s == w * b + r
<1>5. n \in Nat \ {0} /\ s \in 0..(n - 1) /\ x = n * a + s
  BY <1>3, <1>4
<1> HIDE DEF n, s
<1>6. (n * a + s) \div n = a
  BY <1>5, RemainderIs
<1>7. x \div n = a
  BY <1>5, <1>6
<1>8. q = (16 * (x \div n)) + (q % 16)
  BY <1>2, <1>7
<1> QED BY <1>1, <1>8 DEF n

(* A quotient of sixteen needs one digit more.                              *)
LEMMA Sixteen ==
  ASSUME NEW w \in Nat, NEW q \in Nat, q >= 16
  PROVE  w * q >= 16 * w
<1>1. w * (q - 16) \in Nat
  OBVIOUS
<1>2. w * (q - 16) = w * q - w * 16
  OBVIOUS
<1> QED BY <1>1, <1>2

(* An id of a word has at most eight digits.                                *)
LEMMA IdFits ==
  ASSUME NEW id \in Words
  PROVE  id \div 16 < Weight[8]
<1>1. Word \in Nat \ {0} /\ (Word - 1) \div 16 < 268435456 /\ Weight[8] = 268435456
  BY TextAssumption DEF Weight
<1>2. id \in Nat /\ id <= Word - 1 /\ Word - 1 \in Nat
  BY <1>1 DEF Words
<1>3. id \div 16 <= (Word - 1) \div 16
  BY <1>2, Z3
<1>4. (id \div 16) \in Int /\ (Word - 1) \div 16 \in Int
  BY <1>2
<1> QED BY <1>1, <1>3, <1>4

DigitsOf(id, n) == [k \in 1..n |-> LowDigit((id \div Weight[n + 1 - k]) % 16)]

(* The digits printed for an id are all it has.                             *)
LEMMA DigitsPrinted ==
  ASSUME NEW id \in Words
  PROVE  \E n \in 1..8 : HexId(id) = DigitsOf(id, n) /\ id \div Weight[n] \in 0..15
<1> DEFINE T == {k \in 1..8 : k = 1 \/ id >= Weight[k]}
           n == Max(T)
<1>1. id \in Nat
  BY WordIsNat DEF Words
<1>2. n \in T /\ \A y \in T : n >= y
  <2>1. T \in SUBSET (1..8) /\ 1 \in T /\ 8 \in Nat
    OBVIOUS
  <2> HIDE DEF T
  <2> QED BY <2>1, MaxOf
<1>3. HexId(id) = DigitsOf(id, n)
  BY Zenon DEF HexId, DigitsOf
<1> HIDE DEF n
<1>4. id \div Weight[n] \in 0..15
  <2>1. n \in 1..8 /\ Weight[n] \in Nat /\ Weight[n] > 0
    BY <1>2, Weights
  <2>2. PICK w \in Nat \ {0} : w = Weight[n]
    BY <2>1
  <2>3. id \div w \in Nat /\ id = (w * (id \div w)) + (id % w) /\ id % w \in 0..(w - 1)
    BY <1>1, Remainder
  <2>4. id \div w < 16
    <3>1. CASE n < 8
      <4>1. n + 1 \in 1..8 /\ n + 1 \notin T /\ n \in 1..7
        BY <1>2, <2>1, <3>1
      <4>2. id < 16 * w
        BY <1>1, <2>2, <4>1, Weights
      <4>3. ASSUME NEW q \in Nat, q >= 16 PROVE w * q >= 16 * w
        BY <4>3, Sixteen
      <4> QED BY <1>1, <2>3, <4>2, <4>3
    <3>2. CASE n = 8
      <4>1. id \div 16 < w
        BY <2>2, <3>2, IdFits
      <4>2. id \div 16 \in Nat /\ id < 16 * (id \div 16) + 16
        BY <1>1
      <4>3. id < 16 * w
        BY <1>1, <4>1, <4>2
      <4>4. ASSUME NEW q \in Nat, q >= 16 PROVE w * q >= 16 * w
        BY <4>4, Sixteen
      <4> QED BY <1>1, <2>3, <4>3, <4>4
    <3> QED BY <2>1, <3>1, <3>2
  <2>5. id \div w \in 0..15
    <3>1. id \div w \in Nat
      BY <2>3
    <3> QED BY <2>4, <3>1
  <2> QED BY <2>2, <2>5
<1>5. n \in 1..8
  BY <1>2
<1> QED BY <1>3, <1>4, <1>5, Zenon

(* The digits printed for a value, small or capital, are read as that       *)
(* value.                                                                   *)
LEMMA LowDigits ==
  ASSUME NEW v \in 0..15
  PROVE  /\ IsHex(LowDigit(v)) /\ Value(LowDigit(v)) = v /\ LowDigit(v) \in 0..127
         /\ IsHex(HexDigit(v)) /\ Value(HexDigit(v)) = v /\ HexDigit(v) \in 0..127
<1> DEFINE c == LowDigit(v)
           d == HexDigit(v)
<1>1. c \in 0..127 /\ d \in 0..127
  BY DEF LowDigit, HexDigit
<1>2. IsHex(c) /\ Value(c) = v
  BY DigitValue, Zenon
<1>3. IsHex(d) /\ Value(d) = v
  BY DigitValue, Zenon
<1> QED BY <1>1, <1>2, <1>3

(* The digits printed for an id are read as that id.                       *)
LEMMA IdPrinted ==
  ASSUME NEW id \in Words, NEW n \in 1..8, id \div Weight[n] \in 0..15
  PROVE  FoldLeft(Extended, 0, DigitsOf(id, n)) = id
<1> DEFINE d == DigitsOf(id, n)
<1>1. DOMAIN d = 1..n /\ n \in Nat /\ \A k \in 1..n : d[k] = LowDigit((id \div Weight[n + 1 - k]) % 16)
  BY DEF DigitsOf
<1> HIDE DEF d
<1>2. id \in Nat
  BY WordIsNat DEF Words
<1>3. PICK w : AsMeant!Runs(0, d, n, w) /\ FoldLeft(Extended, 0, d) = w[n]
  <2>1. AsMeant!Folded(0, d, n) = FoldLeft(Extended, 0, d)
    BY <1>1, Zenon DEF FoldLeft, MapThenFoldSet, AsMeant!Folded, AsMeant!Rec, Max, AsMeant!Max
  <2>2. n \in Nat
    OBVIOUS
  <2> QED BY <2>1, <2>2, AsMeant!FoldRuns, Zenon
<1>4. w[0] = 0 /\ \A k \in 1..n : w[k] = Extended(w[k - 1], d[k])
  BY <1>3, Zenon DEF AsMeant!Runs
<1> DEFINE Digit(k) == (id \div Weight[n + 1 - k]) % 16
           T == {k \in Nat : k + 1 <= n => w[k + 1] = id \div Weight[n - k]}
<1>5. \A k \in 1..n : w[k] = 16 * w[k - 1] + Digit(k)
  <2> TAKE k \in 1..n
  <2>1. n + 1 - k \in 1..8
    BY <1>1
  <2>2. PICK x \in Nat \ {0} : x = Weight[n + 1 - k]
    BY <2>1, Weights
  <2>3. id \div x \in Nat
    BY <1>2, Remainder
  <2>4. (id \div x) % 16 \in 0..15
    BY <2>3
  <2>5. Digit(k) \in 0..15
    BY <2>2, <2>4
  <2>6. Value(d[k]) = Digit(k)
    BY <1>1, <2>5, LowDigits, Zenon
  <2> QED BY <1>4, <2>6, Zenon DEF Extended
<1>6. 0 \in T
  <2>1. PICK y \in 0..15 : y = id \div Weight[n]
    OBVIOUS
  <2>2. y % 16 = y
    OBVIOUS
  <2>3. n + 1 - 1 = n /\ 1 \in 1..n /\ 1 - 1 = 0 /\ 0 + 1 = 1 /\ n - 0 = n
    BY <1>1
  <2>4. Digit(1) = y
    BY <2>1, <2>2, <2>3
  <2> HIDE DEF Digit
  <2>5. w[1] = 16 * w[0] + y
    BY <1>5, <2>3, <2>4
  <2>6. w[1] = y
    BY <1>4, <2>5
  <2> QED BY <2>1, <2>3, <2>6
<1>7. ASSUME NEW k \in Nat, k \in T PROVE k + 1 \in T
  <2> SUFFICES ASSUME (k + 1) + 1 <= n PROVE w[(k + 1) + 1] = id \div Weight[n - (k + 1)]
    OBVIOUS
  <2> DEFINE j == n - (k + 1)
  <2>1. /\ j \in 1..7 /\ j + 1 = n - k /\ k + 1 <= n /\ (k + 1) + 1 \in 1..n
        /\ ((k + 1) + 1) - 1 = k + 1 /\ n + 1 - ((k + 1) + 1) = j /\ j \in 1..8
    BY <1>1
  <2>2. PICK x \in Nat \ {0} : x = Weight[j] /\ Weight[j + 1] = 16 * x
    BY <2>1, Weights
  <2>3. w[k + 1] = id \div (16 * x)
    BY <1>7, <2>1, <2>2
  <2>4. Digit((k + 1) + 1) = (id \div x) % 16
    BY <2>1, <2>2
  <2> HIDE DEF Digit, j
  <2>5. w[(k + 1) + 1] = 16 * w[k + 1] + Digit((k + 1) + 1)
    BY <1>5, <2>1
  <2>6. w[(k + 1) + 1] = (16 * (id \div (16 * x))) + ((id \div x) % 16)
    BY <2>3, <2>4, <2>5
  <2>7. id \div x = (16 * (id \div (16 * x))) + ((id \div x) % 16)
    BY <1>2, DivTwice
  <2>8. w[(k + 1) + 1] = id \div x
    BY <2>6, <2>7, Zenon
  <2> QED BY <2>2, <2>8 DEF j
<1> HIDE DEF T
<1>8. n - 1 \in T
  <2>1. n - 1 \in Nat
    BY <1>1
  <2> QED BY <1>6, <1>7, <2>1, AsRead!Induction
<1>9. w[n] = id \div Weight[1]
  <2>1. (n - 1) + 1 = n /\ n - (n - 1) = 1
    BY <1>1
  <2> QED BY <1>8, <2>1 DEF T
<1>10. id \div 1 = id
  BY <1>2
<1> QED BY <1>3, <1>9, <1>10, Weights DEF d

(* Two texts, one after the other.                                          *)
LEMMA Joined ==
  ASSUME NEW s \in Seq(0..127), NEW t \in Seq(0..127)
  PROVE  /\ s \o t \in Seq(0..127) /\ Len(s \o t) = Len(s) + Len(t)
         /\ Len(s) \in Nat /\ Len(t) \in Nat
         /\ \A i \in 1..Len(s) : (s \o t)[i] = s[i]
         /\ \A i \in 1..Len(t) : (s \o t)[Len(s) + i] = t[i]
OBVIOUS

(* The line printed for a frame, its # at h.                               *)
PrintedAs(e, h, f) ==
  /\ e \in Seq(0..127) /\ h \in 3..(Len(e) - 1) /\ Len(e) - h = 2 * Len(f.data) + 1
  /\ e[1] = S /\ e[h] = Hash /\ e[Len(e)] = 13
  /\ \A i \in 2..(h - 1) : IsHex(e[i])
  /\ IdTo(e, h - 1) = f.id
  /\ \A k \in 1..Len(f.data) : /\ e[h + 2 * k - 1] = HexDigit(f.data[k] \div 16)
                               /\ e[h + 2 * k] = HexDigit(f.data[k] % 16)

DataText(b) == [k \in 1..(2 * Len(b)) |-> appendHex(b[(k + 1) \div 2])[2 - (k % 2)]]

(* A byte is its two digits.                                                *)
LEMMA Bytes ==
  ASSUME NEW v \in 0..255
  PROVE  /\ v \div 16 \in 0..15 /\ v % 16 \in 0..15 /\ v = 16 * (v \div 16) + (v % 16)
         /\ appendHex(v)[1] = HexDigit(v \div 16) /\ appendHex(v)[2] = HexDigit(v % 16)
<1>1. v \div 16 \in 0..15 /\ v % 16 \in 0..15 /\ v = 16 * (v \div 16) + (v % 16)
  BY Z3
<1>2. appendHex(v)[1] = HexDigit(v \div 16) /\ appendHex(v)[2] = HexDigit(v % 16)
  BY DEF appendHex
<1> QED BY <1>1, <1>2

(* A function on 1..n is a sequence of n elements.                          *)
LEMMA FunctionIsSeq ==
  ASSUME NEW V, NEW n \in Nat, NEW t \in [1..n -> V]
  PROVE  t \in Seq(V) /\ Len(t) = n
OBVIOUS

(* The data are printed as pairs of digits.                                 *)
LEMMA DataPrinted ==
  ASSUME NEW b \in Seq(0..255)
  PROVE  /\ DataText(b) \in Seq(0..127) /\ Len(DataText(b)) = 2 * Len(b)
         /\ \A k \in 1..Len(b) : /\ DataText(b)[2 * k - 1] = HexDigit(b[k] \div 16)
                                 /\ DataText(b)[2 * k] = HexDigit(b[k] % 16)
<1> DEFINE n == Len(b)
           t == DataText(b)
           E(k) == appendHex(b[(k + 1) \div 2])[2 - (k % 2)]
<1>1. n \in Nat
  OBVIOUS
<1>2. ASSUME NEW k \in 1..n
      PROVE  /\ b[k] \in 0..255 /\ 2 * k - 1 \in 1..(2 * n) /\ 2 * k \in 1..(2 * n)
             /\ E(2 * k - 1) = HexDigit(b[k] \div 16) /\ E(2 * k) = HexDigit(b[k] % 16)
  <2>1. b[k] \in 0..255
    BY Element, Zenon
  <2>2. /\ ((2 * k - 1) + 1) \div 2 = k /\ 2 - ((2 * k - 1) % 2) = 1
        /\ (2 * k + 1) \div 2 = k /\ 2 - ((2 * k) % 2) = 2
        /\ 2 * k - 1 \in 1..(2 * n) /\ 2 * k \in 1..(2 * n)
    BY <1>1
  <2>3. E(2 * k - 1) = appendHex(b[k])[1] /\ E(2 * k) = appendHex(b[k])[2]
    BY <2>2
  <2>4. appendHex(b[k])[1] = HexDigit(b[k] \div 16) /\ appendHex(b[k])[2] = HexDigit(b[k] % 16)
    BY <2>1, Bytes, Zenon
  <2> HIDE DEF E
  <2> QED BY <2>1, <2>2, <2>3, <2>4
<1>3. \A j \in 1..(2 * n) : \E k \in 1..n : j = 2 * k - 1 \/ j = 2 * k
  <2> TAKE j \in 1..(2 * n)
  <2>1. CASE j % 2 = 0
    <3>1. j \div 2 \in 1..n /\ j = 2 * (j \div 2)
      BY <1>1, <2>1
    <3> QED BY <3>1
  <2>2. CASE j % 2 = 1
    <3>1. (j + 1) \div 2 \in 1..n /\ j = 2 * ((j + 1) \div 2) - 1
      BY <1>1, <2>2
    <3> QED BY <3>1
  <2> QED BY <2>1, <2>2
<1>4. t = [k \in 1..(2 * n) |-> E(k)]
  BY DEF DataText
<1> HIDE DEF t, E, n
<1>5. ASSUME NEW j \in 1..(2 * n) PROVE E(j) \in 0..127
  <2>1. PICK k \in 1..n : j = 2 * k - 1 \/ j = 2 * k
    BY <1>3
  <2>2. b[k] \div 16 \in 0..15 /\ b[k] % 16 \in 0..15
    BY <1>2, Bytes
  <2>3. HexDigit(b[k] \div 16) \in 0..127 /\ HexDigit(b[k] % 16) \in 0..127
    BY <2>2, LowDigits, Zenon
  <2> QED BY <1>2, <2>1, <2>3
<1>6. 2 * n \in Nat
  BY <1>1
<1>7. t \in Seq(0..127) /\ Len(t) = 2 * n
  <2>1. t \in [1..(2 * n) -> 0..127]
    BY <1>4, <1>5
  <2>2. PICK m \in Nat : m = 2 * n
    BY <1>6
  <2>3. t \in [1..m -> 0..127]
    BY <2>1, <2>2
  <2>4. t \in Seq(0..127) /\ Len(t) = m
    BY <2>3, FunctionIsSeq
  <2> QED BY <2>2, <2>4
<1>8. \A k \in 1..n : t[2 * k - 1] = HexDigit(b[k] \div 16) /\ t[2 * k] = HexDigit(b[k] % 16)
  <2> TAKE k \in 1..n
  <2>1. t[2 * k - 1] = E(2 * k - 1) /\ t[2 * k] = E(2 * k)
    BY <1>2, <1>4
  <2> QED BY <1>2, <2>1
<1> QED BY <1>7, <1>8 DEF t, n

Line(text) == SubSeq(text, 1, Len(text) - 1)

(* The text of an id: its digits are read as that id.                       *)
LEMMA IdText ==
  ASSUME NEW id \in Words
  PROVE  \E n \in 1..8 :
           /\ HexId(id) \in Seq(0..127) /\ Len(HexId(id)) = n
           /\ HexId(id) = [k \in 1..n |-> HexId(id)[k]]
           /\ \A k \in 1..n : IsHex(HexId(id)[k])
           /\ FoldLeft(Extended, 0, HexId(id)) = id
<1>1. PICK n \in 1..8 : HexId(id) = DigitsOf(id, n) /\ id \div Weight[n] \in 0..15
  BY DigitsPrinted
<1> DEFINE d == DigitsOf(id, n)
<1>2. FoldLeft(Extended, 0, d) = id
  BY <1>1, IdPrinted
<1>3. \A k \in 1..n : d[k] \in 0..127 /\ IsHex(d[k])
  <2> TAKE k \in 1..n
  <2>1. id \in Nat /\ n + 1 - k \in 1..8
    BY WordIsNat DEF Words
  <2>2. PICK x \in Nat \ {0} : x = Weight[n + 1 - k]
    BY <2>1, Weights
  <2>3. id \div x \in Nat
    BY <2>1, Remainder
  <2>4. (id \div x) % 16 \in 0..15
    BY <2>3
  <2>5. (id \div Weight[n + 1 - k]) % 16 \in 0..15
    BY <2>2, <2>4
  <2>6. d[k] = LowDigit((id \div Weight[n + 1 - k]) % 16)
    BY DEF DigitsOf
  <2> QED BY <2>5, <2>6, LowDigits, Zenon
<1>4. d = [k \in 1..n |-> d[k]]
  BY DEF DigitsOf
<1>5. n \in Nat
  OBVIOUS
<1> HIDE DEF d
<1>6. d \in [1..n -> 0..127]
  BY <1>3, <1>4
<1>7. d \in Seq(0..127) /\ Len(d) = n
  BY <1>5, <1>6, FunctionIsSeq
<1>8. HexId(id) = d
  BY <1>1 DEF d
<1> QED BY <1>2, <1>3, <1>4, <1>7, <1>8, Zenon

(* u is s, of n characters, followed by t, of m.                           *)
IsJoin(u, s, t, n, m) ==
  /\ u = s \o t /\ u \in Seq(0..127) /\ Len(u) = n + m
  /\ \A i \in 1..n : u[i] = s[i]
  /\ \A i \in 1..m : u[n + i] = t[i]

(* Two texts of known lengths have their characters at known places.        *)
LEMMA JoinedAt ==
  ASSUME NEW s \in Seq(0..127), NEW t \in Seq(0..127),
         NEW n \in Nat, NEW m \in Nat, Len(s) = n, Len(t) = m
  PROVE  IsJoin(s \o t, s, t, n, m)
<1>1. /\ s \o t \in Seq(0..127) /\ Len(s \o t) = n + m
      /\ \A i \in 1..n : (s \o t)[i] = s[i]
      /\ \A i \in 1..m : (s \o t)[n + i] = t[i]
  BY Joined
<1> QED BY <1>1, Zenon DEF IsJoin

(* A line is all of the text but its last character.                        *)
LEMMA AllButLast ==
  ASSUME NEW t \in Seq(0..127), NEW l \in Nat, Len(t) = l + 1
  PROVE  Line(t) \in Seq(0..127) /\ Len(Line(t)) = l /\ \A i \in 1..l : Line(t)[i] = t[i]
<1>1. Len(t) - 1 = l
  OBVIOUS
<1>2. Line(t) = [i \in 1..l |-> t[i]]
  BY <1>1 DEF Line
<1>3. \A i \in 1..l : t[i] \in 0..127
  <2> TAKE i \in 1..l
  <2>1. i \in 1..Len(t)
    OBVIOUS
  <2> QED BY <2>1, Element, Zenon
<1>4. Line(t) \in [1..l -> 0..127]
  BY <1>2, <1>3
<1>5. Line(t) \in Seq(0..127) /\ Len(Line(t)) = l
  BY <1>4, FunctionIsSeq
<1> QED BY <1>2, <1>5

(* What is printed for a data frame is its line and a line feed.            *)
LEMMA Printing ==
  ASSUME NEW f \in DataFrames
  PROVE  /\ Len(canToBridge(f)) \in Nat /\ canToBridge(f) \in Seq(0..127)
         /\ Len(Line(canToBridge(f))) = Len(canToBridge(f)) - 1
         /\ \A i \in 1..(Len(canToBridge(f)) - 1) : Line(canToBridge(f))[i] = canToBridge(f)[i]
         /\ \E h \in Nat : PrintedAs(Line(canToBridge(f)), h, f)
<1> DEFINE p == <<S>>
           q == HexId(f.id)
           r == <<Hash>>
           t == DataText(f.data)
           u == <<13, 10>>
           m == Len(f.data)
<1>1. f.id \in Words /\ f.data \in Seq(0..255) /\ m \in Nat
  BY DEF DataFrames, Words
<1>2. PICK n \in 1..8 :
        /\ q \in Seq(0..127) /\ Len(q) = n /\ q = [k \in 1..n |-> q[k]]
        /\ \A k \in 1..n : IsHex(q[k])
        /\ FoldLeft(Extended, 0, q) = f.id
  BY <1>1, IdText, Zenon
<1>3. p \in Seq(0..127) /\ Len(p) = 1 /\ p[1] = S
  BY DEF S
<1>4. r \in Seq(0..127) /\ Len(r) = 1 /\ r[1] = Hash
  BY DEF Hash
<1>5. u \in Seq(0..127) /\ Len(u) = 2 /\ u[1] = 13
  OBVIOUS
<1>6. t \in Seq(0..127) /\ Len(t) = 2 * m
      /\ \A k \in 1..m : t[2 * k - 1] = HexDigit(f.data[k] \div 16) /\ t[2 * k] = HexDigit(f.data[k] % 16)
  BY <1>1, DataPrinted
<1>7. canToBridge(f) = p \o q \o r \o t \o u
  BY Zenon DEF canToBridge, DataText
<1> HIDE DEF p, q, r, t, u, m
<1>20. n \in Nat /\ 2 * m \in Nat /\ n + 1 \in Nat /\ n + 2 \in Nat /\ n + 2 + 2 * m \in Nat
       /\ 1 \in Nat /\ 2 \in Nat /\ 1 + n = n + 1 /\ (n + 1) + 1 = n + 2
  BY <1>1
<1>31. q \in Seq(0..127) /\ Len(q) = n
  BY <1>2
<1>8. PICK a : IsJoin(a, p, q, 1, n)
  <2>1. IsJoin(p \o q, p, q, 1, n)
    BY <1>3, <1>31, <1>20, JoinedAt, Zenon
  <2> QED BY <2>1, Zenon
<1>32. a \in Seq(0..127) /\ Len(a) = n + 1 /\ a = p \o q
  BY <1>8, <1>20 DEF IsJoin
<1>9. PICK b : IsJoin(b, a, r, n + 1, 1)
  <2>1. IsJoin(a \o r, a, r, n + 1, 1)
    BY <1>4, <1>32, <1>20, JoinedAt, Zenon
  <2> QED BY <2>1, Zenon
<1>33. b \in Seq(0..127) /\ Len(b) = n + 2 /\ b = a \o r
  BY <1>9, <1>20 DEF IsJoin
<1>10. PICK c : IsJoin(c, b, t, n + 2, 2 * m)
  <2>1. IsJoin(b \o t, b, t, n + 2, 2 * m)
    BY <1>6, <1>33, <1>20, JoinedAt, Zenon
  <2> QED BY <2>1, Zenon
<1>34. c \in Seq(0..127) /\ Len(c) = n + 2 + 2 * m /\ c = b \o t
  BY <1>10, <1>20 DEF IsJoin
<1>21. PICK text : IsJoin(text, c, u, n + 2 + 2 * m, 2)
  <2>1. IsJoin(c \o u, c, u, n + 2 + 2 * m, 2)
    BY <1>5, <1>34, <1>20, JoinedAt, Zenon
  <2> QED BY <2>1, Zenon
<1>35. text \in Seq(0..127) /\ Len(text) = (n + 2 + 2 * m) + 2 /\ text = c \o u
  BY <1>21, <1>20 DEF IsJoin
<1>22. canToBridge(f) = text
  BY <1>7, <1>32, <1>33, <1>34, <1>35, Zenon
<1> DEFINE l == n + 3 + 2 * m
           e == Line(text)
<1>23. a[1] = S /\ b[1] = S /\ b[n + 2] = Hash /\ c[1] = S /\ c[n + 2] = Hash
       /\ text[1] = S /\ text[n + 2] = Hash /\ text[l] = 13
  <2>1. a[1] = S
    BY <1>3, <1>8 DEF IsJoin
  <2>2. b[1] = S
    BY <2>1, <1>9, <1>20 DEF IsJoin
  <2>3. b[n + 2] = Hash
    BY <1>4, <1>9, <1>20 DEF IsJoin
  <2>4. c[1] = S /\ c[n + 2] = Hash
    BY <2>2, <2>3, <1>10, <1>20 DEF IsJoin
  <2>5. text[1] = S /\ text[n + 2] = Hash
    <3>1. 1 \in 1..(n + 2 + 2 * m) /\ n + 2 \in 1..(n + 2 + 2 * m)
      BY <1>20
    <3>2. \A i \in 1..(n + 2 + 2 * m) : text[i] = c[i]
      BY <1>21, Zenon DEF IsJoin
    <3>3. text[1] = c[1] /\ text[n + 2] = c[n + 2]
      BY <3>1, <3>2, Zenon
    <3> QED BY <2>4, <3>3, Zenon
  <2>6. l = (n + 2 + 2 * m) + 1
    BY <1>20
  <2>7. text[l] = 13
    <3>1. \A i \in 1..2 : text[(n + 2 + 2 * m) + i] = u[i]
      BY <1>21, Zenon DEF IsJoin
    <3>2. 1 \in 1..2
      OBVIOUS
    <3>3. text[(n + 2 + 2 * m) + 1] = u[1]
      BY <3>1, <3>2, Zenon
    <3> QED BY <2>6, <3>3, <1>5, Zenon
  <2> QED BY <2>1, <2>2, <2>3, <2>4, <2>5, <2>7
<1>24. \A i \in 1..n : text[i + 1] = q[i]
  <2> TAKE i \in 1..n
  <2>1. 1 + i = i + 1 /\ i + 1 \in 1..(n + 1) /\ i + 1 \in 1..(n + 2) /\ i + 1 \in 1..(n + 2 + 2 * m)
    BY <1>20
  <2>2. a[i + 1] = q[i]
    BY <1>8, <2>1 DEF IsJoin
  <2>3. b[i + 1] = q[i]
    BY <1>9, <2>1, <2>2 DEF IsJoin
  <2>4. c[i + 1] = q[i]
    BY <1>10, <2>1, <2>3 DEF IsJoin
  <2> QED BY <1>21, <2>1, <2>4 DEF IsJoin
<1>25. \A i \in 1..(2 * m) : text[n + 2 + i] = t[i]
  <2> TAKE i \in 1..(2 * m)
  <2>1. n + 2 + i \in 1..(n + 2 + 2 * m)
    BY <1>20
  <2>2. c[n + 2 + i] = t[i]
    BY <1>10 DEF IsJoin
  <2> QED BY <1>21, <2>1, <2>2 DEF IsJoin
<1>26. l \in Nat /\ l > n + 2 /\ Len(text) = l + 1
  BY <1>20, <1>35
<1>12. /\ e \in Seq(0..127) /\ Len(e) = l /\ \A i \in 1..l : e[i] = text[i]
  <2> HIDE DEF l
  <2> QED BY <1>35, <1>26, AllButLast
<1> HIDE DEF e
<1> DEFINE h == n + 2
<1>13. /\ e[1] = S /\ e[h] = Hash /\ e[l] = 13
       /\ \A i \in 1..n : e[i + 1] = q[i]
       /\ \A i \in 1..(2 * m) : e[h + i] = t[i]
  <2>1. /\ 1 \in 1..l /\ h \in 1..l /\ l \in 1..l /\ \A i \in 1..n : i + 1 \in 1..l
        /\ \A i \in 1..(2 * m) : h + i \in 1..l
    BY <1>20
  <2>2. e[1] = S /\ e[h] = Hash /\ e[l] = 13
    <3> HIDE DEF l
    <3> QED BY <1>12, <1>23, <2>1
  <2>3. \A i \in 1..n : e[i + 1] = q[i]
    <3> HIDE DEF l
    <3> QED BY <1>12, <1>24, <2>1
  <2>4. \A i \in 1..(2 * m) : e[h + i] = t[i]
    <3> HIDE DEF l
    <3> QED BY <1>12, <1>25, <2>1
  <2> QED BY <2>2, <2>3, <2>4
<1>14. \A i \in 2..(h - 1) : IsHex(e[i])
  <2> TAKE i \in 2..(h - 1)
  <2>1. i - 1 \in 1..n /\ (i - 1) + 1 = i
    OBVIOUS
  <2>2. e[(i - 1) + 1] = q[i - 1]
    BY <1>13, <2>1
  <2> QED BY <1>2, <2>1, <2>2
<1>15. IdTo(e, h - 1) = f.id
  <2>1. SubSeq(e, 2, h - 1) = [k \in 1..n |-> e[k + 1]]
    <3>1. h - 1 = n + 1 /\ n \in Nat
      OBVIOUS
    <3>2. SubSeq(e, 2, n + 1) = [k \in 1..n |-> e[k + 1]]
      <4>1. SubSeq(e, 2, n + 1) = [k \in 1..((n + 1) - 2 + 1) |-> e[2 + k - 1]]
        OBVIOUS
      <4>2. (n + 1) - 2 + 1 = n /\ \A k \in 1..n : 2 + k - 1 = k + 1
        OBVIOUS
      <4> QED BY <4>1, <4>2
    <3> QED BY <3>1, <3>2
  <2>2. [k \in 1..n |-> e[k + 1]] = [k \in 1..n |-> q[k]]
    BY <1>13
  <2>3. SubSeq(e, 2, h - 1) = q
    BY <1>2, <2>1, <2>2
  <2> QED BY <1>2, <2>3, Zenon DEF IdTo
<1>16. \A k \in 1..m : /\ e[h + 2 * k - 1] = HexDigit(f.data[k] \div 16)
                       /\ e[h + 2 * k] = HexDigit(f.data[k] % 16)
  <2> TAKE k \in 1..m
  <2>1. /\ 2 * k - 1 \in 1..(2 * m) /\ 2 * k \in 1..(2 * m)
        /\ h + (2 * k - 1) = h + 2 * k - 1
    BY <1>1 DEF m
  <2>2. e[h + (2 * k - 1)] = t[2 * k - 1] /\ e[h + 2 * k] = t[2 * k]
    BY <1>13, <2>1
  <2> QED BY <1>6, <2>1, <2>2
<1>17. h \in 3..(l - 1) /\ l - h = 2 * m + 1 /\ h \in Nat
  <2>1. PICK w \in Nat : w = 2 * m
    BY <1>20
  <2>2. l = n + 3 + w
    BY <2>1
  <2> HIDE DEF l
  <2> QED BY <2>1, <2>2
<1>18. PrintedAs(e, h, f)
  <2> HIDE DEF h, l
  <2>1. m = Len(f.data)
    BY DEF m
  <2>2. e \in Seq(0..127) /\ h \in 3..(Len(e) - 1) /\ Len(e) - h = 2 * Len(f.data) + 1
    BY <1>12, <1>17, <2>1, Zenon
  <2>3. e[1] = S /\ e[h] = Hash /\ e[Len(e)] = 13
    BY <1>12, <1>13, Zenon
  <2>4. \A k \in 1..Len(f.data) : /\ e[h + 2 * k - 1] = HexDigit(f.data[k] \div 16)
                                  /\ e[h + 2 * k] = HexDigit(f.data[k] % 16)
    BY <1>16, <2>1, Zenon
  <2> QED BY <1>14, <1>15, <2>2, <2>3, <2>4, Zenon DEF PrintedAs
<1>19. /\ Len(text) \in Nat /\ text \in Seq(0..127) /\ Len(e) = Len(text) - 1
       /\ \A i \in 1..(Len(text) - 1) : e[i] = text[i]
  <2>1. Len(text) - 1 = l /\ Len(text) \in Nat
    BY <1>26
  <2>2. \A i \in 1..(Len(text) - 1) : e[i] = text[i]
    BY <1>12, <2>1, Zenon
  <2> QED BY <1>12, <1>35, <2>1, <2>2, Zenon
<1>27. \E k \in Nat : PrintedAs(e, k, f)
  BY <1>17, <1>18, Zenon
<1>28. PICK z : z = canToBridge(f)
  OBVIOUS
<1>29. z = text
  BY <1>22, <1>28
<1>30. /\ Len(z) \in Nat /\ z \in Seq(0..127)
       /\ Len(Line(z)) = Len(z) - 1
       /\ \A i \in 1..(Len(z) - 1) : Line(z)[i] = z[i]
       /\ \E k \in Nat : PrintedAs(Line(z), k, f)
  <2> HIDE DEF h
  <2> QED BY <1>19, <1>27, <1>29, Zenon DEF e
<1> HIDE DEF h
<1> QED BY <1>28, <1>30, Zenon

(* The parts of a data frame.                                               *)
LEMMA FrameBytes ==
  ASSUME NEW f \in DataFrames
  PROVE  /\ f = Frame(f.id, FALSE, f.data) /\ f.data \in Seq(0..255) /\ Len(f.data) \in Nat
         /\ Len(f.data) <= MaxBytes /\ f.id \in 0..(Word - 1) /\ f.remote = FALSE
<1>1. f \in [ext: BOOLEAN, id: 0..(Word - 1), remote: {FALSE}, data: Seq(0..255)]
  BY Zenon DEF DataFrames
<1>2. f = Frame(f.id, FALSE, f.data) /\ Len(f.data) <= MaxBytes
  BY Zenon DEF DataFrames
<1>3. f.data \in Seq(0..255) /\ f.id \in 0..(Word - 1) /\ f.remote = FALSE
  BY <1>1
<1>4. Len(f.data) \in Nat
  BY <1>3
<1> QED BY <1>2, <1>3, <1>4, Zenon

(* All that a printed line has between its # and its end are digits.       *)
LEMMA PrintedDigits ==
  ASSUME NEW f \in DataFrames, NEW e, NEW h \in Nat, PrintedAs(e, h, f)
  PROVE  \A i \in (h + 1)..(Len(e) - 1) : IsHex(e[i])
<1> TAKE i \in (h + 1)..(Len(e) - 1)
<1> DEFINE m == Len(f.data)
<1>1. m \in Nat /\ f.data \in Seq(0..255)
  BY FrameBytes
<1>2. Len(e) - h = 2 * m + 1 /\ Len(e) \in Nat
  <2>1. e \in Seq(0..127)
    BY Zenon DEF PrintedAs
  <2> QED BY <2>1 DEF PrintedAs
<1>3. \A k \in 1..m : e[h + 2 * k - 1] = HexDigit(f.data[k] \div 16) /\ e[h + 2 * k] = HexDigit(f.data[k] % 16)
  BY Zenon DEF PrintedAs
<1>4. \A k \in 1..m : f.data[k] \in 0..255
  BY <1>1, Element, Zenon
<1> HIDE DEF m
<1>5. PICK k \in 1..m : i = h + 2 * k - 1 \/ i = h + 2 * k
  <2> DEFINE j == i - h
  <2>1. j \in 1..(2 * m) /\ i = h + j
    BY <1>1, <1>2
  <2>2. \E k \in 1..m : j = 2 * k - 1 \/ j = 2 * k
    <3> HIDE DEF j
    <3>1. CASE j % 2 = 0
      <4>1. j \div 2 \in 1..m /\ j = 2 * (j \div 2)
        BY <1>1, <2>1, <3>1
      <4> QED BY <4>1
    <3>2. CASE j % 2 = 1
      <4>1. (j + 1) \div 2 \in 1..m /\ j = 2 * ((j + 1) \div 2) - 1
        BY <1>1, <2>1, <3>2
      <4> QED BY <4>1
    <3>3. j \in Int
      BY <1>1, <2>1
    <3> QED BY <3>1, <3>2, <3>3
  <2>3. PICK k \in 1..m : j = 2 * k - 1 \/ j = 2 * k
    BY <2>2
  <2>4. k \in Int
    BY <1>1
  <2>5. i = h + 2 * k - 1 \/ i = h + 2 * k
    BY <2>1, <2>3, <2>4
  <2> QED BY <2>5
<1>6. f.data[k] \div 16 \in 0..15 /\ f.data[k] % 16 \in 0..15
  BY <1>4, Bytes, Zenon
<1>7. IsHex(HexDigit(f.data[k] \div 16)) /\ IsHex(HexDigit(f.data[k] % 16))
  BY <1>6, LowDigits, Zenon
<1> QED BY <1>3, <1>5, <1>7, Zenon

(* The line printed for a frame is well formed, and means that frame.      *)
LEMMA PrintedMeans ==
  ASSUME NEW f \in DataFrames, NEW e, NEW h \in Nat, PrintedAs(e, h, f)
  PROVE  WellFormed(e) /\ Meaning(e) = f
<1> DEFINE m == Len(f.data)
<1>1. /\ m \in Nat /\ m <= MaxBytes /\ f.data \in Seq(0..255) /\ f.id \in 0..(Word - 1)
      /\ f = Frame(f.id, FALSE, f.data)
  BY FrameBytes
<1>2. /\ e \in Seq(0..127) /\ h \in 3..(Len(e) - 1) /\ Len(e) - h = 2 * m + 1
      /\ e[1] = S /\ e[h] = Hash /\ e[Len(e)] = 13
      /\ \A i \in 2..(h - 1) : IsHex(e[i])
      /\ IdTo(e, h - 1) = f.id
      /\ \A k \in 1..m : e[h + 2 * k - 1] = HexDigit(f.data[k] \div 16) /\ e[h + 2 * k] = HexDigit(f.data[k] % 16)
  BY Zenon DEF PrintedAs
<1>3. \A i \in (h + 1)..(Len(e) - 1) : IsHex(e[i])
  BY PrintedDigits, Zenon
<1>4. \A k \in 1..m : f.data[k] \in 0..255
  BY <1>1, Element, Zenon
<1> HIDE DEF m
<1>5. Len(e) \in Nat /\ (Len(e) - h) % 2 = 1 /\ (Len(e) - h) \div 2 = m
  <2>1. Len(e) \in Nat
    BY <1>2
  <2>2. (2 * m + 1) % 2 = 1 /\ (2 * m + 1) \div 2 = m
    BY <1>1
  <2> QED BY <1>2, <2>1, <2>2
<1>6. e # <<>> /\ Head(e) = S /\ Last(e) < Space
  <2>1. e # <<>>
    BY <1>2, <1>5
  <2>2. Head(e) = e[1]
    BY <1>2, <2>1
  <2>3. Last(e) = 13 /\ 13 < Space
    BY <1>2 DEF Last, Space
  <2> QED BY <1>2, <2>1, <2>2, <2>3
<1>7. WellFormed(e)
  BY <1>2, <1>3, <1>5, <1>6, Zenon DEF WellFormed
<1>8. PICK g \in 3..(Len(e) - 1) : Parts(e, g) /\ HashAt(e) = g
  BY <1>2, <1>7, LineParts
<1>9. g = h
  <2>1. e[g] = Hash /\ ~IsHex(Hash)
    BY <1>8 DEF Parts, IsHex, Hash
  <2>2. ~IsHex(e[g])
    BY <2>1
  <2>3. g \notin 2..(h - 1) /\ g \notin (h + 1)..(Len(e) - 1)
    BY <1>2, <1>3, <2>2, Zenon
  <2> QED BY <1>2, <1>5, <2>3
<1>10. ~(e[h + 1] = R)
  <2>1. CASE m = 0
    <3>1. h + 1 = Len(e)
      BY <1>2, <1>5, <2>1
    <3> QED BY <1>2, <3>1 DEF R
  <2>2. CASE m # 0
    <3>1. h + 1 \in (h + 1)..(Len(e) - 1)
      BY <1>1, <1>2, <1>5, <2>2
    <3>2. IsHex(e[h + 1])
      BY <1>3, <3>1, Zenon
    <3>3. ~IsHex(R)
      BY DEF IsHex, R
    <3> QED BY <3>2, <3>3, Zenon
  <2> QED BY <2>1, <2>2
<1>11. FoldLeft(Extended, 0, SubSeq(e, 2, h - 1)) % Word = f.id
  <2>1. FoldLeft(Extended, 0, SubSeq(e, 2, h - 1)) = f.id
    BY <1>2, Zenon DEF IdTo
  <2>2. f.id % Word = f.id
    <3>1. Word \in Nat \ {0} /\ 0 \in Nat
      BY WordIsNat
    <3>2. (Word * 0 + f.id) % Word = f.id
      BY <1>1, <3>1, RemainderIs, Zenon
    <3>3. Word * 0 + f.id = f.id
      BY <1>1, <3>1
    <3> QED BY <3>2, <3>3, Zenon
  <2> QED BY <2>1, <2>2, Zenon
<1>12. Min({MaxBytes, (Len(e) - h) \div 2}) = m
  <2>1. Min({MaxBytes, m}) = IF m < MaxBytes THEN m ELSE MaxBytes
    BY <1>1, BytesOf
  <2>2. (IF m < MaxBytes THEN m ELSE MaxBytes) = m
    BY <1>1, BytesAreNat
  <2> QED BY <1>5, <2>1, <2>2, Zenon
<1>13. ASSUME NEW k \in 1..m PROVE 16 * Value(e[h + 2 * k - 1]) + Value(e[h + 2 * k]) = f.data[k]
  <2> DEFINE v == f.data[k]
  <2>1. v \div 16 \in 0..15 /\ v % 16 \in 0..15 /\ v = 16 * (v \div 16) + (v % 16)
    BY <1>4, Bytes, Zenon
  <2>2. Value(HexDigit(v \div 16)) = v \div 16 /\ Value(HexDigit(v % 16)) = v % 16
    BY <2>1, LowDigits, Zenon
  <2>3. e[h + 2 * k - 1] = HexDigit(v \div 16) /\ e[h + 2 * k] = HexDigit(v % 16)
    BY <1>2, Zenon
  <2> HIDE DEF v
  <2>4. 16 * Value(e[h + 2 * k - 1]) + Value(e[h + 2 * k]) = 16 * (v \div 16) + (v % 16)
    BY <2>2, <2>3, Zenon
  <2> QED BY <2>1, <2>4, Zenon DEF v
<1>14. f.data = [k \in 1..m |-> f.data[k]]
  BY <1>1, AsFunction, Zenon DEF m
<1>15. [k \in 1..m |-> 16 * Value(e[h + 2 * k - 1]) + Value(e[h + 2 * k])] = [k \in 1..m |-> f.data[k]]
  BY <1>13, Zenon
<1>16. Meaning(e) = Frame(f.id, FALSE,
                          [k \in 1..m |-> 16 * Value(e[h + 2 * k - 1]) + Value(e[h + 2 * k])])
  <2>1. HashAt(e) = h
    BY <1>8, <1>9, Zenon
  <2> DEFINE id == FoldLeft(Extended, 0, SubSeq(e, 2, h - 1)) % Word
             n == Min({MaxBytes, (Len(e) - h) \div 2})
             remote == e[h + 1] = R
             data == [k \in 1..n |-> 16 * Value(e[h + 2 * k - 1]) + Value(e[h + 2 * k])]
  <2>2. Meaning(e) = Frame(id, remote, IF remote THEN <<>> ELSE data)
    BY <2>1, Zenon DEF Meaning
  <2>3. remote = FALSE
    BY <1>10, Zenon
  <2>4. n = m /\ id = f.id
    BY <1>11, <1>12, Zenon
  <2> HIDE DEF id, n
  <2>5. data = [k \in 1..m |-> 16 * Value(e[h + 2 * k - 1]) + Value(e[h + 2 * k])]
    BY <2>4, Zenon
  <2> HIDE DEF data, remote
  <2>6. (IF remote THEN <<>> ELSE data) = data
    BY <2>3
  <2> QED BY <2>2, <2>3, <2>4, <2>5, <2>6, Zenon
<1>17. Meaning(e) = f
  BY <1>1, <1>14, <1>15, <1>16, Zenon
<1> QED BY <1>7, <1>17

(* What is sent, printed and sent back is sent again.                      *)
LEMMA SendableIsData ==
  ASSUME NEW f, Sendable(f), ~f.remote
  PROVE  f \in DataFrames
<1>1. /\ f = Frame(f.id, f.remote, f.data) /\ f.id \in 0..(Word - 1) /\ f.ext \in BOOLEAN
      /\ f.remote \in BOOLEAN /\ f.data \in Seq(0..255) /\ Len(f.data) <= MaxBytes
  BY Zenon DEF Sendable
<1>2. f.remote = FALSE
  BY <1>1
<1>3. f = Frame(f.id, FALSE, f.data)
  BY <1>1, <1>2, Zenon
<1>4. f = [ext |-> f.id >= StdIds, id |-> f.id, remote |-> FALSE, data |-> f.data]
  BY <1>3, Zenon DEF Frame
<1>5. (f.id >= StdIds) \in BOOLEAN
  BY <1>1, StdIdsAreNat
<1> DEFINE i == f.id
           d == f.data
           b == f.id >= StdIds
<1>6. i \in 0..(Word - 1) /\ d \in Seq(0..255) /\ b \in BOOLEAN
  BY <1>1, <1>5
<1> HIDE DEF i, d, b
<1>7. [ext |-> b, id |-> i, remote |-> FALSE, data |-> d]
        \in [ext: BOOLEAN, id: 0..(Word - 1), remote: {FALSE}, data: Seq(0..255)]
  BY <1>6
<1>8. f \in [ext: BOOLEAN, id: 0..(Word - 1), remote: {FALSE}, data: Seq(0..255)]
  BY <1>4, <1>7, Zenon DEF i, d, b
<1> QED BY <1>1, <1>3, <1>8, Zenon DEF DataFrames

(* So the parser sends the frame again when it finds its line in front of   *)
(* whatever is in the buffer,                                               *)
LEMMA ParserEchoes == ParserInv => EchoIsFrame
<1> SUFFICES ASSUME ParserInv, sent # None, ~sent.remote PROVE EchoIsFrame
  BY Zenon DEF EchoIsFrame
<1> DEFINE text == canToBridge(sent)
           mem == [i \in 0..(FillRange - 1) |->
                     IF i < Len(text) - 1 THEN text[i + 1]
                     ELSE IF i < BufSize THEN canCmdBuf[i] ELSE 0]
<1> SUFFICES ASSUME Len(text) <= FillRange PROVE processCanCmd(mem).frame = sent
  BY Zenon DEF EchoIsFrame
<1>1. sent \in DataFrames
  <2>1. Sendable(sent)
    BY DEF ParserInv, Result
  <2> QED BY <2>1, SendableIsData, Zenon
<1>2. /\ Len(text) \in Nat /\ text \in Seq(0..127)
      /\ Len(Line(text)) = Len(text) - 1
      /\ \A i \in 1..(Len(text) - 1) : Line(text)[i] = text[i]
      /\ \E h \in Nat : PrintedAs(Line(text), h, sent)
  BY <1>1, Printing, Zenon
<1>3. FillRange \in Nat
  BY ParserAssumption
<1>4. mem = [i \in 0..(FillRange - 1) |->
               IF i < Len(text) - 1 THEN text[i + 1]
               ELSE IF i < BufSize THEN canCmdBuf[i] ELSE 0]
  OBVIOUS
<1> DEFINE l == Line(text)
<1> HIDE DEF mem, text, l
<1>5. Holds(mem, l)
  <2>1. Len(l) = Len(text) - 1 /\ \A i \in 1..(Len(text) - 1) : l[i] = text[i]
    BY <1>2 DEF l
  <2>2. Len(l) <= FillRange
    BY <1>2, <1>3, <2>1
  <2>3. ASSUME NEW i \in 1..Len(l) PROVE mem[i - 1] = l[i]
    <3>1. /\ i - 1 \in 0..(FillRange - 1) /\ i - 1 < Len(text) - 1 /\ (i - 1) + 1 = i
          /\ i \in 1..(Len(text) - 1)
      BY <1>2, <1>3, <2>1
    <3>2. mem[i - 1] = text[(i - 1) + 1]
      BY <1>4, <3>1
    <3> QED BY <2>1, <3>1, <3>2
  <2> QED BY <2>2, <2>3, Zenon DEF Holds
<1>6. PICK h \in Nat : PrintedAs(l, h, sent)
  BY <1>2 DEF l
<1>7. l \in Seq(0..127)
  BY <1>6, Zenon DEF PrintedAs
<1>8. WellFormed(l) /\ Meaning(l) = sent
  BY <1>1, <1>6, PrintedMeans, Zenon
<1>9. processCanCmd(mem).frame = Meaning(l)
  BY <1>5, <1>7, <1>8, LineRead, Zenon
<1> QED BY <1>8, <1>9, Zenon

---------------------------------------------------------------------------------
(* The automaton, given a printed line, is at each character where the     *)
(* line is.                                                                *)
EchoAt(r, e, h, k) ==
  /\ r[k] \in SerialStates
  /\ k < h => InId(r[k], e, k)
  /\ k >= h => InData(r[k], e, k, h)

(* and so does the automaton, whatever it has in its frame: after each      *)
(* character of the line it knows what the line says up to there.           *)
LEMMA EchoRead ==
  ASSUME NEW s \in SerialStates, s.state = "sNONE", NEW f \in DataFrames,
         NEW e, NEW h \in Nat, PrintedAs(e, h, f)
  PROVE  FoldLeft(CanSend, s, e).sent = f
<1> DEFINE n == Len(e)
<1>1. /\ e \in Seq(0..127) /\ h \in 3..(n - 1) /\ n - h = 2 * Len(f.data) + 1
      /\ e[1] = S /\ e[h] = Hash /\ e[n] = 13
      /\ \A i \in 2..(h - 1) : IsHex(e[i])
  BY Zenon DEF PrintedAs
<1>2. \A i \in (h + 1)..(n - 1) : IsHex(e[i])
  BY PrintedDigits, Zenon
<1>3. n \in Nat /\ DOMAIN e = 1..n
  BY <1>1
<1>4. WellFormed(e) /\ Meaning(e) = f
  BY PrintedMeans, Zenon
<1>5. \A i \in 1..n : e[i] \in 0..127
  BY <1>1, Element, Zenon
<1>6. n - h <= 2 * MaxBytes + 1 /\ MaxBytes \in Nat
  <2>1. Len(f.data) \in Nat /\ Len(f.data) <= MaxBytes /\ MaxBytes \in Nat
    BY FrameBytes, BytesAreNat
  <2> QED BY <1>1, <2>1
<1> HIDE DEF n
<1>7. PICK r : AsTyped!Runs(s, e, n, r) /\ FoldLeft(CanSend, s, e) = r[n]
  <2>1. AsTyped!Folded(s, e, n) = FoldLeft(CanSend, s, e)
    BY <1>3, Zenon DEF FoldLeft, MapThenFoldSet, AsTyped!Folded, AsTyped!Rec, Max, AsTyped!Max
  <2> QED BY <1>3, <2>1, AsTyped!FoldRuns, Zenon
<1>8. r[0] = s /\ \A k \in 1..n : r[k] = CanSend(r[k - 1], e[k])
  BY <1>7, Zenon DEF AsTyped!Runs
<1> DEFINE T == {k \in Nat : k + 1 <= n - 1 => EchoAt(r, e, h, k + 1)}
<1>9. 0 \in T
  <2>1. 1 \in 1..n /\ 1 - 1 = 0 /\ 1 < h /\ 0 + 1 = 1 /\ ~(1 >= h) /\ n > 0
    BY <1>1, <1>3
  <2>6. e # <<>>
    <3>1. n > 0
      BY <2>1
    <3>2. Len(e) > 0
      BY <3>1 DEF n
    <3> QED BY <3>2
  <2>2. r[1] = CanSend(s, e[1])
    <3>1. r[1] = CanSend(r[1 - 1], e[1])
      BY <1>8, <2>1, Zenon
    <3> QED BY <1>8, <2>1, <3>1, Zenon
  <2>3. InId(r[1], e, 1)
    BY <1>1, <2>2, <2>6, FirstChar, Zenon
  <2>4. r[1] \in SerialStates
    <3>1. Limited(s, e[1]) /\ e[1] \in 0..127
      BY <1>5, <2>1 DEF Limited
    <3> QED BY <2>2, <3>1, SerialStep, Zenon
  <2>5. EchoAt(r, e, h, 1)
    BY <2>1, <2>3, <2>4, Zenon DEF EchoAt
  <2> QED BY <2>1, <2>5
<1>10. ASSUME NEW k \in Nat, k \in T PROVE k + 1 \in T
  <2> SUFFICES ASSUME (k + 1) + 1 <= n - 1 PROVE EchoAt(r, e, h, (k + 1) + 1)
    OBVIOUS
  <2> DEFINE j == k + 1
  <2>1. /\ j \in 1..(n - 1) /\ j + 1 \in 1..n /\ (j + 1) - 1 = j /\ j + 1 <= n - 1 /\ k + 1 <= n - 1
        /\ j \in Nat
    BY <1>3
  <2>2. EchoAt(r, e, h, j)
    BY <1>10, <2>1
  <2> HIDE DEF j, T
  <2>3. r[j + 1] = CanSend(r[j], e[j + 1])
    <3>1. r[j + 1] = CanSend(r[(j + 1) - 1], e[j + 1])
      BY <1>8, <2>1, Zenon
    <3> QED BY <2>1, <3>1, Zenon
  <2>4. r[j] \in SerialStates /\ e[j + 1] \in 0..127 /\ j \in 1..(Len(e) - 1)
    BY <1>5, <2>1, <2>2, Zenon DEF EchoAt, n
  <2>5. CASE j + 1 < h
    <3>1. j < h /\ j + 1 \in 2..(h - 1) /\ ~(j + 1 >= h)
      BY <1>1, <2>1, <2>5
    <3>2. InId(r[j], e, j) /\ IsHex(e[j + 1])
      BY <1>1, <2>2, <3>1, Zenon DEF EchoAt
    <3>3. InId(r[j + 1], e, j + 1)
      BY <1>1, <2>3, <2>4, <3>2, IdChar, Zenon
    <3>4. Limited(r[j], e[j + 1])
      BY <3>2 DEF InId, Limited
    <3>5. r[j + 1] \in SerialStates
      BY <2>3, <2>4, <3>4, SerialStep, Zenon
    <3> QED BY <3>1, <3>3, <3>5, Zenon DEF EchoAt, j
  <2>6. CASE j + 1 = h
    <3>1. j < h /\ ~(j + 1 < h)
      BY <1>1, <2>1, <2>6
    <3>2. InId(r[j], e, j) /\ e[j + 1] = Hash
      BY <1>1, <2>2, <2>6, <3>1, Zenon DEF EchoAt
    <3>3. InData(r[j + 1], e, j + 1, j + 1)
      BY <1>1, <2>3, <2>4, <3>2, HashChar, Zenon
    <3>4. Limited(r[j], e[j + 1])
      BY <3>2 DEF InId, Limited
    <3>5. r[j + 1] \in SerialStates
      BY <2>3, <2>4, <3>4, SerialStep, Zenon
    <3> QED BY <2>6, <3>1, <3>3, <3>5, Zenon DEF EchoAt, j
  <2>7. CASE j + 1 > h
    <3>1. j >= h /\ ~(j + 1 < h) /\ j + 1 \in (h + 1)..(n - 1)
      BY <1>1, <2>1, <2>7
    <3>2. InData(r[j], e, j, h) /\ IsHex(e[j + 1])
      BY <1>2, <2>2, <3>1, Zenon DEF EchoAt
    <3>3. r[j].nibble < 2 * MaxBytes
      <4>1. r[j].nibble = j - h
        BY <3>2 DEF InData
      <4>2. j - h < 2 * MaxBytes
        BY <1>1, <1>3, <1>6, <2>1
      <4> QED BY <4>1, <4>2
    <3>4. InData(r[j + 1], e, j + 1, h)
      BY <1>1, <2>3, <2>4, <3>2, <3>3, DataChar, Zenon
    <3>5. Limited(r[j], e[j + 1])
      <4>1. r[j].nibble # 2 * MaxBytes
        BY <3>3, <1>6
      <4> QED BY <4>1 DEF Limited
    <3>6. r[j + 1] \in SerialStates
      BY <2>3, <2>4, <3>5, SerialStep, Zenon
    <3> QED BY <3>1, <3>4, <3>6, Zenon DEF EchoAt, j
  <2> QED BY <1>1, <2>1, <2>5, <2>6, <2>7
<1> HIDE DEF T
<1>11. n - 2 \in T
  <2>1. n - 2 \in Nat
    BY <1>1, <1>3
  <2> QED BY <1>9, <1>10, <2>1, AsRead!Induction
<1> DEFINE k == n - 1
<1>12. k \in Nat /\ (n - 2) + 1 = k /\ k <= n - 1 /\ k >= h /\ k + 1 = n /\ n \in 1..n /\ n - 1 = k
  BY <1>1, <1>3
<1>13. EchoAt(r, e, h, k)
  BY <1>11, <1>12 DEF T
<1> HIDE DEF k
<1>14. r[k] \in SerialStates /\ InData(r[k], e, k, h)
  BY <1>12, <1>13, Zenon DEF EchoAt
<1>15. Len(e) = k + 1
  BY <1>12 DEF n
<1>16. CanSend(r[k], e[k + 1]).sent = Meaning(e)
  BY <1>1, <1>4, <1>12, <1>14, <1>15, EndChar, Zenon
<1>17. r[n] = CanSend(r[k], e[n])
  <2>1. r[n] = CanSend(r[n - 1], e[n])
    BY <1>8, <1>12, Zenon
  <2> QED BY <1>12, <2>1, Zenon
<1> QED BY <1>4, <1>7, <1>12, <1>16, <1>17, Zenon

(* The frame the automaton has sent is one that is printed.                 *)
LEMMA SerialEchoes == SerialInv => SerialEcho
<1> SUFFICES ASSUME SerialInv, serial.sent # None PROVE SerialEcho
  BY Zenon DEF SerialEcho
<1> DEFINE text == canToBridge(serial.sent)
           echo == SubSeq(text, 1, Len(text) - 1)
<1>1. serial \in SerialStates /\ serial.state = "sNONE" /\ serial.sent \in DataFrames
  <2>1. serial \in SerialStates /\ (serial.state # "sNONE" => serial.sent = None)
    BY DEF SerialInv, SerialShape
  <2>2. serial.sent \in Sendings
    BY <2>1 DEF SerialStates
  <2> QED BY <2>1, <2>2, Zenon DEF Sendings
<1>2. PICK h \in Nat : PrintedAs(Line(text), h, serial.sent)
  BY <1>1, Printing, Zenon
<1>3. FoldLeft(CanSend, serial, Line(text)).sent = serial.sent
  BY <1>1, <1>2, EchoRead, Zenon
<1>4. Line(text) = echo
  BY Zenon DEF Line
<1>5. FoldLeft(CanSend, serial, echo).sent = serial.sent
  BY <1>3, <1>4, Zenon
<1> QED BY <1>5, Zenon DEF SerialEcho

---------------------------------------------------------------------------------
(* The card.  MountedIsWatched speaks of main at rest; what makes it true  *)
(* is what holds while main works and events are pending: whenever the     *)
(* callback has lost sight of a card that main has mounted, or is about to *)
(* mount, the removal is still pending or main is busy with it.            *)

Mounting == main \in {"connecting", "mounting"}
Unmounting == main \in {"disconnecting", "unmounting"}
Told == "removed" \in events

(* A card out of sight that main has mounted, mounts, or has been told of. *)
LossIsTold ==
  cnt > 0 => /\ "inserted" \in events \/ Mounting => Told
             /\ fs_ready => Told \/ Unmounting

(* The same for a card that has come back into sight in the meantime.      *)
ReturnIsTold ==
  "inserted" \in events \/ Mounting =>
    /\ fs_ready => Told \/ Unmounting
    /\ "inserted" \in events /\ Mounting => Told

(* The driver and the power are on for a file system that is mounted.      *)
MountedIsPowered ==
  /\ fs_ready \/ Mounting => powered
  /\ main = "mounting" => connected
  /\ fs_ready => connected \/ Told \/ Unmounting

CardInv == TypeOK /\ LossIsTold /\ ReturnIsTold /\ MountedIsPowered

(* The monitor starts in a state of these types.                           *)
LEMMA CardInitTypes == Init => TypeOK
<1> SUFFICES ASSUME Init PROVE TypeOK
  OBVIOUS
<1>1. cnt \in 0..Interval
  BY IntervalAssumption DEF Init
<1>2. /\ card \in BOOLEAN /\ powered \in BOOLEAN /\ connected \in BOOLEAN
      /\ transfer \in BOOLEAN /\ fs_ready \in BOOLEAN /\ unlucky \in BOOLEAN
      /\ events \subseteq Events
  BY DEF Init
<1> QED BY <1>1, <1>2 DEF Init, TypeOK

(* Every step of the callback and of main keeps the types, Interval being  *)
(* where the count starts.                                                 *)
LEMMA CardTypesKept == TypeOK /\ [Next]_vars => TypeOK'
<1> SUFFICES ASSUME TypeOK, [Next]_vars PROVE TypeOK'
  OBVIOUS
<1>1. CASE MoveCard \/ StartTransfer \/ EndTransfer
  BY <1>1 DEF TypeOK, MoveCard, StartTransfer, EndTransfer, monitor, volume
<1>2. CASE Poll
  <2>1. cnt' \in 0..Interval
    BY <1>2, IntervalAssumption DEF Poll, Present, Missing, Reload, TypeOK
  <2>2. events' \subseteq Events
    BY <1>2 DEF Poll, Present, Missing, TypeOK, Events
  <2>3. unlucky' \in BOOLEAN
    BY <1>2 DEF Poll, TypeOK
  <2> QED BY <1>2, <2>1, <2>2, <2>3 DEF Poll, TypeOK, volume
<1>3. CASE Inserted \/ Removed
  BY <1>3 DEF TypeOK, Inserted, Removed, Take, volume
<1>4. CASE Connect \/ Mount
  BY <1>4 DEF TypeOK, Connect, Mount, monitor, volume
<1>5. CASE Disconnect \/ Unmount
  BY <1>5 DEF TypeOK, Disconnect, Unmount, monitor, volume
<1>6. CASE UNCHANGED vars
  BY <1>6 DEF TypeOK, vars, monitor, volume
<1> QED BY <1>1, <1>2, <1>3, <1>4, <1>5, <1>6 DEF Next, Main

(* So they are what TypeOK says, always.                                   *)
THEOREM CardTypeCorrect == Spec => []TypeOK
BY CardInitTypes, CardTypesKept, PTL DEF Spec

(* Before the first check nothing is mounted and nothing pending.          *)
LEMMA CardInvInit == Init => CardInv
<1> SUFFICES ASSUME Init PROVE CardInv
  OBVIOUS
<1> QED
  BY CardInitTypes DEF Init, CardInv, LossIsTold, ReturnIsTold, MountedIsPowered, Mounting

(* The people and the threads change nothing the invariant speaks of.      *)
LEMMA OthersKeepInv ==
  ASSUME CardInv, TypeOK', MoveCard \/ StartTransfer \/ EndTransfer \/ UNCHANGED vars
  PROVE  CardInv'
BY DEF CardInv, LossIsTold, ReturnIsTold, MountedIsPowered, Mounting, Unmounting, Told,
       MoveCard, StartTransfer, EndTransfer, vars, monitor, volume

(* A check only starts the count again when it also tells main, and only   *)
(* announces a card whose loss was told.                                   *)
LEMMA PollKeepsInv == ASSUME CardInv, TypeOK', Poll PROVE CardInv'
<1> USE DEF Mounting, Unmounting, Told
<1>1. UNCHANGED <<main, powered, connected, fs_ready>>
  BY DEF Poll, volume
<1>2. CASE card
  <2>1. cnt' > 0 => cnt > 0
    BY <1>2 DEF Poll, Present, CardInv, TypeOK
  <2>2. Told' <=> Told
    BY <1>2 DEF Poll, Present
  <2>3. "inserted" \in events' => "inserted" \in events \/ cnt > 0
    BY <1>2 DEF Poll, Present
  <2>4. LossIsTold'
    <3>1. CASE "inserted" \in events
      BY <1>1, <2>1, <2>2, <3>1 DEF CardInv, LossIsTold
    <3>2. CASE "inserted" \notin events /\ cnt' > 0
      <4>1. "inserted" \notin events'
        BY <1>2, <3>2 DEF Poll, Present, CardInv, TypeOK
      <4> QED BY <1>1, <2>1, <2>2, <4>1 DEF CardInv, LossIsTold
    <3> QED BY <3>1, <3>2 DEF LossIsTold
  <2>5. ReturnIsTold' /\ MountedIsPowered'
    BY <1>1, <2>2, <2>3 DEF CardInv, LossIsTold, ReturnIsTold, MountedIsPowered
  <2> QED BY <2>4, <2>5 DEF CardInv
<1>3. CASE ~card
  <2>1. cnt = 0 => Told'
    BY <1>3 DEF Poll, Missing
  <2>2. Told => Told'
    BY <1>3 DEF Poll, Missing
  <2>3. "inserted" \in events' => "inserted" \in events
    BY <1>3 DEF Poll, Missing
  <2>4. cnt = 0 \/ cnt > 0
    BY DEF CardInv, TypeOK
  <2> QED
    BY <1>1, <2>1, <2>2, <2>3, <2>4 DEF CardInv, LossIsTold, ReturnIsTold, MountedIsPowered
<1> QED BY <1>2, <1>3

(* Main takes an insertion before a removal, so it never forgets one that  *)
(* was told while it mounts.                                               *)
LEMMA MainKeepsInv == ASSUME CardInv, TypeOK', Main PROVE CardInv'
<1> USE DEF Mounting, Unmounting, Told
<1>1. CASE Inserted
  BY <1>1 DEF Inserted, Take, Taken, CardInv, LossIsTold, ReturnIsTold, MountedIsPowered
<1>2. CASE Connect
  BY <1>2 DEF Connect, monitor, CardInv, LossIsTold, ReturnIsTold, MountedIsPowered
<1>3. CASE Mount
  <2>1. CASE fs_ready' = TRUE /\ UNCHANGED connected
    BY <1>3, <2>1 DEF Mount, monitor, CardInv, LossIsTold, ReturnIsTold, MountedIsPowered
  <2>2. CASE UNCHANGED fs_ready
    BY <1>3, <2>2 DEF Mount, monitor, CardInv, LossIsTold, ReturnIsTold, MountedIsPowered
  <2> QED BY <1>3, <2>1, <2>2 DEF Mount
<1>4. CASE Removed
  BY <1>4 DEF Removed, Take, Taken, volume, CardInv, LossIsTold, ReturnIsTold, MountedIsPowered
<1>5. CASE Disconnect
  BY <1>5 DEF Disconnect, monitor, CardInv, LossIsTold, ReturnIsTold, MountedIsPowered
<1>6. CASE Unmount
  BY <1>6 DEF Unmount, monitor, CardInv, LossIsTold, ReturnIsTold, MountedIsPowered
<1> QED BY <1>1, <1>2, <1>3, <1>4, <1>5, <1>6 DEF Main

(* At rest a mounted file system is on a card whose removal will be        *)
(* noticed, however the card, the callback and main interleave.            *)
THEOREM MountedIsWatchedHolds == Spec => []MountedIsWatched
<1>1. CardInv /\ TypeOK' /\ [Next]_vars => CardInv'
  BY OthersKeepInv, PollKeepsInv, MainKeepsInv DEF Next
<1>2. CardInv => MountedIsWatched
  BY DEF CardInv, TypeOK, LossIsTold, MountedIsPowered, MountedIsWatched, Unmounting, Told
<1> QED BY CardInvInit, CardTypeCorrect, <1>1, <1>2, PTL DEF Spec

---------------------------------------------------------------------------------
(* The sessions.  That currConn is open while it is not 0 follows from     *)
(* where the bridge thread is: there is one connection that is open, from  *)
(* the moment it is accepted to the moment it is closed, and currConn is   *)
(* set and cleared inside of that.                                         *)

Serving == bridge \in {"greet", "recv", "clear", "close"}

(* The open connection is the one the bridge serves.                       *)
OneOpen == \A c \in Clients : conn[c] = "open" <=> Serving /\ c = newconn

(* The CAN threads are told of it after the greeting and until Clear.      *)
ToldInside ==
  currConn # 0 => currConn = newconn /\ bridge \in {"recv", "clear"} /\ newconn \in greeted

(* What they wait for has been greeted, though it may be closed by now.    *)
WritesGreeted == \A t \in CanThreads : writing[t] # 0 => writing[t] \in greeted

SessionInv ==
  /\ SessionTypeOK
  /\ bridge # "accept" => newconn \in Clients
  /\ OneOpen /\ ToldInside /\ WritesGreeted

USE ClientsAssumption

(* Nobody is connected at the start.                                       *)
LEMMA SessionInvInit == SessionInit => SessionInv
BY DEF SessionInit, SessionInv, SessionTypeOK, OneOpen, ToldInside, WritesGreeted,
       Serving, Clients, CanThreads

(* The network opens no connection and touches nothing of the threads.     *)
LEMMA NetworkKeeps ==
  ASSUME SessionInv, NEW c \in Clients,
         \/ ClientConnects(c) \/ ClientLeaves(c, "closed") \/ ClientLeaves(c, "silent")
  PROVE  SessionInv'
<1>1. CASE ClientConnects(c)
  <2>1. SessionTypeOK'
    BY <1>1 DEF SessionInv, SessionTypeOK, ClientConnects, Clients
  <2>2. OneOpen'
    BY <1>1 DEF SessionInv, SessionTypeOK, OneOpen, Serving, ClientConnects, Clients
  <2> QED BY <1>1, <2>1, <2>2 DEF SessionInv, ToldInside, WritesGreeted, ClientConnects
<1>2. CASE ClientLeaves(c, "closed") \/ ClientLeaves(c, "silent")
  <2>1. SessionTypeOK'
    BY <1>2 DEF SessionInv, SessionTypeOK, ClientLeaves, Clients
  <2> QED BY <1>2, <2>1 DEF SessionInv, OneOpen, Serving, ToldInside, WritesGreeted, ClientLeaves
<1> QED BY <1>1, <1>2

(* The bridge opens one connection and closes that one.                    *)
LEMMA BridgeKeeps == SessionInv /\ Bridge => SessionInv'
<1> SUFFICES ASSUME SessionInv, Bridge PROVE SessionInv'
  OBVIOUS
<1> USE DEF SessionInv, Calls
<1>1. CASE Accept
  <2> PICK c \in Clients : /\ conn[c] = "queued" /\ Calls("accept", "greet")
                           /\ conn' = [conn EXCEPT ![c] = "open"] /\ newconn' = c
                           /\ UNCHANGED <<currConn, greeted>>
    BY <1>1 DEF Accept
  <2>1. SessionTypeOK'
    BY DEF SessionTypeOK, Clients
  <2>2. OneOpen'
    BY DEF SessionTypeOK, OneOpen, Serving
  <2>3. ToldInside' /\ WritesGreeted'
    BY DEF ToldInside, WritesGreeted
  <2> QED BY <2>1, <2>2, <2>3
<1>2. CASE Greet
  <2>1. newconn \in Clients
    BY <1>2 DEF Greet
  <2>2. SessionTypeOK'
    BY <1>2, <2>1 DEF SessionTypeOK, Greet, Clients
  <2>3. OneOpen'
    BY <1>2 DEF OneOpen, Serving, Greet
  <2>4. ToldInside' /\ WritesGreeted'
    BY <1>2 DEF ToldInside, WritesGreeted, Greet
  <2> QED BY <1>2, <2>1, <2>2, <2>3, <2>4 DEF Greet
<1>3. CASE RecvFails
  BY <1>3 DEF RecvFails, SessionTypeOK, OneOpen, Serving, ToldInside, WritesGreeted
<1>4. CASE Clear
  BY <1>4 DEF Clear, Cleared, SessionTypeOK, OneOpen, Serving, ToldInside, WritesGreeted
<1>5. CASE Close
  <2>1. SessionTypeOK'
    BY <1>5 DEF SessionTypeOK, Close, Clients
  <2>2. OneOpen'
    BY <1>5 DEF SessionTypeOK, OneOpen, Serving, Close
  <2>3. ToldInside' /\ WritesGreeted'
    BY <1>5 DEF ToldInside, WritesGreeted, Close
  <2> QED BY <1>5, <2>1, <2>2, <2>3 DEF Close
<1>6. CASE Delete
  <2>1. SessionTypeOK'
    BY <1>6 DEF SessionTypeOK, Delete, Clients
  <2>2. OneOpen'
    BY <1>6 DEF SessionTypeOK, OneOpen, Serving, Delete
  <2>3. ToldInside' /\ WritesGreeted'
    BY <1>6 DEF ToldInside, WritesGreeted, Delete
  <2> QED BY <1>6, <2>1, <2>2, <2>3 DEF Delete
<1> QED BY <1>1, <1>2, <1>3, <1>4, <1>5, <1>6 DEF Bridge

(* A CAN thread only ever starts to write where the bridge has told it to. *)
LEMMA ThreadsKeep ==
  ASSUME SessionInv, NEW t \in CanThreads, canToBridgeStarts(t) \/ canToBridgeEnds(t)
  PROVE  SessionInv'
<1>1. SessionTypeOK'
  BY DEF SessionInv, SessionTypeOK, canToBridgeStarts, canToBridgeEnds
<1>2. WritesGreeted'
  BY DEF SessionInv, SessionTypeOK, ToldInside, WritesGreeted, canToBridgeStarts, canToBridgeEnds
<1> QED BY <1>1, <1>2 DEF SessionInv, OneOpen, Serving, ToldInside, canToBridgeStarts, canToBridgeEnds

(* The invariant of the bridge thread and the two that write for it.       *)
LEMMA SessionKept == SessionInv /\ [SessionNext]_sessionVars => SessionInv'
<1> SUFFICES ASSUME SessionInv, [SessionNext]_sessionVars PROVE SessionInv'
  OBVIOUS
<1>1. CASE \E c \in Clients : ClientConnects(c) \/ ClientLeaves(c, "closed")
                                                \/ ClientLeaves(c, "silent")
  BY <1>1, NetworkKeeps
<1>2. CASE Bridge
  BY <1>2, BridgeKeeps
<1>3. CASE \E t \in CanThreads : canToBridgeStarts(t) \/ canToBridgeEnds(t)
  BY <1>3, ThreadsKeep
<1>4. CASE UNCHANGED sessionVars
  BY <1>4 DEF sessionVars, SessionInv, SessionTypeOK, OneOpen, Serving, ToldInside, WritesGreeted
<1> QED BY <1>1, <1>2, <1>3, <1>4 DEF SessionNext

(* So it holds in every state of the sessions.                             *)
LEMMA SessionInvariant == SessionSpec => []SessionInv
BY SessionInvInit, SessionKept, PTL DEF SessionSpec

(* The CAN threads of netdemo never start a write on a connection that the *)
(* bridge has closed, and there is one session at a time, for any number   *)
(* of clients that come, go and fall silent.                               *)
THEOREM SessionOpenHolds == SessionSpec => []SessionOpen
<1>1. SessionInv => SessionOpen
  BY DEF SessionInv, SessionTypeOK, SessionOpen, OneOpen, Serving, ToldInside, WritesGreeted
<1> QED BY SessionInvariant, <1>1, PTL

---------------------------------------------------------------------------------
(* All of them.  A step of one part is nothing to the others.              *)
PartsInv == ParserInv /\ SerialInv /\ SessionInv /\ TypeOK

(* A step of one of the parts leaves each of the others as it is.          *)
LEMMA Separate ==
  ASSUME [MCNext]_allVars
  PROVE  /\ ParserNext \/ UNCHANGED parserVars
         /\ SerialNext \/ UNCHANGED serialVars
         /\ [SessionNext]_sessionVars /\ [Next]_vars
<1>1. CASE ParserRuns
  BY <1>1 DEF ParserRuns
<1>2. CASE SerialRuns
  BY <1>2 DEF SerialRuns
<1>3. CASE Session(SessionNext)
  BY <1>3 DEF Session
<1>4. CASE Card(Next)
  BY <1>4 DEF Card
<1>5. CASE Rest \/ UNCHANGED allVars
  BY <1>5 DEF Rest, allVars
<1> QED BY <1>1, <1>2, <1>3, <1>4, <1>5 DEF MCNext

(* The invariant of the parsers, the sessions and the card.                *)
LEMMA PartsHold == MCSpec => []PartsInv
<1>1. MCInit => PartsInv
  <2>1. MCInit => ParserInit /\ SerialInit /\ SessionInit /\ Init
    BY DEF MCInit
  <2> QED BY <2>1, ParserStarts, SerialStarts, SessionInvInit, CardInitTypes, Zenon DEF PartsInv
<1>2. PartsInv /\ [MCNext]_allVars => PartsInv'
  <2> SUFFICES ASSUME PartsInv, [MCNext]_allVars PROVE PartsInv'
    OBVIOUS
  <2>1. ParserInv /\ SerialInv /\ SessionInv /\ TypeOK
    BY Zenon DEF PartsInv
  <2>2. ParserInv'
    BY <2>1, Separate, ParserSteps, ParserStays, Zenon
  <2>3. SerialInv'
    BY <2>1, Separate, SerialSteps, SerialStays, Zenon
  <2>4. SessionInv'
    BY <2>1, Separate, SessionKept, Zenon
  <2>5. TypeOK'
    BY <2>1, Separate, CardTypesKept, Zenon
  <2> QED BY <2>2, <2>3, <2>4, <2>5, Zenon DEF PartsInv
<1> QED BY <1>1, <1>2, PTL DEF MCSpec

(* The parsers stay in their buffers and make only frames the controller   *)
(* can send, whatever a client sends and whatever is in the memory behind  *)
(* the buffer; and the sessions and the card keep their types.             *)
THEOREM BridgeTypesHold == MCSpec => []TypesOK
<1>1. PartsInv => TypesOK
  BY ParserTypes, SerialTypes, Zenon DEF PartsInv, SessionInv, TypesOK
<1> QED BY PartsHold, <1>1, PTL

(* Every well-formed line is sent as the frame it means, by parseCanCmds   *)
(* and by CanSendThread, whatever has come before it; and parseCanCmds     *)
(* sends nothing else.                                                     *)
THEOREM SentAsMeantHolds == MCSpec => []SentAsMeant
<1>1. PartsInv => SentAsMeant
  BY Zenon DEF PartsInv, ParserInv, SerialInv, SentAsMeant
<1> QED BY PartsHold, <1>1, PTL

(* The line canToBridge prints for a data frame makes both parsers send    *)
(* that frame again, for every id and all the data a frame has.            *)
THEOREM RoundTripHolds == MCSpec => []RoundTrip
<1>1. PartsInv => RoundTrip
  BY ParserEchoes, SerialEchoes, Zenon DEF PartsInv, RoundTrip
<1> QED BY PartsHold, <1>1, PTL
=================================================================================
