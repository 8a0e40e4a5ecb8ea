------------------------------- MODULE FoldFacts -------------------------------
(***************************************************************************)
(* What a fold from the left does, one element at a time, for any operator *)
(* that is folded, and induction over the naturals for sets, which needs   *)
(* no operator as a parameter.  A module that proves something about a     *)
(* fold instantiates this one with the operator it folds.                  *)
(***************************************************************************)
EXTENDS SequencesExt, WellFoundedInduction, TLAPS

CONSTANT Op(_, _)

(* A set of naturals that is not empty has a least one.                    *)
LEMMA LeastNatural ==
  ASSUME NEW T \in SUBSET Nat, T # {}
  PROVE  \E x \in T : \A y \in T : x <= y
<1>1. PICK x \in T : \A y \in T : <<y, x>> \notin OpToRel(<, Nat)
  BY WFMin, NatLessThanWellFounded, Zenon
<1>2. \A y \in T : ~(y < x)
  BY <1>1, Zenon DEF OpToRel
<1> QED BY <1>2

(* A set that has zero, and the successor of every natural in it, has all  *)
(* naturals.                                                               *)
LEMMA Induction ==
  ASSUME NEW T, 0 \in T, \A n \in Nat : n \in T => n + 1 \in T
  PROVE  Nat \subseteq T
<1> SUFFICES ASSUME Nat \ T # {} PROVE FALSE
  OBVIOUS
<1>1. PICK x \in Nat \ T : \A y \in Nat \ T : x <= y
  BY LeastNatural
<1>2. x # 0 /\ x - 1 \in Nat /\ ~(x <= x - 1)
  BY <1>1
<1>3. x - 1 \in T
  BY <1>1, <1>2
<1>4. (x - 1) + 1 \in T
  BY <1>2, <1>3
<1> QED BY <1>1, <1>4

--------------------------------------------------------------------------------
(* A fold is a function on sets of indices that takes the largest index    *)
(* last.  There is such a function for the first 0 indices, and one for    *)
(* the first m + 1 from one for the first m.                               *)
Rec(base, seq, f, s) == IF s = {} THEN base ELSE Op(f[s \ {Max(s)}], seq[Max(s)])

LEMMA RecExists ==
  ASSUME NEW base, NEW seq, NEW n \in Nat
  PROVE  \E f : f = [s \in SUBSET (1..n) |-> Rec(base, seq, f, s)]
<1> DEFINE Solves(m, f) == f = [s \in SUBSET (1..m) |-> Rec(base, seq, f, s)]
           T == {m \in Nat : \E f : Solves(m, f)}
<1>1. 0 \in T
  <2>1. Solves(0, [s \in SUBSET (1..0) |-> base])
    BY DEF Rec
  <2> QED BY <2>1
<1>2. ASSUME NEW m \in Nat, m \in T PROVE m + 1 \in T
  <2>1. PICK f : Solves(m, f)
    BY <1>2
  <2> DEFINE g == [s \in SUBSET (1..(m + 1)) |->
                     IF m + 1 \in s THEN Op(f[s \ {m + 1}], seq[m + 1]) ELSE f[s]]
  <2>2. ASSUME NEW s \in SUBSET (1..(m + 1)) PROVE g[s] = Rec(base, seq, g, s)
    <3>1. CASE m + 1 \in s
      <4>1. Max(s) = m + 1
        <5>1. m + 1 \in s /\ \A y \in s : y \in Int /\ m + 1 >= y
          BY <3>1
        <5>2. \A x \in s : (\A y \in s : x >= y) => x = m + 1
          BY <5>1
        <5>3. Max(s) \in s /\ \A y \in s : Max(s) >= y
          BY <5>1, Zenon DEF Max
        <5> QED BY <5>2, <5>3
      <4>2. s \ {m + 1} \in SUBSET (1..m) /\ s \ {m + 1} \in SUBSET (1..(m + 1)) /\ m + 1 \notin s \ {m + 1}
        OBVIOUS
      <4>3. g[s \ {m + 1}] = f[s \ {m + 1}]
        BY <4>2
      <4> QED BY <3>1, <4>1, <4>3 DEF Rec
    <3>2. CASE m + 1 \notin s
      <4>1. s \in SUBSET (1..m) /\ \A x : s \ {x} \in SUBSET (1..(m + 1)) /\ m + 1 \notin s \ {x}
        <5>1. ASSUME NEW y \in s PROVE y \in 1..m
          BY <3>2
        <5> QED BY <5>1, <3>2, Zenon
      <4>2. g[s] = f[s] /\ \A x : g[s \ {x}] = f[s \ {x}]
        BY <3>2, <4>1
      <4>3. f[s] = Rec(base, seq, f, s)
        BY <2>1, <4>1
      <4> QED BY <4>2, <4>3 DEF Rec
    <3> QED BY <3>1, <3>2
  <2>3. Solves(m + 1, g)
    BY <2>2, Zenon
  <2> HIDE DEF g
  <2>4. m + 1 \in Nat
    OBVIOUS
  <2> QED BY <2>3, <2>4, Zenon
<1> HIDE DEF T
<1>3. n \in T
  BY <1>1, <1>2, Induction
<1> QED BY <1>3 DEF T

(* FoldLeft, with the function it takes for a sequence of length n.        *)
Folded(base, seq, n) ==
  (CHOOSE f : f = [s \in SUBSET (1..n) |-> Rec(base, seq, f, s)])[1..n]

(* The values on the way: the fold of the first k elements is v[k].        *)
Runs(base, seq, n, v) ==
  /\ v[0] = base
  /\ \A k \in 1..n : v[k] = Op(v[k - 1], seq[k])

LEMMA FoldRuns ==
  ASSUME NEW base, NEW seq, NEW n \in Nat
  PROVE  \E v : Runs(base, seq, n, v) /\ Folded(base, seq, n) = v[n]
<1> DEFINE f == CHOOSE f : f = [s \in SUBSET (1..n) |-> Rec(base, seq, f, s)]
<1>1. f = [s \in SUBSET (1..n) |-> Rec(base, seq, f, s)] /\ Folded(base, seq, n) = f[1..n]
  BY RecExists, Zenon DEF Folded
<1> HIDE DEF f
<1> DEFINE v == [k \in 0..n |-> f[1..k]]
<1>2. \A s \in SUBSET (1..n) : f[s] = Rec(base, seq, f, s)
  BY <1>1, Zenon
<1>3. v[0] = base
  <2>1. {} \in SUBSET (1..n) /\ 1..0 = {} /\ 0 \in 0..n
    OBVIOUS
  <2>2. f[{}] = base
    BY <1>2, <2>1, Zenon DEF Rec
  <2> QED BY <2>1, <2>2
<1>4. ASSUME NEW k \in 1..n PROVE v[k] = Op(v[k - 1], seq[k])
  <2>1. 1..k \in SUBSET (1..n) /\ 1..k # {} /\ (1..k) \ {k} = 1..(k - 1)
    OBVIOUS
  <2>2. Max(1..k) = k
    <3>1. k \in 1..k /\ \A y \in 1..k : k >= y
      OBVIOUS
    <3>2. \A x \in 1..k : (\A y \in 1..k : x >= y) => x = k
      BY <3>1
    <3>3. Max(1..k) \in 1..k /\ \A y \in 1..k : Max(1..k) >= y
      BY <3>1, Zenon DEF Max
    <3> QED BY <3>2, <3>3
  <2>3. f[1..k] = Op(f[1..(k - 1)], seq[k])
    BY <1>2, <2>1, <2>2 DEF Rec
  <2>4. v[k] = f[1..k] /\ v[k - 1] = f[1..(k - 1)]
    OBVIOUS
  <2> QED BY <2>3, <2>4
<1>5. v[n] = Folded(base, seq, n)
  BY <1>1
<1> HIDE DEF v
<1>6. Runs(base, seq, n, v)
  BY <1>3, <1>4, Zenon DEF Runs
<1> QED BY <1>5, <1>6, Zenon

(* A fold depends on the elements it takes, and takes the last one last.   *)
LEMMA FoldGrows ==
  ASSUME NEW base, NEW seq, NEW longer, NEW n \in Nat, \A k \in 1..n : longer[k] = seq[k]
  PROVE  Folded(base, longer, n + 1) = Op(Folded(base, seq, n), longer[n + 1])
<1>1. PICK v : Runs(base, seq, n, v) /\ Folded(base, seq, n) = v[n]
  BY FoldRuns, Zenon
<1>2. PICK w : Runs(base, longer, n + 1, w) /\ Folded(base, longer, n + 1) = w[n + 1]
  <2>1. n + 1 \in Nat
    OBVIOUS
  <2> QED BY <2>1, FoldRuns, Zenon
<1>3. v[0] = base /\ \A k \in 1..n : v[k] = Op(v[k - 1], seq[k])
  BY <1>1, Zenon DEF Runs
<1>4. w[0] = base /\ \A k \in 1..(n + 1) : w[k] = Op(w[k - 1], longer[k])
  BY <1>2, Zenon DEF Runs
<1> DEFINE T == {k \in Nat : k <= n => w[k] = v[k]}
<1>5. 0 \in T
  BY <1>3, <1>4
<1>6. ASSUME NEW k \in Nat, k \in T PROVE k + 1 \in T
  <2> SUFFICES ASSUME k + 1 <= n PROVE w[k + 1] = v[k + 1]
    OBVIOUS
  <2>1. w[k] = v[k] /\ k + 1 \in 1..n /\ k + 1 \in 1..(n + 1) /\ (k + 1) - 1 = k
    BY <1>6
  <2>2. w[k + 1] = Op(w[(k + 1) - 1], longer[k + 1]) /\ v[k + 1] = Op(v[(k + 1) - 1], seq[k + 1])
    BY <1>3, <1>4, <2>1
  <2>3. longer[k + 1] = seq[k + 1]
    BY <2>1
  <2> QED BY <2>1, <2>2, <2>3, Zenon
<1> HIDE DEF T
<1>7. n \in T
  BY <1>5, <1>6, Induction
<1>8. w[n] = v[n]
  BY <1>7 DEF T
<1>9. w[n + 1] = Op(w[n], longer[n + 1])
  <2>1. n + 1 \in 1..(n + 1) /\ (n + 1) - 1 = n
    OBVIOUS
  <2>2. w[n + 1] = Op(w[(n + 1) - 1], longer[n + 1])
    BY <1>4, <2>1
  <2> QED BY <2>1, <2>2, Zenon
<1> QED BY <1>1, <1>2, <1>8, <1>9, Zenon

(* One of no elements is where it starts.                                  *)
LEMMA FoldStarts == ASSUME NEW base, NEW seq PROVE Folded(base, seq, 0) = base
<1>1. PICK v : Runs(base, seq, 0, v) /\ Folded(base, seq, 0) = v[0]
  BY FoldRuns, Zenon
<1> QED BY <1>1, Zenon DEF Runs
================================================================================
