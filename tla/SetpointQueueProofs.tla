--------------------------- MODULE SetpointQueueProofs ---------------------------
(***************************************************************************)
(* Theorems about SetpointQueue, for every queue size and every set of     *)
(* setpoints.                                                              *)
(***************************************************************************)
EXTENDS SetpointQueue, SequenceTheorems, FiniteSetTheorems, TLAPS

(* Appending to a sequence adds one element to its range.                  *)
LEMMA RangeAppend ==
  ASSUME NEW S, NEW seq \in Seq(S), NEW e \in S
  PROVE  Range(Append(seq, e)) = Range(seq) \cup {e}
<1>1. /\ Append(seq, e) \in Seq(S)
      /\ Len(Append(seq, e)) = Len(seq) + 1
      /\ \A i \in 1..Len(seq) : Append(seq, e)[i] = seq[i]
      /\ Append(seq, e)[Len(seq) + 1] = e
  BY AppendProperties
<1>2. /\ DOMAIN seq = 1..Len(seq)
      /\ DOMAIN Append(seq, e) = 1..(Len(seq) + 1)
      /\ Len(seq) \in Nat
  BY <1>1, LenProperties
<1>3. 1..(Len(seq) + 1) = (1..Len(seq)) \cup {Len(seq) + 1}
  BY <1>2
<1> QED
  BY <1>1, <1>2, <1>3 DEF Range

(* A non-empty sequence consists of its head and its tail.                 *)
LEMMA RangeHeadTail ==
  ASSUME NEW S, NEW seq \in Seq(S), seq # <<>>
  PROVE  Range(seq) = {Head(seq)} \cup Range(Tail(seq))
<1>1. /\ Tail(seq) \in Seq(S)
      /\ Len(Tail(seq)) = Len(seq) - 1
      /\ \A i \in 1..Len(Tail(seq)) : Tail(seq)[i] = seq[i + 1]
      /\ Head(seq) = seq[1]
  BY HeadTailProperties
<1>2. /\ DOMAIN seq = 1..Len(seq)
      /\ DOMAIN Tail(seq) = 1..(Len(seq) - 1)
      /\ Len(seq) \in Nat \ {0}
  BY <1>1, LenProperties, EmptySeq
<1>3. ASSUME NEW x \in Range(seq)
      PROVE  x \in {Head(seq)} \cup Range(Tail(seq))
  <2>1. PICK i \in 1..Len(seq) : x = seq[i]
    BY <1>2 DEF Range
  <2>2. CASE i = 1
    BY <1>1, <2>1, <2>2
  <2>3. CASE i # 1
    <3>1. i - 1 \in 1..Len(Tail(seq)) /\ x = Tail(seq)[i - 1]
      BY <1>1, <1>2, <2>1, <2>3
    <3> QED
      BY <1>1, <1>2, <3>1 DEF Range
  <2> QED
    BY <2>2, <2>3
<1>4. Head(seq) \in Range(seq)
  BY <1>1, <1>2 DEF Range
<1>5. ASSUME NEW x \in Range(Tail(seq))
      PROVE  x \in Range(seq)
  <2>1. PICK i \in 1..(Len(seq) - 1) : x = Tail(seq)[i]
    BY <1>2 DEF Range
  <2>2. i + 1 \in 1..Len(seq) /\ x = seq[i + 1]
    BY <1>1, <1>2, <2>1
  <2> QED
    BY <1>2, <2>2 DEF Range
<1> QED
  BY <1>3, <1>4, <1>5

(* The range of a sequence lies in the set its elements are taken from.    *)
LEMMA RangeIn ==
  ASSUME NEW S, NEW seq \in Seq(S)
  PROVE  Range(seq) \subseteq S
BY LenProperties DEF Range

---------------------------------------------------------------------------------
(* Which thread holds which slot: main a slot to post exactly while it     *)
(* posts, the stepper the current one exactly while it executes.           *)
Holders ==
  /\ posting # NoSlot <=> main = "posting"
  /\ cur # NoSlot <=> stepper \in Executing

TypeInv == TypeOK /\ Holders

LEMMA NoSlotOutside == NoSlot \notin Slots
BY QueueAssumption DEF NoSlot, Slots

(* The types, and the control states in which each thread holds a slot,    *)
(* are inductive together.                                                 *)
LEMMA TypeInvHolds == Spec => []TypeInv
<1> USE QueueAssumption, SetpointAssumption, NoSlotOutside
<1>1. Init => TypeInv
  <2> SUFFICES ASSUME Init PROVE TypeInv
    OBVIOUS
  <2>1. mbox \in Seq(Slots) /\ Len(mbox) <= Q
    BY EmptySeq DEF Init
  <2> QED
    BY <2>1 DEF Init, TypeInv, TypeOK, Holders, StepperStates, Executing
<1>2. TypeInv /\ [Next]_vars => TypeInv'
  <2> SUFFICES ASSUME TypeInv, [Next]_vars PROVE TypeInv'
    OBVIOUS
  <2> USE DEF TypeInv, TypeOK, Holders, StepperStates, Executing,
             HasRoom, Release, CanFetch, Execute, clearInUse
  <2>1. ASSUME NEW s \in Setpoint, Add(s) PROVE TypeInv'
    <3>1. PICK i \in Slots : Store(i, s) /\ mbox' = Append(mbox, i)
      BY <2>1 DEF Add, FirstUnused
    <3>2. mbox' \in Seq(Slots) /\ Len(mbox') <= Q
      BY <2>1, <3>1, AppendProperties, LenProperties DEF Add
    <3> QED
      BY <2>1, <3>1, <3>2 DEF Add, Store
  <2>2. ASSUME NEW s \in Setpoint, AddBlocks(s) PROVE TypeInv'
    BY <2>2 DEF AddBlocks, FirstUnused, Store, MainRuns
  <2>3. CASE PostResumes
    <3>1. posting \in Slots
      BY <2>3 DEF PostResumes
    <3>2. mbox' \in Seq(Slots) /\ Len(mbox') <= Q
      BY <2>3, <3>1, AppendProperties, LenProperties DEF PostResumes
    <3> QED
      BY <2>3, <3>2 DEF PostResumes
  <2>4. CASE AbortBegins
    BY <2>4 DEF AbortBegins, MainRuns, ReturnsInside
  <2>5. CASE AbortEnds
    <3>1. mbox' \in Seq(Slots) /\ Len(mbox') <= Q
      BY <2>5, EmptySeq DEF AbortEnds
    <3> QED
      BY <2>5, <3>1 DEF AbortEnds
  <2>6. CASE Take
    <3>1. /\ mbox' \in Seq(Slots) /\ Len(mbox') <= Q
          /\ cur' \in Slots
      BY <2>6, HeadTailProperties, LenProperties DEF Take
    <3> QED
      BY <2>6, <3>1 DEF Take
  <2>7. CASE Done
    BY <2>7 DEF Done
  <2>8. CASE NoWork
    BY <2>8 DEF NoWork, ReturnsInside
  <2>9. CASE Stopped
    BY <2>9 DEF Stopped
  <2>10. CASE UNCHANGED vars
    BY <2>10 DEF vars
  <2> QED
    BY <2>1, <2>2, <2>3, <2>4, <2>5, <2>6, <2>7, <2>8, <2>9, <2>10
       DEF Next, AddRequest, AddFails, Abort, StepperTh
<1> QED
  BY <1>1, <1>2, PTL DEF Spec

(* Type correctness of the queue, for every queue size: setpointAdd never  *)
(* posts more than the Q messages the mailbox has room for, and only slot  *)
(* numbers that are an index of the array of setpoints.                    *)
THEOREM TypeCorrect == Spec => []TypeOK
BY TypeInvHolds, PTL DEF TypeInv

---------------------------------------------------------------------------------
(* NoSlotLeak is inductive together with TypeInv: each step that takes a   *)
(* slot from one owner either hands it to another or clears its bit.       *)
THEOREM NoSlotLeakHolds == Spec => []NoSlotLeak
<1> USE QueueAssumption, SetpointAssumption, NoSlotOutside
<1>1. Init => NoSlotLeak
  BY DEF Init, NoSlotLeak
<1>2. TypeInv /\ NoSlotLeak /\ [Next]_vars => NoSlotLeak'
  <2> SUFFICES ASSUME TypeInv, NoSlotLeak, [Next]_vars PROVE NoSlotLeak'
    OBVIOUS
  <2> USE DEF TypeInv, TypeOK, Holders, NoSlotLeak, Owned,
             HasRoom, Release, CanFetch, Execute, clearInUse
  <2>1. ASSUME NEW s \in Setpoint, Add(s) PROVE NoSlotLeak'
    <3>1. PICK i \in Slots : Store(i, s) /\ mbox' = Append(mbox, i)
      BY <2>1 DEF Add, FirstUnused
    <3>2. Range(mbox') = Range(mbox) \cup {i}
      BY <3>1, RangeAppend
    <3> QED
      BY <2>1, <3>1, <3>2 DEF Add, Store
  <2>2. ASSUME NEW s \in Setpoint, AddBlocks(s) PROVE NoSlotLeak'
    BY <2>2 DEF AddBlocks, FirstUnused, Store, MainRuns
  <2>3. CASE PostResumes
    <3>1. Range(mbox') = Range(mbox) \cup {posting}
      BY <2>3, RangeAppend DEF PostResumes
    <3> QED
      BY <2>3, <3>1 DEF PostResumes
  <2>4. CASE AbortBegins
    BY <2>4 DEF AbortBegins
  <2>5. CASE AbortEnds
    BY <2>5 DEF AbortEnds
  <2>6. CASE Take
    <3>1. Range(mbox) = {cur'} \cup Range(mbox')
      BY <2>6, RangeHeadTail DEF Take
    <3>2. cur = NoSlot
      BY <2>6 DEF Take, Executing
    <3> QED
      BY <2>6, <3>1, <3>2 DEF Take
  <2>7. CASE Done
    BY <2>7 DEF Done
  <2>8. CASE NoWork
    BY <2>8 DEF NoWork
  <2>9. CASE Stopped
    BY <2>9 DEF Stopped
  <2>10. CASE UNCHANGED vars
    BY <2>10 DEF vars
  <2> QED
    BY <2>1, <2>2, <2>3, <2>4, <2>5, <2>6, <2>7, <2>8, <2>9, <2>10
       DEF Next, AddRequest, AddFails, Abort, StepperTh
<1> QED
  BY <1>1, <1>2, TypeInvHolds, PTL DEF Spec

---------------------------------------------------------------------------------
(* A sequence has no more elements than places.                            *)
LEMMA RangeIsSmall ==
  ASSUME NEW S, NEW seq \in Seq(S)
  PROVE  IsFiniteSet(Range(seq)) /\ Cardinality(Range(seq)) <= Len(seq)
<1>1. Len(seq) \in Nat /\ DOMAIN seq = 1..Len(seq) /\ seq \in [1..Len(seq) -> S]
  BY LenProperties
<1>2. seq \in Surjection(1..Len(seq), Range(seq))
  BY <1>1 DEF Surjection, Range
<1>3. IsFiniteSet(1..Len(seq)) /\ Cardinality(1..Len(seq)) = Len(seq)
  BY <1>1, FS_Interval
<1> QED
  BY <1>2, <1>3, FS_Surjection

(* Every slot marked in use has an owner; the mailbox owns at most Q of    *)
(* the Q + 1 slots, and main, which runs, owns none.                       *)
THEOREM DropsOnlyWhenFullHolds == Spec => []DropsOnlyWhenFull
<1>1. TypeInv /\ NoSlotLeak => DropsOnlyWhenFull
  <2> SUFFICES ASSUME TypeInv, NoSlotLeak, MainRuns, \A i \in Slots : isInUse(i)
               PROVE  Len(mbox) = Q /\ stepper \in Executing
    BY DEF DropsOnlyWhenFull
  <2>1. mbox \in Seq(Slots) /\ Len(mbox) <= Q /\ Q \in Nat \ {0} /\ Len(mbox) \in Nat
    BY QueueAssumption, LenProperties DEF TypeInv, TypeOK
  <2>2. Slots \subseteq Range(mbox) \cup {cur}
    BY NoSlotOutside DEF TypeInv, Holders, MainRuns, isInUse, NoSlotLeak, Owned
  <2>3. IsFiniteSet(Range(mbox)) /\ Cardinality(Range(mbox)) <= Len(mbox)
    BY <2>1, RangeIsSmall
  <2>4. Cardinality(Slots) = Q + 1 /\ IsFiniteSet(Slots)
    BY <2>1, FS_Interval DEF Slots
  <2>5. Cardinality(Range(mbox)) \in Nat
    BY <2>3, FS_CardinalityType
  <2>6. CASE cur = NoSlot
    <3>1. Slots \subseteq Range(mbox)
      BY <2>2, <2>6, NoSlotOutside
    <3>2. Cardinality(Slots) <= Cardinality(Range(mbox))
      BY <2>3, <3>1, FS_Subset
    <3> QED
      BY <2>1, <2>3, <2>4, <2>5, <3>2
  <2>7. CASE cur # NoSlot
    <3> DEFINE owners == Range(mbox) \cup {cur}
    <3>1. /\ IsFiniteSet(owners)
          /\ Cardinality(owners) <= Cardinality(Range(mbox)) + 1
      <4>1. /\ IsFiniteSet(owners)
            /\ Cardinality(owners) = IF cur \in Range(mbox) THEN Cardinality(Range(mbox))
                                                        ELSE Cardinality(Range(mbox)) + 1
        BY <2>3, FS_AddElement
      <4> HIDE DEF owners
      <4> QED
        BY <2>5, <4>1
    <3>2. Cardinality(Slots) <= Cardinality(owners) /\ Cardinality(owners) \in Nat
      BY <2>2, <3>1, FS_Subset, FS_CardinalityType
    <3> HIDE DEF owners
    <3>3. Len(mbox) = Q
      BY <2>1, <2>3, <2>4, <2>5, <3>1, <3>2
    <3> QED
      BY <2>7, <3>3 DEF TypeInv, Holders
  <2> QED
    BY <2>6, <2>7
<1> QED
  BY <1>1, TypeInvHolds, NoSlotLeakHolds, PTL

---------------------------------------------------------------------------------
(* One owner per slot, stated on the contents of the mailbox.              *)
LEMMA InjectiveAppend ==
  ASSUME NEW S, NEW seq \in Seq(S), NEW e \in S, e \notin Range(seq),
         \A j, k \in DOMAIN seq : seq[j] = seq[k] => j = k,
         NEW j \in DOMAIN Append(seq, e), NEW k \in DOMAIN Append(seq, e),
         Append(seq, e)[j] = Append(seq, e)[k]
  PROVE  j = k
<1>1. /\ Append(seq, e) \in Seq(S)
      /\ Len(Append(seq, e)) = Len(seq) + 1
      /\ \A i \in 1..Len(seq) : Append(seq, e)[i] = seq[i]
      /\ Append(seq, e)[Len(seq) + 1] = e
  BY AppendProperties
<1>2. /\ DOMAIN seq = 1..Len(seq)
      /\ DOMAIN Append(seq, e) = 1..(Len(seq) + 1)
      /\ Len(seq) \in Nat
  BY <1>1, LenProperties
<1>3. \A i \in 1..Len(seq) : Append(seq, e)[i] \in Range(seq)
  BY <1>1, <1>2 DEF Range
<1> QED
  BY <1>1, <1>2, <1>3

LEMMA InjectiveTail ==
  ASSUME NEW S, NEW seq \in Seq(S), seq # <<>>,
         \A j, k \in DOMAIN seq : seq[j] = seq[k] => j = k
  PROVE  /\ \A j, k \in DOMAIN Tail(seq) : Tail(seq)[j] = Tail(seq)[k] => j = k
         /\ Head(seq) \notin Range(Tail(seq))
<1>1. /\ Tail(seq) \in Seq(S)
      /\ Len(Tail(seq)) = Len(seq) - 1
      /\ \A i \in 1..Len(Tail(seq)) : Tail(seq)[i] = seq[i + 1]
      /\ Head(seq) = seq[1]
  BY HeadTailProperties
<1>2. /\ DOMAIN seq = 1..Len(seq)
      /\ DOMAIN Tail(seq) = 1..(Len(seq) - 1)
      /\ Len(seq) \in Nat \ {0}
  BY <1>1, LenProperties, EmptySeq
<1>3. ASSUME NEW j \in DOMAIN Tail(seq), NEW k \in DOMAIN Tail(seq),
             Tail(seq)[j] = Tail(seq)[k]
      PROVE  j = k
  <2>1. j + 1 \in DOMAIN seq /\ k + 1 \in DOMAIN seq /\ seq[j + 1] = seq[k + 1]
    BY <1>1, <1>2, <1>3
  <2> QED
    BY <1>2, <2>1
<1>4. ASSUME NEW i \in DOMAIN Tail(seq) PROVE Tail(seq)[i] # Head(seq)
  <2>1. i + 1 \in DOMAIN seq /\ i + 1 # 1 /\ 1 \in DOMAIN seq
    BY <1>2
  <2> QED
    BY <1>1, <1>2, <2>1
<1> QED
  BY <1>3, <1>4 DEF Range

(* While no reset has raced with a setpoint in flight, setpointAdd never   *)
(* overwrites a setpoint that somebody still needs; and what the stepper   *)
(* reads through its reference is what it started with.                    *)
Exclusion == SlotsExclusive /\ ReferenceStable

THEOREM SlotsKeptHolds == Spec => []SlotsKept
<1> USE QueueAssumption, SetpointAssumption, NoSlotOutside
<1>1. Init => Exclusion
  BY DEF Init, Exclusion, SlotsExclusive, ReferenceStable, Owned, Range, Executing
<1>2. TypeInv /\ Exclusion /\ [Next]_vars => Exclusion'
  <2> SUFFICES ASSUME TypeInv, Exclusion, [Next]_vars PROVE Exclusion'
    OBVIOUS
  <2> USE DEF TypeInv, TypeOK, Holders, Exclusion,
             HasRoom, Release, CanFetch, Execute, clearInUse
  <2>1. ASSUME NEW s \in Setpoint, Add(s) PROVE Exclusion'
    <3>1. PICK i \in Slots : FirstUnused(i) /\ Store(i, s) /\ mbox' = Append(mbox, i)
      BY <2>1 DEF Add
    <3>2. Range(mbox') = Range(mbox) \cup {i}
      BY <3>1, RangeAppend
    <3>3. CASE ~raced
      <4>1. i \notin Owned
        BY <3>1, <3>3 DEF FirstUnused, isInUse, SlotsExclusive
      <4>2. i \notin Range(mbox) /\ i # cur
        BY <4>1 DEF Owned
      <4>3. \A j, k \in DOMAIN mbox' : mbox'[j] = mbox'[k] => j = k
        <5>1. \A j, k \in DOMAIN mbox : mbox[j] = mbox[k] => j = k
          BY <3>3 DEF SlotsExclusive
        <5> QED
          BY <3>1, <4>2, <5>1, InjectiveAppend
      <4>4. SlotsExclusive'
        BY <2>1, <3>1, <3>2, <3>3, <4>2, <4>3
           DEF Add, Store, SlotsExclusive, Owned, MainRuns
      <4>5. ReferenceStable'
        BY <2>1, <3>1, <3>3, <4>2 DEF Add, Store, ReferenceStable
      <4> QED
        BY <4>4, <4>5
    <3>4. CASE raced
      BY <2>1, <3>4 DEF Add, SlotsExclusive, ReferenceStable
    <3> QED
      BY <3>3, <3>4
  <2>2. ASSUME NEW s \in Setpoint, AddBlocks(s) PROVE Exclusion'
    <3>1. PICK i \in Slots : FirstUnused(i) /\ Store(i, s) /\ posting' = i
      BY <2>2 DEF AddBlocks
    <3>2. CASE ~raced
      <4>1. i \notin Owned
        BY <3>1, <3>2 DEF FirstUnused, isInUse, SlotsExclusive
      <4>2. i \notin Range(mbox) /\ i # cur
        BY <4>1 DEF Owned
      <4>3. SlotsExclusive'
        BY <2>2, <3>1, <3>2, <4>2 DEF AddBlocks, Store, SlotsExclusive, Owned
      <4>4. ReferenceStable'
        BY <2>2, <3>1, <3>2, <4>2 DEF AddBlocks, Store, ReferenceStable
      <4> QED
        BY <4>3, <4>4
    <3>3. CASE raced
      BY <2>2, <3>3 DEF AddBlocks, SlotsExclusive, ReferenceStable
    <3> QED
      BY <3>2, <3>3
  <2>3. CASE PostResumes
    <3>1. Range(mbox') = Range(mbox) \cup {posting} /\ posting \in Slots
      BY <2>3, RangeAppend DEF PostResumes
    <3>2. CASE ~raced
      <4>1. posting \notin Range(mbox) /\ posting # cur
        BY <3>1, <3>2 DEF SlotsExclusive
      <4>2. \A j, k \in DOMAIN mbox' : mbox'[j] = mbox'[k] => j = k
        <5>1. \A j, k \in DOMAIN mbox : mbox[j] = mbox[k] => j = k
          BY <3>2 DEF SlotsExclusive
        <5> QED
          BY <2>3, <3>1, <4>1, <5>1, InjectiveAppend DEF PostResumes
      <4> QED
        BY <2>3, <3>1, <3>2, <4>1, <4>2
           DEF PostResumes, SlotsExclusive, ReferenceStable, Owned
    <3>3. CASE raced
      BY <2>3, <3>3 DEF PostResumes, SlotsExclusive, ReferenceStable
    <3> QED
      BY <3>2, <3>3
  <2>4. CASE AbortBegins
    BY <2>4 DEF AbortBegins, SlotsExclusive, ReferenceStable, Owned, Executing
  <2>5. CASE AbortEnds
    <3>1. /\ posting' = NoSlot /\ mbox' = <<>>
          /\ raced' = (cur' # NoSlot)
      BY <2>5 DEF AbortEnds
    <3>2. DOMAIN mbox' = {} /\ Range(mbox') = {}
      BY <3>1 DEF Range
    <3>3. SlotsExclusive'
      BY <3>1, <3>2 DEF SlotsExclusive, Owned
    <3>4. ReferenceStable'
      BY <2>5, <3>1 DEF AbortEnds, ReferenceStable, Executing
    <3> QED
      BY <3>3, <3>4
  <2>6. CASE Take
    <3>1. /\ Range(mbox) = {cur'} \cup Range(mbox')
          /\ cur' \in Slots
      <4>1. cur' \in Slots
        BY <2>6, HeadTailProperties DEF Take
      <4> QED
        BY <2>6, <4>1, RangeHeadTail DEF Take
    <3>2. CASE ~raced
      <4>1. /\ \A j, k \in DOMAIN mbox' : mbox'[j] = mbox'[k] => j = k
            /\ cur' \notin Range(mbox')
        <5>1. \A j, k \in DOMAIN mbox : mbox[j] = mbox[k] => j = k
          BY <3>2 DEF SlotsExclusive
        <5> QED
          BY <2>6, <5>1, InjectiveTail DEF Take
      <4>2. SlotsExclusive'
        BY <2>6, <3>1, <3>2, <4>1 DEF Take, SlotsExclusive, Owned
      <4>3. ReferenceStable'
        BY <2>6 DEF Take, ReferenceStable
      <4> QED
        BY <4>2, <4>3
    <3>3. CASE raced
      BY <2>6, <3>3 DEF Take, SlotsExclusive, ReferenceStable
    <3> QED
      BY <3>2, <3>3
  <2>7. CASE Done
    BY <2>7 DEF Done, SlotsExclusive, ReferenceStable, Owned, Executing
  <2>8. CASE NoWork
    BY <2>8 DEF NoWork, SlotsExclusive, ReferenceStable, Owned, Executing
  <2>9. CASE Stopped
    BY <2>9 DEF Stopped, SlotsExclusive, ReferenceStable, Owned, Executing
  <2>10. CASE UNCHANGED vars
    BY <2>10 DEF vars, SlotsExclusive, ReferenceStable, Owned
  <2> QED
    BY <2>1, <2>2, <2>3, <2>4, <2>5, <2>6, <2>7, <2>8, <2>9, <2>10
       DEF Next, AddRequest, AddFails, Abort, StepperTh
<1> QED
  BY <1>1, <1>2, TypeInvHolds, PTL DEF Spec, Exclusion, SlotsKept

---------------------------------------------------------------------------------
(* A stepper that waits has gone through motionStop, which is where the    *)
(* driver is released; only a setpoint it takes enables it again, or an    *)
(* abort that has to move, until it is done.                               *)
THEOREM IdleReleasedHolds == Spec => []IdleReleased
<1> DEFINE Waiting == stepper = "waiting" /\ main # "aborting" => ~powered
<1>1. Init => Waiting
  BY DEF Init
<1>2. Waiting /\ [Next]_vars => Waiting'
  BY DEF Next, AddRequest, Add, AddBlocks, AddFails, PostResumes, Abort, AbortBegins,
         AbortEnds, Release, StepperTh, Take, Execute, Done, NoWork, Stopped, vars,
         MainRuns, ReturnsInside
<1>3. Waiting => IdleReleased
  BY DEF IdleReleased
<1> QED
  BY <1>1, <1>2, <1>3, PTL DEF Spec

---------------------------------------------------------------------------------
(* The firmware without aborts implements SetpointFifo.                    *)

(* Without aborts the firmware does less, so what holds of it holds here.  *)
LEMMA StreamIsSpec == StreamSpec => Spec
<1>1. [StreamNext]_vars => [Next]_vars
  BY DEF StreamNext, Next
<1> QED
  BY <1>1, PTL DEF StreamSpec, Spec

(* No reset races with a setpoint in flight, a move is made with the       *)
(* driver enabled, and every slot that is owned holds a setpoint.          *)
StreamInv ==
  /\ ~raced
  /\ main # "aborting" /\ stepper # "cancelled"
  /\ MovesPowered
  /\ stepper \notin Executing => running = None
  /\ stepper \in Executing => running \in Setpoint
  /\ \A i \in Owned : setpoints[i] \in Setpoint

LEMMA StreamInvHolds == StreamSpec => []StreamInv
<1> USE QueueAssumption, SetpointAssumption, NoSlotOutside
<1>1. Init => StreamInv
  BY DEF Init, StreamInv, MovesPowered, Executing, Owned, Range
<1>2. TypeInv /\ TypeInv' /\ StreamInv /\ [StreamNext]_vars => StreamInv'
  <2> SUFFICES ASSUME TypeInv, TypeInv', StreamInv, [StreamNext]_vars PROVE StreamInv'
    OBVIOUS
  <2> USE DEF TypeInv, TypeOK, Holders, StreamInv, MovesPowered, Executing
  <2>1. ASSUME NEW s \in Setpoint, NEW i \in Slots, Store(i, s),
               Owned' = Owned \cup {i},
               main' # "aborting", UNCHANGED <<stepper, running, powered, raced>>
        PROVE  StreamInv'
    BY <2>1 DEF Store
  <2>2. ASSUME NEW s \in Setpoint, Add(s) PROVE StreamInv'
    <3>1. PICK i \in Slots : Store(i, s) /\ mbox' = Append(mbox, i)
      BY <2>2 DEF Add, FirstUnused
    <3>2. Range(mbox') = Range(mbox) \cup {i}
      BY <3>1, RangeAppend
    <3>3. Owned' = Owned \cup {i}
      BY <2>2, <3>2 DEF Add, Owned
    <3> QED
      BY <2>1, <2>2, <3>1, <3>3 DEF Add, MainRuns
  <2>3. ASSUME NEW s \in Setpoint, AddBlocks(s) PROVE StreamInv'
    <3>1. PICK i \in Slots : Store(i, s) /\ posting' = i
      BY <2>3 DEF AddBlocks, FirstUnused
    <3>2. Owned' = Owned \cup {i}
      BY <2>3, <3>1 DEF AddBlocks, Owned, MainRuns
    <3> QED
      BY <2>1, <2>3, <3>1, <3>2 DEF AddBlocks
  <2>4. CASE PostResumes
    <3>1. Range(mbox') = Range(mbox) \cup {posting}
      BY <2>4, RangeAppend DEF PostResumes
    <3>2. Owned' = Owned
      BY <2>4, <3>1 DEF PostResumes, Owned
    <3> QED
      BY <2>4, <3>2 DEF PostResumes
  <2>5. CASE Take
    <3>1. Range(mbox) = {cur'} \cup Range(mbox') /\ cur' \in Slots
      <4>1. cur' \in Slots
        BY <2>5, HeadTailProperties DEF Take
      <4> QED
        BY <2>5, <4>1, RangeHeadTail DEF Take
    <3>2. Owned' \subseteq Owned /\ cur' \in Owned
      BY <2>5, <3>1 DEF Take, CanFetch, Owned
    <3>3. running' \in Setpoint
      BY <2>5, <3>2 DEF Take
    <3>4. stepper' # "cancelled" /\ stepper' \in Executing /\ MovesPowered'
      BY <2>5 DEF Take, Execute
    <3> QED
      BY <2>5, <3>2, <3>3, <3>4 DEF Take
  <2>6. CASE Done
    <3>1. Owned' \subseteq Owned
      BY <2>6 DEF Done, Owned
    <3> QED
      BY <2>6, <3>1 DEF Done
  <2>7. CASE NoWork
    BY <2>7 DEF NoWork, Owned, ReturnsInside
  <2>8. CASE Stopped
    BY <2>8 DEF Stopped, Owned
  <2>9. CASE UNCHANGED vars
    BY <2>9 DEF vars, Owned
  <2> QED
    BY <2>2, <2>3, <2>4, <2>5, <2>6, <2>7, <2>8, <2>9
       DEF StreamNext, AddRequest, AddFails, StepperTh
<1> QED
  BY <1>1, <1>2, StreamIsSpec, TypeInvHolds, PTL DEF StreamSpec

(* A client that never aborts never makes a move with the driver off.      *)
THEOREM MovesPoweredHolds == StreamSpec => []MovesPowered
<1>1. StreamInv => MovesPowered
  BY DEF StreamInv
<1> QED
  BY <1>1, StreamInvHolds, PTL

LEMMA FunctionIsSeq ==
  ASSUME NEW V, NEW n \in Nat, NEW f \in [1..n -> V]
  PROVE  f \in Seq(V) /\ Len(f) = n
<1>1. f \in Seq(V)
  BY SeqDef
<1> QED
  BY <1>1, LenProperties

(* The setpoints in the slots that a sequence names.                       *)
Fetched(seq, f) == [k \in DOMAIN seq |-> f[seq[k]]]

LEMMA FetchedAppend ==
  ASSUME NEW seq \in Seq(Slots), NEW i \in Slots,
         NEW f \in [Slots -> Setpoint \cup {None}],
         NEW g \in [Slots -> Setpoint \cup {None}], g[i] \in Setpoint,
         \A j \in Range(seq) : f[j] \in Setpoint /\ g[j] = f[j]
  PROVE  Fetched(Append(seq, i), g) = Append(Fetched(seq, f), g[i])
<1>1. /\ Append(seq, i) \in Seq(Slots)
      /\ Len(Append(seq, i)) = Len(seq) + 1
      /\ \A k \in 1..Len(seq) : Append(seq, i)[k] = seq[k]
      /\ Append(seq, i)[Len(seq) + 1] = i
  BY AppendProperties
<1>2. /\ DOMAIN seq = 1..Len(seq) /\ Len(seq) \in Nat
      /\ DOMAIN Append(seq, i) = 1..(Len(seq) + 1)
  BY <1>1, LenProperties
<1> DEFINE old == Fetched(seq, f)
           new == Fetched(Append(seq, i), g)
<1>3. \A k \in 1..Len(seq) : seq[k] \in Range(seq)
  BY <1>2 DEF Range
<1>4. old \in Seq(Setpoint) /\ Len(old) = Len(seq)
  <2>1. old \in [1..Len(seq) -> Setpoint]
    BY <1>2, <1>3 DEF Fetched
  <2> QED
    BY <1>2, <2>1, FunctionIsSeq
<1>5. /\ Append(old, g[i]) \in Seq(Setpoint)
      /\ Len(Append(old, g[i])) = Len(seq) + 1
      /\ \A k \in 1..Len(seq) : Append(old, g[i])[k] = old[k]
      /\ Append(old, g[i])[Len(seq) + 1] = g[i]
  BY <1>4, AppendProperties
<1>6. new \in Seq(Setpoint) /\ Len(new) = Len(seq) + 1
  <2>1. new \in [1..(Len(seq) + 1) -> Setpoint] /\ Len(seq) + 1 \in Nat
    BY <1>1, <1>2, <1>3 DEF Fetched
  <2> HIDE DEF new
  <2> QED
    BY <2>1, FunctionIsSeq
<1>7. \A k \in 1..(Len(seq) + 1) : new[k] = Append(old, g[i])[k]
  <2> TAKE k \in 1..(Len(seq) + 1)
  <2>1. CASE k \in 1..Len(seq)
    BY <1>1, <1>2, <1>3, <1>5, <2>1 DEF Fetched
  <2>2. CASE k = Len(seq) + 1
    BY <1>1, <1>2, <1>5, <2>2 DEF Fetched
  <2>3. k \in 1..Len(seq) \/ k = Len(seq) + 1
    BY <1>2
  <2> QED
    BY <2>1, <2>2, <2>3
<1> QED
  BY <1>5, <1>6, <1>7, SeqEqual

LEMMA FetchedHeadTail ==
  ASSUME NEW seq \in Seq(Slots), seq # <<>>,
         NEW f \in [Slots -> Setpoint \cup {None}],
         \A j \in Range(seq) : f[j] \in Setpoint
  PROVE  /\ Fetched(seq, f) # <<>>
         /\ Head(Fetched(seq, f)) = f[Head(seq)]
         /\ Tail(Fetched(seq, f)) = Fetched(Tail(seq), f)
<1>1. /\ Tail(seq) \in Seq(Slots)
      /\ Len(Tail(seq)) = Len(seq) - 1
      /\ \A k \in 1..Len(Tail(seq)) : Tail(seq)[k] = seq[k + 1]
      /\ Head(seq) = seq[1]
  BY HeadTailProperties
<1>2. /\ DOMAIN seq = 1..Len(seq)
      /\ DOMAIN Tail(seq) = 1..(Len(seq) - 1)
      /\ Len(seq) \in Nat \ {0}
  BY <1>1, LenProperties, EmptySeq
<1> DEFINE all == Fetched(seq, f)
           rest == Fetched(Tail(seq), f)
<1>3. \A k \in 1..Len(seq) : seq[k] \in Range(seq)
  BY <1>2 DEF Range
<1>4. all \in Seq(Setpoint) /\ Len(all) = Len(seq)
  <2>1. all \in [1..Len(seq) -> Setpoint]
    BY <1>2, <1>3 DEF Fetched
  <2> QED
    BY <1>2, <2>1, FunctionIsSeq
<1>5. all # <<>>
  BY <1>2, <1>4, EmptySeq
<1>6. /\ Tail(all) \in Seq(Setpoint)
      /\ Len(Tail(all)) = Len(seq) - 1
      /\ \A k \in 1..Len(Tail(all)) : Tail(all)[k] = all[k + 1]
      /\ Head(all) = all[1]
  BY <1>4, <1>5, HeadTailProperties
<1>7. rest \in Seq(Setpoint) /\ Len(rest) = Len(seq) - 1
  <2>1. rest \in [1..(Len(seq) - 1) -> Setpoint] /\ Len(seq) - 1 \in Nat
    BY <1>1, <1>2, <1>3 DEF Fetched
  <2> HIDE DEF rest
  <2> QED
    BY <2>1, FunctionIsSeq
<1>8. \A k \in 1..(Len(seq) - 1) : Tail(all)[k] = rest[k]
  <2> TAKE k \in 1..(Len(seq) - 1)
  <2>1. k + 1 \in DOMAIN seq /\ k \in DOMAIN Tail(seq)
    BY <1>2
  <2> QED
    BY <1>1, <1>2, <1>6, <2>1 DEF Fetched
<1>9. Tail(all) = rest
  BY <1>6, <1>7, <1>8, SeqEqual
<1>10. Head(all) = f[Head(seq)]
  BY <1>1, <1>2, <1>6 DEF Fetched
<1> QED
  BY <1>5, <1>9, <1>10

LEMMA AppendHeadTail ==
  ASSUME NEW S, NEW seq \in Seq(S), NEW e \in S, seq # <<>>
  PROVE  /\ Append(seq, e) \in Seq(S) /\ Append(seq, e) # <<>>
         /\ Head(Append(seq, e)) = Head(seq)
         /\ Tail(Append(seq, e)) = Append(Tail(seq), e)
<1> DEFINE longer == Append(seq, e)
<1>1. /\ longer \in Seq(S) /\ Len(longer) = Len(seq) + 1
      /\ \A k \in 1..Len(seq) : longer[k] = seq[k]
      /\ longer[Len(seq) + 1] = e
  BY AppendProperties
<1>2. Len(seq) \in Nat \ {0}
  BY LenProperties, EmptySeq
<1>3. longer # <<>>
  BY <1>1, <1>2, EmptySeq
<1>4. /\ Tail(longer) \in Seq(S) /\ Len(Tail(longer)) = Len(seq)
      /\ \A k \in 1..Len(seq) : Tail(longer)[k] = longer[k + 1]
      /\ Head(longer) = longer[1]
  BY <1>1, <1>2, <1>3, HeadTailProperties
<1>5. /\ Tail(seq) \in Seq(S) /\ Len(Tail(seq)) = Len(seq) - 1
      /\ \A k \in 1..(Len(seq) - 1) : Tail(seq)[k] = seq[k + 1]
      /\ Head(seq) = seq[1]
  BY HeadTailProperties
<1>6. /\ Append(Tail(seq), e) \in Seq(S)
      /\ Len(Append(Tail(seq), e)) = Len(seq)
      /\ \A k \in 1..(Len(seq) - 1) : Append(Tail(seq), e)[k] = Tail(seq)[k]
      /\ Append(Tail(seq), e)[Len(seq)] = e
  BY <1>2, <1>5, AppendProperties
<1> HIDE DEF longer
<1>7. \A k \in 1..Len(seq) : Tail(longer)[k] = Append(Tail(seq), e)[k]
  <2> TAKE k \in 1..Len(seq)
  <2>1. CASE k = Len(seq)
    BY <1>1, <1>2, <1>4, <1>6, <2>1
  <2>2. CASE k \in 1..(Len(seq) - 1)
    <3>1. k + 1 \in 1..Len(seq)
      BY <1>2, <2>2
    <3> QED
      BY <1>1, <1>4, <1>5, <1>6, <2>2, <3>1
  <2>3. k = Len(seq) \/ k \in 1..(Len(seq) - 1)
    BY <1>2
  <2> QED
    BY <2>1, <2>2, <2>3
<1>8. Tail(longer) = Append(Tail(seq), e)
  BY <1>4, <1>6, <1>7, SeqEqual
<1>9. Head(longer) = Head(seq)
  BY <1>1, <1>2, <1>4, <1>5
<1> QED
  BY <1>1, <1>3, <1>8, <1>9 DEF longer

---------------------------------------------------------------------------------
(* Each step of the firmware as a step of SetpointFifo, in a state where   *)
(* what the slots hold is known.                                           *)
Known == TypeInv /\ StreamInv /\ Exclusion

(* What has been accepted is the mailbox, or that and one slot more.       *)
LEMMA AcceptedTypes ==
  ASSUME Known
  PROVE  /\ Accepted \in Seq(Slots)
         /\ \A i \in Range(Accepted) : setpoints[i] \in Setpoint
         /\ Range(Accepted) \subseteq Owned
<1> USE DEF Known, TypeInv, TypeOK
<1>1. CASE main = "posting"
  <2>1. posting \in Slots /\ posting # NoSlot
    BY <1>1 DEF Holders
  <2>2. Range(Accepted) = Range(mbox) \cup {posting} /\ Accepted \in Seq(Slots)
    BY <1>1, <2>1, RangeAppend, AppendProperties DEF Accepted
  <2>3. Range(Accepted) \subseteq Owned
    BY <2>1, <2>2, RangeIn, NoSlotOutside DEF Owned
  <2> QED
    BY <2>2, <2>3 DEF StreamInv
<1>2. CASE main # "posting"
  <2>1. Accepted = mbox
    BY <1>2 DEF Accepted
  <2>2. Range(mbox) \subseteq Owned
    BY RangeIn, NoSlotOutside DEF Owned
  <2> QED
    BY <2>1, <2>2 DEF StreamInv
<1> QED
  BY <1>1, <1>2

(* Both ways to accept a setpoint add it to the end of the queue.          *)
LEMMA AcceptStep ==
  ASSUME Known, NEW s \in Setpoint, Add(s) \/ AddBlocks(s)
  PROVE  Fifo!Accept(s)
<1>1. PICK i \in Slots : /\ FirstUnused(i) /\ Store(i, s)
                         /\ main = "idle" /\ Accepted' = Append(mbox, i)
  BY DEF Add, AddBlocks, MainRuns, Accepted
<1>2. Accepted = mbox
  BY <1>1 DEF Accepted
<1>3. i \notin Range(Accepted)
  BY <1>1, AcceptedTypes
     DEF Known, Exclusion, StreamInv, SlotsExclusive, FirstUnused, isInUse
<1>4. setpoints' = [setpoints EXCEPT ![i] = s] /\ setpoints'[i] = s
  BY <1>1 DEF Store, Known, TypeInv, TypeOK
<1>5. \A j \in Range(Accepted) : setpoints[j] \in Setpoint /\ setpoints'[j] = setpoints[j]
  BY <1>3, <1>4, AcceptedTypes DEF Known, TypeInv, TypeOK
<1>6. Fetched(Append(Accepted, i), setpoints') = Append(Fetched(Accepted, setpoints), s)
  <2>1. /\ Accepted \in Seq(Slots) /\ setpoints'[i] \in Setpoint
        /\ setpoints \in [Slots -> Setpoint \cup {None}]
        /\ setpoints' \in [Slots -> Setpoint \cup {None}]
    BY <1>4, AcceptedTypes DEF Known, TypeInv, TypeOK
  <2>2. Fetched(Append(Accepted, i), setpoints') =
          Append(Fetched(Accepted, setpoints), setpoints'[i])
    BY <2>1, <1>5, FetchedAppend
  <2> QED
    BY <1>4, <2>2
<1>7. Pending' = Append(Pending, s)
  BY <1>1, <1>2, <1>6 DEF Pending, Fetched
<1>8. UNCHANGED <<running, stepper, powered>>
  BY DEF Add, AddBlocks
<1> QED
  BY <1>7, <1>8 DEF Fifo!Accept

(* The setpoint taken is the one that was accepted first.                  *)
LEMMA StartStep == ASSUME Known, Take PROVE Fifo!Start
<1> USE DEF Known, TypeInv, TypeOK
<1>1. mbox # <<>> /\ mbox \in Seq(Slots)
  BY DEF Take, CanFetch
<1>2. /\ Accepted # <<>>
      /\ Head(Accepted) = Head(mbox)
      /\ Accepted' = Tail(Accepted)
  <2>1. CASE main = "posting"
    <3>1. posting \in Slots
      BY <2>1 DEF Holders
    <3> QED
      BY <1>1, <2>1, <3>1, AppendHeadTail DEF Take, Accepted
  <2>2. CASE main # "posting"
    BY <1>1, <2>2 DEF Take, Accepted
  <2> QED
    BY <2>1, <2>2
<1>3. /\ Fetched(Accepted, setpoints) # <<>>
      /\ Head(Fetched(Accepted, setpoints)) = setpoints[Head(Accepted)]
      /\ Tail(Fetched(Accepted, setpoints)) = Fetched(Tail(Accepted), setpoints)
  <2>1. /\ Accepted \in Seq(Slots)
        /\ \A j \in Range(Accepted) : setpoints[j] \in Setpoint
        /\ setpoints \in [Slots -> Setpoint \cup {None}]
    BY AcceptedTypes
  <2> QED
    BY <1>2, <2>1, FetchedHeadTail
<1>4. setpoints' = setpoints /\ running' = setpoints[Head(mbox)]
  BY DEF Take
<1>5. Pending # <<>> /\ running' = Head(Pending) /\ Pending' = Tail(Pending)
  BY <1>2, <1>3, <1>4 DEF Pending, Fetched
<1>6. running = None
  BY DEF Take, CanFetch, StreamInv, Executing
<1>7. powered' = ((stepper = "moving")' \/ powered)
  BY DEF Take, Execute
<1> QED
  BY <1>5, <1>6, <1>7 DEF Fifo!Start

(* Every step is one of SetpointFifo, or none.                             *)
LEMMA StepSimulates == Known /\ [StreamNext]_vars => [Fifo!Next]_Fifo!vars
<1> SUFFICES ASSUME Known, [StreamNext]_vars PROVE [Fifo!Next]_Fifo!vars
  OBVIOUS
<1> DEFINE Stutters == /\ UNCHANGED <<Pending, running, powered>>
                     /\ (stepper = "moving")' = (stepper = "moving")
<1>1. ASSUME UNCHANGED <<setpoints, running, powered>>, Accepted' = Accepted,
             (stepper = "moving")' = (stepper = "moving")
      PROVE  Stutters
  BY <1>1 DEF Pending
<1>2. ASSUME NEW s \in Setpoint, Add(s) \/ AddBlocks(s)
      PROVE  Fifo!Next
  BY <1>2, AcceptStep DEF Fifo!Next
<1>3. ASSUME PostResumes PROVE Stutters
  BY <1>1, <1>3 DEF PostResumes, Accepted
<1>4. CASE Take
  BY <1>4, StartStep DEF Fifo!Next
<1>5. CASE Done
  <2>1. running \in Setpoint /\ setpoints[cur] = running
    BY <1>5 DEF Done, Known, StreamInv, Exclusion, ReferenceStable
  <2>2. running # None
    BY <2>1, SetpointAssumption
  <2>3. Pending' = Pending
    BY <1>5 DEF Done, Pending, Accepted
  <2>4. Fifo!Finish
    BY <1>5, <2>1, <2>2, <2>3 DEF Done, Fifo!Finish
  <2> QED
    BY <2>4 DEF Fifo!Next
<1>6. ASSUME NoWork PROVE Stutters \/ Fifo!Return
  <2>1. CASE UNCHANGED powered
    BY <1>1, <1>6, <2>1 DEF NoWork, Accepted
  <2>2. CASE ReturnsInside
    <3>1. running = None
      BY <1>6 DEF NoWork, Known, StreamInv, Executing
    <3>2. Pending' = Pending
      BY <1>6 DEF NoWork, Pending, Accepted
    <3> QED BY <1>6, <2>2, <3>1, <3>2 DEF NoWork, ReturnsInside, Fifo!Return
  <2> QED BY <1>6, <2>1, <2>2 DEF NoWork
<1>7. CASE Stopped
  <2>1. running = None
    BY <1>7 DEF Stopped, Known, StreamInv, Executing
  <2>2. Pending' = Pending
    BY <1>7 DEF Stopped, Pending, Accepted
  <2>3. Fifo!Halt
    BY <1>7, <2>1, <2>2 DEF Stopped, Release, Fifo!Halt
  <2> QED
    BY <2>3 DEF Fifo!Next
<1>8. ASSUME UNCHANGED vars PROVE Stutters
  BY <1>1, <1>8 DEF vars, Accepted
<1> QED
  BY <1>2, <1>3, <1>4, <1>5, <1>6, <1>7, <1>8
     DEF StreamNext, AddRequest, AddFails, StepperTh, Fifo!vars, Fifo!Next

(* Without aborts, setpoints are executed in order of arrival, each as it  *)
(* was accepted, for every queue size: the slot table with its bit vector, *)
(* the mailbox and the blocked post implement a FIFO queue.                *)
THEOREM InOrderHolds == StreamSpec => InOrder
<1>1. Init => Fifo!Init
  BY DEF Init, Fifo!Init, Pending, Accepted
<1>2. StreamSpec => []Known
  BY StreamIsSpec, TypeInvHolds, StreamInvHolds, SlotsKeptHolds, PTL
     DEF Known, Exclusion, SlotsKept
<1> QED
  BY <1>1, <1>2, StepSimulates, PTL DEF StreamSpec, InOrder, Fifo!Spec
=================================================================================
