--------------------------- MODULE CanProgramsProofs ---------------------------
(***************************************************************************)
(* Proofs about the programs on top of the CAN driver in ROM: the display  *)
(* of messages (SatMon), for any number of messages, ids and masks; the    *)
(* stepper that is moved over the bus (StepCommands), for any number of    *)
(* frames; the knobs (Rotaries), for any number of turns and any range of  *)
(* the counts; and the installer (BootSend), for programs and segments of  *)
(* any size.  First comes the driver's own loop (CanBus), for every number *)
(* of requests and every set of short ids.                                 *)
(***************************************************************************)
EXTENDS MCCanPrograms, SequenceTheorems, TLAPS

(* What is handled grows by one pair at its end.                           *)
LEMMA AppendLast ==
  ASSUME NEW S, NEW seq \in Seq(S), NEW e \in S
  PROVE  /\ Append(seq, e) \in Seq(S)
         /\ Len(Append(seq, e)) = Len(seq) + 1 /\ Len(seq) \in Nat
         /\ DOMAIN seq = 1..Len(seq) /\ DOMAIN Append(seq, e) = 1..(Len(seq) + 1)
         /\ \A i \in 1..Len(seq) : Append(seq, e)[i] = seq[i]
         /\ Append(seq, e)[Len(seq) + 1] = e
BY AppendProperties, LenProperties

(* Every step keeps the types.                                             *)
LEMMA TypesKept == Init /\ [][Next]_vars => []TypeOK
<1>1. Init => TypeOK
  <2> SUFFICES ASSUME Init PROVE TypeOK
    OBVIOUS
  <2>1. 0 \in Msgs
    BY BusAssumption DEF Msgs
  <2>2. handled \in Seq(Msgs \X Msgs)
    BY DEF Init
  <2> QED BY <2>1, <2>2 DEF Init, TypeOK
<1>2. TypeOK /\ [Next]_vars => TypeOK'
  <2> SUFFICES ASSUME TypeOK, [Next]_vars PROVE TypeOK'
    OBVIOUS
  <2>1. CASE Request
    <3>1. arrived' \in Msgs /\ arrived + 1 \in Msgs
      BY <2>1, BusAssumption DEF Request, TypeOK, Msgs
    <3>2. rxPending' \in {0, 1} /\ rxMessage' \in Msgs /\ rxOverruns' \in Nat
      BY <2>1, <3>1 DEF Request, Room, Overrun, TypeOK
    <3>3. crowded' \in BOOLEAN
      BY <2>1 DEF Request
    <3> QED BY <2>1, <3>1, <3>2, <3>3 DEF Request, TypeOK
  <2>2. CASE \E id \in Ids : Assign(id)
    BY <2>2 DEF Assign, TypeOK, rx, history
  <2>3. CASE Fetch \/ ReadHeader
    BY <2>3 DEF Fetch, ReadHeader, TypeOK, rx, history
  <2>4. CASE ReadData
    <3>1. handled' \in Seq(Msgs \X Msgs)
      BY <2>4, AppendLast DEF ReadData, TypeOK
    <3> QED BY <2>4, <3>1 DEF ReadData, TypeOK, rx
  <2>5. CASE UNCHANGED vars
    BY <2>5 DEF TypeOK, vars, rx, history
  <2> QED BY <2>1, <2>2, <2>3, <2>4, <2>5 DEF Next, Main
<1> QED BY <1>1, <1>2, PTL

(* The interrupt's buffer holds a request that has come, and what is       *)
(* handled are requests, by whichever of them header and data were read.   *)
THEOREM TypeCorrect == Spec => []TypeOK
BY TypesKept, PTL DEF Spec

---------------------------------------------------------------------------------
(* Every request that arrives is accounted for: main goes round its loop   *)
(* for it, now or later, or it was counted as an overrun.                  *)
THEOREM TokensBalanceHolds == Spec => []TokensBalance
<1>1. Init => TokensBalance
  BY DEF Init, TokensBalance
<1>2. TypeOK /\ TokensBalance /\ [Next]_vars => TokensBalance'
  <2> SUFFICES ASSUME TypeOK, TokensBalance, [Next]_vars PROVE TokensBalance'
    OBVIOUS
  <2>0. Len(handled) \in Nat /\ arrived \in Nat
    BY LenProperties, BusAssumption DEF TypeOK, Msgs
  <2>1. CASE Request
    <3>1. arrived' = arrived + 1 /\ UNCHANGED <<main, handled>>
      BY <2>1 DEF Request
    <3>2. CASE ~Room /\ Overrun
      BY <2>0, <3>1, <3>2 DEF Overrun, TypeOK, TokensBalance
    <3>3. CASE Room /\ rxPending' = rxPending + 1 /\ UNCHANGED rxOverruns
      BY <2>0, <3>1, <3>3 DEF TypeOK, TokensBalance
    <3> QED BY <2>1, <3>2, <3>3 DEF Request
  <2>2. CASE \E id \in Ids : Assign(id)
    BY <2>2 DEF Assign, TokensBalance, rx, history
  <2>3. CASE Fetch \/ ReadHeader
    BY <2>0, <2>3 DEF Fetch, ReadHeader, TypeOK, TokensBalance, rx, history
  <2>4. CASE ReadData
    <3>1. Len(handled') = Len(handled) + 1
      BY <2>4, AppendLast DEF ReadData, TypeOK
    <3> QED BY <2>0, <2>4, <3>1 DEF ReadData, TypeOK, TokensBalance, rx
  <2>5. CASE UNCHANGED vars
    BY <2>5 DEF TokensBalance, vars, rx, history
  <2> QED BY <2>1, <2>2, <2>3, <2>4, <2>5 DEF Next, Main
<1> QED BY TypeCorrect, <1>1, <1>2, PTL DEF Spec

---------------------------------------------------------------------------------
(* The buffer only moves on to newer messages, and what main has taken so  *)
(* far is not newer than what it will take next.                           *)
Forward ==
  /\ rxMessage <= arrived
  /\ main = "data" => header <= rxMessage
  /\ handled # <<>> =>
       /\ handled[Len(handled)][2] <= rxMessage
       /\ main = "data" => handled[Len(handled)][2] <= header

(* Neither an interrupt between main's steps nor an overrun ever takes     *)
(* main back to an older message.                                          *)
THEOREM NeverOlderHolds == Spec => []NeverOlder
<1> DEFINE FInv == Forward /\ NeverOlder
<1>1. Init => FInv
  BY DEF Init, Forward, NeverOlder
<1>2. TypeOK /\ TypeOK' /\ FInv /\ [Next]_vars => FInv'
  <2> SUFFICES ASSUME TypeOK, TypeOK', FInv, [Next]_vars PROVE FInv'
    OBVIOUS
  <2>0. /\ arrived \in Nat /\ rxMessage \in Nat /\ header \in Nat
        /\ Len(handled) \in Nat /\ DOMAIN handled = 1..Len(handled)
        /\ \A k \in DOMAIN handled : handled[k] \in Nat \X Nat
        /\ handled # <<>> => Len(handled) \in DOMAIN handled
    BY LenProperties, EmptySeq, ElementOfSeq, BusAssumption DEF TypeOK, Msgs
  <2>1. CASE Request
    BY <2>0, <2>1 DEF Request, Overrun, Forward, NeverOlder
  <2>2. CASE \E id \in Ids : Assign(id)
    BY <2>2 DEF Assign, Forward, NeverOlder, rx, history
  <2>3. CASE Fetch
    BY <2>3 DEF Fetch, Forward, NeverOlder, history
  <2>4. CASE ReadHeader
    BY <2>0, <2>4 DEF ReadHeader, Forward, NeverOlder, rx, history
  <2>5. CASE ReadData
    <3> DEFINE pair == <<header, rxMessage>>
    <3>1. /\ handled' = Append(handled, pair) /\ UNCHANGED <<rxMessage, arrived>>
          /\ main' = "fetch" /\ main = "data"
      BY <2>5 DEF ReadData, rx
    <3>2. /\ Len(handled') = Len(handled) + 1
          /\ DOMAIN handled' = 1..(Len(handled) + 1)
          /\ \A i \in 1..Len(handled) : handled'[i] = handled[i]
          /\ handled'[Len(handled) + 1] = pair
      BY <3>1, AppendLast DEF TypeOK
    <3>3. Forward'
      BY <2>0, <3>1, <3>2 DEF Forward
    <3>4. \A k \in DOMAIN handled' : handled'[k][1] <= handled'[k][2]
      BY <2>0, <3>1, <3>2 DEF Forward, NeverOlder
    <3>5. ASSUME NEW k \in 1..(Len(handled') - 1)
          PROVE  handled'[k][2] <= handled'[k + 1][1]
      <4>1. CASE k = Len(handled)
        BY <2>0, <3>1, <3>2, <4>1 DEF Forward
      <4>2. CASE k # Len(handled)
        BY <2>0, <3>2, <4>2 DEF NeverOlder
      <4> QED BY <4>1, <4>2
    <3> QED BY <3>3, <3>4, <3>5 DEF NeverOlder
  <2>6. CASE UNCHANGED vars
    BY <2>6 DEF Forward, NeverOlder, vars, rx, history
  <2> QED BY <2>1, <2>2, <2>3, <2>4, <2>5, <2>6 DEF Next, Main
<1> QED BY TypeCorrect, <1>1, <1>2, PTL DEF Spec

---------------------------------------------------------------------------------
(* While requests wait for each other, at most one is between its arrival  *)
(* and the end of its handling, and rxMessage is still that one.           *)
OneWaits ==
  /\ rxMessage = arrived
  /\ Len(handled) + rxPending + (IF main = "fetch" THEN 0 ELSE 1) = arrived
  /\ main # "fetch" => rxPending = 0
  /\ main = "data" => header = rxMessage
AllAsSent == \A k \in DOMAIN handled : handled[k] = <<k, k>>
OneAtATime == ~crowded => OneWaits /\ AllAsSent

(* On a bus that waits for its requests to be handled every request is     *)
(* handled once, as it was sent.                                           *)
THEOREM HandledAsSentHolds == Spec => []HandledAsSent
<1>1. Init => OneAtATime
  <2> SUFFICES ASSUME Init PROVE OneWaits /\ AllAsSent
    BY DEF OneAtATime
  <2> QED BY EmptySeq DEF Init, OneWaits, AllAsSent
<1>2. TypeOK /\ OneAtATime /\ [Next]_vars => OneAtATime'
  <2> SUFFICES ASSUME TypeOK, OneAtATime, [Next]_vars, ~crowded'
               PROVE  OneWaits' /\ AllAsSent'
    BY DEF OneAtATime
  <2>1. ~crowded /\ (Request => main = "fetch" /\ rxPending = 0)
    <3>1. CASE Request
      BY <3>1, Zenon DEF Request
    <3>2. CASE ~Request
      <4>1. UNCHANGED crowded
        BY <3>2 DEF Next, Assign, Main, Fetch, ReadHeader, ReadData, vars, history
      <4> QED BY <3>2, <4>1
    <3> QED BY <3>1, <3>2
  <2>2. OneWaits /\ AllAsSent
    BY <2>1 DEF OneAtATime
  <2>3. /\ Len(handled) \in Nat /\ arrived \in Nat /\ DOMAIN handled = 1..Len(handled)
        /\ rxPending \in {0, 1}
    BY LenProperties, BusAssumption DEF TypeOK, Msgs
  <2>4. CASE Request
    <3>1. /\ arrived' = arrived + 1 /\ rxMessage' = arrived + 1 /\ rxPending' = 1
          /\ UNCHANGED <<main, handled>> /\ main = "fetch" /\ rxPending = 0
      BY <2>1, <2>4 DEF Request, Room
    <3>2. OneWaits'
      BY <2>2, <2>3, <3>1 DEF OneWaits
    <3>3. AllAsSent'
      BY <2>2, <3>1 DEF AllAsSent
    <3> QED BY <3>2, <3>3
  <2>5. CASE \E id \in Ids : Assign(id)
    BY <2>2, <2>5 DEF Assign, OneWaits, AllAsSent, rx, history
  <2>6. CASE Fetch
    <3>1. /\ rxPending = 1 /\ rxPending' = 0 /\ main = "fetch" /\ main' = "header"
          /\ UNCHANGED <<rxMessage, arrived, handled>>
      BY <2>6 DEF Fetch, history
    <3>2. OneWaits'
      BY <2>2, <2>3, <3>1 DEF OneWaits
    <3>3. AllAsSent'
      BY <2>2, <3>1 DEF AllAsSent
    <3> QED BY <3>2, <3>3
  <2>7. CASE ReadHeader
    BY <2>2, <2>3, <2>7 DEF ReadHeader, OneWaits, AllAsSent, rx, history
  <2>8. CASE ReadData
    <3> DEFINE pair == <<header, rxMessage>>
    <3>1. /\ handled' = Append(handled, pair)
          /\ UNCHANGED <<rxMessage, rxPending, arrived>>
          /\ main' = "fetch" /\ main = "data"
      BY <2>8 DEF ReadData, rx
    <3>2. /\ Len(handled') = Len(handled) + 1
          /\ DOMAIN handled' = 1..(Len(handled) + 1)
          /\ \A i \in 1..Len(handled) : handled'[i] = handled[i]
          /\ handled'[Len(handled) + 1] = pair
      BY <3>1, AppendLast DEF TypeOK
    <3>3. rxPending = 0 /\ header = rxMessage /\ rxMessage = arrived /\ arrived = Len(handled) + 1
      BY <2>2, <2>3, <3>1 DEF OneWaits
    <3>4. ASSUME NEW k \in DOMAIN handled' PROVE handled'[k] = <<k, k>>
      <4>1. CASE k = Len(handled) + 1
        BY <3>2, <3>3, <4>1
      <4>2. CASE k \in 1..Len(handled)
        BY <2>2, <2>3, <3>2, <4>2 DEF AllAsSent
      <4> QED BY <2>3, <3>2, <4>1, <4>2
    <3>5. OneWaits'
      BY <2>3, <3>1, <3>2, <3>3 DEF OneWaits
    <3> QED BY <3>4, <3>5 DEF AllAsSent
  <2>9. CASE UNCHANGED vars
    BY <2>2, <2>9 DEF OneWaits, AllAsSent, vars, rx, history
  <2> QED BY <2>4, <2>5, <2>6, <2>7, <2>8, <2>9 DEF Next, Main
<1>3. OneAtATime => HandledAsSent
  BY DEF OneAtATime, AllAsSent, HandledAsSent
<1> QED BY TypeCorrect, <1>1, <1>2, <1>3, PTL DEF Spec

(* Both together: main goes through the requests in their order, and on a  *)
(* bus that waits for it through all of them.                              *)
THEOREM HandledInOrderHolds == Spec => []HandledInOrder
<1>1. NeverOlder /\ HandledAsSent => HandledInOrder
  BY DEF HandledInOrder
<1> QED BY NeverOlderHolds, HandledAsSentHolds, <1>1, PTL

-----------------------------------------------------------------------------

-----------------------------------------------------------------------------
(* SatMon.  The interrupt hands a message to the loop by setting received, *)
(* and takes the buffer back when the loop has cleared it.                 *)

SatTypes ==
  /\ bus \in Seq([id : MessageIds, mask : Masks])
  /\ rxMsg \in Nat /\ msg_obj \in Nat /\ y \in Nat
  /\ received \in BOOLEAN /\ satPc \in {"wait", "switch", "data", "release"}
  /\ screen \in [Lines6 -> [id : Nat, data : Nat, length : Nat]]
  /\ shown \in Seq(Nat)

(* A message in use is later than everything handled or displayed so far,  *)
(* except for the lines that are being written.                            *)
Handed ==
  /\ rxMsg <= msg_obj /\ msg_obj <= Len(bus)
  /\ satPc # "wait" => received
  /\ \A i \in DOMAIN shown : shown[i] <= rxMsg /\ (received => shown[i] < rxMsg)
  /\ \A i, j \in DOMAIN shown : i < j => shown[i] < shown[j]
Displayed ==
  /\ \A l \in Lines6 : screen[l].data <= rxMsg /\ screen[l].data <= screen[l].length
  /\ \A l \in Lines6 : received => screen[l].data < rxMsg \/ (satPc = "release" /\ l = Line(y))
  /\ \A l \in Lines6 : screen[l].id = screen[l].data \/ (satPc = "data" /\ l = Line(y))
  /\ \A l, m \in Lines6 : l # m /\ screen[l].data # 0 => screen[l].data # screen[m].data
  /\ satPc = "data" => screen[Line(y)].id = rxMsg

SatInv == SatTypes /\ Handed /\ Displayed

LEMMA LinesAre ==
  ASSUME NEW n \in Nat
  PROVE  Line(n) \in Lines6
BY DEF Line, Lines6

LEMMA SatStarts == SatInit => SatInv
<1> SUFFICES ASSUME SatInit PROVE SatInv
  OBVIOUS
<1>1. bus \in Seq([id : MessageIds, mask : Masks]) /\ shown \in Seq(Nat)
  BY DEF SatInit
<1>2. screen \in [Lines6 -> [id : Nat, data : Nat, length : Nat]]
  BY DEF SatInit
<1>3. SatTypes
  BY <1>1, <1>2 DEF SatInit, SatTypes
<1>4. Handed /\ Displayed
  BY DEF SatInit, Handed, Displayed
<1> QED BY <1>3, <1>4 DEF SatInv

(* The interrupt: a new message is later than everything before it.        *)
LEMMA CallbackKeeps ==
  ASSUME SatInv, CAN_rxCallback
  PROVE  SatInv'
<1> DEFINE n == Len(bus) + 1
<1>1. /\ \E i \in MessageIds, m \in Masks : bus' = Append(bus, [id |-> i, mask |-> m])
      /\ \/ msg_obj' = n /\ rxMsg' = Copied(n) /\ received' = TRUE
         \/ UNCHANGED <<msg_obj, rxMsg, received>>
      /\ UNCHANGED <<filter, satPc, y, screen, shown>>
  BY DEF CAN_rxCallback
<1>2. bus \in Seq([id : MessageIds, mask : Masks]) /\ Len(bus) \in Nat
  BY DEF SatInv, SatTypes
<1>3. bus' \in Seq([id : MessageIds, mask : Masks]) /\ Len(bus') = n
  BY <1>1, <1>2
<1>4. n \in Nat /\ n > Len(bus)
  BY <1>2
<1> HIDE DEF n
<1>5. SatTypes'
  BY <1>1, <1>3, <1>4 DEF SatInv, SatTypes, Copied
<1>6. \A i \in DOMAIN shown : shown[i] \in Nat
  BY DEF SatInv, SatTypes
<1>7. \A l \in Lines6 : screen[l].data \in Nat /\ screen[l].length \in Nat
  BY DEF SatInv, SatTypes
<1>8. CASE UNCHANGED <<msg_obj, rxMsg, received>>
  <2>1. Handed'
    BY <1>1, <1>2, <1>3, <1>4, <1>8 DEF SatInv, SatTypes, Handed
  <2>2. Displayed'
    BY <1>1, <1>8 DEF SatInv, Displayed, Line
  <2> QED BY <1>5, <2>1, <2>2 DEF SatInv
<1>9. CASE received /\ msg_obj' = n /\ rxMsg' = rxMsg /\ received'
  <2>1. Handed'
    BY <1>1, <1>2, <1>3, <1>4, <1>9 DEF SatInv, SatTypes, Handed
  <2>2. Displayed'
    BY <1>1, <1>9 DEF SatInv, Displayed, Line
  <2> QED BY <1>5, <2>1, <2>2 DEF SatInv
<1>10. CASE ~received /\ msg_obj' = n /\ rxMsg' = n /\ received'
  <2>1. rxMsg \in Nat /\ rxMsg < n /\ satPc = "wait"
    BY <1>2, <1>4, <1>10 DEF SatInv, SatTypes, Handed
  <2>2. Handed'
    BY <1>1, <1>3, <1>4, <1>6, <1>10, <2>1 DEF SatInv, Handed
  <2>3. Displayed'
    BY <1>1, <1>4, <1>7, <1>10, <2>1 DEF SatInv, Displayed, Line
  <2> QED BY <1>5, <2>2, <2>3 DEF SatInv
<1> QED BY <1>1, <1>8, <1>9, <1>10 DEF Copied

(* The loop.                                                               *)
LEMMA LoopKeeps ==
  ASSUME SatInv, Wait \/ SetFilter \/ ShowText \/ ShowId \/ ShowData \/ Release
  PROVE  SatInv'
<1>1. Line(y) \in Lines6 /\ rxMsg \in Nat /\ msg_obj \in Nat /\ Line(y) \in Nat
  BY LinesAre DEF SatInv, SatTypes, Lines6
<1>2. CASE Wait \/ SetFilter \/ ShowText
  <2>1. SatTypes'
    BY <1>2 DEF SatInv, SatTypes, Wait, SetFilter, ShowText
  <2>2. Handed'
    BY <1>2 DEF SatInv, Handed, Wait, SetFilter, ShowText
  <2>3. Displayed'
    BY <1>2 DEF SatInv, Handed, Displayed, Line, Wait, SetFilter, ShowText
  <2> QED BY <2>1, <2>2, <2>3 DEF SatInv
<1>3. CASE ShowId
  <2>1. /\ satPc = "switch" /\ satPc' = "data"
        /\ screen' = [screen EXCEPT ![Line(y)].id = rxMsg]
        /\ UNCHANGED <<bus, filter, msg_obj, rxMsg, received, y, shown>>
        /\ Line(y)' = Line(y)
    BY <1>3 DEF ShowId, Line
  <2>2. SatTypes'
    BY <1>1, <2>1 DEF SatInv, SatTypes
  <2>3. Handed'
    BY <2>1 DEF SatInv, Handed
  <2>4. /\ \A l \in Lines6 : screen'[l].data = screen[l].data /\ screen'[l].length = screen[l].length
        /\ \A l \in Lines6 \ {Line(y)} : screen'[l].id = screen[l].id
        /\ screen'[Line(y)].id = rxMsg
    BY <1>1, <2>1 DEF SatInv, SatTypes
  <2>5. Displayed'
    BY <1>1, <2>1, <2>4 DEF SatInv, Displayed
  <2> QED BY <2>2, <2>3, <2>5 DEF SatInv
<1>4. CASE ShowData
  <2>1. /\ satPc = "data" /\ satPc' = "release"
        /\ screen' = [screen EXCEPT ![Line(y)].data = rxMsg, ![Line(y)].length = msg_obj]
        /\ UNCHANGED <<bus, filter, msg_obj, rxMsg, received, y, shown>>
        /\ Line(y)' = Line(y) /\ received
    BY <1>4 DEF ShowData, Line, SatInv, Handed
  <2>2. SatTypes'
    <3>1. \A l \in Lines6 : screen'[l] =
            IF l = Line(y) THEN [screen[l] EXCEPT !.data = rxMsg, !.length = msg_obj]
            ELSE screen[l]
      BY <2>1 DEF SatInv, SatTypes
    <3>2. \A l \in Lines6 : screen'[l] \in [id : Nat, data : Nat, length : Nat]
      BY <1>1, <3>1 DEF SatInv, SatTypes
    <3>3. screen' = [l \in Lines6 |-> screen'[l]]
      BY <2>1 DEF SatInv, SatTypes
    <3>4. screen' \in [Lines6 -> [id : Nat, data : Nat, length : Nat]]
      BY <3>2, <3>3
    <3> QED BY <2>1, <3>4 DEF SatInv, SatTypes
  <2>3. Handed'
    BY <2>1 DEF SatInv, Handed
  <2>4. /\ \A l \in Lines6 \ {Line(y)} : screen'[l] = screen[l]
        /\ screen'[Line(y)].id = screen[Line(y)].id
        /\ screen'[Line(y)].data = rxMsg /\ screen'[Line(y)].length = msg_obj
    BY <1>1, <2>1 DEF SatInv, SatTypes
  <2>5. rxMsg <= msg_obj
    BY DEF SatInv, Handed
  <2>6. \A l \in Lines6 : screen[l].data \in Nat /\ screen[l].data < rxMsg
    BY <2>1 DEF SatInv, SatTypes, Displayed
  <2>7. \A l \in Lines6 : screen'[l].data <= rxMsg /\ screen'[l].data <= screen'[l].length
    BY <1>1, <2>4, <2>5 DEF SatInv, Displayed
  <2>8. \A l, m \in Lines6 : l # m /\ screen'[l].data # 0 => screen'[l].data # screen'[m].data
    BY <1>1, <2>4, <2>6 DEF SatInv, Displayed
  <2>9. \A l \in Lines6 : screen'[l].id = screen'[l].data
    BY <2>1, <2>4 DEF SatInv, Displayed
  <2>10. \A l \in Lines6 : screen'[l].data < rxMsg \/ l = Line(y)
    BY <2>4, <2>6
  <2>11. Displayed'
    BY <2>1, <2>7, <2>8, <2>9, <2>10 DEF Displayed
  <2> QED BY <2>2, <2>3, <2>11 DEF SatInv
<1>5. CASE Release
  <2>1. /\ satPc = "release" /\ satPc' = "wait" /\ received /\ received' = FALSE
        /\ shown' = Append(shown, rxMsg) /\ y' = y + 1
        /\ UNCHANGED <<bus, filter, msg_obj, rxMsg, screen>>
    BY <1>5 DEF Release, SatInv, Handed
  <2>2. SatTypes'
    <3>1. shown' \in Seq(Nat) /\ y' \in Nat
      BY <1>1, <2>1 DEF SatInv, SatTypes
    <3> QED BY <2>1, <3>1 DEF SatInv, SatTypes
  <2>3. /\ shown \in Seq(Nat) /\ Len(shown) \in Nat /\ DOMAIN shown = 1..Len(shown)
        /\ DOMAIN shown' = 1..(Len(shown) + 1)
        /\ \A i \in 1..Len(shown) : shown'[i] = shown[i]
        /\ shown'[Len(shown) + 1] = rxMsg
    BY <1>1, <2>1 DEF SatInv, SatTypes
  <2>4. \A i \in DOMAIN shown' : i \in DOMAIN shown \/ i = Len(shown) + 1
    BY <2>3
  <2>5. \A i \in DOMAIN shown : shown[i] < rxMsg /\ shown[i] \in Nat
    BY <2>1 DEF SatInv, SatTypes, Handed
  <2>6. \A i \in DOMAIN shown' : shown'[i] <= rxMsg
    BY <1>1, <2>3, <2>4, <2>5
  <2>7. \A i, j \in DOMAIN shown' : i < j => shown'[i] < shown'[j]
    <3> SUFFICES ASSUME NEW i \in DOMAIN shown', NEW j \in DOMAIN shown', i < j
                 PROVE  shown'[i] < shown'[j]
      OBVIOUS
    <3>1. i \in DOMAIN shown
      BY <2>3
    <3>2. CASE j \in DOMAIN shown
      BY <2>3, <3>1, <3>2 DEF SatInv, Handed
    <3>3. CASE j = Len(shown) + 1
      BY <2>3, <2>5, <3>1, <3>3
    <3> QED BY <2>4, <3>2, <3>3
  <2>8. Handed'
    BY <2>1, <2>6, <2>7 DEF SatInv, Handed
  <2>9. Displayed'
    BY <2>1 DEF SatInv, Displayed
  <2> QED BY <2>2, <2>8, <2>9 DEF SatInv
<1> QED BY <1>2, <1>3, <1>4, <1>5

LEMMA SatInvHolds == SatSpec => []SatInv
<1>1. SatInv /\ [SatNext]_satVars => SatInv'
  <2> SUFFICES ASSUME SatInv, [SatNext]_satVars PROVE SatInv'
    OBVIOUS
  <2>1. CASE UNCHANGED satVars
    BY <2>1 DEF satVars, SatInv, SatTypes, Handed, Displayed, Line
  <2> QED BY <2>1, CallbackKeeps, LoopKeeps DEF SatNext
<1> QED BY SatStarts, <1>1, PTL DEF SatSpec

(* satmon shows each message it handles with the data that belong to its   *)
(* id, in the order of arrival, for any number of messages and any filter, *)
(* however many arrive while it writes.                                    *)
THEOREM ShownAsReceivedHolds == SatSpec => []ShownAsReceived
<1>1. SatInv => ShownAsReceived
  <2> SUFFICES ASSUME SatInv PROVE ShownAsReceived
    OBVIOUS
  <2>1. \A l \in Lines6 : screen[l].data \in Nat /\ screen[l].length \in Nat
    BY DEF SatInv, SatTypes
  <2>2. \A i, j \in 1..Len(shown) : i < j => shown[i] < shown[j]
    BY DEF SatInv, SatTypes, Handed
  <2> QED BY <2>1, <2>2 DEF SatInv, Displayed, ShownAsReceived
<1> QED BY <1>1, SatInvHolds, PTL

-----------------------------------------------------------------------------
(* StepCommands.  can_tx numbers its commands; a frame carries the number  *)
(* of the last command before it.  Two things that carry the same number   *)
(* mean the same direction: the frames, the pins the receiver has set for  *)
(* the command it has obeyed, and can_tx's own memory.                     *)

Pinned == [dir : Directions, step : {0, 1}]
Frame == [dlc : {0}, meant : Directions, after : Nat]
  \cup [dlc : {1}, meant : Directions, after : Nat, pins : Pinned]
Frames == inbox \cup outbox

StepTypes ==
  /\ sender \in {"netdemo", "stepcan"}
  /\ sample \subseteq Directions /\ lastCmd \subseteq Directions
  /\ cmd \in Pinned /\ pins \in Pinned
  /\ outbox \subseteq Frame /\ inbox \subseteq Frame
  /\ sent \in Nat /\ edges \in Nat /\ told \in Nat /\ issued \in Nat /\ heard \in Nat
  /\ astray = 0

SameMeaning ==
  /\ \A f, g \in Frames : f.after = g.after /\ f.after > 0 => f.meant = g.meant
  /\ \A f \in Frames : f.after = heard /\ heard > 0 => pins.dir = f.meant
  /\ \A f \in Frames : f.after = issued /\ issued > 0 => lastCmd = {f.meant}
  /\ heard = issued /\ issued > 0 => lastCmd = {pins.dir}

(* Frames arrive in the order they are sent in, and what a step frame      *)
(* relies on has been sent before it.                                      *)
Ordered ==
  /\ heard <= issued
  /\ \A f \in Frames : heard <= f.after /\ f.after <= issued
  /\ \A f \in inbox, g \in outbox : f.after <= g.after
  /\ \A f \in Frames : f.dlc = 0 => f.after > 0
  /\ \A f \in Frames : f.dlc = 1 => f.meant = f.pins.dir
  /\ lastCmd # {} => issued > 0
  /\ sender = "stepcan" => issued = 0 /\ sample = {}

(* A frame that makes the receiver step, and how many such frames wait in  *)
(* a message object, which holds one.                                      *)
Steps(f) == f.dlc = 0 \/ f.pins.step = 1
Pending(box) == IF \E f \in box : Steps(f) THEN 1 ELSE 0

StepInv == StepTypes /\ SameMeaning /\ Ordered /\ edges + Pending(inbox) + Pending(outbox) <= told

LEMMA PendingIs ==
  ASSUME NEW box
  PROVE  Pending(box) \in {0, 1}
BY DEF Pending

LEMMA StepStarts == StepInit => StepInv
<1> SUFFICES ASSUME StepInit PROVE StepInv
  OBVIOUS
<1>1. StepTypes
  BY DEF StepInit, StepTypes, Pinned, Low, Directions
<1>2. Pending(inbox) = 0 /\ Pending(outbox) = 0
  BY DEF StepInit, Pending
<1>3. SameMeaning /\ Ordered
  BY DEF StepInit, SameMeaning, Ordered, Frames
<1> QED BY <1>1, <1>2, <1>3 DEF StepInv, StepInit

(* can_tx: a command has a new number, a step the number of the last one.  *)
LEMMA CanTxKeeps ==
  ASSUME StepInv, can_tx
  PROVE  StepInv'
<1>1. PICK d \in sample :
        LET f == IF NewCommand(d) THEN CommandFrame([Low EXCEPT !.dir = d], issued + 1)
                 ELSE StepFrame(d)
        IN  /\ sent < MaxFrames /\ sent' = sent + 1
            /\ outbox' = IF outbox = {} THEN {f} ELSE outbox
            /\ issued' = issued + f.dlc
            /\ lastCmd' = {d} /\ sample' = {}
            /\ told' = told + 1 - f.dlc
            /\ UNCHANGED <<sender, cmd, inbox, pins, edges, heard, astray>>
  BY DEF can_tx
<1> DEFINE f == IF NewCommand(d) THEN CommandFrame([Low EXCEPT !.dir = d], issued + 1)
                ELSE StepFrame(d)
<1>2. /\ d \in Directions /\ issued \in Nat /\ heard \in Nat
      /\ heard <= issued
  BY DEF StepInv, StepTypes, Ordered
<1>3. CASE NewCommand(d)
  <2>1. /\ f \in Frame /\ f.dlc = 1 /\ f.meant = d /\ f.after = issued + 1 /\ ~Steps(f)
        /\ f.pins.dir = d
    BY <1>2, <1>3 DEF CommandFrame, Low, Frame, Pinned, Steps, Directions
  <2>2. /\ issued' = issued + 1 /\ told' = told /\ lastCmd' = {d} /\ sample' = {}
        /\ outbox' = {f} \/ outbox' = outbox
        /\ sent' = sent + 1
        /\ UNCHANGED <<sender, cmd, inbox, pins, edges, heard, astray>>
    BY <1>1, <2>1 DEF StepInv, StepTypes
  <2> HIDE DEF f
  <2>3. StepTypes'
    BY <1>2, <2>1, <2>2 DEF StepInv, StepTypes
  <2>4. \A g \in Frames' : g = f \/ g \in Frames
    BY <2>2 DEF Frames
  <2>5. \A g \in Frames : g.after \in Nat /\ g.after <= issued /\ heard <= g.after
    BY DEF StepInv, StepTypes, Frames, Frame, Ordered
  <2>6. SameMeaning'
    BY <1>2, <2>1, <2>2, <2>4, <2>5 DEF StepInv, SameMeaning
  <2>7. Ordered'
    <3>1. sender # "stepcan"
      BY <1>1 DEF StepInv, Ordered
    <3>2. \A g \in inbox, h \in outbox' : g.after <= h.after
      BY <1>2, <2>1, <2>2, <2>5 DEF StepInv, Ordered, Frames
    <3> QED BY <1>2, <2>1, <2>2, <2>4, <2>5, <3>1, <3>2 DEF StepInv, Ordered
  <2>8. Pending(outbox') <= Pending(outbox) /\ Pending(inbox') = Pending(inbox)
    BY <2>1, <2>2 DEF Pending
  <2>9. edges' + Pending(inbox') + Pending(outbox') <= told'
    BY <2>2, <2>8, PendingIs DEF StepInv, StepTypes
  <2> QED BY <2>3, <2>6, <2>7, <2>9 DEF StepInv, Pending
<1>4. CASE ~NewCommand(d)
  <2>1. lastCmd = {d} /\ issued > 0
    BY <1>4 DEF NewCommand, StepInv, Ordered
  <2>2. f \in Frame /\ f.dlc = 0 /\ f.meant = d /\ f.after = issued
    BY <1>2, <1>4 DEF StepFrame, Frame
  <2>3. /\ issued' = issued /\ told' = told + 1 /\ lastCmd' = lastCmd /\ sample' = {}
        /\ outbox' = {f} \/ outbox' = outbox
        /\ sent' = sent + 1
        /\ UNCHANGED <<sender, cmd, inbox, pins, edges, heard, astray>>
    BY <1>1, <2>1, <2>2, <1>2 DEF StepInv, StepTypes
  <2> HIDE DEF f
  <2>4. StepTypes'
    BY <1>2, <2>2, <2>3 DEF StepInv, StepTypes
  <2>5. \A g \in Frames' : g = f \/ g \in Frames
    BY <2>3 DEF Frames
  <2>6. \A g \in Frames : g.after \in Nat /\ g.after <= issued /\ heard <= g.after
    BY DEF StepInv, StepTypes, Frames, Frame, Ordered
  <2>7. SameMeaning'
    <3>1. \A g, h \in Frames' : g.after = h.after /\ g.after > 0 => g.meant = h.meant
      BY <2>1, <2>2, <2>5 DEF StepInv, SameMeaning
    <3>2. \A g \in Frames' : g.after = heard /\ heard > 0 => pins.dir = g.meant
      BY <2>1, <2>2, <2>5 DEF StepInv, SameMeaning
    <3>3. \A g \in Frames' : g.after = issued /\ issued > 0 => lastCmd = {g.meant}
      BY <2>1, <2>2, <2>5 DEF StepInv, SameMeaning
    <3> QED BY <2>3, <3>1, <3>2, <3>3 DEF StepInv, SameMeaning
  <2>8. Ordered'
    <3>1. \A g \in inbox, h \in outbox' : g.after <= h.after
      BY <1>2, <2>2, <2>3, <2>6 DEF StepInv, Ordered, Frames
    <3> QED BY <1>2, <2>1, <2>2, <2>3, <2>5, <2>6, <3>1 DEF StepInv, Ordered
  <2>9. edges' + Pending(inbox') + Pending(outbox') <= told'
    <3>1. Pending(outbox') <= Pending(outbox) + 1 /\ Pending(inbox') = Pending(inbox)
      BY <2>3, PendingIs DEF Pending
    <3> QED BY <2>3, <3>1, PendingIs DEF StepInv, StepTypes
  <2> QED BY <2>4, <2>7, <2>8, <2>9 DEF StepInv, Pending
<1> QED BY <1>3, <1>4

(* can_tx samples before it sends, and stepcan never does.                 *)
LEMMA SampleKeeps ==
  ASSUME StepInv, Sample
  PROVE  StepInv'
<1>1. StepTypes'
  BY DEF StepInv, StepTypes, Sample
<1>2. SameMeaning'
  BY DEF StepInv, SameMeaning, Frames, Sample
<1>3. Ordered'
  BY DEF StepInv, Ordered, Frames, Sample
<1>4. (edges + Pending(inbox) + Pending(outbox) <= told)'
  BY DEF StepInv, Pending, Steps, Sample
<1> QED BY <1>1, <1>2, <1>3, <1>4 DEF StepInv

(* stepcan overwrites the frame that waits, a step or not.                 *)
LEMMA StepcanKeeps ==
  ASSUME StepInv, stepcan
  PROVE  StepInv'
<1> DEFINE f == CommandFrame(cmd', 0)
<1>1. /\ sender = "stepcan" /\ sent' = sent + 1
      /\ cmd' = [step |-> 1 - cmd.step,
                 dir |-> IF sent > 0 /\ sent % Block = 0 THEN 1 - cmd.dir ELSE cmd.dir]
      /\ outbox' = {f} /\ told' = told + cmd'.step
      /\ UNCHANGED <<sender, sample, lastCmd, inbox, pins, edges, issued, heard, astray>>
  BY DEF stepcan
<1>2. cmd \in Pinned
  BY DEF StepInv, StepTypes
<1>3. cmd' \in Pinned /\ cmd'.step \in {0, 1}
  BY <1>1, <1>2 DEF Pinned, Directions
<1>4. /\ f \in Frame /\ f.dlc = 1 /\ f.after = 0 /\ f.meant = f.pins.dir
      /\ Steps(f) <=> cmd'.step = 1
  BY <1>3 DEF CommandFrame, Frame, Pinned, Steps
<1> HIDE DEF f
<1>5. issued = 0 /\ heard = 0 /\ \A g \in Frames : g.after = 0
  BY <1>1 DEF StepInv, StepTypes, Ordered, Frames, Frame
<1>6. \A g \in Frames' : g = f \/ g \in Frames
  BY <1>1 DEF Frames
<1>7. StepTypes'
  BY <1>1, <1>3, <1>4 DEF StepInv, StepTypes
<1>8. SameMeaning'
  BY <1>1, <1>4, <1>5, <1>6 DEF SameMeaning
<1>9. Ordered'
  <2>1. \A g \in inbox, h \in outbox' : g.after <= h.after
    BY <1>1, <1>4, <1>5 DEF Frames
  <2> QED BY <1>1, <1>4, <1>5, <1>6, <2>1 DEF StepInv, Ordered
<1>10. (edges + Pending(inbox) + Pending(outbox) <= told)'
  <2>1. Pending(outbox') = cmd'.step
    BY <1>1, <1>3, <1>4 DEF Pending
  <2>2. edges + Pending(inbox) <= told
    BY PendingIs DEF StepInv, StepTypes
  <2>3. edges + Pending(inbox) + Pending(outbox') <= told + cmd'.step
    BY <1>3, <2>1, <2>2, PendingIs DEF StepInv, StepTypes
  <2>4. edges' + Pending(inbox') + Pending(outbox') <= told'
    BY <1>1, <2>3
  <2> QED BY <2>4 DEF Pending, Steps
<1> QED BY <1>7, <1>8, <1>9, <1>10 DEF StepInv

(* The bus hands over the frame that waits.                                *)
LEMMA DeliverKeeps ==
  ASSUME StepInv, Deliver
  PROVE  StepInv'
<1>1. /\ inbox' = outbox /\ outbox' = {}
      /\ UNCHANGED <<sender, sample, lastCmd, cmd, sent, pins, edges, told, issued,
                     heard, astray>>
  BY DEF Deliver
<1>2. \A f \in Frames' : f \in Frames
  BY <1>1 DEF Frames
<1>3. StepTypes'
  BY <1>1 DEF StepInv, StepTypes
<1>4. SameMeaning' /\ Ordered'
  BY <1>1, <1>2 DEF StepInv, SameMeaning, Ordered
<1>5. Pending(outbox') = 0 /\ Pending(inbox') = Pending(outbox)
  BY <1>1 DEF Pending
<1>6. edges' + Pending(inbox') + Pending(outbox') <= told'
  BY <1>1, <1>5, PendingIs DEF StepInv, StepTypes
<1> QED BY <1>3, <1>4, <1>6 DEF StepInv, Pending, Steps

(* The receiver takes a frame with the pins.                               *)
LEMMA PinsKeeps ==
  ASSUME StepInv, Pins
  PROVE  StepInv'
<1>1. PICK f \in inbox :
        /\ f.dlc = 1 /\ inbox' = {}
        /\ pins' = f.pins /\ heard' = f.after
        /\ IF f.pins.step > pins.step THEN Edge(f, f.pins.dir)
           ELSE UNCHANGED <<edges, astray>>
        /\ UNCHANGED <<sender, sample, lastCmd, cmd, sent, outbox, told, issued>>
  BY DEF Pins
<1>2. /\ f \in Frames /\ f.after \in Nat /\ f.pins \in Pinned /\ f.meant = f.pins.dir
      /\ f.after <= issued
  BY <1>1 DEF StepInv, StepTypes, Frames, Frame, Ordered
<1>3. astray' = 0 /\ (edges' = edges \/ (edges' = edges + 1 /\ f.pins.step = 1))
  <2>1. CASE f.pins.step > pins.step
    BY <1>1, <1>2, <2>1 DEF Edge, StepInv, StepTypes, Pinned
  <2>2. CASE ~(f.pins.step > pins.step)
    BY <1>1, <2>2 DEF StepInv, StepTypes
  <2> QED BY <2>1, <2>2
<1>4. \A g \in Frames' : g \in outbox /\ g \in Frames
  BY <1>1 DEF Frames
<1>5. StepTypes'
  BY <1>1, <1>2, <1>3 DEF StepInv, StepTypes
<1>6. SameMeaning'
  <2>1. \A g \in Frames' : g.after = f.after /\ f.after > 0 => f.meant = g.meant
    BY <1>2, <1>4 DEF StepInv, SameMeaning
  <2>2. f.after = issued /\ issued > 0 => lastCmd = {f.meant}
    BY <1>2 DEF StepInv, SameMeaning
  <2> QED BY <1>1, <1>2, <1>4, <2>1, <2>2 DEF StepInv, SameMeaning
<1>7. Ordered'
  BY <1>1, <1>2, <1>4 DEF StepInv, Ordered
<1>8. edges' + Pending(inbox') + Pending(outbox') <= told'
  <2>1. Pending(inbox') = 0 /\ Pending(outbox') = Pending(outbox)
    BY <1>1 DEF Pending
  <2>2. f.pins.step = 1 => Pending(inbox) = 1
    BY DEF Pending, Steps
  <2> QED BY <1>1, <1>3, <2>1, <2>2, PendingIs DEF StepInv, StepTypes
<1> QED BY <1>5, <1>6, <1>7, <1>8 DEF StepInv, Pending, Steps

(* Or an empty one: its command has been heard, or a later one is missing. *)
LEMMA PulseKeeps ==
  ASSUME StepInv, Pulse
  PROVE  StepInv'
<1>1. PICK f \in inbox :
        /\ f.dlc = 0 /\ inbox' = {} /\ heard' = heard
        /\ Edge(f, pins.dir)
        /\ UNCHANGED <<sender, sample, lastCmd, cmd, sent, outbox, pins, told, issued>>
  BY DEF Pulse
<1>2. f \in Frames /\ f.after > 0
  BY <1>1 DEF StepInv, Ordered, Frames
<1>3. pins.dir = f.meant \/ heard # f.after
  BY <1>2 DEF StepInv, SameMeaning
<1>4. astray' = 0 /\ edges' = edges + 1
  BY <1>1, <1>3 DEF Edge, StepInv, StepTypes
<1>5. \A g \in Frames' : g \in Frames
  BY <1>1 DEF Frames
<1>6. StepTypes'
  BY <1>1, <1>4 DEF StepInv, StepTypes
<1>7. SameMeaning' /\ Ordered'
  BY <1>1, <1>5 DEF StepInv, SameMeaning, Ordered
<1>8. edges' + Pending(inbox') + Pending(outbox') <= told'
  <2>1. Pending(inbox') = 0 /\ Pending(outbox') = Pending(outbox) /\ Pending(inbox) = 1
    BY <1>1 DEF Pending, Steps
  <2> QED BY <1>1, <1>4, <2>1, PendingIs DEF StepInv, StepTypes
<1> QED BY <1>6, <1>7, <1>8 DEF StepInv, Pending, Steps

(* A reset forgets the commands that have been heard.                      *)
LEMMA RestartKeeps ==
  ASSUME StepInv, Restart
  PROVE  StepInv'
<1>1. /\ pins' = Low /\ inbox' = {} /\ heard' = 0
      /\ UNCHANGED <<sender, sample, lastCmd, cmd, sent, outbox, edges, told, issued, astray>>
  BY DEF Restart
<1>2. \A g \in Frames' : g \in Frames /\ g \in outbox /\ g.after \in Nat
  BY <1>1 DEF Frames, StepInv, StepTypes, Frame
<1>3. StepTypes'
  BY <1>1 DEF StepInv, StepTypes, Low, Pinned, Directions
<1>4. SameMeaning'
  BY <1>1, <1>2 DEF StepInv, SameMeaning
<1>5. Ordered'
  BY <1>1, <1>2 DEF StepInv, StepTypes, Ordered
<1>6. Pending(inbox') = 0 /\ Pending(outbox') = Pending(outbox)
  BY <1>1 DEF Pending
<1>7. edges' + Pending(inbox') + Pending(outbox') <= told'
  BY <1>1, <1>6, PendingIs DEF StepInv, StepTypes
<1> QED BY <1>3, <1>4, <1>5, <1>7 DEF StepInv, Pending, Steps

LEMMA StepInvHolds == StepSpec => []StepInv
<1>1. StepInv /\ [StepNext]_stepVars => StepInv'
  <2> SUFFICES ASSUME StepInv, [StepNext]_stepVars PROVE StepInv'
    OBVIOUS
  <2>1. CASE UNCHANGED stepVars
    <3>1. StepTypes' /\ SameMeaning' /\ Ordered'
      BY <2>1 DEF stepVars, StepInv, StepTypes, SameMeaning, Ordered, Frames
    <3>2. (edges + Pending(inbox) + Pending(outbox) <= told)'
      BY <2>1 DEF stepVars, StepInv, Pending, Steps
    <3> QED BY <3>1, <3>2 DEF StepInv
  <2> QED BY <2>1, SampleKeeps, CanTxKeeps, StepcanKeeps, DeliverKeeps, PinsKeeps,
             PulseKeeps, RestartKeeps DEF StepNext
<1> QED BY StepStarts, <1>1, PTL DEF StepSpec

(* Whatever is lost, the motor makes no step nobody asked for, and one in  *)
(* the wrong direction only when the last command before it was lost or    *)
(* the receiver has been reset since.                                      *)
THEOREM StepsAsToldHolds == StepSpec => []StepsAsTold
<1>1. StepInv => StepsAsTold
  <2> SUFFICES ASSUME StepInv PROVE StepsAsTold
    OBVIOUS
  <2>1. edges <= told
    BY PendingIs DEF StepInv, StepTypes
  <2>2. astray = 0 /\ \A f \in inbox \cup outbox : f.after >= heard
    BY DEF StepInv, StepTypes, Ordered, Frames, Frame
  <2> QED BY <2>1, <2>2 DEF StepsAsTold
<1> QED BY <1>1, StepInvHolds, PTL

-----------------------------------------------------------------------------
(* Rotaries.  Counts and angles go round; four edges make a cycle of the   *)
(* two lines, and the range of a count is a whole number of them.          *)

Half == KnobWord \div 2
InRange(n) == n \in Int /\ -Half <= n /\ n < Half

LEMMA HalfIs == Half \in Nat /\ Half >= 4 /\ KnobWord = 2 * Half /\ KnobWord % 4 = 0
BY KnobAssumption DEF Half

(* The last edge of the range, either way, leads to its other end.         *)
LEMMA WrapIs ==
  ASSUME NEW n \in Int, NEW d \in {-1, 0, 1}, InRange(n)
  PROVE  /\ InRange(Wrap(n + d))
         /\ Wrap(n + d) \in {n + d, n + d - KnobWord, n + d + KnobWord}
         /\ Wrap(n + d) % 4 = (n + d) % 4
         /\ Wrap(n) = n
<1> DEFINE x == n + Half
<1>1. /\ KnobWord \in Nat \ {0} /\ KnobWord % 4 = 0 /\ KnobWord = 2 * Half
      /\ Half \in Nat /\ Half >= 4
  BY HalfIs, KnobAssumption
<1>2. x \in Int /\ 0 <= x /\ x < KnobWord
  BY <1>1 DEF InRange
<1>3. Wrap(n + d) = ((x + d) % KnobWord) - Half /\ Wrap(n) = (x % KnobWord) - Half
  <2>1. (n + d) + Half = x + d
    BY <1>1
  <2> QED BY <2>1 DEF Wrap, Half
<1> HIDE DEF x
<1>4. x % KnobWord = x
  BY <1>1, <1>2
<1>5. \/ (x + d) % KnobWord = x + d /\ 0 <= x + d /\ x + d < KnobWord
      \/ (x + d) % KnobWord = KnobWord - 1 /\ x + d = -1
      \/ (x + d) % KnobWord = 0 /\ x + d = KnobWord
  <2>1. x + d \in Int /\ -1 <= x + d /\ x + d <= KnobWord
    BY <1>1, <1>2
  <2>2. CASE x + d = -1
    BY <1>1, <2>2
  <2>3. CASE x + d = KnobWord
    BY <1>1, <2>3
  <2>4. CASE 0 <= x + d /\ x + d < KnobWord
    BY <1>1, <2>1, <2>4
  <2> QED BY <1>1, <2>1, <2>2, <2>3, <2>4
<1>6. x = n + Half
  BY DEF x
<1>7. InRange(Wrap(n + d)) /\ Wrap(n + d) \in {n + d, n + d - KnobWord, n + d + KnobWord}
  BY <1>1, <1>2, <1>3, <1>5, <1>6 DEF InRange
<1>8. (n + d - KnobWord) % 4 = (n + d) % 4 /\ (n + d + KnobWord) % 4 = (n + d) % 4
  BY <1>1
<1>9. Wrap(n + d) % 4 = (n + d) % 4
  BY <1>7, <1>8
<1> QED BY <1>1, <1>3, <1>4, <1>6, <1>7, <1>9

(* An edge changes one line, and the table tells which way it went.        *)
LEMMA EdgeIs ==
  ASSUME NEW a \in Int, NEW b \in Int, NEW d \in {-1, 1}, b % 4 = (a + d) % 4
  PROVE  /\ Lines(a) \in 0..3 /\ Lines(b) \in 0..3
         /\ Counted(Lines(a), Lines(b)) = d
         /\ \/ /\ Bit("A", Lines(a)) # Bit("A", Lines(b))
               /\ Bit("B", Lines(a)) = Bit("B", Lines(b))
            \/ /\ Bit("B", Lines(a)) # Bit("B", Lines(b))
               /\ Bit("A", Lines(a)) = Bit("A", Lines(b))
<1>1. a % 4 \in 0..3
  OBVIOUS
<1>2. CASE a % 4 = 0
  <2>1. Lines(a) = 0 /\ Lines(b) = IF d = 1 THEN 2 ELSE 1
    <3>1. b % 4 = IF d = 1 THEN 1 ELSE 3
      BY <1>2
    <3> QED BY <1>2, <3>1 DEF Lines
  <2>2. Counted(0, 2) = 1 /\ Counted(0, 1) = -1
    BY DEF Counted, qeMap
  <2> QED BY <2>1, <2>2 DEF Bit
<1>3. CASE a % 4 = 1
  <2>1. Lines(a) = 2 /\ Lines(b) = IF d = 1 THEN 3 ELSE 0
    <3>1. b % 4 = IF d = 1 THEN 2 ELSE 0
      BY <1>3
    <3> QED BY <1>3, <3>1 DEF Lines
  <2>2. Counted(2, 3) = 1 /\ Counted(2, 0) = -1
    BY DEF Counted, qeMap
  <2> QED BY <2>1, <2>2 DEF Bit
<1>4. CASE a % 4 = 2
  <2>1. Lines(a) = 3 /\ Lines(b) = IF d = 1 THEN 1 ELSE 2
    <3>1. b % 4 = IF d = 1 THEN 3 ELSE 1
      BY <1>4
    <3> QED BY <1>4, <3>1 DEF Lines
  <2>2. Counted(3, 1) = 1 /\ Counted(3, 2) = -1
    BY DEF Counted, qeMap
  <2> QED BY <2>1, <2>2 DEF Bit
<1>5. CASE a % 4 = 3
  <2>1. Lines(a) = 1 /\ Lines(b) = IF d = 1 THEN 0 ELSE 3
    <3>1. b % 4 = IF d = 1 THEN 0 ELSE 2
      BY <1>5
    <3> QED BY <1>5, <3>1 DEF Lines
  <2>2. Counted(1, 0) = 1 /\ Counted(1, 3) = -1
    BY DEF Counted, qeMap
  <2> QED BY <2>1, <2>2 DEF Bit
<1> QED BY <1>1, <1>2, <1>3, <1>4, <1>5

(* How many lines are high, but for multiples of two.                      *)
Odd(lines) == IF lines \in {1, 2} THEN 1 ELSE 0

LEMMA LinesAreOdd ==
  ASSUME NEW a \in Int
  PROVE  Lines(a) \in 0..3 /\ Odd(Lines(a)) = a % 2
<1>1. a % 4 \in 0..3
  OBVIOUS
<1>2. CASE a % 4 = 0
  BY <1>2 DEF Lines, Odd
<1>3. CASE a % 4 = 1
  BY <1>3 DEF Lines, Odd
<1>4. CASE a % 4 = 2
  BY <1>4 DEF Lines, Odd
<1>5. CASE a % 4 = 3
  BY <1>5 DEF Lines, Odd
<1> QED BY <1>1, <1>2, <1>3, <1>4, <1>5

(* What the table makes of a pair of readings.                             *)
LEMMA CountedIs ==
  ASSUME NEW p \in 0..3, NEW q \in 0..3
  PROVE  /\ Counted(p, q) \in {-1, 0, 1}
         /\ (Odd(p) + Counted(p, q)) % 2 = Odd(q)
         /\ Counted(p, q) = 0 <=> p = q \/ p + q = 3
<1>1. CASE p = 0
  BY <1>1 DEF Counted, qeMap, Odd
<1>2. CASE p = 1
  BY <1>2 DEF Counted, qeMap, Odd
<1>3. CASE p = 2
  BY <1>3 DEF Counted, qeMap, Odd
<1>4. CASE p = 3
  BY <1>4 DEF Counted, qeMap, Odd
<1> QED BY <1>1, <1>2, <1>3, <1>4

-----------------------------------------------------------------------------
(* The interrupts.  A knob whose lines are not as they were read last has  *)
(* an edge pending, or is about to be read as it is, or has not moved yet. *)

Now(k) == Lines(angle[k])
Reading(k) == lineA # {} /\ k = First

KnobTypes ==
  /\ angle \in [Knobs -> Int] /\ count \in [Knobs -> Int]
  /\ \A k \in Knobs : InRange(angle[k]) /\ InRange(count[k])
  /\ qeState \in [Knobs -> 0..3] /\ rushed \in [Knobs -> BOOLEAN]
  /\ todo \subseteq Knobs /\ lineA \in {{}, {0}, {1}} /\ (lineA # {} => todo # {})

Noticed(k) ==
  qeState[k] # Now(k) => \/ \E p \in Ports : <<p, k>> \in mis
                         \/ k \in todo /\ (Reading(k) => lineA = {Bit("A", Now(k))})
                         \/ qeState[k] = 0 /\ Now(k) = 3
Fresh(k) == Reading(k) /\ lineA # {Bit("A", Now(k))} => <<"A", k>> \in mis
Parity(k) == count[k] % 2 = Odd(qeState[k])

(* A knob that is not turned too fast is at most an edge ahead of its      *)
(* count, an edge that is there to be read.                                *)
Exact(k) == ~rushed[k] =>
  /\ angle[k] = Wrap(count[k] + Counted(qeState[k], Now(k)))
  /\ Counted(qeState[k], Now(k)) = 0 => qeState[k] = Now(k)
  /\ Reading(k) => \/ lineA = {Bit("A", Now(k))}
                   \/ lineA = {Bit("A", qeState[k])} /\ qeState[k] # Now(k)

KnobInv(k) == Noticed(k) /\ Fresh(k) /\ Parity(k) /\ Exact(k)
KnobsInv == KnobTypes /\ \A k \in Knobs : KnobInv(k)

LEMMA FirstIs ==
  ASSUME todo \subseteq Knobs, todo # {}
  PROVE  First \in todo
<1>1. \E k \in todo : \A j \in todo : k <= j
  <2>1. CASE 1 \in todo
    BY <2>1 DEF Knobs
  <2>2. CASE 1 \notin todo
    <3>1. 2 \in todo /\ \A j \in todo : j = 2
      BY <2>2 DEF Knobs
    <3> QED BY <3>1
  <2> QED BY <2>1, <2>2
<1> QED BY <1>1, Zenon DEF First

LEMMA KnobsStart == RotInit => KnobsInv
<1> SUFFICES ASSUME RotInit PROVE KnobsInv
  OBVIOUS
<1>1. Lines(0) = 0 /\ Lines(2) = 3
  BY DEF Lines
<1>2. /\ angle \in [Knobs -> {0, 2}] /\ lineA = {} /\ mis = {} /\ todo = {}
      /\ count = [k \in Knobs |-> 0] /\ qeState = [k \in Knobs |-> 0]
      /\ rushed = [k \in Knobs |-> Lines(angle[k]) # 0]
  BY DEF RotInit
<1>3. KnobTypes
  BY <1>2, HalfIs DEF KnobTypes, InRange
<1>4. ASSUME NEW k \in Knobs PROVE KnobInv(k)
  <2>1. (angle[k] = 0 /\ Now(k) = 0 /\ ~rushed[k]) \/ (Now(k) = 3 /\ rushed[k])
    <3>1. angle[k] \in {0, 2} /\ (rushed[k] <=> Lines(angle[k]) # 0)
      BY <1>2
    <3>2. CASE angle[k] = 0
      BY <1>1, <3>1, <3>2 DEF Now
    <3>3. CASE angle[k] = 2
      BY <1>1, <3>1, <3>3 DEF Now
    <3> QED BY <3>1, <3>2, <3>3
  <2>2. count[k] = 0 /\ qeState[k] = 0 /\ ~Reading(k)
    BY <1>2 DEF Reading
  <2>3. Odd(0) = 0 /\ Counted(0, 0) = 0 /\ Wrap(0) = 0
    <3>1. Wrap(0) = 0
      BY HalfIs, WrapIs DEF InRange
    <3> QED BY <3>1 DEF Odd, Counted, qeMap
  <2>4. Noticed(k) /\ Fresh(k) /\ Parity(k)
    BY <2>1, <2>2, <2>3 DEF Noticed, Fresh, Parity
  <2>5. Exact(k)
    BY <2>1, <2>2, <2>3 DEF Exact
  <2> QED BY <2>4, <2>5 DEF KnobInv
<1> QED BY <1>3, <1>4 DEF KnobsInv

(* What is said of a knob depends on nothing but these.                    *)
LEMMA KnobSame ==
  ASSUME NEW k \in Knobs, KnobInv(k),
         angle'[k] = angle[k], count'[k] = count[k], qeState'[k] = qeState[k],
         rushed'[k] = rushed[k], mis \subseteq mis', todo' = todo, lineA' = lineA
  PROVE  KnobInv(k)'
<1>1. Now(k)' = Now(k) /\ (Reading(k)' <=> Reading(k))
  BY DEF Now, Reading, First
<1>2. Noticed(k)' /\ Fresh(k)' /\ Parity(k)'
  BY <1>1 DEF KnobInv, Noticed, Fresh, Parity
<1>3. Exact(k)'
  BY <1>1 DEF KnobInv, Exact
<1> QED BY <1>2, <1>3 DEF KnobInv

(* The hand turns a knob by an edge.                                       *)
LEMMA TurnKeeps ==
  ASSUME KnobsInv, NEW k \in Knobs, NEW d \in {-1, 1}, Turn(k, d)
  PROVE  KnobsInv'
<1> DEFINE a == angle[k]
<1> DEFINE b == Wrap(a + d)
<1> DEFINE port == CHOOSE p \in Ports : Bit(p, Lines(a)) # Bit(p, Lines(b))
<1> DEFINE q == qeState[k]
<1>1. angle \in [Knobs -> Int] /\ a \in Int /\ InRange(a) /\ q \in 0..3
      /\ count[k] \in Int /\ InRange(count[k]) /\ KnobInv(k)
  BY DEF KnobsInv, KnobTypes
<1>2. b \in Int /\ InRange(b) /\ b % 4 = (a + d) % 4 /\ Wrap(count[k]) = count[k]
  BY <1>1, WrapIs DEF InRange
<1>3. /\ angle' = [angle EXCEPT ![k] = b]
      /\ rushed' = [rushed EXCEPT ![k] = @ \/ Lines(a) # q]
      /\ UNCHANGED <<todo, lineA, count, qeState>>
  BY DEF Turn
<1>4. angle'[k] = b
  BY <1>1, <1>3
<1>5. mis' = mis \cup {<<port, k>>}
  BY <1>4 DEF Turn
<1>6. /\ Counted(Lines(a), Lines(b)) = d
      /\ \/ /\ Bit("A", Lines(a)) # Bit("A", Lines(b))
            /\ Bit("B", Lines(a)) = Bit("B", Lines(b))
         \/ /\ Bit("B", Lines(a)) # Bit("B", Lines(b))
            /\ Bit("A", Lines(a)) = Bit("A", Lines(b))
  BY <1>1, <1>2, EdgeIs
<1>7. port \in Ports /\ (Bit("A", Lines(a)) # Bit("A", Lines(b)) => port = "A")
  BY <1>6 DEF Ports
<1>8. Now(k) = Lines(a) /\ Now(k)' = Lines(b) /\ (Reading(k)' <=> Reading(k))
  BY <1>3, <1>4 DEF Now, Reading, First
<1> HIDE DEF port, b
<1>9. Noticed(k)' /\ Fresh(k)' /\ Parity(k)'
  <2>1. Noticed(k)'
    BY <1>5, <1>7 DEF Noticed
  <2>2. Fresh(k)'
    BY <1>1, <1>3, <1>5, <1>7, <1>8 DEF Fresh, KnobInv
  <2>3. Parity(k)'
    BY <1>1, <1>3 DEF Parity, KnobInv
  <2> QED BY <2>1, <2>2, <2>3
<1>10. Exact(k)'
  <2> SUFFICES ASSUME ~rushed'[k] PROVE Exact(k)'
    BY DEF Exact
  <2>1. ~rushed[k] /\ Lines(a) = q
    BY <1>3 DEF KnobsInv, KnobTypes
  <2>2. Counted(q, q) = 0 /\ Counted(q, Lines(b)) = d /\ q # Lines(b)
    BY <1>1, <1>6, <2>1, CountedIs
  <2>3. a = count[k]
    BY <1>1, <1>2, <1>8, <2>1, <2>2 DEF KnobInv, Exact
  <2>4. Reading(k) => lineA = {Bit("A", q)}
    BY <1>1, <1>8, <2>1 DEF KnobInv, Exact
  <2>5. b = Wrap(count[k] + d)
    BY <2>3 DEF b
  <2> QED BY <1>3, <1>4, <1>8, <2>2, <2>4, <2>5 DEF Exact
<1>11. ASSUME NEW j \in Knobs, j # k PROVE KnobInv(j)'
  <2>1. angle'[j] = angle[j] /\ rushed'[j] = rushed[j]
    BY <1>3, <1>11 DEF KnobsInv, KnobTypes
  <2> QED BY <1>3, <1>5, <1>11, <2>1, KnobSame DEF KnobsInv
<1>12. KnobTypes'
  BY <1>1, <1>2, <1>3, <1>4 DEF KnobsInv, KnobTypes, InRange
<1> QED BY <1>9, <1>10, <1>11, <1>12 DEF KnobsInv, KnobInv

(* An interrupt takes the pending edges of its port.                       *)
LEMMA VectorKeeps ==
  ASSUME KnobsInv, NEW port \in Ports, Vector(port)
  PROVE  KnobsInv'
<1>1. /\ todo = {} /\ todo' = {k \in Knobs : <<port, k>> \in mis} /\ lineA = {}
      /\ mis' = {e \in mis : e[1] # port}
      /\ UNCHANGED <<angle, lineA, count, qeState, rushed>>
  BY DEF Vector, KnobsInv, KnobTypes
<1>2. KnobTypes'
  BY <1>1 DEF KnobsInv, KnobTypes, InRange
<1>3. ASSUME NEW k \in Knobs PROVE KnobInv(k)'
  <2>1. Now(k)' = Now(k) /\ ~Reading(k)' /\ ~Reading(k)
    BY <1>1 DEF Now, Reading
  <2>2. Noticed(k)'
    <3>1. ASSUME NEW p \in Ports, <<p, k>> \in mis
          PROVE  <<p, k>> \in mis' \/ k \in todo'
      BY <1>1, <3>1
    <3> QED BY <1>1, <2>1, <3>1 DEF KnobsInv, KnobInv, Noticed
  <2>3. Fresh(k)' /\ Parity(k)' /\ Exact(k)'
    BY <1>1, <2>1 DEF KnobsInv, KnobInv, Fresh, Parity, Exact
  <2> QED BY <2>2, <2>3 DEF KnobInv
<1> QED BY <1>2, <1>3 DEF KnobsInv

(* It reads one line.                                                      *)
LEMMA ReadAKeeps ==
  ASSUME KnobsInv, ReadA
  PROVE  KnobsInv'
<1>1. /\ todo # {} /\ lineA = {} /\ lineA' = {Bit("A", Now(First))}
      /\ UNCHANGED <<angle, mis, todo, count, qeState, rushed>>
  BY DEF ReadA, Now
<1>2. First \in Knobs
  BY <1>1, FirstIs DEF KnobsInv, KnobTypes
<1>3. Now(First) \in 0..3 /\ Bit("A", Now(First)) \in {0, 1}
  BY <1>2, LinesAreOdd DEF Now, KnobsInv, KnobTypes, Bit
<1>4. KnobTypes'
  BY <1>1, <1>3 DEF KnobsInv, KnobTypes, InRange
<1>5. ASSUME NEW k \in Knobs PROVE KnobInv(k)'
  <2>1. Now(k)' = Now(k) /\ ~Reading(k) /\ (Reading(k)' => lineA' = {Bit("A", Now(k))})
    BY <1>1 DEF Now, Reading, First
  <2> QED BY <1>1, <2>1 DEF KnobsInv, KnobInv, Noticed, Fresh, Parity, Exact
<1> QED BY <1>4, <1>5 DEF KnobsInv

(* Then the other, and counts.                                             *)
LEMMA ReadBKeeps ==
  ASSUME KnobsInv, ReadB
  PROVE  KnobsInv'
<1>0. PICK k \in Knobs : k = First /\ k \in todo
  BY FirstIs DEF ReadB, KnobsInv, KnobTypes
<1> DEFINE q == qeState[k]
<1>1. PICK a \in lineA :
        LET new == 2 * Bit("B", Lines(angle[First])) + a IN
        /\ count' = [count EXCEPT ![First] = Wrap(@ + Counted(qeState[First], new))]
        /\ qeState' = [qeState EXCEPT ![First] = new]
        /\ todo' = todo \ {First} /\ lineA' = {}
        /\ UNCHANGED <<angle, mis, rushed>>
  BY DEF ReadB
<1> DEFINE new == 2 * Bit("B", Now(k)) + a
<1>2. /\ count' = [count EXCEPT ![k] = Wrap(@ + Counted(q, new))]
      /\ qeState' = [qeState EXCEPT ![k] = new]
      /\ todo' = todo \ {k} /\ lineA' = {}
      /\ UNCHANGED <<angle, mis, rushed>>
  BY <1>0, <1>1 DEF Now
<1>3. todo # {} /\ lineA = {a} /\ a \in {0, 1}
  BY DEF KnobsInv, KnobTypes
<1>4. k \in todo /\ k \in Knobs
  BY <1>0
<1>5. Now(k) \in 0..3 /\ q \in 0..3 /\ count[k] \in Int /\ InRange(count[k]) /\ KnobInv(k)
      /\ angle[k] \in Int /\ InRange(angle[k])
  BY <1>4, LinesAreOdd DEF KnobsInv, KnobTypes, Now
<1>6. /\ new \in 0..3 /\ Bit("A", new) = a /\ Bit("B", new) = Bit("B", Now(k))
      /\ (a = Bit("A", Now(k)) => new = Now(k))
      /\ (a # Bit("A", Now(k)) /\ a = Bit("A", q) => new = q \/ Bit("B", q) # Bit("B", Now(k)))
  BY <1>3, <1>5 DEF Bit
<1> HIDE DEF new
<1>7. /\ count'[k] = Wrap(count[k] + Counted(q, new)) /\ qeState'[k] = new
      /\ Now(k)' = Now(k) /\ ~Reading(k)'
  BY <1>2, <1>4 DEF KnobsInv, KnobTypes, Now, Reading
<1>8. Reading(k)
  BY <1>0, <1>3 DEF Reading
<1>9. Counted(q, new) \in {-1, 0, 1} /\ (Odd(q) + Counted(q, new)) % 2 = Odd(new)
  BY <1>5, <1>6, CountedIs
<1>10. InRange(count'[k]) /\ count'[k] \in {count[k] + Counted(q, new),
         count[k] + Counted(q, new) - KnobWord, count[k] + Counted(q, new) + KnobWord}
  BY <1>5, <1>7, <1>9, WrapIs
<1>11. Noticed(k)' /\ Fresh(k)'
  BY <1>2, <1>3, <1>5, <1>6, <1>7, <1>8 DEF KnobInv, Noticed, Fresh, Ports
<1>12. Parity(k)'
  <2>1. count'[k] % 2 = (count[k] + Counted(q, new)) % 2
    BY <1>5, <1>9, <1>10, HalfIs
  <2>2. count[k] % 2 = Odd(q)
    BY <1>5 DEF KnobInv, Parity
  <2>3. (count[k] + Counted(q, new)) % 2 = (Odd(q) + Counted(q, new)) % 2
    BY <1>5, <1>9, <2>2 DEF Odd
  <2> QED BY <1>7, <1>9, <2>1, <2>3 DEF Parity
<1>13. Exact(k)'
  <2> SUFFICES ASSUME ~rushed[k] PROVE Exact(k)'
    BY <1>2 DEF Exact
  <2>1. /\ angle[k] = Wrap(count[k] + Counted(q, Now(k)))
        /\ Counted(q, Now(k)) = 0 => q = Now(k)
        /\ a = Bit("A", Now(k)) \/ (a = Bit("A", q) /\ q # Now(k))
    BY <1>3, <1>5, <1>8 DEF KnobInv, Exact
  <2>2. Counted(q, q) = 0 /\ Counted(Now(k), Now(k)) = 0
    BY <1>5, CountedIs
  <2>3. CASE a = Bit("A", Now(k))
    <3>1. new = Now(k) /\ count'[k] = angle[k]
      BY <1>6, <1>7, <2>1, <2>3
    <3>2. Wrap(angle[k] + 0) = angle[k]
      BY <1>5, WrapIs
    <3> QED BY <1>2, <1>5, <1>7, <2>2, <3>1, <3>2 DEF Exact
  <2>4. CASE a # Bit("A", Now(k))
    <3>1. Bit("A", q) # Bit("A", Now(k))
      BY <2>1, <2>4
    <3>2. q + Now(k) # 3
      BY <1>5, <2>1, CountedIs
    <3>3. Bit("B", q) = Bit("B", Now(k))
      BY <1>5, <3>1, <3>2 DEF Bit
    <3>4. new = q
      BY <1>6, <2>1, <2>4, <3>3
    <3>5. count'[k] = count[k]
      BY <1>5, <1>7, <2>2, <3>4, WrapIs
    <3> QED BY <1>2, <1>7, <2>1, <3>4, <3>5 DEF Exact
  <2> QED BY <2>3, <2>4
<1>14. ASSUME NEW j \in Knobs, j # k PROVE KnobInv(j)'
  <2>1. /\ count'[j] = count[j] /\ qeState'[j] = qeState[j]
        /\ Now(j)' = Now(j) /\ ~Reading(j)' /\ ~Reading(j) /\ (j \in todo' <=> j \in todo)
    BY <1>0, <1>2, <1>4, <1>14 DEF KnobsInv, KnobTypes, Now, Reading
  <2> QED BY <1>2, <1>14, <2>1 DEF KnobsInv, KnobInv, Noticed, Fresh, Parity, Exact
<1>15. KnobTypes'
  <2>1. ASSUME NEW j \in Knobs PROVE InRange(count'[j])
    BY <1>2, <1>10, <1>14 DEF KnobsInv, KnobTypes
  <2>2. count' \in [Knobs -> Int] /\ qeState' \in [Knobs -> 0..3]
    BY <1>2, <1>6, <1>7, <1>10 DEF KnobsInv, KnobTypes, InRange
  <2> QED BY <1>2, <2>1, <2>2 DEF KnobsInv, KnobTypes, InRange
<1> QED BY <1>11, <1>12, <1>13, <1>14, <1>15 DEF KnobsInv, KnobInv

-----------------------------------------------------------------------------
(* The reports: the one in the message object is the last of its knob, and *)
(* when none is late the thread comes to the second knob with no other than *)
(* that of the first.                                                      *)

Report(k) == <<k, last[k], lastBtn[k]>>

Reported ==
  /\ last = [k \in Knobs |-> last[k]] /\ lastBtn = [k \in Knobs |-> lastBtn[k]]
  /\ turn \in Knobs /\ lost \subseteq Knobs /\ late \in BOOLEAN
  /\ ~late => lost \subseteq {1}
  /\ object0 = {} \/ \E k \in Knobs : object0 = {Report(k)}
  /\ turn = 2 /\ ~late => object0 = {} \/ object0 = {Report(1)}
  /\ \A k \in Knobs \ lost : last[k] # -(KnobWord \div 2) =>
       known[k] = <<last[k], lastBtn[k]>> \/ object0 = {Report(k)}

RotInv == KnobsInv /\ Reported

LEMMA ReportSends ==
  ASSUME Reported, rotSend
  PROVE  Reported'
<1> DEFINE next == count[turn] \div 4
<1> DEFINE news == News(next # last[turn], button[turn] # lastBtn[turn])
<1>1. PICK k \in Knobs : k = turn
  BY DEF Reported
<1>2. /\ object0' = IF news THEN {<<k, next, button[k]>>} ELSE object0
      /\ lost' = IF news THEN (lost \cup {f[1] : f \in object0}) \ {k} ELSE lost
      /\ ~late' => ~late /\ (k = 1 => object0 = {})
      /\ last' = [last EXCEPT ![k] = next] /\ lastBtn' = [lastBtn EXCEPT ![k] = button[k]]
      /\ turn' = 3 - k /\ known' = known
  BY <1>1 DEF rotSend
<1>3. ~news => next = last[k] /\ button[k] = lastBtn[k]
  BY <1>1 DEF News
<1> HIDE DEF next, news
<1>4. /\ last' = [j \in Knobs |-> last'[j]] /\ lastBtn' = [j \in Knobs |-> lastBtn'[j]]
      /\ last'[k] = next /\ lastBtn'[k] = button[k]
      /\ \A j \in Knobs \ {k} : last'[j] = last[j] /\ lastBtn'[j] = lastBtn[j]
  BY <1>2 DEF Reported
<1>5. k \in {1, 2} /\ turn' \in Knobs /\ (turn' = 2 <=> k = 1)
  BY <1>2 DEF Knobs
<1>6. lost' \subseteq Knobs /\ late' \in BOOLEAN
  <2>1. \A f \in object0 : f[1] \in Knobs
    BY DEF Reported, Report
  <2>2. late' = (late \/ (turn = 1 /\ object0 # {}))
    BY DEF rotSend
  <2> QED BY <1>2, <2>1, <2>2 DEF Reported
<1>7. CASE news
  <2>1. object0' = {Report(k)'} /\ Report(k)' = <<k, last'[k], lastBtn'[k]>>
    BY <1>2, <1>4, <1>7 DEF Report
  <2>2. ASSUME ~late' PROVE lost' \subseteq {1}
    <3>1. ~late /\ lost \subseteq {1} /\ (object0 = {} \/ (k = 2 /\ object0 = {Report(1)}))
      BY <1>1, <1>2, <1>5, <2>2 DEF Reported
    <3>2. \A f \in object0 : f[1] = 1
      BY <3>1 DEF Report
    <3> QED BY <1>2, <1>7, <3>1, <3>2
  <2>3. \A i \in Knobs : object0 = {Report(i)} => i \in lost' \cup {k}
    BY <1>2, <1>7 DEF Report
  <2>4. ASSUME NEW j \in Knobs \ lost', last'[j] # -(KnobWord \div 2)
        PROVE  known'[j] = <<last'[j], lastBtn'[j]>> \/ object0' = {Report(j)'}
    <3>1. CASE j = k
      BY <2>1, <3>1
    <3>2. CASE j # k
      <4>1. last'[j] = last[j] /\ lastBtn'[j] = lastBtn[j] /\ j \notin lost
        BY <1>2, <1>4, <1>7, <2>4, <3>2
      <4>2. object0 # {Report(j)}
        <5> SUFFICES ASSUME object0 = {Report(j)} PROVE FALSE
          OBVIOUS
        <5> QED BY <2>3, <2>4, <3>2
      <4> QED BY <1>2, <2>4, <4>1, <4>2 DEF Reported
    <3> QED BY <3>1, <3>2
  <2>5. turn' = 2 => object0' = {Report(1)'}
    BY <1>5, <2>1
  <2> QED BY <1>4, <1>5, <1>6, <2>1, <2>2, <2>4, <2>5 DEF Reported
<1>8. CASE ~news
  <2>1. last' = last /\ lastBtn' = lastBtn /\ object0' = object0 /\ lost' = lost
    BY <1>2, <1>3, <1>8 DEF Reported
  <2>2. turn' = 2 /\ ~late' => object0' = {}
    BY <1>2, <1>5, <2>1
  <2> QED BY <1>2, <1>5, <1>6, <2>1, <2>2 DEF Reported, Report
<1> QED BY <1>7, <1>8

LEMMA TransmitKeeps ==
  ASSUME Reported, Transmit
  PROVE  Reported'
<1>1. PICK j \in Knobs : object0 = {Report(j)}
  BY DEF Transmit, Reported
<1>2. /\ object0' = {}
      /\ known' = [k \in Knobs |-> IF \E f \in object0 : f[1] = k
                                   THEN CHOOSE v \in {<<f[2], f[3]>> : f \in object0} : TRUE
                                   ELSE known[k]]
      /\ UNCHANGED <<last, lastBtn, turn, lost, late>>
  BY DEF Transmit
<1>3. {<<f[2], f[3]>> : f \in object0} = {<<last[j], lastBtn[j]>>}
  BY <1>1 DEF Report
<1>4. known'[j] = <<last[j], lastBtn[j]>>
  <2>1. \E f \in object0 : f[1] = j
    BY <1>1 DEF Report
  <2> QED BY <1>2, <1>3, <2>1
<1>5. \A k \in Knobs \ {j} : known'[k] = known[k] /\ object0 # {Report(k)}
  BY <1>1, <1>2 DEF Report
<1> QED BY <1>2, <1>4, <1>5 DEF Reported, Report

LEMMA ReportedStarts == RotInit => Reported
BY DEF RotInit, Reported, Knobs

LEMMA RotInvHolds == RotSpec => []RotInv
<1>1. RotInit => RotInv
  BY KnobsStart, ReportedStarts DEF RotInv
<1>2. RotInv /\ [RotNext]_rotVars => RotInv'
  <2> SUFFICES ASSUME RotInv, [RotNext]_rotVars PROVE RotInv'
    OBVIOUS
  <2>1. ASSUME UNCHANGED <<angle, mis, todo, lineA, count, qeState, rushed>> PROVE KnobsInv'
    <3>1. ASSUME NEW k \in Knobs PROVE KnobInv(k)'
      BY <2>1, KnobSame DEF RotInv, KnobsInv
    <3> QED BY <2>1, <3>1 DEF RotInv, KnobsInv, KnobTypes, InRange
  <2>2. ASSUME UNCHANGED <<last, lastBtn, turn, object0, known, lost, late>> PROVE Reported'
    BY <2>2 DEF RotInv, Reported, Report
  <2>3. CASE \E k \in Knobs, d \in {-1, 1} : Turn(k, d)
    BY <2>2, <2>3, TurnKeeps DEF RotInv, Turn
  <2>4. CASE \E k \in Knobs : Press(k)
    BY <2>1, <2>2, <2>4 DEF RotInv, Press
  <2>5. CASE \E p \in Ports : Vector(p)
    BY <2>2, <2>5, VectorKeeps DEF RotInv, Vector
  <2>6. CASE ReadA
    BY <2>2, <2>6, ReadAKeeps DEF RotInv, ReadA
  <2>7. CASE ReadB
    BY <2>2, <2>7, ReadBKeeps DEF RotInv, ReadB
  <2>8. CASE rotSend
    BY <2>1, <2>8, ReportSends DEF RotInv, rotSend
  <2>9. CASE Transmit
    BY <2>1, <2>9, TransmitKeeps DEF RotInv, Transmit
  <2>10. CASE UNCHANGED rotVars
    BY <2>1, <2>2, <2>10 DEF RotInv, rotVars
  <2> QED BY <2>3, <2>4, <2>5, <2>6, <2>7, <2>8, <2>9, <2>10 DEF RotNext
<1> QED BY <1>1, <1>2, PTL DEF RotSpec

(* The interrupts count every edge of a knob once and the right way, and   *)
(* what a listener knows is what the thread found last, but for a report   *)
(* that was overwritten, for any number of turns at any moment, any delay  *)
(* of the bus and any range of the counts.                                 *)
THEOREM KnobsFollowedHolds == RotSpec => []KnobsFollowed
<1>1. RotInv => KnobsFollowed
  <2> SUFFICES ASSUME RotInv PROVE KnobsFollowed
    OBVIOUS
  <2>1. CountFollows
    <3> SUFFICES ASSUME NEW k \in Knobs, Settled(k)
                 PROVE  (count[k] - angle[k]) % 2 = 0 /\ (~rushed[k] => count[k] = angle[k])
      BY DEF CountFollows
    <3>1. /\ angle[k] \in Int /\ count[k] \in Int /\ InRange(count[k])
          /\ qeState[k] \in 0..3 /\ Now(k) \in 0..3 /\ Odd(Now(k)) = angle[k] % 2
      BY LinesAreOdd DEF RotInv, KnobsInv, KnobTypes, Now
    <3>2. qeState[k] = Now(k) \/ (qeState[k] = 0 /\ Now(k) = 3)
      BY DEF RotInv, KnobsInv, KnobInv, Noticed, Settled
    <3>3. Odd(qeState[k]) = Odd(Now(k))
      BY <3>2 DEF Odd
    <3>4. count[k] % 2 = angle[k] % 2
      BY <3>1, <3>3 DEF RotInv, KnobsInv, KnobInv, Parity
    <3>5. (count[k] - angle[k]) % 2 = 0
      BY <3>1, <3>4
    <3>6. ASSUME ~rushed[k] PROVE count[k] = angle[k]
      <4>1. Counted(qeState[k], Now(k)) = 0
        BY <3>1, <3>2, CountedIs
      <4>2. angle[k] = Wrap(count[k] + 0)
        BY <3>6, <4>1 DEF RotInv, KnobsInv, KnobInv, Exact
      <4> QED BY <3>1, <4>2, WrapIs
    <3> QED BY <3>5, <3>6
  <2>2. ReportsArrive
    BY DEF RotInv, Reported, ReportsArrive
  <2> QED BY <2>1, <2>2 DEF KnobsFollowed
<1> QED BY <1>1, RotInvHolds, PTL

-----------------------------------------------------------------------------
(* BootSend.  The segments of the code buffer, the last of which may run   *)
(* past its end.                                                           *)

LEMMA Multiples ==
  ASSUME NEW m \in Nat, NEW n \in Nat, m <= n
  PROVE  m * Segment \in Nat /\ m * Segment <= n * Segment
<1>1. (n - m) * Segment >= 0 /\ m * Segment \in Nat
  BY SendAssumption
<1> QED BY <1>1, SendAssumption

LEMMA SegmentsCover ==
  /\ Segments \in Nat \ {0}
  /\ Size <= Segments * Segment
  /\ \A m \in Nat : m < Segments => m * Segment < Size
<1> DEFINE x == Size + Segment - 1
<1>1. x \in Nat /\ x >= Segment /\ Segment \in Nat \ {0} /\ Size \in Nat \ {0}
  BY SendAssumption
<1>2. Segments = x \div Segment
  BY DEF Segments
<1>3. /\ Segments \in Int /\ Segments * Segment \in Int
      /\ Segments * Segment <= x /\ x < Segments * Segment + Segment
  <2> HIDE DEF x
  <2>1. /\ x \div Segment \in Int /\ Segment * (x \div Segment) <= x
        /\ x < Segment * (x \div Segment) + Segment
    BY <1>1
  <2>2. Segment * Segments = Segments * Segment
    BY <1>1, <1>2, <2>1
  <2> QED BY <1>1, <1>2, <2>1, <2>2
<1>4. Segments > 0
  <2> SUFFICES ASSUME Segments <= 0 PROVE FALSE
    BY <1>3
  <2>1. (-Segments) * Segment >= 0
    BY <1>1, <1>3
  <2>2. Segments * Segment <= 0
    BY <1>1, <1>3, <2>1
  <2> QED BY <1>1, <1>3, <2>2
<1>5. ASSUME NEW m \in Nat, m < Segments PROVE m * Segment < Size
  <2>1. (m + 1) * Segment <= Segments * Segment
    BY <1>3, <1>5, Multiples
  <2>2. (m + 1) * Segment = m * Segment + Segment /\ m * Segment \in Nat
    BY <1>1
  <2> QED BY <1>1, <1>3, <2>1, <2>2
<1> QED BY <1>1, <1>3, <1>4, <1>5

(* What main sends, by its place in the script.                            *)
Ops == {"type", "unlock", "prepare", "erase", "ramAddress", "write", "to", "from",
        "copy", "address", "run"}
Requests == {Plain(op) : op \in Ops} \cup {Data(n) : n \in Nat \ {0}}

(* A concatenation.                                                        *)
Joins(x, s, t) ==
  /\ x \in Seq(Requests) /\ Len(x) = Len(s) + Len(t)
  /\ \A i \in 1..Len(s) : x[i] = s[i]
  /\ \A i \in 1..Len(t) : x[Len(s) + i] = t[i]

LEMMA Joined ==
  ASSUME NEW s \in Seq(Requests), NEW t \in Seq(Requests)
  PROVE  Joins(s \o t, s, t)
<1>1. /\ s \o t \in Seq(Requests) /\ Len(s \o t) = Len(s) + Len(t)
      /\ \A i \in 1..(Len(s) + Len(t)) :
            (s \o t)[i] = IF i <= Len(s) THEN s[i] ELSE t[i - Len(s)]
  BY ConcatProperties
<1>2. PICK x : x = s \o t
  OBVIOUS
<1>3. /\ x \in Seq(Requests) /\ Len(x) = Len(s) + Len(t)
      /\ \A i \in 1..(Len(s) + Len(t)) :
            x[i] = IF i <= Len(s) THEN s[i] ELSE t[i - Len(s)]
  BY <1>1, <1>2, Zenon
<1>4. Joins(x, s, t)
  <2>1. PICK m \in Nat, n \in Nat : m = Len(s) /\ n = Len(t)
    OBVIOUS
  <2>2. /\ Len(x) = m + n
        /\ \A i \in 1..(m + n) : x[i] = IF i <= m THEN s[i] ELSE t[i - m]
    BY <1>3, <2>1, Zenon
  <2>3. (\A i \in 1..m : x[i] = s[i]) /\ (\A i \in 1..n : x[m + i] = t[i])
    BY <2>2
  <2> QED BY <1>3, <2>1, <2>3, Zenon DEF Joins
<1> QED BY <1>2, <1>4, Zenon

LEMMA ShortScript ==
  ASSUME config = 0
  PROVE  /\ Script \in Seq(Requests) /\ Len(Script) = 6
         /\ Script[1] = Plain("type") /\ Script[2] = Plain("unlock")
         /\ Script[3] = Plain("prepare") /\ Script[4] = Plain("erase")
         /\ Script[5] = Plain("address") /\ Script[6] = Plain("run")
<1> DEFINE a == <<Plain("type"), Plain("unlock"), Plain("prepare"), Plain("erase")>>
<1> DEFINE b == <<Plain("address"), Plain("run")>>
<1>1. \A op \in Ops : Plain(op) \in Requests
  BY DEF Requests
<1>2. a \in Seq(Requests) /\ b \in Seq(Requests) /\ Len(a) = 4 /\ Len(b) = 2
  BY <1>1 DEF Ops
<1>3. Script = (a \o <<>>) \o b /\ a \o <<>> = a
  BY <1>2, ConcatEmptySeq DEF Script
<1>4. Script \in Seq(Requests) /\ Len(Script) = 6
      /\ \A i \in 1..6 : Script[i] = IF i <= 4 THEN a[i] ELSE b[i - 4]
  BY <1>2, <1>3, ConcatProperties
<1> QED BY <1>4

(* The pieces of the long script, in their places.                         *)
Placed(all, a, u, v, w, b, g) ==
  /\ all \in Seq(Requests) /\ Len(all) = g + 12
  /\ all[1] = a[1] /\ all[2] = a[2] /\ all[3] = a[3] /\ all[4] = a[4]
  /\ all[5] = u[1] /\ all[6] = u[2]
  /\ \A n \in 1..g : all[n + 6] = v[n]
  /\ all[g + 7] = w[1] /\ all[g + 8] = w[2] /\ all[g + 9] = w[3]
  /\ all[g + 10] = w[4] /\ all[g + 11] = b[1] /\ all[g + 12] = b[2]

LEMMA Places ==
  ASSUME NEW a \in Seq(Requests), NEW u \in Seq(Requests), NEW v \in Seq(Requests),
         NEW w \in Seq(Requests), NEW b \in Seq(Requests), NEW g \in Nat,
         Len(a) = 4, Len(u) = 2, Len(v) = g, Len(w) = 4, Len(b) = 2
  PROVE  Placed((a \o ((u \o v) \o w)) \o b, a, u, v, w, b, g)
<1>1. PICK uv \in Seq(Requests) :
        /\ uv = u \o v /\ Len(uv) = 2 + g
        /\ \A i \in 1..2 : uv[i] = u[i]
        /\ \A i \in 1..g : uv[2 + i] = v[i]
  <2>1. PICK uv : uv = u \o v
    OBVIOUS
  <2>2. Joins(uv, u, v)
    BY <2>1, Joined, Zenon
  <2>3. Len(u) = 2 /\ Len(v) = g
    OBVIOUS
  <2>4. /\ uv \in Seq(Requests) /\ Len(uv) = 2 + g
        /\ \A i \in 1..2 : uv[i] = u[i]
        /\ \A i \in 1..g : uv[2 + i] = v[i]
    BY <2>2, <2>3 DEF Joins
  <2> QED BY <2>1, <2>4, Zenon
<1>2. PICK h \in Nat : h = 2 + g
  OBVIOUS
<1>3. PICK uvw \in Seq(Requests) :
        /\ uvw = uv \o w /\ Len(uvw) = h + 4
        /\ \A i \in 1..h : uvw[i] = uv[i]
        /\ \A i \in 1..4 : uvw[h + i] = w[i]
  <2>1. PICK uvw : uvw = uv \o w
    OBVIOUS
  <2>2. Joins(uvw, uv, w)
    BY <1>1, <1>2, <2>1, Joined, Zenon
  <2>3. Len(uv) = h /\ Len(w) = 4
    BY <1>1, <1>2
  <2>4. /\ uvw \in Seq(Requests) /\ Len(uvw) = h + 4
        /\ \A i \in 1..h : uvw[i] = uv[i]
        /\ \A i \in 1..4 : uvw[h + i] = w[i]
    BY <2>2, <2>3 DEF Joins
  <2> QED BY <2>1, <2>4, Zenon
<1>4. PICK m \in Nat : m = h + 4
  OBVIOUS
<1>5. PICK auvw \in Seq(Requests) :
        /\ auvw = a \o uvw /\ Len(auvw) = 4 + m
        /\ \A i \in 1..4 : auvw[i] = a[i]
        /\ \A i \in 1..m : auvw[4 + i] = uvw[i]
  <2>1. PICK auvw : auvw = a \o uvw
    OBVIOUS
  <2>2. Joins(auvw, a, uvw)
    BY <1>3, <1>4, <2>1, Joined, Zenon
  <2>3. Len(a) = 4 /\ Len(uvw) = m
    BY <1>3, <1>4
  <2>4. /\ auvw \in Seq(Requests) /\ Len(auvw) = 4 + m
        /\ \A i \in 1..4 : auvw[i] = a[i]
        /\ \A i \in 1..m : auvw[4 + i] = uvw[i]
    BY <2>2, <2>3 DEF Joins
  <2> QED BY <2>1, <2>4, Zenon
<1>6. PICK k \in Nat : k = 4 + m
  OBVIOUS
<1>7. PICK all \in Seq(Requests) :
        /\ all = auvw \o b /\ Len(all) = k + 2
        /\ \A i \in 1..k : all[i] = auvw[i]
        /\ \A i \in 1..2 : all[k + i] = b[i]
  <2>1. PICK all : all = auvw \o b
    OBVIOUS
  <2>2. Joins(all, auvw, b)
    BY <1>5, <1>6, <2>1, Joined, Zenon
  <2>3. Len(auvw) = k /\ Len(b) = 2
    BY <1>5, <1>6
  <2>4. /\ all \in Seq(Requests) /\ Len(all) = k + 2
        /\ \A i \in 1..k : all[i] = auvw[i]
        /\ \A i \in 1..2 : all[k + i] = b[i]
    BY <2>2, <2>3 DEF Joins
  <2> QED BY <2>1, <2>4, Zenon
<1>8. all = (a \o ((u \o v) \o w)) \o b
  BY <1>1, <1>3, <1>5, <1>7, Zenon
<1>9. ASSUME NEW i \in 1..m PROVE all[4 + i] = uvw[i]
  <2>1. 4 + i \in 1..k
    BY <1>6
  <2> QED BY <1>5, <1>7, <2>1, Zenon
<1>10. all[1] = a[1] /\ all[2] = a[2] /\ all[3] = a[3] /\ all[4] = a[4]
  BY <1>5, <1>6, <1>7
<1>11. all[5] = u[1] /\ all[6] = u[2]
  <2>1. uvw[1] = u[1] /\ uvw[2] = u[2]
    BY <1>1, <1>2, <1>3
  <2>2. all[4 + 1] = uvw[1] /\ all[4 + 2] = uvw[2]
    BY <1>2, <1>4, <1>9
  <2> QED BY <2>1, <2>2
<1>12. ASSUME NEW n \in 1..g PROVE all[n + 6] = v[n]
  <2>1. 2 + n \in 1..h /\ 2 + n \in 1..m /\ 4 + (2 + n) = n + 6
    BY <1>2, <1>4
  <2>2. uvw[2 + n] = uv[2 + n] /\ uv[2 + n] = v[n] /\ all[4 + (2 + n)] = uvw[2 + n]
    BY <1>1, <1>3, <1>9, <2>1, Zenon
  <2> QED BY <2>1, <2>2
<1>13. ASSUME NEW i \in 1..4 PROVE all[g + (6 + i)] = w[i]
  <2>1. h + i \in 1..m /\ 4 + (h + i) = g + (6 + i)
    BY <1>2, <1>4
  <2>2. uvw[h + i] = w[i] /\ all[4 + (h + i)] = uvw[h + i]
    BY <1>3, <1>9, <2>1, Zenon
  <2> QED BY <2>1, <2>2
<1>14. /\ all[g + 7] = w[1] /\ all[g + 8] = w[2] /\ all[g + 9] = w[3]
       /\ all[g + 10] = w[4]
  <2>1. /\ all[g + (6 + 1)] = w[1] /\ all[g + (6 + 2)] = w[2]
        /\ all[g + (6 + 3)] = w[3] /\ all[g + (6 + 4)] = w[4]
    BY <1>13
  <2> QED BY <2>1
<1>15. all[g + 11] = b[1] /\ all[g + 12] = b[2] /\ Len(all) = g + 12
  <2>1. k + 1 = g + 11 /\ k + 2 = g + 12
    BY <1>2, <1>4, <1>6
  <2>2. all[k + 1] = b[1] /\ all[k + 2] = b[2]
    <3>1. 1 \in 1..2 /\ 2 \in 1..2
      OBVIOUS
    <3> QED BY <1>7, <3>1, Zenon
  <2> QED BY <1>7, <2>1, <2>2
<1>16. Placed(all, a, u, v, w, b, g)
  BY <1>7, <1>10, <1>11, <1>12, <1>14, <1>15, Zenon DEF Placed
<1> QED BY <1>8, <1>16, Zenon

LEMMA LongScript ==
  ASSUME config = 1
  PROVE  /\ Script \in Seq(Requests) /\ Len(Script) = Segments + 12
         /\ Script[1] = Plain("type") /\ Script[2] = Plain("unlock")
         /\ Script[3] = Plain("prepare") /\ Script[4] = Plain("erase")
         /\ Script[5] = Plain("ramAddress") /\ Script[6] = Plain("write")
         /\ \A n \in 1..Segments : Script[n + 6] = Data(n)
         /\ Script[Segments + 7] = Plain("prepare") /\ Script[Segments + 8] = Plain("to")
         /\ Script[Segments + 9] = Plain("from") /\ Script[Segments + 10] = Plain("copy")
         /\ Script[Segments + 11] = Plain("address") /\ Script[Segments + 12] = Plain("run")
<1>1. \A op \in Ops : Plain(op) \in Requests
  BY DEF Requests
<1>2. PICK a : a = <<Plain("type"), Plain("unlock"), Plain("prepare"), Plain("erase")>>
  OBVIOUS
<1>3. /\ a \in Seq(Requests) /\ Len(a) = 4
    /\ a[1] = Plain("type") /\ a[2] = Plain("unlock") /\ a[3] = Plain("prepare") /\ a[4] = Plain("erase")
  BY <1>1, <1>2 DEF Ops
<1>4. PICK u : u = <<Plain("ramAddress"), Plain("write")>>
  OBVIOUS
<1>5. /\ u \in Seq(Requests) /\ Len(u) = 2
    /\ u[1] = Plain("ramAddress") /\ u[2] = Plain("write")
  BY <1>1, <1>4 DEF Ops
<1>6. Segments \in Nat
  BY SegmentsCover
<1>7. PICK v : v = [n \in 1..Segments |-> Data(n)]
  OBVIOUS
<1>8. /\ v \in Seq(Requests) /\ Len(v) = Segments
      /\ \A n \in 1..Segments : v[n] = Data(n)
  <2>1. \A n \in 1..Segments : Data(n) \in Requests
    BY <1>6 DEF Requests
  <2> QED BY <1>6, <1>7, <2>1
<1>9. PICK w : w = <<Plain("prepare"), Plain("to"), Plain("from"), Plain("copy")>>
  OBVIOUS
<1>10. /\ w \in Seq(Requests) /\ Len(w) = 4
     /\ w[1] = Plain("prepare") /\ w[2] = Plain("to") /\ w[3] = Plain("from") /\ w[4] = Plain("copy")
  BY <1>1, <1>9 DEF Ops
<1>11. PICK b : b = <<Plain("address"), Plain("run")>>
  OBVIOUS
<1>12. /\ b \in Seq(Requests) /\ Len(b) = 2
     /\ b[1] = Plain("address") /\ b[2] = Plain("run")
  BY <1>1, <1>11 DEF Ops
<1>13. Script = (a \o ((u \o v) \o w)) \o b
  <2>1. config # 0
    OBVIOUS
  <2> QED BY <1>2, <1>4, <1>7, <1>9, <1>11, <2>1, Zenon DEF Script, Upload
<1>14. PICK all : all = Script
  OBVIOUS
<1>15. Placed(all, a, u, v, w, b, Segments)
  BY <1>3, <1>5, <1>6, <1>8, <1>10, <1>12, <1>13, <1>14, Places, Zenon
<1>16. /\ all \in Seq(Requests) /\ Len(all) = Segments + 12
       /\ all[1] = a[1] /\ all[2] = a[2] /\ all[3] = a[3] /\ all[4] = a[4]
       /\ all[5] = u[1] /\ all[6] = u[2]
       /\ \A n \in 1..Segments : all[n + 6] = v[n]
       /\ all[Segments + 7] = w[1] /\ all[Segments + 8] = w[2]
       /\ all[Segments + 9] = w[3] /\ all[Segments + 10] = w[4]
       /\ all[Segments + 11] = b[1] /\ all[Segments + 12] = b[2]
  BY <1>15, Zenon DEF Placed
<1> QED BY <1>3, <1>5, <1>8, <1>10, <1>12, <1>14, <1>16, Zenon
(* The last request, and no other, starts the target.                      *)
LEMMA RunIsLast ==
  ASSUME config \in {0, 1}
  PROVE  /\ Script \in Seq(Requests) /\ Len(Script) \in Nat \ {0}
         /\ \A i \in 1..Len(Script) : Script[i].op = "run" => i = Len(Script)
<1>1. CASE config = 0
  <2>1. PICK s : s = Script
    OBVIOUS
  <2>2. /\ s \in Seq(Requests) /\ Len(s) = 6
        /\ s[1] = Plain("type") /\ s[2] = Plain("unlock")
        /\ s[3] = Plain("prepare") /\ s[4] = Plain("erase")
        /\ s[5] = Plain("address") /\ s[6] = Plain("run")
    BY <1>1, <2>1, ShortScript, Zenon
  <2>3. \A i \in 1..6 : s[i].op = "run" => i = 6
    BY <2>2 DEF Plain
  <2>4. 6 \in Nat \ {0}
    OBVIOUS
  <2> QED BY <2>1, <2>2, <2>3, <2>4, Zenon
<1>2. CASE config = 1
  <2>1. PICK s, g : s = Script /\ g = Segments
    OBVIOUS
  <2>2. g \in Nat
    BY <2>1, SegmentsCover
  <2>3. /\ s \in Seq(Requests) /\ Len(s) = g + 12
        /\ s[1] = Plain("type") /\ s[2] = Plain("unlock")
        /\ s[3] = Plain("prepare") /\ s[4] = Plain("erase")
        /\ s[5] = Plain("ramAddress") /\ s[6] = Plain("write")
        /\ \A n \in 1..g : s[n + 6] = Data(n)
        /\ s[g + 7] = Plain("prepare") /\ s[g + 8] = Plain("to")
        /\ s[g + 9] = Plain("from") /\ s[g + 10] = Plain("copy")
        /\ s[g + 11] = Plain("address") /\ s[g + 12] = Plain("run")
    BY <1>2, <2>1, LongScript, Zenon
  <2>4. ASSUME NEW i \in 1..(g + 12), s[i].op = "run" PROVE i = g + 12
    <3>1. \/ i \in {1, 2, 3, 4, 5, 6}
          \/ i - 6 \in 1..g /\ i = (i - 6) + 6
          \/ i \in {g + 7, g + 8, g + 9, g + 10, g + 11, g + 12}
      BY <2>2
    <3>2. CASE i - 6 \in 1..g /\ i = (i - 6) + 6
      <4>1. PICK n \in 1..g : i = n + 6
        BY <3>2
      <4>2. s[i] = Data(n)
        BY <2>3, <4>1
      <4> QED BY <2>4, <4>2 DEF Data
    <3>3. CASE i \in {1, 2, 3, 4, 5, 6}
      BY <2>3, <2>4, <3>3 DEF Plain
    <3>4. CASE i \in {g + 7, g + 8, g + 9, g + 10, g + 11, g + 12}
      BY <2>3, <2>4, <3>4 DEF Plain
    <3> QED BY <3>1, <3>2, <3>3, <3>4
  <2>5. g + 12 \in Nat \ {0}
    BY <2>2
  <2> QED BY <2>1, <2>3, <2>4, <2>5, Zenon
<1> QED BY <1>1, <1>2

(* The bytes of the first n segments that are inside the buffer.           *)
Filled(n) == IF n * Segment > Size THEN Size ELSE n * Segment
Stored(n) == [i \in 1..Filled(n) |-> Byte(i - 1)]

LEMMA ByteType == \A i \in Nat : Byte(i) \in Int
BY SendAssumption DEF Byte, ConfigByte

LEMMA FilledType == ASSUME NEW n \in Nat PROVE Filled(n) \in Nat /\ Filled(n) <= Size
<1>1. n * Segment \in Nat /\ Size \in Nat
  BY SendAssumption
<1> QED BY <1>1 DEF Filled

LEMMA StoredType == ASSUME NEW n \in Nat PROVE Stored(n) \in Seq(Int) /\ Len(Stored(n)) = Filled(n)
<1>1. PICK f \in Nat : f = Filled(n)
  BY FilledType
<1>2. PICK s : s = [i \in 1..f |-> Byte(i - 1)]
  OBVIOUS
<1>3. \A i \in 1..f : Byte(i - 1) \in Int
  BY ByteType
<1>4. s \in Seq(Int) /\ Len(s) = f
  BY <1>2, <1>3
<1> QED BY <1>1, <1>2, <1>4, Zenon DEF Stored

LEMMA NothingStored == Stored(0) = <<>>
<1>1. Filled(0) = 0
  BY SendAssumption DEF Filled
<1>2. Stored(0) \in Seq(Int) /\ Len(Stored(0)) = 0
  BY <1>1, StoredType
<1> QED BY <1>2, EmptySeq

LEMMA AllStored == Stored(Segments) = Image
<1>1. Filled(Segments) = Size
  <2>1. PICK p : p = Segments * Segment
    OBVIOUS
  <2>2. p \in Int /\ Size \in Nat /\ Size <= p
    BY <2>1, SegmentsCover, SendAssumption
  <2>3. (IF p > Size THEN Size ELSE p) = Size
    BY <2>2
  <2> QED BY <2>1, <2>3 DEF Filled
<1> QED BY <1>1, Zenon DEF Stored, Image

(* What the target keeps of a segment.                                     *)
Kept(ram, bytes) ==
  SubSeq(ram \o bytes, 1, IF Len(ram) + Segment > Size THEN Size ELSE Len(ram) + Segment)

LEMMA KeptType ==
  ASSUME NEW ram \in Seq(Int), NEW bytes \in Seq(Int), Len(bytes) = Segment
  PROVE  /\ Kept(ram, bytes) \in Seq(Int)
         /\ Len(Kept(ram, bytes)) = IF Len(ram) + Segment > Size THEN Size ELSE Len(ram) + Segment
         /\ \A i \in 1..Len(Kept(ram, bytes)) :
               Kept(ram, bytes)[i] = IF i <= Len(ram) THEN ram[i] ELSE bytes[i - Len(ram)]
<1>1. PICK l \in Nat : l = Len(ram)
  OBVIOUS
<1>2. PICK m : m = IF l + Segment > Size THEN Size ELSE l + Segment
  OBVIOUS
<1>3. m \in Nat /\ m <= l + Segment /\ Segment \in Nat
  BY <1>2, SendAssumption
<1>4. PICK x : x = ram \o bytes
  OBVIOUS
<1>5. /\ x \in Seq(Int) /\ Len(x) = l + Segment
      /\ \A i \in 1..(l + Segment) : x[i] = IF i <= l THEN ram[i] ELSE bytes[i - l]
  <2>1. /\ ram \o bytes \in Seq(Int) /\ Len(ram \o bytes) = Len(ram) + Len(bytes)
        /\ \A i \in 1..(Len(ram) + Len(bytes)) :
             (ram \o bytes)[i] = IF i <= Len(ram) THEN ram[i] ELSE bytes[i - Len(ram)]
    BY ConcatProperties
  <2> QED BY <1>1, <1>4, <2>1, Zenon
<1>6. PICK z : z = SubSeq(x, 1, m)
  OBVIOUS
<1>7. z \in Seq(Int) /\ Len(z) = m /\ \A i \in 1..m : z[i] = x[i]
  <2>1. \A i \in 1..m : x[i] \in Int
    BY <1>3, <1>5
  <2> QED BY <1>3, <1>5, <1>6, <2>1
<1>8. \A i \in 1..m : z[i] = IF i <= l THEN ram[i] ELSE bytes[i - l]
  <2>1. \A i \in 1..m : i \in 1..(l + Segment)
    BY <1>3
  <2> QED BY <1>5, <1>7, <2>1, Zenon
<1>9. z = Kept(ram, bytes)
  BY <1>1, <1>2, <1>4, <1>6, Zenon DEF Kept
<1> QED BY <1>1, <1>2, <1>7, <1>8, <1>9, Zenon

LEMMA BytesType ==
  ASSUME NEW n \in Nat \ {0}
  PROVE  /\ Data(n).bytes \in Seq(Int) /\ Len(Data(n).bytes) = Segment
         /\ \A k \in 1..Segment : Data(n).bytes[k] = Byte((n - 1) * Segment + k - 1)
<1>1. PICK z \in Nat : z = (n - 1) * Segment
  <2>1. (n - 1) * Segment \in Nat
    BY SendAssumption
  <2> QED BY <2>1
<1>2. \A k \in 1..Segment : Byte(z + k - 1) \in Int
  BY ByteType, SendAssumption
<1>3. PICK b : b = [k \in 1..Segment |-> Byte(z + k - 1)]
  OBVIOUS
<1>4. b \in Seq(Int) /\ Len(b) = Segment /\ \A k \in 1..Segment : b[k] = Byte(z + k - 1)
  BY <1>2, <1>3, SendAssumption
<1>5. Data(n).bytes = b
  BY <1>1, <1>3 DEF Data
<1> QED BY <1>1, <1>4, <1>5, Zenon

(* Segment n, arriving in its turn, extends what is stored by itself.      *)
LEMMA SegmentStored ==
  ASSUME NEW n \in Nat \ {0}, (n - 1) * Segment < Size
  PROVE  Kept(Stored(n - 1), Data(n).bytes) = Stored(n)
<1>1. PICK z \in Nat : z = (n - 1) * Segment
  <2>1. (n - 1) * Segment \in Nat
    BY SendAssumption
  <2> QED BY <2>1
<1>2. n * Segment = z + Segment /\ Size \in Nat /\ Segment \in Nat \ {0}
  BY <1>1, SendAssumption
<1>3. PICK s, b, kept, t : s = Stored(n - 1) /\ b = Data(n).bytes /\ kept = Kept(s, b) /\ t = Stored(n)
  OBVIOUS
<1>4. Filled(n - 1) = z
  BY <1>1, <1>2 DEF Filled
<1>5. s \in Seq(Int) /\ Len(s) = z /\ \A i \in 1..z : s[i] = Byte(i - 1)
  <2>1. n - 1 \in Nat
    OBVIOUS
  <2> QED BY <1>3, <1>4, <2>1, StoredType, Zenon DEF Stored
<1>6. b \in Seq(Int) /\ Len(b) = Segment /\ \A k \in 1..Segment : b[k] = Byte(z + k - 1)
  BY <1>1, <1>3, BytesType, Zenon
<1>7. PICK m : m = IF z + Segment > Size THEN Size ELSE z + Segment
  OBVIOUS
<1>8. /\ kept \in Seq(Int) /\ Len(kept) = m
      /\ \A i \in 1..m : kept[i] = IF i <= z THEN s[i] ELSE b[i - z]
  <2>1. /\ kept \in Seq(Int)
        /\ Len(kept) = IF Len(s) + Segment > Size THEN Size ELSE Len(s) + Segment
        /\ \A i \in 1..Len(kept) : kept[i] = IF i <= Len(s) THEN s[i] ELSE b[i - Len(s)]
    <3>1. s \in Seq(Int) /\ b \in Seq(Int) /\ Len(b) = Segment /\ kept = Kept(s, b)
      BY <1>3, <1>5, <1>6
    <3> QED BY <3>1, KeptType, Zenon
  <2> QED BY <1>5, <1>7, <2>1, Zenon
<1>9. Filled(n) = m /\ m \in Nat
  BY <1>2, <1>7 DEF Filled
<1>10. t \in Seq(Int) /\ Len(t) = m /\ \A i \in 1..m : t[i] = Byte(i - 1)
  <2>1. n \in Nat
    OBVIOUS
  <2> QED BY <1>3, <1>9, <2>1, StoredType, Zenon DEF Stored
<1>11. ASSUME NEW i \in 1..m PROVE kept[i] = t[i]
  <2>1. CASE i <= z
    <3>1. i \in 1..z
      BY <1>9, <2>1
    <3> QED BY <1>5, <1>8, <1>10, <2>1, <3>1, Zenon
  <2>2. CASE ~(i <= z)
    <3>1. i - z \in 1..Segment /\ z + (i - z) - 1 = i - 1
      BY <1>2, <1>7, <1>9, <2>2
    <3>2. b[i - z] = Byte(i - 1)
      BY <1>6, <3>1
    <3> QED BY <1>8, <1>10, <2>2, <3>2, Zenon
  <2> QED BY <2>1, <2>2, Zenon
<1>12. kept = t
  <2>1. Len(kept) = Len(t) /\ \A i \in 1..Len(kept) : kept[i] = t[i]
    BY <1>8, <1>10, <1>11, Zenon
  <2>2. kept \in Seq(Int) /\ t \in Seq(Int)
    BY <1>8, <1>10
  <2> QED BY <2>1, <2>2, SeqEqual, Zenon
<1> QED BY <1>3, <1>12, Zenon
(* What each request does to a target that does not reject it.             *)
TargetTypes ==
  target \in [unlocked : BOOLEAN, prepared : BOOLEAN, toggle : {0, 1},
              ram : Seq(Int), flash : Seq(Int), running : BOOLEAN]

Served(r) == target' = IF Able(r) THEN Done(r) ELSE target

LEMMA PlainServed ==
  ASSUME TargetTypes, NEW op \in Ops, Served(Plain(op))
  PROVE  /\ TargetTypes'
         /\ target.unlocked => target'.unlocked
         /\ op # "run" => target'.running = target.running
         /\ op \notin {"write"} => target'.ram = target.ram /\ target'.toggle = target.toggle
         /\ op \notin {"erase", "copy"} =>
              target'.flash = target.flash /\ (target.prepared => target'.prepared)
         /\ refuses = {} =>
              /\ op = "unlock" => target'.unlocked
              /\ target.unlocked =>
                   /\ op = "prepare" => target'.prepared
                   /\ op = "write" => target'.ram = <<>> /\ target'.toggle = 0
                   /\ target.prepared =>
                        /\ op = "erase" => target'.flash = <<>>
                        /\ op = "copy" => target'.flash = target.ram
<1>1. <<>> \in Seq(Int)
  OBVIOUS
<1>2. Plain(op).op = op
  BY DEF Plain
<1> QED BY <1>1, <1>2 DEF Served, Able, Done, TargetTypes, Ops

LEMMA DataServed ==
  ASSUME TargetTypes, NEW n \in Nat \ {0}, Served(Data(n))
  PROVE  /\ TargetTypes'
         /\ target'.unlocked = target.unlocked /\ target'.prepared = target.prepared
         /\ target'.flash = target.flash /\ target'.running = target.running
         /\ refuses = {} /\ target.unlocked /\ target.toggle = (n - 1) % 2 =>
              /\ target'.ram = Kept(target.ram, Data(n).bytes)
              /\ target'.toggle = n % 2
<1>1. PICK r : r = Data(n)
  OBVIOUS
<1>2. r.op = "data" /\ r.toggle = (n - 1) % 2
  BY <1>1 DEF Data
<1>3. PICK kept : kept = Kept(target.ram, r.bytes)
  OBVIOUS
<1>4. kept \in Seq(Int)
  <2>1. target.ram \in Seq(Int)
    BY DEF TargetTypes
  <2> QED BY <1>1, <1>3, <2>1, BytesType, KeptType, Zenon
<1>5. Done(r) = [target EXCEPT !.ram = kept, !.toggle = 1 - @]
  <2>1. Done(r) = [target EXCEPT !.ram = Kept(@, r.bytes), !.toggle = 1 - @]
    BY <1>2 DEF Done, Kept
  <2> QED BY <1>3, <2>1
<1>6. n % 2 = 1 - ((n - 1) % 2)
  OBVIOUS
<1>7. Able(r) <=> /\ "data" \notin refuses /\ target.unlocked
                  /\ target.toggle = (n - 1) % 2
  BY <1>2 DEF Able
<1>8. target' = IF Able(r) THEN [target EXCEPT !.ram = kept, !.toggle = 1 - @] ELSE target
  BY <1>1, <1>5 DEF Served
<1>9. CASE Able(r)
  <2>1. target' = [target EXCEPT !.ram = kept, !.toggle = 1 - @]
    BY <1>8, <1>9
  <2>2. TargetTypes'
    <3>1. PICK t \in {0, 1} : t = 1 - target.toggle
      BY DEF TargetTypes
    <3>2. target' = [target EXCEPT !.ram = kept, !.toggle = t]
      BY <2>1, <3>1
    <3> QED BY <1>4, <3>2 DEF TargetTypes
  <2>3. /\ target'.unlocked = target.unlocked /\ target'.prepared = target.prepared
        /\ target'.flash = target.flash /\ target'.running = target.running
        /\ target'.ram = kept /\ target'.toggle = 1 - target.toggle
    BY <2>1 DEF TargetTypes
  <2> QED BY <1>1, <1>3, <1>6, <1>7, <1>9, <2>2, <2>3
<1>10. CASE ~Able(r)
  BY <1>7, <1>8, <1>10 DEF TargetTypes
<1> QED BY <1>9, <1>10
(* What the first k requests have made of a target that rejects none.      *)
Reached(k) ==
  /\ k >= 2 => target.unlocked
  /\ k = 3 => target.prepared
  /\ config = 0 /\ k >= 4 => target.flash = <<>>
  /\ config = 1 =>
       /\ \A n \in 0..Segments : k = n + 6 => target.toggle = n % 2 /\ target.ram = Stored(n)
       /\ k \in (Segments + 7)..(Segments + 9) => target.prepared /\ target.ram = Image
       /\ k >= Segments + 10 => target.flash = Image

LEMMA ReachedShort ==
  ASSUME TargetTypes, config = 0, refuses = {}, config' = config,
         NEW k \in 0..5, Reached(k), Served(Script[k + 1])
  PROVE  Reached(k + 1)'
<1>1. /\ k >= 2 => target.unlocked
      /\ k = 3 => target.prepared
      /\ k >= 4 => target.flash = <<>>
  BY DEF Reached
<1>2. /\ k + 1 >= 2 => target'.unlocked
      /\ k + 1 = 3 => target'.prepared
      /\ k + 1 >= 4 => target'.flash = <<>>
  <2>1. PICK op \in Ops : /\ Script[k + 1] = Plain(op)
                          /\ k = 0 => op = "type"
                          /\ k = 1 => op = "unlock"
                          /\ k = 2 => op = "prepare"
                          /\ k = 3 => op = "erase"
                          /\ k = 4 => op = "address"
                          /\ k = 5 => op = "run"
    <3>1. PICK s : s = Script
      OBVIOUS
    <3>2. /\ s[1] = Plain("type") /\ s[2] = Plain("unlock")
          /\ s[3] = Plain("prepare") /\ s[4] = Plain("erase")
          /\ s[5] = Plain("address") /\ s[6] = Plain("run")
      BY <3>1, ShortScript, Zenon
    <3>3. \E op \in Ops : /\ s[k + 1] = Plain(op)
                          /\ k = 0 => op = "type"
                          /\ k = 1 => op = "unlock"
                          /\ k = 2 => op = "prepare"
                          /\ k = 3 => op = "erase"
                          /\ k = 4 => op = "address"
                          /\ k = 5 => op = "run"
      BY <3>2 DEF Ops
    <3> QED BY <3>1, <3>3, Zenon
  <2>2. Served(Plain(op))
    BY <2>1, Zenon
  <2>3. /\ target.unlocked => target'.unlocked
        /\ op \notin {"erase", "copy"} =>
             target'.flash = target.flash /\ (target.prepared => target'.prepared)
        /\ op = "unlock" => target'.unlocked
        /\ target.unlocked =>
             /\ op = "prepare" => target'.prepared
             /\ target.prepared /\ op = "erase" => target'.flash = <<>>
    BY <2>2, PlainServed, Zenon
  <2> QED BY <1>1, <2>1, <2>3
<1> QED BY <1>2 DEF Reached

LEMMA ReachedLong ==
  ASSUME TargetTypes, config = 1, refuses = {}, config' = config,
         NEW k \in 0..(Segments + 11), Reached(k), Served(Script[k + 1])
  PROVE  Reached(k + 1)'
<1>1. PICK g, s : g = Segments /\ s = Script
  OBVIOUS
<1>2. g \in Nat \ {0} /\ k \in 0..(g + 11) /\ Served(s[k + 1])
  BY <1>1, SegmentsCover
<1>3. /\ s[1] = Plain("type") /\ s[2] = Plain("unlock")
      /\ s[3] = Plain("prepare") /\ s[4] = Plain("erase")
      /\ s[5] = Plain("ramAddress") /\ s[6] = Plain("write")
      /\ \A n \in 1..g : s[n + 6] = Data(n)
      /\ s[g + 7] = Plain("prepare") /\ s[g + 8] = Plain("to")
      /\ s[g + 9] = Plain("from") /\ s[g + 10] = Plain("copy")
      /\ s[g + 11] = Plain("address") /\ s[g + 12] = Plain("run")
  BY <1>1, LongScript, Zenon
<1>4. /\ k >= 2 => target.unlocked
      /\ k = 3 => target.prepared
      /\ \A n \in 0..g : k = n + 6 => target.toggle = n % 2 /\ target.ram = Stored(n)
      /\ k \in (g + 7)..(g + 9) => target.prepared /\ target.ram = Image
      /\ k >= g + 10 => target.flash = Image
  BY <1>1, Zenon DEF Reached
<1>5. SUFFICES
      /\ k + 1 >= 2 => target'.unlocked
      /\ k + 1 = 3 => target'.prepared
      /\ \A n \in 0..g : k + 1 = n + 6 => target'.toggle = n % 2 /\ target'.ram = Stored(n)
      /\ k + 1 \in (g + 7)..(g + 9) => target'.prepared /\ target'.ram = Image
      /\ k + 1 >= g + 10 => target'.flash = Image
  <2>1. config' # 0
    OBVIOUS
  <2> QED BY <1>1, <2>1, Zenon DEF Reached
<1>6. k = g + 6 => target.ram = Image
  <2>1. ASSUME k = g + 6 PROVE target.ram = Stored(g)
    <3>1. g \in 0..g
      BY <1>2
    <3> QED BY <1>4, <2>1, <3>1, Zenon
  <2> QED BY <1>1, <2>1, AllStored, Zenon
<1>7. CASE k \in 6..(g + 5)
  <2>1. PICK n \in 1..g : k = n + 5
    BY <1>2, <1>7
  <2>2. n \in Nat \ {0} /\ n - 1 \in 0..g /\ k = (n - 1) + 6 /\ k + 1 = n + 6
    BY <1>2, <2>1
  <2>3. target.toggle = (n - 1) % 2 /\ target.ram = Stored(n - 1)
    BY <1>4, <2>2, Zenon
  <2>4. Served(Data(n))
    <3>1. s[n + 6] = Data(n)
      BY <1>3, <2>1, Zenon
    <3> QED BY <1>2, <2>2, <3>1, Zenon
  <2>5. target.unlocked
    BY <1>4, <2>1, <2>2
  <2>6. /\ target'.unlocked = target.unlocked
        /\ target'.ram = Kept(target.ram, Data(n).bytes) /\ target'.toggle = n % 2
    BY <2>2, <2>3, <2>4, <2>5, DataServed, Zenon
  <2>7. Kept(Stored(n - 1), Data(n).bytes) = Stored(n)
    <3>1. n - 1 \in Nat /\ n - 1 < Segments
      BY <1>1, <1>2, <2>1
    <3>2. (n - 1) * Segment < Size
      BY <3>1, SegmentsCover, Zenon
    <3> QED BY <2>2, <3>2, SegmentStored, Zenon
  <2>8. target'.ram = Stored(n)
    BY <2>3, <2>6, <2>7, Zenon
  <2>9. \A i \in 0..g : k + 1 = i + 6 => i = n
    BY <1>2, <2>1
  <2>10. ~(k + 1 = 3) /\ ~(k + 1 \in (g + 7)..(g + 9)) /\ ~(k + 1 >= g + 10)
    BY <1>2, <2>1
  <2> QED BY <2>5, <2>6, <2>8, <2>9, <2>10, Zenon
<1>8. CASE ~(k \in 6..(g + 5))
  <2>1. PICK op \in Ops : /\ s[k + 1] = Plain(op)
                          /\ k = 0 => op = "type"
                          /\ k = 1 => op = "unlock"
                          /\ k = 2 => op = "prepare"
                          /\ k = 3 => op = "erase"
                          /\ k = 4 => op = "ramAddress"
                          /\ k = 5 => op = "write"
                          /\ k = g + 6 => op = "prepare"
                          /\ k = g + 7 => op = "to"
                          /\ k = g + 8 => op = "from"
                          /\ k = g + 9 => op = "copy"
                          /\ k = g + 10 => op = "address"
                          /\ k = g + 11 => op = "run"
    <3>1. \/ k \in {0, 1, 2, 3, 4, 5}
          \/ k \in {g + 6, g + 7, g + 8, g + 9, g + 10, g + 11}
      BY <1>2, <1>8
    <3>2. CASE k \in {0, 1, 2, 3, 4, 5}
      BY <1>2, <1>3, <3>2 DEF Ops
    <3>3. CASE k \in {g + 6, g + 7, g + 8, g + 9, g + 10, g + 11}
      BY <1>2, <1>3, <3>3 DEF Ops
    <3> QED BY <3>1, <3>2, <3>3, Zenon
  <2>2. Served(Plain(op))
    BY <1>2, <2>1, Zenon
  <2>3. /\ target.unlocked => target'.unlocked
        /\ op \notin {"write"} => target'.ram = target.ram /\ target'.toggle = target.toggle
        /\ op \notin {"erase", "copy"} =>
             target'.flash = target.flash /\ (target.prepared => target'.prepared)
        /\ op = "unlock" => target'.unlocked
        /\ target.unlocked =>
             /\ op = "prepare" => target'.prepared
             /\ op = "write" => target'.ram = <<>> /\ target'.toggle = 0
             /\ target.prepared /\ op = "copy" => target'.flash = target.ram
    BY <2>2, PlainServed, Zenon
  <2>4. (k + 1 >= 2 => target'.unlocked) /\ (k + 1 = 3 => target'.prepared)
    BY <1>2, <1>4, <2>1, <2>3
  <2>5. ASSUME NEW n \in 0..g, k + 1 = n + 6
        PROVE  target'.toggle = n % 2 /\ target'.ram = Stored(n)
    <3>1. n = 0 /\ k = 5
      BY <1>2, <1>8, <2>5
    <3>2. target'.ram = <<>> /\ target'.toggle = 0
      BY <1>2, <1>4, <2>1, <2>3, <3>1
    <3>3. 0 % 2 = 0
      OBVIOUS
    <3> QED BY <3>1, <3>2, <3>3, NothingStored, Zenon
  <2>6. k + 1 \in (g + 7)..(g + 9) => target'.prepared /\ target'.ram = Image
    <3>1. ASSUME k + 1 \in (g + 7)..(g + 9) PROVE target.unlocked /\ target.ram = Image
      BY <1>2, <1>4, <1>6, <3>1
    <3>2. ASSUME k + 1 \in (g + 7)..(g + 9)
          PROVE  op \in {"prepare", "to", "from"} /\ (op = "prepare" \/ target.prepared)
      BY <1>2, <1>4, <2>1, <3>2
    <3> QED BY <2>3, <3>1, <3>2
  <2>7. k + 1 >= g + 10 => target'.flash = Image
    <3>1. CASE k = g + 9
      <4>1. target.unlocked /\ target.prepared /\ target.ram = Image
        BY <1>2, <1>4, <3>1
      <4> QED BY <2>1, <2>3, <3>1, <4>1
    <3>2. CASE k >= g + 10
      <4>1. op \in {"address", "run"}
        BY <1>2, <2>1, <3>2
      <4> QED BY <1>4, <2>3, <3>2, <4>1
    <3>3. k + 1 >= g + 10 => k = g + 9 \/ k >= g + 10
      BY <1>2
    <3> QED BY <3>1, <3>2, <3>3, Zenon
  <2> QED BY <2>4, <2>5, <2>6, <2>7, Zenon
<1> QED BY <1>7, <1>8, Zenon
(* How far the dialogue has come: a request is on its way, or its answer,  *)
(* or neither, once one is lost.                                           *)
Dialogue ==
  /\ config \in {0, 1} /\ waiting \in BOOLEAN /\ ready \in BOOLEAN /\ error \in BOOLEAN
  /\ led \in {"off", "steady", "2", "3", "4", "5"}
  /\ reply \in {"none", "LPC1", "ok", "abort"} /\ answer \subseteq {"LPC1", "ok", "abort"}
  /\ step \in 1..(Len(Script) + 1)
  /\ obeyed \in Seq(Requests) /\ Len(obeyed) <= Len(Script)
  /\ \A i \in 1..Len(obeyed) : obeyed[i] = Script[i]
  /\ waiting => step <= Len(Script) /\ Len(obeyed) \in {step - 1, step}
  /\ ~waiting => request8 = {} /\ answer = {} /\ Len(obeyed) = step - 1
  /\ request8 # {} => /\ waiting /\ ~ready /\ answer = {} /\ request8 = {Script[step]}
                      /\ Len(obeyed) = step - 1
  /\ answer # {} => waiting /\ ~ready /\ Len(obeyed) = step
  /\ waiting /\ ready => Len(obeyed) = step

InStep ==
  /\ TargetTypes
  /\ target.running => Len(obeyed) = Len(Script)
  /\ refuses = {} => Reached(Len(obeyed))

(* One more request is the next one of the script.                         *)
LEMMA Obeying ==
  ASSUME Dialogue, Obey, config' = config
  PROVE  /\ step \in 1..Len(Script) /\ Len(obeyed) = step - 1
         /\ obeyed' \in Seq(Requests) /\ Len(obeyed') = step
         /\ \A i \in 1..Len(obeyed') : obeyed'[i] = Script[i]
         /\ Served(Script[step]) /\ request8' = {} /\ waiting /\ ~ready
         /\ answer' \subseteq {"LPC1", "ok", "abort"}
<1>1. PICK s, n, o : s = Script /\ n = step /\ o = obeyed
  OBVIOUS
<1>2. Script \in Seq(Requests) /\ Len(Script) \in Nat \ {0}
  BY RunIsLast DEF Dialogue
<1>3. /\ waiting /\ ~ready /\ n \in 1..Len(s) /\ Len(o) = n - 1 /\ o \in Seq(Requests)
      /\ request8 = {s[n]} /\ \A i \in 1..Len(o) : o[i] = s[i]
  <2>1. request8 # {}
    BY DEF Obey
  <2> QED BY <1>1, <1>2, <2>1 DEF Dialogue
<1>4. /\ request8' = {} /\ obeyed' = Append(obeyed, s[n])
      /\ target' = IF Able(s[n]) THEN Done(s[n]) ELSE target
      /\ answer' \subseteq {"LPC1", "ok", "abort"}
  BY <1>3 DEF Obey
<1>5. s[n] \in Requests
  BY <1>1, <1>2, <1>3
<1>6. PICK p : p = Append(o, s[n])
  OBVIOUS
<1>7. p \in Seq(Requests) /\ Len(p) = n /\ \A i \in 1..n : p[i] = s[i]
  BY <1>3, <1>5, <1>6
<1>8. obeyed' = p
  BY <1>1, <1>4, <1>6
<1> QED BY <1>1, <1>3, <1>4, <1>7, <1>8, Zenon DEF Served

LEMMA DialogueKept == Dialogue /\ [SendNext]_sendVars => Dialogue'
<1> SUFFICES ASSUME Dialogue, [SendNext]_sendVars PROVE Dialogue'
  OBVIOUS
<1>1. config' = config
  BY DEF SendNext, Send, Isr, Proceed, Timeout, Finish, Obey, Lose, sendVars
<1>2. Script' = Script
  BY <1>1 DEF Script
<1>3. Script \in Seq(Requests) /\ Len(Script) \in Nat \ {0}
  BY RunIsLast DEF Dialogue
<1>4. CASE Send
  BY <1>1, <1>2, <1>3, <1>4 DEF Dialogue, Send, Unready
<1>5. CASE Isr
  <2>1. ready' \in BOOLEAN /\ error' \in BOOLEAN /\ (ready' = ready \/ ready' = TRUE)
    BY <1>5, Zenon DEF Dialogue, Isr
  <2>2. /\ reply' \in {"none", "LPC1", "ok", "abort"} /\ answer' \subseteq answer
        /\ ready' => answer' = {} /\ (ready \/ answer # {})
    <3>1. waiting /\ (ready => answer = {}) /\ answer \subseteq {"LPC1", "ok", "abort"}
          /\ reply \in {"none", "LPC1", "ok", "abort"}
      BY <1>5, Zenon DEF Dialogue, Isr
    <3>2. CASE answer # {} /\ reply' \in answer /\ answer' = {}
      BY <3>1, <3>2
    <3>3. CASE UNCHANGED <<ready, answer, reply>>
      BY <3>1, <3>3
    <3> QED BY <1>5, <3>2, <3>3 DEF Isr
  <2>3. UNCHANGED <<step, waiting, led, request8, obeyed>> /\ waiting
    BY <1>5 DEF Isr
  <2>4. request8 # {} => ~ready'
    BY <2>2 DEF Dialogue
  <2> QED BY <1>1, <1>2, <1>3, <2>1, <2>2, <2>3, <2>4 DEF Dialogue
<1>6. CASE Proceed
  <2>1. /\ led' \in {"off", "steady", "2", "3", "4", "5"}
        /\ waiting /\ ready /\ ~waiting' /\ step' = step + 1
        /\ UNCHANGED <<ready, error, request8, answer, reply, obeyed>>
    BY <1>6 DEF Proceed
  <2>2. request8 = {} /\ answer = {} /\ Len(obeyed) = step /\ step \in 1..Len(Script)
    BY <1>3, <2>1 DEF Dialogue
  <2>3. step' \in 1..(Len(Script) + 1) /\ Len(obeyed) = step' - 1
    BY <1>3, <2>1, <2>2
  <2>4. /\ config \in {0, 1} /\ ready \in BOOLEAN /\ error \in BOOLEAN
        /\ reply \in {"none", "LPC1", "ok", "abort"}
        /\ obeyed \in Seq(Requests) /\ Len(obeyed) <= Len(Script)
        /\ \A i \in 1..Len(obeyed) : obeyed[i] = Script[i]
    BY DEF Dialogue
  <2>5. waiting' = FALSE /\ waiting' \in BOOLEAN
    BY <1>6 DEF Proceed
  <2>6. /\ request8' = {} /\ answer' = {} /\ obeyed' = obeyed /\ ready' = ready
        /\ error' = error /\ reply' = reply
    BY <2>1, <2>2
  <2> QED BY <1>1, <1>2, <2>1, <2>3, <2>4, <2>5, <2>6 DEF Dialogue
<1>7. CASE Timeout
  BY <1>1, <1>2, <1>3, <1>7 DEF Dialogue, Timeout
<1>8. CASE Finish
  BY <1>1, <1>2, <1>3, <1>8 DEF Dialogue, Finish
<1>9. CASE Lose
  BY <1>1, <1>2, <1>3, <1>9 DEF Dialogue, Lose
<1>10. CASE Obey
  <2>1. /\ step \in 1..Len(Script) /\ Len(obeyed) = step - 1
        /\ obeyed' \in Seq(Requests) /\ Len(obeyed') = step
        /\ \A i \in 1..Len(obeyed') : obeyed'[i] = Script[i]
        /\ request8' = {} /\ waiting /\ ~ready
        /\ answer' \subseteq {"LPC1", "ok", "abort"}
    BY <1>1, <1>10, Obeying
  <2>2. UNCHANGED <<config, step, waiting, ready, error, led, reply>>
    BY <1>10 DEF Obey
  <2> QED BY <1>2, <1>3, <2>1, <2>2 DEF Dialogue
<1>11. CASE UNCHANGED sendVars
  BY <1>2, <1>11 DEF Dialogue, sendVars
<1> QED BY <1>4, <1>5, <1>6, <1>7, <1>8, <1>9, <1>10, <1>11 DEF SendNext

LEMMA InStepKept == Dialogue /\ InStep /\ [SendNext]_sendVars => InStep'
<1> SUFFICES ASSUME Dialogue, InStep, [SendNext]_sendVars PROVE InStep'
  OBVIOUS
<1>1. config' = config /\ refuses' = refuses
  BY DEF SendNext, Send, Isr, Proceed, Timeout, Finish, Obey, Lose, sendVars
<1>2. Script' = Script
  BY <1>1 DEF Script
<1>3. CASE Obey
  <2>1. PICK k : k = step - 1
    OBVIOUS
  <2>2. /\ step \in 1..Len(Script) /\ Len(obeyed) = k /\ Len(obeyed') = k + 1
        /\ Served(Script[k + 1]) /\ step = k + 1
    <3>1. /\ step \in 1..Len(Script) /\ Len(obeyed) = step - 1 /\ Len(obeyed') = step
          /\ Served(Script[step])
      BY <1>1, <1>3, Obeying
    <3>2. step = k + 1
      BY <2>1, <3>1
    <3> QED BY <2>1, <3>1, <3>2, Zenon
  <2>3. config \in {0, 1} /\ Script \in Seq(Requests) /\ Len(Script) \in Nat \ {0}
    BY RunIsLast DEF Dialogue
  <2>4. ~target.running
    BY <2>2, <2>3 DEF InStep
  <2>5. /\ TargetTypes'
        /\ target'.running => Script[k + 1].op = "run"
    <3>1. Script[k + 1] \in Requests
      BY <2>2, <2>3
    <3>2. CASE \E op \in Ops : Script[k + 1] = Plain(op)
      <4>1. PICK op \in Ops : Script[k + 1] = Plain(op)
        BY <3>2
      <4>2. TargetTypes /\ Served(Plain(op))
        BY <2>2, <4>1, Zenon DEF InStep
      <4>3. TargetTypes' /\ (op # "run" => target'.running = target.running)
        BY <4>2, PlainServed, Zenon
      <4> QED BY <2>4, <4>1, <4>3 DEF Plain
    <3>3. CASE \E n \in Nat \ {0} : Script[k + 1] = Data(n)
      <4>1. PICK n \in Nat \ {0} : Script[k + 1] = Data(n)
        BY <3>3
      <4>2. TargetTypes /\ Served(Data(n))
        BY <2>2, <4>1, Zenon DEF InStep
      <4>3. TargetTypes' /\ target'.running = target.running
        BY <4>2, DataServed, Zenon
      <4> QED BY <2>4, <4>3
    <3> QED BY <3>1, <3>2, <3>3 DEF Requests
  <2>6. target'.running => k + 1 = Len(Script)
    BY <2>2, <2>3, <2>5, RunIsLast
  <2>7. ASSUME refuses = {} PROVE Reached(k + 1)'
    <3>1. Reached(k) /\ TargetTypes
      BY <2>2, <2>7, Zenon DEF InStep
    <3>2. CASE config = 0
      <4>1. k \in 0..5
        <5>1. Len(Script) = 6
          BY <3>2, ShortScript, Zenon
        <5> QED BY <2>1, <2>2, <5>1
      <4> QED BY <1>1, <2>2, <2>7, <3>1, <3>2, <4>1, ReachedShort, Zenon
    <3>3. CASE config = 1
      <4>1. k \in 0..(Segments + 11)
        <5>1. Len(Script) = Segments + 12 /\ Segments \in Nat
          BY <3>3, LongScript, SegmentsCover, Zenon
        <5> QED BY <2>1, <2>2, <5>1
      <4> QED BY <1>1, <2>2, <2>7, <3>1, <3>3, <4>1, ReachedLong, Zenon
    <3> QED BY <2>3, <3>2, <3>3
  <2>8. (refuses = {} => Reached(Len(obeyed)))'
    <3>1. PICK l : l = Len(obeyed')
      OBVIOUS
    <3>2. refuses = {} => Reached(l)'
      BY <2>2, <2>7, <3>1, Zenon
    <3> QED BY <1>1, <3>1, <3>2 DEF Reached
  <2> QED BY <1>2, <2>2, <2>5, <2>6, <2>8 DEF InStep
<1>4. CASE UNCHANGED <<config, refuses, target, obeyed>>
  BY <1>2, <1>4 DEF InStep, TargetTypes, Reached
<1> QED BY <1>3, <1>4 DEF SendNext, Send, Isr, Proceed, Timeout, Finish, Lose, sendVars

LEMMA InStepHolds == SendSpec => [](Dialogue /\ InStep)
<1>1. SendInit => Dialogue /\ InStep
  <2> SUFFICES ASSUME SendInit PROVE Dialogue /\ InStep
    OBVIOUS
  <2>1. Script \in Seq(Requests) /\ Len(Script) \in Nat \ {0}
    BY RunIsLast DEF SendInit
  <2>2. Dialogue
    <3>1. /\ obeyed \in Seq(Requests) /\ Len(obeyed) = 0 /\ Len(obeyed) <= Len(Script)
          /\ step \in 1..(Len(Script) + 1) /\ Len(obeyed) = step - 1
          /\ \A i \in 1..Len(obeyed) : obeyed[i] = Script[i]
      BY <2>1 DEF SendInit
    <3>2. /\ config \in {0, 1} /\ ~waiting /\ waiting \in BOOLEAN /\ ready \in BOOLEAN
          /\ error \in BOOLEAN /\ led = "off" /\ reply = "none"
          /\ answer = {} /\ request8 = {}
      BY DEF SendInit
    <3> QED BY <3>1, <3>2 DEF Dialogue
  <2>3. TargetTypes /\ ~target.running
    BY DEF SendInit, TargetInit, TargetTypes
  <2>4. Len(obeyed) = 0 /\ Reached(0)
    BY SegmentsCover DEF SendInit, Reached
  <2> QED BY <2>2, <2>3, <2>4 DEF InStep
<1> QED BY <1>1, DialogueKept, InStepKept, PTL DEF SendSpec

(* Whatever is lost, the target gets the requests of the script in their   *)
(* order and is only started after all of them; one that rejects none has  *)
(* the whole code in its flash by then, whatever its size and however the  *)
(* last segment is filled.                                                 *)
THEOREM InstallsHolds == SendSpec => []Installs
<1>1. Dialogue /\ InStep => Installs
  <2> SUFFICES ASSUME Dialogue, InStep PROVE Installs
    OBVIOUS
  <2>1. config \in {0, 1} /\ Script \in Seq(Requests) /\ Len(Script) \in Nat \ {0}
    BY RunIsLast DEF Dialogue
  <2>2. obeyed = SubSeq(Script, 1, Len(obeyed))
    <3>1. PICK s, o, n : s = Script /\ o = obeyed /\ n = Len(obeyed)
      OBVIOUS
    <3>2. /\ s \in Seq(Requests) /\ o \in Seq(Requests) /\ n \in Nat /\ n <= Len(s)
          /\ Len(o) = n /\ \A i \in 1..n : o[i] = s[i]
      BY <2>1, <3>1 DEF Dialogue
    <3>3. PICK p : p = SubSeq(s, 1, n)
      OBVIOUS
    <3>4. p \in Seq(Requests) /\ Len(p) = n /\ \A i \in 1..n : p[i] = s[i]
      BY <3>2, <3>3
    <3>5. Len(o) = Len(p) /\ \A i \in 1..Len(o) : o[i] = p[i]
      BY <3>2, <3>4
    <3>6. o = p
      BY <3>2, <3>4, <3>5, SeqEqual, Zenon
    <3> QED BY <3>1, <3>3, <3>6, Zenon
  <2>3. ASSUME target.running, refuses = {}
        PROVE  target.flash = IF config = 0 THEN <<>> ELSE Image
    <3>1. PICK k : k = Len(Script)
      OBVIOUS
    <3>2. Reached(k)
      BY <2>3, <3>1, Zenon DEF InStep
    <3>3. CASE config = 0
      <4>1. k = 6
        BY <3>1, <3>3, ShortScript
      <4> QED BY <3>2, <3>3, <4>1 DEF Reached
    <3>4. CASE config = 1
      <4>1. k = Segments + 12 /\ Segments \in Nat
        BY <3>1, <3>4, LongScript, SegmentsCover
      <4> QED BY <3>2, <3>4, <4>1 DEF Reached
    <3> QED BY <2>1, <3>3, <3>4
  <2> QED BY <2>2, <2>3 DEF Installs, InStep
<1> QED BY <1>1, InStepHolds, PTL

-----------------------------------------------------------------------------
(* The types.  What a message, a frame or a count can be is bounded by how *)
(* much there has been on the bus.                                         *)

SatBounds == /\ SatTypeOK
             /\ y <= rxMsg
             /\ received => y < rxMsg

LEMMA SatBoundsKept == SatInv /\ SatBounds /\ [SatNext]_satVars => SatBounds'
<1> SUFFICES ASSUME SatInv, SatBounds, [SatNext]_satVars PROVE SatBounds'
  OBVIOUS
<1> USE SatAssumption
<1>1. /\ bus \in Seq([id : MessageIds, mask : Masks]) /\ Len(bus) \in Nat /\ Len(bus) <= MaxMessages
      /\ filter \in Masks /\ msg_obj \in 0..MaxMessages /\ rxMsg \in 0..MaxMessages
      /\ y \in 0..MaxMessages /\ received \in BOOLEAN
      /\ satPc \in {"wait", "switch", "data", "release"}
      /\ screen \in [Lines6 -> [id : 0..MaxMessages, data : 0..MaxMessages,
                                length : 0..MaxMessages]]
      /\ shown \in Seq(1..MaxMessages)
      /\ y <= rxMsg /\ (received => y < rxMsg)
  BY DEF SatBounds, SatTypeOK
<1>2. rxMsg <= msg_obj /\ msg_obj <= Len(bus) /\ (satPc # "wait" => received)
  BY DEF SatInv, Handed
<1>3. CASE CAN_rxCallback
  <2> DEFINE n == Len(bus) + 1
  <2>1. /\ \E i \in MessageIds, m \in Masks : bus' = Append(bus, [id |-> i, mask |-> m])
        /\ n <= MaxMessages
        /\ \/ msg_obj' = n /\ rxMsg' = Copied(n) /\ received' = TRUE
           \/ UNCHANGED <<msg_obj, rxMsg, received>>
        /\ UNCHANGED <<filter, satPc, y, screen, shown>>
    BY <1>3 DEF CAN_rxCallback
  <2>2. bus' \in Seq([id : MessageIds, mask : Masks]) /\ Len(bus') = n
    BY <1>1, <2>1
  <2>3. msg_obj' \in 0..MaxMessages /\ rxMsg' \in 0..MaxMessages /\ received' \in BOOLEAN
    <3>1. n \in 0..MaxMessages
      BY <1>1, <2>1
    <3>2. msg_obj' \in {n, msg_obj} /\ rxMsg' \in {n, rxMsg}
      BY <2>1 DEF Copied
    <3>3. received' \in BOOLEAN
      BY <1>1, <2>1
    <3> QED BY <1>1, <3>1, <3>2, <3>3
  <2>4. y <= rxMsg' /\ (received' => y < rxMsg')
    BY <1>1, <1>2, <2>1 DEF Copied
  <2>5. SatTypeOK'
    BY <1>1, <2>1, <2>2, <2>3 DEF SatTypeOK
  <2> QED BY <2>1, <2>4, <2>5 DEF SatBounds
<1>4. CASE Wait
  BY <1>1, <1>4 DEF Wait, SatBounds, SatTypeOK
<1>5. CASE SetFilter
  <2>1. rxMsg \in 1..Len(bus)
    BY <1>1, <1>2, <1>5 DEF SetFilter
  <2>2. bus[rxMsg].mask \in Masks
    <3>1. bus[rxMsg] \in [id : MessageIds, mask : Masks]
      BY <1>1, <2>1, ElementOfSeq
    <3> QED BY <3>1
  <2> QED BY <1>1, <1>5, <2>2 DEF SetFilter, SatBounds, SatTypeOK
<1>6. CASE ShowText
  BY <1>1, <1>6 DEF ShowText, SatBounds, SatTypeOK
<1>7. CASE ShowId
  <2>1. screen' \in [Lines6 -> [id : 0..MaxMessages, data : 0..MaxMessages,
                                length : 0..MaxMessages]]
    BY <1>1, <1>7 DEF ShowId
  <2> QED BY <1>1, <1>7, <2>1 DEF ShowId, SatBounds, SatTypeOK
<1>8. CASE ShowData
  <2>1. screen' \in [Lines6 -> [id : 0..MaxMessages, data : 0..MaxMessages,
                                length : 0..MaxMessages]]
    BY <1>1, <1>8 DEF ShowData
  <2> QED BY <1>1, <1>8, <2>1 DEF ShowData, SatBounds, SatTypeOK
<1>9. CASE Release
  <2>1. rxMsg \in 1..MaxMessages /\ y < rxMsg
    BY <1>1, <1>2, <1>9 DEF Release
  <2>2. shown' \in Seq(1..MaxMessages)
    BY <1>1, <1>9, <2>1 DEF Release
  <2>3. y' \in 0..MaxMessages /\ y' <= rxMsg /\ ~received'
    BY <1>1, <1>9, <2>1 DEF Release
  <2>4. SatTypeOK'
    BY <1>1, <1>9, <2>2, <2>3 DEF Release, SatTypeOK
  <2> QED BY <1>9, <2>3, <2>4 DEF Release, SatBounds
<1>10. CASE UNCHANGED satVars
  BY <1>1, <1>10 DEF satVars, SatBounds, SatTypeOK
<1> QED BY <1>3, <1>4, <1>5, <1>6, <1>7, <1>8, <1>9, <1>10 DEF SatNext

LEMMA SatTypeHolds == SatSpec => []SatTypeOK
<1>1. SatInit => SatBounds
  <2> SUFFICES ASSUME SatInit PROVE SatBounds
    OBVIOUS
  <2>1. bus \in Seq([id : MessageIds, mask : Masks]) /\ Len(bus) = 0 /\ shown \in Seq(1..MaxMessages)
    BY DEF SatInit
  <2>2. screen \in [Lines6 -> [id : 0..MaxMessages, data : 0..MaxMessages,
                               length : 0..MaxMessages]]
    <3>1. 0 \in 0..MaxMessages
      BY SatAssumption
    <3>2. PICK blank : blank = [id |-> 0, data |-> 0, length |-> 0]
      OBVIOUS
    <3>3. blank \in [id : 0..MaxMessages, data : 0..MaxMessages, length : 0..MaxMessages]
      BY <3>1, <3>2
    <3>4. screen = [line \in Lines6 |-> blank]
      BY <3>2, Zenon DEF SatInit
    <3>5. PICK Screens : Screens = [id : 0..MaxMessages, data : 0..MaxMessages,
                                    length : 0..MaxMessages]
      OBVIOUS
    <3>6. blank \in Screens
      BY <3>3, <3>5, Zenon
    <3>7. screen \in [Lines6 -> Screens]
      BY <3>4, <3>6
    <3> QED BY <3>5, <3>7, Zenon
  <2>3. /\ filter \in Masks /\ msg_obj = 0 /\ rxMsg = 0 /\ y = 0 /\ ~received
        /\ satPc = "wait" /\ 0 \in 0..MaxMessages
    BY SatAssumption DEF SatInit
  <2>4. received \in BOOLEAN
    BY DEF SatInit
  <2> QED BY <2>1, <2>2, <2>3, <2>4, SatAssumption DEF SatBounds, SatTypeOK
<1>2. SatBounds => SatTypeOK
  BY DEF SatBounds
<1> QED BY <1>1, <1>2, SatInvHolds, SatBoundsKept, PTL DEF SatSpec

(* A command or a step is a frame sent.                                    *)
StepBounds == told + issued <= sent /\ sent <= MaxFrames

LEMMA StepBoundsKept == StepInv /\ StepBounds /\ [StepNext]_stepVars => StepBounds'
<1> SUFFICES ASSUME StepInv, StepBounds, [StepNext]_stepVars PROVE StepBounds'
  OBVIOUS
<1>1. told \in Nat /\ issued \in Nat /\ sent \in Nat /\ MaxFrames \in Nat
  BY StepAssumption DEF StepInv, StepTypes
<1>2. CASE can_tx
  <2>1. PICK f :
          /\ \E d \in sample : f = IF NewCommand(d)
                                  THEN CommandFrame([Low EXCEPT !.dir = d], issued + 1)
                                  ELSE StepFrame(d)
          /\ sent < MaxFrames /\ sent' = sent + 1
          /\ issued' = issued + f.dlc /\ told' = told + 1 - f.dlc
    BY <1>2 DEF can_tx
  <2>2. f.dlc \in {0, 1}
    BY <2>1 DEF CommandFrame, StepFrame
  <2> QED BY <1>1, <2>1, <2>2 DEF StepBounds
<1>3. CASE stepcan
  <2>1. sent < MaxFrames /\ sent' = sent + 1 /\ told' = told + cmd'.step
        /\ issued' = issued /\ cmd'.step = 1 - cmd.step
    BY <1>3 DEF stepcan
  <2>2. cmd.step \in {0, 1}
    BY DEF StepInv, StepTypes, Pinned
  <2> QED BY <1>1, <2>1, <2>2 DEF StepBounds
<1>4. ASSUME UNCHANGED <<sent, told, issued>> PROVE StepBounds'
  BY <1>4 DEF StepBounds
<1> QED BY <1>2, <1>3, <1>4
        DEF StepNext, Sample, Deliver, Pins, Pulse, Restart, stepVars

LEMMA StepTypeHolds == StepSpec => []StepTypeOK
<1>1. StepInit => StepBounds
  BY StepAssumption DEF StepInit, StepBounds
<1>2. StepInv /\ StepBounds => StepTypeOK
  <2> SUFFICES ASSUME StepInv, StepBounds PROVE StepTypeOK
    OBVIOUS
  <2>1. /\ sent \in Nat /\ edges \in Nat /\ told \in Nat /\ issued \in Nat /\ heard \in Nat
        /\ astray = 0 /\ MaxFrames \in Nat
    BY StepAssumption DEF StepInv, StepTypes
  <2>2. edges <= told /\ heard <= issued /\ told + issued <= sent /\ sent <= MaxFrames
    BY <2>1, PendingIs DEF StepInv, Ordered, StepBounds
  <2>3. {sent, edges, told, issued, heard, astray} \subseteq 0..MaxFrames
    BY <2>1, <2>2
  <2>4. ASSUME NEW f \in Frames
        PROVE  f \in [dlc : {0}, meant : Directions, after : 0..MaxFrames]
                 \cup [dlc : {1}, meant : Directions, after : 0..MaxFrames,
                       pins : [dir : Directions, step : {0, 1}]]
    <3>1. f \in Frame /\ f.after <= issued /\ f.after \in Nat
      BY DEF StepInv, StepTypes, Ordered, Frames, Frame
    <3>2. f.after \in 0..MaxFrames
      BY <2>1, <2>2, <3>1
    <3> QED BY <3>1, <3>2 DEF Frame, Pinned
  <2>5. sample \cup lastCmd \subseteq Directions /\ sender \in {"netdemo", "stepcan"}
        /\ {cmd, pins} \subseteq [dir : Directions, step : {0, 1}]
    BY DEF StepInv, StepTypes, Pinned
  <2> QED BY <2>3, <2>4, <2>5 DEF StepTypeOK, Frames
<1> QED BY <1>1, <1>2, StepInvHolds, StepBoundsKept, PTL DEF StepSpec

(* The counts stay in their range, and so does what is reported of them.   *)
Range16 == -(KnobWord \div 2)..(KnobWord \div 2 - 1)

RotBounds ==
  /\ button \in [Knobs -> {0, 1}] /\ lastBtn \in [Knobs -> {0, 1}]
  /\ last \in [Knobs -> Range16] /\ object0 \subseteq Knobs \X Range16 \X {0, 1}
  /\ turns \in 0..MaxTurns /\ mis \subseteq Ports \X Knobs /\ turn \in Knobs

LEMMA Quarter == ASSUME NEW n \in Range16 PROVE n \div 4 \in Range16
<1>1. PICK h \in Nat : h = Half /\ h >= 4
  BY HalfIs
<1>2. -h <= n /\ n < h
  BY <1>1 DEF Range16, Half
<1>3. n \div 4 \in Int /\ -h <= n \div 4 /\ n \div 4 < h
  BY <1>1, <1>2, Z3 DEF Range16
<1> QED BY <1>1, <1>3 DEF Range16, Half

LEMMA RotBoundsKept == RotInv /\ RotBounds /\ [RotNext]_rotVars => RotBounds'
<1> SUFFICES ASSUME RotInv, RotBounds, [RotNext]_rotVars PROVE RotBounds'
  OBVIOUS
<1>1. /\ button \in [Knobs -> {0, 1}] /\ lastBtn \in [Knobs -> {0, 1}]
      /\ last \in [Knobs -> Range16] /\ object0 \subseteq Knobs \X Range16 \X {0, 1}
      /\ turns \in 0..MaxTurns /\ mis \subseteq Ports \X Knobs /\ turn \in Knobs
      /\ MaxTurns \in Nat
  BY KnobAssumption DEF RotBounds
<1>2. count \in [Knobs -> Range16]
  <2>1. \A k \in Knobs : count[k] \in Range16
    BY HalfIs DEF RotInv, KnobsInv, KnobTypes, InRange, Range16, Half
  <2> QED BY <2>1 DEF RotInv, KnobsInv, KnobTypes
<1>3. ASSUME NEW k \in Knobs, NEW d \in {-1, 1}, Turn(k, d) PROVE RotBounds'
  <2>1. PICK port : port = CHOOSE p \in Ports : Bit(p, Lines(angle[k])) # Bit(p, Lines(angle'[k]))
    OBVIOUS
  <2>2. \E p \in Ports : Bit(p, Lines(angle[k])) # Bit(p, Lines(angle'[k]))
    <3>1. /\ angle \in [Knobs -> Int] /\ angle' = [angle EXCEPT ![k] = Wrap(@ + d)]
          /\ InRange(angle[k])
      BY <1>3 DEF Turn, RotInv, KnobsInv, KnobTypes
    <3>2. PICK a \in Int : a = angle[k] /\ InRange(a)
      BY <3>1
    <3>3. PICK b \in Int : b = Wrap(a + d) /\ b % 4 = (a + d) % 4
      BY <3>2, WrapIs DEF InRange
    <3>4. \E p \in Ports : Bit(p, Lines(a)) # Bit(p, Lines(b))
      BY <3>3, EdgeIs DEF Ports
    <3>5. angle'[k] = b
      BY <3>1, <3>2, <3>3
    <3> QED BY <3>2, <3>4, <3>5
  <2>3. port \in Ports
    BY <2>1, <2>2, Zenon
  <2>4. turns' \in 0..MaxTurns /\ mis' = mis \cup {<<port, k>>}
        /\ UNCHANGED <<button, last, lastBtn, turn, object0>>
    BY <1>1, <1>3, <2>1 DEF Turn
  <2> QED BY <1>1, <2>3, <2>4 DEF RotBounds
<1>4. ASSUME NEW k \in Knobs, Press(k) PROVE RotBounds'
  BY <1>1, <1>4 DEF Press, RotBounds
<1>5. ASSUME NEW p \in Ports, Vector(p) PROVE RotBounds'
  BY <1>1, <1>5 DEF Vector, RotBounds
<1>6. CASE rotSend
  <2>1. PICK next \in Range16 : next = count[turn] \div 4
    BY <1>1, <1>2, Quarter
  <2>2. /\ object0' \in {object0, {<<turn, next, button[turn]>>}}
        /\ last' = [last EXCEPT ![turn] = next]
        /\ lastBtn' = [lastBtn EXCEPT ![turn] = button[turn]]
        /\ turn' = 3 - turn /\ UNCHANGED <<button, turns, mis>>
    BY <1>6, <2>1 DEF rotSend
  <2>3. turn' \in Knobs /\ <<turn, next, button[turn]>> \in Knobs \X Range16 \X {0, 1}
    BY <1>1, <2>1, <2>2 DEF Knobs
  <2>4. last' \in [Knobs -> Range16] /\ lastBtn' \in [Knobs -> {0, 1}]
    BY <1>1, <2>2
  <2> QED BY <1>1, <2>2, <2>3, <2>4 DEF RotBounds
<1>7. ASSUME UNCHANGED <<button, turns, mis, last, lastBtn, turn>>, object0' \subseteq object0
      PROVE  RotBounds'
  BY <1>1, <1>7 DEF RotBounds
<1>8. CASE ReadA \/ ReadB \/ Transmit \/ UNCHANGED rotVars
  BY <1>7, <1>8 DEF ReadA, ReadB, Transmit, rotVars
<1> QED BY <1>3, <1>4, <1>5, <1>6, <1>8 DEF RotNext

LEMMA RotTypeHolds == RotSpec => []RotTypeOK
<1>1. RotInit => RotBounds
  <2> SUFFICES ASSUME RotInit PROVE RotBounds
    OBVIOUS
  <2>1. -(KnobWord \div 2) \in Range16
    BY HalfIs DEF Range16, Half
  <2> QED BY <2>1, KnobAssumption DEF RotInit, RotBounds, Knobs
<1>2. RotInv /\ RotBounds => RotTypeOK
  <2> SUFFICES ASSUME RotInv, RotBounds PROVE RotTypeOK
    OBVIOUS
  <2>1. ASSUME NEW f \in [Knobs -> Int], \A k \in Knobs : InRange(f[k])
        PROVE  f \in [Knobs -> Range16]
    <3>1. \A k \in Knobs : f[k] \in Range16
      BY <2>1, HalfIs DEF InRange, Range16, Half
    <3> QED BY <3>1
  <2>2. angle \in [Knobs -> Range16] /\ count \in [Knobs -> Range16]
    BY <2>1 DEF RotInv, KnobsInv, KnobTypes
  <2>3. last \in [Knobs -> Range16] /\ {button, lastBtn} \subseteq [Knobs -> {0, 1}]
        /\ turns \in 0..MaxTurns /\ mis \subseteq Ports \X Knobs
        /\ turn \in Knobs /\ object0 \subseteq Knobs \X Range16 \X {0, 1}
    BY DEF RotBounds
  <2>4. todo \subseteq Knobs /\ lineA \subseteq {0, 1} /\ qeState \in [Knobs -> 0..3]
        /\ rushed \in [Knobs -> BOOLEAN] /\ lost \subseteq Knobs /\ late \in BOOLEAN
    BY DEF RotInv, KnobsInv, KnobTypes, Reported, Knobs
  <2> QED BY <2>2, <2>3, <2>4 DEF RotTypeOK, Range16
<1> QED BY <1>1, <1>2, RotInvHolds, RotBoundsKept, PTL DEF RotSpec

(* A step of one program is nothing to the others.                         *)
LEMMA Separate == MCSpec => (Init /\ [][Next]_vars) /\ SatSpec /\ RotSpec /\ StepSpec /\ SendSpec
<1>1. MCInit => Init /\ SatInit /\ RotInit /\ StepInit /\ SendInit
  BY DEF MCInit
<1>2. [MCNext]_allVars => /\ [Next]_vars /\ [SatNext]_satVars /\ [RotNext]_rotVars
                          /\ [StepNext]_stepVars /\ [SendNext]_sendVars
  <2> SUFFICES ASSUME [MCNext]_allVars
               PROVE  /\ [Next]_vars /\ [SatNext]_satVars /\ [RotNext]_rotVars
                      /\ [StepNext]_stepVars /\ [SendNext]_sendVars
    OBVIOUS
  <2>1. CASE DriverRuns
    BY <2>1 DEF DriverRuns
  <2>2. CASE SatMonRuns
    BY <2>2 DEF SatMonRuns
  <2>3. CASE RotariesRun
    BY <2>3 DEF RotariesRun
  <2>4. CASE CanrecvRuns
    BY <2>4 DEF CanrecvRuns
  <2>5. CASE BootSendRuns
    BY <2>5 DEF BootSendRuns
  <2>6. CASE Rest \/ UNCHANGED allVars
    BY <2>6 DEF Rest, allVars
  <2> QED BY <2>1, <2>2, <2>3, <2>4, <2>5, <2>6 DEF MCNext
<1> QED BY <1>1, <1>2, PTL DEF MCSpec, SatSpec, RotSpec, StepSpec, SendSpec

(* Every variable of the five programs keeps its type: counts stay in 16   *)
(* bits, and nothing is numbered beyond what has been on the bus.          *)
THEOREM TypesHold == MCSpec => []TypesOK
<1>1. Dialogue /\ InStep => SendTypeOK
  BY DEF Dialogue, InStep, TargetTypes, SendTypeOK, TargetInit
<1> QED BY <1>1, Separate, TypesKept, SatTypeHolds, RotTypeHolds, StepTypeHolds,
           InStepHolds, PTL DEF TypesOK
=============================================================================
