------------------------------- MODULE SatMon -------------------------------
(***************************************************************************)
(* apps/satmon: the CAN messages of the bus on a small display.  The       *)
(* receive interrupt copies a message for the main loop when the loop has  *)
(* released the last one; the loop takes its time to display it.           *)
(*                                                                         *)
(* An id, an address or a mask is the set of its bits; the data of a       *)
(* message is its number in the order of arrival.                          *)
(***************************************************************************)
EXTENDS Naturals, Sequences

CONSTANTS
  OtherIds,      \* ids of messages that are just displayed
  Masks,         \* what a 0x415 message may hold, {} among them
  MaxMessages    \* bound: messages on the bus

ASSUME SatAssumption == MaxMessages \in Nat /\ {} \in Masks

VARIABLES
  bus,        \* history: the messages so far
  filter,     \* address and mask of message object 1, the same four bytes
  msg_obj,    \* the number of the message in the interrupt's buffer
  rxMsg,      \* the number of the one in the loop's buffer
  received,   \* the loop's buffer is in use
  satPc,      \* where the loop is: "wait", "switch", "data", "release"
  y,          \* messages handled
  screen,     \* lines 0, 2, 4: numbers of the messages their id, data, length are of
  shown     \* history: the messages the loop has handled, in order

satVars == <<bus, filter, msg_obj, rxMsg, received, satPc, y, screen, shown>>

SetAddress == {0, 2, 4, 10}                             \* 0x415
SetText == {{1, 2, 4, 10}, {0, 1, 2, 4, 10}}            \* 0x416, 0x417
MessageIds == OtherIds \cup SetText \cup {SetAddress}

Lines6 == {0, 2, 4}

SatInit ==
  /\ bus = <<>> /\ filter = {} /\ msg_obj = 0 /\ rxMsg = 0
  /\ received = FALSE /\ satPc = "wait" /\ y = 0 /\ shown = <<>>
  /\ screen = [line \in Lines6 |-> [id |-> 0, data |-> 0, length |-> 0]]

-----------------------------------------------------------------------------
\* Mutant of Copied: the loop's buffer is not respected.
CopiedAlways(n) == n
Copied(n) == IF received THEN rxMsg ELSE n

\* CAN_rxCallback, for a message that the filter lets pass.
CAN_rxCallback ==
  LET n == Len(bus) + 1 IN
  /\ n <= MaxMessages
  /\ \E i \in MessageIds, m \in Masks :
       /\ i = SetAddress \/ m = {}
       /\ bus' = Append(bus, [id |-> i, mask |-> m])
  /\ IF filter \subseteq bus'[n].id
     THEN /\ msg_obj' = n
          /\ rxMsg' = Copied(n)
          /\ received' = TRUE
     ELSE UNCHANGED <<msg_obj, rxMsg, received>>
  /\ UNCHANGED <<filter, satPc, y, screen, shown>>

-----------------------------------------------------------------------------
(* main's loop, a step for each time it looks at what the interrupt        *)
(* writes.                                                                 *)

\* The place of message number n, counted from 0: they cycle.
Line(n) == (n * 2) % 6

Wait == /\ satPc = "wait" /\ received
        /\ satPc' = "switch"
        /\ UNCHANGED <<bus, filter, msg_obj, rxMsg, received, y, screen, shown>>

SetFilter == /\ satPc = "switch" /\ bus[rxMsg].id = SetAddress
             /\ filter' = bus[rxMsg].mask
             /\ satPc' = "release"
             /\ UNCHANGED <<bus, msg_obj, rxMsg, received, y, screen, shown>>

\* The text goes to the line below.
ShowText == /\ satPc = "switch" /\ bus[rxMsg].id \in SetText
            /\ satPc' = "release"
            /\ UNCHANGED <<bus, filter, msg_obj, rxMsg, received, y, screen, shown>>

ShowId == /\ satPc = "switch" /\ bus[rxMsg].id \in OtherIds
          /\ screen' = [screen EXCEPT ![Line(y)].id = rxMsg]
          /\ satPc' = "data"
          /\ UNCHANGED <<bus, filter, msg_obj, rxMsg, received, y, shown>>

\* The data is the loop's, the length the interrupt's.
ShowData == /\ satPc = "data"
            /\ screen' = [screen EXCEPT ![Line(y)].data = rxMsg,
                                        ![Line(y)].length = msg_obj]
            /\ satPc' = "release"
            /\ UNCHANGED <<bus, filter, msg_obj, rxMsg, received, y, shown>>

Release == /\ satPc = "release"
           /\ received' = FALSE
           /\ shown' = Append(shown, rxMsg)
           /\ satPc' = "wait" /\ y' = y + 1
           /\ UNCHANGED <<bus, filter, msg_obj, rxMsg, screen>>

SatNext == \/ CAN_rxCallback
           \/ Wait \/ SetFilter \/ ShowText \/ ShowId \/ ShowData \/ Release

SatSpec == SatInit /\ [][SatNext]_satVars

-----------------------------------------------------------------------------
SatTypeOK ==
  /\ bus \in Seq([id : MessageIds, mask : Masks]) /\ Len(bus) <= MaxMessages
  /\ filter \in Masks /\ {msg_obj, rxMsg, y} \subseteq 0..MaxMessages
  /\ received \in BOOLEAN /\ satPc \in {"wait", "switch", "data", "release"}
  /\ screen \in [Lines6 -> [id : 0..MaxMessages, data : 0..MaxMessages,
                            length : 0..MaxMessages]]
  /\ shown \in Seq(1..MaxMessages)

\* The id and the data on a pair of lines are of one message, however many
\* arrive while the loop writes them, and so is the length unless a later one
\* has arrived; the three pairs hold three different messages, and the loop handles
\* messages in the order of their arrival, none twice.
ShownAsReceived ==
  /\ \A line \in Lines6 : (satPc = "data" /\ line = Line(y)) \/
       /\ screen[line].id = screen[line].data
       /\ screen[line].length >= screen[line].data
  /\ \A l, m \in Lines6 : l # m /\ screen[l].data # 0 => screen[l].data # screen[m].data
  /\ \A i, j \in 1..Len(shown) : i < j => shown[i] < shown[j]
=============================================================================
