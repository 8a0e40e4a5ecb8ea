--------------------------------- MODULE CanBus ---------------------------------
(***************************************************************************)
(* apps/driver/canbus.cpp and the request loop of main.cpp: how a CAN      *)
(* message gets from the receive interrupt to the main thread.  The        *)
(* interrupt leaves the message in rxMessage and posts a token in a        *)
(* mailbox of one; main fetches the token, which makes room for the next   *)
(* one, and then reads rxMessage where it is: first the header, to decide  *)
(* what it is, then the data, copying them (setpointAdd, motionParams).    *)
(* The interrupt can come between any two of these steps.                  *)
(*                                                                         *)
(* Messages are numbered in the order they arrive; what a request does is  *)
(* left to SetpointQueue and Motion.                                       *)
(***************************************************************************)
EXTENDS Integers, Sequences, FiniteSets, Functions

CONSTANTS
  MaxArrivals,   (* bound: how many requests arrive                        *)
  Ids            (* the short ids the boot master assigns; 0 is none       *)

ASSUME BusAssumption == MaxArrivals \in Nat /\ 0 \notin Ids

VARIABLES
  rxPending,     (* the number of tokens in the mailbox                    *)
  rxMessage,     (* the number of the message it holds, 0 before the first *)
  rxOverruns,
  shortId,       (* canBus.shortId, and the address message object 1       *)
                 (* receives once there is one                             *)
  main,          (* "fetch", "header" about to read the header of          *)
                 (* rxMessage, "data" about to copy its data               *)
  header,        (* the message whose header main has read                 *)
  arrived,       (* history: how many requests have arrived                *)
  crowded,       (* history: a request came before main was done with the  *)
                 (* one before                                             *)
  handled        (* history: what main took for requests, as pairs of the  *)
                 (* messages the header and the data came from             *)

rx == <<rxPending, rxMessage, rxOverruns>>
history == <<arrived, crowded, handled>>
vars == <<rx, shortId, main, header, history>>

Msgs == 0..MaxArrivals

TypeOK ==
  /\ rxPending \in {0, 1} /\ rxMessage \in Msgs /\ rxOverruns \in Nat
  /\ shortId \in Ids \cup {0}
  /\ main \in {"fetch", "header", "data"} /\ header \in Msgs
  /\ arrived \in Msgs /\ crowded \in BOOLEAN /\ handled \in Seq(Msgs \X Msgs)

Init ==
  /\ rxPending = 0 /\ rxMessage = 0 /\ rxOverruns = 0
  /\ shortId = 0
  /\ main = "fetch" /\ header = 0
  /\ arrived = 0 /\ crowded = FALSE /\ handled = <<>>

(* Mutants: the interrupt posts into a full mailbox; it does not count an  *)
(* overrun.                                                                *)
RoomAlways == TRUE
Room == rxPending = 0

OverrunUncounted == UNCHANGED rx
Overrun == rxOverruns' = rxOverruns + 1 /\ UNCHANGED <<rxPending, rxMessage>>

(* CAN_rxCallback for message object 1: a request to this node's short id. *)
Request ==
  /\ shortId # 0 /\ arrived < MaxArrivals
  /\ arrived' = arrived + 1
  /\ crowded' = (crowded \/ main # "fetch" \/ rxPending # 0)
  /\ \/ ~Room /\ Overrun
     \/ /\ Room
        /\ rxPending' = rxPending + 1 /\ rxMessage' = arrived + 1
        /\ UNCHANGED rxOverruns
  /\ UNCHANGED <<shortId, main, header, handled>>

(* CAN_rxCallback for message object 2, with the uid of this node: the     *)
(* boot master assigns it a short id, to which it listens from now on.     *)
Assign(id) ==
  /\ shortId' = id
  /\ UNCHANGED <<rx, main, header, history>>

(* Mutant of Fetch: main goes on with the header it read the last time.    *)
FetchKeepsHeader ==
  /\ main = "fetch" /\ rxPending = 1
  /\ rxPending' = 0
  /\ main' = "data"
  /\ UNCHANGED <<rxMessage, rxOverruns, shortId, header, history>>

(* main: chMBFetch takes the token.                                        *)
Fetch ==
  /\ main = "fetch" /\ rxPending = 1
  /\ rxPending' = 0
  /\ main' = "header"
  /\ UNCHANGED <<rxMessage, rxOverruns, shortId, header, history>>

(* processIncomingRequest: the switch on mode_id and dlc.                  *)
ReadHeader ==
  /\ main = "header"
  /\ header' = rxMessage
  /\ main' = "data"
  /\ UNCHANGED <<rx, shortId, history>>

(* Mutant of ReadData: main empties the mailbox when it is done.           *)
ReadDataEmpties ==
  /\ main = "data"
  /\ handled' = Append(handled, <<header, rxMessage>>)
  /\ main' = "fetch"
  /\ rxPending' = 0
  /\ UNCHANGED <<rxMessage, rxOverruns, shortId, header, arrived, crowded>>

(* The request is carried out with the data that are there now.            *)
ReadData ==
  /\ main = "data"
  /\ handled' = Append(handled, <<header, rxMessage>>)
  /\ main' = "fetch"
  /\ UNCHANGED <<rx, shortId, header, arrived, crowded>>

Main == Fetch \/ ReadHeader \/ ReadData

Next == Request \/ (\E id \in Ids : Assign(id)) \/ Main

Spec == Init /\ [][Next]_vars /\ WF_vars(Main)

---------------------------------------------------------------------------------
(* Properties.                                                             *)

(* For every request that arrives main goes round its loop once, or the    *)
(* overrun counter goes up: tokens are neither lost nor made up.           *)
TokensBalance ==
  arrived = Len(handled) + rxOverruns + rxPending + (IF main = "fetch" THEN 0 ELSE 1)

(* Main never goes back to an older message, nor takes the data of one     *)
(* older than its header.                                                  *)
NeverOlder ==
  /\ \A k \in DOMAIN handled : handled[k][1] <= handled[k][2]
  /\ \A k \in 1..(Len(handled) - 1) : handled[k][2] <= handled[k + 1][1]

(* The last message put in rxMessage is handled in the end.                *)
LastIsHandled ==
  \A m \in 1..MaxArrivals :
    rxMessage = m ~> \/ rxMessage > m
                     \/ \E k \in DOMAIN handled : handled[k] = <<m, m>>

(* On a bus on which a request only follows when the one before has been   *)
(* handled, every request is handled, once, as it was sent.                *)
HandledAsSent ==
  ~crowded => \A k \in DOMAIN handled : handled[k] = <<k, k>>

(* Requests are handled in the order they came in, and unless they come    *)
(* too fast each of them as it was sent.                                   *)
HandledInOrder == NeverOlder /\ HandledAsSent

---------------------------------------------------------------------------------
(* What the comments say and the code does not do.                         *)

(* canbus.cpp:46 "rx packet lost, no room in msg queue": the lost packets  *)
(* are those rxOverruns counts; any other one is handled or still waiting. *)
LostAreCounted ==
  main = "fetch" /\ rxPending = 0 =>
    Cardinality(Range(handled)) = arrived - rxOverruns
=================================================================================
