------------------------------ MODULE BootSend ------------------------------
(***************************************************************************)
(* apps/bootsend: a board that installs the boot loader in another one,    *)
(* over CAN, by a dialogue with the target's boot ROM: each request waits  *)
(* for its answer before the next one is sent.  The target is modelled     *)
(* from what the requests ask of it.                                       *)
(***************************************************************************)
EXTENDS Integers, Sequences

CONSTANTS
  Size,        \* bytes of codeBuf, 4096
  Segment      \* bytes of it in a segment, 7

ASSUME SendAssumption == Size \in Nat \ {0} /\ Segment \in Nat \ {0}

VARIABLES
  config,     \* the jumpers: getBootConfigByte
  refuses,    \* requests the target rejects, whatever the sender does
  step,       \* the place in the Script
  waiting,    \* sendAndWait is in its loop
  ready, error,
  led,        \* "off", "steady", or the number of blips that never end
  request8,   \* message object 8: the request on its way, as a set
  answer,     \* the answer on its way, as a set
  reply,      \* rxMsg: the last answer taken
  target,     \* the target: see TargetInit
  obeyed      \* history: the requests the target has got

sendVars == <<config, refuses, step, waiting, ready, error, led, request8, answer,
              reply, target, obeyed>>

\* Byte i of codeBuf, from 0: the code, the configuration in its last byte,
\* and what is in memory behind it.
ConfigByte == Size + 1
Byte(i) == IF i >= Size THEN 0 ELSE IF i = Size - 1 THEN ConfigByte ELSE i + 1
Image == [i \in 1..Size |-> Byte(i - 1)]

Segments == (Size + Segment - 1) \div Segment

Plain(op) == [op |-> op]
Data(n) == [op |-> "data", toggle |-> (n - 1) % 2,
            bytes |-> [k \in 1..Segment |-> Byte((n - 1) * Segment + k - 1)]]

\* What main sends, in its order.
Upload == <<Plain("ramAddress"), Plain("write")>>
            \o [n \in 1..Segments |-> Data(n)]
            \o <<Plain("prepare"), Plain("to"), Plain("from"), Plain("copy")>>
Script == <<Plain("type"), Plain("unlock"), Plain("prepare"), Plain("erase")>>
            \o (IF config = 0 THEN <<>> ELSE Upload)
            \o <<Plain("address"), Plain("run")>>

TargetInit == [unlocked |-> FALSE, prepared |-> FALSE, toggle |-> 0, ram |-> <<>>,
               flash |-> <<-1>>, running |-> FALSE]

SendInit ==
  /\ config \in {0, 1} /\ refuses \in {{}, {"type"}, {"erase"}, {"copy"}}
  /\ step = 1 /\ waiting = FALSE /\ ready = FALSE /\ error = FALSE
  /\ led = "off" /\ request8 = {} /\ answer = {} /\ reply = "none"
  /\ target = TargetInit /\ obeyed = <<>>

-----------------------------------------------------------------------------
(* The sender.                                                             *)

\* Mutant of Unready: what was ready stays so.
UnreadyNot == ready
Unready == FALSE

\* sendAndWait, up to its loop.
Send ==
  /\ led = "off" /\ ~waiting /\ step <= Len(Script)
  /\ request8' = {Script[step]}
  /\ ready' = Unready
  /\ waiting' = TRUE
  /\ UNCHANGED <<config, refuses, step, error, led, answer, reply, target, obeyed>>

\* isr() in the loop finds the answer, or an error to note.
Isr ==
  /\ waiting /\ led = "off"
  /\ \/ /\ answer # {} /\ reply' \in answer /\ answer' = {}
        /\ ready' = TRUE /\ UNCHANGED error
     \/ error' = TRUE /\ UNCHANGED <<ready, answer, reply>>
  /\ UNCHANGED <<config, refuses, step, waiting, led, request8, target, obeyed>>

\* The byte sendReq looks at is one of the request it has sent: the highest
\* one of the 32-bit data, which only the RAM address 0x10000800 fills.
TopByte(r) == IF r.op \in {"ramAddress", "from"} THEN 16 ELSE 0
ErrorBit(r) == r.op # "data" /\ (TopByte(r) \div 8) % 2 = 1

\* sendAndWait returns, and main goes on, or not.
Proceed ==
  /\ waiting /\ ready /\ led = "off"
  /\ waiting' = FALSE /\ step' = step + 1
  /\ led' = IF ErrorBit(Script[step]) THEN "3"
            ELSE IF Script[step].op = "type" /\ reply # "LPC1" THEN "4"
            ELSE "off"
  /\ UNCHANGED <<config, refuses, ready, error, request8, answer, reply, target,
                 obeyed>>

Timeout ==
  /\ waiting /\ ~ready /\ led = "off"
  /\ led' = "2"
  /\ UNCHANGED <<config, refuses, step, waiting, ready, error, request8, answer,
                 reply, target, obeyed>>

Finish ==
  /\ ~waiting /\ step > Len(Script) /\ led = "off"
  /\ led' = IF error THEN "5" ELSE "steady"
  /\ UNCHANGED <<config, refuses, step, waiting, ready, error, request8, answer,
                 reply, target, obeyed>>

-----------------------------------------------------------------------------
(* The target and the bus.                                                 *)

\* What a request does; erasing and copying need sectors just prepared, and
\* the data of a write their toggle.
Able(r) ==
  /\ r.op \notin refuses
  /\ r.op \in {"type", "unlock"} \/ target.unlocked
  /\ r.op \in {"erase", "copy"} => target.prepared
  /\ r.op = "data" => r.toggle = target.toggle

Done(r) ==
  CASE r.op = "unlock" -> [target EXCEPT !.unlocked = TRUE]
    [] r.op = "prepare" -> [target EXCEPT !.prepared = TRUE]
    [] r.op = "erase" -> [target EXCEPT !.prepared = FALSE, !.flash = <<>>]
    [] r.op = "write" -> [target EXCEPT !.ram = <<>>, !.toggle = 0]
    [] r.op = "data" -> [target EXCEPT !.ram = SubSeq(@ \o r.bytes, 1,
                                         IF Len(@) + Segment > Size THEN Size ELSE Len(@) + Segment),
                                       !.toggle = 1 - @]
    [] r.op = "copy" -> [target EXCEPT !.prepared = FALSE, !.flash = target.ram]
    [] r.op = "run" -> [target EXCEPT !.running = TRUE]
    [] OTHER -> target

Obey ==
  \E r \in request8 :
    /\ request8' = {}
    /\ obeyed' = Append(obeyed, r)
    /\ target' = IF Able(r) THEN Done(r) ELSE target
    /\ answer' = {IF ~Able(r) THEN "abort" ELSE IF r.op = "type" THEN "LPC1" ELSE "ok"}
    /\ UNCHANGED <<config, refuses, step, waiting, ready, error, led, reply>>

\* A request or an answer never gets there.
Lose ==
  /\ request8 \cup answer # {}
  /\ request8' = {} /\ answer' = {}
  /\ UNCHANGED <<config, refuses, step, waiting, ready, error, led, reply, target,
                 obeyed>>

SendNext == Send \/ Isr \/ Proceed \/ Timeout \/ Finish \/ Obey \/ Lose

SendSpec == SendInit /\ [][SendNext]_sendVars

-----------------------------------------------------------------------------
SendTypeOK ==
  /\ config \in {0, 1} /\ step \in 1..(Len(Script) + 1)
  /\ {waiting, ready, error} \subseteq BOOLEAN
  /\ led \in {"off", "steady", "2", "3", "4", "5"}
  /\ reply \in {"none", "LPC1", "ok", "abort"} /\ DOMAIN target = DOMAIN TargetInit

\* The target gets the requests in their order, each once, whatever is lost,
\* and is started only after all the others.  A target that rejects none of
\* them then runs the whole code with its configuration byte, or what an
\* erased flash leaves it if no jumper asks for an installation.
Installs ==
  /\ obeyed = SubSeq(Script, 1, Len(obeyed))
  /\ target.running => Len(obeyed) = Len(Script)
  /\ target.running /\ refuses = {} => target.flash = IF config = 0 THEN <<>> ELSE Image

\* bootsend/main.cpp:235 "5 quick blips if there has been any CAN error, or
\* steady blink if all ok": when it blinks steadily, the target has done what
\* it was asked to.
SteadyMeansDone ==
  led = "steady" => target.flash = IF config = 0 THEN <<>> ELSE Image
=============================================================================
