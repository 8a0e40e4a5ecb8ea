------------------------------ MODULE SetpointQueue ------------------------------
(***************************************************************************)
(* apps/driver/setpoint.cpp, with the two threads that use it: the main    *)
(* thread, which handles CAN requests (main.cpp), and the stepper thread.  *)
(* A setpoint occupies a slot of setpoints[] from setpointAdd until the    *)
(* stepper has executed it; the mailbox holds slot numbers.                *)
(*                                                                         *)
(* Both threads have the same priority and the firmware is built without   *)
(* round robin (CH_TIME_QUANTUM 0), so a thread runs until it blocks,      *)
(* sleeps or yields; an action is what a thread does between two such      *)
(* points.  The stepper holds the processor in the states of               *)
(* StepperHasCpu, and main does nothing then.  Motion is abstracted to its *)
(* control: executing a setpoint needs steps, or is a dwell, or is         *)
(* nothing at all, and takes an arbitrary time (module Motion has the      *)
(* positions).                                                             *)
(***************************************************************************)
EXTENDS Integers, Sequences, Functions

CONSTANTS
  Q,          (* SETPOINT_QUEUE_SIZE                                       *)
  Setpoint,   (* the setpoints that requests carry                         *)
  Coasting,   (* those with a non-zero exit velocity                       *)
  None        (* not a setpoint: an empty slot, nothing being executed     *)

ASSUME QueueAssumption == Q \in Nat \ {0}
ASSUME SetpointAssumption == Coasting \subseteq Setpoint /\ None \notin Setpoint

Slots == 0..Q
NoSlot == -1

VARIABLES
  mbox,       (* setpoint.mailbox: slot numbers, oldest first              *)
  setpoints,  (* setpoint.setpoints                                        *)
  inUse,      (* setpoint.inUse: the slots whose bit is set                *)
  main,       (* "idle" at chMBFetch(&rxPending), "posting" in chMBPost,   *)
              (* "aborting" in the 1 ms sleep or the move of motionStop    *)
  posting,    (* the slot main is waiting to post                          *)
  stepper,    (* where the stepper thread is, see StepperStates            *)
  cur,        (* spIndex: the slot being executed                          *)
  running,    (* the setpoint as motionTarget found it when it started     *)
  powered,    (* the motor driver's enable pin is active                   *)
  raced       (* history: the last setpointReset cleared the reservation   *)
              (* of a slot that was being executed                         *)

vars == <<mbox, setpoints, inUse, main, posting, stepper, cur, running, powered, raced>>

(* "moving" polls stepsToGo, "cancelled" is moving after somebody else     *)
(* zeroed stepsToGo, "null" is a setpoint with neither steps nor time,     *)
(* "stopping" sleeps in motionStop, or polls a move of its own, "waiting"  *)
(* is blocked in chMBFetch (or has been woken by a post, when mbox is not  *)
(* empty).                                                                 *)
Executing == {"moving", "cancelled", "dwelling", "null"}
StepperStates == Executing \cup {"fetch", "stopping", "waiting"}
StepperHasCpu == stepper \in {"fetch", "null"}

(* The stepper is ready to run and will do so before any sleep ends.       *)
StepperReady ==
  \/ StepperHasCpu
  \/ stepper = "cancelled"
  \/ stepper = "waiting" /\ mbox # <<>>

TypeOK ==
  /\ mbox \in Seq(Slots) /\ Len(mbox) <= Q
  /\ setpoints \in [Slots -> Setpoint \cup {None}]
  /\ inUse \in SUBSET Slots
  /\ main \in {"idle", "posting", "aborting"}
  /\ posting \in Slots \cup {NoSlot}
  /\ stepper \in StepperStates
  /\ cur \in Slots \cup {NoSlot}
  /\ running \in Setpoint \cup {None}
  /\ powered \in BOOLEAN /\ raced \in BOOLEAN

Init ==
  /\ mbox = <<>>
  /\ setpoints = [i \in Slots |-> None]
  /\ inUse = {}
  /\ main = "idle" /\ posting = NoSlot
  /\ stepper = "fetch" /\ cur = NoSlot /\ running = None
  /\ powered = FALSE /\ raced = FALSE

---------------------------------------------------------------------------------
(* The main thread: processIncomingRequest.                                *)

MainRuns == main = "idle" /\ ~StepperHasCpu

isInUse(i) == i \in inUse

(* The scan of setpointAdd: the first slot that is not in use.             *)
FirstUnused(i) ==
  /\ i \in Slots /\ ~isInUse(i)
  /\ \A j \in Slots : j < i => isInUse(j)

(* Mutant of Store: setpointAdd forgets to mark the slot.                  *)
StoreNoMark(i, s) ==
  /\ inUse' = inUse
  /\ setpoints' = [setpoints EXCEPT ![i] = s]

(* What setpointAdd does to slot i before it posts it.                     *)
Store(i, s) ==
  /\ inUse' = inUse \cup {i}
  /\ setpoints' = [setpoints EXCEPT ![i] = s]

(* Mutant of HasRoom: the mailbox takes one more than it has room for.     *)
HasRoomForOneMore == Len(mbox) <= Q
HasRoom == Len(mbox) < Q

(* setpointAdd with room in the mailbox.                                   *)
Add(s) ==
  /\ MainRuns /\ HasRoom
  /\ \E i \in Slots :
       /\ FirstUnused(i)
       /\ Store(i, s)
       /\ mbox' = Append(mbox, i)
  /\ UNCHANGED <<main, posting, stepper, cur, running, powered, raced>>

(* setpointAdd with a full mailbox: main blocks in chMBPost.               *)
AddBlocks(s) ==
  /\ MainRuns /\ ~HasRoom
  /\ \E i \in Slots : FirstUnused(i) /\ Store(i, s) /\ posting' = i
  /\ main' = "posting"
  /\ UNCHANGED <<mbox, stepper, cur, running, powered, raced>>

(* setpointAdd runs off the end of its scan: the setpoint is forgotten.    *)
AddFails ==
  /\ MainRuns /\ \A i \in Slots : isInUse(i)
  /\ UNCHANGED vars

(* The blocked chMBPost finds room.                                        *)
PostResumes ==
  /\ main = "posting" /\ ~StepperHasCpu /\ HasRoom
  /\ mbox' = Append(mbox, posting)
  /\ main' = "idle" /\ posting' = NoSlot
  /\ UNCHANGED <<setpoints, inUse, stepper, cur, running, powered, raced>>

(* motionStop does not always stop: from a position that is outside limits *)
(* set since, it moves back inside, with the driver on.                    *)
ReturnsInside == powered' = TRUE

(* An abort request: motionStop zeroes stepsToGo, then sleeps; or it moves.*)
AbortBegins ==
  /\ MainRuns
  /\ main' = "aborting"
  /\ \/ /\ stepper' = IF stepper = "moving" THEN "cancelled" ELSE stepper
        /\ UNCHANGED powered
     \/ ReturnsInside /\ UNCHANGED stepper
  /\ UNCHANGED <<mbox, setpoints, inUse, posting, cur, running, raced>>

(* Mutant of Release: the motor stays powered when the stepper stops.      *)
ReleaseNot == UNCHANGED powered
Release == powered' = FALSE

(* The rest of the request: motionStop releases the motor and setpointReset*)
(* empties the mailbox and clears inUse.  A stepper that is blocked in     *)
(* chMBFetch gets RDY_RESET and goes through motionStop itself.            *)
AbortEnds ==
  /\ main = "aborting" /\ ~StepperReady
  /\ main' = "idle"
  /\ Release
  /\ mbox' = <<>>
  /\ inUse' = {}
  /\ stepper' = IF stepper = "waiting" THEN "stopping" ELSE stepper
  /\ raced' = (cur # NoSlot)
  /\ UNCHANGED <<setpoints, posting, cur, running>>

---------------------------------------------------------------------------------
(* The stepper thread.                                                     *)

(* Mutant of CanFetch: a post does not wake a stepper that is blocked.     *)
CanFetchPolling == stepper = "fetch" /\ mbox # <<>>
CanFetch == stepper \in {"fetch", "waiting"} /\ mbox # <<>>

Execute ==
  \/ stepper' = "moving" /\ powered' = TRUE
  \/ stepper' \in {"dwelling", "null"} /\ UNCHANGED powered

(* chMBFetch returns RDY_OK and motionTarget starts on the setpoint.       *)
Take ==
  /\ CanFetch
  /\ cur' = Head(mbox)
  /\ mbox' = Tail(mbox)
  /\ running' = setpoints[Head(mbox)]
  /\ Execute
  /\ UNCHANGED <<setpoints, inUse, main, posting, raced>>

(* Mutant of clearInUse: it clears nothing.                                *)
clearInUseNot(i) == inUse' = inUse
clearInUse(i) == inUse' = inUse \ {i}

(* motionTarget returns, after it has read the velocity of the setpoint in *)
(* its slot; the slot is released.                                         *)
Done ==
  /\ stepper \in Executing
  /\ powered' = (powered /\ setpoints[cur] \in Coasting)
  /\ clearInUse(cur)
  /\ cur' = NoSlot /\ running' = None
  /\ stepper' = "fetch"
  /\ UNCHANGED <<mbox, setpoints, main, posting, raced>>

(* chMBFetch times out at once: motionStop.                                *)
NoWork ==
  /\ stepper = "fetch" /\ mbox = <<>>
  /\ stepper' = "stopping"
  /\ UNCHANGED powered \/ ReturnsInside
  /\ UNCHANGED <<mbox, setpoints, inUse, main, posting, cur, running, raced>>

(* motionStop is done and releases the motor; chMBFetch blocks.            *)
Stopped ==
  /\ stepper = "stopping"
  /\ Release
  /\ stepper' = "waiting"
  /\ UNCHANGED <<mbox, setpoints, inUse, main, posting, cur, running, raced>>

---------------------------------------------------------------------------------

AddRequest == (\E s \in Setpoint : Add(s) \/ AddBlocks(s)) \/ AddFails
Abort == AbortBegins \/ AbortEnds
StepperTh == Take \/ Done \/ NoWork \/ Stopped

Next == AddRequest \/ PostResumes \/ Abort \/ StepperTh

(* The same firmware when no client sends an abort request.                *)
StreamNext == AddRequest \/ PostResumes \/ StepperTh

(* Sleeps end and every move ends (each step of it is a timer interrupt);  *)
(* the ready list is first in, first out, so a ready thread runs.          *)
Fairness == WF_vars(StepperTh) /\ WF_vars(PostResumes) /\ WF_vars(AbortEnds)

Spec == Init /\ [][Next]_vars /\ Fairness
StreamSpec == Init /\ [][StreamNext]_vars /\ Fairness

---------------------------------------------------------------------------------
(* Properties.                                                             *)

(* The slots somebody will still release or start.                         *)
Owned == (Range(mbox) \cup {cur, posting}) \ {NoSlot}

(* No slot is lost: whatever the interleaving of requests, aborts and the  *)
(* stepper, a slot marked in use is queued, being posted or being          *)
(* executed.  A slot leaked by setpointReset or by an abandoned setpoint   *)
(* would shrink the table until every setpoint is dropped.                 *)
NoSlotLeak == inUse \subseteq Owned

(* The end of the scan in setpointAdd, where a setpoint is forgotten, is   *)
(* reached when Q setpoints are queued and one more is being executed, and *)
(* at no other time.                                                       *)
DropsOnlyWhenFull ==
  MainRuns /\ (\A i \in Slots : isInUse(i)) => Len(mbox) = Q /\ stepper \in Executing

(* While no reset has hit a setpoint in flight, a slot has exactly one     *)
(* owner and that owner's mark: setpointAdd cannot overwrite a setpoint    *)
(* that is waiting, being posted or being executed.                        *)
SlotsExclusive ==
  ~raced =>
    /\ Owned \subseteq inUse
    /\ \A j, k \in DOMAIN mbox : mbox[j] = mbox[k] => j = k
    /\ cur # NoSlot => cur \notin Range(mbox) \cup {posting}
    /\ posting # NoSlot => posting \notin Range(mbox)

(* motionTarget takes the setpoint by reference and looks at its velocity  *)
(* after the move: unless a reset raced with it, that is still the         *)
(* setpoint it started with.                                               *)
ReferenceStable == ~raced /\ stepper \in Executing => setpoints[cur] = running

(* So no setpoint is overwritten while somebody needs it, be it for its    *)
(* slot number or through a reference.                                     *)
SlotsKept == SlotsExclusive /\ ReferenceStable

(* Once the stepper has nothing to do and no abort is in progress, the     *)
(* motor driver is released, however the last setpoint ended.              *)
IdleReleased == stepper = "waiting" /\ main = "idle" => ~powered

(* A move is made with the driver enabled (true of a client that never     *)
(* aborts; part of what InOrder says).                                     *)
MovesPowered == stepper = "moving" => powered

(* A client blocked on a full queue is always let in, and an abort         *)
(* completes even while the stepper keeps running: main always comes back  *)
(* to take the next request.                                               *)
RequestEnds == main # "idle" ~> main = "idle"

(* Without aborts every accepted setpoint is started.                      *)
QueuedIsTaken == \A i \in Slots : i \in Range(mbox) ~> cur = i

(* setpoint.cpp:30: setpoints are processed in order of arrival, each as   *)
(* it was accepted.  The mailbox together with the blocked post is the     *)
(* queue of SetpointFifo.                                                  *)
Accepted == IF main = "posting" THEN Append(mbox, posting) ELSE mbox

Pending == [k \in DOMAIN Accepted |-> setpoints[Accepted[k]]]

Fifo == INSTANCE SetpointFifo WITH pending <- Pending, active <- running,
                                  moving <- stepper = "moving"

InOrder == Fifo!Spec

---------------------------------------------------------------------------------
(* What the comments say and the code does not do.                         *)

(* setpoint.cpp:30 "processes incoming setpoint commands in order of       *)
(* arrival": a command stays what it was for as long as it is queued.      *)
QueuedUnchanged ==
  [][\A i \in Range(mbox) : i \in Range(mbox') => setpoints'[i] = setpoints[i]]_vars
=================================================================================
