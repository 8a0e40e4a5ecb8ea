---------------------------- MODULE StepCommands ----------------------------
(***************************************************************************)
(* A stepper motor moved over the CAN bus: apps/canrecv drives its pins as *)
(* told by apps/netdemo's can_tx, which sends a command when the direction *)
(* changes and then empty frames, one per step, or by apps/stepcan, which  *)
(* sends all the pins in every frame.                                      *)
(*                                                                         *)
(* A frame may be lost: it does not get a place to wait for the bus, its   *)
(* place is taken by the next one, or the receiver is late.                *)
(***************************************************************************)
EXTENDS Integers

CONSTANTS
  Block,       \* frames stepcan sends before it turns, 1000 in the code
  MaxFrames    \* bound: frames sent

ASSUME StepAssumption == Block \in Nat \ {0} /\ MaxFrames \in Nat

VARIABLES
  sender,     \* who is on the bus: "netdemo" or "stepcan"
  sample,     \* the direction can_tx has sampled and not yet sent, as a set
  lastCmd,    \* can_tx's: the direction of its last command, as a set
  cmd,        \* stepcan's, as the record of its bits DIR and STEP
  sent,       \* frames sent so far; stepcan's i, and more
  outbox,     \* the frame waiting for the bus, as a set
  inbox,      \* the one in the receiver's message object, as a set
  pins,       \* DIR and STEP of the motor
  edges,      \* history: rising edges of STEP
  told,       \* history: steps asked for
  issued,     \* history: the number of commands can_tx has sent
  heard,      \* history: the number of the last one the receiver has obeyed
  astray      \* history: steps in a direction that was not asked for, by a
              \* receiver that has heard the last command before them

stepVars == <<sender, sample, lastCmd, cmd, sent, outbox, inbox, pins, edges,
              told, issued, heard, astray>>

Directions == {0, 1}     \* of the DIR bit, 0x02
Low == [dir |-> 0, step |-> 0]

StepInit ==
  /\ sender \in {"netdemo", "stepcan"} /\ sample = {} /\ lastCmd = {}
  /\ cmd = Low /\ sent = 0 /\ outbox = {} /\ inbox = {} /\ pins = Low
  /\ edges = 0 /\ told = 0 /\ issued = 0 /\ heard = 0 /\ astray = 0

-----------------------------------------------------------------------------
(* Frames: dlc 0 is a step, dlc 1 holds the pins.  "meant" is the          *)
(* direction it was sent for, "after" the number of commands before it.    *)

StepFrame(d) == [dlc |-> 0, meant |-> d, after |-> issued]
CommandFrame(p, n) == [dlc |-> 1, meant |-> p.dir, pins |-> p, after |-> n]

\* can_tx samples the trimpot; in the dead zone it starts again, and before
\* a step it sleeps, so that the sample may be old when it is sent.
Sample == /\ sender = "netdemo" /\ sample = {}
          /\ \E d \in Directions : sample' = {d}
          /\ UNCHANGED <<sender, lastCmd, cmd, sent, outbox, inbox, pins, edges,
                         told, issued, heard, astray>>

\* Mutant of NewCommand: a change of direction goes unannounced.
NewCommandOnce(d) == lastCmd = {}
NewCommand(d) == lastCmd # {d}

\* The frame can_tx makes of it goes to the only transmit buffer it uses, or
\* canTransmit waits 100 ms for a place in vain, which nobody looks at.
can_tx ==
  \E d \in sample :
    LET f == IF NewCommand(d) THEN CommandFrame([Low EXCEPT !.dir = d], issued + 1)
             ELSE StepFrame(d)
    IN
    /\ sent < MaxFrames /\ sent' = sent + 1
    /\ outbox' = IF outbox = {} THEN {f} ELSE outbox
    /\ issued' = issued + f.dlc
    /\ lastCmd' = {d} /\ sample' = {}
    /\ told' = told + 1 - f.dlc
    /\ UNCHANGED <<sender, cmd, inbox, pins, edges, heard, astray>>

\* stepcan: every frame toggles STEP, and every block of them DIR; they all
\* use message object 0, whether the last one has gone out or not.
stepcan ==
  /\ sender = "stepcan" /\ sent < MaxFrames /\ sent' = sent + 1
  /\ cmd' = [step |-> 1 - cmd.step,
             dir |-> IF sent > 0 /\ sent % Block = 0 THEN 1 - cmd.dir ELSE cmd.dir]
  /\ outbox' = {CommandFrame(cmd', 0)}
  /\ told' = told + cmd'.step
  /\ UNCHANGED <<sender, sample, lastCmd, inbox, pins, edges, issued,
                 heard, astray>>

\* The bus; a message the receiver has not looked at is overwritten.
Deliver == /\ outbox # {}
           /\ inbox' = outbox /\ outbox' = {}
           /\ UNCHANGED <<sender, sample, lastCmd, cmd, sent, pins, edges, told,
                          issued, heard, astray>>

Edge(f, dir) == /\ edges' = edges + 1
                /\ astray' = astray + (IF dir = f.meant \/ heard' # f.after THEN 0 ELSE 1)

\* CAN_rxCallback of canrecv: copyToPins sets DIR before STEP.
Pins == \E f \in inbox :
  /\ f.dlc = 1 /\ inbox' = {}
  /\ pins' = f.pins /\ heard' = f.after
  /\ IF f.pins.step > pins.step THEN Edge(f, f.pins.dir) ELSE UNCHANGED <<edges, astray>>
  /\ UNCHANGED <<sender, sample, lastCmd, cmd, sent, outbox, told, issued>>

\* It toggles STEP and toggles it back.
Pulse == \E f \in inbox :
  /\ f.dlc = 0 /\ inbox' = {}
  /\ UNCHANGED heard
  /\ Edge(f, pins.dir)
  /\ UNCHANGED <<sender, sample, lastCmd, cmd, sent, outbox, pins, told, issued>>

\* The receiver is reset: its main sets the pins to their defaults.
Restart == /\ pins # Low
           /\ pins' = Low /\ inbox' = {}
           /\ heard' = 0
           /\ UNCHANGED <<sender, sample, lastCmd, cmd, sent, outbox, edges, told,
                          issued, astray>>

StepNext == Sample \/ can_tx \/ stepcan \/ Deliver \/ Pins \/ Pulse \/ Restart

StepSpec == StepInit /\ [][StepNext]_stepVars

-----------------------------------------------------------------------------
StepTypeOK ==
  LET Pinned == [dir : Directions, step : {0, 1}]
      Frame == [dlc : {0}, meant : Directions, after : 0..MaxFrames]
        \cup [dlc : {1}, meant : Directions, after : 0..MaxFrames, pins : Pinned]
  IN  /\ sender \in {"netdemo", "stepcan"}
      /\ sample \cup lastCmd \subseteq Directions /\ {cmd, pins} \subseteq Pinned
      /\ outbox \cup inbox \subseteq Frame
      /\ {sent, edges, told, issued, heard, astray} \subseteq 0..MaxFrames

\* The motor never makes a step nobody asked for, and a step goes the way it
\* was meant unless the command before it was lost, or forgotten in a reset:
\* then the receiver has heard an earlier command and never a later one.  The
\* frames of stepcan need no memory, and none of its steps goes astray.
StepsAsTold ==
  /\ edges <= told /\ astray = 0
  /\ \A f \in inbox \cup outbox : f.after >= heard
=============================================================================
