--------------------------- MODULE MCCanPrograms ---------------------------
(* The programs on top of the CAN driver in ROM, with its interrupt that   *)
(* calls back and its message objects: the driver's request loop, satmon,  *)
(* rotaries, canrecv with its two senders, and bootsend.  They are         *)
(* programs of boards of their own: a behaviour is one of them.            *)
EXTENDS CanBus, SatMon, Rotaries, StepCommands, BootSend

VARIABLE program

allVars == <<program, vars, satVars, rotVars, stepVars, sendVars>>

\* The driver: two short ids.
MCIds == {5, 6}
\* satmon: a plain message, and a mask that only lets ids from 0x400 pass.
MCOtherIds == {{0, 1, 5, 8}}
MCMasks == {{}, {10}}

Programs == {"driver", "satmon", "rotaries", "canrecv", "bootsend"}

MCInit ==
  /\ program \in Programs
  /\ Init /\ SatInit /\ RotInit /\ StepInit /\ SendInit
  /\ program = "rotaries" \/ angle = [k \in Knobs |-> 0]
  /\ program = "canrecv" \/ sender = "netdemo"
  /\ program # "bootsend" => config = 0 /\ refuses = {}

DriverRuns == program = "driver" /\ Next
              /\ UNCHANGED <<program, satVars, rotVars, stepVars, sendVars>>
DriverMain == program = "driver" /\ Main
              /\ UNCHANGED <<program, satVars, rotVars, stepVars, sendVars>>
SatMonRuns == program = "satmon" /\ SatNext
              /\ UNCHANGED <<program, vars, rotVars, stepVars, sendVars>>
RotariesRun == program = "rotaries" /\ RotNext
               /\ UNCHANGED <<program, vars, satVars, stepVars, sendVars>>
CanrecvRuns == program = "canrecv" /\ StepNext
               /\ UNCHANGED <<program, vars, satVars, rotVars, sendVars>>
BootSendRuns == program = "bootsend" /\ SendNext
                /\ UNCHANGED <<program, vars, satVars, rotVars, stepVars>>
\* The bounds are reached, or bootsend blinks for ever.
Rest == program # "driver" /\ UNCHANGED allVars

MCNext == DriverRuns \/ SatMonRuns \/ RotariesRun \/ CanrecvRuns \/ BootSendRuns \/ Rest

MCSpec == MCInit /\ [][MCNext]_allVars /\ WF_allVars(DriverMain)

TypesOK == TypeOK /\ SatTypeOK /\ RotTypeOK /\ StepTypeOK /\ SendTypeOK
=============================================================================
