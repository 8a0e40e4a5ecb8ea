------------------------------- MODULE MCBootPrompt -------------------------------
(* The boot protocol on a bus without premature timeouts.  A behaviour is  *)
(* one on any such bus, or one on a bus where no frame comes before there  *)
(* is room for it.                                                         *)
EXTENDS MCBootProtocol

VARIABLE paced

MCPromptSpec == /\ Init /\ paced \in BOOLEAN
                /\ [][PromptNext /\ (paced => KeepsUp) /\ paced' = paced]_<<vars, paced>>

(* A node that started to download runs the whole program, on a bus where  *)
(* no frame is lost for want of room, nor otherwise (see RunsWholeProgram).*)
PacedRunsWhole == paced => RunsWholeProgram
===================================================================================
