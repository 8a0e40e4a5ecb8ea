------------------------------ MODULE MCBridge ------------------------------
(* The parts of the bridge that share nothing but the board: its two       *)
(* parsers (netdemo's and the one of the serial bridges), its sessions and *)
(* its memory card.  A behaviour is one of them.                           *)
EXTENDS BridgeParser, SerialCan, BridgeSession, CardMonitor

VARIABLE part

allVars == <<part, parserVars, serialVars, sessionVars, vars>>

\* S, #, R, a digit, a letter and the end of a line, for a buffer that just
\* holds an id of a digit and a byte of data.
MCChars == {83, 35, 82, 50, 66, 10}
MCBeyond == {6 :> 0 @@ 7 :> 0 @@ 8 :> 0, 6 :> 50 @@ 7 :> 35 @@ 8 :> 66}

MCInit ==
  /\ part \in {"parser", "serial", "sessions", "card"}
  /\ ParserInit /\ SerialInit /\ SessionInit /\ Init
  /\ part # "card" => card

ParserRuns == part = "parser" /\ ParserNext
              /\ UNCHANGED <<part, serialVars, sessionVars, vars>>
SerialRuns == part = "serial" /\ SerialNext
              /\ UNCHANGED <<part, parserVars, sessionVars, vars>>

Session(A) == part = "sessions" /\ A
              /\ UNCHANGED <<part, parserVars, serialVars, vars>>
Card(A) == part = "card" /\ A
           /\ UNCHANGED <<part, parserVars, serialVars, sessionVars>>

\* All the clients have come and gone, or nothing more can happen to them.
Rest == part = "sessions" /\ UNCHANGED allVars

MCNext == ParserRuns \/ SerialRuns \/ Session(SessionNext) \/ Card(Next) \/ Rest

\* The scheduler lets the bridge thread run, below the threads that wait for
\* most of the time; a write ends where the client's end answers.  For the
\* card, see CardMonitor.
MCSpec == /\ MCInit /\ [][MCNext]_allVars
          /\ WF_allVars(Session(Bridge))
          /\ WF_allVars(Card(Poll)) /\ WF_allVars(Card(EndTransfer))
          /\ WF_allVars(Card(Main))

-----------------------------------------------------------------------------
TypesOK == ParserTypeOK /\ SerialTypeOK /\ SessionTypeOK /\ TypeOK

\* Both parsers send what a well-formed line means, whatever has come before
\* it, and netdemo's sends nothing else.
SentAsMeant == SentAsWritten /\ SendsOnlyLines /\ SerialAsWritten

\* The line a bridge prints for a data frame makes either bridge send that frame
\* again.
RoundTrip == EchoIsFrame /\ SerialEcho

\* The file system follows the card: when it is taken out for good, the file
\* system ends up unmounted, and when it stays in, mounted, unless mounting
\* failed or the card was back before main had seen it go: then main mounts
\* first and unmounts last (see the README).
FollowsCard == part = "card" => GoneIsUnmounted /\ StayingIsMounted
=============================================================================
