---------------------------- MODULE BridgeSession ----------------------------
(***************************************************************************)
(* The connections of the CAN bridge (apps/netdemo/main.c): the bridge     *)
(* thread serves one client after the other and tells the two CAN threads, *)
(* through currConn, where to write the frames they see.  These threads    *)
(* have a higher priority than the bridge: it does nothing between their   *)
(* test of currConn and the start of their write, but a write waits for    *)
(* the network, and everything may happen until it ends.                   *)
(***************************************************************************)
EXTENDS Naturals

CONSTANT MaxClients    \* bound: clients that connect, numbered in their order

ASSUME ClientsAssumption == MaxClients \in Nat

VARIABLES
  conn,       \* "none", "queued", "open", "closed", "deleted"
  peer,       \* the client's end: "up", "closed", or "silent" for good
  bridge,     \* the bridge's next call: "accept", "greet", "recv", "clear",
              \* "close", "delete"
  newconn,    \* the connection it serves
  currConn,   \* where the CAN threads write, 0 for nowhere
  writing,    \* the connection each of them waits for, 0 for none
  greeted     \* history: connections the greeting has been written to

sessionVars == <<conn, peer, bridge, newconn, currConn, writing, greeted>>

Clients == 1..MaxClients
CanThreads == {"can_rx", "can_tx"}

SessionInit ==
  /\ conn = [c \in Clients |-> "none"] /\ peer = [c \in Clients |-> "up"]
  /\ bridge = "accept" /\ newconn = 0 /\ currConn = 0
  /\ writing = [t \in CanThreads |-> 0] /\ greeted = {}

-----------------------------------------------------------------------------
(* The network.                                                            *)

ClientConnects(c) ==
  /\ conn[c] = "none" /\ \A d \in 1..(c - 1) : conn[d] # "none"
  /\ conn' = [conn EXCEPT ![c] = "queued"]
  /\ UNCHANGED <<peer, bridge, newconn, currConn, writing, greeted>>

ClientLeaves(c, how) ==
  /\ conn[c] # "none" /\ peer[c] = "up"
  /\ peer' = [peer EXCEPT ![c] = how]
  /\ UNCHANGED <<conn, bridge, newconn, currConn, writing, greeted>>

-----------------------------------------------------------------------------
(* canBridge and canBridge_serve.                                          *)

Calls(call, next) == bridge = call /\ bridge' = next /\ UNCHANGED <<peer, writing>>

Accept ==
  \E c \in Clients :
    /\ conn[c] = "queued" /\ \A d \in 1..(c - 1) : conn[d] # "queued"
    /\ Calls("accept", "greet")
    /\ conn' = [conn EXCEPT ![c] = "open"] /\ newconn' = c
    /\ UNCHANGED <<currConn, greeted>>

Greet == /\ Calls("greet", "recv")
         /\ greeted' = greeted \cup {newconn}
         /\ currConn' = newconn
         /\ UNCHANGED <<conn, newconn>>

\* Mutant of Ended: an empty answer is taken for a chunk.
EndedNever(end) == FALSE
Ended(end) == end = "closed"

\* netconn_recv returns an error; what it has received before goes to the
\* parser and changes nothing here.
RecvFails == /\ Calls("recv", "clear") /\ Ended(peer[newconn])
             /\ UNCHANGED <<conn, newconn, currConn, greeted>>

\* Mutant of Cleared: the CAN threads are not told.
ClearedNot == currConn
Cleared == 0

Clear == /\ Calls("clear", "close")
         /\ currConn' = Cleared
         /\ UNCHANGED <<conn, newconn, greeted>>

Close == /\ Calls("close", "delete")
         /\ conn' = [conn EXCEPT ![newconn] = "closed"]
         /\ UNCHANGED <<newconn, currConn, greeted>>

Delete == /\ Calls("delete", "accept")
          /\ conn' = [conn EXCEPT ![newconn] = "deleted"]
          /\ UNCHANGED <<newconn, currConn, greeted>>

Bridge == Accept \/ Greet \/ RecvFails \/ Clear \/ Close \/ Delete

\* canToBridge, for a frame received or sent.
canToBridgeStarts(t) ==
  /\ writing[t] = 0 /\ currConn # 0
  /\ writing' = [writing EXCEPT ![t] = currConn]
  /\ UNCHANGED <<conn, peer, bridge, newconn, currConn, greeted>>

\* netconn_write returns; to a client that is silent it may not.
canToBridgeEnds(t) ==
  /\ writing[t] # 0 /\ peer[writing[t]] # "silent"
  /\ writing' = [writing EXCEPT ![t] = 0]
  /\ UNCHANGED <<conn, peer, bridge, newconn, currConn, greeted>>

SessionNext ==
  \/ \E c \in Clients : ClientConnects(c) \/ ClientLeaves(c, "closed") \/ ClientLeaves(c, "silent")
  \/ Bridge
  \/ \E t \in CanThreads : canToBridgeStarts(t) \/ canToBridgeEnds(t)

SessionSpec == SessionInit /\ [][SessionNext]_sessionVars

-----------------------------------------------------------------------------
SessionTypeOK ==
  /\ conn \in [Clients -> {"none", "queued", "open", "closed", "deleted"}]
  /\ peer \in [Clients -> {"up", "closed", "silent"}]
  /\ bridge \in {"accept", "greet", "recv", "clear", "close", "delete"}
  /\ {newconn, currConn} \subseteq 0..MaxClients
  /\ writing \in [CanThreads -> 0..MaxClients] /\ greeted \subseteq Clients

\* No write starts on a connection that the bridge has closed or deleted, or
\* before the greeting, and there is never more than one session.  (A write that has
\* started may well outlive its connection.)
SessionOpen ==
  /\ currConn # 0 => conn[currConn] = "open" /\ currConn \in greeted
  /\ \A c, d \in Clients : conn[c] = "open" /\ conn[d] = "open" => c = d
  /\ \A t \in CanThreads : writing[t] # 0 => writing[t] \in greeted

\* A client that waits is served when all the clients before it have closed their
\* ends, whatever the CAN threads are waiting for.
NextIsServed ==
  \A c \in Clients :
    conn[c] = "queued" /\ (\A d \in 1..(c - 1) : peer[d] = "closed")
      ~> currConn = c
=============================================================================
