------------------------------- MODULE BootProofs -------------------------------
(***************************************************************************)
(* Proofs about BootProtocol, for any set of nodes that fits the table of  *)
(* the master, any sizes of pages, files, flash and buffers, and any       *)
(* number of faults.                                                       *)
(***************************************************************************)
EXTENDS BootProtocol, SequenceTheorems, TLAPS

(* Frames for a node, and frames for the master.                           *)
NodeFrame == [kind : {"reply"}, uid : Node] \cup [kind : {"data"}, page : Nat, number : Nat]
MasterFrame == [kind : {"ann"}, uid : Node] \cup [kind : {"req"}, dest : Nat, page : Nat]
Received == [id : Nat, frame : NodeFrame]
Contents == {"old", "new", "blank", "bad"}
Faults == [node : 0..MaxFaults, master : 0..MaxFaults, loss : 0..MaxFaults, card : 0..MaxFaults]

(* The types of TypeOK, one variable at a time, with those of the frames.  *)
NodeTypes ==
  /\ state \in [Node -> NodeStates]
  /\ tries \in [Node -> 0..MaxTries]
  /\ shortId \in [Node -> Nat] /\ page \in [Node -> Nat]
  /\ codeBuf \in [Node -> Seq(NodeFrame)]
  /\ \A n \in Node : Len(codeBuf[n]) <= Frames
  /\ flash \in [Node -> [FlashPage -> Contents]]
RxTypes ==
  /\ rx \in [Node -> Seq(Received)]
  /\ \A n \in Node : Len(rx[n]) <= RxObjects
MasterTypes ==
  /\ inbox \in Seq(MasterFrame) /\ Len(inbox) <= InboxSize
  /\ nodeMap \in Seq(Node)
  /\ serving \in [dest : Nat, page : Nat, next : Nat]
  /\ enableBootMaster \in BOOLEAN
FaultTypes == faults \in Faults

(* A node that announces itself has a try left, one that downloads a page  *)
(* has room left in its buffer.                                            *)
HasRoom(n) ==
  /\ n \in SelfStart /\ state[n] \in {"announce", "wait"} => tries[n] < MaxTries
  /\ state[n] = "download" => Len(codeBuf[n]) < Frames

Types == NodeTypes /\ RxTypes /\ MasterTypes /\ FaultTypes /\ \A n \in Node : HasRoom(n)

---------------------------------------------------------------------------------
LEMMA ToMasterTypes ==
  ASSUME MasterTypes, NEW f \in MasterFrame, ToMaster(f),
         UNCHANGED <<nodeMap, serving, enableBootMaster>>
  PROVE  MasterTypes'
BY BootAssumption DEF MasterTypes, ToMaster

LEMMA ToNodesTypes ==
  ASSUME RxTypes, shortId \in [Node -> Nat], NEW id \in Nat, NEW f \in NodeFrame, ToNodes(id, f)
  PROVE  RxTypes' /\ shortId' \in [Node -> Nat]
<1> DEFINE r == [id |-> id, frame |-> f]
<1>1. r \in Received
  BY DEF Received
<1>2. rx' = [n \in Node |-> IF Listens(n, id) /\ Room(n) THEN Append(rx[n], r) ELSE rx[n]]
  BY DEF ToNodes
<1> HIDE DEF r
<1>3. rx' \in [Node -> Seq(Received)]
  BY <1>1, <1>2 DEF RxTypes
<1>4. ASSUME NEW n \in Node PROVE Len(rx'[n]) <= RxObjects
  <2>1. rx[n] \in Seq(Received) /\ Len(rx[n]) \in Nat /\ Len(rx[n]) <= RxObjects
    BY DEF RxTypes
  <2>2. CASE Listens(n, id) /\ Room(n)
    <3>1. Len(rx[n]) < RxObjects
      BY <2>1, <2>2 DEF Room, RxObjects
    <3>2. Len(rx'[n]) = Len(rx[n]) + 1
      BY <1>1, <1>2, <2>1, <2>2
    <3> QED BY <2>1, <3>1, <3>2 DEF RxObjects
  <2>3. CASE ~(Listens(n, id) /\ Room(n))
    BY <1>2, <2>1, <2>3
  <2> QED BY <2>2, <2>3
<1>5. shortId' \in [Node -> Nat]
  BY DEF ToNodes
<1> QED BY <1>3, <1>4, <1>5 DEF RxTypes

LEMMA FaultKeeps ==
  ASSUME FaultTypes, NEW kind \in {"node", "master", "loss", "card"}, Fault(kind)
  PROVE  /\ FaultTypes'
         /\ faults'[kind] = faults[kind] + 1
         /\ \A other \in {"node", "master", "loss", "card"} \ {kind} : faults'[other] = faults[other]
<1>1. /\ faults.node \in Nat /\ faults.master \in Nat /\ faults.loss \in Nat /\ faults.card \in Nat
      /\ faults.node + faults.master + faults.loss + faults.card < MaxFaults
      /\ faults' = [faults EXCEPT ![kind] = @ + 1]
      /\ MaxFaults \in Nat
  BY BootAssumption DEF Fault, FaultTypes, Faults
<1>2. /\ faults.node + 1 <= MaxFaults /\ faults.master + 1 <= MaxFaults
      /\ faults.loss + 1 <= MaxFaults /\ faults.card + 1 <= MaxFaults
  BY <1>1
<1>3. FaultTypes'
  BY <1>1, <1>2 DEF FaultTypes, Faults
<1> QED BY <1>1, <1>3 DEF FaultTypes, Faults

LEMMA RunTypes ==
  ASSUME Types, NEW n \in Node, Run(n),
         tries' \in [Node -> 0..MaxTries],
         \A m \in Node \ {n} : tries'[m] = tries[m],
         UNCHANGED <<page, codeBuf, flash, nodeMap, serving, enableBootMaster, faults>>
  PROVE  Types'
<1>1. /\ state' = [state EXCEPT ![n] = "run"] /\ shortId' = [shortId EXCEPT ![n] = 0]
      /\ rx' = [rx EXCEPT ![n] = <<>>]
      /\ ToMaster(Announcement(n))
  BY DEF Run
<1>2. NodeTypes'
  BY <1>1 DEF Types, NodeTypes, NodeStates
<1>3. RxTypes'
  BY <1>1 DEF Types, RxTypes, RxObjects
<1>4. Announcement(n) \in MasterFrame
  BY DEF Announcement, MasterFrame
<1>5. MasterTypes'
  BY <1>1, <1>4, ToMasterTypes DEF Types
<1>6. \A m \in Node : HasRoom(m)'
  BY <1>1 DEF Types, NodeTypes, HasRoom
<1> QED BY <1>2, <1>3, <1>5, <1>6 DEF Types, FaultTypes

---------------------------------------------------------------------------------
(* The types, step by step.                                                *)

LEMMA InitTypes == Init => Types
<1> SUFFICES ASSUME Init PROVE Types
  OBVIOUS
<1>1. NodeTypes
  BY BootAssumption DEF Init, NodeTypes, NodeStates, Contents
<1>2. RxTypes
  BY DEF Init, RxTypes, RxObjects
<1>3. MasterTypes
  <2>1. inbox \in Seq(MasterFrame) /\ nodeMap \in Seq(Node) /\ Len(inbox) = 0
    BY DEF Init
  <2>2. serving \in [dest : Nat, page : Nat, next : Nat] /\ enableBootMaster \in BOOLEAN
    BY DEF Init, Idle
  <2> QED BY <2>1, <2>2, BootAssumption DEF MasterTypes
<1>4. FaultTypes
  BY BootAssumption DEF Init, FaultTypes, Faults
<1>5. \A n \in Node : HasRoom(n)
  BY BootAssumption DEF Init, HasRoom
<1> QED BY <1>1, <1>2, <1>3, <1>4, <1>5 DEF Types

(* The waits of bootCheck.                                                 *)
LEMMA CheckTypes ==
  ASSUME Types, NEW n \in Node, Announce(n) \/ CheckReply(n) \/ CheckTimeout(n)
  PROVE  Types'
<1>1. CASE Announce(n)
  <2>1. Announcement(n) \in MasterFrame
    BY DEF Announcement, MasterFrame
  <2>2. MasterTypes'
    BY <1>1, <2>1, ToMasterTypes DEF Types, Announce
  <2>3. NodeTypes' /\ RxTypes'
    BY <1>1 DEF Types, NodeTypes, NodeStates, RxTypes, Announce
  <2>4. \A m \in Node : HasRoom(m)'
    BY <1>1 DEF Types, NodeTypes, HasRoom, Announce
  <2> QED BY <1>1, <2>2, <2>3, <2>4 DEF Types, FaultTypes, Announce
<1>2. CASE CheckReply(n)
  <2>1. rx[n] \in Seq(Received) /\ rx[n] # <<>> /\ Len(rx[n]) <= RxObjects
    BY <1>2 DEF Types, RxTypes, CheckReply
  <2>2. Head(rx[n]).id \in Nat /\ Tail(rx[n]) \in Seq(Received) /\ Len(Tail(rx[n])) <= RxObjects
    <3>1. /\ Head(rx[n]) \in Received /\ Tail(rx[n]) \in Seq(Received)
          /\ Len(Tail(rx[n])) = Len(rx[n]) - 1 /\ Len(rx[n]) \in Nat
      BY <2>1, HeadTailProperties, LenProperties
    <3> QED BY <2>1, <3>1 DEF Received, RxObjects
  <2>3. RxTypes'
    BY <1>2, <2>2 DEF Types, RxTypes, CheckReply
  <2>4. NodeTypes'
    <3>1. /\ state' \in {state, [state EXCEPT ![n] = "request"]}
          /\ shortId' \in {shortId, [shortId EXCEPT ![n] = Head(rx[n]).id]}
          /\ page' \in {page, [page EXCEPT ![n] = 1]}
          /\ UNCHANGED <<tries, codeBuf, flash>>
      BY <1>2 DEF CheckReply
    <3>2. state' \in [Node -> NodeStates]
      BY <3>1 DEF Types, NodeTypes, NodeStates, Loading
    <3>3. shortId' \in [Node -> Nat]
      <4> DEFINE i == Head(rx[n]).id
      <4>1. i \in Nat /\ shortId \in [Node -> Nat] /\ shortId' \in {shortId, [shortId EXCEPT ![n] = i]}
        BY <2>2, <3>1 DEF Types, NodeTypes
      <4> HIDE DEF i
      <4> QED BY <4>1
    <3>4. page' \in [Node -> Nat]
      <4>1. page \in [Node -> Nat] /\ page' \in {page, [page EXCEPT ![n] = 1]}
        BY <3>1 DEF Types, NodeTypes
      <4> QED BY <4>1
    <3> QED BY <3>1, <3>2, <3>3, <3>4 DEF Types, NodeTypes
  <2>5. \A m \in Node : HasRoom(m)'
    BY <1>2 DEF Types, NodeTypes, HasRoom, CheckReply
  <2> QED BY <1>2, <2>3, <2>4, <2>5 DEF Types, MasterTypes, FaultTypes, CheckReply, master
<1>3. CASE CheckTimeout(n)
  <2>1. /\ state[n] = "wait" /\ tries[n] \in 0..MaxTries
        /\ n \in SelfStart => tries[n] < MaxTries
        /\ MaxTries \in Nat \ {0}
    BY <1>3, BootAssumption DEF Types, NodeTypes, HasRoom, CheckTimeout
  <2>2. /\ tries' \in [Node -> 0..MaxTries]
        /\ \A m \in Node \ {n} : tries'[m] = tries[m]
        /\ tries'[n] = IF n \in SelfStart THEN tries[n] + 1 ELSE 1
    BY <1>3, <2>1 DEF Types, NodeTypes, CheckTimeout
  <2>3. UNCHANGED <<page, codeBuf, flash, nodeMap, serving, enableBootMaster, faults>>
    BY <1>3 DEF CheckTimeout
  <2>4. CASE GivesUp(n)
    <3>1. Run(n)
      BY <1>3, <2>4 DEF CheckTimeout
    <3> QED BY <2>2, <2>3, <3>1, RunTypes
  <2>5. CASE ~GivesUp(n)
    <3>1. /\ state' = [state EXCEPT ![n] = "announce"]
          /\ UNCHANGED <<shortId, rx, inbox>>
      BY <1>3, <2>5 DEF CheckTimeout
    <3>2. NodeTypes'
      BY <2>2, <2>3, <3>1 DEF Types, NodeTypes, NodeStates
    <3>3. n \in SelfStart => tries'[n] < MaxTries
      BY <2>1, <2>2, <2>5 DEF GivesUp
    <3>4. \A m \in Node : HasRoom(m)'
      BY <2>2, <2>3, <3>1, <3>3 DEF Types, NodeTypes, HasRoom
    <3> QED BY <2>3, <3>1, <3>2, <3>4 DEF Types, RxTypes, MasterTypes, FaultTypes
  <2> QED BY <2>4, <2>5
<1> QED BY <1>1, <1>2, <1>3

(* download.                                                               *)
LEMMA DownloadTypes ==
  ASSUME Types, NEW n \in Node, RequestPage(n) \/ ReceiveFrame(n) \/ DownloadTimeout(n)
  PROVE  Types'
<1>1. CASE RequestPage(n)
  <2>1. Request(shortId[n], page[n]) \in MasterFrame
    BY DEF Request, MasterFrame, Types, NodeTypes
  <2>2. MasterTypes'
    BY <1>1, <2>1, ToMasterTypes DEF Types, RequestPage
  <2>3. RxTypes'
    BY <1>1 DEF Types, RxTypes, RequestPage
  <2>5. NodeTypes'
    <3>1. codeBuf' = [codeBuf EXCEPT ![n] = <<>>] /\ <<>> \in Seq(NodeFrame)
          /\ Len(<<>>) <= Frames
      BY <1>1, BootAssumption DEF RequestPage
    <3>2. codeBuf' \in [Node -> Seq(NodeFrame)] /\ \A m \in Node : Len(codeBuf'[m]) <= Frames
      BY <3>1 DEF Types, NodeTypes
    <3> QED BY <1>1, <3>2 DEF Types, NodeTypes, NodeStates, Loading, RequestPage
  <2>4. \A m \in Node : HasRoom(m)'
    BY <1>1, BootAssumption DEF Types, NodeTypes, HasRoom, RequestPage
  <2> QED BY <1>1, <2>2, <2>3, <2>4, <2>5 DEF Types, FaultTypes, RequestPage
<1>2. CASE ReceiveFrame(n)
  <2>1. rx[n] \in Seq(Received) /\ rx[n] # <<>> /\ Len(rx[n]) <= RxObjects
    BY <1>2 DEF Types, RxTypes, ReceiveFrame
  <2>2. Head(rx[n]).frame \in NodeFrame /\ Tail(rx[n]) \in Seq(Received) /\ Len(Tail(rx[n])) <= RxObjects
    <3>1. /\ Head(rx[n]) \in Received /\ Tail(rx[n]) \in Seq(Received)
          /\ Len(Tail(rx[n])) = Len(rx[n]) - 1 /\ Len(rx[n]) \in Nat
      BY <2>1, HeadTailProperties, LenProperties
    <3> QED BY <2>1, <3>1 DEF Received, RxObjects
  <2>3. RxTypes'
    BY <1>2, <2>2 DEF Types, RxTypes, ReceiveFrame
  <2>4. /\ codeBuf[n] \in Seq(NodeFrame) /\ Len(codeBuf[n]) < Frames /\ Frames \in Nat
    BY <1>2, BootAssumption DEF Types, NodeTypes, HasRoom, ReceiveFrame
  <2>5. /\ codeBuf' = [codeBuf EXCEPT ![n] = Append(@, Head(rx[n]).frame)]
        /\ codeBuf'[n] \in Seq(NodeFrame) /\ Len(codeBuf'[n]) = Len(codeBuf[n]) + 1
    BY <1>2, <2>2, <2>4 DEF Types, NodeTypes, ReceiveFrame
  <2>6. state' = [state EXCEPT ![n] = IF Len(codeBuf'[n]) = Frames THEN "erase" ELSE @]
    BY <1>2 DEF ReceiveFrame
  <2>7. NodeTypes'
    <3>1. state' \in [Node -> NodeStates]
      BY <2>6 DEF Types, NodeTypes, NodeStates, Loading
    <3>2. codeBuf' \in [Node -> Seq(NodeFrame)] /\ \A m \in Node : Len(codeBuf'[m]) <= Frames
      BY <2>4, <2>5 DEF Types, NodeTypes
    <3> QED BY <1>2, <3>1, <3>2 DEF Types, NodeTypes, ReceiveFrame
  <2>8. \A m \in Node : HasRoom(m)'
    <3> TAKE m \in Node
    <3>1. CASE m = n
      BY <1>2, <2>4, <2>5, <2>6, <3>1 DEF Types, NodeTypes, HasRoom, ReceiveFrame
    <3>2. CASE m # n
      BY <1>2, <2>5, <2>6, <3>2 DEF Types, NodeTypes, HasRoom, ReceiveFrame
    <3> QED BY <3>1, <3>2
  <2> QED BY <1>2, <2>3, <2>7, <2>8 DEF Types, MasterTypes, FaultTypes, ReceiveFrame, master
<1>3. CASE DownloadTimeout(n)
  <2>1. tries' = tries
    BY <1>3 DEF DownloadTimeout
  <2> QED BY <1>3, <2>1, RunTypes DEF DownloadTimeout, Types, NodeTypes
<1> QED BY <1>1, <1>2, <1>3

(* saveToFlash, and a reset.                                               *)
LEMMA FlashTypes ==
  ASSUME Types, NEW n \in Node, Erase(n) \/ Copy(n) \/ Restart(n)
  PROVE  Types'
<1>1. ASSUME NEW contents \in Contents, SetFlash(n, contents)
      PROVE  flash' \in [Node -> [FlashPage -> Contents]]
  BY <1>1 DEF SetFlash, Types, NodeTypes
<1>2. CASE Erase(n)
  <2>1. flash' \in [Node -> [FlashPage -> Contents]]
    BY <1>1, <1>2 DEF Erase, Contents
  <2>2. NodeTypes'
    BY <1>2, <2>1 DEF Types, NodeTypes, NodeStates, Loading, Erase
  <2>3. \A m \in Node : HasRoom(m)'
    BY <1>2 DEF Types, NodeTypes, HasRoom, Erase
  <2> QED BY <1>2, <2>2, <2>3 DEF Types, RxTypes, MasterTypes, FaultTypes, Erase, master
<1>3. CASE Copy(n)
  <2>1. flash' \in [Node -> [FlashPage -> Contents]]
    BY <1>1, <1>3 DEF Copy, Contents, Written
  <2>2. NodeTypes'
    <3>1. state' \in [Node -> NodeStates]
      BY <1>3 DEF Types, NodeTypes, NodeStates, Loading, Copy
    <3>2. page' \in [Node -> Nat]
      BY <1>3 DEF Types, NodeTypes, Copy
    <3> QED BY <1>3, <2>1, <3>1, <3>2 DEF Types, NodeTypes, Copy
  <2>3. \A m \in Node : HasRoom(m)'
    BY <1>3 DEF Types, NodeTypes, HasRoom, Copy
  <2> QED BY <1>3, <2>2, <2>3 DEF Types, RxTypes, MasterTypes, FaultTypes, Copy, master
<1>4. CASE Restart(n)
  <2>1. FaultTypes'
    BY <1>4, FaultKeeps DEF Types, Restart
  <2>2. NodeTypes' /\ RxTypes'
    BY <1>4, BootAssumption DEF Types, NodeTypes, NodeStates, RxTypes, RxObjects, Restart
  <2>3. \A m \in Node : HasRoom(m)'
    BY <1>4, BootAssumption DEF Types, NodeTypes, HasRoom, Restart
  <2> QED BY <1>4, <2>1, <2>2, <2>3 DEF Types, MasterTypes, Restart, master
<1> QED BY <1>2, <1>3, <1>4

(* What the master does next with its inbox, which loses its head.         *)
LEMMA TakesFrame ==
  ASSUME MasterTypes, inbox # <<>>, inbox' = Tail(inbox)
  PROVE  /\ Head(inbox) \in MasterFrame
         /\ inbox' \in Seq(MasterFrame) /\ Len(inbox') <= InboxSize
<1>1. /\ Head(inbox) \in MasterFrame /\ Tail(inbox) \in Seq(MasterFrame)
      /\ Len(Tail(inbox)) = Len(inbox) - 1 /\ Len(inbox) \in Nat
  BY HeadTailProperties, LenProperties DEF MasterTypes
<1> QED BY <1>1, BootAssumption DEF MasterTypes

(* A uid is in the table under its number, before or after it is added.    *)
LEMMA Numbers ==
  ASSUME MasterTypes, NEW n \in Node, Register(n)
  PROVE  /\ nodeMap' \in Seq(Node)
         /\ Number(n) \in DOMAIN nodeMap' /\ nodeMap'[Number(n)] = n
         /\ Number(n) \in Nat \ {0}
         /\ \A i \in DOMAIN nodeMap : i \in DOMAIN nodeMap' /\ nodeMap'[i] = nodeMap[i]
<1>1. nodeMap \in Seq(Node) /\ Len(nodeMap) \in Nat /\ DOMAIN nodeMap = 1..Len(nodeMap)
  BY LenProperties DEF MasterTypes
<1>2. CASE Known(n)
  <2>1. nodeMap' = nodeMap /\ Number(n) = CHOOSE i \in DOMAIN nodeMap : nodeMap[i] = n
    BY <1>2 DEF Register, Number
  <2>2. \E i \in DOMAIN nodeMap : nodeMap[i] = n
    BY <1>2 DEF Known
  <2>3. Number(n) \in DOMAIN nodeMap /\ nodeMap[Number(n)] = n
    BY <2>1, <2>2
  <2> QED BY <1>1, <2>1, <2>3
<1>3. CASE ~Known(n)
  <2>1. nodeMap' = Append(nodeMap, n) /\ Number(n) = Len(nodeMap) + 1
    BY <1>3 DEF Register, Number
  <2>2. /\ nodeMap' \in Seq(Node) /\ Len(nodeMap') = Len(nodeMap) + 1
        /\ nodeMap'[Len(nodeMap) + 1] = n
        /\ \A i \in 1..Len(nodeMap) : nodeMap'[i] = nodeMap[i]
    BY <1>1, <2>1, AppendProperties
  <2>3. DOMAIN nodeMap' = 1..(Len(nodeMap) + 1)
    BY <2>2, LenProperties
  <2> QED BY <1>1, <2>1, <2>2, <2>3
<1> QED BY <1>2, <1>3

(* can_rx and sendFile; the nodes they send to are where they were.        *)
LEMMA MasterKeepsTypes ==
  ASSUME Types, Master \/ Switch \/ RestartMaster
  PROVE  Types'
<1>1. CASE Ignore
  <2>1. MasterTypes'
    BY <1>1, TakesFrame DEF Types, MasterTypes, Ignore, Receives
  <2> QED BY <1>1, <2>1 DEF Types, NodeTypes, RxTypes, FaultTypes, HasRoom, Ignore, node
<1>2. CASE HandleAnnouncement
  <2> DEFINE n == Head(inbox).uid
  <2>1. inbox # <<>> /\ inbox' = Tail(inbox) /\ Head(inbox).kind = "ann"
    BY <1>2 DEF HandleAnnouncement, Receives
  <2>2. n \in Node /\ inbox' \in Seq(MasterFrame) /\ Len(inbox') <= InboxSize
    <3>1. Head(inbox) \in MasterFrame /\ inbox' \in Seq(MasterFrame) /\ Len(inbox') <= InboxSize
      BY <2>1, TakesFrame DEF Types
    <3> QED BY <2>1, <3>1 DEF MasterFrame
  <2>3. /\ Register(n)
        /\ \/ ToNodes(Number(n), Reply(n)) /\ UNCHANGED faults
           \/ Lose /\ UNCHANGED <<rx, shortId>>
        /\ UNCHANGED <<state, tries, page, codeBuf, flash, serving, enableBootMaster>>
    BY <1>2 DEF HandleAnnouncement
  <2> HIDE DEF n
  <2>4. Number(n) \in Nat /\ nodeMap' \in Seq(Node)
    BY <2>2, <2>3, Numbers DEF Types
  <2>5. MasterTypes'
    BY <2>2, <2>3, <2>4 DEF Types, MasterTypes
  <2>6. Reply(n) \in NodeFrame
    BY <2>2 DEF Reply, NodeFrame
  <2>7. RxTypes' /\ shortId' \in [Node -> Nat]
    BY <2>3, <2>4, <2>6, ToNodesTypes DEF Types, NodeTypes, RxTypes
  <2>8. FaultTypes'
    BY <2>3, FaultKeeps DEF Types, FaultTypes, Lose
  <2> QED BY <2>3, <2>5, <2>7, <2>8 DEF Types, NodeTypes, HasRoom
<1>3. CASE HandleRequest
  <2> DEFINE f == Head(inbox)
  <2>1. inbox # <<>> /\ inbox' = Tail(inbox) /\ f.kind = "req"
    BY <1>3 DEF HandleRequest, Receives
  <2>2. f.dest \in Nat /\ f.page \in Nat /\ inbox' \in Seq(MasterFrame) /\ Len(inbox') <= InboxSize
    <3>1. f \in MasterFrame /\ inbox' \in Seq(MasterFrame) /\ Len(inbox') <= InboxSize
      BY <2>1, TakesFrame DEF Types
    <3> QED BY <2>1, <3>1 DEF MasterFrame
  <2>3. /\ \/ serving' \in {Idle, [dest |-> f.dest, page |-> f.page, next |-> 1]} /\ UNCHANGED faults
           \/ CardFails
        /\ UNCHANGED <<node, rx, nodeMap, enableBootMaster>>
    BY <1>3 DEF HandleRequest, Seek
  <2> HIDE DEF f
  <2>4. serving' \in [dest : Nat, page : Nat, next : Nat]
    BY <2>2, <2>3 DEF Idle, CardFails
  <2>5. FaultTypes'
    BY <2>3, FaultKeeps DEF Types, FaultTypes, CardFails
  <2>6. MasterTypes'
    BY <2>2, <2>3, <2>4 DEF Types, MasterTypes
  <2> QED BY <2>3, <2>5, <2>6 DEF Types, NodeTypes, RxTypes, HasRoom, node
<1>4. CASE SendFrame
  <2>1. /\ \/ ToNodes(serving.dest, Data(serving.page, serving.next)) /\ UNCHANGED faults
           \/ Lose /\ UNCHANGED <<rx, shortId>>
        /\ serving' \in {Idle, [serving EXCEPT !.next = @ + 1]}
        /\ UNCHANGED <<state, tries, page, codeBuf, flash, inbox, nodeMap, enableBootMaster>>
    BY <1>4 DEF SendFrame
  <2>2. serving \in [dest : Nat, page : Nat, next : Nat]
    BY DEF Types, MasterTypes
  <2>3. Data(serving.page, serving.next) \in NodeFrame /\ serving.dest \in Nat
    BY <2>2 DEF Data, NodeFrame
  <2>4. RxTypes' /\ shortId' \in [Node -> Nat]
    BY <2>1, <2>3, ToNodesTypes DEF Types, NodeTypes, RxTypes
  <2>5. FaultTypes'
    BY <2>1, FaultKeeps DEF Types, FaultTypes, Lose
  <2>6. MasterTypes'
    BY <2>1, <2>2 DEF Types, MasterTypes, Idle
  <2> QED BY <2>1, <2>4, <2>5, <2>6 DEF Types, NodeTypes, HasRoom
<1>5. CASE ReadFails
  <2>1. FaultTypes'
    BY <1>5, FaultKeeps DEF Types, ReadFails, CardFails
  <2>2. MasterTypes'
    BY <1>5 DEF Types, MasterTypes, ReadFails, CardFails, Idle
  <2> QED BY <1>5, <2>1, <2>2 DEF Types, NodeTypes, RxTypes, HasRoom, ReadFails, node
<1>6. CASE Switch
  <2>1. MasterTypes'
    BY <1>6 DEF Types, MasterTypes, Switch, master
  <2> QED BY <1>6, <2>1 DEF Types, NodeTypes, RxTypes, FaultTypes, HasRoom, Switch, node
<1>7. CASE RestartMaster
  <2>1. FaultTypes'
    BY <1>7, FaultKeeps DEF Types, RestartMaster
  <2>2. MasterTypes'
    <3>1. inbox' \in Seq(MasterFrame) /\ nodeMap' \in Seq(Node) /\ Len(inbox') = 0
      BY <1>7 DEF RestartMaster
    <3>2. serving' \in [dest : Nat, page : Nat, next : Nat] /\ enableBootMaster' \in BOOLEAN
      BY <1>7 DEF RestartMaster, Idle
    <3> QED BY <3>1, <3>2, BootAssumption DEF MasterTypes
  <2> QED BY <1>7, <2>1, <2>2 DEF Types, NodeTypes, RxTypes, HasRoom, RestartMaster, node
<1> QED BY <1>1, <1>2, <1>3, <1>4, <1>5, <1>6, <1>7 DEF Master

LEMMA StepTypes == Types /\ [Next]_vars => Types'
<1> SUFFICES ASSUME Types, [Next]_vars PROVE Types'
  OBVIOUS
<1>1. ASSUME NEW n \in Node, Boot(n) \/ Restart(n) PROVE Types'
  BY <1>1, CheckTypes, DownloadTypes, FlashTypes DEF Boot
<1>2. CASE UNCHANGED vars
  BY <1>2 DEF vars, node, master, Types, NodeTypes, RxTypes, MasterTypes, FaultTypes, HasRoom
<1> QED BY <1>1, <1>2, MasterKeepsTypes DEF Next

(* Boot loader and boot master keep their counters, buffers and tables in  *)
(* range, whatever is lost, restarts or is read in vain.                   *)
THEOREM TypeCorrect == Spec => []TypeOK
<1>1. Types => TypeOK
  BY DEF Types, NodeTypes, RxTypes, MasterTypes, FaultTypes, Faults, Contents, TypeOK
<1> QED BY InitTypes, StepTypes, <1>1, PTL DEF Spec

---------------------------------------------------------------------------------
(* Short ids.  Two nodes with one id would both be what the table says it  *)
(* is the number of; so it is enough that ids, and the replies that have   *)
(* not been looked at yet, agree with the table.                           *)

Registered(map, i, n) == i \in DOMAIN map /\ map[i] = n

IdsAgree ==
  \A n \in Node : shortId[n] # 0 => Registered(nodeMap, shortId[n], n)
RepliesAgree ==
  \A n \in Node : \A k \in DOMAIN rx[n] : \A m \in Node :
    rx[n][k].frame = Reply(m) => Registered(nodeMap, rx[n][k].id, m)

Agree == faults.master = 0 => IdsAgree /\ RepliesAgree

(* Taking the first of the frames a node has received leaves no others.    *)
LEMMA FewerReplies ==
  ASSUME RxTypes, RepliesAgree, NEW n \in Node, rx[n] # <<>>,
         rx' \in {[rx EXCEPT ![n] = Tail(@)], [rx EXCEPT ![n] = <<>>]}, nodeMap' = nodeMap
  PROVE  RepliesAgree'
<1>1. /\ rx[n] \in Seq(Received) /\ Len(rx[n]) \in Nat /\ DOMAIN rx[n] = 1..Len(rx[n])
      /\ Tail(rx[n]) \in Seq(Received) /\ Len(Tail(rx[n])) = Len(rx[n]) - 1
      /\ \A i \in 1..Len(Tail(rx[n])) : Tail(rx[n])[i] = rx[n][i + 1]
  BY HeadTailProperties, LenProperties DEF RxTypes
<1>2. DOMAIN Tail(rx[n]) = 1..(Len(rx[n]) - 1)
  BY <1>1, LenProperties
<1>3. ASSUME NEW p \in Node, NEW k \in DOMAIN rx'[p]
      PROVE  \E j \in DOMAIN rx[p] : rx'[p][k] = rx[p][j]
  <2>1. CASE p # n
    BY <2>1, <1>3 DEF RxTypes
  <2>2. CASE p = n /\ rx'[n] = Tail(rx[n])
    <3>1. k \in 1..(Len(rx[n]) - 1) /\ rx'[n][k] = rx[n][k + 1]
      BY <2>2, <1>1, <1>2, <1>3
    <3>2. k + 1 \in DOMAIN rx[n]
      BY <1>1, <3>1
    <3> QED BY <2>2, <3>1, <3>2
  <2>3. CASE p = n /\ rx'[n] = <<>>
    BY <2>3, <1>3
  <2> QED BY <2>1, <2>2, <2>3 DEF RxTypes
<1> QED BY <1>3 DEF RepliesAgree, Registered

(* A frame for the nodes adds a reply at most, and one that agrees.        *)
LEMMA MoreReplies ==
  ASSUME RxTypes, shortId \in [Node -> Nat], IdsAgree, RepliesAgree,
         NEW id \in Nat, NEW f \in NodeFrame, ToNodes(id, f),
         \A m \in Node : f = Reply(m) => Registered(nodeMap', id, m),
         \A i \in DOMAIN nodeMap : i \in DOMAIN nodeMap' /\ nodeMap'[i] = nodeMap[i]
  PROVE  IdsAgree' /\ RepliesAgree'
<1> DEFINE r == [id |-> id, frame |-> f]
<1>1. r \in Received /\ r.id = id /\ r.frame = f
  BY DEF Received
<1>2. /\ rx' = [n \in Node |-> IF Listens(n, id) /\ Room(n) THEN Append(rx[n], r) ELSE rx[n]]
      /\ shortId' = [n \in Node |->
           IF state[n] = "run" /\ f = Reply(n) THEN id ELSE shortId[n]]
  BY DEF ToNodes
<1> HIDE DEF r
<1>3. ASSUME NEW n \in Node, NEW k \in DOMAIN rx'[n]
      PROVE  rx'[n][k] = r \/ \E j \in DOMAIN rx[n] : rx'[n][k] = rx[n][j]
  <2>1. rx[n] \in Seq(Received) /\ Len(rx[n]) \in Nat /\ DOMAIN rx[n] = 1..Len(rx[n])
    BY LenProperties DEF RxTypes
  <2>2. CASE rx'[n] = rx[n]
    BY <2>2, <1>3
  <2>3. CASE rx'[n] = Append(rx[n], r)
    <3>1. /\ Append(rx[n], r) \in Seq(Received)
          /\ Len(Append(rx[n], r)) = Len(rx[n]) + 1
          /\ \A i \in 1..Len(rx[n]) : Append(rx[n], r)[i] = rx[n][i]
          /\ Append(rx[n], r)[Len(rx[n]) + 1] = r
      BY <1>1, <2>1, AppendProperties
    <3>2. DOMAIN Append(rx[n], r) = 1..(Len(rx[n]) + 1)
      BY <3>1, LenProperties
    <3>3. k \in 1..Len(rx[n]) \/ k = Len(rx[n]) + 1
      BY <1>3, <2>1, <2>3, <3>2
    <3> QED BY <2>1, <2>3, <3>1, <3>3
  <2> QED BY <1>2, <2>2, <2>3
<1>4. RepliesAgree'
  <2> SUFFICES ASSUME NEW n \in Node, NEW k \in DOMAIN rx'[n], NEW m \in Node,
                      rx'[n][k].frame = Reply(m)
               PROVE  Registered(nodeMap', rx'[n][k].id, m)
    BY DEF RepliesAgree, Registered
  <2>1. CASE rx'[n][k] = r
    BY <2>1, <1>1 DEF Registered
  <2>2. CASE \E j \in DOMAIN rx[n] : rx'[n][k] = rx[n][j]
    BY <2>2 DEF RepliesAgree, Registered
  <2> QED BY <1>3, <2>1, <2>2
<1>5. IdsAgree'
  <2> SUFFICES ASSUME NEW n \in Node, shortId'[n] # 0
               PROVE  Registered(nodeMap', shortId'[n], n)
    BY DEF IdsAgree, Registered
  <2>1. CASE state[n] = "run" /\ f = Reply(n)
    BY <2>1, <1>2 DEF Registered
  <2>2. CASE ~(state[n] = "run" /\ f = Reply(n))
    BY <2>2, <1>2 DEF IdsAgree, Registered
  <2> QED BY <2>1, <2>2
<1> QED BY <1>4, <1>5

(* A node that forgets its id, and what it has received, agrees.           *)
LEMMA Forgets ==
  ASSUME Types, IdsAgree, RepliesAgree, NEW n \in Node, nodeMap' = nodeMap,
         shortId' = [shortId EXCEPT ![n] = 0], rx' = [rx EXCEPT ![n] = <<>>]
  PROVE  IdsAgree' /\ RepliesAgree'
<1>1. IdsAgree'
  BY DEF Types, NodeTypes, IdsAgree, Registered
<1>2. ASSUME NEW p \in Node, NEW k \in DOMAIN rx'[p] PROVE p # n /\ rx'[p] = rx[p]
  BY <1>2 DEF Types, RxTypes
<1>3. RepliesAgree'
  BY <1>2 DEF RepliesAgree, Registered
<1> QED BY <1>1, <1>3

LEMMA NodesAgree ==
  ASSUME Types, IdsAgree, RepliesAgree, NEW n \in Node, Boot(n) \/ Restart(n)
  PROVE  IdsAgree' /\ RepliesAgree'
<1>1. CASE CheckReply(n)
  <2>1. rx[n] # <<>> /\ rx' = [rx EXCEPT ![n] = Tail(@)] /\ nodeMap' = nodeMap
    BY <1>1 DEF CheckReply, master
  <2>2. RepliesAgree'
    BY <2>1, FewerReplies DEF Types
  <2>3. CASE Head(rx[n]).frame = Reply(n)
    <3>1. rx[n] \in Seq(Received) /\ 1 \in DOMAIN rx[n] /\ Head(rx[n]) = rx[n][1]
      BY <2>1, LenProperties, EmptySeq DEF Types, RxTypes
    <3>2. Registered(nodeMap, Head(rx[n]).id, n)
      BY <2>3, <3>1 DEF RepliesAgree
    <3>3. shortId' = [shortId EXCEPT ![n] = Head(rx[n]).id]
      BY <1>1, <2>3 DEF CheckReply
    <3>4. IdsAgree'
      BY <2>1, <3>2, <3>3 DEF Types, NodeTypes, IdsAgree, Registered
    <3> QED BY <2>2, <3>4
  <2>4. CASE Head(rx[n]).frame # Reply(n)
    <3>1. shortId' = shortId
      BY <1>1, <2>4 DEF CheckReply
    <3> QED BY <2>1, <2>2, <3>1 DEF IdsAgree, Registered
  <2> QED BY <2>3, <2>4
<1>2. CASE ReceiveFrame(n)
  <2>1. rx[n] # <<>> /\ rx' = [rx EXCEPT ![n] = Tail(@)] /\ nodeMap' = nodeMap /\ shortId' = shortId
    BY <1>2 DEF ReceiveFrame, master
  <2> QED BY <2>1, FewerReplies DEF Types, IdsAgree, Registered
<1>3. CASE Restart(n)
  BY <1>3, Forgets DEF Restart, master
<1>4. CASE DownloadTimeout(n)
  BY <1>4, Forgets DEF DownloadTimeout, Run
<1>5. CASE CheckTimeout(n)
  <2>1. CASE GivesUp(n)
    BY <1>5, <2>1, Forgets DEF CheckTimeout, Run
  <2>2. CASE ~GivesUp(n)
    <3>1. shortId' = shortId /\ rx' = rx /\ nodeMap' = nodeMap
      BY <1>5, <2>2 DEF CheckTimeout
    <3> QED BY <3>1 DEF IdsAgree, RepliesAgree, Registered
  <2> QED BY <2>1, <2>2
<1>6. CASE Announce(n) \/ RequestPage(n) \/ Erase(n) \/ Copy(n)
  <2>1. shortId' = shortId /\ rx' = rx /\ nodeMap' = nodeMap
    BY <1>6 DEF Announce, RequestPage, Erase, Copy, master
  <2> QED BY <2>1 DEF IdsAgree, RepliesAgree, Registered
<1> QED BY <1>1, <1>2, <1>3, <1>4, <1>5, <1>6 DEF Boot

LEMMA MasterAgrees ==
  ASSUME Types, IdsAgree, RepliesAgree, Master \/ Switch
  PROVE  IdsAgree' /\ RepliesAgree'
<1>1. CASE HandleAnnouncement
  <2> DEFINE n == Head(inbox).uid
  <2>1. n \in Node
    <3>1. inbox # <<>> /\ inbox' = Tail(inbox) /\ Head(inbox).kind = "ann"
      BY <1>1 DEF HandleAnnouncement, Receives
    <3>2. Head(inbox) \in MasterFrame
      BY <3>1, TakesFrame DEF Types
    <3> QED BY <3>1, <3>2 DEF MasterFrame
  <2>2. /\ Register(n)
        /\ ToNodes(Number(n), Reply(n)) \/ UNCHANGED <<rx, shortId>>
    BY <1>1 DEF HandleAnnouncement
  <2> HIDE DEF n
  <2>3. /\ Number(n) \in Nat /\ Registered(nodeMap', Number(n), n)
        /\ \A i \in DOMAIN nodeMap : i \in DOMAIN nodeMap' /\ nodeMap'[i] = nodeMap[i]
    BY <2>1, <2>2, Numbers DEF Types, Registered
  <2>4. CASE ToNodes(Number(n), Reply(n))
    <3>1. Reply(n) \in NodeFrame /\ \A m \in Node : Reply(n) = Reply(m) => m = n
      BY <2>1 DEF Reply, NodeFrame
    <3> QED BY <2>3, <2>4, <3>1, MoreReplies DEF Types, NodeTypes
  <2>5. CASE UNCHANGED <<rx, shortId>>
    BY <2>3, <2>5 DEF IdsAgree, RepliesAgree, Registered
  <2> QED BY <2>2, <2>4, <2>5
<1>2. CASE SendFrame
  <2> DEFINE f == Data(serving.page, serving.next)
  <2>1. serving \in [dest : Nat, page : Nat, next : Nat]
    BY DEF Types, MasterTypes
  <2>2. f \in NodeFrame /\ serving.dest \in Nat /\ \A m \in Node : f # Reply(m)
    BY <2>1 DEF Data, NodeFrame, Reply
  <2>3. /\ ToNodes(serving.dest, f) \/ UNCHANGED <<rx, shortId>>
        /\ nodeMap' = nodeMap
    BY <1>2 DEF SendFrame
  <2> HIDE DEF f
  <2>4. CASE ToNodes(serving.dest, f)
    BY <2>2, <2>3, <2>4, MoreReplies DEF Types, NodeTypes
  <2>5. CASE UNCHANGED <<rx, shortId>>
    BY <2>3, <2>5 DEF IdsAgree, RepliesAgree, Registered
  <2> QED BY <2>3, <2>4, <2>5
<1>3. CASE Ignore \/ HandleRequest \/ ReadFails \/ Switch
  <2>1. shortId' = shortId /\ rx' = rx /\ nodeMap' = nodeMap
    BY <1>3 DEF Ignore, HandleRequest, ReadFails, Switch, node, master
  <2> QED BY <2>1 DEF IdsAgree, RepliesAgree, Registered
<1> QED BY <1>1, <1>2, <1>3 DEF Master

LEMMA StepAgrees ==
  ASSUME Types, Agree, [Next]_vars
  PROVE  Agree'
<1>1. CASE RestartMaster
  <2>1. faults'["master"] = faults["master"] + 1 /\ faults.master \in Nat
    BY <1>1, FaultKeeps, BootAssumption DEF RestartMaster, Types, FaultTypes, Faults
  <2>2. faults'.master # 0
    BY <2>1
  <2> QED BY <2>2 DEF Agree
<1>2. ASSUME [Next]_vars, ~RestartMaster, faults'.master = 0
      PROVE  faults.master = 0
  <2>1. CASE UNCHANGED faults
    BY <1>2, <2>1
  <2>2. ASSUME NEW kind \in {"node", "loss", "card"}, Fault(kind)
        PROVE  faults.master = 0
    <3>1. faults'["master"] = faults["master"]
      BY <2>2, FaultKeeps DEF Types
    <3> QED BY <1>2, <3>1
  <2>3. \/ UNCHANGED faults
        \/ \E kind \in {"node", "loss", "card"} : Fault(kind)
    BY <1>2 DEF Next, Boot, Announce, CheckReply, CheckTimeout, RequestPage, ReceiveFrame,
         DownloadTimeout, Erase, Copy, Restart, Master, Ignore, HandleAnnouncement,
         HandleRequest, SendFrame, ReadFails, CardFails, Lose, Switch, vars
  <2> QED BY <2>1, <2>2, <2>3
<1>3. CASE UNCHANGED vars
  BY <1>3 DEF vars, node, master, Agree, IdsAgree, RepliesAgree, Registered
<1>4. CASE ~RestartMaster /\ ~UNCHANGED vars
  <2> SUFFICES ASSUME faults'.master = 0 PROVE IdsAgree' /\ RepliesAgree'
    BY DEF Agree
  <2>1. IdsAgree /\ RepliesAgree
    BY <1>2, <1>4 DEF Agree
  <2> QED BY <1>4, <2>1, NodesAgree, MasterAgrees DEF Next
<1> QED BY <1>1, <1>3, <1>4

---------------------------------------------------------------------------------
(* Blank pages.                                                            *)

LEMMA StepBlank ==
  ASSUME Types, BlankOnlyInCopy, [Next]_vars
  PROVE  BlankOnlyInCopy'
<1>1. faults.node > 0 => faults'.node > 0
  <2>1. faults.node \in Nat
    BY BootAssumption DEF Types, FaultTypes, Faults
  <2>2. CASE UNCHANGED faults
    BY <2>2
  <2>3. ASSUME NEW kind \in {"node", "master", "loss", "card"}, Fault(kind)
        PROVE  faults'.node >= faults.node
    <3>1. faults'["node"] \in {faults["node"], faults["node"] + 1}
      BY <2>3, FaultKeeps DEF Types
    <3> QED BY <2>1, <3>1
  <2>4. \/ UNCHANGED faults
        \/ \E kind \in {"node", "master", "loss", "card"} : Fault(kind)
    BY DEF Next, Boot, Announce, CheckReply, CheckTimeout, RequestPage, ReceiveFrame,
         DownloadTimeout, Erase, Copy, Restart, Master, Ignore, HandleAnnouncement,
         HandleRequest, SendFrame, ReadFails, CardFails, Lose, Switch, RestartMaster, vars
  <2>5. CASE \E kind \in {"node", "master", "loss", "card"} : Fault(kind)
    <3>1. faults'.node >= faults.node /\ faults'.node \in Nat
      BY <2>1, <2>3, <2>5, FaultKeeps, BootAssumption DEF Types, FaultTypes, Faults
    <3> QED BY <2>1, <3>1
  <2> QED BY <2>2, <2>4, <2>5
<1>2. ASSUME NEW n \in Node, Erase(n)
      PROVE  BlankOnlyInCopy'
  <2>1. /\ state[n] = "erase" /\ state' = [state EXCEPT ![n] = "copy"] /\ page' = page
        /\ flash' = [flash EXCEPT ![n] =
             [p \in FlashPage |-> IF p = page[n] THEN "blank" ELSE flash[n][p]]]
    BY <1>2 DEF Erase, SetFlash
  <2> SUFFICES ASSUME NEW m \in Node, NEW p \in FlashPage, flash'[m][p] = "blank"
               PROVE  (state'[m] = "copy" /\ page'[m] = p) \/ faults'.node > 0
    BY DEF BlankOnlyInCopy
  <2>2. CASE m = n /\ p = page[n]
    BY <2>1, <2>2 DEF Types, NodeTypes
  <2>3. CASE m = n /\ p # page[n]
    <3>1. flash[n][p] = "blank"
      BY <2>1, <2>3 DEF Types, NodeTypes
    <3> QED BY <1>1, <2>1, <2>3, <3>1 DEF BlankOnlyInCopy
  <2>4. CASE m # n
    BY <1>1, <2>1, <2>4 DEF Types, NodeTypes, BlankOnlyInCopy
  <2> QED BY <2>2, <2>3, <2>4
<1>3. ASSUME NEW n \in Node, Copy(n)
      PROVE  BlankOnlyInCopy'
  <2>1. /\ state[n] = "copy" /\ state' = [state EXCEPT ![n] = "request"]
        /\ page' = [page EXCEPT ![n] = @ + 1]
        /\ flash' = [flash EXCEPT ![n] =
             [p \in FlashPage |-> IF p = page[n] THEN Written(n) ELSE flash[n][p]]]
        /\ Written(n) # "blank"
    BY <1>3 DEF Copy, SetFlash, Written
  <2> SUFFICES ASSUME NEW m \in Node, NEW p \in FlashPage, flash'[m][p] = "blank"
               PROVE  (state'[m] = "copy" /\ page'[m] = p) \/ faults'.node > 0
    BY DEF BlankOnlyInCopy
  <2>2. CASE m = n
    <3>1. p # page[n] /\ flash[n][p] = "blank"
      BY <2>1, <2>2 DEF Types, NodeTypes
    <3> QED BY <1>1, <3>1 DEF BlankOnlyInCopy
  <2>3. CASE m # n
    BY <1>1, <2>1, <2>3 DEF Types, NodeTypes, BlankOnlyInCopy
  <2> QED BY <2>2, <2>3
<1>4. ASSUME NEW n \in Node, Restart(n)
      PROVE  BlankOnlyInCopy'
  <2>1. faults'["node"] = faults["node"] + 1 /\ faults.node \in Nat
    BY <1>4, FaultKeeps, BootAssumption DEF Restart, Types, FaultTypes, Faults
  <2>2. faults'.node > 0
    BY <2>1
  <2> QED BY <2>2 DEF BlankOnlyInCopy
<1>5. ASSUME NEW n \in Node,
             \/ Announce(n) \/ CheckReply(n) \/ CheckTimeout(n)
             \/ RequestPage(n) \/ ReceiveFrame(n) \/ DownloadTimeout(n)
      PROVE  BlankOnlyInCopy'
  <2>1. /\ flash' = flash /\ state[n] # "copy"
        /\ \A m \in Node \ {n} : state'[m] = state[m] /\ page'[m] = page[m]
    BY <1>5 DEF Announce, CheckReply, CheckTimeout, RequestPage, ReceiveFrame,
                DownloadTimeout, Run, Types, NodeTypes
  <2> SUFFICES ASSUME NEW m \in Node, NEW p \in FlashPage, flash'[m][p] = "blank"
               PROVE  (state'[m] = "copy" /\ page'[m] = p) \/ faults'.node > 0
    BY DEF BlankOnlyInCopy
  <2>2. CASE m = n
    BY <1>1, <2>1, <2>2 DEF BlankOnlyInCopy
  <2>3. CASE m # n
    BY <1>1, <2>1, <2>3 DEF BlankOnlyInCopy
  <2> QED BY <2>2, <2>3
<1>6. CASE Master \/ Switch \/ RestartMaster \/ UNCHANGED vars
  <2>1. flash' = flash /\ state' = state /\ page' = page
    BY <1>6 DEF Master, Ignore, HandleAnnouncement, HandleRequest, SendFrame, ReadFails,
                Switch, RestartMaster, vars, node
  <2> QED BY <1>1, <2>1 DEF BlankOnlyInCopy
<1> QED BY <1>2, <1>3, <1>4, <1>5, <1>6 DEF Next, Boot

(* Without restarts, whatever frames are lost, answers come late, files    *)
(* cannot be read, and whoever switches the master off: ids are unique,    *)
(* and only the page that is being written is blank.                       *)
THEOREM OnlyRestartsHurtHolds == Spec => []OnlyRestartsHurt
<1> DEFINE SafeInv == Types /\ Agree /\ BlankOnlyInCopy
<1>1. Init => SafeInv
  <2> SUFFICES ASSUME Init PROVE Agree /\ BlankOnlyInCopy
    BY InitTypes
  <2>1. Agree
    BY DEF Init, Agree, IdsAgree, RepliesAgree
  <2>2. BlankOnlyInCopy
    BY DEF Init, BlankOnlyInCopy
  <2> QED BY <2>1, <2>2
<1>2. SafeInv /\ [Next]_vars => SafeInv'
  BY StepTypes, StepAgrees, StepBlank
<1>3. SafeInv => OnlyRestartsHurt
  <2> SUFFICES ASSUME SafeInv PROVE UniqueIds
    BY DEF OnlyRestartsHurt
  <2> SUFFICES ASSUME faults.master = 0, NEW m \in Node, NEW n \in Node, m # n, shortId[m] # 0
               PROVE  shortId[m] # shortId[n]
    BY DEF UniqueIds
  <2> QED BY DEF Agree, IdsAgree, Registered
<1> QED BY <1>1, <1>2, <1>3, PTL DEF Spec
=================================================================================
