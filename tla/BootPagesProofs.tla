---------------------------- MODULE BootPagesProofs ----------------------------
(***************************************************************************)
(* Proofs about the pages that BootProtocol downloads: that a page that is *)
(* written is the page of the file, and that a program is downloaded to    *)
(* its end.  Both are about a bus on which answers come in time, with      *)
(* everything as general as in BootProofs otherwise.                       *)
(***************************************************************************)
EXTENDS BootProofs, MCBootPrompt

(* Whole pages.  Frames carry no number, so what makes a full buffer the   *)
(* page is that all its frames are of the one row that was asked for: a    *)
(* node asks once, for one page, is the only one with its id, and is not   *)
(* served again before it has given up or got Frames of them.              *)

(* The frames a node has got of the row, in its buffer and in its message  *)
(* objects.                                                                *)
Got(n) == Len(codeBuf[n]) + Len(rx[n])
GotAt(n, i) == IF i <= Len(codeBuf[n]) THEN codeBuf[n][i] ELSE rx[n][i - Len(codeBuf[n])].frame

(* The last frame of the row that can be among them.                       *)
Served(n) == serving # Idle /\ serving.dest = shortId[n]
Upto(n) == IF Served(n) THEN serving.next - 1 ELSE Frames

(* Each stands as far in the row as in the buffer, or farther, and leaves  *)
(* room for those behind it; a full buffer has no choice.                  *)
Row(n) ==
  \A i \in 1..Got(n) :
    /\ page[n] \in FilePage
    /\ \E k \in i..(Upto(n) - (Got(n) - i)) : GotAt(n, i) = Data(page[n], k)

Unanswered(n) == \A k \in DOMAIN rx[n] : rx[n][k].frame # Reply(n)

NodeInv(n) ==
  /\ state[n] \in {"announce", "wait"} => Len(rx[n]) <= 1 /\ page[n] = 0
  /\ state[n] \in Loading => shortId[n] # 0 /\ page[n] # 0
  /\ state[n] # "wait" => Unanswered(n)
  /\ state[n] \in {"request", "erase", "copy"} => rx[n] = <<>>
  /\ state[n] = "download" => Row(n)
  /\ state[n] \in {"erase", "copy"} => codeBuf[n] = WholePage(page[n]) /\ page[n] \in FilePage
  /\ \A p \in FlashPage : flash[n][p] # "bad"

(* An announcement is that of a node that waits for the answer, or of an   *)
(* application, and a node has one on its way at most.                     *)
AnnOnce == \A j, k \in DOMAIN inbox : inbox[j].kind = "ann" /\ inbox[j] = inbox[k] => j = k
AnnFrom ==
  \A j \in DOMAIN inbox : \A n \in Node :
    inbox[j] = Announcement(n) => \/ state[n] = "wait" /\ Unanswered(n)
                                  \/ state[n] = "run"

(* A request is that of a node that has got nothing yet, and it has one on *)
(* its way at most, or is being served.                                    *)
Downloads(n, id, p) == state[n] = "download" /\ shortId[n] = id /\ page[n] = p
ReqFrom ==
  \A j \in DOMAIN inbox : inbox[j].kind = "req" =>
    \E n \in Node : Downloads(n, inbox[j].dest, inbox[j].page) /\ codeBuf[n] = <<>> /\ rx[n] = <<>>
ReqOnce ==
  \A j, k \in DOMAIN inbox :
    inbox[j].kind = "req" /\ inbox[k].kind = "req" /\ inbox[j].dest = inbox[k].dest => j = k
ReqWaits ==
  \A j \in DOMAIN inbox : inbox[j].kind = "req" /\ serving # Idle => serving.dest # inbox[j].dest
ServedAsks ==
  serving # Idle =>
    /\ serving.page \in FilePage /\ serving.next \in 1..Frames
    /\ \E n \in Node : Downloads(n, serving.dest, serving.page)

Rows == /\ AnnOnce /\ AnnFrom /\ ReqFrom /\ ReqOnce /\ ReqWaits /\ ServedAsks
        /\ \A n \in Node : NodeInv(n)
Ids == IdsAgree /\ RepliesAgree

---------------------------------------------------------------------------------
LEMMA OneId ==
  ASSUME IdsAgree, NEW m \in Node, NEW n \in Node, shortId[m] = shortId[n], shortId[n] # 0
  PROVE  m = n
BY DEF IdsAgree, Registered

(* A frame that is sent to the master is the only new one, and is last.    *)
LEMMA Sends ==
  ASSUME MasterTypes, NEW f \in MasterFrame, ToMaster(f)
  PROVE  /\ \A j \in DOMAIN inbox' :
           \/ j \in DOMAIN inbox /\ inbox'[j] = inbox[j]
           \/ j = Len(inbox) + 1 /\ j \notin DOMAIN inbox /\ inbox'[j] = f
         /\ \A j \in DOMAIN inbox : j \in DOMAIN inbox' /\ inbox'[j] = inbox[j]
         /\ Len(inbox) < InboxSize => \E j \in DOMAIN inbox' : inbox'[j] = f
<1>1. inbox \in Seq(MasterFrame) /\ Len(inbox) \in Nat /\ DOMAIN inbox = 1..Len(inbox)
  BY LenProperties DEF MasterTypes
<1>2. CASE inbox' = Append(inbox, f)
  <2>1. /\ inbox' \in Seq(MasterFrame) /\ Len(inbox') = Len(inbox) + 1
        /\ \A i \in 1..Len(inbox) : inbox'[i] = inbox[i]
        /\ inbox'[Len(inbox) + 1] = f
    BY <1>1, <1>2, AppendProperties
  <2>2. DOMAIN inbox' = 1..(Len(inbox) + 1)
    BY <2>1, LenProperties
  <2> QED BY <1>1, <2>1, <2>2
<1> QED BY <1>2 DEF ToMaster

(* What the master takes was the first.                                    *)
LEMMA Takes ==
  ASSUME MasterTypes, inbox # <<>>, inbox' = Tail(inbox)
  PROVE  /\ 1 \in DOMAIN inbox /\ Head(inbox) = inbox[1]
         /\ \A j \in DOMAIN inbox' : /\ j \in Nat \ {0} /\ j + 1 \in DOMAIN inbox
                                     /\ inbox'[j] = inbox[j + 1]
<1>1. /\ inbox \in Seq(MasterFrame) /\ Len(inbox) \in Nat /\ DOMAIN inbox = 1..Len(inbox)
      /\ Len(inbox) # 0
  BY LenProperties, EmptySeq DEF MasterTypes
<1>2. /\ inbox' \in Seq(MasterFrame) /\ Len(inbox') = Len(inbox) - 1
      /\ \A i \in 1..Len(inbox') : inbox'[i] = inbox[i + 1]
      /\ Head(inbox) = inbox[1]
  BY <1>1, HeadTailProperties DEF MasterTypes
<1>3. DOMAIN inbox' = 1..(Len(inbox) - 1)
  BY <1>2, LenProperties
<1> QED BY <1>1, <1>2, <1>3

(* What a node does leaves the others and the sendFile of the master alone.*)
LEMMA OthersStay ==
  ASSUME Types, NEW n \in Node, Boot(n)
  PROVE  /\ serving' = serving /\ nodeMap' = nodeMap /\ faults' = faults
         /\ enableBootMaster' = enableBootMaster
         /\ \A m \in Node \ {n} :
              /\ state'[m] = state[m] /\ shortId'[m] = shortId[m] /\ page'[m] = page[m]
              /\ codeBuf'[m] = codeBuf[m] /\ rx'[m] = rx[m] /\ flash'[m] = flash[m]
BY DEF Boot, Announce, CheckReply, CheckTimeout, RequestPage, ReceiveFrame, DownloadTimeout,
       Erase, Copy, Run, SetFlash, master, Types, NodeTypes, RxTypes

(* A node that has nothing new, and whose row is still one.                *)
LEMMA NodeStays ==
  ASSUME NEW m \in Node, NodeInv(m),
         state'[m] = state[m], shortId'[m] = shortId[m], page'[m] = page[m],
         codeBuf'[m] = codeBuf[m], rx'[m] = rx[m], flash'[m] = flash[m],
         serving' = serving \/ Upto(m)' = Upto(m) \/ (state[m] = "download" => Row(m)')
  PROVE  NodeInv(m)'
<1>1. Got(m)' = Got(m) /\ \A i : GotAt(m, i)' = GotAt(m, i)
  BY DEF Got, GotAt
<1>2. serving' = serving => Upto(m)' = Upto(m)
  BY DEF Upto, Served
<1>3. state[m] = "download" => Row(m)'
  BY <1>1, <1>2 DEF Row, NodeInv
<1>4. Unanswered(m)' = Unanswered(m)
  BY DEF Unanswered
<1> QED BY <1>3, <1>4 DEF NodeInv

(* The frames on their way to the master after a step of node n, that may  *)
(* send it f.                                                              *)
LEMMA NodeSends ==
  ASSUME Types, Rows, NEW n \in Node, Boot(n), NodeInv(n)', NEW f \in MasterFrame,
         inbox' = inbox \/ ToMaster(f),
         \/ inbox' = inbox
         \/ /\ f = Announcement(n) /\ \A j \in DOMAIN inbox : inbox[j] # f
            /\ (state'[n] = "wait" /\ Unanswered(n)') \/ state'[n] = "run"
         \/ /\ f.kind = "req" /\ Downloads(n, f.dest, f.page)' /\ codeBuf'[n] = <<>> /\ rx'[n] = <<>>
            /\ \A j \in DOMAIN inbox : inbox[j].kind = "req" => inbox[j].dest # f.dest
            /\ serving # Idle => serving.dest # f.dest,
         \A j \in DOMAIN inbox : inbox[j] = Announcement(n) =>
           (state'[n] = "wait" /\ Unanswered(n)') \/ state'[n] = "run",
         state[n] = "download" /\ rx[n] = <<>> =>
           \A j \in DOMAIN inbox : inbox[j].kind = "req" => inbox[j].dest # shortId[n],
         serving # Idle => (Downloads(n, serving.dest, serving.page) =>
                            Downloads(n, serving.dest, serving.page)')
  PROVE  Rows'
<1>1. \A j \in DOMAIN inbox' :
        \/ j \in DOMAIN inbox /\ inbox'[j] = inbox[j]
        \/ j = Len(inbox) + 1 /\ j \notin DOMAIN inbox /\ inbox'[j] = f
           /\ inbox' # inbox
  BY Sends DEF Types
<1>2. Announcement(n).kind = "ann" /\ \A m \in Node : Announcement(m) = Announcement(n) => m = n
  BY DEF Announcement
<1>3. ASSUME inbox' # inbox, f.kind # "req"
     PROVE  /\ f = Announcement(n) /\ \A j \in DOMAIN inbox : inbox[j] # f
            /\ (state'[n] = "wait" /\ Unanswered(n)') \/ state'[n] = "run"
  BY <1>3
<1>4. ASSUME inbox' # inbox, f.kind = "req"
     PROVE  /\ Downloads(n, f.dest, f.page)' /\ codeBuf'[n] = <<>> /\ rx'[n] = <<>>
            /\ \A j \in DOMAIN inbox : inbox[j].kind = "req" => inbox[j].dest # f.dest
            /\ serving # Idle => serving.dest # f.dest
  BY <1>2, <1>4
<1>5. /\ serving' = serving
      /\ \A m \in Node \ {n} :
           /\ state'[m] = state[m] /\ shortId'[m] = shortId[m] /\ page'[m] = page[m]
           /\ codeBuf'[m] = codeBuf[m] /\ rx'[m] = rx[m] /\ flash'[m] = flash[m]
  BY OthersStay
<1>6. \A m \in Node : NodeInv(m)'
  BY <1>5, NodeStays DEF Rows
<1>7. AnnOnce'
  <2> SUFFICES ASSUME NEW j \in DOMAIN inbox', NEW k \in DOMAIN inbox',
                      inbox'[j].kind = "ann", inbox'[j] = inbox'[k]
               PROVE  j = k
    BY DEF AnnOnce
  <2>1. inbox' # inbox /\ f.kind = "ann" => \A i \in DOMAIN inbox : inbox[i] # f
    BY <1>3
  <2>2. CASE j \in DOMAIN inbox /\ inbox'[j] = inbox[j] /\ k \in DOMAIN inbox /\ inbox'[k] = inbox[k]
    BY <2>2 DEF Rows, AnnOnce
  <2>3. CASE inbox' # inbox /\ (inbox'[j] = f \/ inbox'[k] = f)
    BY <1>1, <2>1, <2>3
  <2> QED BY <1>1, <2>2, <2>3
<1>8. AnnFrom'
  <2> SUFFICES ASSUME NEW j \in DOMAIN inbox', NEW m \in Node, inbox'[j] = Announcement(m)
               PROVE  (state'[m] = "wait" /\ Unanswered(m)') \/ state'[m] = "run"
    BY DEF AnnFrom
  <2>1. CASE j \in DOMAIN inbox /\ inbox'[j] = inbox[j]
    <3>1. CASE m = n
      BY <2>1, <3>1
    <3>2. CASE m # n
      <4>1. (state[m] = "wait" /\ Unanswered(m)) \/ state[m] = "run"
        BY <2>1 DEF Rows, AnnFrom
      <4> QED BY <1>5, <3>2, <4>1 DEF Unanswered
    <3> QED BY <3>1, <3>2
  <2>2. CASE j \notin DOMAIN inbox /\ inbox'[j] = f /\ inbox' # inbox
    <3>1. f.kind # "req"
      BY <2>2 DEF Announcement
    <3>2. m = n
      BY <1>3, <1>2, <2>2, <3>1
    <3> QED BY <1>3, <2>2, <3>1, <3>2
  <2> QED BY <1>1, <2>1, <2>2
<1>9. ReqFrom'
  <2> SUFFICES ASSUME NEW j \in DOMAIN inbox', inbox'[j].kind = "req"
               PROVE  \E m \in Node : /\ Downloads(m, inbox[j].dest, inbox[j].page)'
                                      /\ codeBuf'[m] = <<>> /\ rx'[m] = <<>>
    BY DEF ReqFrom
  <2>1. CASE j \in DOMAIN inbox /\ inbox'[j] = inbox[j]
    <3>1. PICK m \in Node : /\ Downloads(m, inbox[j].dest, inbox[j].page)
                            /\ codeBuf[m] = <<>> /\ rx[m] = <<>>
      BY <2>1 DEF Rows, ReqFrom
    <3>2. m # n
      BY <2>1, <3>1 DEF Downloads
    <3> QED BY <1>5, <2>1, <3>1, <3>2 DEF Downloads
  <2>2. CASE inbox'[j] = f /\ inbox' # inbox
    <3>1. f.kind = "req"
      BY <2>2
    <3>2. Downloads(n, f.dest, f.page)' /\ codeBuf'[n] = <<>> /\ rx'[n] = <<>>
      BY <1>4, <2>2, <3>1
    <3> QED BY <2>2, <3>2 DEF Downloads
  <2> QED BY <1>1, <2>1, <2>2
<1>10. ReqOnce' /\ ReqWaits'
  <2>1. ReqOnce'
    <3> SUFFICES ASSUME NEW j \in DOMAIN inbox', NEW k \in DOMAIN inbox',
                        inbox'[j].kind = "req", inbox'[k].kind = "req",
                        inbox'[j].dest = inbox'[k].dest
                 PROVE  j = k
      BY DEF ReqOnce
    <3>1. inbox' # inbox /\ f.kind = "req" => \A i \in DOMAIN inbox : inbox[i].kind = "req" => inbox[i].dest # f.dest
      BY <1>4
    <3>2. CASE inbox'[j] = inbox[j] /\ inbox'[k] = inbox[k] /\ j \in DOMAIN inbox /\ k \in DOMAIN inbox
      BY <3>2 DEF Rows, ReqOnce
    <3>3. CASE inbox' # inbox /\ (inbox'[j] = f \/ inbox'[k] = f)
      BY <1>1, <3>1, <3>3
    <3> QED BY <1>1, <3>2, <3>3
  <2>2. ReqWaits'
    <3> SUFFICES ASSUME NEW j \in DOMAIN inbox', inbox'[j].kind = "req", serving # Idle
                 PROVE  serving.dest # inbox'[j].dest
      BY <1>5 DEF ReqWaits
    <3>1. CASE j \in DOMAIN inbox /\ inbox'[j] = inbox[j]
      BY <3>1 DEF Rows, ReqWaits
    <3>2. CASE inbox'[j] = f /\ inbox' # inbox
      BY <1>4, <3>2
    <3> QED BY <1>1, <3>1, <3>2
  <2> QED BY <2>1, <2>2
<1>11. ServedAsks'
  <2> SUFFICES ASSUME serving # Idle
               PROVE  \E m \in Node : Downloads(m, serving.dest, serving.page)'
    BY <1>5 DEF Rows, ServedAsks, Downloads
  <2>1. PICK m \in Node : Downloads(m, serving.dest, serving.page)
    BY DEF Rows, ServedAsks
  <2> QED BY <1>5, <2>1 DEF Downloads
<1> QED BY <1>6, <1>7, <1>8, <1>9, <1>10, <1>11 DEF Rows

(* Taking the first of the frames a node has received.                     *)
LEMMA FirstFrame ==
  ASSUME RxTypes, NEW n \in Node, rx[n] # <<>>, rx' = [rx EXCEPT ![n] = Tail(@)]
  PROVE  /\ rx[n] \in Seq(Received) /\ Len(rx[n]) \in Nat /\ DOMAIN rx[n] = 1..Len(rx[n])
         /\ Len(rx[n]) > 0 /\ Head(rx[n]) = rx[n][1] /\ Head(rx[n]) \in Received
         /\ rx'[n] \in Seq(Received) /\ Len(rx'[n]) = Len(rx[n]) - 1
         /\ DOMAIN rx'[n] = 1..(Len(rx[n]) - 1)
         /\ \A k \in 1..(Len(rx[n]) - 1) : rx'[n][k] = rx[n][k + 1]
<1>1. /\ rx[n] \in Seq(Received) /\ Len(rx[n]) \in Nat /\ DOMAIN rx[n] = 1..Len(rx[n])
      /\ Len(rx[n]) # 0
  BY LenProperties, EmptySeq DEF RxTypes
<1>2. Head(rx[n]) = rx[n][1] /\ Head(rx[n]) \in Received
  BY <1>1, HeadTailProperties DEF RxTypes
<1>3. PICK t : t = Tail(rx[n])
  OBVIOUS
<1>4. t \in Seq(Received) /\ Len(t) = Len(rx[n]) - 1 /\ \A i \in 1..Len(t) : t[i] = rx[n][i + 1]
  BY <1>1, <1>3, HeadTailProperties DEF RxTypes
<1>5. DOMAIN t = 1..(Len(rx[n]) - 1)
  BY <1>4, LenProperties
<1>6. rx'[n] = t
  BY <1>3 DEF RxTypes
<1> QED BY <1>1, <1>2, <1>4, <1>5, <1>6

LEMMA EmptyRx ==
  ASSUME NEW n \in Node, rx'[n] = <<>>
  PROVE  Unanswered(n)' /\ Len(rx'[n]) = 0
BY DEF Unanswered

(* The frames a node sends.                                                *)
LEMMA FromNode ==
  ASSUME Types, NEW n \in Node
  PROVE  /\ Announcement(n) \in MasterFrame /\ Announcement(n).kind = "ann"
         /\ Request(shortId[n], page[n]) \in MasterFrame
         /\ Request(shortId[n], page[n]).kind = "req"
         /\ Request(shortId[n], page[n]).dest = shortId[n]
         /\ Request(shortId[n], page[n]).page = page[n]
BY DEF Announcement, Request, MasterFrame, Types, NodeTypes

LEMMA AnnounceRows ==
  ASSUME Types, Types', Rows, NEW n \in Node, Announce(n)
  PROVE  Rows'
<1>1. /\ state[n] = "announce" /\ state'[n] = "wait" /\ ToMaster(Announcement(n))
      /\ UNCHANGED <<shortId, page, codeBuf, flash, rx, serving>>
  BY DEF Announce, Types, NodeTypes
<1>2. NodeInv(n) /\ Unanswered(n)
  BY <1>1 DEF Rows, NodeInv
<1>3. NodeInv(n)' /\ Unanswered(n)'
  BY <1>1, <1>2 DEF NodeInv, Unanswered, Loading
<1>4. \A j \in DOMAIN inbox : inbox[j] # Announcement(n)
  BY <1>1 DEF Rows, AnnFrom
<1>5. Announcement(n) \in MasterFrame
  BY FromNode
<1>6. \A id, p : ~Downloads(n, id, p)
  BY <1>1 DEF Downloads
<1> QED BY <1>1, <1>3, <1>4, <1>5, <1>6, NodeSends DEF Boot

LEMMA CheckReplyRows ==
  ASSUME Types, Types', RepliesAgree, Rows, NEW n \in Node, CheckReply(n)
  PROVE  Rows'
<1>1. /\ state[n] = "wait" /\ rx[n] # <<>> /\ rx' = [rx EXCEPT ![n] = Tail(@)]
      /\ UNCHANGED <<codeBuf, flash, inbox, serving>>
      /\ Head(rx[n]).frame = Reply(n) =>
           /\ shortId'[n] = Head(rx[n]).id /\ state'[n] = "request" /\ page'[n] = 1
      /\ Head(rx[n]).frame # Reply(n) => UNCHANGED <<shortId, state, page>>
  BY DEF CheckReply, master, Types, NodeTypes
<1>2. NodeInv(n) /\ Len(rx[n]) <= 1 /\ page[n] = 0
  BY <1>1 DEF Rows, NodeInv
<1>3. /\ rx[n] \in Seq(Received) /\ Len(rx[n]) = 1 /\ 1 \in DOMAIN rx[n]
      /\ Head(rx[n]) = rx[n][1] /\ rx'[n] \in Seq(Received) /\ Len(rx'[n]) = 0
  <2>1. /\ rx[n] \in Seq(Received) /\ Len(rx[n]) \in Nat /\ DOMAIN rx[n] = 1..Len(rx[n])
        /\ Len(rx[n]) > 0 /\ Head(rx[n]) = rx[n][1]
        /\ rx'[n] \in Seq(Received) /\ Len(rx'[n]) = Len(rx[n]) - 1
    BY <1>1, FirstFrame DEF Types
  <2>2. PICK l : l = Len(rx[n])
    OBVIOUS
  <2>3. l \in Nat /\ l > 0 /\ l <= 1
    <3>1. l \in Nat /\ l > 0
      BY <2>1, <2>2, Zenon
    <3>2. l <= 1
      BY <1>2, <2>2, Zenon
    <3> QED BY <3>1, <3>2
  <2>4. l = 1
    BY <2>3
  <2> QED BY <2>1, <2>2, <2>4
<1>4. rx'[n] = <<>>
  BY <1>3, EmptySeq
<1>5. Unanswered(n)'
  BY <1>4, EmptyRx
<1>6. NodeInv(n)'
  <2>1. CASE Head(rx[n]).frame = Reply(n)
    <3>1. Registered(nodeMap, rx[n][1].id, n)
      BY <1>3, <2>1 DEF RepliesAgree
    <3>2. shortId'[n] # 0
      <4>1. nodeMap \in Seq(Node) /\ DOMAIN nodeMap = 1..Len(nodeMap) /\ Len(nodeMap) \in Nat
        BY LenProperties DEF Types, MasterTypes
      <4> QED BY <1>1, <1>3, <2>1, <3>1, <4>1 DEF Registered
    <3> QED BY <1>1, <1>2, <1>4, <1>5, <2>1, <3>2 DEF NodeInv
  <2>2. CASE Head(rx[n]).frame # Reply(n)
    BY <1>1, <1>2, <1>3, <2>2 DEF NodeInv, Loading
  <2> QED BY <2>1, <2>2
<1>7. ASSUME NEW j \in DOMAIN inbox, inbox[j] = Announcement(n)
      PROVE  state'[n] = "wait"
  <2>1. Unanswered(n)
    BY <1>1, <1>7 DEF Rows, AnnFrom
  <2> QED BY <1>1, <1>3, <2>1 DEF Unanswered
<1>8. \A id, p : ~Downloads(n, id, p)
  BY <1>1 DEF Downloads
<1>9. Announcement(n) \in MasterFrame
  BY FromNode
<1> QED BY <1>1, <1>5, <1>6, <1>7, <1>8, <1>9, NodeSends DEF Boot

(* Giving up: there is no announcement and no request of the node then.    *)
LEMMA RunRows ==
  ASSUME Types, Types', Rows, NEW n \in Node, ~Expected(n),
         (CheckTimeout(n) /\ GivesUp(n)) \/ DownloadTimeout(n)
  PROVE  Rows'
<1>1. /\ state'[n] = "run" /\ rx'[n] = <<>> /\ ToMaster(Announcement(n))
      /\ UNCHANGED <<page, codeBuf, flash, serving>>
  BY DEF CheckTimeout, DownloadTimeout, Run, Types, NodeTypes, RxTypes
<1>2. NodeInv(n) /\ Unanswered(n)'
  BY <1>1, EmptyRx DEF Rows
<1>3. NodeInv(n)'
  BY <1>1, <1>2 DEF NodeInv, Loading
<1>4. /\ \A j \in DOMAIN inbox : inbox[j] # Announcement(n)
      /\ \A j \in DOMAIN inbox : inbox[j].kind = "req" => inbox[j].dest # shortId[n]
      /\ serving # Idle => serving.dest # shortId[n]
  BY DEF Expected
<1>5. Announcement(n) \in MasterFrame
  BY FromNode
<1>6. serving # Idle => ~Downloads(n, serving.dest, serving.page)
  BY <1>4 DEF Downloads
<1> QED BY <1>1, <1>2, <1>3, <1>4, <1>5, <1>6, NodeSends DEF Boot

LEMMA CheckTimeoutRows ==
  ASSUME Types, Types', Rows, NEW n \in Node, ~Expected(n), CheckTimeout(n)
  PROVE  Rows'
<1>1. CASE GivesUp(n)
  BY <1>1, RunRows
<1>2. CASE ~GivesUp(n)
  <2>1. /\ state[n] = "wait" /\ rx[n] = <<>> /\ state'[n] = "announce"
        /\ UNCHANGED <<shortId, rx, inbox, page, codeBuf, flash, serving>>
    BY <1>2 DEF CheckTimeout, Types, NodeTypes
  <2>2. Unanswered(n)' /\ NodeInv(n)
    BY <2>1, EmptyRx DEF Rows
  <2>3. NodeInv(n)'
    BY <2>1, <2>2 DEF NodeInv, Loading
  <2>4. \A j \in DOMAIN inbox : inbox[j] # Announcement(n)
    BY DEF Expected
  <2>5. \A id, p : ~Downloads(n, id, p)
    BY <2>1 DEF Downloads
  <2>6. Announcement(n) \in MasterFrame
    BY FromNode
  <2> QED BY <2>1, <2>3, <2>4, <2>5, <2>6, NodeSends DEF Boot
<1> QED BY <1>1, <1>2

LEMMA RequestRows ==
  ASSUME Types, Types', IdsAgree, Rows, NEW n \in Node, RequestPage(n)
  PROVE  Rows'
<1>1. PICK f : f = Request(shortId[n], page[n])
  OBVIOUS
<1>2. /\ state[n] = "request" /\ state'[n] = "download" /\ codeBuf'[n] = <<>>
      /\ ToMaster(f) /\ UNCHANGED <<shortId, page, flash, rx, serving>>
  BY <1>1 DEF RequestPage, Types, NodeTypes
<1>3. NodeInv(n) /\ rx[n] = <<>> /\ shortId[n] # 0 /\ page[n] # 0
  BY <1>2 DEF Rows, NodeInv, Loading
<1>4. f \in MasterFrame /\ f.kind = "req" /\ f.dest = shortId[n] /\ f.page = page[n]
  BY <1>1, FromNode
<1>5. Unanswered(n)' /\ Got(n)' = 0
  BY <1>2, <1>3, EmptyRx DEF Got
<1>6. Row(n)'
  BY <1>5 DEF Row
<1>7. NodeInv(n)'
  BY <1>2, <1>3, <1>5, <1>6 DEF NodeInv, Loading
<1>8. Downloads(n, f.dest, f.page)'
  BY <1>2, <1>4 DEF Downloads
<1>9. \A m \in Node : shortId[m] = shortId[n] => state[m] # "download"
  BY <1>2, <1>3, OneId
<1>10. \A j \in DOMAIN inbox : inbox[j].kind = "req" => inbox[j].dest # f.dest
  BY <1>4, <1>9 DEF Rows, ReqFrom, Downloads
<1>11. serving # Idle => serving.dest # f.dest
  BY <1>4, <1>9 DEF Rows, ServedAsks, Downloads
<1>12. \A j \in DOMAIN inbox : inbox[j] # Announcement(n)
  BY <1>2 DEF Rows, AnnFrom
<1>13. \A id, p : ~Downloads(n, id, p)
  BY <1>2 DEF Downloads
<1>14. codeBuf'[n] = <<>> /\ rx'[n] = <<>>
  BY <1>2, <1>3
<1> QED BY <1>2, <1>4, <1>7, <1>8, <1>10, <1>11, <1>12, <1>13, <1>14, NodeSends DEF Boot

LEMMA UptoIs ==
  ASSUME Types, Rows, NEW n \in Node
  PROVE  /\ Upto(n) \in Nat /\ Upto(n) <= Frames /\ Frames \in Nat \ {0}
         /\ Served(n) => Upto(n) < Frames
<1>1. Frames \in Nat \ {0}
  BY BootAssumption
<1>2. Served(n) => serving.next \in 1..Frames
  BY DEF Rows, ServedAsks, Served
<1> QED BY <1>1, <1>2 DEF Upto

(* A row that fills the buffer with its next frame is the page.            *)
LEMMA FullRow ==
  ASSUME Types, Rows, NEW n \in Node, Row(n), NEW l \in Nat, NEW b \in Nat,
         Len(rx[n]) = l, l > 0, Len(codeBuf[n]) = b, b + 1 = Frames
  PROVE  /\ l = 1 /\ ~Served(n) /\ page[n] \in FilePage
         /\ \A i \in 1..Frames : GotAt(n, i) = Data(page[n], i)
<1> DEFINE u == Upto(n)
<1>1. u \in Nat /\ u <= Frames /\ Frames \in Nat \ {0} /\ (Served(n) => u < Frames)
  BY UptoIs
<1>2. Got(n) = b + l
  BY DEF Got
<1>3. \A i \in 1..(b + l) :
        page[n] \in FilePage /\ \E k \in i..(u - ((b + l) - i)) : GotAt(n, i) = Data(page[n], k)
  BY <1>2 DEF Row
<1> HIDE DEF u
<1>4. PICK k \in 1..(u - ((b + l) - 1)) : page[n] \in FilePage
  BY <1>1, <1>3
<1>5. l = 1 /\ u = Frames
  BY <1>1, <1>4
<1>6. ASSUME NEW i \in 1..Frames PROVE GotAt(n, i) = Data(page[n], i)
  <2>1. i \in 1..(b + l) /\ u - ((b + l) - i) = i
    BY <1>1, <1>5
  <2>2. PICK j \in i..i : GotAt(n, i) = Data(page[n], j)
    BY <1>3, <2>1
  <2> QED BY <2>2
<1> QED BY <1>1, <1>4, <1>5, <1>6

(* A frame moves from the message objects to the buffer.                   *)
LEMMA MovesOn ==
  ASSUME Types, Types', NEW n \in Node, ReceiveFrame(n)
  PROVE  /\ Len(codeBuf[n]) \in Nat /\ Len(rx[n]) \in Nat /\ Len(rx[n]) > 0
         /\ Len(codeBuf'[n]) = Len(codeBuf[n]) + 1 /\ Len(rx'[n]) = Len(rx[n]) - 1
         /\ codeBuf'[n] \in Seq(NodeFrame)
         /\ Got(n)' = Got(n)
         /\ \A i \in 1..Got(n) : GotAt(n, i)' = GotAt(n, i)
<1>1. /\ rx[n] # <<>> /\ rx' = [rx EXCEPT ![n] = Tail(@)]
      /\ codeBuf' = [codeBuf EXCEPT ![n] = Append(@, Head(rx[n]).frame)]
  BY DEF ReceiveFrame
<1>2. PICK l \in Nat, b \in Nat, f \in {Head(rx[n]).frame} : l = Len(rx[n]) /\ b = Len(codeBuf[n])
  BY LenProperties DEF Types, NodeTypes, RxTypes
<1>3. /\ l > 0 /\ f = rx[n][1].frame /\ f \in NodeFrame
      /\ Len(rx'[n]) = l - 1 /\ \A k \in 1..(l - 1) : rx'[n][k] = rx[n][k + 1]
  <2>1. /\ Len(rx[n]) > 0 /\ Head(rx[n]) = rx[n][1] /\ Head(rx[n]) \in Received
        /\ Len(rx'[n]) = Len(rx[n]) - 1
        /\ \A k \in 1..(Len(rx[n]) - 1) : rx'[n][k] = rx[n][k + 1]
    BY <1>1, FirstFrame DEF Types
  <2> QED BY <1>2, <2>1 DEF Received
<1>4. /\ codeBuf'[n] \in Seq(NodeFrame) /\ Len(codeBuf'[n]) = b + 1
      /\ \A i \in 1..b : codeBuf'[n][i] = codeBuf[n][i]
      /\ codeBuf'[n][b + 1] = f
  <2>1. PICK c : c = Append(codeBuf[n], f)
    OBVIOUS
  <2>2. codeBuf[n] \in Seq(NodeFrame)
    BY DEF Types, NodeTypes
  <2>3. /\ c \in Seq(NodeFrame) /\ Len(c) = b + 1 /\ \A i \in 1..b : c[i] = codeBuf[n][i]
        /\ c[b + 1] = f
    BY <1>2, <1>3, <2>1, <2>2, AppendProperties
  <2>4. codeBuf'[n] = c
    BY <1>1, <1>2, <2>1 DEF Types, NodeTypes
  <2> QED BY <2>3, <2>4
<1>5. Got(n) = b + l /\ Got(n)' = b + l
  <2>1. Got(n) = b + l
    BY <1>2 DEF Got
  <2>2. Got(n)' = (b + 1) + (l - 1)
    BY <1>3, <1>4 DEF Got
  <2> QED BY <2>1, <2>2
<1>6. ASSUME NEW i \in 1..(b + l) PROVE GotAt(n, i)' = GotAt(n, i)
  <2>1. GotAt(n, i) = IF i <= b THEN codeBuf[n][i] ELSE rx[n][i - b].frame
    BY <1>2 DEF GotAt
  <2>2. GotAt(n, i)' = IF i <= b + 1 THEN codeBuf'[n][i] ELSE rx'[n][i - (b + 1)].frame
    BY <1>4 DEF GotAt
  <2>3. CASE i <= b
    BY <1>4, <2>1, <2>2, <2>3
  <2>4. CASE i = b + 1
    <3>1. i - b = 1
      BY <2>4
    <3> QED BY <1>3, <1>4, <2>1, <2>2, <2>4, <3>1
  <2>5. CASE i > b + 1
    <3>1. i - (b + 1) \in 1..(l - 1) /\ (i - (b + 1)) + 1 = i - b
      BY <2>5
    <3> QED BY <1>3, <2>1, <2>2, <2>5, <3>1
  <2> QED BY <2>3, <2>4, <2>5
<1> QED BY <1>2, <1>3, <1>4, <1>5, <1>6

LEMMA ReceiveRows ==
  ASSUME Types, Types', Rows, NEW n \in Node, ReceiveFrame(n)
  PROVE  Rows'
<1>1. /\ state[n] = "download" /\ rx[n] # <<>>
      /\ UNCHANGED <<shortId, page, flash, inbox, serving>>
      /\ state'[n] = IF Len(codeBuf'[n]) = Frames THEN "erase" ELSE "download"
  BY DEF ReceiveFrame, master, Types, NodeTypes
<1>2. NodeInv(n) /\ Row(n) /\ shortId[n] # 0 /\ page[n] # 0 /\ Unanswered(n)
  BY <1>1 DEF Rows, NodeInv, Loading
<1>3. PICK l \in Nat, b \in Nat : l = Len(rx[n]) /\ b = Len(codeBuf[n])
  BY MovesOn
<1>4. /\ l > 0 /\ Len(codeBuf'[n]) = b + 1 /\ Len(rx'[n]) = l - 1
      /\ codeBuf'[n] \in Seq(NodeFrame)
      /\ Got(n)' = b + l /\ Got(n) = b + l
      /\ \A i \in 1..(b + l) : GotAt(n, i)' = GotAt(n, i)
  <2>1. Got(n) = b + l
    BY <1>3 DEF Got
  <2> QED BY <1>3, <2>1, MovesOn
<1>5. Upto(n)' = Upto(n)
  BY <1>1 DEF Upto, Served
<1>6. Row(n)'
  BY <1>1, <1>2, <1>4, <1>5 DEF Row
<1>7. Unanswered(n)'
  <2>1. rx' = [rx EXCEPT ![n] = Tail(@)]
    BY DEF ReceiveFrame
  <2>2. /\ DOMAIN rx'[n] = 1..(Len(rx[n]) - 1) /\ DOMAIN rx[n] = 1..Len(rx[n])
        /\ \A k \in 1..(Len(rx[n]) - 1) : rx'[n][k] = rx[n][k + 1]
    BY <1>1, <2>1, FirstFrame DEF Types
  <2>3. \A k \in 1..(l - 1) : k + 1 \in 1..l
    OBVIOUS
  <2> QED BY <1>2, <1>3, <2>2, <2>3 DEF Unanswered
<1>8. NodeInv(n)' /\ (Served(n) => state'[n] = "download")
  <2>1. CASE b + 1 # Frames
    BY <1>1, <1>2, <1>4, <1>6, <1>7, <2>1 DEF NodeInv, Loading
  <2>2. CASE b + 1 = Frames
    <3>1. /\ l = 1 /\ ~Served(n) /\ page[n] \in FilePage
          /\ \A i \in 1..Frames : GotAt(n, i) = Data(page[n], i)
      BY <1>2, <1>3, <1>4, <2>2, FullRow
    <3>2. rx'[n] = <<>>
      BY <1>4, <3>1, EmptySeq DEF Types, RxTypes
    <3>3. \A i \in 1..Frames : codeBuf'[n][i] = Data(page[n], i)
      <4> TAKE i \in 1..Frames
      <4>1. i \in 1..(b + l) /\ i <= b + 1 /\ GotAt(n, i) = Data(page[n], i)
        BY <2>2, <3>1
      <4>2. GotAt(n, i)' = codeBuf'[n][i]
        BY <1>4, <4>1 DEF GotAt
      <4> QED BY <1>4, <4>1, <4>2
    <3>4. codeBuf'[n] = WholePage(page[n])
      <4>1. DOMAIN codeBuf'[n] = 1..Frames
        BY <1>4, <2>2, LenProperties
      <4>2. PICK c : c = codeBuf'[n]
        OBVIOUS
      <4>3. c = [i \in DOMAIN c |-> c[i]]
        BY <1>4, <4>2
      <4>4. c = [i \in 1..Frames |-> c[i]]
        BY <4>1, <4>2, <4>3
      <4> QED BY <3>3, <4>2, <4>4 DEF WholePage
    <3>5. state'[n] = "erase" /\ shortId'[n] = shortId[n] /\ page'[n] = page[n] /\ flash' = flash
      BY <1>1, <1>4, <2>2
    <3>6. WholePage(page[n])' = WholePage(page[n])
      BY <3>5 DEF WholePage
    <3> QED BY <1>2, <1>7, <3>1, <3>2, <3>4, <3>5, <3>6 DEF NodeInv, Loading
  <2> QED BY <2>1, <2>2
<1>9. \A j \in DOMAIN inbox : inbox[j] # Announcement(n)
  BY <1>1 DEF Rows, AnnFrom
<1>10. serving # Idle /\ Downloads(n, serving.dest, serving.page)
         => Downloads(n, serving.dest, serving.page)'
  BY <1>1, <1>8 DEF Downloads, Served
<1>11. Announcement(n) \in MasterFrame
  BY FromNode
<1> QED BY <1>1, <1>8, <1>9, <1>10, <1>11, NodeSends DEF Boot

(* saveToFlash.                                                            *)
LEMMA SaveRows ==
  ASSUME Types, Types', Rows, NEW n \in Node, Erase(n) \/ Copy(n)
  PROVE  Rows'
<1>1. /\ state[n] \in {"erase", "copy"}
      /\ UNCHANGED <<shortId, codeBuf, rx, inbox, serving>>
  BY DEF Erase, Copy, master
<1>2. /\ NodeInv(n) /\ shortId[n] # 0 /\ page[n] # 0 /\ Unanswered(n) /\ rx[n] = <<>>
      /\ codeBuf[n] = WholePage(page[n]) /\ page[n] \in FilePage
      /\ \A p \in FlashPage : flash[n][p] # "bad"
  BY <1>1 DEF Rows, NodeInv, Loading
<1>3. NodeInv(n)'
  <2>1. Unanswered(n)'
    BY <1>1, <1>2 DEF Unanswered
  <2>2. CASE Erase(n)
    <3>1. state'[n] = "copy" /\ page' = page
          /\ \A p \in FlashPage : flash'[n][p] \in {"blank", flash[n][p]}
      BY <2>2 DEF Erase, SetFlash, Types, NodeTypes
    <3>2. WholePage(page[n])' = WholePage(page[n])
      BY <3>1 DEF WholePage
    <3> QED BY <1>1, <1>2, <2>1, <3>1, <3>2 DEF NodeInv, Loading
  <2>3. CASE Copy(n)
    <3>1. state'[n] = "request" /\ page'[n] = page[n] + 1 /\ page[n] \in Nat
          /\ \A p \in FlashPage : flash'[n][p] \in {"new", flash[n][p]}
      BY <1>2, <2>3 DEF Copy, SetFlash, Written, Types, NodeTypes
    <3> QED BY <1>1, <1>2, <2>1, <3>1 DEF NodeInv, Loading
  <2> QED BY <2>2, <2>3
<1>4. \A j \in DOMAIN inbox : inbox[j] # Announcement(n)
  BY <1>1 DEF Rows, AnnFrom
<1>5. \A id, p : ~Downloads(n, id, p)
  BY <1>1 DEF Downloads
<1>6. Announcement(n) \in MasterFrame
  BY FromNode
<1> QED BY <1>1, <1>3, <1>4, <1>5, <1>6, NodeSends DEF Boot

(* A frame for the nodes, at one of them.                                  *)
Grows(old, new, l, f) ==
  /\ DOMAIN old = 1..l /\ Len(new) = l + 1 /\ DOMAIN new = 1..(l + 1)
  /\ \A k \in 1..l : new[k] = old[k]
  /\ new[l + 1].frame = f

LEMMA Arrives ==
  ASSUME Types, NEW id \in Nat, NEW f \in NodeFrame, ToNodes(id, f), NEW m \in Node,
         NEW l \in Nat, Len(rx[m]) = l
  PROVE  /\ shortId'[m] = IF state[m] = "run" /\ f = Reply(m) THEN id ELSE shortId[m]
         /\ ~(Listens(m, id) /\ Room(m)) => rx'[m] = rx[m]
         /\ Listens(m, id) /\ Room(m) => Grows(rx[m], rx'[m], l, f)
<1> DEFINE r == [id |-> id, frame |-> f]
<1>1. r \in Received /\ r.frame = f
  BY DEF Received
<1>2. /\ rx'[m] = IF Listens(m, id) /\ Room(m) THEN Append(rx[m], r) ELSE rx[m]
      /\ shortId'[m] = IF state[m] = "run" /\ f = Reply(m) THEN id ELSE shortId[m]
  BY DEF ToNodes
<1> HIDE DEF r
<1>3. PICK t : t = Append(rx[m], r)
  OBVIOUS
<1>4. rx[m] \in Seq(Received) /\ DOMAIN rx[m] = 1..l
  BY LenProperties DEF Types, RxTypes
<1>5. /\ t \in Seq(Received) /\ Len(t) = l + 1 /\ \A k \in 1..l : t[k] = rx[m][k]
      /\ t[l + 1] = r
  BY <1>1, <1>3, <1>4, AppendProperties
<1>6. DOMAIN t = 1..(l + 1)
  BY <1>5, LenProperties
<1>7. Grows(rx[m], t, l, f)
  BY <1>1, <1>4, <1>5, <1>6 DEF Grows
<1> QED BY <1>2, <1>3, <1>7

(* It does not make a node that waits, runs or saves a page worse off,     *)
(* unless it is a reply to another node's announcement.                    *)
LEMMA WaitingHears ==
  ASSUME Types, Rows, NEW id \in Nat, NEW f \in NodeFrame, ToNodes(id, f), NEW m \in Node,
         UNCHANGED <<state, page, codeBuf, flash>>,
         state[m] \in Loading => shortId[m] # id,
         state[m] \notin {"wait", "run"} => f # Reply(m),
         state[m] = "download" => serving' = serving \/ Upto(m)' = Upto(m)
  PROVE  NodeInv(m)' /\ (f # Reply(m) /\ Unanswered(m) => Unanswered(m)')
<1>1. PICK l \in Nat : Len(rx[m]) = l
  BY LenProperties DEF Types, RxTypes
<1>2. /\ shortId'[m] = IF state[m] = "run" /\ f = Reply(m) THEN id ELSE shortId[m]
      /\ ~(Listens(m, id) /\ Room(m)) => rx'[m] = rx[m]
      /\ Listens(m, id) /\ Room(m) => Grows(rx[m], rx'[m], l, f)
  BY <1>1, Arrives
<1>3. NodeInv(m)
  BY DEF Rows
<1>4. Listens(m, id) => state[m] \in {"announce", "wait"}
  BY DEF Listens
<1>5. f # Reply(m) /\ Unanswered(m) => Unanswered(m)'
  BY <1>2 DEF Unanswered, Grows
<1>6. CASE state[m] \in {"announce", "wait"}
  <2>1. Len(rx'[m]) <= 1
    BY <1>1, <1>2, <1>3, <1>6 DEF NodeInv, Room, Loading, Grows
  <2>2. state'[m] = state[m] /\ page'[m] = page[m] /\ flash'[m] = flash[m]
    OBVIOUS
  <2> QED BY <1>3, <1>5, <1>6, <2>1, <2>2 DEF NodeInv, Loading
<1>7. CASE state[m] \notin {"announce", "wait"}
  <2>1. /\ rx'[m] = rx[m] /\ state'[m] = state[m] /\ page'[m] = page[m] /\ flash'[m] = flash[m]
        /\ codeBuf'[m] = codeBuf[m]
        /\ state[m] \in Loading => shortId'[m] = shortId[m]
    BY <1>2, <1>4, <1>7 DEF Loading
  <2>2. Unanswered(m)' = Unanswered(m)
    BY <2>1 DEF Unanswered
  <2>3. state[m] = "download" => Row(m)' = Row(m)
    <3> SUFFICES ASSUME state[m] = "download" PROVE Row(m)' = Row(m)
      OBVIOUS
    <3>1. Got(m)' = Got(m) /\ \A i : GotAt(m, i)' = GotAt(m, i)
      BY <2>1 DEF Got, GotAt
    <3>2. Upto(m)' = Upto(m)
      BY <2>1 DEF Upto, Served, Loading
    <3> QED BY <2>1, <3>1, <3>2 DEF Row
  <2>4. WholePage(page[m])' = WholePage(page[m])
    BY <2>1 DEF WholePage
  <2> QED BY <1>3, <1>5, <1>7, <2>1, <2>2, <2>3, <2>4 DEF NodeInv, Loading
<1> QED BY <1>5, <1>6, <1>7

(* The frames on their way to the master when it has taken the first.      *)
LEMMA MasterTakes ==
  ASSUME Types, Rows, inbox # <<>>, inbox' = Tail(inbox), state' = state,
         \A m \in Node : state[m] = "download" =>
           /\ shortId'[m] = shortId[m] /\ page'[m] = page[m]
           /\ codeBuf'[m] = codeBuf[m] /\ rx'[m] = rx[m],
         \A m \in Node : inbox[1] # Announcement(m) /\ Unanswered(m) => Unanswered(m)'
  PROVE  /\ AnnOnce' /\ AnnFrom' /\ ReqFrom' /\ ReqOnce'
         /\ serving' = serving => ReqWaits' /\ ServedAsks'
<1>1. /\ 1 \in DOMAIN inbox
      /\ \A j \in DOMAIN inbox' : /\ j \in Nat \ {0} /\ j + 1 \in DOMAIN inbox
                                  /\ inbox'[j] = inbox[j + 1]
  BY Takes DEF Types
<1>2. AnnOnce'
  <2> SUFFICES ASSUME NEW j \in DOMAIN inbox', NEW k \in DOMAIN inbox',
                      inbox'[j].kind = "ann", inbox'[j] = inbox'[k]
               PROVE  j = k
    BY DEF AnnOnce
  <2>1. j + 1 = k + 1
    BY <1>1 DEF Rows, AnnOnce
  <2> QED BY <1>1, <2>1
<1>3. AnnFrom'
  <2> SUFFICES ASSUME NEW j \in DOMAIN inbox', NEW m \in Node, inbox'[j] = Announcement(m)
               PROVE  (state'[m] = "wait" /\ Unanswered(m)') \/ state'[m] = "run"
    BY DEF AnnFrom
  <2>1. j \in Nat \ {0} /\ j + 1 \in DOMAIN inbox /\ inbox[j + 1] = Announcement(m)
    BY <1>1
  <2>2. (state[m] = "wait" /\ Unanswered(m)) \/ state[m] = "run"
    BY <2>1 DEF Rows, AnnFrom
  <2>3. inbox[1] # Announcement(m)
    <3> SUFFICES ASSUME inbox[1] = Announcement(m) PROVE FALSE
      OBVIOUS
    <3>1. Announcement(m).kind = "ann"
      BY DEF Announcement
    <3>2. j + 1 = 1
      BY <1>1, <2>1, <3>1 DEF Rows, AnnOnce
    <3> QED BY <2>1, <3>2
  <2> QED BY <2>2, <2>3
<1>4. ReqFrom'
  <2> SUFFICES ASSUME NEW j \in DOMAIN inbox', inbox'[j].kind = "req"
               PROVE  \E m \in Node : /\ Downloads(m, inbox[j].dest, inbox[j].page)'
                                      /\ codeBuf'[m] = <<>> /\ rx'[m] = <<>>
    BY DEF ReqFrom
  <2>1. PICK f : f = inbox'[j]
    OBVIOUS
  <2>2. j + 1 \in DOMAIN inbox /\ inbox[j + 1] = f
    BY <1>1, <2>1
  <2>3. PICK m \in Node : Downloads(m, f.dest, f.page) /\ codeBuf[m] = <<>> /\ rx[m] = <<>>
    BY <2>1, <2>2 DEF Rows, ReqFrom
  <2>4. Downloads(m, f.dest, f.page)' /\ codeBuf'[m] = <<>> /\ rx'[m] = <<>>
    BY <2>3 DEF Downloads
  <2> QED BY <2>1, <2>4 DEF Downloads
<1>5. ReqOnce'
  <2> SUFFICES ASSUME NEW j \in DOMAIN inbox', NEW k \in DOMAIN inbox',
                      inbox'[j].kind = "req", inbox'[k].kind = "req",
                      inbox'[j].dest = inbox'[k].dest
               PROVE  j = k
    BY DEF ReqOnce
  <2>1. j + 1 = k + 1
    BY <1>1 DEF Rows, ReqOnce
  <2> QED BY <1>1, <2>1
<1>6. ASSUME serving' = serving PROVE ReqWaits' /\ ServedAsks'
  <2>1. ReqWaits'
    BY <1>1, <1>6 DEF Rows, ReqWaits
  <2>2. ServedAsks'
    <3> SUFFICES ASSUME serving # Idle
                 PROVE  \E m \in Node : Downloads(m, serving.dest, serving.page)'
      BY <1>6 DEF Rows, ServedAsks, Downloads
    <3>1. PICK m \in Node : Downloads(m, serving.dest, serving.page)
      BY DEF Rows, ServedAsks
    <3> QED BY <1>6, <3>1 DEF Downloads
  <2> QED BY <2>1, <2>2
<1> QED BY <1>2, <1>3, <1>4, <1>5, <1>6

LEMMA IgnoreRows ==
  ASSUME Types, Rows, Ignore
  PROVE  Rows'
<1>1. inbox # <<>> /\ inbox' = Tail(inbox) /\ UNCHANGED <<node, rx, serving>>
  BY DEF Ignore, Receives
<1>2. \A m \in Node : NodeInv(m)' /\ Unanswered(m)' = Unanswered(m)
  BY <1>1, NodeStays DEF node, Rows, Unanswered
<1> QED BY <1>1, <1>2, MasterTakes DEF Rows, node

(* An announcement is answered; a node that loads does not hear of it.     *)
LEMMA ReplyMisses ==
  ASSUME Types, Ids, Rows, HandleAnnouncement, IdsAgree',
         NEW n, n = Head(inbox).uid, NEW id, id = Number(n)
  PROVE  /\ n \in Node /\ inbox[1] = Announcement(n) /\ 1 \in DOMAIN inbox
         /\ inbox # <<>> /\ inbox' = Tail(inbox)
         /\ state[n] \in {"wait", "run"}
         /\ id \in Nat /\ Reply(n) \in NodeFrame /\ \A m \in Node : Reply(n) = Reply(m) => m = n
         /\ ToNodes(id, Reply(n)) \/ UNCHANGED <<rx, shortId>>
         /\ \A m \in Node : state[m] \in Loading =>
              /\ ToNodes(id, Reply(n)) => shortId[m] # id
              /\ shortId'[m] = shortId[m] /\ rx'[m] = rx[m]
<1>1. /\ inbox # <<>> /\ inbox' = Tail(inbox) /\ Head(inbox).kind = "ann" /\ Register(n)
      /\ ToNodes(id, Reply(n)) \/ UNCHANGED <<rx, shortId>>
  BY DEF HandleAnnouncement, Receives
<1>2. n \in Node /\ inbox[1] = Announcement(n) /\ 1 \in DOMAIN inbox
  <2>1. Head(inbox) \in MasterFrame /\ Head(inbox) = inbox[1] /\ 1 \in DOMAIN inbox
    BY <1>1, TakesFrame, Takes DEF Types
  <2> QED BY <1>1, <2>1 DEF MasterFrame, Announcement
<1>3. state[n] \in {"wait", "run"}
  BY <1>2 DEF Rows, AnnFrom
<1>4. id \in Nat /\ Registered(nodeMap', id, n) /\ Reply(n) \in NodeFrame
  BY <1>1, <1>2, Numbers DEF Types, Registered, Reply, NodeFrame
<1>5. \A m \in Node : Reply(n) = Reply(m) => m = n
  BY DEF Reply
<1>6. ASSUME NEW m \in Node, state[m] \in Loading, ToNodes(id, Reply(n))
      PROVE  shortId[m] # id /\ shortId'[m] = shortId[m] /\ rx'[m] = rx[m]
  <2>1. shortId'[m] = shortId[m]
    BY <1>6 DEF ToNodes, Loading
  <2>2. shortId[m] # id
    <3> SUFFICES ASSUME shortId[m] = id PROVE FALSE
      OBVIOUS
    <3>1. m # n
      BY <1>3, <1>6 DEF Loading
    <3>2. id # 0
      BY <1>6 DEF Rows, NodeInv
    <3> QED BY <1>4, <2>1, <3>1, <3>2 DEF IdsAgree, Registered
  <2>3. ~Listens(m, id)
    BY <1>6, <2>2 DEF Listens, Loading
  <2> QED BY <1>6, <2>1, <2>2, <2>3 DEF ToNodes
<1> QED BY <1>1, <1>2, <1>3, <1>4, <1>5, <1>6

LEMMA ReplyRows ==
  ASSUME Types, Ids, Rows, HandleAnnouncement, IdsAgree'
  PROVE  Rows'
<1>1. PICK n, id : n = Head(inbox).uid /\ id = Number(n)
  OBVIOUS
<1>2. UNCHANGED <<state, tries, page, codeBuf, flash, serving, enableBootMaster>>
  BY DEF HandleAnnouncement
<1>3. /\ n \in Node /\ inbox[1] = Announcement(n) /\ inbox # <<>> /\ inbox' = Tail(inbox)
      /\ state[n] \in {"wait", "run"}
      /\ id \in Nat /\ Reply(n) \in NodeFrame /\ \A m \in Node : Reply(n) = Reply(m) => m = n
      /\ ToNodes(id, Reply(n)) \/ UNCHANGED <<rx, shortId>>
  BY <1>1, ReplyMisses
<1>4. \A m \in Node : state[m] \in Loading =>
        /\ ToNodes(id, Reply(n)) => shortId[m] # id
        /\ shortId'[m] = shortId[m] /\ rx'[m] = rx[m]
  BY <1>1, ReplyMisses
<1>5. CASE ToNodes(id, Reply(n))
  <2>1. ASSUME NEW m \in Node
        PROVE  NodeInv(m)' /\ (Reply(n) # Reply(m) /\ Unanswered(m) => Unanswered(m)')
    BY <1>2, <1>3, <1>4, <1>5, WaitingHears
  <2>2. \A m \in Node : inbox[1] # Announcement(m) /\ Unanswered(m) => Unanswered(m)'
    BY <1>3, <2>1
  <2> QED BY <1>2, <1>3, <1>4, <2>1, <2>2, MasterTakes DEF Rows, Loading
<1>6. CASE UNCHANGED <<rx, shortId>>
  <2>1. \A m \in Node : NodeInv(m)' /\ Unanswered(m)' = Unanswered(m)
    BY <1>2, <1>6, NodeStays DEF Rows, Unanswered
  <2> QED BY <1>2, <1>3, <1>6, <2>1, MasterTakes DEF Rows
<1> QED BY <1>3, <1>5, <1>6

LEMMA HandleRequestRows ==
  ASSUME Types, Ids, Rows, HandleRequest
  PROVE  Rows'
<1>1. PICK f : f = Head(inbox)
  OBVIOUS
<1>2. /\ inbox # <<>> /\ inbox' = Tail(inbox) /\ f.kind = "req" /\ serving = Idle
      /\ \/ serving' = Idle
         \/ f.page \in FilePage /\ serving' = [dest |-> f.dest, page |-> f.page, next |-> 1]
      /\ UNCHANGED <<state, shortId, page, codeBuf, flash, rx>>
  BY <1>1 DEF HandleRequest, Receives, Seek, CardFails, node
<1>3. f = inbox[1] /\ 1 \in DOMAIN inbox
  BY <1>1, <1>2, Takes DEF Types
<1>4. PICK r \in Node : Downloads(r, f.dest, f.page) /\ codeBuf[r] = <<>> /\ rx[r] = <<>>
  BY <1>2, <1>3 DEF Rows, ReqFrom
<1>5. shortId[r] = f.dest /\ f.dest # 0
  BY <1>4 DEF Downloads, Rows, NodeInv, Loading
<1>6. /\ AnnOnce' /\ AnnFrom' /\ ReqFrom' /\ ReqOnce'
  <2>1. \A m \in Node : Unanswered(m)' = Unanswered(m)
    BY <1>2 DEF Unanswered
  <2> QED BY <1>2, <2>1, MasterTakes
<1>7. CASE serving' = Idle
  <2>1. \A m \in Node : NodeInv(m)'
    BY <1>2, <1>7, NodeStays DEF Rows
  <2>2. ReqWaits' /\ ServedAsks'
    BY <1>7 DEF ReqWaits, ServedAsks
  <2> QED BY <1>6, <2>1, <2>2 DEF Rows
<1>8. CASE serving' # Idle
  <2>1. /\ f.page \in FilePage /\ serving'.dest = f.dest /\ serving'.page = f.page
        /\ serving'.next = 1
    BY <1>2, <1>8
  <2>2. ASSUME NEW m \in Node PROVE NodeInv(m)'
    <3>1. NodeInv(m)
      BY DEF Rows
    <3>2. CASE m = r
      <4>1. codeBuf'[m] = <<>> /\ rx'[m] = <<>>
        BY <1>2, <1>4, <3>2
      <4>2. Got(m)' = 0
        BY <4>1 DEF Got
      <4>3. Row(m)'
        BY <4>2 DEF Row
      <4> QED BY <1>2, <3>1, <4>3, NodeStays
    <3>3. CASE m # r
      <4>1. shortId[m] # f.dest
        BY <1>5, <3>3, OneId DEF Ids
      <4>2. Upto(m)' = Upto(m)
        BY <1>2, <2>1, <4>1 DEF Upto, Served
      <4> QED BY <1>2, <3>1, <4>2, NodeStays
    <3> QED BY <3>2, <3>3
  <2>3. ReqWaits'
    <3> SUFFICES ASSUME NEW j \in DOMAIN inbox', inbox'[j].kind = "req"
                 PROVE  inbox'[j].dest # f.dest
      BY <2>1 DEF ReqWaits
    <3>1. j \in Nat \ {0} /\ j + 1 \in DOMAIN inbox /\ inbox'[j] = inbox[j + 1] /\ j + 1 # 1
      BY <1>2, Takes DEF Types
    <3> QED BY <1>2, <1>3, <3>1 DEF Rows, ReqOnce
  <2>4. ServedAsks'
    <3>1. Downloads(r, f.dest, f.page)'
      BY <1>2, <1>4 DEF Downloads
    <3>2. 1 \in 1..Frames
      BY BootAssumption
    <3>3. serving'.page \in FilePage /\ serving'.next \in 1..Frames
      BY <2>1, <3>2
    <3>4. Downloads(r, serving.dest, serving.page)'
      BY <2>1, <3>1 DEF Downloads
    <3> QED BY <3>3, <3>4 DEF ServedAsks
  <2> QED BY <1>6, <2>2, <2>3, <2>4 DEF Rows
<1> QED BY <1>7, <1>8

LEMMA SwitchRows ==
  ASSUME Rows, Switch
  PROVE  Rows'
<1>1. UNCHANGED <<state, shortId, page, codeBuf, flash, rx, inbox, serving>>
  BY DEF Switch, node, master
<1>2. \A m \in Node : NodeInv(m)' /\ Unanswered(m)' = Unanswered(m)
  BY <1>1, NodeStays DEF Rows, Unanswered
<1>3. AnnOnce' /\ AnnFrom' /\ ReqOnce' /\ ReqWaits'
  BY <1>1, <1>2 DEF Rows, AnnOnce, AnnFrom, ReqOnce, ReqWaits
<1>4. ReqFrom' /\ ServedAsks'
  BY <1>1 DEF Rows, ReqFrom, ServedAsks, Downloads
<1> QED BY <1>2, <1>3, <1>4 DEF Rows

(* sendFile's next frame goes to one of the nodes that download, and makes *)
(* its row one longer.                                                     *)
LEMMA Serves ==
  ASSUME Types, Ids, Rows, SendFrame,
         NEW f, NEW d, NEW x,
         f = Data(serving.page, serving.next), d = serving.dest, x = serving.next
  PROVE  /\ f \in NodeFrame /\ d \in Nat /\ x \in 1..Frames /\ shortId' = shortId
         /\ \A m \in Node : f # Reply(m)
         /\ \E r \in Node :
              /\ Downloads(r, d, serving.page) /\ Upto(r) = x - 1 /\ Upto(r)' = x
              /\ \A m \in Node \ {r} : state[m] \in Loading => shortId[m] # d /\ Upto(m)' = Upto(m)
<1>1. /\ serving # Idle
      /\ ToNodes(d, f) \/ UNCHANGED <<rx, shortId>>
      /\ serving' = IF x = Frames THEN Idle ELSE [serving EXCEPT !.next = @ + 1]
  BY DEF SendFrame
<1>2. f \in NodeFrame /\ d \in Nat /\ \A m \in Node : f # Reply(m)
  <2>1. serving.page \in Nat /\ serving.next \in Nat /\ serving.dest \in Nat
    BY DEF Types, MasterTypes
  <2> QED BY <2>1 DEF NodeFrame, Data, Reply
<1>3. PICK r \in Node : Downloads(r, d, serving.page)
  BY <1>1 DEF Rows, ServedAsks
<1>4. shortId[r] = d /\ d # 0 /\ x \in 1..Frames
  BY <1>1, <1>3 DEF Rows, ServedAsks, Downloads, NodeInv, Loading
<1>5. shortId' = shortId
  <2>1. CASE ToNodes(d, f)
    BY <1>2, <2>1 DEF ToNodes, Types, NodeTypes
  <2> QED BY <1>1, <2>1
<1>6. /\ x = Frames => serving' = Idle
      /\ x # Frames => serving' # Idle /\ serving'.dest = d /\ serving'.next = x + 1
  BY <1>1, <1>4 DEF Idle, Types, MasterTypes
<1>7. Upto(r) = x - 1 /\ Upto(r)' = x
  BY <1>1, <1>4, <1>5, <1>6 DEF Upto, Served
<1>8. ASSUME NEW m \in Node \ {r}, state[m] \in Loading
      PROVE  shortId[m] # d /\ Upto(m)' = Upto(m)
  <2>1. shortId[m] # d
    BY <1>4, <1>8, OneId DEF Ids
  <2> QED BY <1>5, <1>6, <2>1 DEF Upto, Served
<1> QED BY <1>2, <1>3, <1>4, <1>5, <1>7, <1>8

LEMMA SendRows ==
  ASSUME Types, Types', Ids, Rows, SendFrame
  PROVE  Rows'
<1>1. PICK f, d, x : f = Data(serving.page, serving.next) /\ d = serving.dest /\ x = serving.next
  OBVIOUS
<1>2. /\ serving # Idle
      /\ ToNodes(d, f) \/ UNCHANGED <<rx, shortId>>
      /\ serving' = IF x = Frames THEN Idle ELSE [serving EXCEPT !.next = @ + 1]
      /\ UNCHANGED <<state, page, codeBuf, flash, inbox>>
  BY <1>1 DEF SendFrame
<1>3. /\ f \in NodeFrame /\ d \in Nat /\ shortId' = shortId
      /\ \A m \in Node : f # Reply(m)
  BY <1>1, Serves
<1>4. PICK r \in Node :
        /\ Downloads(r, d, serving.page) /\ Upto(r) = x - 1 /\ Upto(r)' = x
        /\ \A m \in Node \ {r} : state[m] \in Loading => shortId[m] # d /\ Upto(m)' = Upto(m)
  BY <1>1, Serves
<1>5. /\ state[r] = "download" /\ shortId[r] = d /\ page[r] = serving.page
      /\ page[r] \in FilePage /\ x \in 1..Frames
  BY <1>1, <1>2, <1>4 DEF Rows, ServedAsks, Downloads
<1>6. /\ x = Frames => serving' = Idle
      /\ x # Frames => serving'.dest = d /\ serving'.next = x + 1 /\ serving'.page = serving.page
  BY <1>1, <1>2, <1>5 DEF Types, MasterTypes
<1>7. ASSUME NEW m \in Node, m # r
      PROVE  NodeInv(m)' /\ (Unanswered(m) => Unanswered(m)')
  <2>1. CASE ToNodes(d, f)
    BY <1>2, <1>3, <1>4, <1>7, <2>1, WaitingHears DEF Loading
  <2>2. CASE UNCHANGED <<rx, shortId>>
    <3>1. state[m] = "download" => Row(m)'
      <4> SUFFICES ASSUME state[m] = "download" PROVE Row(m)'
        OBVIOUS
      <4>1. Upto(m)' = Upto(m)
        BY <1>4, <1>7 DEF Loading
      <4>2. Got(m)' = Got(m) /\ \A i : GotAt(m, i)' = GotAt(m, i)
        BY <1>2, <2>2 DEF Got, GotAt
      <4> QED BY <1>2, <4>1, <4>2 DEF Rows, NodeInv, Row
    <3>2. NodeInv(m)
      BY DEF Rows
    <3> QED BY <1>2, <2>2, <3>1, <3>2, NodeStays DEF Unanswered
  <2> QED BY <1>2, <2>1, <2>2
<1>8. PICK l \in Nat, b \in Nat : l = Len(rx[r]) /\ b = Len(codeBuf[r])
  BY LenProperties DEF Types, NodeTypes, RxTypes
<1>9. NodeInv(r) /\ Row(r) /\ Unanswered(r) /\ (rx'[r] = rx[r] \/ Grows(rx[r], rx'[r], l, f))
  <2>1. NodeInv(r) /\ Row(r) /\ Unanswered(r)
    BY <1>5 DEF Rows, NodeInv
  <2>2. CASE ToNodes(d, f)
    BY <1>3, <1>8, <2>1, <2>2, Arrives
  <2> QED BY <1>2, <2>1, <2>2
<1>10. Row(r)' /\ Unanswered(r)'
  <2>1. Got(r) = b + l
    BY <1>8 DEF Got
  <2>2. \A i \in 1..(b + l) : \E k \in i..((x - 1) - ((b + l) - i)) : GotAt(r, i) = Data(page[r], k)
    BY <1>4, <1>9, <2>1 DEF Row
  <2>3. page'[r] = page[r] /\ page[r] \in FilePage /\ Upto(r)' = x
    BY <1>2, <1>4, <1>5
  <2>4. CASE rx'[r] = rx[r]
    <3>1. Got(r)' = b + l /\ \A i : GotAt(r, i)' = GotAt(r, i)
      BY <1>2, <2>1, <2>4 DEF Got, GotAt
    <3>2. \A i \in 1..(b + l) : \E k \in i..(x - ((b + l) - i)) : GotAt(r, i) = Data(page[r], k)
      BY <1>5, <2>2
    <3>3. Row(r)'
      BY <2>3, <3>1, <3>2 DEF Row
    <3> QED BY <1>9, <2>4, <3>3 DEF Unanswered
  <2>5. CASE Grows(rx[r], rx'[r], l, f)
    <3>1. Len(rx'[r]) = l + 1 /\ \A k \in 1..l : rx'[r][k] = rx[r][k]
      BY <2>5 DEF Grows
    <3>2. Got(r)' = b + l + 1
      <4>1. Got(r)' = b + (l + 1)
        BY <1>2, <1>8, <3>1 DEF Got
      <4> QED BY <4>1
    <3>3. b + l <= x - 1
      <4>1. CASE b + l = 0
        BY <1>5, <4>1
      <4>2. CASE b + l > 0
        <5>1. PICK k \in 1..((x - 1) - ((b + l) - 1)) : TRUE
          BY <2>2, <4>2
        <5> QED BY <1>5, <5>1
      <4> QED BY <4>1, <4>2
    <3>4. ASSUME NEW i \in 1..(b + l) PROVE GotAt(r, i)' = GotAt(r, i)
      <4>1. GotAt(r, i) = IF i <= b THEN codeBuf[r][i] ELSE rx[r][i - b].frame
        BY <1>8 DEF GotAt
      <4>2. GotAt(r, i)' = IF i <= b THEN codeBuf[r][i] ELSE rx'[r][i - b].frame
        BY <1>2, <1>8 DEF GotAt
      <4>3. i > b => i - b \in 1..l
        OBVIOUS
      <4> QED BY <3>1, <4>1, <4>2, <4>3
    <3>5. GotAt(r, b + l + 1)' = Data(page[r], x)
      <4>1. ~(b + l + 1 <= b) /\ (b + l + 1) - b = l + 1
        OBVIOUS
      <4>2. GotAt(r, b + l + 1)' = rx'[r][l + 1].frame
        BY <1>2, <1>8, <4>1 DEF GotAt
      <4> QED BY <1>1, <1>5, <2>5, <4>2 DEF Grows
    <3>6. ASSUME NEW i \in 1..(b + l + 1)
          PROVE  \E k \in i..(x - ((b + l + 1) - i)) : GotAt(r, i)' = Data(page[r], k)
      <4>1. CASE i = b + l + 1
        <5>1. x \in i..(x - ((b + l + 1) - i))
          BY <1>5, <3>3, <4>1
        <5> QED BY <3>5, <4>1, <5>1
      <4>2. CASE i # b + l + 1
        <5>1. i \in 1..(b + l)
          BY <4>2
        <5>2. PICK k \in i..((x - 1) - ((b + l) - i)) : GotAt(r, i) = Data(page[r], k)
          BY <2>2, <5>1
        <5>3. k \in i..(x - ((b + l + 1) - i))
          BY <1>5, <5>1
        <5> QED BY <3>4, <5>1, <5>2, <5>3
      <4> QED BY <4>1, <4>2
    <3>7. Row(r)'
      BY <2>3, <3>2, <3>6 DEF Row
    <3>8. Unanswered(r)'
      BY <1>3, <1>9, <2>5 DEF Unanswered, Grows
    <3> QED BY <3>7, <3>8
  <2> QED BY <1>9, <2>4, <2>5
<1>11. \A m \in Node : NodeInv(m)' /\ (Unanswered(m) => Unanswered(m)')
  <2>1. NodeInv(r)'
    BY <1>2, <1>5, <1>3, <1>9, <1>10 DEF NodeInv, Loading
  <2> QED BY <1>7, <1>10, <2>1
<1>12. AnnOnce' /\ AnnFrom' /\ ReqOnce'
  BY <1>2, <1>11 DEF Rows, AnnOnce, AnnFrom, ReqOnce
<1>13. \A m \in Node : state[m] = "download" /\ shortId[m] # d => rx'[m] = rx[m]
  <2> SUFFICES ASSUME NEW m \in Node, state[m] = "download", shortId[m] # d PROVE rx'[m] = rx[m]
    OBVIOUS
  <2>1. ~Listens(m, d)
    BY DEF Listens
  <2> QED BY <1>2, <2>1 DEF ToNodes
<1>14. ReqFrom'
  <2> SUFFICES ASSUME NEW j \in DOMAIN inbox, inbox[j].kind = "req"
               PROVE  \E m \in Node : /\ Downloads(m, inbox[j].dest, inbox[j].page)'
                                      /\ codeBuf'[m] = <<>> /\ rx'[m] = <<>>
    BY <1>2 DEF ReqFrom
  <2>1. inbox[j].dest # d
    BY <1>1, <1>2 DEF Rows, ReqWaits
  <2>2. PICK m \in Node : /\ Downloads(m, inbox[j].dest, inbox[j].page)
                          /\ codeBuf[m] = <<>> /\ rx[m] = <<>>
    BY DEF Rows, ReqFrom
  <2>3. rx'[m] = rx[m]
    BY <1>13, <2>1, <2>2 DEF Downloads
  <2> QED BY <1>2, <1>3, <2>2, <2>3 DEF Downloads
<1>15. ReqWaits' /\ ServedAsks'
  <2>1. ReqWaits'
    BY <1>1, <1>2, <1>6 DEF Rows, ReqWaits
  <2>2. x # Frames => Downloads(r, serving.dest, serving.page)' /\ serving'.next \in 1..Frames
                      /\ serving'.page \in FilePage
    BY <1>2, <1>5, <1>3, <1>6, BootAssumption DEF Downloads
  <2>3. ServedAsks'
    BY <1>6, <2>2 DEF ServedAsks
  <2> QED BY <2>1, <2>3
<1> QED BY <1>11, <1>12, <1>14, <1>15 DEF Rows

(* sendFile gives up: the rest of the row is not sent.                     *)
LEMMA ReadFailsRows ==
  ASSUME Types, Rows, ReadFails
  PROVE  Rows'
<1>1. serving' = Idle /\ UNCHANGED <<state, shortId, page, codeBuf, flash, rx, inbox>>
  BY DEF ReadFails, CardFails, node
<1>2. ASSUME NEW m \in Node PROVE NodeInv(m)' /\ Unanswered(m)' = Unanswered(m)
  <2>1. NodeInv(m)
    BY DEF Rows
  <2>2. state[m] = "download" => Row(m)'
    <3> SUFFICES ASSUME state[m] = "download" PROVE Row(m)'
      OBVIOUS
    <3>1. PICK l \in Nat, b \in Nat : l = Len(rx[m]) /\ b = Len(codeBuf[m])
      BY LenProperties DEF Types, NodeTypes, RxTypes
    <3>2. PICK u : u = Upto(m)
      OBVIOUS
    <3>3. u \in Nat /\ u <= Frames /\ Frames \in Nat
      BY <3>2, UptoIs
    <3>4. Upto(m)' = Frames
      BY <1>1 DEF Upto, Served
    <3>5. Got(m) = b + l /\ Got(m)' = b + l /\ \A i : GotAt(m, i)' = GotAt(m, i)
      BY <1>1, <3>1 DEF Got, GotAt
    <3>6. \A i \in 1..(b + l) :
            page[m] \in FilePage /\ \E k \in i..(u - ((b + l) - i)) : GotAt(m, i) = Data(page[m], k)
      BY <2>1, <3>2, <3>5 DEF NodeInv, Row
    <3>7. \A i \in 1..(b + l) :
            page[m] \in FilePage /\ \E k \in i..(Frames - ((b + l) - i)) : GotAt(m, i) = Data(page[m], k)
      BY <3>3, <3>6
    <3> QED BY <1>1, <3>4, <3>5, <3>7 DEF Row
  <2> QED BY <1>1, <2>1, <2>2, NodeStays DEF Unanswered
<1>3. AnnOnce' /\ AnnFrom' /\ ReqOnce'
  BY <1>1, <1>2 DEF Rows, AnnOnce, AnnFrom, ReqOnce
<1>4. ReqFrom'
  BY <1>1 DEF Rows, ReqFrom, Downloads
<1>5. ReqWaits' /\ ServedAsks'
  BY <1>1 DEF ReqWaits, ServedAsks
<1> QED BY <1>2, <1>3, <1>4, <1>5 DEF Rows

LEMMA InitRows ==
  ASSUME Init
  PROVE  Rows
<1>1. AnnOnce /\ AnnFrom /\ ReqFrom /\ ReqOnce /\ ReqWaits /\ ServedAsks
  BY DEF Init, AnnOnce, AnnFrom, ReqFrom, ReqOnce, ReqWaits, ServedAsks
<1>2. \A n \in Node : NodeInv(n)
  BY DEF Init, NodeInv, Unanswered, Loading
<1> QED BY <1>1, <1>2 DEF Rows

(* A boot in which nothing restarts.                                       *)
NoRestart == faults.master = 0
PromptInv == Types /\ NoRestart /\ Ids /\ Rows

LEMMA PromptSteps ==
  ASSUME Types, NoRestart, PromptNext
  PROVE  Next /\ NoRestart' /\ Types'
<1>1. Next /\ (UNCHANGED faults \/ \E kind \in {"loss", "card"} : Fault(kind))
  BY DEF PromptNext, Next, Boot, Announce, CheckReply, CheckTimeout, RequestPage, ReceiveFrame,
         DownloadTimeout, Erase, Copy, Master, Ignore, HandleAnnouncement,
         HandleRequest, SendFrame, ReadFails, CardFails, Lose, Switch
<1>2. Types'
  BY <1>1, StepTypes
<1>3. ASSUME NEW kind \in {"loss", "card"}, Fault(kind)
      PROVE  faults'["master"] = faults["master"]
  BY <1>3, FaultKeeps DEF Types
<1> QED BY <1>1, <1>2, <1>3 DEF NoRestart

LEMMA StepPrompt == PromptInv /\ [PromptNext]_vars => PromptInv'
<1> SUFFICES ASSUME PromptInv, [PromptNext]_vars PROVE PromptInv'
  OBVIOUS
<1>1. CASE UNCHANGED vars
  <2>1. UNCHANGED <<state, shortId, page, codeBuf, flash, rx, inbox, serving, nodeMap, faults>>
    BY <1>1 DEF vars, node, master
  <2>2. \A m \in Node : NodeInv(m)' /\ Unanswered(m)' = Unanswered(m)
    BY <2>1, NodeStays DEF PromptInv, Rows, Unanswered
  <2>3. AnnOnce' /\ AnnFrom' /\ ReqOnce' /\ ReqWaits'
    BY <2>1, <2>2 DEF PromptInv, Rows, AnnOnce, AnnFrom, ReqOnce, ReqWaits
  <2>4. ReqFrom' /\ ServedAsks'
    BY <2>1 DEF PromptInv, Rows, ReqFrom, ServedAsks, Downloads
  <2>5. Types'
    BY <1>1, StepTypes DEF PromptInv
  <2>6. Ids' /\ NoRestart'
    BY <2>1 DEF PromptInv, Ids, IdsAgree, RepliesAgree, Registered, NoRestart
  <2> QED BY <2>2, <2>3, <2>4, <2>5, <2>6 DEF PromptInv, Rows
<1>2. CASE PromptNext
  <2>1. Next /\ NoRestart' /\ Types'
    BY <1>2, PromptSteps DEF PromptInv
  <2>2. Ids'
    BY <2>1, StepAgrees DEF PromptInv, Agree, Ids, NoRestart
  <2>3. ASSUME NEW n \in Node, ~Expected(n), CheckTimeout(n) \/ DownloadTimeout(n)
        PROVE  Rows'
    BY <2>1, <2>3, CheckTimeoutRows, RunRows DEF PromptInv
  <2>4. ASSUME NEW n \in Node,
               \/ Announce(n) \/ CheckReply(n) \/ RequestPage(n)
               \/ ReceiveFrame(n) \/ Erase(n) \/ Copy(n)
        PROVE  Rows'
    BY <2>1, <2>4, AnnounceRows, CheckReplyRows, RequestRows, ReceiveRows, SaveRows
       DEF PromptInv, Ids
  <2>5. ASSUME Master PROVE Rows'
    BY <2>1, <2>2, <2>5, IgnoreRows, ReplyRows, HandleRequestRows, SendRows, ReadFailsRows
       DEF PromptInv, Master, Ids
  <2>6. ASSUME Switch PROVE Rows'
    BY <2>6, SwitchRows DEF PromptInv
  <2> QED BY <1>2, <2>1, <2>2, <2>3, <2>4, <2>5, <2>6 DEF PromptInv, PromptNext
<1> QED BY <1>1, <1>2

LEMMA InitPrompt == Init => PromptInv
<1> SUFFICES ASSUME Init PROVE PromptInv
  OBVIOUS
<1>1. Ids /\ NoRestart
  BY DEF Init, Ids, IdsAgree, RepliesAgree, NoRestart
<1> QED BY <1>1, InitTypes, InitRows DEF PromptInv

(* A page that is written is the page of the file, although the frames     *)
(* carry no number and some are lost, on the bus or for want of room, if   *)
(* no node restarts or gives up on an answer that is still to come.        *)
THEOREM NoBadPageHolds == PromptSpec => []NoBadPage
<1>1. PromptInv => NoBadPage
  BY DEF PromptInv, Rows, NodeInv, NoBadPage
<1> QED BY <1>1, InitPrompt, StepPrompt, PTL DEF PromptSpec

---------------------------------------------------------------------------------
(* The whole program.  If no frame is lost, a node that waits for a page   *)
(* has its request on its way, or as much of the row as has been sent; so  *)
(* it is only for a page the file does not have that it waits in vain.     *)
Lossless == faults.loss + faults.card = 0
SavedTo(n, p) == \A q \in FilePage \cap FlashPage : q < p => flash[n][q] = "new"
Asked(n) == \E j \in DOMAIN inbox : inbox[j].kind = "req" /\ inbox[j].dest = shortId[n]

LoadInv(n) ==
  /\ page[n] <= FilePages + 1
  /\ state[n] \in Loading \/ ~Unanswered(n) => enableBootMaster
  /\ Lossless =>
       /\ state[n] \in Loading => SavedTo(n, page[n])
       /\ state[n] = "download" /\ page[n] \in FilePage => Asked(n) \/ Got(n) = Upto(n)
       /\ state[n] = "run" /\ page[n] > 0 => SavedTo(n, FilePages + 1)

PacedInv == PromptInv /\ \A n \in Node : LoadInv(n)

LEMMA Losses ==
  ASSUME Types
  PROVE  /\ UNCHANGED faults => Lossless' = Lossless
         /\ \A kind \in {"loss", "card"} : Fault(kind) => ~Lossless'
<1>1. faults.loss \in Nat /\ faults.card \in Nat
  BY BootAssumption DEF Types, FaultTypes, Faults
<1>2. ASSUME NEW kind \in {"loss", "card"}, Fault(kind) PROVE ~Lossless'
  <2>1. /\ faults'[kind] = faults[kind] + 1
        /\ \A other \in {"node", "master", "loss", "card"} \ {kind} : faults'[other] = faults[other]
    BY <1>2, FaultKeeps DEF Types
  <2>2. CASE kind = "loss"
    <3>1. faults'["loss"] = faults["loss"] + 1 /\ faults'["card"] = faults["card"]
      BY <2>1, <2>2
    <3> QED BY <1>1, <3>1 DEF Lossless
  <2>3. CASE kind = "card"
    <3>1. faults'["loss"] = faults["loss"] /\ faults'["card"] = faults["card"] + 1
      BY <2>1, <2>3
    <3> QED BY <1>1, <3>1 DEF Lossless
  <2> QED BY <2>2, <2>3
<1>3. UNCHANGED faults => Lossless' = Lossless
  BY DEF Lossless
<1> QED BY <1>2, <1>3

(* A node to which nothing happens.                                        *)
LEMMA LoadStays ==
  ASSUME NEW m \in Node, LoadInv(m),
         state'[m] = state[m], page'[m] = page[m], flash'[m] = flash[m],
         enableBootMaster => enableBootMaster', Lossless' => Lossless,
         ~Unanswered(m)' => ~Unanswered(m) \/ enableBootMaster',
         Lossless' /\ state[m] = "download" /\ page[m] \in FilePage =>
           (Asked(m) \/ Got(m) = Upto(m) => Asked(m)' \/ Got(m)' = Upto(m)')
  PROVE  LoadInv(m)'
<1>1. \A p : SavedTo(m, p)' = SavedTo(m, p)
  BY DEF SavedTo
<1> QED BY <1>1 DEF LoadInv, SavedTo

(* What a node sends leaves the requests of the others on their way.       *)
LEMMA StillAsked ==
  ASSUME MasterTypes, NEW f \in MasterFrame, inbox' = inbox \/ ToMaster(f),
         NEW m \in Node, shortId'[m] = shortId[m], Asked(m)
  PROVE  Asked(m)'
<1>1. PICK j \in DOMAIN inbox : inbox[j].kind = "req" /\ inbox[j].dest = shortId[m]
  BY DEF Asked
<1>2. j \in DOMAIN inbox' /\ inbox'[j] = inbox[j]
  BY <1>1, Sends
<1> QED BY <1>1, <1>2 DEF Asked

(* A step of one node does not change the others' cases.                   *)
LEMMA OthersLoad ==
  ASSUME Types, NEW n \in Node, Boot(n), NEW m \in Node, m # n, LoadInv(m)
  PROVE  LoadInv(m)'
<1>1. /\ serving' = serving /\ faults' = faults /\ enableBootMaster' = enableBootMaster
      /\ state'[m] = state[m] /\ shortId'[m] = shortId[m] /\ page'[m] = page[m]
      /\ codeBuf'[m] = codeBuf[m] /\ rx'[m] = rx[m] /\ flash'[m] = flash[m]
  BY OthersStay
<1>2. PICK f \in MasterFrame : inbox' = inbox \/ ToMaster(f)
  <2>1. inbox' = inbox \/ ToMaster(Announcement(n)) \/ ToMaster(Request(shortId[n], page[n]))
    BY DEF Boot, Announce, CheckReply, CheckTimeout, RequestPage, ReceiveFrame,
           DownloadTimeout, Erase, Copy, Run, master
  <2> QED BY <2>1, FromNode
<1>3. Asked(m) => Asked(m)'
  BY <1>1, <1>2, StillAsked DEF Types
<1>4. Got(m)' = Got(m) /\ Upto(m)' = Upto(m) /\ Unanswered(m)' = Unanswered(m)
  BY <1>1 DEF Got, Upto, Served, Unanswered
<1>5. Lossless' = Lossless
  BY <1>1, Losses
<1> QED BY <1>1, <1>3, <1>4, <1>5, LoadStays

LEMMA WaitLoad ==
  ASSUME Types, Rows, Rows', NEW n \in Node, LoadInv(n),
         Announce(n) \/ CheckReply(n) \/ (~Expected(n) /\ CheckTimeout(n))
  PROVE  LoadInv(n)'
<1>1. /\ state[n] \in {"announce", "wait"} /\ enableBootMaster' = enableBootMaster
      /\ FilePages \in Nat
  BY BootAssumption DEF Announce, CheckReply, CheckTimeout, master
<1>2. NodeInv(n) /\ NodeInv(n)' /\ page[n] = 0
  BY <1>1 DEF Rows, NodeInv
<1>3. CASE Announce(n)
  <2>1. state'[n] = "wait" /\ page'[n] = page[n] /\ rx' = rx
    BY <1>3 DEF Announce, Types, NodeTypes
  <2>2. Unanswered(n)' = Unanswered(n)
    BY <2>1 DEF Unanswered
  <2> QED BY <1>1, <1>2, <2>1, <2>2 DEF LoadInv, Loading
<1>4. CASE CheckReply(n)
  <2>1. /\ rx[n] # <<>> /\ rx' = [rx EXCEPT ![n] = Tail(@)]
        /\ Head(rx[n]).frame = Reply(n) => state'[n] = "request" /\ page'[n] = 1
        /\ Head(rx[n]).frame # Reply(n) => state'[n] = state[n] /\ page'[n] = page[n]
    BY <1>4 DEF CheckReply, Types, NodeTypes
  <2>2. CASE Head(rx[n]).frame = Reply(n)
    <3>1. ~Unanswered(n)
      <4>1. 1 \in DOMAIN rx[n] /\ Head(rx[n]) = rx[n][1]
        <5>1. PICK l \in Nat : l = Len(rx[n]) /\ l > 0 /\ DOMAIN rx[n] = 1..l
          BY <2>1, FirstFrame DEF Types
        <5> QED BY <2>1, <5>1, FirstFrame DEF Types
      <4> QED BY <2>2, <4>1 DEF Unanswered
    <3>2. SavedTo(n, page[n])'
      <4>1. \A q \in FilePage \cap FlashPage : ~(q < 1)
        BY DEF FilePage
      <4> QED BY <2>1, <2>2, <4>1 DEF SavedTo
    <3> QED BY <1>1, <2>1, <2>2, <3>1, <3>2 DEF LoadInv, Loading
  <2>3. CASE Head(rx[n]).frame # Reply(n)
    <3>1. Unanswered(n) => Unanswered(n)'
      <4>1. /\ DOMAIN rx'[n] = 1..(Len(rx[n]) - 1) /\ DOMAIN rx[n] = 1..Len(rx[n])
            /\ \A k \in 1..(Len(rx[n]) - 1) : rx'[n][k] = rx[n][k + 1]
            /\ Len(rx[n]) \in Nat
        BY <2>1, FirstFrame DEF Types
      <4>2. PICK l \in Nat : l = Len(rx[n])
        BY <4>1
      <4>3. \A k \in 1..(l - 1) : k + 1 \in 1..l
        OBVIOUS
      <4> QED BY <4>1, <4>2, <4>3 DEF Unanswered
    <3> QED BY <1>1, <1>2, <2>1, <2>3, <3>1 DEF LoadInv, Loading
  <2> QED BY <2>2, <2>3
<1>5. CASE CheckTimeout(n)
  <2>1. state'[n] \in {"run", "announce"} /\ page'[n] = page[n]
    BY <1>5 DEF CheckTimeout, Run, Types, NodeTypes
  <2>2. Unanswered(n)'
    BY <1>2, <2>1 DEF NodeInv
  <2> QED BY <1>1, <1>2, <2>1, <2>2 DEF LoadInv, Loading
<1> QED BY <1>3, <1>4, <1>5

LEMMA RequestLoad ==
  ASSUME Types, Rows, Rows', NEW n \in Node, LoadInv(n), RequestPage(n), Len(inbox) < InboxSize
  PROVE  LoadInv(n)'
<1>1. PICK f : f = Request(shortId[n], page[n])
  OBVIOUS
<1>2. /\ state[n] = "request" /\ state'[n] = "download" /\ ToMaster(f)
      /\ UNCHANGED <<shortId, page, flash, rx, enableBootMaster, faults>>
  BY <1>1 DEF RequestPage, Types, NodeTypes
<1>3. f \in MasterFrame /\ f.kind = "req" /\ f.dest = shortId[n]
  BY <1>1, FromNode
<1>4. Asked(n)'
  <2>1. PICK j \in DOMAIN inbox' : inbox'[j] = f
    BY <1>2, <1>3, Sends DEF Types
  <2> QED BY <1>2, <1>3, <2>1 DEF Asked
<1>5. Lossless' = Lossless /\ SavedTo(n, page[n])' = SavedTo(n, page[n])
  BY <1>2, Losses DEF SavedTo
<1> QED BY <1>2, <1>4, <1>5 DEF LoadInv, Loading

LEMMA ReceiveLoad ==
  ASSUME Types, Types', Rows, Rows', NEW n \in Node, LoadInv(n), ReceiveFrame(n)
  PROVE  LoadInv(n)'
<1>1. /\ state[n] = "download" /\ state'[n] \in {"download", "erase"}
      /\ UNCHANGED <<shortId, page, flash, inbox, serving, enableBootMaster, faults>>
  BY DEF ReceiveFrame, master, Types, NodeTypes
<1>2. Got(n)' = Got(n)
  BY MovesOn
<1>3. Upto(n)' = Upto(n) /\ Asked(n)' = Asked(n)
  BY <1>1 DEF Upto, Served, Asked
<1>4. Lossless' = Lossless /\ SavedTo(n, page[n])' = SavedTo(n, page[n])
  BY <1>1, Losses DEF SavedTo
<1> QED BY <1>1, <1>2, <1>3, <1>4 DEF LoadInv, Loading

(* It gives up for want of a page that the file does not have.             *)
LEMMA TimeoutLoad ==
  ASSUME Types, Rows, Rows', NEW n \in Node, LoadInv(n), ~Expected(n), DownloadTimeout(n)
  PROVE  LoadInv(n)'
<1>1. /\ state[n] = "download" /\ rx[n] = <<>> /\ state'[n] = "run"
      /\ UNCHANGED <<page, flash, enableBootMaster, faults>>
  BY DEF DownloadTimeout, Run, Types, NodeTypes
<1>2. page[n] \in Nat /\ page[n] # 0 /\ page[n] <= FilePages + 1 /\ FilePages \in Nat
  BY <1>1, BootAssumption DEF Types, NodeTypes, Rows, NodeInv, LoadInv, Loading
<1>3. Lossless' = Lossless /\ Unanswered(n)'
  BY <1>1, Losses DEF Rows, NodeInv
<1>4. ASSUME Lossless PROVE page[n] = FilePages + 1
  <2> SUFFICES ASSUME page[n] \in FilePage PROVE FALSE
    BY <1>2 DEF FilePage
  <2>1. ~Asked(n) /\ ~Served(n)
    BY DEF Expected, Asked, Served
  <2>2. Got(n) = Frames
    BY <1>1, <1>4, <2>1 DEF LoadInv, Upto
  <2>3. PICK b \in Nat : b = Len(codeBuf[n])
    BY LenProperties DEF Types, NodeTypes
  <2>4. b < Frames
    BY <1>1, <2>3 DEF Types, HasRoom
  <2>5. Got(n) = b
    BY <1>1, <2>3 DEF Got
  <2> QED BY <2>2, <2>4, <2>5
<1>5. Lossless => SavedTo(n, FilePages + 1)'
  <2> SUFFICES ASSUME Lossless PROVE SavedTo(n, FilePages + 1)'
    OBVIOUS
  <2>1. SavedTo(n, page[n])
    BY <1>1 DEF LoadInv, Loading
  <2> QED BY <1>1, <1>4, <2>1 DEF SavedTo
<1> QED BY <1>1, <1>2, <1>3, <1>5 DEF LoadInv, Loading

LEMMA SaveLoad ==
  ASSUME Types, Rows, Rows', NEW n \in Node, LoadInv(n), Erase(n) \/ Copy(n)
  PROVE  LoadInv(n)'
<1>1. /\ state[n] \in {"erase", "copy"} /\ state'[n] \in {"copy", "request"}
      /\ UNCHANGED <<enableBootMaster, faults>>
  BY DEF Erase, Copy, Types, NodeTypes
<1>2. /\ page[n] \in FilePage /\ codeBuf[n] = WholePage(page[n])
      /\ page[n] \in Nat /\ page[n] <= FilePages /\ FilePages \in Nat
  BY <1>1, BootAssumption DEF Rows, NodeInv, FilePage
<1>3. /\ page'[n] \in {page[n], page[n] + 1}
      /\ \A q \in FlashPage :
           /\ q < page[n] => flash'[n][q] = flash[n][q]
           /\ q < page'[n] /\ ~(q < page[n]) => flash'[n][q] = "new"
  <2>1. CASE Erase(n)
    BY <1>2, <2>1 DEF Erase, SetFlash, Types, NodeTypes, FlashPage
  <2>2. CASE Copy(n)
    <3>1. /\ page'[n] = page[n] + 1
          /\ \A q \in FlashPage : flash'[n][q] = IF q = page[n] THEN "new" ELSE flash[n][q]
      BY <1>2, <2>2 DEF Copy, SetFlash, Written, Types, NodeTypes
    <3> QED BY <1>2, <3>1 DEF FlashPage
  <2> QED BY <2>1, <2>2
<1>4. SavedTo(n, page[n]) => SavedTo(n, page[n])'
  BY <1>3 DEF SavedTo
<1>5. Lossless' = Lossless
  BY <1>1, Losses
<1> QED BY <1>1, <1>2, <1>3, <1>4, <1>5 DEF LoadInv, Loading

(* What the master takes is no longer on its way; the rest is.             *)
LEMMA AskedLater ==
  ASSUME MasterTypes, inbox # <<>>, inbox' = Tail(inbox), NEW m \in Node, shortId'[m] = shortId[m],
         ~(inbox[1].kind = "req" /\ inbox[1].dest = shortId[m]), Asked(m)
  PROVE  Asked(m)'
<1>1. inbox \in Seq(MasterFrame) /\ Len(inbox) \in Nat /\ DOMAIN inbox = 1..Len(inbox)
  BY LenProperties DEF MasterTypes
<1>2. PICK j \in 1..Len(inbox) : inbox[j].kind = "req" /\ inbox[j].dest = shortId[m]
  BY <1>1 DEF Asked
<1>3. PICK i \in Nat : i = j - 1 /\ i > 0 /\ i + 1 = j
  <2>1. j # 1
    BY <1>2
  <2> QED BY <1>1, <2>1
<1>4. i \in DOMAIN inbox' /\ inbox'[i] = inbox[j]
  <2>1. PICK t : t = Tail(inbox)
    OBVIOUS
  <2>2. t \in Seq(MasterFrame) /\ Len(t) = Len(inbox) - 1 /\ \A k \in 1..Len(t) : t[k] = inbox[k + 1]
    BY <1>1, <2>1, HeadTailProperties
  <2>3. DOMAIN t = 1..Len(t)
    BY <2>2, LenProperties
  <2>4. i \in 1..Len(t)
    BY <1>1, <1>2, <1>3, <2>2
  <2> QED BY <1>3, <2>1, <2>2, <2>3, <2>4
<1> QED BY <1>2, <1>4 DEF Asked

LEMMA IgnoreLoad ==
  ASSUME Types, Rows, Rows', NEW m \in Node, LoadInv(m), Ignore
  PROVE  LoadInv(m)'
<1>1. ~enableBootMaster /\ UNCHANGED <<state, page, flash, rx, enableBootMaster, faults>>
  BY DEF Ignore, node
<1>2. state[m] \notin Loading /\ state[m] # "download"
  BY <1>1 DEF LoadInv, Loading
<1> QED BY <1>1, <1>2, Losses, LoadStays DEF Unanswered

LEMMA ReplyLoad ==
  ASSUME Types, Ids, Rows, IdsAgree', NEW m \in Node, LoadInv(m), HandleAnnouncement
  PROVE  LoadInv(m)'
<1>1. PICK n, id : n = Head(inbox).uid /\ id = Number(n)
  OBVIOUS
<1>2. /\ enableBootMaster /\ UNCHANGED <<state, page, codeBuf, flash, serving, enableBootMaster>>
      /\ UNCHANGED faults \/ Fault("loss")
  BY DEF HandleAnnouncement, Lose
<1>3. /\ inbox # <<>> /\ inbox' = Tail(inbox) /\ inbox[1] = Announcement(n)
      /\ state[m] \in Loading => shortId'[m] = shortId[m] /\ rx'[m] = rx[m]
  BY <1>1, ReplyMisses
<1>4. Lossless' => Lossless
  BY <1>2, Losses
<1>5. CASE state[m] = "download"
  <2>1. shortId'[m] = shortId[m] /\ rx'[m] = rx[m]
    BY <1>3, <1>5 DEF Loading
  <2>2. Got(m)' = Got(m) /\ Upto(m)' = Upto(m)
    BY <1>2, <2>1 DEF Got, Upto, Served
  <2>3. inbox[1].kind # "req"
    BY <1>3 DEF Announcement
  <2>4. Asked(m) => Asked(m)'
    BY <1>3, <2>1, <2>3, AskedLater DEF Types
  <2> QED BY <1>2, <1>4, <2>2, <2>4, LoadStays
<1>6. CASE state[m] # "download"
  BY <1>2, <1>4, <1>6, LoadStays
<1> QED BY <1>5, <1>6

LEMMA HandleRequestLoad ==
  ASSUME Types, Ids, Rows, NEW m \in Node, LoadInv(m), HandleRequest
  PROVE  LoadInv(m)'
<1>1. PICK f : f = Head(inbox)
  OBVIOUS
<1>2. /\ inbox # <<>> /\ inbox' = Tail(inbox) /\ f.kind = "req" /\ serving = Idle
      /\ \/ /\ serving' = IF f.page \in FilePage THEN [dest |-> f.dest, page |-> f.page, next |-> 1]
                                                 ELSE Idle
            /\ UNCHANGED faults
         \/ Fault("card")
      /\ \/ serving' = Idle
         \/ serving' = [dest |-> f.dest, page |-> f.page, next |-> 1]
      /\ UNCHANGED <<state, shortId, page, codeBuf, flash, rx, enableBootMaster>>
  BY <1>1 DEF HandleRequest, Receives, Seek, CardFails, node
<1>3. f = inbox[1] /\ 1 \in DOMAIN inbox
  BY <1>1, <1>2, Takes DEF Types
<1>4. PICK r \in Node : Downloads(r, f.dest, f.page) /\ codeBuf[r] = <<>> /\ rx[r] = <<>>
  BY <1>2, <1>3 DEF Rows, ReqFrom
<1>5. shortId[r] = f.dest /\ f.dest # 0 /\ f.page = page[r]
  BY <1>4 DEF Downloads, Rows, NodeInv, Loading
<1>6. (Lossless' => Lossless /\ UNCHANGED faults) /\ Got(m)' = Got(m) /\ Unanswered(m)' = Unanswered(m)
  BY <1>2, Losses DEF Got, Unanswered
<1>7. CASE m = r
  <2>1. ASSUME Lossless', page[r] \in FilePage
        PROVE  Got(r)' = 0 /\ Upto(r)' = 0
    <3>1. serving' = [dest |-> f.dest, page |-> f.page, next |-> 1]
      BY <1>2, <1>5, <1>6, <2>1, Losses
    <3>2. serving' # Idle /\ serving'.dest = shortId'[r] /\ serving'.next = 1
      BY <1>2, <1>5, <3>1 DEF Idle
    <3>3. codeBuf'[r] = <<>> /\ rx'[r] = <<>>
      BY <1>2, <1>4
    <3> QED BY <3>2, <3>3 DEF Upto, Served, Got
  <2> QED BY <1>2, <1>6, <1>7, <2>1, LoadStays
<1>8. CASE m # r
  <2> SUFFICES ASSUME state[m] = "download", Asked(m) \/ Got(m) = Upto(m)
               PROVE  Asked(m)' \/ Got(m)' = Upto(m)'
    BY <1>2, <1>6, LoadStays
  <2>1. shortId[m] # f.dest
    BY <1>5, <1>8, OneId DEF Ids
  <2>2. Asked(m) => Asked(m)'
    BY <1>2, <1>3, <2>1, AskedLater DEF Types
  <2>3. Upto(m)' = Upto(m)
    BY <1>2, <2>1 DEF Upto, Served
  <2> QED BY <1>6, <2>2, <2>3
<1> QED BY <1>7, <1>8

LEMMA SendLoad ==
  ASSUME Types, Ids, Rows, NEW m \in Node, LoadInv(m), SendFrame, KeepsUp
  PROVE  LoadInv(m)'
<1>1. PICK f, d, x : f = Data(serving.page, serving.next) /\ d = serving.dest /\ x = serving.next
  OBVIOUS
<1>2. /\ serving # Idle
      /\ \/ ToNodes(d, f) /\ UNCHANGED faults
         \/ Fault("loss") /\ rx' = rx
      /\ UNCHANGED <<state, page, codeBuf, flash, inbox, enableBootMaster>>
  BY <1>1 DEF SendFrame, Lose
<1>3. /\ f \in NodeFrame /\ d \in Nat /\ shortId' = shortId /\ x \in 1..Frames
      /\ \A i \in Node : f # Reply(i)
  BY <1>1, Serves
<1>4. PICK r \in Node :
        /\ Downloads(r, d, serving.page) /\ Upto(r) = x - 1 /\ Upto(r)' = x
        /\ \A i \in Node \ {r} : state[i] \in Loading => shortId[i] # d /\ Upto(i)' = Upto(i)
  BY <1>1, Serves
<1>5. Asked(m)' = Asked(m)
  BY <1>2, <1>3 DEF Asked
<1>6. PICK l \in Nat, b \in Nat : l = Len(rx[m]) /\ b = Len(codeBuf[m])
  BY LenProperties DEF Types, NodeTypes, RxTypes
<1>7. Unanswered(m) => Unanswered(m)'
  <2>1. CASE ToNodes(d, f)
    <3>1. CASE Listens(m, d) /\ Room(m)
      <4>1. Grows(rx[m], rx'[m], l, f)
        BY <1>3, <1>6, <2>1, <3>1, Arrives
      <4> QED BY <1>3, <4>1 DEF Unanswered, Grows
    <3>2. CASE ~(Listens(m, d) /\ Room(m))
      <4>1. rx'[m] = rx[m]
        BY <2>1, <3>2 DEF ToNodes
      <4> QED BY <4>1 DEF Unanswered
    <3> QED BY <3>1, <3>2
  <2>2. CASE rx' = rx
    BY <2>2 DEF Unanswered
  <2> QED BY <1>2, <2>1, <2>2
<1>8. ASSUME Lossless', state[m] = "download", Got(m) = Upto(m)
      PROVE  Got(m)' = Upto(m)'
  <2>1. ToNodes(d, f)
    BY <1>2, <1>8, Losses
  <2>2. CASE m = r
    <3>1. Listens(m, d)
      BY <1>4, <1>8, <2>2 DEF Listens, Loading, Downloads
    <3>2. Room(m)
      BY <1>1, <1>8, <3>1 DEF KeepsUp
    <3>3. Len(rx'[m]) = l + 1
      <4>1. Grows(rx[m], rx'[m], l, f)
        BY <1>3, <1>6, <2>1, <3>1, <3>2, Arrives
      <4> QED BY <4>1 DEF Grows
    <3>4. Got(m)' = b + (l + 1) /\ Got(m) = b + l
      BY <1>2, <1>6, <3>3 DEF Got
    <3> QED BY <1>3, <1>4, <1>8, <2>2, <3>4
  <2>3. CASE m # r
    <3>1. Upto(m)' = Upto(m) /\ ~Listens(m, d)
      BY <1>4, <1>8, <2>3 DEF Listens, Loading
    <3>2. rx'[m] = rx[m]
      BY <2>1, <3>1 DEF ToNodes
    <3> QED BY <1>2, <1>8, <3>1, <3>2 DEF Got
  <2> QED BY <2>2, <2>3
<1>9. Lossless' => Lossless
  BY <1>2, Losses
<1> QED BY <1>2, <1>5, <1>7, <1>8, <1>9, LoadStays

LEMMA OtherLoad ==
  ASSUME Types, NEW m \in Node, LoadInv(m), ReadFails \/ (~enableBootMaster /\ Switch) \/ UNCHANGED vars
  PROVE  LoadInv(m)'
<1>1. /\ UNCHANGED <<state, shortId, page, codeBuf, flash, rx, inbox>>
      /\ enableBootMaster => enableBootMaster'
      /\ UNCHANGED <<serving, faults>> \/ Fault("card")
  BY DEF ReadFails, CardFails, Switch, node, master, vars
<1>2. Unanswered(m)' = Unanswered(m)
  BY <1>1 DEF Unanswered
<1>3. CASE Fault("card")
  BY <1>1, <1>2, <1>3, Losses, LoadStays
<1>4. CASE UNCHANGED <<serving, faults>>
  <2>1. Asked(m)' = Asked(m) /\ Got(m)' = Got(m) /\ Upto(m)' = Upto(m)
    BY <1>1, <1>4 DEF Asked, Got, Upto, Served
  <2> QED BY <1>1, <1>2, <1>4, <2>1, Losses, LoadStays
<1> QED BY <1>1, <1>3, <1>4

LEMMA StepPaced == PacedInv /\ [PromptNext /\ KeepsUp]_vars => PacedInv'
<1>1. PacedInv /\ [PromptNext /\ KeepsUp]_vars => PromptInv'
  BY StepPrompt DEF PacedInv
<1> SUFFICES ASSUME PacedInv, [PromptNext /\ KeepsUp]_vars, NEW m \in Node
             PROVE  LoadInv(m)'
  BY <1>1 DEF PacedInv
<1>2. PromptInv' /\ PromptInv /\ LoadInv(m)
  BY <1>1 DEF PacedInv
<1>3. Types /\ Ids /\ Rows /\ Types' /\ Ids' /\ Rows'
  BY <1>2 DEF PromptInv
<1>4. CASE UNCHANGED vars
  BY <1>2, <1>3, <1>4, OtherLoad
<1>5. ASSUME NEW n \in Node, n # m, Boot(n)
      PROVE  LoadInv(m)'
  BY <1>2, <1>3, <1>5, OthersLoad, Zenon
<1>6. ASSUME PromptNext, KeepsUp
      PROVE  LoadInv(m)'
  <2>1. ASSUME NEW n \in Node, ~Expected(n), CheckTimeout(n) \/ DownloadTimeout(n)
        PROVE  LoadInv(m)'
    <3>1. CASE n = m
      BY <1>2, <1>3, <2>1, <3>1, WaitLoad, TimeoutLoad
    <3>2. CASE n # m
      BY <1>5, <2>1, <3>2 DEF Boot
    <3> QED BY <3>1, <3>2
  <2>2. ASSUME NEW n \in Node, \/ Announce(n) \/ CheckReply(n) \/ RequestPage(n)
                               \/ ReceiveFrame(n) \/ Erase(n) \/ Copy(n)
        PROVE  LoadInv(m)'
    <3>1. CASE n = m
      <4>1. RequestPage(n) => Len(inbox) < InboxSize
        BY <1>6 DEF KeepsUp
      <4> QED BY <1>2, <1>3, <2>2, <3>1, <4>1, WaitLoad, RequestLoad, ReceiveLoad, SaveLoad
    <3>2. CASE n # m
      BY <1>5, <2>2, <3>2 DEF Boot
    <3> QED BY <3>1, <3>2
  <2>3. ASSUME Master PROVE LoadInv(m)'
    BY <1>2, <1>3, <1>6, <2>3, IgnoreLoad, ReplyLoad, HandleRequestLoad, SendLoad, OtherLoad
       DEF Master, Ids
  <2>4. ASSUME ~enableBootMaster, Switch PROVE LoadInv(m)'
    BY <1>2, <1>3, <2>4, OtherLoad
  <2> QED BY <1>6, <2>1, <2>2, <2>3, <2>4 DEF PromptNext
<1> QED BY <1>2, <1>4, <1>6

LEMMA InitPaced == Init => PacedInv
<1> SUFFICES ASSUME Init, NEW n \in Node PROVE LoadInv(n)
  BY InitPrompt DEF PacedInv
<1>1. page[n] = 0 /\ state[n] = "announce" /\ Unanswered(n)
  BY DEF Init, Unanswered
<1> QED BY <1>1, BootAssumption DEF LoadInv, Loading

LEMMA PacedIsWhole == PacedInv => RunsWholeProgram
<1> SUFFICES ASSUME PacedInv, NEW n \in Node, state[n] = "run", page[n] > 0, Lossless,
                    NEW p \in FilePage \cap FlashPage
             PROVE  flash[n][p] = "new"
  BY DEF RunsWholeProgram, Lossless
<1>1. SavedTo(n, FilePages + 1) /\ p < FilePages + 1
  BY BootAssumption DEF PacedInv, LoadInv, FilePage
<1> QED BY <1>1 DEF SavedTo

(* A node that started to download runs the whole program, if no node      *)
(* restarts or gives up on an answer that is still to come, there is room  *)
(* for every frame, and none is lost and the card can be read.             *)
THEOREM RunsWholeProgramHolds == PacedSpec => []RunsWholeProgram
<1> QED BY InitPaced, PacedIsWhole, StepPaced, PTL DEF PacedSpec

(* The same of the bus that is paced or not, of which only the paced one   *)
(* says anything.                                                          *)
THEOREM PacedRunsWholeHolds == MCPromptSpec => []PacedRunsWhole
<1> DEFINE Inv == paced => PacedInv
<1>1. Init => Inv
  BY InitPaced
<1>2. Inv /\ [PromptNext /\ (paced => KeepsUp) /\ paced' = paced]_<<vars, paced>> => Inv'
  <2>1. CASE PromptNext /\ (paced => KeepsUp) /\ paced' = paced
    BY <2>1, StepPaced
  <2>2. CASE UNCHANGED <<vars, paced>>
    BY <2>2, StepPaced
  <2> QED BY <2>1, <2>2
<1>3. Inv => PacedRunsWhole
  BY PacedIsWhole DEF PacedRunsWhole
<1> QED BY <1>1, <1>2, <1>3, PTL DEF MCPromptSpec
=================================================================================
