------------------------------ MODULE BootProtocol ------------------------------
(***************************************************************************)
(* Booting nodes over the CAN bus: the boot loader of a node               *)
(* (apps/canboot/main.c) and the boot master (can_rx and sendFile of       *)
(* apps/netdemo/main.c), with the application a node runs afterwards       *)
(* reduced to what it does here, as apps/driver/canbus.cpp does it:        *)
(* announce its uid again, and listen for its short id.                    *)
(*                                                                         *)
(* A node announces its uid, gets a short id, and requests the pages of    *)
(* its program one after the other; a page comes as a row of frames, which *)
(* carry no number.  All waits of the boot loader are timeouts of about a  *)
(* quarter of a second, while the master may be serving another node.      *)
(***************************************************************************)
EXTENDS Integers, Sequences, FiniteSets

CONSTANTS
  Node,          (* the nodes on the bus, each with its uid                *)
  SelfStart,     (* those with bit 7 of the boot config byte set           *)
  MaxTries,      (* 4: announcements of a self-starting node               *)
  Frames,        (* 512: frames in a page                                  *)
  FilePages,     (* pages of the program file on the master's card         *)
  FlashPages,    (* 7: pages of a node's flash that can be written         *)
  MapSize,       (* 30: entries of nodeMap, of which number 0 is not used  *)
  InboxSize,     (* frames the master's CAN driver holds while it is busy  *)
  MaxFaults      (* bound: restarts, lost frames and read errors, in total *)

ASSUME BootAssumption ==
  /\ SelfStart \subseteq Node
  /\ MaxTries \in Nat \ {0} /\ Frames \in Nat \ {0} /\ FilePages \in Nat /\ FlashPages \in Nat
  /\ InboxSize \in Nat \ {0}
  /\ MaxFaults \in Nat

(* The code does not check that nextNode stays inside nodeMap; buses with *)
(* more nodes than that are not modelled.                                  *)
ASSUME NodesFit == IsFiniteSet(Node) /\ Cardinality(Node) < MapSize

FilePage == 1..FilePages
FlashPage == 1..FlashPages
RxObjects == 3           \* message objects 1 to 3 of a node
Idle == [dest |-> 0, page |-> 0, next |-> 0]

VARIABLES
  state,      (* where each node is                                        *)
  tries,      (* bootCheck calls that got no reply                         *)
  shortId,
  page,       (* the page being downloaded                                 *)
  codeBuf,    (* the frames received of it                                 *)
  rx,         (* frames in the message objects of each node                *)
  flash,      (* what each page of each node's flash holds: "old", "new",  *)
              (* "blank", or "bad" for a mixture                           *)
  inbox,      (* frames the master has not handled yet                     *)
  nodeMap,    (* the uids the master knows, numbered from 1                *)
  serving,    (* the page sendFile is sending, and its next frame          *)
  enableBootMaster,
  faults      (* how many restarts, losses and read errors there have been *)

node == <<state, tries, shortId, page, codeBuf, flash>>
master == <<inbox, nodeMap, serving>>
vars == <<node, rx, master, enableBootMaster, faults>>

Loading == {"request", "download", "erase", "copy"}
NodeStates == {"announce", "wait", "run"} \cup Loading

Announcement(n) == [kind |-> "ann", uid |-> n]
Request(id, p) == [kind |-> "req", dest |-> id, page |-> p]
Reply(n) == [kind |-> "reply", uid |-> n]
Data(p, k) == [kind |-> "data", page |-> p, number |-> k]

WholePage(p) == [k \in 1..Frames |-> Data(p, k)]

Init ==
  /\ state = [n \in Node |-> "announce"]
  /\ tries = [n \in Node |-> 0]
  /\ shortId = [n \in Node |-> 0]
  /\ page = [n \in Node |-> 0]
  /\ codeBuf = [n \in Node |-> <<>>]
  /\ rx = [n \in Node |-> <<>>]
  /\ flash = [n \in Node |-> [p \in FlashPage |-> "old"]]
  /\ inbox = <<>> /\ nodeMap = <<>> /\ serving = Idle
  /\ enableBootMaster = FALSE
  /\ faults = [node |-> 0, master |-> 0, loss |-> 0, card |-> 0]

---------------------------------------------------------------------------------
(* The bus.                                                                *)

(* A frame for the master; its driver loses it when its buffer is full.    *)
ToMaster(frame) ==
  inbox' = IF Len(inbox) < InboxSize THEN Append(inbox, frame) ELSE inbox

(* A waiting node receives the frames for all short ids in one message     *)
(* object, a loading one those for its own in three.                       *)
Listens(n, id) ==
  \/ state[n] = "wait" \/ (state[n] = "announce" /\ tries[n] > 0)
  \/ state[n] \in Loading /\ shortId[n] = id
Room(n) == Len(rx[n]) < IF state[n] \in Loading THEN RxObjects ELSE 1

(* A frame to a short id.  A node whose message objects are full loses it; *)
(* a running application only looks for its own uid.                       *)
ToNodes(id, frame) ==
  /\ rx' = [n \in Node |-> IF Listens(n, id) /\ Room(n)
                           THEN Append(rx[n], [id |-> id, frame |-> frame])
                           ELSE rx[n]]
  /\ shortId' = [n \in Node |->
       IF state[n] = "run" /\ frame = Reply(n) THEN id ELSE shortId[n]]

Fault(kind) ==
  /\ faults.node + faults.master + faults.loss + faults.card < MaxFaults
  /\ faults' = [faults EXCEPT ![kind] = @ + 1]

Lose == Fault("loss")

---------------------------------------------------------------------------------
(* The boot loader.                                                        *)

(* bootCheck: announce this node's uid and wait.                           *)
Announce(n) ==
  /\ state[n] = "announce"
  /\ state' = [state EXCEPT ![n] = "wait"]
  /\ ToMaster(Announcement(n))
  /\ UNCHANGED <<tries, shortId, page, codeBuf, flash, rx, nodeMap, serving, enableBootMaster, faults>>

(* bootCheck: a frame; if it is the reply, the low bits of its address are *)
(* the short id, and only that address is listened to.                     *)
CheckReply(n) ==
  /\ state[n] = "wait" /\ rx[n] # <<>>
  /\ rx' = [rx EXCEPT ![n] = Tail(@)]
  /\ IF Head(rx[n]).frame = Reply(n)
     THEN /\ shortId' = [shortId EXCEPT ![n] = Head(rx[n]).id]
          /\ state' = [state EXCEPT ![n] = "request"]
          /\ page' = [page EXCEPT ![n] = 1]
     ELSE UNCHANGED <<shortId, state, page>>
  /\ UNCHANGED <<tries, codeBuf, flash, master, enableBootMaster, faults>>

(* The application starts with no short id and announces itself once.      *)
Run(n) ==
  /\ state' = [state EXCEPT ![n] = "run"]
  /\ shortId' = [shortId EXCEPT ![n] = 0]
  /\ rx' = [rx EXCEPT ![n] = <<>>]
  /\ ToMaster(Announcement(n))

(* Mutant of GivesUp: one announcement too many.                           *)
GivesUpLate(n) == n \in SelfStart /\ tries[n] = MaxTries
GivesUp(n) == n \in SelfStart /\ tries[n] + 1 = MaxTries

(* bootCheck gives up; main tries again, or starts what is in flash.       *)
CheckTimeout(n) ==
  /\ state[n] = "wait" /\ rx[n] = <<>>
  /\ tries' = [tries EXCEPT ![n] = IF n \in SelfStart THEN @ + 1 ELSE 1]
  /\ IF GivesUp(n)
     THEN Run(n)
     ELSE /\ state' = [state EXCEPT ![n] = "announce"]
          /\ UNCHANGED <<shortId, rx, inbox>>
  /\ UNCHANGED <<page, codeBuf, flash, nodeMap, serving, enableBootMaster, faults>>

(* download: request a page.                                               *)
RequestPage(n) ==
  /\ state[n] = "request"
  /\ state' = [state EXCEPT ![n] = "download"]
  /\ codeBuf' = [codeBuf EXCEPT ![n] = <<>>]
  /\ ToMaster(Request(shortId[n], page[n]))
  /\ UNCHANGED <<tries, shortId, page, flash, rx, nodeMap, serving, enableBootMaster, faults>>

(* download: any frame of eight bytes is the next eight bytes of the page. *)
ReceiveFrame(n) ==
  /\ state[n] = "download" /\ rx[n] # <<>>
  /\ codeBuf' = [codeBuf EXCEPT ![n] = Append(@, Head(rx[n]).frame)]
  /\ rx' = [rx EXCEPT ![n] = Tail(@)]
  /\ state' = [state EXCEPT ![n] = IF Len(codeBuf'[n]) = Frames THEN "erase" ELSE @]
  /\ UNCHANGED <<tries, shortId, page, flash, master, enableBootMaster, faults>>

(* Mutant of DownloadTimeout: the page is requested again, for ever.       *)
DownloadRetries(n) ==
  /\ state[n] = "download" /\ rx[n] = <<>>
  /\ state' = [state EXCEPT ![n] = "request"]
  /\ UNCHANGED <<tries, shortId, page, codeBuf, flash, rx, master, enableBootMaster, faults>>

(* download: no frame for a while; that is also how the program ends.      *)
DownloadTimeout(n) ==
  /\ state[n] = "download" /\ rx[n] = <<>>
  /\ Run(n)
  /\ UNCHANGED <<tries, page, codeBuf, flash, nodeMap, serving, enableBootMaster, faults>>

(* saveToFlash: the page is erased, and then written; beyond the flash     *)
(* neither has an effect.                                                  *)
SetFlash(n, contents) ==
  flash' = [flash EXCEPT ![n] =
              [p \in FlashPage |-> IF p = page[n] THEN contents ELSE flash[n][p]]]

Erase(n) ==
  /\ state[n] = "erase"
  /\ state' = [state EXCEPT ![n] = "copy"]
  /\ SetFlash(n, "blank")
  /\ UNCHANGED <<tries, shortId, page, codeBuf, rx, master, enableBootMaster, faults>>

(* Mutant of Written: a page that is not the file's stays erased.          *)
WrittenIfWhole(n) == IF codeBuf[n] = WholePage(page[n]) THEN "new" ELSE "blank"
Written(n) == IF codeBuf[n] = WholePage(page[n]) THEN "new" ELSE "bad"

Copy(n) ==
  /\ state[n] = "copy"
  /\ state' = [state EXCEPT ![n] = "request"]
  /\ SetFlash(n, Written(n))
  /\ page' = [page EXCEPT ![n] = @ + 1]
  /\ UNCHANGED <<tries, shortId, codeBuf, rx, master, enableBootMaster, faults>>

(* A reset or a power failure, at any point: only flash survives.          *)
Restart(n) ==
  /\ Fault("node")
  /\ state' = [state EXCEPT ![n] = "announce"]
  /\ tries' = [tries EXCEPT ![n] = 0]
  /\ shortId' = [shortId EXCEPT ![n] = 0]
  /\ page' = [page EXCEPT ![n] = 0]
  /\ codeBuf' = [codeBuf EXCEPT ![n] = <<>>]
  /\ rx' = [rx EXCEPT ![n] = <<>>]
  /\ UNCHANGED <<flash, master, enableBootMaster>>

---------------------------------------------------------------------------------
(* The boot master: the can_rx thread.                                     *)

(* It starts switched off; a key, polled by main, switches it on and off.  *)
Switch == /\ enableBootMaster' = ~enableBootMaster
          /\ UNCHANGED <<node, rx, master, faults>>

(* The frame can_rx takes next, unless it is busy sending a page.          *)
Receives(kind) == serving = Idle /\ inbox # <<>> /\ Head(inbox).kind = kind

(* Switched off, it takes frames and lets them drop.                       *)
Ignore ==
  /\ ~enableBootMaster /\ (Receives("ann") \/ Receives("req"))
  /\ inbox' = Tail(inbox)
  /\ UNCHANGED <<node, rx, nodeMap, serving, enableBootMaster, faults>>

Known(n) == \E i \in DOMAIN nodeMap : nodeMap[i] = n
Number(n) == IF Known(n) THEN CHOOSE i \in DOMAIN nodeMap : nodeMap[i] = n
                         ELSE Len(nodeMap) + 1

(* Mutant of Register: nextNode is not incremented.                        *)
RegisterNot(n) == UNCHANGED nodeMap
Register(n) == nodeMap' = IF Known(n) THEN nodeMap ELSE Append(nodeMap, n)

(* An announcement: look the uid up, or add it, and reply with its number. *)
HandleAnnouncement ==
  /\ enableBootMaster /\ Receives("ann")
  /\ LET n == Head(inbox).uid IN
     /\ Register(n)
     /\ \/ /\ ToNodes(Number(n), Reply(n))
           /\ UNCHANGED faults
        \/ Lose /\ UNCHANGED <<rx, shortId>>
  /\ inbox' = Tail(inbox)
  /\ UNCHANGED <<state, tries, page, codeBuf, flash, serving, enableBootMaster>>

(* Mutants of Seek: page n is read from n * 4096; the last page is taken   *)
(* for the end of the file.                                                *)
SeekNextPage(p) == p + 1
SeekDropsLast(p) == IF p = FilePages THEN p + 1 ELSE p
Seek(p) == p

(* The file cannot be opened or read: sendFile gives up.                   *)
CardFails == Fault("card") /\ serving' = Idle

(* A request for a page: sendFile starts, or has no such page.             *)
HandleRequest ==
  /\ enableBootMaster /\ Receives("req")
  /\ LET p == Seek(Head(inbox).page) IN
     \/ /\ serving' = IF p \in FilePage THEN [dest |-> Head(inbox).dest, page |-> p, next |-> 1]
                                         ELSE Idle
        /\ UNCHANGED faults
     \/ p \in FilePage /\ CardFails
  /\ inbox' = Tail(inbox)
  /\ UNCHANGED <<node, rx, nodeMap, enableBootMaster>>

(* sendFile: the next frame.  The result of canTransmit is not looked at,  *)
(* and the switch not before the page has been sent.                       *)
SendFrame ==
  /\ serving # Idle
  /\ \/ /\ ToNodes(serving.dest, Data(serving.page, serving.next))
        /\ UNCHANGED faults
     \/ Lose /\ UNCHANGED <<rx, shortId>>
  /\ serving' = IF serving.next = Frames THEN Idle ELSE [serving EXCEPT !.next = @ + 1]
  /\ UNCHANGED <<state, tries, page, codeBuf, flash, inbox, nodeMap, enableBootMaster>>

ReadFails ==
  /\ serving # Idle /\ CardFails
  /\ UNCHANGED <<node, rx, inbox, nodeMap, enableBootMaster>>

(* The master restarts: it forgets the nodes it has numbered.              *)
RestartMaster ==
  /\ Fault("master")
  /\ inbox' = <<>> /\ nodeMap' = <<>> /\ serving' = Idle
  /\ enableBootMaster' = FALSE
  /\ UNCHANGED <<node, rx>>

---------------------------------------------------------------------------------
Boot(n) ==
  \/ Announce(n) \/ CheckReply(n) \/ CheckTimeout(n)
  \/ RequestPage(n) \/ ReceiveFrame(n) \/ DownloadTimeout(n)
  \/ Erase(n) \/ Copy(n)

Master == Ignore \/ HandleAnnouncement \/ HandleRequest \/ SendFrame \/ ReadFails

Next == (\E n \in Node : Boot(n) \/ Restart(n)) \/ Master \/ Switch \/ RestartMaster

(* A boot in which no node restarts, the master is switched on once, and   *)
(* no node gives up on an answer that is still to come.                    *)
Expected(n) ==
  \/ \E k \in DOMAIN inbox : inbox[k] = Announcement(n)
  \/ \E k \in DOMAIN inbox : inbox[k].kind = "req" /\ inbox[k].dest = shortId[n]
  \/ serving # Idle /\ serving.dest = shortId[n]
PromptNext ==
  \/ \E n \in Node : ~Expected(n) /\ (CheckTimeout(n) \/ DownloadTimeout(n))
  \/ \E n \in Node : \/ Announce(n) \/ CheckReply(n) \/ RequestPage(n)
                     \/ ReceiveFrame(n) \/ Erase(n) \/ Copy(n)
  \/ Master
  \/ ~enableBootMaster /\ Switch

Fairness == WF_vars(Master) /\ \A n \in Node : WF_vars(Boot(n))
Spec == Init /\ [][Next]_vars /\ Fairness
PromptSpec == Init /\ [][PromptNext]_vars /\ Fairness

(* And one in which no frame comes before there is room for it: a node     *)
(* polls its message objects many times in the time of one frame.          *)
KeepsUp ==
  /\ \A n \in Node : RequestPage(n) => Len(inbox) < InboxSize
  /\ SendFrame => \A n \in Node : state[n] = "download" /\ Listens(n, serving.dest) => Room(n)
PacedSpec == Init /\ [][PromptNext /\ KeepsUp]_vars

---------------------------------------------------------------------------------
(* Properties.                                                             *)

TypeOK ==
  /\ state \in [Node -> NodeStates]
  /\ tries \in [Node -> 0..MaxTries]
  /\ shortId \in [Node -> Nat] /\ page \in [Node -> Nat]
  /\ \A n \in Node : Len(codeBuf[n]) <= Frames /\ Len(rx[n]) <= RxObjects
  /\ flash \in [Node -> [FlashPage -> {"old", "new", "blank", "bad"}]]
  /\ Len(inbox) <= InboxSize
  /\ nodeMap \in Seq(Node)
  /\ faults \in [{"node", "master", "loss", "card"} -> 0..MaxFaults]
  /\ enableBootMaster \in BOOLEAN

(* Two nodes never have the same short id, in the boot loader or in the    *)
(* application, while the master keeps running.                            *)
UniqueIds ==
  faults.master = 0 =>
    \A m, n \in Node : m # n /\ shortId[m] # 0 => shortId[m] # shortId[n]

(* Although frames carry no number, and some are lost, a page that is      *)
(* written is the page of the file (if no node restarts or gives up on an  *)
(* answer that is still to come).                                          *)
NoBadPage == \A n \in Node, p \in FlashPage : flash[n][p] # "bad"

(* Without restarts a page is only blank while it is being written.        *)
BlankOnlyInCopy ==
  \A n \in Node, p \in FlashPage :
    flash[n][p] = "blank" => \/ state[n] = "copy" /\ page[n] = p
                             \/ faults.node > 0

(* Lost frames and timeouts alone leave ids and flash sound: it takes a    *)
(* restart, of the master or of a node, to have two nodes with one id or a *)
(* page that stays blank.                                                  *)
OnlyRestartsHurt == UniqueIds /\ BlankOnlyInCopy

(* A node that started to download runs the whole program, if besides no   *)
(* frame is lost, in the buffers neither, and the card can be read.        *)
RunsWholeProgram ==
  \A n \in Node : state[n] = "run" /\ page[n] > 0 /\ faults.loss + faults.card = 0 =>
    \A p \in FilePage \cap FlashPage : flash[n][p] = "new"

(* A self-starting node comes to run its application, whatever happens to  *)
(* its frames, to the card and to the master, and whoever plays with the   *)
(* switch.                                                                 *)
SelfStarts == \A n \in SelfStart : state[n] # "run" ~> state[n] = "run"

---------------------------------------------------------------------------------
(* What the comments say and the code does not do.                         *)

(* canboot/main.c:131 "wait for entire page to come in": what download     *)
(* reports as a completed page (line 143) is that page.                    *)
EntirePage ==
  [][\A n \in Node : Copy(n) => flash'[n][page[n]] # "bad"]_vars
=================================================================================
