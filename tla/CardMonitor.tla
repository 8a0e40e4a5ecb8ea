------------------------------- MODULE CardMonitor -------------------------------
(***************************************************************************)
(* The memory card of the bridge (apps/netdemo/main.c; ifex and nete407    *)
(* have the same code): a timer callback watches the card-detect pin every *)
(* POLLING_DELAY ms and broadcasts an event when the card has gone, or has *)
(* been there for POLLING_INTERVAL checks in a row; the main thread takes  *)
(* the events one at a time and mounts or unmounts the file system.        *)
(*                                                                         *)
(* An event is a flag: broadcasting it again before it is taken changes    *)
(* nothing, and of two flags main takes the lower number first, whatever   *)
(* their order.  Mounting takes long (a card may answer after a second),   *)
(* so the callback, the people who handle the card and the threads that    *)
(* read it go on between its steps.                                        *)
(***************************************************************************)
EXTENDS Integers, FiniteSets

CONSTANT Interval   \* POLLING_INTERVAL: 10

ASSUME IntervalAssumption == Interval \in Nat \ {0}

VARIABLES
  card,       (* there is a card: the pin mmc_lld_is_card_inserted reads   *)
  cnt,        (* checks that must still see it                             *)
  events,     (* main's pending events                                     *)
  main,       (* what main is doing                                        *)
  powered,    (* MMC_PWR                                                   *)
  connected,  (* mmcConnect has succeeded since the last mmcDisconnect     *)
  transfer,   (* some thread's transfer is under way: the driver's state   *)
              (* is BLK_READING or BLK_WRITING                             *)
  fs_ready,
  unlucky     (* history: since the card was last noticed to be missing,   *)
              (* mounting has failed, or the card was noticed again before *)
              (* main had taken the removal                                *)

monitor == <<cnt, events>>
volume == <<powered, connected, fs_ready>>
vars == <<card, monitor, main, volume, transfer, unlucky>>

Events == {"inserted", "removed"}

Init ==
  /\ card \in BOOLEAN /\ cnt = Interval /\ events = {}
  /\ main = "waiting"
  /\ powered = FALSE /\ connected = FALSE /\ fs_ready = FALSE
  /\ transfer = FALSE /\ unlucky = FALSE

---------------------------------------------------------------------------------
(* Somebody puts the card in or takes it out.                              *)
MoveCard ==
  /\ card' = ~card
  /\ UNCHANGED <<monitor, main, volume, transfer, unlucky>>

(* A thread (cmd_tree, sendFile) transfers a block or more: the driver     *)
(* must be connected.  Where there is no card that fails at once.          *)
StartTransfer ==
  /\ connected /\ card /\ ~transfer
  /\ transfer' = TRUE
  /\ UNCHANGED <<card, monitor, main, volume, unlucky>>

EndTransfer ==
  /\ transfer /\ transfer' = FALSE
  /\ UNCHANGED <<card, monitor, main, volume, unlucky>>

(* Mutant of Reload: one more than there should be.                        *)
ReloadMore == Interval + 1
Reload == Interval

(* Mutant of Missing: the callback does not tell main.                     *)
MissingSilent == cnt' = Reload /\ UNCHANGED events
Missing ==
  /\ cnt' = Reload
  /\ events' = IF cnt = 0 THEN events \cup {"removed"} ELSE events

(* Mutant of Present: the last check is never made.                        *)
PresentStuck ==
  /\ cnt' = IF cnt > 1 THEN cnt - 1 ELSE cnt
  /\ UNCHANGED events
Present ==
  /\ cnt' = IF cnt > 0 THEN cnt - 1 ELSE 0
  /\ events' = IF cnt = 1 THEN events \cup {"inserted"} ELSE events

(* tmrfunc: nothing is checked while there is a transfer.                  *)
Poll ==
  /\ ~transfer
  /\ IF card THEN Present ELSE Missing
  /\ unlucky' = CASE ~card /\ cnt = 0 -> FALSE
                  [] card /\ cnt = 1 /\ "removed" \in events -> TRUE
                  [] OTHER -> unlucky
  /\ UNCHANGED <<card, main, volume, transfer>>

(* chEvtWaitOneTimeout: the event with the lowest number.                  *)
(* Mutant of Taken: the one with the highest.                              *)
TakenHighest(e) == e \in events /\ (e = "inserted" => "removed" \notin events)
Taken(e) == e \in events /\ (e = "removed" => "inserted" \notin events)

Take(e) ==
  /\ main = "waiting" /\ Taken(e)
  /\ events' = events \ {e}
  /\ UNCHANGED <<card, cnt, transfer, unlucky>>

(* InsertHandler.                                                          *)
Inserted ==
  /\ Take("inserted")
  /\ powered' = TRUE /\ main' = "connecting"
  /\ UNCHANGED <<connected, fs_ready>>

(* mmcConnect: fails without a card, and may fail with one.                *)
Connect ==
  /\ main = "connecting"
  /\ \/ /\ card
        /\ connected' = TRUE /\ main' = "mounting" /\ UNCHANGED unlucky
     \/ connected' = FALSE /\ main' = "waiting" /\ unlucky' = TRUE
  /\ UNCHANGED <<card, monitor, powered, fs_ready, transfer>>

(* f_mount, and mmcDisconnect where it fails.                              *)
Mount ==
  /\ main = "mounting" /\ main' = "waiting"
  /\ \/ fs_ready' = TRUE /\ UNCHANGED <<connected, unlucky>>
     \/ connected' = FALSE /\ unlucky' = TRUE /\ UNCHANGED fs_ready
  /\ UNCHANGED <<card, monitor, powered, transfer>>

(* RemoveHandler.                                                          *)
Removed ==
  /\ Take("removed")
  /\ main' = "disconnecting"
  /\ UNCHANGED volume

Disconnect ==
  /\ main = "disconnecting"
  /\ connected' = FALSE /\ main' = "unmounting"
  /\ UNCHANGED <<card, monitor, powered, fs_ready, transfer, unlucky>>

Unmount ==
  /\ main = "unmounting" /\ main' = "waiting"
  /\ fs_ready' = FALSE /\ powered' = FALSE
  /\ UNCHANGED <<card, monitor, connected, transfer, unlucky>>

Main == Inserted \/ Connect \/ Mount \/ Removed \/ Disconnect \/ Unmount

Next == MoveCard \/ StartTransfer \/ EndTransfer \/ Poll \/ Main

(* The timer arms itself again in every callback, transfers end, and main  *)
(* gets to run: it shares its priority with threads that wait most of the  *)
(* time.  Nothing is assumed of who handles the card.                      *)
Fairness == WF_vars(Poll) /\ WF_vars(EndTransfer) /\ WF_vars(Main)

Spec == Init /\ [][Next]_vars /\ Fairness

---------------------------------------------------------------------------------
(* Properties.                                                             *)

TypeOK ==
  /\ card \in BOOLEAN /\ powered \in BOOLEAN /\ connected \in BOOLEAN
  /\ transfer \in BOOLEAN /\ fs_ready \in BOOLEAN /\ unlucky \in BOOLEAN
  /\ cnt \in 0..Interval /\ events \subseteq Events
  /\ main \in {"waiting", "connecting", "mounting", "disconnecting", "unmounting"}

(* At rest, a mounted file system is on a card the callback believes in,   *)
(* so that its removal will be noticed, and the driver and the power are   *)
(* on.  It rests on the order main takes the events in.                    *)
MountedIsWatched ==
  main = "waiting" /\ events = {} /\ fs_ready => cnt = 0 /\ connected /\ powered

(* When the card is taken out for good, the file system ends up unmounted. *)
GoneIsUnmounted == <>[]~card => <>[]~fs_ready

(* When a card stays in, the file system ends up mounted, unless mounting  *)
(* it failed or it was back before main had seen it go: then main mounts   *)
(* first and unmounts last (see the README).                               *)
StayingIsMounted == <>[]card => <>[](fs_ready \/ unlucky)
=================================================================================
