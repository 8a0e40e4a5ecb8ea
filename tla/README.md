# A verification of the Tosqa firmware

This directory holds TLA+ models of the firmware of the Tosqa Single Stepper
Board, of its boot master and of the small programs around them, TLC
configurations that check the models on small instances, and proofs, checked by
TLAPS, that hold for every value of their constants. The reference is the code
under `apps/` and `common/`; every definition of a module is a translation of
some of its lines, which `PROJECT.json` names under `map`.

To check a run: `tlc -config MotionAll.cfg MCMotion.tla`. To check a proof:
`tlapm MotionProofs.tla`.

## 1. The system

A *node* is a board with an LPC11C24 on a CAN bus. At reset it runs the boot
loader (`canboot`), which asks the *boot master* (`netdemo`, on an LPC1769 with
Ethernet and a memory card) for a short id and for a new program, and then jumps
to the application (`driver`), which turns setpoints that clients send over CAN
into steps of a motor. `netdemo` is also a bridge: TCP clients send and receive
CAN frames as lines of text. The other programs are for other boards, or test one
piece of hardware.

| part | state it keeps | operations | talks to |
|---|---|---|---|
| driver: setpoint queue (`setpoint.cpp`) | table of Q+1 slots, bit vector `inUse`, mailbox of slot numbers | `setpointAdd`, `setpointReset`, loop of the stepper thread | main thread (requests), motion |
| driver: motion (`motion.cpp`) | limits and factor, `targetStep`, `direction`, `stepsToGo`, error flags, timer, DIR and EN pins | `motionTarget`, `motionStop`, `motionParams`, `motionStatus`, interrupt `Vector88` | stepper and main threads, timer interrupt |
| driver: step timing (`motion.cpp` 96-110) | `residue`, MR3, the count | rate of a move | hardware timer |
| driver: CAN reception (`canbus.cpp`, `main.cpp`) | `rxMessage`, mailbox of one token, `shortId`, overrun count | receive interrupt, request loop | clients, boot master |
| CAN boot (`canboot/main.c`, `netdemo/main.c` 300-437) | node: short id, page, buffer, flash; master: `nodeMap`, page being sent, its switch | announcement, reply, page request, page, flash write | CAN bus with loss |
| CAN bridge, text protocol (`netdemo/main.c` 485-593) | line buffer and fill | parse a chunk, print a frame | TCP clients |
| CAN bridge, sessions (`netdemo/main.c` 551-640) | current connection, what each CAN thread writes to | accept, greet, receive, close; write | lwIP, CAN threads |
| serial CAN bridges (`nucleo1`, `disco407`) | state of the line automaton, the frame it builds | one character; print a frame | serial port, USB |
| memory card monitor (`netdemo/main.c` 39-112, 439-478, 700-712) | debounce count, `fs_ready`, driver state | timer callback, insert and remove handlers | FatFs, shell |
| steppers over the bus (`netdemo` 300-330, `canrecv`, `stepcan`) | direction last sent; pins | sample and send; set pins or pulse | CAN bus with loss |
| `bootsend` | place in the dialogue, ready flag, code buffer; the target's unlock, sectors, RAM, flash | request, answer, timeout | ROM loader of the target |
| `rampstep` | state of the ramp, period, position | `moveTo`, timer interrupt | hardware timer |
| `rotaries` | counts, quadrature states, what was reported | two port interrupts, report thread | knobs, CAN bus |
| `satmon` | one-message buffer, filter, screen lines | receive interrupt, display loop | CAN bus, display |
| `canRate.c` | timing registers | search | CAN controller |

How they interact. In `driver` two threads of equal priority share the slots and
the motion state without locks. The firmware is built with `CH_TIME_QUANTUM` 0
(`common/chconf.h`), so a thread runs until it blocks, sleeps or yields; interrupts
come at any time. That cooperative scheduling is what most of the driver's
correctness rests on, and the models take their atomic steps from it. In `netdemo`
threads have different priorities: a step of the bridge thread ends wherever a CAN
thread may preempt it. Between the nodes and the master there are only CAN frames,
which may get lost in a full message object or receive queue; both sides have
timeouts, and either may restart. The small programs are one loop and one or two
interrupts each, and what they get wrong is the hand-over between the two.

What is hard here, and hard to test:

* an abort request sleeps in the middle (`motionStop`), with the stepper thread
  running; the setpoint in flight keeps a reference into a table that the reset has
  just declared empty;
* two threads and an interrupt change the same step counter;
* the receive interrupt reuses a buffer that main may still be reading;
* page data on the bus carry no sequence number, and timeouts of the node race
  answers of the master;
* the counter of a hardware timer runs on between two moves, with rounding errors
  carried from one to the next in mixed signed and unsigned arithmetic;
* a card may be taken out and put back while main is busy mounting it;
* a client leaves while two threads may be writing to it;
* the lines of an encoder change between the two reads of an interrupt;
* a lost command changes what all later frames mean.

`PROJECT.json` lists these hazards with their lines and the properties that cover
each.

What makes each part correct: no slot is lost or owned twice, setpoints are
executed in order as they were sent, an idle motor is released, a client gets in;
the position only changes by steps of the interrupt, inside the limits, the motor makes
them, and every move ends; rounding does not accumulate and steps are evenly paced; requests are neither made up nor replayed;
ids are unique, flash holds whole pages, nodes come up; well-formed lines are sent
as written whatever came before them; the next client is served; the file system
follows the card; knobs are counted as turned; messages are shown with their own
data; an installation that ends has installed.

## 2. Modules

| module | models | state ↔ code | actions ↔ code |
|---|---|---|---|
| `SetpointFifo` | the promise of the queue to its clients (abstract) | accepted setpoints, the active one, whether it makes steps, driver power | `Accept`, `Start`, `Finish`, `Halt`, `Return` |
| `SetpointQueue` | `setpoint.cpp` and the two threads | `mbox`, `setpoints`, `inUse` are the fields of `setpoint`; `main`, `stepper` are program counters at the points where a thread gives up the processor | `Add`/`AddBlocks`/`AddFails` are the three ends of `setpointAdd`; `AbortBegins`/`AbortEnds` the request on both sides of its sleep, or of the move motionStop makes from outside new limits (`ReturnsInside`); `Take`, `Done`, `NoWork`, `Stopped` the stepper loop |
| `Motion` | `motion.cpp` with both threads and the interrupt | the fields of `motion`, the timer as off/armed/parked, the pins, the next line of a thread that starts a move (`launch`) | `Tick`/`TimerWraps` the interrupt, `Take`/`TargetDone` a setpoint, `SetDir`/`Enable`/`StartTimer` the lines after MR3 is set, `NoWork`/`AbortBegins`/`StopDone`/`AbortEnds` `motionStop` in either thread, `ParamsRequest`, `Report` |
| `StepTimer` | rate, residue, counter | `residue`, `stepsToGo`, TCR, TC, MR3 | `Move`, `Dwell`, at any moment; `Count`; `Match`, `Wraps` the interrupt |
| `CanBus` | receive interrupt and request loop | `rxPending`, `rxMessage`, `rxOverruns`, `shortId` | `Request`, `Assign` (interrupt), `Fetch`, `ReadHeader`, `ReadData` (main) |
| `BootProtocol` | boot loader of every node, boot master, the bus | per node its state, page, buffer, flash, message objects; the master's inbox, `nodeMap`, `sendFile` and switch | one action per wait of the node, one per frame of the master, the switch, a card that cannot be read, `Restart`, `RestartMaster` |
| `BridgeText` | the text of a frame: `canToBridge`, digits, and what a line means | none | none |
| `BridgeParser` | `parseCanCmds`, `processCanCmd` | the buffer with what is behind it, `canCmdFill` | `Receive` one character |
| `SerialCan` | `CanSendThread` of the serial bridges | the automaton and its frame | one character |
| `BridgeSession` | `canBridge`, `canBridge_serve` and the writes of the CAN threads | `newconn`, `currConn`, lwIP's connections | one per call of the bridge thread that may block; a write starts and ends; clients come, leave or fall silent |
| `CardMonitor` | `tmrfunc`, `InsertHandler`, `RemoveHandler` | `cnt`, events, `fs_ready`, driver and power | `Poll`, and the handlers in three steps each |
| `StepCommands` | `can_tx` of `netdemo`, `stepcan`, and `canrecv` | last direction sent, one frame waiting at each end, pins | `Sample`, `can_tx`, `stepcan`, `Deliver`, `Pins`, `Pulse`, `Restart` |
| `BootSend` | `bootsend` and the ROM loader it talks to (external) | place in the dialogue, message object 8, flags; the target | `Send`, `Isr`, `Proceed`, `Timeout`, `Finish`; `Obey`, `Lose` |
| `RampStep` | `rampstep`: `moveTo` and the interrupt | its globals, rates in 24.8 fixed point as in the code | `MoveTo`, one action per state of the interrupt |
| `Rotaries` | `rotaries`: two interrupts and the thread | counts, states, message object 0 | `Turn`, `Press` (hand); `Vector`, `ReadA`, `ReadB`; `rotSend`, `Transmit` |
| `SatMon` | `satmon`: interrupt and display loop | the two message buffers, `received`, filter, lines | `CAN_rxCallback`; one action per part of the display |
| `CanRate` | `baudrateCalculate` | the request and the two registers | one call |

`MC...` modules give the constants finite values for TLC. Programs that share
nothing but their kind have one MC module together: `MCTimers`, `MCCanPrograms` and
`MCBridge` start in one of their programs, chosen at random, and only its variables
ever change; a behaviour is a behaviour of that program. `MCBootPrompt` starts on one
of two kinds of bus. `...Proofs` modules hold the
theorems: `TimerProofs` those of `StepTimer`, `RampStep` and `CanRate`, `CanProgramsProofs`
those of `CanBus`, `SatMon`, `StepCommands`, `Rotaries` and `BootSend`, `BridgeProofs`
those of the parsers, `CardMonitor` and `BridgeSession`, `BootPagesProofs` those of
`BootProtocol` about pages. `FoldFacts` is about folds from the left, for whatever operator
a module instantiates it with.
Variables marked *history* in a module record the past for a property; no guard
of an action reads one. Operators whose comment starts with "Mutant" are what the
code could have been; nothing uses them, they exist so that each property can be seen
to fail.

Composition. `SetpointQueue` and `Motion` model the same two threads with the same
scheduling and leave to each other what they do not need: `SetpointQueue` keeps of
a move only that it takes time and has the driver on, `Motion` keeps of the queue only
that any setpoint may come next, or none. A behaviour of the driver is one of each, seen
through what that one keeps. `Motion` has the lines of `motionTarget` that follow MR3 one by one, because the
interrupt may come between them; in `SetpointQueue` they are one step.
`SetpointQueue` implements `SetpointFifo` under the mapping *pending* = the contents
of the slots in the mailbox, then of the slot that is blocked in `chMBPost`, and
*active* = the setpoint the stepper started with. `StepTimer` has the 32-bit
arithmetic of the timer that `Motion` only knows as armed or not. `BootProtocol` and `StepCommands` are
compositions themselves, of programs on two boards and the bus between them;
`BridgeParser` and `SerialCan` are two readers of the one language of `BridgeText`.

## 3. Runs

| run | question | bounds |
|---|---|---|
| `SetpointQueueAll` | requests, aborts and the stepper in any order: slots are neither leaked (`NoSlotLeak`) nor shared, and the reference into them stays good (`SlotsKept`), idle means released, a setpoint is dropped only when full, a blocked post and an abort complete (`RequestEnds`) | Q = 2 of 250, three setpoints, unlimited requests |
| `SetpointQueueStream` | without aborts: refinement of `SetpointFifo` (`InOrder`), which also says that moves are powered; everything queued is started | the same |
| `MotionAll` | position continuous, counter, timer and pins agree (`ArmedForSteps`), steps lead inside the limits and are made as counted, but for those that come between MR3 and the pins (`StepsAsCounted`), moves end | positions -3..2, factor in quarters (One = 4), words of 5 bits, three parameter sets, 24 setpoints |
| `TimersAll` | driver: the residue is carried and bounded, moves whose clocks wrap are counted (`ErrorCarried`); steps are evenly paced, and the first of a move waits for at most one round of the counter (`PaceKept`). `rampstep`: a move ends where main sent it (`Arrives`) and as slowly as it began (`EndsSlow`). `canRate`: a bit rate that has a setting gets it | words of 6 bits, unit 5, limit 3, moves of 1 to 4 steps, times 0 to 2; ramps of 1 to 12, 2828 to 2846 and 10000 steps at the code's periods; nine rates at four clocks |
| `CanProgramsAll` | driver: tokens balance, no going back, paced requests are handled as sent, the last one is handled. `satmon`, `rotaries`, `canrecv`, `bootsend`: one property each | five requests, two ids; four messages, two masks; four edges, a press counting for two, a count of 3 bits, reports that wait for the bus as long as they like; seven frames, direction changed after four; code of ten bytes in segments of three |
| `BootAll` | unless something restarts, unique ids and no blank pages (`OnlyRestartsHurt`); self-starting nodes run | two nodes, one page of one frame, one fault of any kind (node restart, master restart, loss, unreadable card), the switch at will |
| `BootPrompt` | on a bus without premature timeouts: whole pages (`NoBadPage`); and if besides it loses no frame for want of room, whole programs (`PacedRunsWhole`) | two nodes, two pages of four frames, one fault, an inbox of one |
| `BridgeAll` | both parsers: lines mean what they say, after any history, and `netdemo`'s sends nothing else; what is printed reads back. Sessions: writes start on open connections only, the next client is served. Card: mounted means watched; the file system follows the card | six characters, buffer of six with three cells behind it, lines of six; three clients; three checks for ten |
| `SetpointQueueOverwrite`, `CanBusLost`, `BootEntire`, `BootSendSteady` | what a comment says and the code does not do, section 5 | as above |

Why the bounds are enough. Nothing in the queue compares slot numbers except for
equality and first-free order; with Q = 2 the mailbox can be empty, partly filled
and full, with the third slot executing, and a reset can hit each of these. Three
setpoints let the new, the old and the overwritten one differ. `Motion` is
run with a negative, a zero and a positive position on both sides of the limits, a
factor that needs rounding, and a word small enough to wrap. `StepTimer` has times
shorter than the residue is large, so that clocks wrap, up to twice in a behaviour
(`MaxHurries`), and words small enough for the counter to go round in a move. `RampStep` runs with the constants of the code: the
ramp reaches full speed at 2839 steps, so the lengths about it take every path for odd
and even moves, two of them decide for every length (`TwoMovesDecide`), and 10000 is
what main asks for. Five requests are enough for an
overrun, a mixed message and a recovery from both; four messages fill the three
lines of the display and one more. A knob makes a full quadrature cycle in four edges,
and three bits let the count wrap. Seven frames are a direction, its steps, and a
second change, with a loss of each; two of `stepcan`'s blocks begin in them. Ten bytes
in segments of three leave a last segment that runs past the buffer, as 4096 in 7 do.
In `BootProtocol` a fault occurs at any moment; the second node keeps the master busy,
which is what makes a reply late. A page of four frames is longer than the three
message objects of a node, so a frame can also get lost because none is free. `BridgeParser` has lines that fit exactly and lines
that do not. Three clients let one be served, one wait, and one come later.

The sizes scale: the proofs of section 4 show for all values what the runs show
for these.

`BootAll`, `BootPrompt`, `BootEntire` and `BootSendSteady` switch off deadlock
checking: when every node runs its application, and the faults are used up, or the
installer blinks, nothing is left to do.

Fairness. Threads: ChibiOS keeps ready threads of one priority in a FIFO, and a
thread that polls yields, so a thread that can run does run; sleeps end because the
system tick runs. This is weak fairness of the stepper, of a blocked post that has
found room, of the end of an abort, of main, of the bridge thread, of the boot loader
and of the master. The bridge thread has a low priority
(`CAN_BRIDGE_PRIORITY`), but the threads above it wait for most of the time, so it
does get the processor. An armed timer interrupts: weak fairness of `Tick`. The callback of the
card monitor is periodic. No fairness is assumed of clients, of the bus, of writes to a
client, of people or of faults.

## 4. Theorems

Proved with TLAPS for every value of the constants that the named assumptions of a
module allow. Assumptions say what the C types say (a queue has at least one slot,
words are even in size, `None` is not a setpoint, a segment has a byte, a frame has one too), and five say how
the constants of the code go together:

* `StepTimer`: twice the clocks and steps of a move fit a word. True of every
  setpoint of the firmware, whose 16-bit time gives at most 2^29 clocks and whose
  positions give at most 2^24 steps.
* `Rotaries` (`KnobAssumption`): the range of a count is a whole number of quadrature
  cycles. True of 16 bits.
* `Motion` (`StepsFit`): the limits, in steps, are well inside an int. True of 16-bit
  positions and 16-bit factors in units of 1/256, which make at most 2^24 steps.
* `RampStep` (`RampAssumption`): full speed is more than two steps from rest, and less than
  half as many steps as the shortest period counts. True of 5 ms and 100 µs in 24.8
  fixed point: a ratio of 50 and a count of 25600.
* `BridgeText` (`TextAssumption`): a word has at most eight hexadecimal digits, and
  characters are ASCII. True of 32 bits, and of what the lines are made of; other bytes
  are no part of the protocol.

The theorems, and what they rest on:

* `SetpointQueueProofs`. `TypeCorrect` adds to the types which thread holds a slot in
  which state (`Holders`). `NoSlotLeak` is inductive with it: every step that takes a
  slot from an owner gives it to another or clears its bit. `DropsOnlyWhenFull` then
  follows by counting: Q+1 marked slots, at most Q of them in the mailbox and none
  with main, leave one that is executing. The two parts of `SlotsKept`,
  `SlotsExclusive` and `ReferenceStable`, are inductive together; both are guarded by
  `~raced`, since an abort that catches a setpoint in flight really breaks them (section
  5). `IdleReleased` needs no assumption about aborts. `MovesPowered` and `InOrder` are
  about the firmware without them; `StreamInv` adds that every owned slot holds a
  setpoint. `InOrder` is the refinement: `AcceptStep`, `StartStep`, and the cases of
  `StepSimulates` map each step to one of `SetpointFifo` or to a stutter; the
  lemmas on `Fetched` say how a queue of slot numbers relates to a queue of contents.
* `MotionProofs`. First the arithmetic: C's division rounds to zero and keeps order,
  positions keep their order in steps (`StepsOrdered`), which is `ScalesClosely` and
  also what keeps the lower limit below the upper one. `Counted` is the invariant for all
  clients: the count of steps and the direction agree with the position, and a count
  below zero is only ever that of a parked timer that came round. It gives the types and,
  as an action property, `PositionContinuous`. `Careful` adds, for clients that set
  parameters at rest, that armed timer, count, pin and a thread that polls go together, and
  that the target is inside the limits in force: the hard case is `motionStop`, which
  takes its target from where the interrupt has got to (`StopsHere`), and an abort that
  stops a move the other thread started. `Powered`, without aborts, says a thread that
  polls has the motor driver on. Both speak of every line of a thread that starts a
  move: until it has set the pins they say what the previous move has left, and that the
  histories have noted it if the new one needs something else. Together they are
  `ArmedForSteps` and `StepsAsCounted`.
* `TimerProofs`. `ErrorCarried` needs a bound on the residue, which is what `Rounded`
  says: half a clock per step of the last move. `ClocksFit` is the arithmetic in words: the
  two additions of the code wrap both or neither, and the clocks are what was meant,
  except for a move that is `Hurried`, which gets a word too many. `LeftIsRemainder`:
  rounding to the nearest rate leaves at most half a clock per step, and as `int32_t` it is
  exact. `PaceKept` needs how the clocks of a move are made up at each count, before the
  first step (`Starts`) and after it (`Paces`); nothing is assumed of where the counter is
  when a move begins. `Arrives` is about a ramp that must be over before
  half of the move is, or the way down would start too late: the period after k steps is
  at most what falls with the root of k, plus the rounding of k divisions (`Decline`), so
  it is at `CFAST` within `CFAST` / 2 steps, and on the way down the divisor stays
  negative until the last step (`SlowsDown`, `Underway`). `EndsSlow` speaks of some
  thousand rounded divisions, one after the other. A step down undoes the step up at the
  same place but for the rounding, which only makes it slower (`PacedReturns`), and
  preserves order (`PacedKeepsOrder`). So with j steps to go a move that did not get to
  full speed is between the way up and the way down from the last period above `CFAST`,
  and one that did is on the way down from `CFAST`, whatever its length (`Between`,
  `Mirrored`). Hence two moves decide for all (`TwoMovesDecide`), and `EndsSlowHolds`
  needs of the constants that these two end slowly (`Tolerated`). With the periods of the
  code they are the moves of 2838 and 2839 steps (`top` = 1418), which `TimersAll`
  follows; they end at 1280055 and 1279015 of 1280000. `BitTimeExact` takes the
  fields out of the register again, and shows of the firmware's two requests that every
  earlier triple of the search fails. `TypesHold` puts the three programs together: a
  step of one leaves the others' variables alone (`Separate`).
* `BootProofs`. The types hold what bounds the buffers: a node downloads only while its
  page has room, announces itself only while it has a try left (`HasRoom`). Unique ids
  are not inductive: a node takes its id from a reply on the bus, so `Agree` says that
  until the master restarts every id a node has and every reply in a message object
  is the node's place in `nodeMap`, which has each node at most once; replies get fewer or
  are made by the master (`FewerReplies`, `MoreReplies`). `BlankOnlyInCopy` is
  inductive as it stands.
* `BootPagesProofs`. Frames carry no number, so what a node collects is a page only if no
  frame of it is missing. `NoBadPage`, on a bus where a timeout means that nothing is
  under way: each frame in the buffer and in the message objects is at least as far on in
  the page as in that row, and leaves room for those behind it; a page with a gap thus ends
  one frame short and is asked for again. That needs that a request is only ever made by a
  node that has got nothing of the page, that announcements are answered one at a time, and
  that a reply finds its node waiting. `RunsWholeProgram` strengthens it to equality
  (`PacedInv`), for which no frame may get lost in a full inbox or for want of a message
  object: that is `KeepsUp`, which a node that polls its objects many times in the time of
  one frame justifies. The proof is what found this condition: with pages as short as a
  node has message objects, the run could not tell.
* `FoldFacts`: a fold computes one value after the other (`FoldRuns`), one more for one
  more element (`FoldGrows`). The prover cannot take an induction hypothesis as an
  operator, so `Induction` is stated of sets of naturals, and each use defines the set.
* `BridgeProofs`, the parsers. `LineRead`: with a well-formed line at the start of the
  memory, `processCanCmd` stops at its # (`NumberEndsAtHash`), has read the id its digits
  mean, modulo the word (`NumberMeant`), and takes the pairs of digits up to the end of the
  line or of the frame (`DataRead`). `ParserInv` says that while `canCmdBuf` starts with an S,
  all that came since is in it, from its start to `canCmdFill` (`Lined`); a line that no
  longer fits has sent the fill back to 0 and thus overwritten the S. `SentAsMeant` follows
  at the end of each line. For the automaton of `SerialCan` the invariant (`SerialInv`) is
  what the line so far means: the id, modulo the word, before the # (`InId`), and after it
  the bytes that are complete, and the low half of the one that is not (`InData`); that is
  independent of what an earlier line left in the frame. `RoundTrip` shows that the digits
  `%x` prints are read as the number (`IdPrinted`, by `DivTwice`), that the printed text is
  a well-formed line that means its frame (`PrintedMeans`), and then follows the parser or
  the automaton along it (`ParserEchoes`, `EchoRead`). Both hold for every length of buffer,
  line and frame, words of up to 32 bits, and whatever is in the memory behind the
  buffer.
* `BridgeProofs`, the rest. `MountedIsWatched` speaks of main at rest. What is inductive is
  that whenever the callback has lost sight of a card that main has mounted or is
  about to mount, a removal is still pending or being handled (`LossIsTold`,
  `ReturnIsTold`, `MountedIsPowered`). `SessionOpen`, for any number of clients, is from
  `OneOpen` (a connection is open just while the bridge thread serves it) and
  `ToldInside` (the CAN threads are told of it only between greeting and close).
  `BridgeTypesHold` puts all parts together (`Separate`).
* `CanProgramsProofs`. Of the driver: token balance, order and faithful handling, the last
  guarded by a paced bus. `ShownAsReceived`: the loop's buffer is in use whenever the loop is
  (`Handed`), so a new message only ever gets there between two rounds; lines hold
  numbers of earlier messages, all different (`Displayed`). `StepsAsTold`: what carries the
  same command number means the same direction, wherever it is (`SameMeaning`), and
  frames keep their order (`Ordered`); steps are bounded by counting those in the
  message objects (`Pending`). `KnobsFollowed`: a knob whose lines are not as they were
  last read has an edge pending, is about to be read as it is now, or has not moved yet
  (`Noticed`); the count is even just when the lines read are equal (`Parity`); a knob
  that is not turned too fast is at most one edge ahead of its count (`Exact`); and the
  frame in the message object is the last report of its knob, however long it waits
  there (`Reported`). `Installs`: what is in the
  frame or the answer belongs to the request the installer is at (`Dialogue`), and the
  segments obeyed so far are a prefix of the code, the last one cut where the code ends
  (`Reached`, `SegmentStored`). `TypesHold` is the type invariant of all five programs.

Only model-checked: all liveness (`QueuedIsTaken`, `RequestEnds`, `MoveEnds`,
`LastIsHandled`, `SelfStarts`, `FollowsCard`, `NextIsServed`), which is out of TLAPS'
reach, and of `EndsSlow` that the two moves which decide it end within a thousandth at
the constants of the code: the prover will not carry out the 1400 divisions of each, the
run does. All other properties that a run expects to hold have a theorem. `RoundTrip` of the parser speaks of text
that fits the reach of `canCmdFill`; 256 characters hold any frame.

## 5. Where code and comments part

Four runs end in a violation, each of one property taken from a comment.

* `SetpointQueueOverwrite`: `setpointReset` clears `inUse` of the slot being executed
  as well. That slot is reused at once; when the old setpoint ends, its bit is
  cleared again, and the next `setpointAdd` overwrites a setpoint still queued.
* `CanBusLost`: fetching the token makes room for another one, before `rxMessage` is
  read. A request that arrives in between replaces the message: one is lost
  uncounted, the other handled twice, or a header is combined with foreign data.
* `BootEntire`: the reply to a repeated announcement arrives when the node already
  downloads, and is taken for the first frame of the page.
* `BootSendSteady`: `sendReq` looks for the error bit in the request it has sent, not in
  the answer: a target that rejects its requests gets the steady blink of success.

Others were met while modelling, are visible in the models, and have no run of
their own.

Driver:
* `setpoint.cpp` 56, 72: "at least one unused entry" and "never reached" do not hold
  with Q setpoints queued and one executing; `DropsOnlyWhenFull` says exactly when.
* `motion.cpp` 123 "stop all motion": the stepper may fetch the next setpoint during the
  sleep and start a move that the abort leaves running; and `motionStop` then disables
  the driver under it (`StepsAsCounted` and `MovesPowered` are restricted accordingly).
  If the position is outside new limits, `motionStop` starts a move itself
  (`ReturnsInside`).
* `motion.cpp` 54, 68: with the default factor 1.0 negative positions that are not
  multiples are rounded towards zero after adding a half: off by one (`ScalesClosely`).
* `motion.cpp` 51: parameters do not apply to a move in progress; a timer left parked
  counts round after 89 s and then decrements `stepsToGo` below zero. `ArmedForSteps`
  shows that neither happens to a client that sets parameters at rest.
* `motion.cpp` 97: a move whose time is too short to make up for what the one before took
  too much (time zero after a negative residue) gets the slowest rate instead of the
  fastest: it takes 2^32 clocks, 89 s, too long. `ErrorCarried` counts these moves and says
  that nothing else goes wrong.
* `motion.cpp` 105 "could check that rate > TC, i.e. no overrun has occurred": the counter
  runs on after the last step, and a timer that is stopped keeps its count. If a thread is
  late, or the last move was cut short, TC may be beyond the new rate, and the first step
  of the move waits for the counter to go round, which takes 89 s too. `PaceKept` says that
  it is this step only, and one round only.
* `motion.cpp` 106-110: with the timer still on from the last move, the interrupt may come
  after MR3 is set and before DIR and EN are: a move that follows another at once and turns
  round, or finds the motor released, may begin with a step the old way or none at all, and
  the position is off by that. `StepsAsCounted` says that no step goes wrong otherwise.
* `motion.cpp` 5, 116: the unit of time is 125 µs for a move and a millisecond for a dwell.

Boot and bridge:
* `canboot/main.c` 78 and `netdemo/main.c` 351: short ids are unique only as long as the
  master does not restart; `nodeMap` has 30 entries, ids go to 127, nothing checks. The
  boot master starts switched off.
* `netdemo/main.c` 712: a card taken out and put back while main is busy ends up
  unmounted with the card in, until it is moved again.
* `netdemo/main.c` 518-531: lines with no number, or an odd number of digits, send what
  earlier lines left in the buffer; `canToBridge` prints remote frames as data frames.
* `netdemo/main.c` 567-591: a write that has started may outlive its connection, two CAN
  threads may write to one connection at once, and a client that stops reading blocks
  them, the one that is the boot master included.
* `netdemo/main.c` 318: the result of `canTransmit` is not looked at: after a lost command
  the motor goes on in the old direction, and the command is not repeated.
* `nucleo1/main.cpp`, `disco407/main.c`: an extended frame with an id below 0x800 comes
  out as a standard one; `S..#R` is sent as an empty data frame; an `S` inside an address
  does not begin a new line; nothing limits the digits of the data to a frame.

Small programs:
* `satmon/main.cpp`: a message 0x415 sets address and mask of the filter from the same
  four bytes; line 128 compares with 0x415 where only 0x416 and 0x417 get, so that both
  halves of the text go to column 8; 0x415-0x417 advance `y` as well, so that the cursor
  of the message before is not cleared; the length shown may be that of a later message.
* `rotaries/main.cpp`: `rot.state` starts at 0: in a knob that rests with both lines high
  the first edge is misread. When both knobs change in one round, the report of the first
  may be overwritten in its message object, and when the bus takes longer than 100 ms, that
  of either by the next round; it is not repeated until that knob moves.
* `rampstep/main.cpp`: each move makes one pulse more than it counts; as main goes back
  and forth, the way back makes it good (`Arrives`).
* `bootsend/main.cpp`: 586 segments of 7 bytes read 6 bytes past the code buffer; the
  target drops them.

## 6. Not modelled, and why

* `fs_ready` in `cmd_tree` (`netdemo/main.c` 247) is tested once before a long listing; the
  listing only reads, through FatFs, which is not in the repository.
* `reportQueueAndStatus` (`driver/main.cpp` 72) reads a few words that interrupts may change
  between the reads: each one is right on its own, and nothing acts on them.
* Shell sessions: the code that starts and reaps the shell thread is ChibiOS' sample;
  shell and registry are not in the repository. The web server: a constant page.
* `ifex`: uForth is vendored; its console adds words that set pins.
* `peeklcd`, `knobdial`, `cansend`, `canuid`: one sequential loop each, with no state but
  a counter. `fakeboot`: a one-shot test of the calls `canboot` makes.
* `revector.c`, pin set-up, LED sequences, hardware tests; ChibiOS, lwIP, FatFs, uGFX and
  the ROM of the LPC11C24, which are not in the repository (what the code relies on of them
  is modelled and marked external).
* Wording and layout of output, microstep selection.

Most lines of the repository are configuration: `chconf.h`, `halconf.h`, `mcuconf.h` and
`lwipopts.h` of every program make up the bulk of it, and have no behaviour. The options
the models depend on (`CH_TIME_QUANTUM`, queue sizes, priorities) are mapped where they
are used.

Abstractions to be aware of: the interrupt of the step timer is served before its next match; the
order in which C_CAN serves message objects (taken as FIFO); time as such (a timeout may happen whenever is waited for, except in `BootPrompt`); memory behind a buffer is modelled where the code
reads it (`BridgeParser`, `BootSend`), not where it would write it (`SerialCan`: clients
send no more digits than fit).

What could come next: a refinement of `BridgeParser` and `SerialCan` to one abstract
reader; `NoBadPage` and `RunsWholeProgram` from an explicit clock instead of `PromptNext`
and `KeepsUp`.
