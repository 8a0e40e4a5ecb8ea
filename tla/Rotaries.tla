------------------------------ MODULE Rotaries ------------------------------
(***************************************************************************)
(* apps/rotaries: two knobs with quadrature encoders.  Each has its line A *)
(* on one port and its line B on another; the interrupts of the two ports  *)
(* count the edges, and a thread reports what has changed ten times a      *)
(* second.  The lines may change at any moment, also while an interrupt    *)
(* reads them.                                                             *)
(***************************************************************************)
EXTENDS Integers

CONSTANTS
  KnobWord,   \* 2^16, the range of a count
  MaxTurns    \* bound: the edges in a behaviour, a button change counts for two

ASSUME KnobAssumption == /\ KnobWord \in Nat /\ KnobWord >= 8 /\ KnobWord % 4 = 0
                         /\ MaxTurns \in Nat

VARIABLES
  angle,      \* where each knob stands, in edges
  button,     \* whether it is pressed
  turns,      \* the changes so far
  mis,        \* pending edges, pairs of a port and a knob
  todo,       \* the knobs a running interrupt has yet to look at
  lineA,      \* the A line it has read of the first of them, as a set
  count, qeState,        \* rot1 and rot2, as the interrupts leave them
  last, lastBtn,         \* what the thread reported last
  turn,       \* the knob the thread reports next
  object0,    \* the frame in message object 0, waiting for the bus, as a set
  known,      \* what a listener knows of each knob
  rushed,     \* history: the knob changed again before a change was read
  lost,       \* history: knobs whose last report was overwritten
  late        \* history: a round of reports began with a frame still waiting

rotVars == <<angle, button, turns, mis, todo, lineA, count, qeState, last,
             lastBtn, turn, object0, known, rushed, lost, late>>

Knobs == {1, 2}
Ports == {"A", "B"}       \* GPIO3, with its vector B0; GPIO1, with B8

\* The lines of a knob by its angle: bit 0 is A, bit 1 is B.
Lines(a) == CASE a % 4 = 0 -> 0 [] a % 4 = 1 -> 2 [] a % 4 = 2 -> 3 [] a % 4 = 3 -> 1
Bit(port, lines) == IF port = "A" THEN lines % 2 ELSE lines \div 2

Wrap(n) == ((n + KnobWord \div 2) % KnobWord) - KnobWord \div 2

qeMap == <<0, -1, 1, 0,  1, 0, 0, -1,  -1, 0, 0, 1,  0, 1, -1, 0>>

\* A knob stands where both lines are low or both are high.  rot.state says
\* low: the first edge of the other kind is misread.
RotInit ==
  /\ angle \in [Knobs -> {0, 2}]
  /\ rushed = [k \in Knobs |-> Lines(angle[k]) # 0]
  /\ button = [k \in Knobs |-> 0] /\ turns = 0
  /\ mis = {} /\ todo = {} /\ lineA = {}
  /\ count = [k \in Knobs |-> 0] /\ qeState = [k \in Knobs |-> 0]
  /\ last = [k \in Knobs |-> -(KnobWord \div 2)]    \* 1<<15
  /\ lastBtn = [k \in Knobs |-> 0]
  /\ turn = 1 /\ object0 = {} /\ lost = {} /\ late = FALSE
  /\ known = [k \in Knobs |-> <<>>]

-----------------------------------------------------------------------------
(* The hand.                                                               *)

Turn(k, d) ==
  /\ turns < MaxTurns /\ turns' = turns + 1
  /\ angle' = [angle EXCEPT ![k] = Wrap(@ + d)]
  /\ LET port == CHOOSE p \in Ports : Bit(p, Lines(angle[k])) # Bit(p, Lines(angle'[k]))
     IN  mis' = mis \cup {<<port, k>>}
  /\ rushed' = [rushed EXCEPT ![k] = @ \/ Lines(angle[k]) # qeState[k]]
  /\ UNCHANGED <<button, todo, lineA, count, qeState, last, lastBtn, turn,
                 object0, known, lost, late>>

Press(k) ==
  /\ turns + 2 <= MaxTurns /\ turns' = turns + 2
  /\ button' = [button EXCEPT ![k] = 1 - @]
  /\ UNCHANGED <<angle, mis, todo, lineA, count, qeState, last, lastBtn, turn,
                 object0, known, rushed, lost, late>>

-----------------------------------------------------------------------------
(* The interrupts, of one priority.                                        *)

\* VectorB0 and VectorB8: the pending edges of the port are latched and
\* cleared.
Vector(port) ==
  /\ todo = {}
  /\ todo' = {k \in Knobs : <<port, k>> \in mis}
  /\ todo' # {}
  /\ mis' = {e \in mis : e[1] # port}
  /\ UNCHANGED <<angle, button, turns, lineA, count, qeState, last, lastBtn,
                 turn, object0, known, rushed, lost, late>>

First == CHOOSE k \in todo : \A j \in todo : k <= j

\* rotChange1 and rotChange2: one line, then the other.
ReadA ==
  /\ todo # {} /\ lineA = {}
  /\ lineA' = {Bit("A", Lines(angle[First]))}
  /\ UNCHANGED <<angle, button, turns, mis, todo, count, qeState, last,
                 lastBtn, turn, object0, known, rushed, lost, late>>

\* Mutant of Counted: old and new state change places.
CountedBackwards(old, new) == qeMap[4 * new + old + 1]
Counted(old, new) == qeMap[4 * old + new + 1]

ReadB == \E a \in lineA :
  LET new == 2 * Bit("B", Lines(angle[First])) + a IN
  /\ count' = [count EXCEPT ![First] = Wrap(@ + Counted(qeState[First], new))]
  /\ qeState' = [qeState EXCEPT ![First] = new]
  /\ todo' = todo \ {First} /\ lineA' = {}
  /\ UNCHANGED <<angle, button, turns, mis, last, lastBtn, turn, object0,
                 known, rushed, lost, late>>

-----------------------------------------------------------------------------
(* The thread, which runs when no interrupt does, and the bus.             *)

\* Mutant of News: a button alone is no news.
NewsTurned(turned, pressed) == turned
News(turned, pressed) == turned \/ pressed

\* rotSend for the knob whose turn it is.  The calls for the two knobs follow
\* each other at once and the next two after 100 ms; all use message object 0,
\* whether or not the frame in it has gone out.
rotSend ==
  LET k == turn
      next == count[k] \div 4
      news == News(next # last[k], button[k] # lastBtn[k])
  IN
  /\ todo = {}
  /\ object0' = IF news THEN {<<k, next, button[k]>>} ELSE object0
  /\ lost' = IF news THEN (lost \cup {f[1] : f \in object0}) \ {k} ELSE lost
  /\ late' = (late \/ (k = 1 /\ object0 # {}))
  /\ last' = [last EXCEPT ![k] = next]
  /\ lastBtn' = [lastBtn EXCEPT ![k] = button[k]]
  /\ turn' = 3 - k
  /\ UNCHANGED <<angle, button, turns, mis, todo, lineA, count, qeState, known,
                 rushed>>

Transmit ==
  /\ object0 # {} /\ object0' = {}
  /\ known' = [k \in Knobs |-> IF \E f \in object0 : f[1] = k
                               THEN CHOOSE v \in {<<f[2], f[3]>> : f \in object0} : TRUE
                               ELSE known[k]]
  /\ UNCHANGED <<angle, button, turns, mis, todo, lineA, count, qeState, last,
                 lastBtn, turn, rushed, lost, late>>

RotNext ==
  \/ \E k \in Knobs, d \in {-1, 1} : Turn(k, d)
  \/ \E k \in Knobs : Press(k)
  \/ \E p \in Ports : Vector(p)
  \/ ReadA \/ ReadB
  \/ rotSend \/ Transmit

RotSpec == RotInit /\ [][RotNext]_rotVars

-----------------------------------------------------------------------------
RotTypeOK ==
  LET Range16 == -(KnobWord \div 2)..(KnobWord \div 2 - 1) IN
  /\ {angle, count, last} \subseteq [Knobs -> Range16]
  /\ {button, lastBtn} \subseteq [Knobs -> {0, 1}]
  /\ turns \in 0..MaxTurns /\ mis \subseteq Ports \X Knobs
  /\ todo \subseteq Knobs /\ lineA \subseteq {0, 1} /\ qeState \in [Knobs -> 0..3]
  /\ turn \in Knobs /\ object0 \subseteq Knobs \X Range16 \X {0, 1}
  /\ rushed \in [Knobs -> BOOLEAN] /\ lost \subseteq Knobs /\ late \in BOOLEAN

Settled(k) == k \notin todo /\ \A p \in Ports : <<p, k>> \notin mis

\* Every edge of a knob is counted once and the right way, although the edges
\* of its lines come in by two interrupts and the lines change under their
\* eyes; a knob turned too fast, which neither interrupt can tell, is off by
\* an even number of edges.
CountFollows ==
  \A k \in Knobs : Settled(k) =>
    /\ (count[k] - angle[k]) % 2 = 0
    /\ ~rushed[k] => count[k] = angle[k]

\* When no frame waits, a listener knows what was reported last of each knob
\* but for those whose last report has been overwritten by the other's; and
\* while every frame of a round goes out before the next, that is the first
\* knob only, when the second one changed in the same round.
ReportsArrive ==
  /\ ~late => lost \subseteq {1}
  /\ object0 = {} => \A k \in Knobs \ lost :
       last[k] # -(KnobWord \div 2) => known[k] = <<last[k], lastBtn[k]>>

\* So what a listener knows is, in the end, how far the knobs have been turned.
KnobsFollowed == CountFollows /\ ReportsArrive
=============================================================================
