----------------------------- MODULE LedClient -----------------------------
(***************************************************************************)
(* Homework 9: the LED client (09/HW09/hw09-main.c, four threads around    *)
(* one mutex and one condition variable) and its board                     *)
(* (09/HW09/hw09-mbed.cpp), which talk in single characters.               *)
(* A section under mtx is one step.  The period shown and its two counters *)
(* are left out.                                                           *)
(***************************************************************************)
EXTENDS Integers, Sequences

CONSTANTS MaxTyped,  \* bound: keys typed
          MaxLit,    \* bound: times the ticker turns the light on
          MaxLine,   \* bound: characters of the board on the line
          Leftovers  \* what an uninitialised char may hold

ASSUME LedAssumption == MaxTyped \in Nat /\ MaxLit \in Nat /\ MaxLine \in Nat

\* "1" stands for the five digits; a key without a meaning changes nothing.
Commands == {"s", "e", "b", "h", "1"}

VARIABLES lquit, opened, lastSent, lastReceived, ledShown, ledState, exCounter,  \* SharedData
          read,        \* the c of serialThread: what it read last, or was there before
          receiver,    \* serialThread: "open", "check", "read", "handle", "ended"
          receiverQ,   \* and its q
          averager, typist,   \* computeThread: "loop", "ended"; inputThread: "open", "getchar", "ended"
          display,     \* outputThread: "lock", "waiting", "woken", "ended"
          toBoard, toClient,
          board,       \* "blinking", "first" (it reads a character), "stuck", "loop", "exited"
          led, ticking,
          typed, litTicks  \* keys typed; 'x' sent

sharedVars == <<lquit, opened, lastSent, lastReceived, ledShown, ledState, exCounter>>
threadVars == <<read, receiver, receiverQ, averager, typist, display>>
lineVars == <<toBoard, toClient>>
ledBoardVars == <<board, led, ticking, litTicks>>
ledVars == <<sharedVars, threadVars, lineVars, ledBoardVars, typed>>

LedInit ==
    /\ lquit = FALSE /\ opened = FALSE /\ lastSent = " " /\ lastReceived = " "
    /\ ledShown = "" /\ ledState = " " /\ exCounter = 0
    /\ read \in Leftovers
    /\ receiver = "open" /\ receiverQ = FALSE /\ averager = "loop" /\ typist = "open" /\ display = "lock"
    /\ toBoard = <<>> /\ toClient = <<>>
    /\ board = "blinking" /\ led = FALSE /\ ticking = FALSE
    /\ typed = 0 /\ litTicks = 0

SignalDisplay == IF display = "waiting" THEN "woken" ELSE display

-----------------------------------------------------------------------------
(* serialThread *)

OpenSerial ==
    /\ receiver = "open"
    /\ \/ opened' = TRUE /\ receiver' = "check" /\ UNCHANGED lquit
       \/ lquit' = TRUE /\ receiver' = "ended" /\ UNCHANGED opened
    /\ UNCHANGED <<lastSent, lastReceived, ledShown, ledState, exCounter, read, receiverQ, averager, typist,
                   display, lineVars, ledBoardVars, typed>>

\* The loop is left at its end only: quit is seen, and one more character read.
ReceiverChecks ==
    /\ receiver = "check"
    /\ receiverQ' = lquit /\ receiver' = "read"
    /\ UNCHANGED <<sharedVars, read, averager, typist, display, lineVars, ledBoardVars, typed>>

\* serial_getc_timeout: 0 after a timeout is not LOAD_ERROR, c stays as it is.
ReceiverReads ==
    /\ receiver = "read"
    /\ \/ UNCHANGED <<read, toClient>>
       \/ toClient # <<>> /\ read' = Head(toClient) /\ toClient' = Tail(toClient)
    /\ receiver' = "handle"
    /\ UNCHANGED <<sharedVars, receiverQ, averager, typist, display, toBoard, ledBoardVars, typed>>

\* The port cannot be read.
ReceiverFails ==
    /\ receiver = "read"
    /\ lquit' = TRUE /\ receiver' = "ended"
    /\ UNCHANGED <<opened, lastSent, lastReceived, ledShown, ledState, exCounter, read, receiverQ,
                   averager, typist, display, lineVars, ledBoardVars, typed>>

Answers(c) ==
    \/ c = "a" /\ lastSent \in {"s", "e", "1"}
    \/ c = lastSent /\ c \in {"h", "b"}

\* Mutated form: what the light was before is not looked at.
CountedAlways(c) == IF c = "x" THEN exCounter + 1 ELSE exCounter

Counted(c) == IF c = "x" /\ ledState # "x" THEN exCounter + 1 ELSE exCounter

ReceiverHandles ==
    /\ receiver = "handle"
    /\ lastReceived' = IF Answers(read) THEN read ELSE lastReceived
    /\ exCounter' = Counted(read)
    /\ ledState' = IF read \in {"x", "o"} THEN read ELSE ledState
    /\ ledShown' = CASE read \in {"x", "o"} /\ ledState # read -> IF read = "x" THEN "on" ELSE "off"
                     [] read = "a" -> IF lastSent = "s" THEN "on" ELSE "off"
                     [] read = "b" /\ lastSent = "b" -> "off"
                     [] OTHER -> ledShown
    /\ receiver' = IF receiverQ \/ (read = "b" /\ lastSent = "b") THEN "ended" ELSE "check"
    /\ display' = SignalDisplay
    /\ UNCHANGED <<lquit, opened, lastSent, read, receiverQ, averager, typist, lineVars, ledBoardVars, typed>>

ReceiverStep == OpenSerial \/ ReceiverChecks \/ ReceiverReads \/ ReceiverHandles

-----------------------------------------------------------------------------
(* computeThread after its sleep, outputThread, inputThread *)

Averages ==
    /\ averager = "loop"
    /\ averager' = IF lquit THEN "ended" ELSE "loop"
    /\ display' = SignalDisplay
    /\ UNCHANGED <<sharedVars, read, receiver, receiverQ, typist, lineVars, ledBoardVars, typed>>

Displays ==
    /\ \/ display = "lock" /\ display' = "waiting"
       \/ display = "woken" /\ display' = IF lquit THEN "ended" ELSE "lock"
    /\ UNCHANGED <<sharedVars, read, receiver, receiverQ, averager, typist, lineVars, ledBoardVars, typed>>

DisplaySpurious ==
    /\ display = "waiting" /\ display' = "woken"
    /\ UNCHANGED <<sharedVars, read, receiver, receiverQ, averager, typist, lineVars, ledBoardVars, typed>>

\* Mutated form: only for the port.
TypistSeesOnlyOpen ==
    /\ typist = "open"
    /\ opened
    /\ typist' = IF lquit THEN "ended" ELSE "getchar"
    /\ UNCHANGED <<sharedVars, read, receiver, receiverQ, averager, display, lineVars, ledBoardVars, typed>>

\* inputThread waits in a loop, with a sleep, for the port or for the end.
TypistSeesOpen ==
    /\ typist = "open"
    /\ lquit \/ opened
    /\ typist' = IF lquit THEN "ended" ELSE "getchar"
    /\ UNCHANGED <<sharedVars, read, receiver, receiverQ, averager, display, lineVars, ledBoardVars, typed>>

Typed(sent, q) ==
    /\ lquit' = (lquit \/ q)
    /\ lastSent' = sent /\ lastReceived' = "?"
    /\ typist' = IF lquit' THEN "ended" ELSE "getchar"
    /\ display' = SignalDisplay
    /\ UNCHANGED <<opened, ledShown, ledState, exCounter, read, receiver, receiverQ, averager, toClient, ledBoardVars>>

TypesCommand(k) ==
    /\ typist = "getchar" /\ typed < MaxTyped
    /\ Typed(k, FALSE)
    /\ toBoard' = Append(toBoard, k)
    /\ typed' = typed + 1

TypesQuit ==
    /\ typist = "getchar"
    /\ Typed("q", TRUE)
    /\ UNCHANGED <<toBoard, typed>>

-----------------------------------------------------------------------------
(* the board *)

hostVars == <<sharedVars, threadVars, typed>>

\* start(): "while (serial.readable());" waits as long as there IS a character,
\* then a character is read and dropped.
BoardStarts ==
    /\ board = "blinking"
    /\ board' = IF toBoard = <<>> THEN "first" ELSE "stuck"
    /\ UNCHANGED <<hostVars, lineVars, led, ticking, litTicks>>

BoardDropsFirst ==
    /\ board = "first" /\ toBoard # <<>>
    /\ toBoard' = Tail(toBoard)
    /\ toClient' = Append(toClient, "i")
    /\ board' = "loop"
    /\ UNCHANGED <<hostVars, led, ticking, litTicks>>

BoardHandles ==
    /\ board = "loop" /\ toBoard # <<>> /\ Len(toClient) < MaxLine
    /\ LET c == Head(toBoard)
       IN  /\ toClient' = Append(toClient, IF c \in {"h", "b"} THEN c ELSE "a")
           /\ ticking' = IF c = "1" THEN TRUE ELSE IF c = "h" THEN ticking ELSE FALSE
           /\ led' = IF c = "s" THEN TRUE ELSE IF c \in {"e", "b"} THEN FALSE ELSE led
           /\ board' = IF c = "b" THEN "exited" ELSE "loop"
    /\ toBoard' = Tail(toBoard)
    /\ UNCHANGED <<hostVars, litTicks>>

\* flip(), the interrupt of the ticker.
Flip ==
    /\ ticking /\ board = "loop" /\ Len(toClient) < MaxLine /\ litTicks < MaxLit
    /\ led' = ~led
    /\ toClient' = Append(toClient, IF led' THEN "x" ELSE "o")
    /\ litTicks' = IF led' THEN litTicks + 1 ELSE litTicks
    /\ UNCHANGED <<hostVars, toBoard, board, ticking>>

BoardStep == BoardStarts \/ BoardDropsFirst \/ BoardHandles

LedNext ==
    \/ ReceiverStep \/ ReceiverFails \/ Averages \/ Displays \/ DisplaySpurious
    \/ TypistSeesOpen \/ TypesQuit \/ BoardStep \/ Flip
    \/ \E k \in Commands : TypesCommand(k)

LedSpec == LedInit /\ [][LedNext]_ledVars

-----------------------------------------------------------------------------
\* A timeout makes the thread handle its last character again, but no light is
\* counted twice: at most each 'x' of the board once, and one more if the
\* variable happened to hold an 'x' before anything was read.
LightsCountedOnce == exCounter <= litTicks + 1

\* The program ends after 'q' or an error, up to a typist who does not type
\* and a display that was not in its wait when it was last signalled.
LedQuitEnds ==
    lquit ~> /\ receiver = "ended" /\ averager = "ended"
             /\ typist \in {"getchar", "ended"} /\ display \in {"waiting", "ended"}
=============================================================================
