------------------------------ MODULE TaskHost ------------------------------
(***************************************************************************)
(* Homework 10, the forerunner of the semester project: the host           *)
(* (10/b3b36prg-hw10/hw10-main.c, main with a keyboard and a serial        *)
(* thread) and the board's firmware (main.cpp beside it), which computes a *)
(* chunk of tasks, one message for each.  The queue is that of EventQueue, *)
(* and the link carries whole messages in order.                           *)
(***************************************************************************)
EXTENDS Integers, Sequences

CONSTANTS HBound,    \* events the queue holds, QUEUE_CAPACITY - 1
          MaxTasks,  \* bound: tasks of a chunk (10 for each digit in the code)
          MaxHKeys,  \* bound: keys other than 'q'
          MaxLink    \* bound: messages of the board on the way

ASSUME TaskAssumption == HBound \in Nat /\ HBound > 0 /\ MaxTasks \in Nat /\ MaxHKeys \in Nat /\ MaxLink \in Nat

VARIABLES hqueue, hmtx,
          hostMain, event,        \* "pop", "lock", "cleanup", "joinInput", "joinSerial", "ended"
          keyboard, hkey,         \* "getchar", "lock", "push", "lastPush", "exited"
          serialIn, hmsg,         \* "read", "parse", "push", "lastPush", "exited"
          hcomputing, firstChunk, hend,  \* the shared computation
          chunkId, nbrTasks,      \* msg.data.compute
          commands, reports,      \* the link, to the board and from it
          working, tasksLeft,     \* the firmware's computing, and tasks not reported yet
          crossed,                \* the board got MSG_COMPUTE while computing or MSG_ABORT while not
          hkeys

taskVars == <<hqueue, hmtx, hostMain, event, keyboard, hkey, serialIn, hmsg, hcomputing, firstChunk, hend,
              chunkId, nbrTasks, commands, reports, working, tasksLeft, crossed, hkeys>>
mainOnly == <<hostMain, event>>
keyboardOnly == <<keyboard, hkey, hkeys>>
serialOnly == <<serialIn, hmsg>>
shared == <<hcomputing, firstChunk, hend, chunkId, nbrTasks>>
boardOnly == <<working, tasksLeft, crossed>>
link == <<commands, reports>>

HNobody == "nobody"
NoKey == [type |-> "other", tasks |-> 0]
TaskInit ==
    /\ hqueue = <<>> /\ hmtx = HNobody /\ hostMain = "pop" /\ event = "none"
    /\ keyboard = "getchar" /\ hkey = NoKey /\ serialIn = "read" /\ hmsg = "none"
    /\ hcomputing = FALSE /\ firstChunk = TRUE /\ hend = FALSE /\ chunkId = 0 /\ nbrTasks = 0
    /\ commands = <<>> /\ reports \in {<<>>, <<"startup">>}
    /\ working = FALSE /\ tasksLeft = 0 /\ crossed = FALSE /\ hkeys = 0

HRoom == Len(hqueue) < HBound

-----------------------------------------------------------------------------
(* input_thread *)

HostKeys == [type : {"version", "abort", "reset", "other", "quit"}, tasks : {0}]
            \cup [type : {"compute"}, tasks : 1 .. MaxTasks]

PressKey(k) ==
    /\ keyboard = "getchar"
    /\ IF k.type = "quit" THEN UNCHANGED hkeys ELSE hkeys < MaxHKeys /\ hkeys' = hkeys + 1
    /\ hkey' = k /\ keyboard' = "lock"
    /\ UNCHANGED <<hqueue, hmtx, mainOnly, serialOnly, shared, link, boardOnly>>

\* The key value 0: the loop is left, computation.end is not set.
PressZero ==
    /\ keyboard = "getchar"
    /\ keyboard' = "lastPush"
    /\ UNCHANGED <<hqueue, hmtx, mainOnly, hkey, hkeys, serialOnly, shared, link, boardOnly>>

\* Under mtx: reset and digits are dropped while computing, as it is NOW.  The
\* number of tasks is written at once, for the MSG_COMPUTE sent later.
KeyMeans ==
    /\ keyboard = "lock" /\ hmtx = HNobody
    /\ LET made == hkey.type \in {"version", "abort", "quit"} \/ (hkey.type \in {"reset", "compute"} /\ ~hcomputing)
       IN  /\ hend' = (hend \/ hkey.type = "quit")
           /\ nbrTasks' = IF hkey.type = "compute" /\ made THEN hkey.tasks ELSE nbrTasks
           /\ keyboard' = IF made THEN "push" ELSE "getchar"
           /\ hmtx' = IF made THEN "keyboard" ELSE HNobody
    /\ UNCHANGED <<hqueue, mainOnly, hkey, hkeys, serialOnly, hcomputing, firstChunk, chunkId, link, boardOnly>>

\* Mutated form: the loop is left for 'q' with mtx held.
KeyboardPushKept ==
    /\ keyboard = "push" /\ HRoom
    /\ hqueue' = Append(hqueue, hkey.type)
    /\ hmtx' = IF hkey.type = "quit" THEN hmtx ELSE HNobody
    /\ keyboard' = IF hkey.type = "quit" THEN "lastPush" ELSE "getchar"
    /\ UNCHANGED <<mainOnly, hkey, hkeys, serialOnly, shared, link, boardOnly>>

\* queue_push with mtx held.
KeyboardPush ==
    /\ keyboard = "push" /\ HRoom
    /\ hqueue' = Append(hqueue, hkey.type)
    /\ hmtx' = HNobody
    /\ keyboard' = IF hkey.type = "quit" THEN "lastPush" ELSE "getchar"
    /\ UNCHANGED <<mainOnly, hkey, hkeys, serialOnly, shared, link, boardOnly>>

KeyboardLastPush ==
    /\ keyboard = "lastPush" /\ HRoom
    /\ hqueue' = Append(hqueue, "quit")
    /\ keyboard' = "exited"
    /\ UNCHANGED <<hmtx, mainOnly, hkey, hkeys, serialOnly, shared, link, boardOnly>>

-----------------------------------------------------------------------------
(* serial_rx_thread: the message is pushed whether it parses or not *)

SerialReads ==
    /\ serialIn = "read" /\ reports # <<>>
    /\ hmsg' = Head(reports) /\ reports' = Tail(reports)
    /\ serialIn' = "parse"
    /\ UNCHANGED <<hqueue, hmtx, mainOnly, keyboardOnly, shared, commands, boardOnly>>

SerialParses ==
    /\ serialIn = "parse" /\ hmtx = HNobody
    /\ serialIn' = "push"
    /\ UNCHANGED <<hqueue, hmtx, mainOnly, keyboardOnly, hmsg, shared, link, boardOnly>>

SerialPushes ==
    /\ serialIn = "push" /\ HRoom
    /\ hqueue' = Append(hqueue, hmsg)
    /\ serialIn' = "read"
    /\ UNCHANGED <<hmtx, mainOnly, keyboardOnly, hmsg, shared, link, boardOnly>>

\* An unknown byte or a read error.  (Before any message was recognised one of
\* garbage may be pushed, as in HostThreads.)
SerialFails ==
    /\ serialIn = "read"
    /\ serialIn' = "lastPush"
    /\ UNCHANGED <<hqueue, hmtx, mainOnly, keyboardOnly, hmsg, shared, link, boardOnly>>

\* Only a timeout looks at computation.end, and none comes while a task takes
\* 300 ms (COMPUTE_TIME) and the timeout 500 ms.
SerialTimeout ==
    /\ serialIn = "read" /\ reports = <<>> /\ ~working /\ hmtx = HNobody
    /\ hend
    /\ serialIn' = "lastPush"
    /\ UNCHANGED <<hqueue, hmtx, mainOnly, keyboardOnly, hmsg, shared, link, boardOnly>>

SerialLastPush10 ==
    /\ serialIn = "lastPush" /\ HRoom
    /\ hqueue' = Append(hqueue, "serialQuit")
    /\ serialIn' = "exited"
    /\ UNCHANGED <<hmtx, mainOnly, keyboardOnly, hmsg, shared, link, boardOnly>>

-----------------------------------------------------------------------------
(* main *)

HostPops ==
    /\ hostMain = "pop" /\ hqueue # <<>>
    /\ event' = Head(hqueue) /\ hqueue' = Tail(hqueue)
    /\ hostMain' = IF event' = "serialQuit" THEN "cleanup" ELSE "lock"
    /\ UNCHANGED <<hmtx, keyboardOnly, serialOnly, shared, link, boardOnly>>

Order(type, n) == [type |-> type, tasks |-> n]

Handles(events) ==
    /\ hostMain = "lock" /\ hmtx = HNobody /\ event \in events
    /\ hostMain' = IF event = "quit" THEN "cleanup" ELSE "pop"
    /\ UNCHANGED <<hqueue, hmtx, event, keyboardOnly, serialOnly, reports, boardOnly, hend, nbrTasks>>

HandleVersion ==
    /\ Handles({"version"})
    /\ commands' = Append(commands, Order("version", 0))
    /\ UNCHANGED <<hcomputing, firstChunk, chunkId>>

\* EV_ABORT and EV_QUIT.
HandleStop ==
    /\ Handles({"abort", "quit"})
    /\ commands' = IF hcomputing THEN Append(commands, Order("abort", 0)) ELSE commands
    /\ UNCHANGED <<hcomputing, firstChunk, chunkId>>

HandleCompute ==
    /\ Handles({"compute"})
    /\ commands' = Append(commands, Order("compute", nbrTasks))
    /\ firstChunk' = FALSE
    /\ chunkId' = IF firstChunk THEN chunkId ELSE chunkId + 1
    /\ UNCHANGED hcomputing

HandleReset ==
    /\ Handles({"reset"})
    /\ chunkId' = 0 /\ firstChunk' = TRUE
    /\ UNCHANGED <<commands, hcomputing>>

HandleStartup ==
    /\ Handles({"startup"})
    /\ hcomputing' = FALSE /\ chunkId' = 0 /\ firstChunk' = TRUE
    /\ UNCHANGED commands

\* Mutated form: an abort answered by MSG_OK leaves the flag to MSG_DONE.
AfterOkStarted(was) == TRUE

\* MSG_OK answers MSG_COMPUTE and MSG_ABORT: which of them is guessed.
AfterOk(was) == ~was

HandleReport ==
    /\ Handles({"ok", "done", "error", "data", "versionIs"})
    /\ hcomputing' = CASE event = "ok" -> AfterOk(hcomputing)
                       [] event \in {"done", "error"} -> FALSE
                       [] OTHER -> hcomputing
    /\ UNCHANGED <<commands, firstChunk, chunkId>>

HostLeaves ==
    /\ \/ hostMain = "cleanup" /\ hqueue # <<>> /\ hqueue' = Tail(hqueue) /\ UNCHANGED hostMain
       \/ /\ \/ hostMain = "cleanup" /\ hqueue = <<>> /\ hostMain' = "joinInput"
             \/ hostMain = "joinInput" /\ keyboard = "exited" /\ hostMain' = "joinSerial"
             \/ hostMain = "joinSerial" /\ serialIn = "exited" /\ hostMain' = "ended"
          /\ UNCHANGED hqueue
    /\ UNCHANGED <<hmtx, event, keyboardOnly, serialOnly, shared, link, boardOnly>>

-----------------------------------------------------------------------------
(* the firmware: its loop takes a command if there is one, else does a task *)

hostOnly == <<hqueue, hmtx, mainOnly, keyboardOnly, serialOnly, shared>>
Report(m) == Len(reports) < MaxLink /\ reports' = Append(reports, m)

BoardCommand ==
    /\ commands # <<>>
    /\ commands' = Tail(commands)
    /\ LET c == Head(commands)
       IN  CASE c.type = "version" -> Report("versionIs") /\ UNCHANGED boardOnly
             [] c.type = "abort" -> /\ Report("ok")
                               /\ working' = FALSE /\ crossed' = (crossed \/ ~working)
                               /\ UNCHANGED tasksLeft
             [] OTHER -> /\ Report("ok")
                         /\ working' = (working \/ c.tasks > 0)
                         /\ tasksLeft' = IF c.tasks > 0 THEN c.tasks ELSE tasksLeft
                         /\ crossed' = (crossed \/ working)
    /\ UNCHANGED hostOnly

BoardTask ==
    /\ working /\ commands = <<>>
    /\ Report(IF tasksLeft > 0 THEN "data" ELSE "done")
    /\ working' = (tasksLeft > 0)
    /\ tasksLeft' = IF tasksLeft > 0 THEN tasksLeft - 1 ELSE 0
    /\ UNCHANGED <<hostOnly, commands, crossed>>

KeyboardStep == KeyMeans \/ KeyboardPush \/ KeyboardLastPush
SerialInStep == SerialReads \/ SerialParses \/ SerialPushes \/ SerialTimeout \/ SerialLastPush10
HostStep ==
    \/ HostPops \/ HandleVersion \/ HandleStop \/ HandleCompute \/ HandleReset \/ HandleStartup
    \/ HandleReport \/ HostLeaves
WorkStep == BoardCommand \/ BoardTask

TaskNext ==
    \/ KeyboardStep \/ SerialInStep \/ SerialFails \/ HostStep \/ WorkStep
    \/ PressZero \/ \E k \in HostKeys : PressKey(k)

TaskSpec == TaskInit /\ [][TaskNext]_taskVars

\* Each thread and the board are scheduled; the user may never press a key.
FairTaskSpec ==
    /\ TaskSpec
    /\ WF_taskVars(KeyboardStep) /\ WF_taskVars(SerialInStep)
    /\ WF_taskVars(HostStep) /\ WF_taskVars(WorkStep)

-----------------------------------------------------------------------------
Between == hqueue \o (IF serialIn \in {"parse", "push"} THEN <<hmsg>> ELSE <<>>) \o reports
Unheard == {m \in {"ok", "done", "startup"} :
               \/ hostMain = "lock" /\ event = m
               \/ \E i \in DOMAIN Between : Between[i] = m}

\* With nothing on the way, the flag the host keeps by turning it with each
\* MSG_OK is what the board does, as long as the board has got each MSG_COMPUTE
\* idle and each MSG_ABORT computing: not when a command has crossed MSG_DONE.
FlagIsBoards ==
    hostMain \in {"pop", "lock"} /\ ~crossed /\ commands = <<>> /\ Unheard = {} => hcomputing = working

\* The queue is full for good: the keyboard waits for room with mtx, which main
\* needs; or main has emptied the queue and keys, or a board still at a chunk
\* main did not know of, have filled it again.
HostJammed ==
    /\ ~HRoom
    /\ \/ hostMain = "lock" /\ hmtx = "keyboard"
       \/ hostMain \in {"joinInput", "joinSerial"}

\* 'q' ends the program, and so does the key value 0, unless the queue is full
\* for good or, after the key value 0, main joins a serial thread that nothing
\* tells to leave.
TaskQuitEnds ==
    /\ hend ~> hostMain = "ended" \/ HostJammed
    /\ keyboard = "exited" ~> \/ hostMain = "ended" \/ HostJammed
                              \/ hostMain = "joinSerial" /\ ~hend /\ serialIn # "exited"
=============================================================================
