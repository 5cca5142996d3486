---------------------------- MODULE HostThreads ----------------------------
(***************************************************************************)
(* SEM/prgsem-main.c as three threads: main handles events, input_thread   *)
(* turns keys into events, serial_rx_thread turns received messages into   *)
(* events.  They share the event queue and the mutex mtx that guards data. *)
(*                                                                         *)
(* The queue is the bounded buffer that EventQueue is shown to implement.  *)
(* A section under mtx is one step, except where the section contains a    *)
(* queue_push: that call may wait for room while mtx is held.  What the    *)
(* commands do to the computation is in SemSystem; here a handler only     *)
(* keeps data.computing, the allocated messages and what ends the program. *)
(***************************************************************************)
EXTENDS Naturals, Sequences, FiniteSets

CONSTANTS Bound,    \* events the queue holds, QUEUE_CAPACITY - 1
          MaxKeys,  \* bound: keys other than 'q' the user presses
          MaxMsgs   \* bound: messages the serial thread receives

ASSUME BoundAssumption == Bound \in Nat /\ Bound > 0

\* "cmd": a key that always makes an event and leaves data.computing alone
\* (g s c l p t u + - d); "start" is 1 .. 5, "reset" is r, "other" no event.
Keys == {"cmd", "start", "reset", "abort", "quit", "other"}

\* Messages of the board by what main does with them.  "none" stands for
\* MSG_OK, MSG_VERSION and MSG_COMPUTE_DATA, "stop" for MSG_STARTUP, MSG_ERROR
\* and MSG_ABORT.  A message that did not parse, whose type was never set, may
\* be any of them.
Messages == {"none", "stop", "done"}

Threads == {"main", "input", "serial"}
Nobody == "nobody"

Event(source, type) == [source |-> source, type |-> type]
KeyEvents == {Event("kbd", t) : t \in {"cmd", "start", "abort", "quit"}}
SerialEvents == {Event("nucleo", m) : m \in Messages}
SerialQuit == Event("nucleo", "quit")
KeyQuit == Event("kbd", "quit")
Events == KeyEvents \cup SerialEvents \cup {SerialQuit}

VARIABLES queue,      \* the events, oldest first
          mtx,        \* the thread holding mtx, or Nobody
          main, input, serial,  \* where each thread is
          ev,         \* the event main has popped
          pending,    \* the event input_thread is about to push, or its key
          msg,        \* the message serial_rx_thread has allocated
          failed,     \* serial_rx_thread met an unknown byte or a read error
          computing,  \* data.computing
          quit,       \* data.quit
          live,       \* messages allocated and not freed
          aborted,    \* MSG_ABORT was sent when the loop was left
          keys, msgs  \* keys pressed and messages received, for the bounds

vars == <<queue, mtx, main, input, serial, ev, pending, msg, failed,
          computing, quit, live, aborted, keys, msgs>>

TypeOK ==
    /\ queue \in Seq(Events) /\ Len(queue) <= Bound
    /\ mtx \in {Nobody, "main", "input"}
    /\ main \in {"pop", "lock", "pushCompute", "cleanup", "joinInput", "joinSerial", "ended"}
    /\ input \in {"getchar", "lock", "push", "lastPush", "exited"}
    /\ serial \in {"read", "parse", "push", "check", "lastPush", "exited"}
    /\ ev \in Events
    /\ pending \in Keys
    /\ msg \in Messages
    /\ failed \in BOOLEAN /\ computing \in BOOLEAN /\ quit \in BOOLEAN /\ aborted \in BOOLEAN
    /\ live \in Nat /\ keys \in 0 .. MaxKeys /\ msgs \in 0 .. MaxMsgs

Init ==
    /\ queue = <<>> /\ mtx = Nobody
    /\ main = "pop" /\ input = "getchar" /\ serial = "read"
    /\ ev = KeyQuit /\ pending = "other" /\ msg = "none"
    /\ failed = FALSE /\ computing = FALSE /\ quit = FALSE /\ aborted = FALSE
    /\ live = 0 /\ keys = 0 /\ msgs = 0

Room == Len(queue) < Bound
Enqueue(e) == queue' = Append(queue, e)

-----------------------------------------------------------------------------
(* input_thread *)

inputVars == <<input, pending, keys>>
serialVars == <<serial, msg, failed, msgs>>
mainVars == <<main, ev, aborted>>

ReadKey(k) ==
    /\ input = "getchar"
    /\ k # "quit" => keys < MaxKeys
    /\ keys' = IF k = "quit" THEN keys ELSE keys + 1
    /\ pending' = k
    /\ input' = "lock"
    /\ UNCHANGED <<queue, mtx, quit, computing, live, mainVars, serialVars>>

\* The key value 0 (Ctrl-@), for which the loop is left as well, data.quit
\* not being set.
ReadZero ==
    /\ input = "getchar"
    /\ input' = "lastPush"
    /\ UNCHANGED <<queue, mtx, quit, computing, live, pending, keys, mainVars, serialVars>>

\* The event of a key, decided on data.computing as it is NOW.
HasEvent(k) ==
    \/ k \in {"cmd", "abort", "quit"}
    \/ k \in {"start", "reset"} /\ ~computing
EventOf(k) == Event("kbd", IF k = "reset" THEN "cmd" ELSE k)

AfterKey(q) == IF q THEN "lastPush" ELSE "getchar"

\* A key without an event: the section ends at once.
KeyIgnored ==
    /\ input = "lock"
    /\ mtx = Nobody
    /\ ~HasEvent(pending)
    /\ input' = AfterKey(quit)
    /\ UNCHANGED <<queue, mtx, quit, computing, live, pending, keys, mainVars, serialVars>>

\* Mutated form: the section ends before the queue_push.
KeyAcceptedUnlocked ==
    /\ input = "lock"
    /\ mtx = Nobody
    /\ HasEvent(pending)
    /\ quit' = (quit \/ pending = "quit")
    /\ input' = "push"
    /\ UNCHANGED <<queue, mtx, computing, live, pending, keys, mainVars, serialVars>>

\* A key with an event: mtx is kept for the queue_push that follows.
KeyAccepted ==
    /\ input = "lock"
    /\ mtx = Nobody
    /\ HasEvent(pending)
    /\ quit' = (quit \/ pending = "quit")
    /\ mtx' = "input"
    /\ input' = "push"
    /\ UNCHANGED <<queue, computing, live, pending, keys, mainVars, serialVars>>

InputPush ==
    /\ input = "push"
    /\ Room
    /\ Enqueue(EventOf(pending))
    /\ mtx' = Nobody
    /\ input' = AfterKey(quit)
    /\ UNCHANGED <<quit, computing, live, pending, keys, mainVars, serialVars>>

InputLastPush ==
    /\ input = "lastPush"
    /\ Room
    /\ Enqueue(KeyQuit)
    /\ input' = "exited"
    /\ UNCHANGED <<mtx, quit, computing, live, pending, keys, mainVars, serialVars>>

InputStep == KeyIgnored \/ KeyAccepted \/ InputPush \/ InputLastPush

-----------------------------------------------------------------------------
(* serial_rx_thread *)

\* The last byte of a message: it is allocated.
SerialMessage(m) ==
    /\ serial = "read"
    /\ msgs < MaxMsgs
    /\ msgs' = msgs + 1
    /\ msg' = m
    /\ live' = live + 1
    /\ serial' = "parse"
    /\ UNCHANGED <<queue, mtx, quit, computing, failed, mainVars, inputVars>>

SerialParse ==
    /\ serial = "parse"
    /\ mtx = Nobody
    /\ serial' = "push"
    /\ UNCHANGED <<queue, mtx, quit, computing, live, msg, failed, msgs, mainVars, inputVars>>

SerialPush ==
    /\ serial = "push"
    /\ Room
    /\ Enqueue(Event("nucleo", msg))
    /\ serial' = "check"
    /\ UNCHANGED <<mtx, quit, computing, live, msg, failed, msgs, mainVars, inputVars>>

\* A timeout, or a byte in the middle of a message.
SerialQuiet ==
    /\ serial = "read"
    /\ serial' = "check"
    /\ UNCHANGED <<queue, mtx, quit, computing, live, msg, failed, msgs, mainVars, inputVars>>

\* A byte that starts no known message, or a read error.
SerialFail ==
    /\ serial = "read"
    /\ failed' = TRUE
    /\ serial' = "check"
    /\ UNCHANGED <<queue, mtx, quit, computing, live, msg, msgs, mainVars, inputVars>>

\* The same before any message type was recognised: the test len <= i then
\* reads a len never set, so a message of any type may be made and pushed.
SerialFailUnset(m) ==
    /\ serial = "read"
    /\ msgs = 0
    /\ failed' = TRUE
    /\ msg' = m
    /\ live' = live + 1
    /\ serial' = "parse"
    /\ UNCHANGED <<queue, mtx, quit, computing, msgs, mainVars, inputVars>>

\* Mutated form: data.quit is not looked at.
SerialCheckOwnEnd ==
    /\ serial = "check"
    /\ mtx = Nobody
    /\ serial' = IF failed THEN "lastPush" ELSE "read"
    /\ UNCHANGED <<queue, mtx, quit, computing, live, msg, failed, msgs, mainVars, inputVars>>

SerialCheck ==
    /\ serial = "check"
    /\ mtx = Nobody
    /\ serial' = IF failed \/ quit THEN "lastPush" ELSE "read"
    /\ UNCHANGED <<queue, mtx, quit, computing, live, msg, failed, msgs, mainVars, inputVars>>

\* Mutated form: the thread leaves without its EV_QUIT.
SerialLeavesSilently ==
    /\ serial = "lastPush"
    /\ serial' = "exited"
    /\ UNCHANGED <<queue, mtx, quit, computing, live, msg, failed, msgs, mainVars, inputVars>>

SerialLastPush ==
    /\ serial = "lastPush"
    /\ Room
    /\ Enqueue(SerialQuit)
    /\ serial' = "exited"
    /\ UNCHANGED <<mtx, quit, computing, live, msg, failed, msgs, mainVars, inputVars>>

SerialStep == SerialParse \/ SerialPush \/ SerialCheck \/ SerialLastPush \/ SerialQuiet

-----------------------------------------------------------------------------
(* main *)

MainPop ==
    /\ main = "pop"
    /\ queue # <<>>
    /\ ev' = Head(queue)
    /\ queue' = Tail(queue)
    /\ main' = IF Head(queue) = SerialQuit THEN "cleanup" ELSE "lock"
    /\ UNCHANGED <<mtx, quit, computing, live, aborted, inputVars, serialVars>>

\* Any key event but EV_QUIT.
HandleKey ==
    /\ main = "lock"
    /\ mtx = Nobody
    /\ ev \in KeyEvents \ {KeyQuit}
    /\ computing' = CASE ev.type = "start" -> TRUE
                      [] ev.type = "abort" -> FALSE
                      [] OTHER -> computing
    /\ main' = "pop"
    /\ UNCHANGED <<queue, mtx, quit, live, ev, aborted, inputVars, serialVars>>

\* EV_QUIT of the keyboard: MSG_ABORT is sent if a computation is running.
HandleQuit ==
    /\ main = "lock"
    /\ mtx = Nobody
    /\ ev = KeyQuit
    /\ aborted' = computing
    /\ main' = "cleanup"
    /\ UNCHANGED <<queue, mtx, quit, computing, live, ev, inputVars, serialVars>>

\* Mutated form: a message is not freed.
HandleMessageKeep ==
    /\ main = "lock"
    /\ mtx = Nobody
    /\ ev \in SerialEvents
    /\ computing' = (computing /\ ev.type = "none")
    /\ main' = "pop"
    /\ UNCHANGED <<queue, mtx, quit, live, ev, aborted, inputVars, serialVars>>

\* A message other than the MSG_DONE of a chunk that is not the last one.
HandleMessage ==
    /\ main = "lock"
    /\ mtx = Nobody
    /\ ev \in SerialEvents
    /\ computing' = (computing /\ ev.type = "none")
    /\ live' = live - 1
    /\ main' = "pop"
    /\ UNCHANGED <<queue, mtx, quit, ev, aborted, inputVars, serialVars>>

\* MSG_DONE of such a chunk: main itself pushes EV_COMPUTE, keeping mtx.
HandleDone ==
    /\ main = "lock"
    /\ mtx = Nobody
    /\ ev = Event("nucleo", "done")
    /\ mtx' = "main"
    /\ main' = "pushCompute"
    /\ UNCHANGED <<queue, quit, computing, live, ev, aborted, inputVars, serialVars>>

MainPushCompute ==
    /\ main = "pushCompute"
    /\ Room
    /\ Enqueue(Event("kbd", "start"))
    /\ computing' = FALSE
    /\ live' = live - 1
    /\ mtx' = Nobody
    /\ main' = "pop"
    /\ UNCHANGED <<quit, ev, aborted, inputVars, serialVars>>

\* queue_cleanup: frees the message of each EV_SERIAL still queued.
Cleanup ==
    /\ main = "cleanup"
    /\ queue # <<>>
    /\ live' = IF Head(queue) \in SerialEvents THEN live - 1 ELSE live
    /\ queue' = Tail(queue)
    /\ UNCHANGED <<mtx, quit, computing, main, ev, aborted, inputVars, serialVars>>

CleanupEnd ==
    /\ main = "cleanup"
    /\ queue = <<>>
    /\ main' = "joinInput"
    /\ UNCHANGED <<queue, mtx, quit, computing, live, ev, aborted, inputVars, serialVars>>

\* The pthread_joins, in the order of the thread table.
Join ==
    /\ \/ main = "joinInput" /\ input = "exited" /\ main' = "joinSerial"
       \/ main = "joinSerial" /\ serial = "exited" /\ main' = "ended"
    /\ UNCHANGED <<queue, mtx, quit, computing, live, ev, aborted, inputVars, serialVars>>

MainStep ==
    MainPop \/ HandleKey \/ HandleQuit \/ HandleMessage \/ HandleDone
    \/ MainPushCompute \/ Cleanup \/ CleanupEnd \/ Join

\* The process is gone.
Ended == main = "ended" /\ UNCHANGED vars

Next ==
    \/ InputStep \/ SerialStep \/ MainStep \/ SerialFail \/ Ended
    \/ ReadZero \/ \E k \in Keys : ReadKey(k)
    \/ \E m \in Messages : SerialMessage(m) \/ SerialFailUnset(m)

\* Each thread is scheduled, and a read of the serial port times out at the
\* latest; the user may never press a key and the board may stay silent.
Fairness == WF_vars(MainStep) /\ WF_vars(InputStep) /\ WF_vars(SerialStep)

Spec == Init /\ [][Next]_vars /\ Fairness

-----------------------------------------------------------------------------
PastLoop == main \in {"cleanup", "joinInput", "joinSerial", "ended"}

\* The heap is what the threads and the queue say: each allocated message is
\* at the serial thread, in one EV_SERIAL event of the queue, or at main, and
\* is freed once, also when MSG_DONE turns its event into an EV_COMPUTE.
HeapExact ==
    live = Cardinality({k \in DOMAIN queue : queue[k] \in SerialEvents})
           + (IF serial \in {"parse", "push"} THEN 1 ELSE 0)
           + (IF main \in {"lock", "pushCompute"} /\ ev \in SerialEvents THEN 1 ELSE 0)

\* 'q' stops the board: unless the serial thread had failed before, main
\* leaves its loop on the EV_QUIT of the keyboard, which sends MSG_ABORT if a
\* computation runs, and never on the EV_QUIT the serial thread pushes when
\* it sees data.quit.  This rests on mtx being kept while 'q' is pushed.
AbortOnQuit == PastLoop /\ ~failed => (computing => aborted)

\* main is never left waiting for an event that nobody will send: when a
\* thread has gone, its EV_QUIT is queued or main has left the loop.
QuitIsDelivered ==
    "exited" \in {input, serial} =>
        \/ PastLoop
        \/ main = "lock" /\ ev = KeyQuit
        \/ \E i \in DOMAIN queue : queue[i] \in {KeyQuit, SerialQuit}

\* The queue is full and stays so: main waits for mtx, which the keyboard
\* holds in its queue_push; or main is in a queue_push itself; or main has left
\* its loop, and what came after queue_cleanup filled the queue again.
Jammed ==
    /\ ~Room
    /\ \/ main = "lock" /\ mtx = "input" /\ input = "push"
       \/ main \in {"pushCompute", "joinInput", "joinSerial"}

\* After the key value 0 main has left its loop and joins a serial thread
\* that nothing tells to leave: it ends if the port fails, or never.
Untold == main = "joinSerial" /\ ~quit /\ ~failed

\* 'q' ends the program, from wherever the three threads are, unless a full
\* queue jams it, which it does in these three ways and no other; and so does
\* the end of the input thread, unless nothing tells the serial thread.
QuitEnds ==
    /\ quit ~> main = "ended" \/ Jammed
    /\ input = "exited" ~> main = "ended" \/ Jammed \/ Untold

\* "queue is full wait for pop": a thread that waits for room is not what
\* keeps main, the only one that pops, from popping.
PushersDoNotHoldMain ==
    ~(~Room /\ main = "lock" /\ mtx = "input" /\ input = "push")
=============================================================================
