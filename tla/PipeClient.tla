----------------------------- MODULE PipeClient -----------------------------
(***************************************************************************)
(* The client of a signal generator (10/bab36PRGA-hw9): main in            *)
(* prga-hw9.c, the keyboard thread in input_key_thrd.c and the receiving   *)
(* thread in pipe_io.c around the queue of event_queue.c, which is that of *)
(* EventQueue.  The generator behind the two pipes is not in the           *)
(* repository: it answers as the client expects it to.                     *)
(***************************************************************************)
EXTENDS Integers, Sequences

CONSTANTS PBound,     \* events the queue holds, QUEUE_CAPACITY - 1
          Chunks,     \* MSG_SIGNAL_DATA of one signal; N, a value of each standing for all
          MaxPKeys,   \* bound: keys other than 'q'
          MaxDropped  \* bound: messages dropped by the receiver

ASSUME PipeAssumption ==
    /\ PBound \in Nat /\ PBound > 1
    /\ Chunks \in Nat /\ MaxPKeys \in Nat /\ MaxDropped \in Nat

VARIABLES pqueue, pquit,
          keyThread, pkey,         \* "getchar", "push", "lastPush", "exited"
          rx, rxMsg,               \* "read", "push", "check", "lastPush", "exited"
          client,                  \* main: "clear" (its first push), "loop", "cleanup", "joinKey", "joinRx", "ended"
          receiving, cid, signalData,  \* computation.computing, cid, the signal_data received
          plotted,                 \* the signal drawn last
          toGenerator, pipe,
          request, sendingChunk,   \* generator: requests so far; the next chunk, or Chunks + 1: idle
          overlap,                 \* a signal was requested while one before it was on its way
          pkeys, dropped

pipeVars == <<pqueue, pquit, keyThread, pkey, rx, rxMsg, client, receiving, cid, signalData, plotted,
              toGenerator, pipe, request, sendingChunk, overlap, pkeys, dropped>>
keyVars == <<keyThread, pkey, pkeys>>
rxVars == <<rx, rxMsg, dropped>>
signalVars == <<receiving, cid, signalData, plotted, overlap>>
generatorVars == <<request, sendingChunk>>

Idle == Chunks + 1
Zero == <<0, 0>>  \* a value cleared
Msg(type) == [type |-> type]
DataOf(r, c) == [type |-> "data", request |-> r, cid |-> c]

PipeInit ==
    /\ pqueue = <<>> /\ pquit = FALSE
    /\ keyThread = "getchar" /\ pkey = "q" /\ rx = "read" /\ rxMsg = Msg("ok") /\ client = "clear"
    /\ receiving = FALSE /\ cid = 0 /\ signalData = <<>> /\ plotted = <<>> /\ overlap = FALSE
    /\ toGenerator = <<>> /\ pipe = <<>> /\ request = 0 /\ sendingChunk = Idle
    /\ pkeys = 0 /\ dropped = 0

PRoom == Len(pqueue) < PBound

-----------------------------------------------------------------------------
(* input_keyboard_thread: the event is pushed after the mutex is unlocked *)

\* "set" is s, "receive" r, "abort" a, "clear" c; "none" the keys whose event
\* changes nothing here (g, b).  1 to 8 change the parameters and push nothing.
KeyTyped(k) ==
    /\ keyThread = "getchar" /\ pkeys < MaxPKeys
    /\ pkey' = k /\ pkeys' = pkeys + 1 /\ keyThread' = "push"
    /\ UNCHANGED <<pqueue, pquit, client, rxVars, signalVars, toGenerator, pipe, generatorVars>>

KeyPush ==
    /\ keyThread = "push" /\ PRoom
    /\ pqueue' = Append(pqueue, Msg(pkey))
    /\ keyThread' = IF pquit THEN "lastPush" ELSE "getchar"
    /\ UNCHANGED <<pquit, pkey, pkeys, client, rxVars, signalVars, toGenerator, pipe, generatorVars>>

\* 'q', or the key value 0: the loop is left without an event of its own.
QuitTyped ==
    /\ keyThread = "getchar"
    /\ keyThread' = "lastPush"
    /\ UNCHANGED <<pqueue, pquit, pkey, pkeys, client, rxVars, signalVars, toGenerator, pipe, generatorVars>>

KeyLastPush ==
    /\ keyThread = "lastPush" /\ PRoom
    /\ pqueue' = Append(pqueue, Msg("quit"))
    /\ keyThread' = "exited"
    /\ UNCHANGED <<pquit, pkey, pkeys, client, rxVars, signalVars, toGenerator, pipe, generatorVars>>

-----------------------------------------------------------------------------
(* pipe_io_rx_thread *)

RxMessage ==
    /\ rx = "read" /\ pipe # <<>>
    /\ rxMsg' = Head(pipe) /\ pipe' = Tail(pipe)
    /\ rx' = "push"
    /\ UNCHANGED <<pqueue, pquit, client, keyVars, dropped, signalVars, toGenerator, generatorVars>>

\* A pause inside a message: what was read is discarded, and what follows is
\* taken for another message until bytes and messages fall together again.
RxCut ==
    /\ rx = "read"
    /\ \E k \in 1 .. Len(pipe) :
          /\ dropped + k <= MaxDropped
          /\ dropped' = dropped + k
          /\ pipe' = SubSeq(pipe, k + 1, Len(pipe))
    /\ rx' = "check"
    /\ UNCHANGED <<pqueue, pquit, client, keyVars, rxMsg, signalVars, toGenerator, generatorVars>>

\* A timeout, or a read error: the end it sets is overwritten by quit.
RxQuiet ==
    /\ rx = "read" /\ rx' = "check"
    /\ UNCHANGED <<pqueue, pquit, client, keyVars, rxMsg, dropped, signalVars, toGenerator, pipe, generatorVars>>

RxPush ==
    /\ rx = "push" /\ PRoom
    /\ pqueue' = Append(pqueue, rxMsg)
    /\ rx' = "check"
    /\ UNCHANGED <<pquit, client, keyVars, rxMsg, dropped, signalVars, toGenerator, pipe, generatorVars>>

RxCheck ==
    /\ rx = "check"
    /\ rx' = IF pquit THEN "lastPush" ELSE "read"
    /\ UNCHANGED <<pqueue, pquit, client, keyVars, rxMsg, dropped, signalVars, toGenerator, pipe, generatorVars>>

RxLastPush ==
    /\ rx = "lastPush" /\ PRoom
    /\ pqueue' = Append(pqueue, Msg("rxQuit"))
    /\ rx' = "exited"
    /\ UNCHANGED <<pquit, client, keyVars, rxMsg, dropped, signalVars, toGenerator, pipe, generatorVars>>

-----------------------------------------------------------------------------
(* main *)

\* EV_CLEAR_PLOT, which main pushes for itself.
MainClears ==
    /\ client = "clear" /\ PRoom
    /\ pqueue' = Append(pqueue, Msg("clear"))
    /\ client' = "loop"
    /\ UNCHANGED <<pquit, keyVars, rxVars, signalVars, toGenerator, pipe, generatorVars>>

PPop(type) ==
    /\ client = "loop" /\ pqueue # <<>> /\ Head(pqueue).type = type
    /\ pqueue' = Tail(pqueue)
    /\ UNCHANGED <<keyVars, rxVars, pipe, generatorVars>>

\* What is left of an earlier signal anywhere between the client and the generator.
OnItsWay ==
    \/ sendingChunk # Idle \/ toGenerator # <<>>
    \/ \E s \in {pipe, pqueue', IF rx = "push" THEN <<rxMsg>> ELSE <<>>} :
          \E i \in DOMAIN s : s[i].type \in {"data", "done"}

HandleReceive ==
    /\ PPop("receive")
    /\ IF receiving THEN UNCHANGED <<signalVars, toGenerator>>
       ELSE /\ receiving' = TRUE /\ cid' = 0 /\ signalData' = <<>>
            /\ toGenerator' = Append(toGenerator, "signal")
            /\ overlap' = (overlap \/ OnItsWay)
            /\ UNCHANGED plotted
    /\ UNCHANGED <<pquit, client>>

HandleSet ==
    /\ PPop("set")
    /\ IF receiving THEN UNCHANGED <<signalData, toGenerator>>
       ELSE signalData' = <<>> /\ toGenerator' = Append(toGenerator, "set")
    /\ UNCHANGED <<pquit, client, receiving, cid, plotted, overlap>>

\* EV_CLEAR_PLOT: also what has been received of a signal on its way.
HandleClear ==
    /\ PPop("clear")
    /\ signalData' = [i \in DOMAIN signalData |-> Zero]
    /\ plotted' = <<>>
    /\ UNCHANGED <<pquit, client, receiving, cid, overlap, toGenerator>>

\* MSG_ABORT is sent whether or not a signal is received.
HandleAbortKey ==
    /\ PPop("abort")
    /\ receiving' = FALSE
    /\ toGenerator' = Append(toGenerator, "abort")
    /\ UNCHANGED <<pquit, client, cid, signalData, plotted, overlap>>

\* Mutated form: quit is not set.
HandleQuitKeyQuietly ==
    /\ PPop("quit")
    /\ toGenerator' = IF receiving THEN Append(toGenerator, "abort") ELSE toGenerator
    /\ client' = "cleanup"
    /\ UNCHANGED <<pquit, signalVars>>

HandleQuitKey ==
    /\ PPop("quit")
    /\ toGenerator' = IF receiving THEN Append(toGenerator, "abort") ELSE toGenerator
    /\ pquit' = TRUE /\ client' = "cleanup"
    /\ UNCHANGED signalVars

\* MSG_OK and the others that are only reported.
HandleOther ==
    /\ \E t \in {"none", "ok"} : PPop(t)
    /\ UNCHANGED <<pquit, client, signalVars, toGenerator>>

\* MSG_ABORT of the generator, looked at whatever is being received.
HandleAborted ==
    /\ PPop("aborted")
    /\ receiving' = FALSE
    /\ UNCHANGED <<pquit, client, cid, signalData, plotted, overlap, toGenerator>>

ChunkFits(m) == m.cid = cid /\ Len(signalData) < Chunks

\* MSG_SIGNAL_DATA: more values than the signal has end the reception.
HandleData ==
    /\ PPop("data")
    /\ LET m == Head(pqueue)
       IN  IF receiving /\ ChunkFits(m)
           THEN signalData' = Append(signalData, <<m.request, m.cid>>) /\ cid' = cid + 1 /\ UNCHANGED receiving
           ELSE /\ receiving' = (receiving /\ m.cid # cid)
                /\ cid' = IF receiving /\ m.cid = cid THEN cid + 1 ELSE cid
                /\ UNCHANGED signalData
    /\ UNCHANGED <<pquit, client, plotted, overlap, toGenerator>>

\* Mutated form: that the generator is done is enough.
AnyReceived == TRUE

AllReceived == Len(signalData) = Chunks

HandleDone ==
    /\ PPop("done")
    /\ plotted' = IF receiving /\ AllReceived THEN signalData ELSE plotted
    /\ receiving' = FALSE
    /\ UNCHANGED <<pquit, client, cid, signalData, overlap, toGenerator>>

Leaves ==
    /\ \/ client = "cleanup" /\ pqueue # <<>> /\ pqueue' = Tail(pqueue) /\ UNCHANGED client
       \/ /\ \/ client = "cleanup" /\ pqueue = <<>> /\ client' = "joinKey"
             \/ client = "joinKey" /\ keyThread = "exited" /\ client' = "joinRx"
             \/ client = "joinRx" /\ rx = "exited" /\ client' = "ended"
          /\ UNCHANGED pqueue
    /\ UNCHANGED <<pquit, keyVars, rxVars, signalVars, toGenerator, pipe, generatorVars>>

-----------------------------------------------------------------------------
(* the generator *)

GeneratorTakes ==
    /\ toGenerator # <<>>
    /\ toGenerator' = Tail(toGenerator)
    /\ CASE Head(toGenerator) = "signal" -> request' = request + 1 /\ sendingChunk' = 0 /\ UNCHANGED pipe
         [] Head(toGenerator) = "abort" -> sendingChunk' = Idle /\ UNCHANGED <<request, pipe>>
         [] Head(toGenerator) = "set" -> pipe' = Append(pipe, Msg("ok")) /\ UNCHANGED <<request, sendingChunk>>
    /\ UNCHANGED <<pqueue, pquit, client, keyVars, rxVars, signalVars>>

GeneratorSends ==
    /\ sendingChunk # Idle
    /\ pipe' = Append(pipe, IF sendingChunk < Chunks THEN DataOf(request, sendingChunk) ELSE Msg("done"))
    /\ sendingChunk' = sendingChunk + 1
    /\ UNCHANGED <<pqueue, pquit, client, keyVars, rxVars, signalVars, toGenerator, request>>

\* It breaks off a signal by itself.
GeneratorAborts ==
    /\ sendingChunk # Idle
    /\ pipe' = Append(pipe, Msg("aborted"))
    /\ sendingChunk' = Idle
    /\ UNCHANGED <<pqueue, pquit, client, keyVars, rxVars, signalVars, toGenerator, request>>

KeyStep == KeyPush \/ KeyLastPush
RxStep == RxMessage \/ RxQuiet \/ RxPush \/ RxCheck \/ RxLastPush
ClientStep ==
    \/ MainClears \/ HandleClear \/ HandleReceive \/ HandleSet \/ HandleAbortKey \/ HandleQuitKey \/ HandleOther
    \/ HandleAborted \/ HandleData \/ HandleDone \/ Leaves

PipeNext ==
    \/ KeyStep \/ QuitTyped \/ RxStep \/ RxCut \/ ClientStep \/ GeneratorTakes \/ GeneratorSends
    \/ GeneratorAborts
    \/ \E k \in {"set", "receive", "abort", "clear", "none"} : KeyTyped(k)

PipeSpec == PipeInit /\ [][PipeNext]_pipeVars

-----------------------------------------------------------------------------
\* What is drawn is one signal, whole and in order, whatever messages were
\* lost, as long as none was requested while an earlier one was on its way:
\* the chunk numbers start from 0 again and do not tell them apart.  A value
\* may be zero when the plot was cleared between two chunks.
PlotIsOneSignal ==
    ~overlap /\ plotted # <<>> =>
        /\ Len(plotted) = Chunks
        /\ \E r \in 1 .. request : \A k \in 1 .. Chunks : plotted[k] \in {Zero, <<r, k - 1>>}

\* 'q' ends the program, unless keys had filled the queue before main pushed
\* its first event: then it waits for itself.
PipeQuitEnds == keyThread = "lastPush" ~> client = "ended" \/ (client = "clear" /\ ~PRoom)
=============================================================================
