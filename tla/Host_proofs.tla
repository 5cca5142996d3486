---------------------------- MODULE Host_proofs ----------------------------
(***************************************************************************)
(* Proofs about the host's program, HostThreads.tla and HostImage.tla.     *)
(*                                                                         *)
(* For a queue of any size and any number of keys and messages, 'q' stops  *)
(* the board (AbortOnQuit), main hears of each thread that ends            *)
(* (QuitIsDelivered), and each allocated message is freed once (HeapExact).*)
(* The argument: mtx is held from the moment data.quit is set until        *)
(* EV_QUIT of the keyboard is in the queue, so that the serial thread,     *)
(* which reads data.quit under mtx, can only queue its own EV_QUIT behind  *)
(* it (QuitFirst); main then leaves its loop on the first one.             *)
(*                                                                         *)
(* For any sizes, steps and bounds, the sizes kept in four files agree as  *)
(* long as the program runs, and a change of the user starts from zero:    *)
(* where the host cannot go on it has ended, so this needs nothing of the  *)
(* numbers but that they are integers.  That the chunks tile the image     *)
(* needs that the sizes stay multiples of DivideConstant.                  *)
(***************************************************************************)
EXTENDS HostThreads, HostImage, SequenceTheorems, FiniteSetTheorems, TLAPS

-----------------------------------------------------------------------------
(* The threads of the host.                                                *)

\* mtx is kept exactly over the push of a key's event, and over main's own.
PushUnderMtx ==
    /\ input = "push" <=> mtx = "input"
    /\ main = "pushCompute" => mtx = "main"

\* EV_QUIT of the keyboard is queued, in main's hands, or was.
Told ==
    \/ PastLoop
    \/ main = "lock" /\ ev = KeyQuit
    \/ \E k \in 1 .. Len(queue) : queue[k] = KeyQuit

\* When 'q' was pressed, only the push of its EV_QUIT may be outstanding.
QuitTold == quit => (input = "push" /\ pending = "quit") \/ Told

\* The serial thread leaves only when it has seen data.quit.
LeavesOnQuit == serial \in {"lastPush", "exited"} => quit /\ Told

\* Its EV_QUIT is behind the one of the keyboard.
QuitFirst ==
    \A k \in 1 .. Len(queue) :
        queue[k] = SerialQuit =>
            \/ PastLoop
            \/ main = "lock" /\ ev = KeyQuit
            \/ \E l \in 1 .. k - 1 : queue[l] = KeyQuit

Shape ==
    /\ queue \in Seq(Events)
    /\ mtx \in {Nobody, "main", "input"}
    /\ input \in {"getchar", "lock", "push", "lastPush", "exited"}
    /\ quit \in BOOLEAN /\ failed \in BOOLEAN
    /\ pending \in Keys /\ msg \in Messages
    /\ input = "push" => pending # "other"

IInv ==
    /\ Shape
    /\ PushUnderMtx
    /\ ~failed => QuitTold /\ LeavesOnQuit /\ QuitFirst
    /\ AbortOnQuit

-----------------------------------------------------------------------------
(* The queue.                                                              *)

\* The events differ.
LEMMA EventsDiffer ==
    /\ KeyQuit # SerialQuit /\ KeyQuit \in Events /\ SerialQuit \in Events
    /\ KeyQuit # Event("nucleo", "done") /\ \A e \in SerialEvents : KeyQuit # e
    /\ \A m \in Messages : Event("nucleo", m) \in Events /\ Event("nucleo", m) # SerialQuit
    /\ \A k \in Keys : k # "other" => EventOf(k) \in Events /\ EventOf(k) # SerialQuit
    /\ EventOf("quit") = KeyQuit
    /\ Event("kbd", "start") \in Events /\ Event("kbd", "start") # SerialQuit
BY SMT DEF KeyQuit, SerialQuit, Event, Events, KeyEvents, SerialEvents, Messages, Keys,
           EventOf

\* What a push does to the invariant: everything queued stays where it is.
LEMMA Pushed ==
    ASSUME NEW q \in Seq(Events), NEW e \in Events
    PROVE  /\ Append(q, e) \in Seq(Events) /\ Len(Append(q, e)) = Len(q) + 1
           /\ \A k \in 1 .. Len(q) : Append(q, e)[k] = q[k]
           /\ Append(q, e)[Len(q) + 1] = e
BY SMT

\* What a pop does: everything moves up.
LEMMA Popped ==
    ASSUME NEW q \in Seq(Events), q # <<>>
    PROVE  /\ Tail(q) \in Seq(Events) /\ Len(Tail(q)) = Len(q) - 1 /\ Len(q) \in Nat \ {0}
           /\ \A k \in 1 .. Len(Tail(q)) : Tail(q)[k] = q[k + 1]
           /\ Head(q) = q[1] /\ Head(q) \in Events
BY SMT

-----------------------------------------------------------------------------
(* What the steps do to the queue part of the invariant.                   *)

\* Where EV_QUIT is, apart from the queue: handled or in main's hands.
Taken == PastLoop \/ (main = "lock" /\ ev = KeyQuit)

\* A step that leaves the queue alone, and EV_QUIT in main's hands, keeps Told
\* and QuitFirst.
LEMMA QueueKept ==
    ASSUME UNCHANGED queue, Taken => Taken'
    PROVE  (Told => Told') /\ (QuitFirst => QuitFirst')
BY DEF Told, QuitFirst, Taken

\* A push keeps them too, if it is not an EV_QUIT of the serial thread that
\* main has not been told of.
LEMMA PushKeeps ==
    ASSUME queue \in Seq(Events), NEW e \in Events, Enqueue(e), Taken => Taken'
    PROVE  /\ Told => Told'
           /\ e = KeyQuit => Told'
           /\ QuitFirst /\ (e = SerialQuit => Told) => QuitFirst'
<1>1. /\ queue' \in Seq(Events) /\ Len(queue') = Len(queue) + 1 /\ Len(queue) \in Nat
      /\ \A k \in 1 .. Len(queue) : queue'[k] = queue[k]
      /\ queue'[Len(queue) + 1] = e
  BY Pushed DEF Enqueue
<1>2. Told => Told'
  <2>1. ASSUME NEW k \in 1 .. Len(queue), queue[k] = KeyQuit
        PROVE  k \in 1 .. Len(queue') /\ queue'[k] = KeyQuit
    BY <1>1, <2>1, SMT
  <2> QED
    BY <2>1 DEF Told, Taken
<1>3. e = KeyQuit => Told'
  <2>1. Len(queue) + 1 \in 1 .. Len(queue')
    BY <1>1, SMT
  <2> QED
    BY <1>1, <2>1 DEF Told
<1>4. ASSUME QuitFirst, e = SerialQuit => Told,
             NEW k \in 1 .. Len(queue'), queue'[k] = SerialQuit
      PROVE  PastLoop' \/ (main' = "lock" /\ ev' = KeyQuit)
               \/ \E l \in 1 .. k - 1 : queue'[l] = KeyQuit
  <2>1. CASE k \in 1 .. Len(queue)
    <3>1. queue[k] = SerialQuit
      BY <1>1, <1>4, <2>1
    <3>2. Taken \/ \E l \in 1 .. k - 1 : queue[l] = KeyQuit
      BY <1>4, <2>1, <3>1 DEF QuitFirst, Taken
    <3>3. ASSUME NEW l \in 1 .. k - 1, queue[l] = KeyQuit
          PROVE  queue'[l] = KeyQuit
      <4>1. l \in 1 .. Len(queue)
        BY <1>1, <2>1, SMT
      <4> QED
        BY <1>1, <3>3, <4>1
    <3> QED
      BY <3>2, <3>3 DEF Taken
  <2>2. CASE k = Len(queue) + 1
    <3>1. Told
      BY <1>1, <1>4, <2>2
    <3>2. ASSUME NEW l \in 1 .. Len(queue), queue[l] = KeyQuit
          PROVE  l \in 1 .. k - 1 /\ queue'[l] = KeyQuit
      BY <1>1, <2>2, <3>2, SMT
    <3> QED
      BY <3>1, <3>2 DEF Told, Taken
  <2>3. k \in 1 .. Len(queue) \/ k = Len(queue) + 1
    BY <1>1, SMT
  <2> QED
    BY <2>1, <2>2, <2>3
<1> QED
  BY <1>2, <1>3, <1>4 DEF QuitFirst

\* A pop takes EV_QUIT into main's hands, and never the serial thread's first.
LEMMA PopKeeps ==
    ASSUME Shape, MainPop
    PROVE  /\ Told => Told'
           /\ QuitFirst => QuitFirst'
           /\ QuitFirst => Head(queue) # SerialQuit
           /\ queue' \in Seq(Events)
<1> DEFINE q == Head(queue)
<1>1. /\ queue' \in Seq(Events) /\ Len(queue') = Len(queue) - 1 /\ Len(queue) \in Nat \ {0}
      /\ \A k \in 1 .. Len(queue') : queue'[k] = queue[k + 1]
      /\ Head(queue) = queue[1]
  BY Popped DEF MainPop, Shape
<1>2. main = "pop" /\ ~PastLoop
  BY DEF MainPop, PastLoop
<1>3. /\ ev' = Head(queue)
      /\ main' = IF Head(queue) = SerialQuit THEN "cleanup" ELSE "lock"
  BY DEF MainPop
<1>4. QuitFirst => Head(queue) # SerialQuit
  <2> SUFFICES ASSUME QuitFirst, queue[1] = SerialQuit PROVE FALSE
    BY <1>1
  <2>1. 1 \in 1 .. Len(queue)
    BY <1>1, SMT
  <2>2. \E l \in 1 .. 1 - 1 : queue[l] = KeyQuit
    BY <1>2, <2>1 DEF QuitFirst
  <2> QED
    BY <2>2, SMT
<1>5. ASSUME NEW k \in 1 .. Len(queue), queue[k] = KeyQuit
      PROVE  Taken' \/ (k - 1 \in 1 .. Len(queue') /\ queue'[k - 1] = KeyQuit)
  <2>1. CASE k = 1
    <3>1. ev' = KeyQuit /\ main' = "lock"
      BY <1>1, <1>3, <1>5, <2>1, EventsDiffer
    <3> QED
      BY <3>1 DEF Taken
  <2>2. CASE k # 1
    <3>1. k - 1 \in 1 .. Len(queue') /\ (k - 1) + 1 = k
      BY <1>1, <2>2, SMT
    <3>2. queue'[k - 1] = queue[(k - 1) + 1]
      BY <1>1, <3>1
    <3> QED
      BY <1>5, <3>1, <3>2
  <2> QED
    BY <2>1, <2>2
<1>6. Told => Told'
  BY <1>2, <1>5 DEF Told, Taken
<1>7. ASSUME QuitFirst, NEW k \in 1 .. Len(queue'), queue'[k] = SerialQuit
      PROVE  Taken' \/ \E l \in 1 .. k - 1 : queue'[l] = KeyQuit
  <2>1. k + 1 \in 1 .. Len(queue) /\ queue[k + 1] = SerialQuit
    BY <1>1, <1>7, SMT
  <2>2. PICK l \in 1 .. (k + 1) - 1 : queue[l] = KeyQuit
    BY <1>2, <1>7, <2>1 DEF QuitFirst
  <2>3. l \in 1 .. Len(queue)
    BY <1>1, <2>1, SMT
  <2>4. Taken' \/ (l - 1 \in 1 .. Len(queue') /\ queue'[l - 1] = KeyQuit)
    BY <1>5, <2>2, <2>3
  <2>5. l - 1 \in 1 .. Len(queue') => l - 1 \in 1 .. k - 1
    BY <2>1, SMT
  <2> QED
    BY <2>4, <2>5
<1>8. QuitFirst => QuitFirst'
  BY <1>7 DEF QuitFirst, Taken
<1> QED
  BY <1>1, <1>4, <1>6, <1>8

-----------------------------------------------------------------------------
(* The inductive invariant.                                                *)

LEMMA InitGood == Init => IInv
<1> SUFFICES ASSUME Init PROVE IInv
  OBVIOUS
<1>1. /\ queue = <<>> /\ mtx = "nobody" /\ main = "pop" /\ input = "getchar" /\ serial = "read"
      /\ pending = "other" /\ msg = "none" /\ failed = FALSE /\ quit = FALSE
  BY DEF Init, Nobody
<1>2. ~\E k \in 1 .. Len(queue) : TRUE
  BY <1>1, SMT
<1>3. queue \in Seq(Events)
  BY <1>1, SMT
<1>4. Shape /\ PushUnderMtx
  BY <1>1, <1>3 DEF Shape, PushUnderMtx, Keys, Messages, Nobody
<1>5. QuitTold /\ LeavesOnQuit /\ QuitFirst
  BY <1>1, <1>2 DEF QuitTold, LeavesOnQuit, QuitFirst
<1>6. AbortOnQuit
  BY <1>1 DEF AbortOnQuit, PastLoop
<1> QED
  BY <1>4, <1>5, <1>6 DEF IInv

\* input_thread.
LEMMA InputGood ==
    ASSUME IInv, InputStep \/ ReadZero \/ \E k \in Keys : ReadKey(k)
    PROVE  IInv'
<1> USE DEF IInv
<1>1. UNCHANGED <<main, ev, aborted, computing, failed, serial, msg>>
  BY DEF InputStep, ReadZero, ReadKey, KeyIgnored, KeyAccepted, InputPush, InputLastPush,
         mainVars, serialVars
<1>2. AbortOnQuit' /\ (Taken => Taken')
  BY <1>1 DEF AbortOnQuit, PastLoop, Taken
<1>3. ASSUME NEW k \in Keys, ReadKey(k)
      PROVE  IInv'
  <2>1. (Told => Told') /\ (QuitFirst => QuitFirst')
    BY <1>2, <1>3, QueueKept DEF ReadKey
  <2>2. Shape' /\ PushUnderMtx'
    BY <1>1, <1>3 DEF ReadKey, Shape, PushUnderMtx
  <2> QED
    BY <1>1, <1>2, <1>3, <2>1, <2>2 DEF ReadKey, QuitTold, LeavesOnQuit
<1>8. CASE ReadZero
  <2>1. (Told => Told') /\ (QuitFirst => QuitFirst')
    BY <1>2, <1>8, QueueKept DEF ReadZero
  <2>2. Shape' /\ PushUnderMtx'
    BY <1>1, <1>8 DEF ReadZero, Shape, PushUnderMtx
  <2> QED
    BY <1>1, <1>2, <1>8, <2>1, <2>2 DEF ReadZero, QuitTold, LeavesOnQuit
<1>4. CASE KeyIgnored
  <2>1. (Told => Told') /\ (QuitFirst => QuitFirst')
    BY <1>2, <1>4, QueueKept DEF KeyIgnored
  <2>2. Shape' /\ PushUnderMtx'
    BY <1>1, <1>4 DEF KeyIgnored, AfterKey, Shape, PushUnderMtx, Nobody
  <2> QED
    BY <1>1, <1>2, <1>4, <2>1, <2>2 DEF KeyIgnored, QuitTold, LeavesOnQuit
<1>5. CASE KeyAccepted
  <2>1. (Told => Told') /\ (QuitFirst => QuitFirst')
    BY <1>2, <1>5, QueueKept DEF KeyAccepted
  <2>2. Shape' /\ PushUnderMtx'
    BY <1>1, <1>5 DEF KeyAccepted, HasEvent, Shape, PushUnderMtx, Nobody
  <2> QED
    BY <1>1, <1>2, <1>5, <2>1, <2>2 DEF KeyAccepted, QuitTold, LeavesOnQuit, Shape
<1>6. CASE InputPush
  <2> DEFINE e == EventOf(pending)
  <2>1. e \in Events /\ e # SerialQuit /\ (pending = "quit" => e = KeyQuit)
    BY <1>6, EventsDiffer DEF InputPush, Shape
  <2>2. queue \in Seq(Events) /\ Enqueue(e)
    BY <1>6 DEF InputPush, Shape
  <2> HIDE DEF e
  <2>3. (Told => Told') /\ (e = KeyQuit => Told') /\ (QuitFirst => QuitFirst')
    BY <1>2, <2>1, <2>2, PushKeeps
  <2>4. queue' \in Seq(Events)
    BY <2>1, <2>2, Pushed DEF Enqueue
  <2>5. Shape' /\ PushUnderMtx'
    BY <1>1, <1>6, <2>4 DEF InputPush, AfterKey, Shape, PushUnderMtx, Nobody
  <2> QED
    BY <1>1, <1>2, <1>6, <2>1, <2>3, <2>5 DEF InputPush, QuitTold, LeavesOnQuit
<1>7. CASE InputLastPush
  <2>1. KeyQuit \in Events /\ KeyQuit # SerialQuit /\ queue \in Seq(Events) /\ Enqueue(KeyQuit)
    BY <1>7, EventsDiffer DEF InputLastPush, Shape
  <2>2. Told' /\ (QuitFirst => QuitFirst')
    BY <1>2, <2>1, PushKeeps
  <2>3. queue' \in Seq(Events)
    BY <2>1, Pushed DEF Enqueue
  <2>4. Shape' /\ PushUnderMtx'
    BY <1>1, <1>7, <2>3 DEF InputLastPush, Shape, PushUnderMtx
  <2> QED
    BY <1>1, <1>2, <1>7, <2>2, <2>4 DEF InputLastPush, QuitTold, LeavesOnQuit
<1> QED
  BY <1>3, <1>4, <1>5, <1>6, <1>7, <1>8 DEF InputStep

\* serial_rx_thread.
LEMMA SerialGood ==
    ASSUME IInv,
           \/ SerialStep \/ SerialFail
           \/ \E m \in Messages : SerialMessage(m) \/ SerialFailUnset(m)
    PROVE  IInv'
<1> USE DEF IInv
<1>1. UNCHANGED <<main, ev, aborted, computing, quit, mtx, input, pending>>
  BY DEF SerialStep, SerialFail, SerialMessage, SerialFailUnset, SerialParse, SerialPush,
         SerialCheck, SerialLastPush, SerialQuiet, mainVars, inputVars
<1>2. (Taken => Taken') /\ PushUnderMtx' /\ (AbortOnQuit /\ (failed => failed') => AbortOnQuit')
  BY <1>1 DEF AbortOnQuit, PastLoop, Taken, PushUnderMtx, Shape
<1>3. CASE SerialFail \/ \E m \in Messages : SerialFailUnset(m)
  <2>1. failed' = TRUE /\ Shape'
    BY <1>1, <1>3 DEF SerialFail, SerialFailUnset, Shape
  <2> QED
    BY <1>2, <2>1
<1>4. CASE SerialParse \/ SerialQuiet \/ SerialCheck \/ \E m \in Messages : SerialMessage(m)
  <2>1. UNCHANGED <<queue, failed>>
    BY <1>4 DEF SerialParse, SerialQuiet, SerialCheck, SerialMessage
  <2>2. (Told => Told') /\ (QuitFirst => QuitFirst')
    BY <1>2, <2>1, QueueKept
  <2>3. Shape'
    BY <1>1, <1>4, <2>1 DEF SerialParse, SerialQuiet, SerialCheck, SerialMessage, Shape
  <2>4. ~failed => LeavesOnQuit'
    <3>1. CASE SerialCheck
      <4>1. input # "push"
        BY <3>1 DEF SerialCheck, PushUnderMtx, Nobody
      <4>2. ~failed /\ quit => Told'
        BY <2>2, <4>1 DEF QuitTold
      <4> QED
        BY <1>1, <3>1, <4>2 DEF SerialCheck, LeavesOnQuit
    <3>2. CASE ~SerialCheck
      BY <1>1, <1>4, <3>2 DEF SerialParse, SerialQuiet, SerialMessage, LeavesOnQuit
    <3> QED
      BY <3>1, <3>2
  <2>5. ~failed => QuitTold'
    BY <1>1, <2>2 DEF QuitTold
  <2> QED
    BY <1>2, <2>1, <2>2, <2>3, <2>4, <2>5
<1>5. CASE SerialPush
  <2> DEFINE e == Event("nucleo", msg)
  <2>1. e \in Events /\ e # SerialQuit /\ queue \in Seq(Events) /\ Enqueue(e)
    BY <1>5, EventsDiffer DEF SerialPush, Shape
  <2> HIDE DEF e
  <2>2. (Told => Told') /\ (QuitFirst => QuitFirst') /\ queue' \in Seq(Events)
    BY <1>2, <2>1, PushKeeps, Pushed DEF Enqueue
  <2>3. Shape' /\ UNCHANGED failed /\ serial' = "check"
    BY <1>1, <1>5, <2>2 DEF SerialPush, Shape
  <2> QED
    BY <1>1, <1>2, <2>2, <2>3 DEF QuitTold, LeavesOnQuit
<1>6. CASE SerialLastPush
  <2>1. SerialQuit \in Events /\ queue \in Seq(Events) /\ Enqueue(SerialQuit)
    BY <1>6, EventsDiffer DEF SerialLastPush, Shape
  <2>2. ~failed => quit /\ Told
    BY <1>6 DEF SerialLastPush, LeavesOnQuit
  <2>3. (Told => Told') /\ (~failed /\ QuitFirst => QuitFirst') /\ queue' \in Seq(Events)
    BY <1>2, <2>1, <2>2, PushKeeps, Pushed DEF Enqueue
  <2>4. Shape' /\ UNCHANGED failed
    BY <1>1, <1>6, <2>3 DEF SerialLastPush, Shape
  <2> QED
    BY <1>1, <1>2, <2>2, <2>3, <2>4 DEF QuitTold, LeavesOnQuit
<1> QED
  BY <1>3, <1>4, <1>5, <1>6 DEF SerialStep

\* main.
LEMMA MainGood ==
    ASSUME IInv, MainStep
    PROVE  IInv'
<1> USE DEF IInv
<1>1. UNCHANGED <<quit, input, pending, serial, msg, failed>>
  BY DEF MainStep, MainPop, HandleKey, HandleQuit, HandleMessage, HandleDone,
         MainPushCompute, Cleanup, CleanupEnd, Join, inputVars, serialVars
<1>2. ASSUME queue' \in Seq(Events), mtx' \in {Nobody, "main", "input"}, PushUnderMtx',
             ~failed => (Told => Told') /\ (QuitFirst => QuitFirst') /\ AbortOnQuit'
      PROVE  IInv'
  <2>1. Shape'
    BY <1>1, <1>2 DEF Shape
  <2>2. ~failed => QuitTold' /\ LeavesOnQuit' /\ QuitFirst'
    BY <1>1, <1>2 DEF QuitTold, LeavesOnQuit
  <2>3. failed => AbortOnQuit'
    BY <1>1 DEF AbortOnQuit
  <2> QED
    BY <1>1, <1>2, <2>1, <2>2, <2>3
<1>3. CASE MainPop
  <2>1. /\ Told => Told'
        /\ QuitFirst => QuitFirst'
        /\ QuitFirst => Head(queue) # SerialQuit
        /\ queue' \in Seq(Events)
    BY <1>3, PopKeeps
  <2>2. mtx' \in {Nobody, "main", "input"} /\ PushUnderMtx'
    BY <1>1, <1>3 DEF MainPop, PushUnderMtx, Shape
  <2>3. ~failed => main' = "lock"
    BY <1>3, <2>1 DEF MainPop
  <2> QED
    BY <1>2, <2>1, <2>2, <2>3 DEF AbortOnQuit, PastLoop
<1>4. CASE HandleKey \/ HandleMessage \/ HandleDone
  <2>1. main = "lock" /\ main' \in {"pop", "pushCompute"} /\ UNCHANGED queue
    BY <1>4 DEF HandleKey, HandleMessage, HandleDone
  <2>2. ev # KeyQuit
    BY <1>4, EventsDiffer DEF HandleKey, HandleMessage, HandleDone
  <2>3. ~Taken
    BY <2>1, <2>2 DEF Taken, PastLoop
  <2>4. (Told => Told') /\ (QuitFirst => QuitFirst')
    BY <2>1, <2>3, QueueKept
  <2>5. mtx' \in {Nobody, "main", "input"} /\ PushUnderMtx'
    BY <1>1, <1>4 DEF HandleKey, HandleMessage, HandleDone, PushUnderMtx, Shape, Nobody
  <2>6. AbortOnQuit'
    BY <2>1 DEF AbortOnQuit, PastLoop
  <2> QED
    BY <1>2, <2>1, <2>4, <2>5, <2>6 DEF Shape
<1>5. CASE HandleQuit
  <2>1. PastLoop' /\ UNCHANGED <<queue, mtx, computing>> /\ aborted' = computing
    BY <1>5 DEF HandleQuit, PastLoop
  <2>2. (Told => Told') /\ (QuitFirst => QuitFirst') /\ AbortOnQuit'
    BY <2>1, QueueKept DEF Taken, AbortOnQuit
  <2>3. PushUnderMtx'
    BY <1>1, <1>5 DEF HandleQuit, PushUnderMtx
  <2> QED
    BY <1>2, <2>1, <2>2, <2>3 DEF Shape
<1>6. CASE MainPushCompute
  <2> DEFINE e == Event("kbd", "start")
  <2>1. e \in Events /\ e # SerialQuit /\ queue \in Seq(Events) /\ Enqueue(e)
    BY <1>6, EventsDiffer DEF MainPushCompute, Shape
  <2>2. ~Taken /\ main' = "pop" /\ mtx' = Nobody /\ mtx = "main"
    BY <1>6 DEF MainPushCompute, Taken, PastLoop, PushUnderMtx
  <2> HIDE DEF e
  <2>3. (Told => Told') /\ (QuitFirst => QuitFirst') /\ queue' \in Seq(Events)
    BY <2>1, <2>2, PushKeeps, Pushed DEF Enqueue
  <2>4. PushUnderMtx' /\ AbortOnQuit'
    BY <1>1, <2>2 DEF PushUnderMtx, AbortOnQuit, PastLoop, Nobody
  <2> QED
    BY <1>2, <2>2, <2>3, <2>4
<1>7. CASE Cleanup \/ CleanupEnd \/ Join
  <2>1. PastLoop /\ PastLoop' /\ UNCHANGED <<mtx, computing, aborted>>
    BY <1>7 DEF Cleanup, CleanupEnd, Join, PastLoop
  <2>2. Told' /\ QuitFirst' /\ (~failed => AbortOnQuit')
    BY <1>1, <2>1 DEF Told, QuitFirst, AbortOnQuit
  <2>3. queue' \in Seq(Events)
    BY <1>7, Popped DEF Cleanup, CleanupEnd, Join, Shape
  <2>4. PushUnderMtx'
    BY <1>1, <1>7 DEF Cleanup, CleanupEnd, Join, PushUnderMtx
  <2> QED
    BY <1>2, <2>1, <2>2, <2>3, <2>4 DEF Shape
<1> QED
  BY <1>3, <1>4, <1>5, <1>6, <1>7 DEF MainStep

LEMMA NextGood == IInv /\ [Next]_vars => IInv'
<1> SUFFICES ASSUME IInv, [Next]_vars PROVE IInv'
  OBVIOUS
<1>1. CASE UNCHANGED vars
  BY <1>1 DEF IInv, Shape, PushUnderMtx, QuitTold, LeavesOnQuit, QuitFirst, AbortOnQuit,
              Told, PastLoop, vars
<1>2. CASE Next /\ ~UNCHANGED vars
  BY <1>2, InputGood, SerialGood, MainGood DEF Next, Ended
<1> QED
  BY <1>1, <1>2

-----------------------------------------------------------------------------
\* 'q' stops the board (prgsem-main.c:102-106, 286-354, 412-420), whatever the
\* capacity of the queue and however the three threads interleave.
THEOREM QuitStopsBoard == Spec => []AbortOnQuit
<1>1. IInv => AbortOnQuit
  BY DEF IInv
<1> QED
  BY <1>1, InitGood, NextGood, PTL DEF Spec

-----------------------------------------------------------------------------
(* Nobody leaves unheard.  An EV_QUIT of either thread only leaves the     *)
(* queue into main's hands or when main has left its loop.                 *)

Heard ==
    \/ Taken
    \/ \E k \in 1 .. Len(queue) : queue[k] \in {KeyQuit, SerialQuit}

Delivered == input = "exited" \/ serial = "exited" => Heard

DInv == IInv /\ Delivered

LEMMA DeliveredIsQuitIsDelivered ==
    ASSUME queue \in Seq(Events)
    PROVE  Delivered <=> QuitIsDelivered
<1>1. DOMAIN queue = 1 .. Len(queue)
  BY SMT
<1> QED
  BY <1>1 DEF Delivered, Heard, Taken, QuitIsDelivered

LEMMA HeardWhileKept ==
    ASSUME UNCHANGED queue, Taken => Taken'
    PROVE  Heard => Heard'
BY DEF Heard, Taken

LEMMA HeardWhilePushed ==
    ASSUME queue \in Seq(Events), NEW e \in Events, Enqueue(e), Taken => Taken'
    PROVE  (Heard => Heard') /\ (e \in {KeyQuit, SerialQuit} => Heard')
<1>1. /\ Len(queue') = Len(queue) + 1 /\ Len(queue) \in Nat
      /\ \A k \in 1 .. Len(queue) : queue'[k] = queue[k]
      /\ queue'[Len(queue) + 1] = e
  BY Pushed DEF Enqueue
<1>2. Len(queue) + 1 \in 1 .. Len(queue') /\ \A k \in 1 .. Len(queue) : k \in 1 .. Len(queue')
  BY <1>1, SMT
<1> QED
  BY <1>1, <1>2 DEF Heard

LEMMA HeardWhilePopped ==
    ASSUME Shape, MainPop
    PROVE  Heard => Heard'
<1>1. /\ Len(queue') = Len(queue) - 1 /\ Len(queue) \in Nat \ {0}
      /\ \A k \in 1 .. Len(queue') : queue'[k] = queue[k + 1]
      /\ Head(queue) = queue[1]
  BY Popped DEF MainPop, Shape
<1>2. ~Taken
  BY DEF MainPop, Taken, PastLoop
<1>3. ev' = Head(queue) /\ main' = IF Head(queue) = SerialQuit THEN "cleanup" ELSE "lock"
  BY DEF MainPop
<1>4. ASSUME NEW k \in 1 .. Len(queue), queue[k] \in {KeyQuit, SerialQuit}
      PROVE  Heard'
  <2>1. CASE k = 1
    BY <1>1, <1>3, <1>4, <2>1, EventsDiffer DEF Heard, Taken, PastLoop
  <2>2. CASE k # 1
    <3>1. k - 1 \in 1 .. Len(queue') /\ (k - 1) + 1 = k
      BY <1>1, <2>2, SMT
    <3>2. queue'[k - 1] = queue[(k - 1) + 1]
      BY <1>1, <3>1
    <3> QED
      BY <1>4, <3>1, <3>2 DEF Heard
  <2> QED
    BY <2>1, <2>2
<1> QED
  BY <1>2, <1>4 DEF Heard

LEMMA InputDelivers ==
    ASSUME DInv, InputStep \/ ReadZero \/ \E k \in Keys : ReadKey(k)
    PROVE  Delivered'
<1>1. UNCHANGED <<main, ev, serial>> /\ (Taken => Taken') /\ Shape
  BY DEF InputStep, ReadZero, ReadKey, KeyIgnored, KeyAccepted, InputPush, InputLastPush,
         mainVars, serialVars, Taken, PastLoop, DInv, IInv
<1>2. CASE KeyIgnored \/ KeyAccepted \/ ReadZero \/ \E k \in Keys : ReadKey(k)
  <2>1. UNCHANGED queue /\ input' # "exited"
    BY <1>2 DEF KeyIgnored, KeyAccepted, ReadZero, ReadKey, AfterKey
  <2> QED
    BY <1>1, <2>1, HeardWhileKept DEF DInv, Delivered
<1>3. CASE InputPush
  <2>1. EventOf(pending) \in Events /\ input' # "exited"
    BY <1>1, <1>3, EventsDiffer DEF InputPush, Shape, AfterKey
  <2>2. Heard => Heard'
    BY <1>1, <1>3, <2>1, HeardWhilePushed DEF InputPush, Shape
  <2> QED
    BY <1>1, <2>1, <2>2 DEF DInv, Delivered
<1>4. CASE InputLastPush
  BY <1>1, <1>4, EventsDiffer, HeardWhilePushed DEF InputLastPush, Shape, Delivered
<1> QED
  BY <1>2, <1>3, <1>4 DEF InputStep

LEMMA SerialDelivers ==
    ASSUME DInv,
           \/ SerialStep \/ SerialFail
           \/ \E m \in Messages : SerialMessage(m) \/ SerialFailUnset(m)
    PROVE  Delivered'
<1>1. UNCHANGED <<main, ev, input>> /\ (Taken => Taken') /\ Shape
  BY DEF SerialStep, SerialFail, SerialMessage, SerialFailUnset, SerialParse, SerialPush,
         SerialCheck, SerialLastPush, SerialQuiet, mainVars, inputVars, Taken, PastLoop, DInv, IInv
<1>2. CASE SerialPush
  <2>1. Event("nucleo", msg) \in Events /\ serial' # "exited"
    BY <1>1, <1>2, EventsDiffer DEF SerialPush, Shape
  <2>2. Heard => Heard'
    BY <1>1, <1>2, <2>1, HeardWhilePushed DEF SerialPush, Shape
  <2> QED
    BY <1>1, <2>1, <2>2 DEF DInv, Delivered
<1>3. CASE SerialLastPush
  BY <1>1, <1>3, EventsDiffer, HeardWhilePushed DEF SerialLastPush, Shape, Delivered
<1>4. CASE ~SerialPush /\ ~SerialLastPush
  <2>1. UNCHANGED queue /\ serial' # "exited"
    BY <1>4 DEF SerialStep, SerialFail, SerialMessage, SerialFailUnset, SerialParse, SerialCheck, SerialQuiet
  <2> QED
    BY <1>1, <2>1, HeardWhileKept DEF DInv, Delivered
<1> QED
  BY <1>2, <1>3, <1>4

LEMMA MainDelivers ==
    ASSUME DInv, MainStep
    PROVE  Delivered'
<1>1. UNCHANGED <<input, serial>> /\ Shape
  BY DEF MainStep, MainPop, HandleKey, HandleQuit, HandleMessage, HandleDone,
         MainPushCompute, Cleanup, CleanupEnd, Join, inputVars, serialVars, DInv, IInv
<1>2. (Heard => Heard') => Delivered'
  BY <1>1 DEF DInv, Delivered
<1>3. CASE MainPop
  BY <1>1, <1>2, <1>3, HeardWhilePopped
<1>4. CASE HandleKey \/ HandleMessage \/ HandleDone
  <2>1. UNCHANGED queue /\ ~Taken
    BY <1>4, EventsDiffer DEF HandleKey, HandleMessage, HandleDone, Taken, PastLoop
  <2> QED
    BY <1>2, <2>1, HeardWhileKept
<1>5. CASE MainPushCompute
  <2>1. Event("kbd", "start") \in Events /\ ~Taken
    BY <1>5, EventsDiffer DEF MainPushCompute, Taken, PastLoop
  <2> QED
    BY <1>1, <1>2, <1>5, <2>1, HeardWhilePushed DEF MainPushCompute, Shape
<1>6. CASE HandleQuit \/ Cleanup \/ CleanupEnd \/ Join
  <2>1. Taken'
    BY <1>6 DEF HandleQuit, Cleanup, CleanupEnd, Join, Taken, PastLoop
  <2> QED
    BY <2>1 DEF Delivered, Heard
<1> QED
  BY <1>3, <1>4, <1>5, <1>6 DEF MainStep

LEMMA NextDelivers == DInv /\ [Next]_vars => DInv'
<1> SUFFICES ASSUME DInv, [Next]_vars PROVE DInv'
  OBVIOUS
<1>1. IInv'
  BY NextGood DEF DInv
<1>2. CASE UNCHANGED vars
  BY <1>1, <1>2 DEF DInv, Delivered, Heard, Taken, PastLoop, vars
<1>3. CASE Next /\ ~UNCHANGED vars
  BY <1>1, <1>3, InputDelivers, SerialDelivers, MainDelivers DEF Next, Ended, DInv
<1> QED
  BY <1>2, <1>3

\* main never waits for a thread that has gone without telling it
\* (prgsem-main.c:355-358, 416-420): the EV_QUIT of a thread that has ended is
\* still queued, or main has left its loop.
THEOREM NobodyLeavesUnheard == Spec => []QuitIsDelivered
<1>1. Init => DInv
  <2>1. Init => Delivered
    BY DEF Init, Delivered
  <2> QED
    BY <2>1, InitGood DEF DInv
<1>2. DInv => QuitIsDelivered
  BY DeliveredIsQuitIsDelivered DEF DInv, IInv, Shape
<1> QED
  BY <1>1, <1>2, NextDelivers, PTL DEF Spec

-----------------------------------------------------------------------------
(* The heap.  The messages in the queue are counted by their positions.    *)

MessagesIn(q) == {k \in DOMAIN q : q[k] \in SerialEvents}
Queued(q) == Cardinality(MessagesIn(q))

AtSerial == IF serial \in {"parse", "push"} THEN 1 ELSE 0
AtMain == IF main \in {"lock", "pushCompute"} /\ ev \in SerialEvents THEN 1 ELSE 0

HeapInv ==
    /\ queue \in Seq(Events) /\ live \in Nat /\ msg \in Messages
    /\ main = "pushCompute" => ev \in SerialEvents
    /\ live = Queued(queue) + AtSerial + AtMain

\* The events with a message and those without.
LEMMA WhoHasMessages ==
    /\ \A m \in Messages : Event("nucleo", m) \in SerialEvents /\ Event("nucleo", m) \in Events
    /\ \A k \in Keys : EventOf(k) \notin SerialEvents
    /\ \A e \in KeyEvents : e \notin SerialEvents
    /\ KeyQuit \notin SerialEvents /\ SerialQuit \notin SerialEvents
    /\ Event("kbd", "start") \notin SerialEvents
BY SMT DEF KeyQuit, SerialQuit, Event, Events, KeyEvents, SerialEvents, Messages, Keys, EventOf

\* There are finitely many in a queue.
LEMMA QueuedFinite ==
    ASSUME NEW q \in Seq(Events)
    PROVE  IsFiniteSet(MessagesIn(q)) /\ Queued(q) \in Nat
<1>1. Len(q) \in Nat /\ DOMAIN q = 1 .. Len(q)
  OBVIOUS
<1>2. IsFiniteSet(1 .. Len(q))
  BY <1>1, FS_Interval
<1>3. MessagesIn(q) \in SUBSET (1 .. Len(q))
  BY <1>1 DEF MessagesIn
<1>4. IsFiniteSet(MessagesIn(q))
  BY <1>2, <1>3, FS_Subset
<1> QED
  BY <1>4, FS_CardinalityType DEF Queued

\* A push adds its message, if it has one.
LEMMA QueuedAfterPush ==
    ASSUME NEW q \in Seq(Events), NEW e \in Events
    PROVE  Queued(Append(q, e)) = IF e \in SerialEvents THEN Queued(q) + 1 ELSE Queued(q)
<1> DEFINE n == Len(q) + 1
           r == Append(q, e)
<1>1. Len(q) \in Nat /\ DOMAIN q = 1 .. Len(q) /\ DOMAIN r = 1 .. n
  OBVIOUS
<1>2. r[n] = e /\ \A k \in 1 .. Len(q) : r[k] = q[k]
  OBVIOUS
<1>3. 1 .. n = (1 .. Len(q)) \cup {n} /\ n \notin MessagesIn(q)
  BY <1>1 DEF MessagesIn
<1>4. CASE e \in SerialEvents
  <2>1. MessagesIn(r) = MessagesIn(q) \cup {n}
    <3> HIDE DEF r, n
    <3> QED
      BY <1>1, <1>2, <1>3, <1>4 DEF MessagesIn
  <2> QED
    BY <1>3, <1>4, <2>1, QueuedFinite, FS_AddElement DEF Queued
<1>5. CASE e \notin SerialEvents
  <2>1. MessagesIn(r) = MessagesIn(q)
    <3> HIDE DEF r, n
    <3> QED
      BY <1>1, <1>2, <1>3, <1>5 DEF MessagesIn
  <2> QED
    BY <1>5, <2>1 DEF Queued
<1> QED
  BY <1>4, <1>5

\* A pop takes its message, if it has one: the positions of the others move
\* down by one, one to one.
LEMMA QueuedAfterPop ==
    ASSUME NEW q \in Seq(Events), q # <<>>
    PROVE  Queued(q) = IF Head(q) \in SerialEvents THEN Queued(Tail(q)) + 1 ELSE Queued(Tail(q))
<1> DEFINE T == MessagesIn(Tail(q))
           R == MessagesIn(q) \ {1}
           up == [k \in T |-> k + 1]
           down == [k \in R |-> k - 1]
<1>1. /\ Tail(q) \in Seq(Events) /\ Len(Tail(q)) = Len(q) - 1 /\ Len(q) \in Nat \ {0}
      /\ \A k \in 1 .. Len(Tail(q)) : Tail(q)[k] = q[k + 1]
      /\ Head(q) = q[1]
  BY Popped
<1>2. DOMAIN q = 1 .. Len(q) /\ DOMAIN Tail(q) = 1 .. Len(q) - 1
  BY <1>1
<1>3. \A k \in T : k \in Nat /\ k + 1 \in R
  <2> SUFFICES ASSUME NEW k \in T PROVE k \in Nat /\ k + 1 \in R
    OBVIOUS
  <2>1. k \in 1 .. Len(q) - 1 /\ q[k + 1] \in SerialEvents
    BY <1>1, <1>2 DEF MessagesIn
  <2>2. k + 1 \in DOMAIN q /\ k + 1 # 1
    BY <2>1, <1>1, <1>2
  <2> QED
    BY <2>1, <2>2 DEF MessagesIn
<1>4. \A k \in R : k \in Nat /\ k - 1 \in T
  <2> SUFFICES ASSUME NEW k \in R PROVE k \in Nat /\ k - 1 \in T
    OBVIOUS
  <2>1. k \in 2 .. Len(q) /\ q[k] \in SerialEvents
    BY <1>1, <1>2 DEF MessagesIn
  <2>2. k - 1 \in 1 .. Len(Tail(q)) /\ (k - 1) + 1 = k
    BY <1>1, <2>1
  <2>3. Tail(q)[k - 1] = q[k]
    BY <1>1, <2>2
  <2> QED
    BY <1>1, <1>2, <2>1, <2>2, <2>3 DEF MessagesIn
<1>5. up \in Injection(T, R) /\ down \in Injection(R, T)
  BY <1>3, <1>4 DEF Injection, IsInjective
<1>6. IsFiniteSet(T) /\ Cardinality(T) \in Nat
  BY <1>1, QueuedFinite DEF Queued
<1>7. IsFiniteSet(MessagesIn(q)) /\ Cardinality(MessagesIn(q)) \in Nat
  BY QueuedFinite DEF Queued
<1>8. /\ IsFiniteSet(R)
      /\ Cardinality(R) = IF 1 \in MessagesIn(q) THEN Cardinality(MessagesIn(q)) - 1 ELSE Cardinality(MessagesIn(q))
  BY <1>7, FS_RemoveElement
<1>9. Cardinality(T) <= Cardinality(R) /\ Cardinality(R) <= Cardinality(T)
  <2> HIDE DEF T, R, up, down
  <2> QED
    BY <1>5, <1>6, <1>8, FS_Injection
<1>10. 1 \in MessagesIn(q) <=> Head(q) \in SerialEvents
  BY <1>1, <1>2 DEF MessagesIn
<1> QED
  BY <1>6, <1>7, <1>8, <1>9, <1>10 DEF Queued

\* Nothing is allocated.
LEMMA HeapInit == Init => HeapInv
<1> SUFFICES ASSUME Init PROVE HeapInv
  OBVIOUS
<1>1. MessagesIn(<<>>) = {}
  BY DEF MessagesIn
<1>2. Queued(queue) = 0 /\ queue \in Seq(Events)
  BY <1>1, FS_EmptySet DEF Queued, Init
<1> QED
  BY <1>2 DEF Init, HeapInv, AtSerial, AtMain, Messages

\* The keyboard pushes events without a message.
LEMMA InputHeap == ASSUME HeapInv, InputStep \/ ReadZero \/ (\E k \in Keys : ReadKey(k)), pending \in Keys,
                          input = "push" => pending # "other"
                   PROVE  HeapInv'
<1> USE DEF serialVars, mainVars
<1>1. CASE KeyIgnored \/ KeyAccepted \/ ReadZero \/ \E k \in Keys : ReadKey(k)
  <2>1. UNCHANGED <<queue, live, msg, main, ev, serial>>
    BY <1>1 DEF KeyIgnored, KeyAccepted, ReadZero, ReadKey
  <2> QED
    BY <2>1 DEF HeapInv, Queued, MessagesIn, AtSerial, AtMain
<1>2. ASSUME NEW e \in Events, e \notin SerialEvents, queue' = Append(queue, e),
             UNCHANGED <<live, msg, main, ev, serial>>
      PROVE  HeapInv'
  <2>1. Queued(queue') = Queued(queue) /\ queue' \in Seq(Events)
    BY <1>2, QueuedAfterPush DEF HeapInv
  <2> QED
    BY <1>2, <2>1 DEF HeapInv, AtSerial, AtMain
<1>3. CASE InputPush
  <2>1. EventOf(pending) \in Events /\ EventOf(pending) \notin SerialEvents
    BY <1>3, WhoHasMessages, EventsDiffer DEF InputPush
  <2> QED
    BY <1>2, <1>3, <2>1 DEF InputPush, Enqueue
<1>4. CASE InputLastPush
  BY <1>2, <1>4, WhoHasMessages, EventsDiffer DEF InputLastPush, Enqueue
<1> QED
  BY <1>1, <1>3, <1>4 DEF InputStep

\* The serial thread allocates a message and hands it to the queue.
LEMMA SerialHeap == ASSUME HeapInv, SerialStep \/ SerialFail
                                    \/ \E m \in Messages : SerialMessage(m) \/ SerialFailUnset(m)
                    PROVE  HeapInv'
<1> USE DEF inputVars, mainVars
<1>1. Queued(queue) \in Nat
  BY QueuedFinite DEF HeapInv
<1>2. CASE SerialParse \/ SerialQuiet \/ SerialFail \/ SerialCheck
  <2>1. UNCHANGED <<queue, live, msg, main, ev>>
    BY <1>2 DEF SerialParse, SerialQuiet, SerialFail, SerialCheck
  <2>2. AtSerial' = AtSerial
    BY <1>2 DEF SerialParse, SerialQuiet, SerialFail, SerialCheck, AtSerial
  <2> QED
    BY <2>1, <2>2 DEF HeapInv, Queued, MessagesIn, AtMain
<1>3. ASSUME NEW m \in Messages, SerialMessage(m) \/ SerialFailUnset(m) PROVE HeapInv'
  <2>1. UNCHANGED <<queue, main, ev>> /\ msg' = m /\ live' = live + 1
    BY <1>3 DEF SerialMessage, SerialFailUnset
  <2>2. AtSerial = 0 /\ AtSerial' = 1
    BY <1>3 DEF SerialMessage, SerialFailUnset, AtSerial
  <2>3. Queued(queue') = Queued(queue) /\ AtMain' = AtMain /\ AtMain \in 0 .. 1
    BY <2>1 DEF Queued, MessagesIn, AtMain
  <2> QED
    BY <1>1, <2>1, <2>2, <2>3 DEF HeapInv
<1>4. CASE SerialPush
  <2>1. UNCHANGED <<live, msg, main, ev>> /\ queue' = Append(queue, Event("nucleo", msg))
    BY <1>4 DEF SerialPush, Enqueue
  <2>2. Event("nucleo", msg) \in SerialEvents /\ Event("nucleo", msg) \in Events
    BY WhoHasMessages DEF HeapInv
  <2>3. Queued(queue') = Queued(queue) + 1 /\ queue' \in Seq(Events)
    BY <2>1, <2>2, QueuedAfterPush DEF HeapInv
  <2>4. AtSerial = 1 /\ AtSerial' = 0 /\ AtMain' = AtMain /\ AtMain \in 0 .. 1
    BY <1>4, <2>1 DEF SerialPush, AtSerial, AtMain
  <2> QED
    BY <1>1, <2>1, <2>3, <2>4 DEF HeapInv
<1>5. CASE SerialLastPush
  <2>1. UNCHANGED <<live, msg, main, ev>> /\ queue' = Append(queue, SerialQuit)
    BY <1>5 DEF SerialLastPush, Enqueue
  <2>2. Queued(queue') = Queued(queue) /\ queue' \in Seq(Events)
    BY <2>1, WhoHasMessages, EventsDiffer, QueuedAfterPush DEF HeapInv
  <2>3. AtSerial' = AtSerial /\ AtMain' = AtMain
    BY <1>5, <2>1 DEF SerialLastPush, AtSerial, AtMain
  <2> QED
    BY <2>1, <2>2, <2>3 DEF HeapInv
<1> QED
  BY <1>2, <1>3, <1>4, <1>5 DEF SerialStep

\* main takes a message out of the queue and frees it once, also when it puts
\* an EV_COMPUTE in its place, and queue_cleanup frees those left behind.
LEMMA MainHeap == ASSUME HeapInv, MainStep PROVE HeapInv'
<1> USE DEF inputVars, serialVars
<1>1. Queued(queue) \in Nat
  BY QueuedFinite DEF HeapInv
<1>2. AtSerial' = AtSerial /\ AtSerial \in 0 .. 1 /\ msg' = msg
  <2>1. UNCHANGED serialVars
    BY DEF MainStep, MainPop, HandleKey, HandleQuit, HandleMessage, HandleDone, MainPushCompute,
           Cleanup, CleanupEnd, Join
  <2>2. UNCHANGED <<serial, msg>>
    BY <2>1
  <2> QED
    BY <2>2 DEF AtSerial
<1>3. ASSUME queue # <<>>, queue' = Tail(queue)
      PROVE  /\ queue' \in Seq(Events) /\ Queued(queue') \in Nat
             /\ Queued(queue) = IF Head(queue) \in SerialEvents THEN Queued(queue') + 1 ELSE Queued(queue')
  <2>1. queue' \in Seq(Events)
    BY <1>3, Popped DEF HeapInv
  <2> QED
    BY <1>3, <2>1, QueuedAfterPop, QueuedFinite DEF HeapInv
<1>4. CASE MainPop
  <2>1. main = "pop" /\ ev' = Head(queue) /\ live' = live
        /\ main' = IF Head(queue) = SerialQuit THEN "cleanup" ELSE "lock"
    BY <1>4 DEF MainPop
  <2>2. AtMain = 0 /\ AtMain' = IF Head(queue) \in SerialEvents THEN 1 ELSE 0
    BY <2>1, WhoHasMessages DEF AtMain
  <2> QED
    BY <1>1, <1>2, <1>3, <1>4, <2>1, <2>2 DEF MainPop, HeapInv
<1>5. CASE HandleKey \/ HandleQuit
  <2>1. UNCHANGED <<queue, live, ev>> /\ main = "lock" /\ main' # "pushCompute" /\ main' # "lock"
    BY <1>5 DEF HandleKey, HandleQuit
  <2>2. ev \notin SerialEvents
    BY <1>5, WhoHasMessages DEF HandleKey, HandleQuit
  <2>3. AtMain = 0 /\ AtMain' = 0 /\ Queued(queue') = Queued(queue)
    BY <2>1, <2>2 DEF AtMain, Queued, MessagesIn
  <2> QED
    BY <1>1, <1>2, <2>1, <2>3 DEF HeapInv
<1>6. CASE HandleMessage
  <2>1. AtMain = 1 /\ AtMain' = 0 /\ live' = live - 1 /\ queue' = queue /\ main' = "pop"
    BY <1>6 DEF HandleMessage, AtMain
  <2>2. Queued(queue') = Queued(queue)
    BY <2>1 DEF Queued, MessagesIn
  <2> QED
    BY <1>1, <1>2, <2>1, <2>2 DEF HeapInv
<1>7. CASE HandleDone
  <2>1. UNCHANGED <<queue, live, ev>> /\ main = "lock" /\ main' = "pushCompute" /\ ev \in SerialEvents
    BY <1>7, WhoHasMessages DEF HandleDone, Messages
  <2>2. AtMain = 1 /\ AtMain' = 1 /\ Queued(queue') = Queued(queue)
    BY <2>1 DEF AtMain, Queued, MessagesIn
  <2> QED
    BY <1>1, <1>2, <2>1, <2>2 DEF HeapInv
<1>8. CASE MainPushCompute
  <2>1. /\ queue' = Append(queue, Event("kbd", "start")) /\ live' = live - 1
        /\ main = "pushCompute" /\ main' = "pop"
    BY <1>8 DEF MainPushCompute, Enqueue
  <2>2. AtMain = 1 /\ AtMain' = 0
    BY <2>1 DEF AtMain, HeapInv
  <2>3. Queued(queue') = Queued(queue) /\ queue' \in Seq(Events)
    BY <2>1, WhoHasMessages, EventsDiffer, QueuedAfterPush DEF HeapInv
  <2> QED
    BY <1>1, <1>2, <2>1, <2>2, <2>3 DEF HeapInv
<1>9. CASE Cleanup
  <2>1. main = "cleanup" /\ main' = main /\ queue # <<>> /\ queue' = Tail(queue)
        /\ live' = IF Head(queue) \in SerialEvents THEN live - 1 ELSE live
    BY <1>9 DEF Cleanup
  <2>2. AtMain = 0 /\ AtMain' = 0
    BY <2>1 DEF AtMain
  <2> QED
    BY <1>1, <1>2, <1>3, <2>1, <2>2 DEF HeapInv
<1>10. CASE CleanupEnd \/ Join
  <2>1. UNCHANGED <<queue, live, ev>> /\ main \notin {"lock", "pushCompute"} /\ main' \notin {"lock", "pushCompute"}
    BY <1>10 DEF CleanupEnd, Join
  <2>2. AtMain = 0 /\ AtMain' = 0 /\ Queued(queue') = Queued(queue)
    BY <2>1 DEF AtMain, Queued, MessagesIn
  <2> QED
    BY <1>1, <1>2, <2>1, <2>2 DEF HeapInv
<1> QED
  BY <1>4, <1>5, <1>6, <1>7, <1>8, <1>9, <1>10 DEF MainStep

LEMMA NextHeap == IInv /\ HeapInv /\ [Next]_vars => HeapInv'
<1> SUFFICES ASSUME IInv, HeapInv, [Next]_vars PROVE HeapInv'
  OBVIOUS
<1>1. pending \in Keys /\ (input = "push" => pending # "other")
  BY DEF IInv, Shape
<1>2. CASE UNCHANGED vars
  BY <1>2 DEF vars, HeapInv, Queued, MessagesIn, AtSerial, AtMain
<1>3. CASE Next /\ ~UNCHANGED vars
  BY <1>1, <1>3, InputHeap, SerialHeap, MainHeap DEF Next, Ended
<1> QED
  BY <1>2, <1>3

\* Each message the serial thread allocates is freed exactly once, by main or
\* by queue_cleanup, or is still held by one of them or by the queue
\* (prgsem-main.c:188, 259-264, 400), for every capacity of the queue.
THEOREM MessagesFreedOnce == Spec => []HeapExact
<1>1. HeapInv => HeapExact
  BY DEF HeapInv, HeapExact, Queued, MessagesIn, AtSerial, AtMain
<1> QED
  BY <1>1, InitGood, NextGood, HeapInit, NextHeap, PTL DEF Spec

-----------------------------------------------------------------------------
(* The sizes of the image.                                                 *)

Fields == {"w", "h", "chunk_n_re", "chunk_n_im", "nbr_chunks", "grid", "gui_w", "gui_h", "img", "win", "ended"}

IsImage(s) ==
    /\ s = [f \in Fields |-> s[f]]
    /\ s.w \in Int /\ s.h \in Int /\ s.ended \in BOOLEAN

\* What the program has set up when it goes on with image s.
Agreeing(s) ==
    /\ s.gui_w = s.w /\ s.gui_h = s.h /\ s.win = <<s.w, s.h>>
    /\ s.grid = s.w * s.h /\ s.img = 3 * s.w * s.h

ImageInv ==
    /\ IsImage(im)
    /\ im.ended \/ Agreeing(im)
    /\ sizeChange \in Int /\ cChange \in Int
    /\ NothingCarriedOver

-----------------------------------------------------------------------------
(* the four files, one after the other *)

\* A pixel has three bytes.
LEMMA ThreeBytes == ASSUME NEW a \in Int, NEW b \in Int PROVE 3 * a * b = 3 * (a * b)
OBVIOUS

\* A window has a size.
LEMMA WindowIsOne == ASSUME NEW a, NEW b PROVE <<a, b>> # NoWindow
BY DEF NoWindow

\* computation_init makes a grid of the size it is given, or ends the program.
LEMMA GridMade ==
    ASSUME NEW s, IsImage(s), NEW t, t = ComputationInit(s)
    PROVE  IsImage(t) /\ (t.ended \/ t.grid = t.w * t.h)
<1> DEFINE re == Byte(Quotient(s.w, DivideConstant))
           n_im == Byte(Quotient(s.h, DivideConstant))
           stops == s.w * s.h <= 0 \/ re * n_im = 0
<1>1. CASE stops
  <2>1. t = [s EXCEPT !.ended = TRUE]
    BY <1>1 DEF ComputationInit
  <2> QED
    BY <2>1 DEF IsImage, Fields
<1>2. CASE ~stops
  <2> DEFINE n == (s.w * s.h) \div (re * n_im)
  <2>1. t = [s EXCEPT !.grid = s.w * s.h, !.chunk_n_re = re, !.chunk_n_im = n_im, !.nbr_chunks = n]
    BY <1>2 DEF ComputationInit
  <2> HIDE DEF re, n_im, n, stops
  <2> QED
    BY <2>1 DEF IsImage, Fields
<1> QED
  BY <1>1, <1>2

\* gui_init makes a picture and a window of the size of the grid.
LEMMA PictureMade ==
    ASSUME NEW s, IsImage(s), s.ended \/ s.grid = s.w * s.h, NEW t, t = GuiInit(s)
    PROVE  IsImage(t) /\ (t.ended \/ Agreeing(t))
<1>1. CASE s.ended \/ s.win # NoWindow
  <2>1. t = [s EXCEPT !.ended = TRUE]
    BY <1>1 DEF GuiInit
  <2> QED
    BY <2>1 DEF IsImage, Fields
<1>2. CASE ~(s.ended \/ s.win # NoWindow)
  <2> DEFINE n == 3 * s.w * s.h
  <2>1. t = [s EXCEPT !.gui_w = s.w, !.gui_h = s.h, !.img = n, !.win = <<s.w, s.h>>]
    BY <1>2 DEF GuiInit
  <2>2. t.img = n /\ t.w = s.w /\ t.h = s.h
    <3> HIDE DEF n
    <3> QED
      BY <2>1 DEF IsImage, Fields
  <2>3. IsImage(t) /\ t.gui_w = s.w /\ t.gui_h = s.h /\ t.win = <<s.w, s.h>> /\ t.grid = s.grid
    <3> HIDE DEF n
    <3> QED
      BY <2>1 DEF IsImage, Fields
  <2> QED
    BY <1>2, <2>2, <2>3 DEF Agreeing
<1> QED
  BY <1>1, <1>2

\* gui_cleanup closes the window and forgets the picture.
LEMMA PictureGone ==
    ASSUME NEW s, IsImage(s)
    PROVE  IsImage(GuiCleanup(s))
<1>1. CASE s.win = NoWindow
  <2>1. GuiCleanup(s) = [s EXCEPT !.ended = TRUE]
    BY <1>1 DEF GuiCleanup
  <2> QED
    BY <2>1 DEF IsImage, Fields
<1>2. CASE s.win # NoWindow
  <2>1. GuiCleanup(s) = [s EXCEPT !.img = 0, !.win = NoWindow]
    BY <1>2 DEF GuiCleanup
  <2> QED
    BY <2>1 DEF IsImage, Fields
<1> QED
  BY <1>1, <1>2

\* change_image_size leaves the four in agreement, whatever they were before.
LEMMA SizeChanged ==
    ASSUME NEW s, IsImage(s), NEW t, t = ChangedImageSize(s)
    PROVE  IsImage(t) /\ (t.ended \/ Agreeing(t))
<1> DEFINE a == GuiCleanup(s)
           b == ComputationCleanup(a)
           c == ComputationInit(b)
<1>1. IsImage(a)
  BY PictureGone
<1>2. IsImage(b)
  <2> HIDE DEF a
  <2> QED
    BY <1>1 DEF ComputationCleanup, IsImage, Fields
<1>3. IsImage(c) /\ (c.ended \/ c.grid = c.w * c.h)
  <2> HIDE DEF b
  <2> QED
    BY <1>2, GridMade
<1> HIDE DEF c
<1>4. t = GuiInit(c)
  BY DEF ChangedImageSize, c
<1> QED
  BY <1>3, <1>4, PictureMade

-----------------------------------------------------------------------------
(* the invariant *)

\* main sets the sizes up in the same way.
LEMMA ImageInvInit == ImageInit => ImageInv
<1> SUFFICES ASSUME ImageInit PROVE ImageInv
  OBVIOUS
<1> DEFINE s == [w |-> InitialWidth, h |-> InitialHeight, chunk_n_re |-> 0, chunk_n_im |-> 0, nbr_chunks |-> 0,
                 grid |-> 0, gui_w |-> 0, gui_h |-> 0, img |-> 0, win |-> NoWindow, ended |-> FALSE]
           t == ComputationInit(s)
<1>1. IsImage(s)
  <2>1. InitialWidth \in Int /\ InitialHeight \in Int
    BY ImageAssumption
  <2> QED
    BY <2>1 DEF IsImage, Fields
<1>2. im = GuiInit(t)
  BY DEF ImageInit
<1> HIDE DEF s
<1>3. IsImage(t) /\ (t.ended \/ t.grid = t.w * t.h)
  BY <1>1, GridMade
<1> HIDE DEF t
<1>4. IsImage(im) /\ (im.ended \/ Agreeing(im))
  BY <1>2, <1>3, PictureMade
<1> QED
  BY <1>4 DEF ImageInv, ImageInit, NothingCarriedOver

\* The sizes change by what was counted, and the count starts again.
LEMMA ChangeDoneKeepsInv == ASSUME ImageInv, ChangeDone PROVE ImageInv'
<1>1. sizeChange' \in Int /\ cChange' \in Int
  BY DEF ImageInv, ChangeDone
<1>2. NothingCarriedOver'
  BY DEF ImageInv, ChangeDone, NothingCarriedOver
<1>3. IsImage(im') /\ (im'.ended \/ Agreeing(im'))
  <2>1. CASE ~resizing
    <3>1. im' = im
      BY <2>1 DEF ChangeDone
    <3> QED
      BY <3>1 DEF ImageInv
  <2>2. CASE resizing
    <3> DEFINE s == LoadSize(im, sizeChange)
    <3>1. IsImage(s)
      <4> DEFINE a == im.w + sizeChange
                 b == im.h + sizeChange
      <4>1. a \in Int /\ b \in Int
        BY DEF ImageInv, IsImage
      <4>2. s = [im EXCEPT !.w = a, !.h = b]
        BY DEF LoadSize
      <4> HIDE DEF s, a, b
      <4> QED
        BY <4>1, <4>2 DEF ImageInv, IsImage, Fields
    <3>2. im' = ChangedImageSize(s)
      BY <2>2 DEF ChangeDone
    <3> HIDE DEF s
    <3> QED
      BY <3>1, <3>2, SizeChanged
  <2> QED
    BY <2>1, <2>2
<1> QED
  BY <1>1, <1>2, <1>3 DEF ImageInv

\* Each event of main.
LEMMA ImageInvNext == ImageInv /\ [ImageNext]_imageVars => ImageInv'
<1> SUFFICES ASSUME ImageInv, [ImageNext]_imageVars PROVE ImageInv'
  OBVIOUS
<1>1. CASE ChooseSize \/ ChooseC
  BY <1>1 DEF ChooseSize, ChooseC, ImageInv, NothingCarriedOver
<1>2. CASE ChangeDone
  BY <1>2, ChangeDoneKeepsInv
<1>3. CASE Refresh
  <2> DEFINE stops == im.ended \/ <<im.gui_w, im.gui_h>> # <<im.w, im.h>>
  <2>1. im' = [im EXCEPT !.ended = stops]
    BY <1>3 DEF Refresh
  <2>2. stops \in BOOLEAN /\ (im.ended => stops)
    BY DEF ImageInv, IsImage
  <2> HIDE DEF stops
  <2>3. IsImage(im') /\ (im'.ended \/ Agreeing(im'))
    BY <2>1, <2>2 DEF ImageInv, IsImage, Agreeing, Fields
  <2> QED
    BY <1>3, <2>3 DEF Refresh, ImageInv, NothingCarriedOver
<1>4. ASSUME NEW sign \in {-1, 1}, ChangeValues(sign) PROVE ImageInv'
  <2>1. im' = im /\ resizing' = resizing /\ changingC' = changingC
    BY <1>4 DEF ChangeValues
  <2>2. sizeChange' \in Int /\ cChange' \in Int
    <3>1. PixelChange \in Int
      BY ImageAssumption
    <3> QED
      BY <1>4, <3>1 DEF ChangeValues, Changed, ImageInv
  <2>3. NothingCarriedOver'
    BY <1>4, <2>1 DEF ChangeValues, NothingCarriedOver, ImageInv
  <2> QED
    BY <2>1, <2>2, <2>3 DEF ImageInv
<1>5. CASE UNCHANGED imageVars
  BY <1>5 DEF imageVars, ImageInv, NothingCarriedOver
<1> QED
  BY <1>1, <1>2, <1>3, <1>4, <1>5 DEF ImageNext

\* The sizes of the four files of SEM agree whenever an event is handled, for
\* any size, step and number of changes.
THEOREM SizesAlwaysAgree == ImageSpec => []SizesAgree
<1>1. ImageInv => SizesAgree
  <2> SUFFICES ASSUME ImageInv, ~im.ended PROVE SizesAgree
    BY DEF SizesAgree
  <2>1. Agreeing(im) /\ im.w \in Int /\ im.h \in Int
    BY DEF ImageInv, IsImage
  <2> QED
    BY <2>1, ThreeBytes DEF Agreeing, SizesAgree
<1> QED
  BY <1>1, ImageInvInit, ImageInvNext, PTL DEF ImageSpec

\* A change of the size or of c that was applied is not applied again by the
\* next one.
THEOREM NeverCarriedOver == ImageSpec => []NothingCarriedOver
<1>1. ImageInv => NothingCarriedOver
  BY DEF ImageInv
<1> QED
  BY <1>1, ImageInvInit, ImageInvNext, PTL DEF ImageSpec

-----------------------------------------------------------------------------
(* The chunks.                                                             *)

\* A quotient, bounded by what divides.
LEMMA QuotientIs ==
    ASSUME NEW x \in Nat, NEW e \in Nat \ {0}, NEW k \in Nat
    PROVE  /\ x \div e \in Nat
           /\ k * e <= x => k <= x \div e
           /\ x = k * e => x \div e = k
<1> DEFINE q == x \div e
           r == x % e
<1>1. q \in Nat /\ r \in 0 .. e - 1 /\ x = q * e + r
  BY SMT
<1> HIDE DEF q, r
<1>2. k * e \in Nat /\ q * e \in Nat
  BY <1>1, SMT
<1>3. ASSUME k * e <= x PROVE k <= q
  <2> SUFFICES ASSUME q + 1 <= k PROVE FALSE
    BY <1>1
  <2>1. PICK d \in Nat : k = q + 1 + d
    <3>1. k - (q + 1) \in Nat
      BY <1>1
    <3> QED BY <3>1, <1>1
  <2>2. k * e = q * e + e + d * e /\ d * e \in Nat
    BY <2>1, <1>1, SMT
  <2> QED BY <2>2, <1>1, <1>2, <1>3
<1>4. ASSUME x = k * e PROVE q <= k
  <2> SUFFICES ASSUME k + 1 <= q PROVE FALSE
    BY <1>1
  <2>1. PICK d \in Nat : q = k + 1 + d
    <3>1. q - (k + 1) \in Nat
      BY <1>1
    <3> QED BY <3>1, <1>1
  <2>2. q * e = k * e + e + d * e /\ d * e \in Nat
    BY <2>1, <1>1, SMT
  <2> QED BY <2>2, <1>1, <1>2, <1>4
<1> QED BY <1>1, <1>2, <1>3, <1>4 DEF q

\* Products of natural numbers, in the order they are needed.
LEMMA ProductLaws ==
    ASSUME NEW a \in Int, NEW b \in Int, NEW c \in Int
    PROVE  /\ a * b \in Int /\ a * b = b * a /\ a * (b * c) = (a * b) * c /\ a * (b + c) = a * b + a * c
           /\ a > 0 /\ b > 0 => a * b > 0
           /\ a > 0 /\ b <= 0 => a * b <= 0
           /\ a >= 0 /\ b <= c => a * b <= a * c
BY SMT

Times(n) == \E a \in Int : n = DivideConstant * a

\* Sizes that can be cut into chunks, of an image that is not higher than wide.
Cuttable(s) == Times(s.w) /\ Times(s.h) /\ s.h <= s.w /\ s.w >= 1

\* ChunksTile, of an image s.
Tiles(s) ==
    IF s.w < 256 * DivideConstant
    THEN /\ s.ended <=> s.h <= 0
         /\ ~s.ended => /\ s.chunk_n_re * DivideConstant = s.w
                        /\ s.chunk_n_im * DivideConstant = s.h
                        /\ s.nbr_chunks = DivideConstant * DivideConstant
    ELSE s.w < 256 * (DivideConstant + 1) => s.ended \/ s.nbr_chunks > DivideConstant * DivideConstant

\* What computation_init divides.
LEMMA ByteOfQuotient ==
    ASSUME NEW a \in Nat
    PROVE  /\ Byte(Quotient(DivideConstant * a, DivideConstant)) = a % 256
           /\ a < 256 => a % 256 = a
           /\ a % 256 \in Nat /\ a % 256 <= a
           /\ a >= 256 /\ a < 512 => a % 256 = a - 256
<1> USE ImageAssumption
<1>1. DivideConstant * a \in Nat /\ DivideConstant * a = a * DivideConstant
  BY SMT
<1>2. (DivideConstant * a) \div DivideConstant = a
  <2> DEFINE x == DivideConstant * a
  <2>1. x \in Nat /\ x = a * DivideConstant
    BY <1>1
  <2> HIDE DEF x
  <2>2. x \div DivideConstant = a
    BY <2>1, QuotientIs
  <2> QED BY <2>2 DEF x
<1>3. Quotient(DivideConstant * a, DivideConstant) = a
  BY <1>1, <1>2 DEF Quotient
<1>4. /\ a < 256 => a % 256 = a
      /\ a % 256 \in Nat /\ a % 256 <= a
      /\ a >= 256 /\ a < 512 => a % 256 = a - 256
  BY SMT
<1> QED BY <1>3, <1>4 DEF Byte

\* computation_init, for such sizes.
LEMMA ChunksMade ==
    ASSUME NEW s, IsImage(s), ~s.ended, Cuttable(s), NEW t, t = ComputationInit(s)
    PROVE  t.w = s.w /\ t.h = s.h /\ t.win = s.win /\ Tiles(t)
<1> USE ImageAssumption
<1> DEFINE D == DivideConstant
           re == Byte(Quotient(s.w, D))
           n_im == Byte(Quotient(s.h, D))
           area == s.w * s.h
           n == area \div (re * n_im)
           stops == area <= 0 \/ re * n_im = 0
<1>0. D \in Nat /\ D >= 1
  OBVIOUS
<1>1. PICK a \in Int, b \in Int : s.w = D * a /\ s.h = D * b
  BY DEF Cuttable, Times
<1> HIDE DEF D
<1>2. a \in Nat /\ a >= 1 /\ b <= a
  <2>1. D * a >= 1 /\ D * b <= D * a
    BY <1>1 DEF Cuttable, D
  <2>2. ~(a <= 0)
    BY <1>0, <2>1, ProductLaws
  <2>3. ~(a + 1 <= b)
    <3> SUFFICES ASSUME a + 1 <= b PROVE FALSE
      OBVIOUS
    <3>1. D * (a + 1) <= D * b /\ D * (a + 1) = D * a + D * 1
      BY <1>0, ProductLaws
    <3> QED BY <1>0, <2>1, <3>1
  <2> QED BY <2>2, <2>3
<1>3. /\ re = a % 256 /\ (a < 256 => re = a) /\ re \in Nat
      /\ (a >= 256 /\ a < 512 => re = a - 256)
  <2>1. /\ Byte(Quotient(DivideConstant * a, DivideConstant)) = a % 256
        /\ a < 256 => a % 256 = a
        /\ a % 256 \in Nat
        /\ a >= 256 /\ a < 512 => a % 256 = a - 256
    BY <1>2, ByteOfQuotient
  <2>2. s.w = DivideConstant * a
    BY <1>1 DEF D
  <2> QED BY <2>1, <2>2 DEF D
<1>4. b > 0 => n_im = b % 256 /\ (b < 256 => n_im = b) /\ n_im \in Nat /\ n_im <= b
  BY <1>1, ByteOfQuotient DEF D
<1>5. /\ t.w = s.w /\ t.h = s.h /\ t.win = s.win
      /\ stops => t.ended
      /\ ~stops => ~t.ended /\ t.chunk_n_re = re /\ t.chunk_n_im = n_im /\ t.nbr_chunks = n
  <2>1. CASE stops
    <3>1. t = [s EXCEPT !.ended = TRUE]
      BY <2>1 DEF ComputationInit, D
    <3> HIDE DEF stops
    <3> QED BY <2>1, <3>1 DEF IsImage, Fields
  <2>2. CASE ~stops
    <3>1. t = [s EXCEPT !.grid = area, !.chunk_n_re = re, !.chunk_n_im = n_im, !.nbr_chunks = n]
      BY <2>2 DEF ComputationInit, D
    <3> HIDE DEF stops, area, re, n_im, n
    <3> QED BY <2>2, <3>1 DEF IsImage, Fields
  <2> QED BY <2>1, <2>2
<1>6. s.w \in Int /\ s.h \in Int /\ area \in Int
  BY <1>1, <1>0, <1>2, ProductLaws DEF IsImage
<1>7. (b <= 0 => s.h <= 0 /\ area <= 0) /\ (b > 0 => s.h > 0 /\ area > 0)
  <2>1. D * a > 0
    BY <1>0, <1>2, ProductLaws
  <2>2. (b <= 0 => D * b <= 0) /\ (b > 0 => D * b > 0)
    BY <1>0, ProductLaws
  <2>3. (s.h <= 0 => s.w * s.h <= 0) /\ (s.h > 0 => s.w * s.h > 0)
    BY <1>1, <1>6, <2>1, ProductLaws
  <2> QED BY <1>1, <2>2, <2>3
<1>8. area = (D * D) * (a * b)
  <2>1. (D * a) * (D * b) = (D * D) * (a * b)
    BY <1>0, SMT
  <2> QED BY <1>1, <2>1
<1> HIDE DEF re, n_im, area
<1>9. CASE s.w < 256 * D
  <2>1. a < 256
    <3> SUFFICES ASSUME 256 <= a PROVE FALSE
      BY <1>2
    <3>1. D * 256 <= D * a
      BY <1>0, ProductLaws
    <3> QED BY <1>0, <1>1, <1>9, <3>1
  <2>2. CASE b <= 0
    <3>1. stops
      BY <1>7, <2>2
    <3> QED BY <1>5, <1>7, <1>9, <2>2, <3>1 DEF Tiles, D
  <2>3. CASE b > 0
    <3>1. re = a /\ n_im = b /\ a * b \in Nat /\ a * b > 0 /\ area > 0
      BY <1>2, <1>3, <1>4, <1>7, <2>1, <2>3, ProductLaws
    <3>2. ~stops
      <4>1. re * n_im = a * b
        BY <3>1
      <4>2. ~(area <= 0)
        BY <1>6, <3>1
      <4>3. re * n_im # 0
        <5> HIDE DEF stops
        <5>1. PICK e \in Nat : e = a * b /\ e > 0
          BY <3>1
        <5> QED BY <4>1, <5>1
      <4> QED BY <4>2, <4>3
    <3>3. n = D * D
      <4> DEFINE e == a * b
                 k == D * D
      <4>1. k \in Nat /\ e \in Nat \ {0} /\ area = k * e /\ area \in Nat
        BY <1>0, <1>6, <1>8, <3>1, ProductLaws
      <4> HIDE DEF e, k
      <4>2. area \div e = k
        BY <4>1, QuotientIs
      <4> QED BY <4>2, <3>1 DEF e, k
    <3>4. re * D = s.w /\ n_im * D = s.h
      BY <1>0, <1>1, <3>1, ProductLaws
    <3> HIDE DEF n, stops
    <3>5. ~t.ended /\ t.chunk_n_re * D = t.w /\ t.chunk_n_im * D = t.h /\ t.nbr_chunks = D * D
      BY <1>5, <3>2, <3>3, <3>4
    <3>6. t.w < 256 * D /\ ~(t.h <= 0)
      BY <1>5, <1>6, <1>7, <1>9, <2>3
    <3>7. Tiles(t)
      BY <3>5, <3>6 DEF Tiles, D
    <3> QED BY <1>5, <3>7
  <2> QED BY <1>1, <2>2, <2>3
<1>10. ASSUME ~(s.w < 256 * D), s.w < 256 * (D + 1), ~t.ended PROVE t.nbr_chunks > D * D
  <2>1. ~stops
    BY <1>5, <1>10
  <2>2. b > 0
    BY <1>7, <2>1
  <2>3. a >= 256
    <3> SUFFICES ASSUME a + 1 <= 256 PROVE FALSE
      BY <1>2
    <3>1. D * (a + 1) <= D * 256 /\ D * (a + 1) = D * a + D * 1
      BY <1>0, ProductLaws
    <3> QED BY <1>0, <1>1, <1>10, <3>1
  <2>4. PICK e \in Nat : a = 256 + e
    <3>1. a - 256 \in Nat
      BY <1>2, <2>3
    <3> QED BY <3>1, <1>2
  <2>5. e < 256
    <3> SUFFICES ASSUME 256 <= e PROVE FALSE
      OBVIOUS
    <3>1. D * (256 + e) = D * 256 + D * e /\ D * e >= D * 256 /\ D * 256 >= 256
      BY <1>0, ProductLaws
    <3> QED BY <1>0, <1>1, <1>10, <2>4, <3>1
  <2>6. re = e /\ n_im \in Nat /\ n_im <= b
    BY <1>3, <1>4, <2>2, <2>3, <2>4, <2>5
  <2>7. re * n_im \in Nat \ {0}
    BY <2>1, <2>6, ProductLaws
  <2>8. (D * D + 1) * (e * n_im) <= area
    <3> DEFINE k == D * D
    <3>1. k \in Nat /\ k >= 1
      <4>1. D * 1 <= D * D /\ D * D \in Int
        BY <1>0, ProductLaws
      <4> QED BY <1>0, <4>1
    <3> HIDE DEF k
    <3>2. area = k * (a * b)
      BY <1>8 DEF k
    <3>3. (k + 1) * e <= k * a
      <4>1. (k + 1) * e = k * e + e /\ k * a = k * 256 + k * e /\ k * e \in Int
        BY <2>4, <3>1, SMT
      <4> QED BY <4>1, <2>5, <3>1
    <3>4. (k + 1) * (e * n_im) = ((k + 1) * e) * n_im /\ k * (a * b) = (k * a) * b
      BY <2>6, <3>1, <1>2, <2>4, ProductLaws
    <3>5. PICK u \in Nat, v \in Nat : u = (k + 1) * e /\ v = k * a
      <4>1. (k + 1) * e \in Nat /\ k * a \in Nat
        BY <3>1, <1>2, <2>4, SMT
      <4> QED BY <4>1
    <3>6. u * n_im <= u * b /\ u * b <= v * b
      <4>1. u * n_im <= u * b
        BY <3>5, <2>6, ProductLaws
      <4>2. b * u <= b * v /\ b * u = u * b /\ b * v = v * b
        BY <3>3, <3>5, <2>2, ProductLaws
      <4> QED BY <4>1, <4>2
    <3>7. u * n_im \in Int /\ u * b \in Int /\ v * b \in Int
      BY <3>5, <2>6, ProductLaws
    <3>8. (k + 1) * (e * n_im) = u * n_im /\ area = v * b
      BY <3>2, <3>4, <3>5
    <3>9. (k + 1) * (e * n_im) <= area
      BY <3>6, <3>7, <3>8
    <3> QED BY <3>9 DEF k
  <2>9. D * D + 1 <= n
    <3> DEFINE x == area
               y == re * n_im
               k == D * D + 1
    <3>1. x \in Nat /\ y \in Nat \ {0} /\ k \in Nat /\ k * y <= x
      <4>1. D * D + 1 \in Nat
        <5>1. D * D > 0 /\ D * D \in Int
          BY <1>0, ProductLaws
        <5> QED BY <5>1
      <4> QED BY <4>1, <1>6, <1>7, <2>2, <2>6, <2>7, <2>8
    <3> HIDE DEF x, y, k
    <3>2. k <= x \div y
      BY <3>1, QuotientIs
    <3> QED BY <3>2 DEF x, y, k
  <2>10. n \in Int /\ D * D \in Int
    <3>1. area \in Nat
      BY <1>6, <1>7, <2>2
    <3>2. area \div (re * n_im) \in Nat
      BY <3>1, <2>7, QuotientIs
    <3> QED BY <3>2, <1>0, ProductLaws
  <2> HIDE DEF n
  <2> QED BY <1>5, <2>1, <2>9, <2>10
<1>11. CASE ~(s.w < 256 * D)
  BY <1>5, <1>10, <1>11 DEF Tiles, D
<1> HIDE DEF stops
<1> QED BY <1>5, <1>9, <1>11

\* A picture and a window of a size that is new.
LEMMA PictureKeepsChunks ==
    ASSUME NEW s, IsImage(s), s.win = NoWindow, Tiles(s), NEW t, t = GuiInit(s)
    PROVE  t.w = s.w /\ t.h = s.h /\ Tiles(t)
<1>1. CASE s.ended
  <2>1. t = [s EXCEPT !.ended = TRUE]
    BY <1>1 DEF GuiInit
  <2>2. t = s
    BY <1>1, <2>1 DEF IsImage, Fields
  <2> QED BY <2>2
<1>2. CASE ~s.ended
  <2> DEFINE n == 3 * s.w * s.h
  <2>1. t = [s EXCEPT !.gui_w = s.w, !.gui_h = s.h, !.img = n, !.win = <<s.w, s.h>>]
    BY <1>2 DEF GuiInit
  <2> HIDE DEF n
  <2>2. /\ t.w = s.w /\ t.h = s.h /\ t.ended = s.ended /\ t.chunk_n_re = s.chunk_n_re
        /\ t.chunk_n_im = s.chunk_n_im /\ t.nbr_chunks = s.nbr_chunks
    BY <2>1 DEF IsImage, Fields
  <2> QED BY <2>2 DEF Tiles
<1> QED BY <1>1, <1>2

\* change_image_size cuts the new size into chunks.
LEMMA SizeChangedTiles ==
    ASSUME NEW s, IsImage(s), ~s.ended, s.win # NoWindow, Cuttable(s), NEW t, t = ChangedImageSize(s)
    PROVE  t.w = s.w /\ t.h = s.h /\ Tiles(t)
<1> DEFINE a == [s EXCEPT !.img = 0, !.win = NoWindow]
           b == [a EXCEPT !.grid = 0]
           c == ComputationInit(b)
<1>1. GuiCleanup(s) = a
  BY DEF GuiCleanup
<1>2. IsImage(b) /\ ~b.ended /\ b.w = s.w /\ b.h = s.h /\ b.win = NoWindow
  <2>1. IsImage(a) /\ ~a.ended /\ a.w = s.w /\ a.h = s.h /\ a.win = NoWindow
    BY DEF IsImage, Fields
  <2> HIDE DEF a
  <2> QED BY <2>1 DEF IsImage, Fields
<1>3. b = ComputationCleanup(GuiCleanup(s))
  BY <1>1 DEF ComputationCleanup
<1>4. t = GuiInit(c)
  BY <1>3 DEF ChangedImageSize
<1> HIDE DEF b
<1>5. IsImage(c)
  BY <1>2, GridMade
<1>6. Cuttable(b)
  BY <1>2 DEF Cuttable
<1>7. c.w = s.w /\ c.h = s.h /\ c.win = NoWindow /\ Tiles(c)
  BY <1>2, <1>6, ChunksMade
<1> HIDE DEF c
<1> QED BY <1>4, <1>5, <1>7, PictureKeepsChunks

\* The invariant: the sizes, and each change of them, are multiples.
TileInv == ImageInv /\ Cuttable(im) /\ Times(sizeChange) /\ Tiles(im)

\* A multiple is one by its remainder, and multiples add up.
LEMMA RemainderTimes == ASSUME NEW n \in Nat, n % DivideConstant = 0 PROVE Times(n)
<1> DEFINE q == n \div DivideConstant
           p == DivideConstant * q
<1>1. q \in Int /\ n = DivideConstant * q
  BY ImageAssumption, SMT
<1> HIDE DEF q
<1> QED BY <1>1 DEF Times

LEMMA TimesAdd == ASSUME NEW m, NEW n, Times(m), Times(n) PROVE Times(m + n) /\ Times(m - n)
<1> DEFINE D == DivideConstant
<1>1. PICK a \in Int, b \in Int : m = D * a /\ n = D * b
  BY DEF Times
<1>2. D \in Int
  BY ImageAssumption
<1> HIDE DEF D
<1>3. D * (a + b) = m + n /\ D * (a - b) = m - n
  BY <1>1, <1>2, SMT
<1>4. a + b \in Int /\ a - b \in Int
  OBVIOUS
<1> QED BY <1>3, <1>4 DEF Times, D

LEMMA TileInvInit == ASSUME InitialHeight <= InitialWidth, ImageInit PROVE TileInv
<1> DEFINE s == [w |-> InitialWidth, h |-> InitialHeight, chunk_n_re |-> 0, chunk_n_im |-> 0, nbr_chunks |-> 0,
                 grid |-> 0, gui_w |-> 0, gui_h |-> 0, img |-> 0, win |-> NoWindow, ended |-> FALSE]
           t == ComputationInit(s)
<1>1. IsImage(s) /\ ~s.ended /\ s.win = NoWindow /\ s.w = InitialWidth /\ s.h = InitialHeight
  <2>1. InitialWidth \in Int /\ InitialHeight \in Int
    BY ImageAssumption
  <2> QED
    BY <2>1 DEF IsImage, Fields
<1>2. im = GuiInit(t) /\ sizeChange = 0
  BY DEF ImageInit
<1> HIDE DEF s
<1>3. Times(InitialWidth) /\ Times(InitialHeight)
  BY ImageAssumption, RemainderTimes
<1>4. InitialHeight \in Nat \ {0} /\ InitialWidth \in Nat
  BY ImageAssumption
<1>5. Cuttable(s)
  BY <1>1, <1>3, <1>4 DEF Cuttable
<1>6. t.w = s.w /\ t.h = s.h /\ t.win = NoWindow /\ Tiles(t) /\ IsImage(t)
  BY <1>1, <1>5, ChunksMade, GridMade
<1> HIDE DEF t
<1>7. im.w = s.w /\ im.h = s.h /\ Tiles(im)
  BY <1>2, <1>6, PictureKeepsChunks
<1>8. Cuttable(im)
  BY <1>5, <1>7 DEF Cuttable
<1>9. Times(sizeChange)
  <2>1. DivideConstant * 0 = 0
    BY ImageAssumption
  <2> QED BY <1>2, <2>1 DEF Times
<1> QED BY <1>7, <1>8, <1>9, ImageInvInit DEF TileInv

\* A change that is applied.
LEMMA ChangeDoneTiles == ASSUME TileInv, ~im.ended, ChangeDone PROVE Cuttable(im') /\ Times(sizeChange') /\ Tiles(im')
<1>1. Times(0)
  <2>1. DivideConstant * 0 = 0
    BY ImageAssumption
  <2> QED BY <2>1 DEF Times
<1>2. Times(sizeChange')
  BY <1>1 DEF TileInv, ChangeDone
<1>3. CASE ~resizing
  <2>1. im' = im
    BY <1>3 DEF ChangeDone
  <2> QED BY <1>2, <2>1 DEF TileInv
<1>4. CASE resizing
  <2> DEFINE a == im.w + sizeChange
             b == im.h + sizeChange
             s == [im EXCEPT !.w = a, !.h = b]
  <2>1. im.w \in Int /\ im.h \in Int /\ sizeChange \in Int /\ IsImage(im) /\ im.win # NoWindow
    <3>1. im.win = <<im.w, im.h>>
      BY DEF TileInv, ImageInv, Agreeing
    <3> QED BY <3>1, WindowIsOne DEF TileInv, ImageInv, IsImage
  <2>2. im.h <= im.w /\ a >= 1
    <3>1. im.w + sizeChange \in 1 .. MaxImageWidth
      BY DEF ChangeDone
    <3> QED BY <2>1, <3>1 DEF TileInv, Cuttable
  <2>3. Times(a) /\ Times(b)
    BY TimesAdd DEF TileInv, Cuttable
  <2>4. im' = ChangedImageSize(s)
    BY <1>4 DEF ChangeDone, LoadSize
  <2>5. a \in Int /\ b \in Int /\ b <= a
    BY <2>1, <2>2
  <2> HIDE DEF a, b
  <2>6. IsImage(s) /\ ~s.ended /\ s.win # NoWindow /\ s.w = a /\ s.h = b
    BY <2>1, <2>5 DEF IsImage, Fields
  <2> HIDE DEF s
  <2>7. Cuttable(s)
    BY <2>2, <2>3, <2>5, <2>6 DEF Cuttable
  <2>8. im'.w = s.w /\ im'.h = s.h /\ Tiles(im')
    BY <2>4, <2>6, <2>7, SizeChangedTiles
  <2>9. Cuttable(im')
    BY <2>7, <2>8 DEF Cuttable
  <2> QED BY <1>2, <2>8, <2>9
<1> QED BY <1>3, <1>4

LEMMA TileInvNext == TileInv /\ [ImageNext]_imageVars => TileInv'
<1> SUFFICES ASSUME TileInv, [ImageNext]_imageVars PROVE TileInv'
  OBVIOUS
<1>0. ImageInv'
  BY ImageInvNext DEF TileInv
<1> SUFFICES Cuttable(im') /\ Times(sizeChange') /\ Tiles(im')
  BY <1>0 DEF TileInv
<1>1. CASE im' = im /\ sizeChange' = sizeChange
  BY <1>1 DEF TileInv
<1>2. CASE ~im.ended /\ ChangeDone
  BY <1>2, ChangeDoneTiles
<1>3. CASE ~im.ended /\ Refresh
  <2>1. im.gui_w = im.w /\ im.gui_h = im.h
    BY <1>3 DEF TileInv, ImageInv, Agreeing
  <2>2. im' = [im EXCEPT !.ended = im.ended] /\ sizeChange' = sizeChange
    <3>1. (im.ended \/ <<im.gui_w, im.gui_h>> # <<im.w, im.h>>) = im.ended
      BY <2>1 DEF TileInv, ImageInv, IsImage
    <3> QED BY <1>3, <3>1 DEF Refresh
  <2>3. im' = im
    BY <2>2 DEF TileInv, ImageInv, IsImage, Fields
  <2> QED BY <1>1, <2>2, <2>3
<1>4. ASSUME NEW sign \in {-1, 1}, ChangeValues(sign) PROVE Cuttable(im') /\ Times(sizeChange') /\ Tiles(im')
  <2>1. im' = im
    BY <1>4 DEF ChangeValues
  <2>2. Times(PixelChange) /\ PixelChange \in Nat
    BY ImageAssumption, RemainderTimes
  <2>3. Times(sizeChange + PixelChange) /\ Times(sizeChange - PixelChange) /\ sizeChange \in Int
    BY <2>2, TimesAdd DEF TileInv, ImageInv
  <2>4. Changed(sizeChange, sign) = sizeChange + PixelChange \/ Changed(sizeChange, sign) = sizeChange - PixelChange
    BY <2>2, <2>3 DEF Changed
  <2>5. sizeChange' = Changed(sizeChange, sign) \/ sizeChange' = sizeChange
    BY <1>4 DEF ChangeValues
  <2>6. Times(sizeChange')
    BY <2>3, <2>4, <2>5 DEF TileInv
  <2> QED BY <2>1, <2>6 DEF TileInv
<1> QED
  BY <1>1, <1>2, <1>3, <1>4 DEF ImageNext, ChooseSize, ChooseC, imageVars

\* Of an image that starts no higher than wide, and stays narrower than the
\* byte chunk_n_re allows, the chunks of SEM/computation.c cover each pixel
\* once, for any such size, any step of the size and any number of changes.
THEOREM ImageIsTiled == ASSUME InitialHeight <= InitialWidth PROVE ImageSpec => []ChunksTile
<1>1. TileInv => ChunksTile
  BY DEF TileInv, Tiles, ChunksTile
<1>2. ImageInit => TileInv
  BY TileInvInit
<1> QED
  BY <1>1, <1>2, TileInvNext, PTL DEF ImageSpec

=============================================================================
