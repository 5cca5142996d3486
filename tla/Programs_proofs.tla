-------------------------- MODULE Programs_proofs --------------------------
(***************************************************************************)
(* Proofs about the programs beside the semester project, each by itself   *)
(* and for any value of its constants.                                     *)
(*                                                                         *)
(* hw09, the LED client: no light is counted twice.  The argument counts   *)
(* the 'x' that are still on their way, on the line or read and not yet    *)
(* handled.                                                                *)
(*                                                                         *)
(* hw06, the ring queue: the ring holds what was pushed and not popped, in *)
(* order.  The argument says where each element lies, without remainders:  *)
(* Place.                                                                  *)
(*                                                                         *)
(* PRGA hw9, the signal client: what is drawn is one signal.  As long as   *)
(* no request overtook an earlier signal, every chunk on the way is of the *)
(* last request, and while a request waits nothing of a signal is left.    *)
(*                                                                         *)
(* hw10, the host and the firmware: the flag the host turns follows the    *)
(* board.  The argument runs the flag through the events queued, the       *)
(* message just read and the reports on the link: it ends as what the      *)
(* board does now.                                                         *)
(***************************************************************************)
EXTENDS LedClient, RingQueue, PipeClient, TaskHost, FiniteSetTheorems, TLAPS

-----------------------------------------------------------------------------
(* hw09: the LED client *)

BoardChars == {"h", "b", "a", "i", "x", "o"}

LightsIn(s) == {k \in 1 .. Len(s) : s[k] = "x"}
Lights(s) == Cardinality(LightsIn(s))

\* The character read last will be counted.
Pending == IF read = "x" /\ ledState # "x" THEN 1 ELSE 0

LightInv ==
    /\ exCounter \in Nat /\ litTicks \in Nat
    /\ toClient \in Seq(BoardChars)
    /\ exCounter + Lights(toClient) + Pending <= litTicks + 1

-----------------------------------------------------------------------------
(* the characters on the line *)

\* A sequence holds finitely many.
LEMMA LightsFinite ==
    ASSUME NEW s \in Seq(BoardChars)
    PROVE  IsFiniteSet(LightsIn(s)) /\ Lights(s) \in Nat
<1>1. Len(s) \in Nat
  OBVIOUS
<1>2. IsFiniteSet(1 .. Len(s))
  BY <1>1, FS_Interval
<1>3. LightsIn(s) \in SUBSET (1 .. Len(s))
  BY DEF LightsIn
<1>4. IsFiniteSet(LightsIn(s))
  BY <1>2, <1>3, FS_Subset
<1> QED
  BY <1>4, FS_CardinalityType DEF Lights

\* One more for an 'x' sent, none for another character.
LEMMA LightsAppended ==
    ASSUME NEW s \in Seq(BoardChars), NEW c \in BoardChars
    PROVE  Lights(Append(s, c)) = IF c = "x" THEN Lights(s) + 1 ELSE Lights(s)
<1>1. Len(s) \in Nat /\ Len(s) + 1 \notin LightsIn(s)
  BY DEF LightsIn
<1>2. Len(Append(s, c)) = Len(s) + 1
  OBVIOUS
<1>3. \A k \in 1 .. Len(s) : Append(s, c)[k] = s[k]
  OBVIOUS
<1>4. Append(s, c)[Len(s) + 1] = c
  OBVIOUS
<1>5. 1 .. Len(s) + 1 = (1 .. Len(s)) \cup {Len(s) + 1}
  BY <1>1
<1>6. CASE c = "x"
  <2>1. LightsIn(Append(s, c)) = LightsIn(s) \cup {Len(s) + 1}
    BY <1>2, <1>3, <1>4, <1>5, <1>6 DEF LightsIn
  <2> QED
    BY <2>1, <1>1, <1>6, LightsFinite, FS_AddElement DEF Lights
<1>7. CASE c # "x"
  <2>1. LightsIn(Append(s, c)) = LightsIn(s)
    BY <1>2, <1>3, <1>4, <1>5, <1>7 DEF LightsIn
  <2> QED
    BY <2>1, <1>7 DEF Lights
<1> QED
  BY <1>6, <1>7

\* One less when an 'x' is taken out: the positions of the rest, moved by one,
\* are positions of the whole.
LEMMA LightsTaken ==
    ASSUME NEW s \in Seq(BoardChars), s # <<>>
    PROVE  Lights(Tail(s)) + (IF Head(s) = "x" THEN 1 ELSE 0) <= Lights(s)
<1> DEFINE T == LightsIn(Tail(s))
           R == LightsIn(s) \ {1}
           f == [k \in T |-> k + 1]
<1>1. Len(s) \in Nat \ {0} /\ Tail(s) \in Seq(BoardChars) /\ Len(Tail(s)) = Len(s) - 1
  OBVIOUS
<1>2. \A k \in 1 .. Len(Tail(s)) : Tail(s)[k] = s[k + 1]
  OBVIOUS
<1>3. \A k \in T : k \in Nat /\ k + 1 \in R
  <2> SUFFICES ASSUME NEW k \in T PROVE k \in Nat /\ k + 1 \in R
    OBVIOUS
  <2>1. k \in 1 .. Len(s) - 1 /\ s[k + 1] = "x"
    BY <1>1, <1>2 DEF LightsIn
  <2>2. k + 1 \in 1 .. Len(s) /\ k + 1 # 1
    BY <2>1, <1>1
  <2> QED
    BY <2>1, <2>2 DEF LightsIn
<1>4. f \in Injection(T, R)
  <2>1. f \in [T -> R]
    BY <1>3
  <2>2. \A a, b \in T : f[a] = f[b] => a = b
    BY <1>3
  <2> QED
    BY <2>1, <2>2 DEF Injection, IsInjective
<1>5. IsFiniteSet(LightsIn(s)) /\ Lights(s) \in Nat
  BY LightsFinite
<1>6. /\ IsFiniteSet(R)
      /\ Cardinality(R) = IF 1 \in LightsIn(s) THEN Cardinality(LightsIn(s)) - 1 ELSE Cardinality(LightsIn(s))
  BY <1>5, FS_RemoveElement
<1>7. Cardinality(T) <= Cardinality(R)
  <2> HIDE DEF T, R, f
  <2> QED
    BY <1>4, <1>6, FS_Injection
<1>8. 1 \in LightsIn(s) <=> Head(s) = "x"
  BY <1>1 DEF LightsIn
<1>9. Cardinality(T) \in Nat
  BY <1>1, LightsFinite DEF Lights
<1> QED
  BY <1>5, <1>6, <1>7, <1>8, <1>9 DEF Lights

-----------------------------------------------------------------------------
(* the invariant *)

\* Nothing is on the line, and at most the variable holds an 'x'.
LEMMA LightInit == LedInit => LightInv
<1> SUFFICES ASSUME LedInit PROVE LightInv
  OBVIOUS
<1>1. toClient = <<>> /\ exCounter = 0 /\ litTicks = 0
  BY DEF LedInit
<1>2. toClient \in Seq(BoardChars)
  BY <1>1
<1>3. LightsIn(toClient) = {}
  BY <1>1 DEF LightsIn
<1>4. Lights(toClient) = 0
  BY <1>3, FS_EmptySet DEF Lights
<1>5. Pending \in 0 .. 1
  BY DEF Pending
<1> QED
  BY <1>1, <1>2, <1>4, <1>5 DEF LightInv

\* A character is sent: a light is paid for by a tick.
LEMMA CharSent ==
    ASSUME LightInv, NEW c \in BoardChars, toClient' = Append(toClient, c),
           litTicks' = IF c = "x" THEN litTicks + 1 ELSE litTicks,
           UNCHANGED <<exCounter, read, ledState>>
    PROVE  LightInv'
<1>1. Lights(toClient') = IF c = "x" THEN Lights(toClient) + 1 ELSE Lights(toClient)
  BY LightsAppended DEF LightInv
<1>2. toClient' \in Seq(BoardChars)
  BY DEF LightInv
<1>3. Lights(toClient) \in Nat
  BY LightsFinite DEF LightInv
<1>4. Pending' = Pending /\ Pending \in 0 .. 1
  BY DEF Pending
<1>5. exCounter' + Lights(toClient') + Pending' <= litTicks' + 1
  BY <1>1, <1>3, <1>4 DEF LightInv
<1> QED
  BY <1>2, <1>5 DEF LightInv

\* A character taken from the line, or the one read before handled once more.
LEMMA LightRead == ASSUME LightInv, ReceiverReads PROVE LightInv'
<1>1. CASE UNCHANGED <<read, toClient>>
  BY <1>1 DEF ReceiverReads, sharedVars, ledBoardVars, LightInv, Pending
<1>2. CASE toClient # <<>> /\ read' = Head(toClient) /\ toClient' = Tail(toClient)
  <2>1. UNCHANGED <<exCounter, ledState, litTicks>>
    BY DEF ReceiverReads, sharedVars, ledBoardVars
  <2>2. Lights(toClient') + (IF read' = "x" THEN 1 ELSE 0) <= Lights(toClient)
    BY <1>2, LightsTaken DEF LightInv
  <2>3. toClient' \in Seq(BoardChars)
    BY <1>2 DEF LightInv
  <2>4. Lights(toClient) \in Nat /\ Lights(toClient') \in Nat
    BY <2>3, LightsFinite DEF LightInv
  <2>5. Pending' \in 0 .. 1 /\ Pending' <= (IF read' = "x" THEN 1 ELSE 0) /\ Pending \in 0 .. 1
    BY DEF Pending
  <2>6. exCounter' + Lights(toClient') + Pending' <= litTicks' + 1
    BY <2>1, <2>2, <2>4, <2>5 DEF LightInv
  <2> QED
    BY <2>1, <2>3, <2>6 DEF LightInv
<1> QED
  BY <1>1, <1>2 DEF ReceiverReads

\* It is counted when the light was off: then it is no longer pending.
LEMMA LightHandled == ASSUME LightInv, ReceiverHandles PROVE LightInv'
<1>1. UNCHANGED <<read, toClient, litTicks>>
  BY DEF ReceiverHandles, lineVars, ledBoardVars
<1>2. exCounter' = exCounter + Pending /\ exCounter' \in Nat
  BY DEF ReceiverHandles, Counted, Pending, LightInv
<1>3. Pending' = 0
  BY <1>1 DEF ReceiverHandles, Pending
<1>4. Lights(toClient) \in Nat /\ Lights(toClient') = Lights(toClient)
  BY <1>1, LightsFinite DEF LightInv
<1>5. Pending \in 0 .. 1
  BY DEF Pending
<1>6. exCounter' + Lights(toClient') + Pending' <= litTicks' + 1
  BY <1>1, <1>2, <1>3, <1>4, <1>5 DEF LightInv
<1> QED
  BY <1>1, <1>2, <1>6 DEF LightInv

\* The other steps touch neither the counters nor the line to the client.
LEMMA LightUntouched ==
    ASSUME LightInv, UNCHANGED <<exCounter, ledState, read, toClient, litTicks>>
    PROVE  LightInv'
BY DEF LightInv, Pending, Lights, LightsIn

\* Each step of the program and of the board.
LEMMA LightNext == LightInv /\ [LedNext]_ledVars => LightInv'
<1> SUFFICES ASSUME LightInv, [LedNext]_ledVars PROVE LightInv'
  OBVIOUS
<1> USE DEF ledVars, sharedVars, threadVars, lineVars, ledBoardVars, hostVars
<1>1. CASE OpenSerial \/ ReceiverChecks \/ ReceiverFails
  BY <1>1, LightUntouched DEF OpenSerial, ReceiverChecks, ReceiverFails
<1>2. CASE ReceiverReads
  BY <1>2, LightRead
<1>3. CASE ReceiverHandles
  BY <1>3, LightHandled
<1>4. CASE Averages \/ Displays \/ DisplaySpurious
  BY <1>4, LightUntouched DEF Averages, Displays, DisplaySpurious
<1>5. CASE TypistSeesOpen \/ TypesQuit
  BY <1>5, LightUntouched DEF TypistSeesOpen, TypesQuit, Typed
<1>6. ASSUME NEW k \in Commands, TypesCommand(k) PROVE LightInv'
  BY <1>6, LightUntouched DEF TypesCommand, Typed
<1>7. CASE BoardStarts
  BY <1>7, LightUntouched DEF BoardStarts
<1>8. CASE BoardDropsFirst
  <2>1. "i" \in BoardChars
    BY DEF BoardChars
  <2> QED
    BY <1>8, <2>1, CharSent DEF BoardDropsFirst
<1>9. CASE BoardHandles
  <2> DEFINE c == Head(toBoard)
             answer == IF c \in {"h", "b"} THEN c ELSE "a"
  <2>1. answer \in BoardChars /\ answer # "x"
    BY DEF BoardChars
  <2>2. toClient' = Append(toClient, answer) /\ UNCHANGED <<exCounter, read, ledState, litTicks>>
    BY <1>9 DEF BoardHandles
  <2> QED
    BY <2>1, <2>2, CharSent
<1>10. CASE Flip
  <2> DEFINE sent == IF led' THEN "x" ELSE "o"
  <2>1. sent \in BoardChars /\ (sent = "x" <=> led')
    BY DEF BoardChars
  <2>2. toClient' = Append(toClient, sent) /\ UNCHANGED <<exCounter, read, ledState>>
    BY <1>10 DEF Flip
  <2>3. litTicks' = IF led' THEN litTicks + 1 ELSE litTicks
    BY <1>10 DEF Flip
  <2> QED
    BY <2>1, <2>2, <2>3, CharSent
<1>11. CASE UNCHANGED ledVars
  BY <1>11, LightUntouched
<1> QED
  BY <1>1, <1>2, <1>3, <1>4, <1>5, <1>6, <1>7, <1>8, <1>9, <1>10, <1>11
  DEF LedNext, ReceiverStep, BoardStep

\* The counter of hw09-main.c counts no light twice, however the timeouts of
\* serialThread, the ticker and the commands fall.
THEOREM LightsCounted == LedSpec => []LightsCountedOnce
<1>1. LightInv => LightsCountedOnce
  <2> SUFFICES ASSUME LightInv PROVE LightsCountedOnce
    OBVIOUS
  <2>1. Lights(toClient) \in Nat
    BY LightsFinite DEF LightInv
  <2>2. Pending \in 0 .. 1
    BY DEF Pending
  <2> QED
    BY <2>1, <2>2 DEF LightInv, LightsCountedOnce
<1> QED
  BY <1>1, LightInit, LightNext, PTL DEF LedSpec

-----------------------------------------------------------------------------
(* hw06: the ring queue *)

\* The place k after f in a ring of n.
Place(f, k, n) == IF f + k < n THEN f + k ELSE f + k - n

Fresh == ringSize = 0 /\ due = <<>> /\ first = -1 /\ last = -1

Held ==
    /\ capacity \in Nat /\ due \in Seq(RingValues)
    /\ ringSize = Len(due) /\ ringSize <= capacity
    /\ ringSize = 0 => first = -1 /\ last = -1
    /\ ringSize # 0 => first \in 0 .. capacity - 1 /\ last = Place(first, ringSize - 1, capacity)
    /\ \A k \in 0 .. ringSize - 1 : array[Place(first, k, capacity)] = due[k + 1]

HeldInv ==
    /\ ring = "create" => Fresh
    /\ ring \in {"commands", "drain"} /\ ~damaged => Held

-----------------------------------------------------------------------------
\* The remainders that get_from_queue takes are places.
LEMMA PlaceIsRemainder ==
    ASSUME NEW n \in Nat \ {0}, NEW f \in 0 .. n - 1, NEW k \in 0 .. n - 1
    PROVE  (f + k) % n = Place(f, k, n)
<1>1. CASE f + k < n
  <2>1. f + k \in 0 .. n - 1
    BY <1>1
  <2>2. (f + k) % n = f + k
    BY <2>1, SMT
  <2> QED
    BY <1>1, <2>2 DEF Place
<1>2. CASE ~(f + k < n)
  <2> DEFINE r == f + k - n
  <2>1. r \in 0 .. n - 1 /\ f + k = n + r
    BY <1>2
  <2>2. (n + r) % n = r
    BY <2>1, SMT
  <2> QED
    BY <1>2, <2>1, <2>2 DEF Place
<1> QED
  BY <1>1, <1>2

\* No array, no element.
LEMMA HeldInit == RingInit => HeldInv
BY DEF RingInit, HeldInv, Fresh

\* Any capacity to begin with: nothing is held.
LEMMA HeldCreate == ASSUME HeldInv, NEW n \in 0 .. MaxCapacity, Create(n) PROVE HeldInv'
<1>1. ringSize' = 0 /\ due' = <<>> /\ first' = -1 /\ last' = -1 /\ capacity' = n /\ ring' = "commands"
  BY DEF Create, HeldInv, Fresh
<1>2. n \in Nat
  BY RingAssumption
<1>3. <<>> \in Seq(RingValues) /\ Len(<<>>) = 0
  OBVIOUS
<1>4. Held'
  BY <1>1, <1>2, <1>3 DEF Held
<1> QED
  BY <1>1, <1>4 DEF HeldInv

\* An element is put behind the last one: into an empty ring, into a ring with
\* room, or into one that has just grown and starts at its array's first.
LEMMA HeldPush == ASSUME HeldInv, NEW v \in RingValues, Push(v) PROVE HeldInv'
<1>1. ring = "commands" /\ ring' = "commands"
  BY DEF Push
<1> SUFFICES ASSUME ~damaged' PROVE Held'
  BY <1>1 DEF HeldInv
<1>2. Held /\ ~damaged /\ ~(Grown > capacity /\ first > 0)
  BY <1>1 DEF Push, HeldInv
<1>3. capacity \in Nat /\ ringSize \in Nat /\ Len(due) \in Nat /\ ringSize = Len(due) /\ ringSize <= capacity
  BY <1>2 DEF Held
<1>4. due' \in Seq(RingValues) /\ Len(due') = ringSize + 1 /\ ringSize' = Len(due')
  BY <1>2, <1>3 DEF Push, Held
<1>5. due'[ringSize + 1] = v /\ \A k \in 0 .. ringSize - 1 : due'[k + 1] = due[k + 1]
  BY <1>2, <1>3 DEF Push, Held
<1>6. capacity' = Grown /\ Grown \in Nat \ {0} /\ Grown > 0
  BY <1>3 DEF Push, Grown
<1>7. \A p \in 0 .. Grown - 1 :
        array'[p] = IF p = last' THEN v ELSE IF p < capacity THEN array[p] ELSE Garbage
  BY <1>6 DEF Push, Realloc
<1>8. CASE ringSize = 0
  <2>1. first = -1
    BY <1>2, <1>8 DEF Held
  <2>2. first' = 0 /\ last' = 0
    BY <2>1 DEF Push
  <2>3. array'[0] = v
    BY <1>6, <1>7, <2>2
  <2>4. Place(0, 0, Grown) = 0
    BY <1>6 DEF Place
  <2> QED
    BY <1>4, <1>5, <1>6, <1>8, <2>2, <2>3, <2>4 DEF Held
<1>9. CASE ringSize # 0 /\ ringSize < capacity
  <2>1. Grown = capacity
    BY <1>3, <1>9 DEF Grown
  <2>2. first \in 0 .. capacity - 1 /\ first # -1 /\ last = Place(first, ringSize - 1, capacity)
    BY <1>2, <1>3, <1>9 DEF Held
  <2>3. first' = first /\ last' = RingAfter(last, capacity)
    BY <2>1, <2>2 DEF Push
  <2>4. last' = Place(first, ringSize, capacity) /\ last' \in 0 .. capacity - 1
    BY <1>3, <1>9, <2>2, <2>3 DEF RingAfter, Place
  <2>5. ASSUME NEW k \in 0 .. ringSize - 1
        PROVE  array'[Place(first, k, capacity)] = due'[k + 1]
    <3>1. Place(first, k, capacity) \in 0 .. capacity - 1 /\ Place(first, k, capacity) # last'
      BY <1>3, <1>9, <2>2, <2>4 DEF Place
    <3>2. array[Place(first, k, capacity)] = due[k + 1]
      BY <1>2 DEF Held
    <3> QED
      BY <1>3, <1>5, <1>7, <2>1, <3>1, <3>2
  <2>6. array'[Place(first, ringSize, capacity)] = due'[ringSize + 1]
    BY <1>5, <1>7, <2>1, <2>4
  <2>7. ASSUME NEW k \in 0 .. ringSize
        PROVE  array'[Place(first, k, capacity)] = due'[k + 1]
    <3>1. k = ringSize \/ k \in 0 .. ringSize - 1
      BY <1>3
    <3> QED
      BY <2>5, <2>6, <3>1
  <2> QED
    BY <1>3, <1>4, <1>6, <1>9, <2>1, <2>2, <2>3, <2>4, <2>7 DEF Held
<1>10. CASE ringSize # 0 /\ ~(ringSize < capacity)
  <2>1. ringSize = capacity /\ Grown = 2 * capacity /\ Grown > capacity
    BY <1>3, <1>10 DEF Grown
  <2>2. first = 0 /\ last = capacity - 1
    BY <1>2, <1>3, <1>10, <2>1 DEF Held, Place
  <2>3. first' = 0 /\ last' = capacity
    BY <1>3, <1>10, <2>1, <2>2 DEF Push, RingAfter
  <2>4. ASSUME NEW k \in 0 .. ringSize - 1
        PROVE  array'[k] = due'[k + 1]
    <3>1. k \in 0 .. Grown - 1 /\ k < capacity /\ k # last'
      BY <1>3, <2>1, <2>3
    <3>2. Place(first, k, capacity) = k
      BY <1>3, <2>1, <2>2 DEF Place
    <3>3. array[k] = due[k + 1]
      BY <1>2, <3>2 DEF Held
    <3> QED
      BY <1>5, <1>7, <3>1, <3>3
  <2>5. array'[ringSize] = due'[ringSize + 1]
    BY <1>3, <1>5, <1>7, <2>1, <2>3
  <2>6. ASSUME NEW k \in 0 .. ringSize
        PROVE  array'[Place(0, k, Grown)] = due'[k + 1]
    <3>1. k = ringSize \/ k \in 0 .. ringSize - 1
      BY <1>3
    <3>2. Place(0, k, Grown) = k
      BY <1>3, <1>10, <2>1 DEF Place
    <3> QED
      BY <2>4, <2>5, <3>1, <3>2
  <2>7. last' = Place(0, ringSize, Grown)
    BY <1>3, <1>10, <2>1, <2>3 DEF Place
  <2> QED
    BY <1>3, <1>4, <1>6, <1>10, <2>1, <2>3, <2>6, <2>7 DEF Held
<1> QED
  BY <1>8, <1>9, <1>10

\* The first element goes and the second one is first, or none is left.
LEMMA HeldPop == ASSUME HeldInv, Pop PROVE HeldInv'
<1>1. ring \in {"commands", "drain"} /\ ring' = ring /\ damaged' = damaged
  BY DEF Pop
<1> SUFFICES ASSUME ~damaged' PROVE Held'
  BY <1>1 DEF HeldInv
<1>2. Held
  BY <1>1 DEF HeldInv
<1>3. capacity \in Nat /\ ringSize \in Nat /\ ringSize = Len(due) /\ ringSize <= capacity /\ due \in Seq(RingValues)
  BY <1>2 DEF Held
<1>4. first # -1 /\ capacity' = capacity /\ array' = array /\ ringSize' = ringSize - 1
  BY DEF Pop, SizeAfterPop
<1>5. ringSize # 0 /\ due # <<>>
  BY <1>2, <1>3, <1>4 DEF Held
<1>6. due' = Tail(due) /\ due' \in Seq(RingValues) /\ Len(due') = ringSize - 1
  BY <1>3, <1>5 DEF Pop
<1>7. \A k \in 0 .. ringSize - 2 : due'[k + 1] = due[k + 2]
  BY <1>3, <1>5, <1>6
<1>8. first \in 0 .. capacity - 1 /\ last = Place(first, ringSize - 1, capacity)
  BY <1>2, <1>5 DEF Held
<1>9. first = last <=> ringSize = 1
  <2>1. first \in Int /\ capacity \in Nat /\ ringSize \in Nat \ {0} /\ ringSize <= capacity
    BY <1>3, <1>5, <1>8
  <2>2. CASE first + (ringSize - 1) < capacity
    <3>1. last = first + (ringSize - 1)
      BY <1>8, <2>2 DEF Place
    <3> QED
      BY <2>1, <3>1
  <2>3. CASE ~(first + (ringSize - 1) < capacity)
    <3>1. last = first + (ringSize - 1) - capacity
      BY <1>8, <2>3 DEF Place
    <3>2. ringSize # 1 /\ last # first
      BY <1>8, <2>1, <2>3, <3>1
    <3> QED
      BY <3>2
  <2> QED
    BY <2>2, <2>3
<1>10. CASE ringSize = 1
  <2>1. first' = -1 /\ last' = -1
    BY <1>9, <1>10 DEF Pop, AfterPop
  <2> QED
    BY <1>3, <1>4, <1>6, <1>10, <2>1 DEF Held
<1>11. CASE ringSize # 1
  <2>1. first' = RingAfter(first, capacity) /\ last' = last
    BY <1>9, <1>11 DEF Pop, AfterPop
  <2>2. first' \in 0 .. capacity - 1 /\ last' = Place(first', ringSize - 2, capacity)
    BY <1>3, <1>5, <1>8, <1>11, <2>1 DEF RingAfter, Place
  <2>3. ASSUME NEW k \in 0 .. ringSize - 2
        PROVE  array'[Place(first', k, capacity)] = due'[k + 1]
    <3>1. Place(first', k, capacity) = Place(first, k + 1, capacity)
      BY <1>3, <1>8, <2>1 DEF RingAfter, Place
    <3>2. k + 1 \in 0 .. ringSize - 1 /\ (k + 1) + 1 = k + 2
      BY <1>3
    <3>3. array[Place(first, k + 1, capacity)] = due[k + 2]
      BY <1>2, <3>2 DEF Held
    <3> QED
      BY <1>4, <1>7, <3>1, <3>3
  <2>4. ringSize' = Len(due') /\ ringSize' <= capacity' /\ ringSize' # 0
        /\ ringSize' - 1 = ringSize - 2 /\ capacity' \in Nat
    BY <1>3, <1>4, <1>5, <1>6, <1>11
  <2> QED
    BY <1>4, <1>6, <2>2, <2>3, <2>4 DEF Held
<1> QED
  BY <1>10, <1>11

\* Each step of main and of the queue.
LEMMA HeldNext == HeldInv /\ [RingNext]_ringVars => HeldInv'
<1> SUFFICES ASSUME HeldInv, [RingNext]_ringVars PROVE HeldInv'
  OBVIOUS
<1>1. ASSUME NEW n \in 0 .. MaxCapacity, Create(n) PROVE HeldInv'
  BY <1>1, HeldCreate
<1>2. ASSUME NEW v \in RingValues, Push(v) PROVE HeldInv'
  BY <1>2, HeldPush
<1>3. CASE Pop
  BY <1>3, HeldPop
<1>4. CASE PushNowhere \/ PopShrinking \/ DrainEnds
  BY <1>4 DEF PushNowhere, PopShrinking, DrainEnds, HeldInv
<1>5. CASE InputEnds
  BY <1>5 DEF InputEnds, HeldInv, Held
<1>6. CASE UNCHANGED ringVars
  BY <1>6 DEF ringVars, HeldInv, Held, Fresh
<1> QED
  BY <1>1, <1>2, <1>3, <1>4, <1>5, <1>6 DEF RingNext

\* The queue of homework 6 holds what was pushed and not popped, in order, and
\* get_from_queue finds it and nothing else, for any values and any bound.
THEOREM RingHolds == RingSpec => []RingIsFifo
<1>1. HeldInv => RingIsFifo
  <2> SUFFICES ASSUME HeldInv, ~damaged, ring \in {"commands", "drain"}, NEW k \in -1 .. MaxDue
               PROVE  GetFromQueue(k) = IF k \in 0 .. Len(due) - 1 THEN due[k + 1] ELSE "NULL"
    BY DEF RingIsFifo
  <2>1. Held
    BY DEF HeldInv
  <2>2. k \in Int /\ Len(due) \in Nat /\ ringSize = Len(due) /\ capacity \in Nat /\ ringSize <= capacity
    BY <2>1, RingAssumption DEF Held
  <2>3. CASE k \in 0 .. Len(due) - 1
    <3>1. first \in 0 .. capacity - 1 /\ capacity \in Nat \ {0} /\ k \in 0 .. capacity - 1
      BY <2>1, <2>2, <2>3 DEF Held
    <3>2. (first + k) % capacity = Place(first, k, capacity)
      BY <3>1, PlaceIsRemainder
    <3>3. array[Place(first, k, capacity)] = due[k + 1]
      BY <2>1, <2>2, <2>3 DEF Held
    <3>4. ~(k < 0 \/ k >= capacity \/ k > ringSize - 1 \/ first = -1)
      BY <2>2, <2>3, <3>1
    <3> QED
      BY <2>3, <3>2, <3>3, <3>4 DEF GetFromQueue
  <2>4. CASE k \notin 0 .. Len(due) - 1
    <3>1. k < 0 \/ k > ringSize - 1
      BY <2>2, <2>4
    <3> QED
      BY <2>4, <3>1 DEF GetFromQueue
  <2> QED
    BY <2>3, <2>4
<1> QED
  BY <1>1, HeldInit, HeldNext, PTL DEF RingSpec

-----------------------------------------------------------------------------
(* PRGA hw9: the client of the signal generator *)

\* Keys, messages of the generator, and the last words of the two threads.
PipeEvents ==
    [type : {"set", "receive", "abort", "clear", "none", "quit", "rxQuit", "ok", "aborted", "done"}]
    \cup [type : {"data"}, request : Nat, cid : Nat]

OfSignal(m) == m.type \in {"data", "done"}
Members(s) == {s[i] : i \in 1 .. Len(s)}

\* All that has been sent to main and that main has not taken.
OnTheWay == Members(pqueue) \cup Members(pipe) \cup (IF rx = "push" THEN {rxMsg} ELSE {})

PipeTyped ==
    /\ pqueue \in Seq(PipeEvents) /\ pipe \in Seq(PipeEvents) /\ rxMsg \in PipeEvents
    /\ pkey \in {"set", "receive", "abort", "clear", "none", "q"}
    /\ keyThread = "push" => pkey # "q"
    /\ toGenerator \in Seq({"signal", "abort", "set"})
    /\ request \in Nat /\ sendingChunk \in 0 .. Idle
    /\ cid \in Nat /\ signalData \in Seq(Nat \X Nat)
    /\ receiving \in BOOLEAN /\ overlap \in BOOLEAN

\* A chunk on the way is of the last request.
ChunksCurrent ==
    \A m \in OnTheWay : m.type = "data" => m.request = request /\ request > 0 /\ m.cid \in 0 .. Chunks - 1

\* A request the generator has not taken is the next thing it takes, and
\* nothing of a signal is anywhere.
RequestAlone ==
    \A i \in 1 .. Len(toGenerator) :
        toGenerator[i] = "signal" =>
            /\ i = 1 /\ signalData = <<>> /\ sendingChunk = Idle
            /\ \A m \in OnTheWay : ~OfSignal(m)

DataOfOne ==
    /\ \A k \in 1 .. Len(signalData) : signalData[k] \in {Zero, <<request, k - 1>>}
    /\ signalData # <<>> => request > 0
    /\ receiving => cid = Len(signalData)

PlotOfOne ==
    plotted # <<>> =>
        /\ Len(plotted) = Chunks
        /\ \E r \in 1 .. request : \A k \in 1 .. Chunks : plotted[k] \in {Zero, <<r, k - 1>>}

OneSignal ==
    /\ ChunksCurrent /\ RequestAlone /\ DataOfOne /\ PlotOfOne
    /\ sendingChunk # Idle => request > 0

SignalInv == PipeTyped /\ (~overlap => OneSignal)

-----------------------------------------------------------------------------
(* what is in a sequence *)

LEMMA MembersAppended ==
    ASSUME NEW S, NEW s \in Seq(S), NEW x \in S
    PROVE  Append(s, x) \in Seq(S) /\ Members(Append(s, x)) = Members(s) \cup {x}
<1>1. Len(s) \in Nat /\ Len(Append(s, x)) = Len(s) + 1 /\ Append(s, x) \in Seq(S)
  OBVIOUS
<1>2. \A i \in 1 .. Len(s) : Append(s, x)[i] = s[i]
  OBVIOUS
<1>3. Append(s, x)[Len(s) + 1] = x
  OBVIOUS
<1>4. 1 .. Len(s) + 1 = (1 .. Len(s)) \cup {Len(s) + 1}
  BY <1>1
<1> QED
  BY <1>1, <1>2, <1>3, <1>4 DEF Members

LEMMA MembersOfRest ==
    ASSUME NEW S, NEW s \in Seq(S), s # <<>>
    PROVE  /\ Tail(s) \in Seq(S) /\ Members(Tail(s)) \subseteq Members(s)
           /\ Head(s) \in S /\ Head(s) \in Members(s)
<1>1. Len(s) \in Nat /\ Len(s) >= 1 /\ Len(Tail(s)) = Len(s) - 1 /\ Tail(s) \in Seq(S)
  OBVIOUS
<1>2. \A i \in 1 .. Len(s) - 1 : Tail(s)[i] = s[i + 1] /\ i + 1 \in 1 .. Len(s)
  BY <1>1
<1>3. Head(s) = s[1] /\ 1 \in 1 .. Len(s) /\ s[1] \in S
  BY <1>1
<1> QED
  BY <1>1, <1>2, <1>3 DEF Members

LEMMA MembersOfSuffix ==
    ASSUME NEW S, NEW s \in Seq(S), NEW k \in 1 .. Len(s)
    PROVE  SubSeq(s, k + 1, Len(s)) \in Seq(S) /\ Members(SubSeq(s, k + 1, Len(s))) \subseteq Members(s)
<1> DEFINE t == SubSeq(s, k + 1, Len(s))
<1>1. Len(s) \in Nat /\ Len(t) = Len(s) - k /\ t \in Seq(S)
  OBVIOUS
<1>2. \A i \in 1 .. Len(s) - k : t[i] = s[k + i] /\ k + i \in 1 .. Len(s)
  BY <1>1
<1> QED
  BY <1>1, <1>2 DEF Members

-----------------------------------------------------------------------------
(* steps that are not about a signal *)

LEMMA SignalInit == PipeInit => SignalInv
<1> SUFFICES ASSUME PipeInit PROVE SignalInv
  OBVIOUS
<1> USE PipeAssumption
<1>1. PipeTyped
  <2>1. Msg("ok") \in PipeEvents
    BY DEF Msg, PipeEvents
  <2>2. Idle \in 0 .. Idle
    BY DEF Idle
  <2>3. <<>> \in Seq(PipeEvents) /\ <<>> \in Seq({"signal", "abort", "set"}) /\ <<>> \in Seq(Nat \X Nat)
    OBVIOUS
  <2> HIDE DEF PipeEvents, Msg, Idle
  <2> QED
    BY <2>1, <2>2, <2>3 DEF PipeInit, PipeTyped
<1>2. OnTheWay = {}
  BY DEF PipeInit, OnTheWay, Members
<1>3. ChunksCurrent /\ RequestAlone
  BY <1>2 DEF ChunksCurrent, RequestAlone, PipeInit
<1>4. DataOfOne /\ PlotOfOne
  BY DEF PipeInit, DataOfOne, PlotOfOne
<1> QED
  BY <1>1, <1>3, <1>4 DEF SignalInv, OneSignal, PipeInit

\* Nothing new of a signal comes on the way, and what main has stays.
LEMMA NothingOfSignal ==
    ASSUME SignalInv, PipeTyped',
           UNCHANGED <<receiving, cid, signalData, plotted, overlap, toGenerator, request, sendingChunk>>,
           \A m \in OnTheWay' : m \in OnTheWay \/ ~OfSignal(m)
    PROVE  SignalInv'
<1> SUFFICES ASSUME ~overlap PROVE OneSignal'
  BY DEF SignalInv
<1>1. OneSignal
  BY DEF SignalInv
<1>2. ChunksCurrent'
  BY <1>1 DEF OneSignal, ChunksCurrent, OfSignal
<1>3. RequestAlone'
  BY <1>1 DEF OneSignal, RequestAlone
<1>4. DataOfOne' /\ PlotOfOne'
  BY <1>1 DEF OneSignal, DataOfOne, PlotOfOne
<1> QED
  BY <1>1, <1>2, <1>3, <1>4 DEF OneSignal, Idle

\* A thread pushes something: it was on the way, or is not of a signal.
LEMMA PipePushed ==
    ASSUME SignalInv, NEW x \in PipeEvents, pqueue' = Append(pqueue, x),
           ~OfSignal(x) \/ (rx = "push" /\ x = rxMsg),
           rx' = rx \/ rx' # "push",
           pkey' = pkey, keyThread' = keyThread \/ keyThread' # "push",
           UNCHANGED <<rxMsg, receiving, cid, signalData, plotted, overlap, toGenerator, pipe, request, sendingChunk>>
    PROVE  SignalInv'
<1>1. pqueue \in Seq(PipeEvents)
  BY DEF SignalInv, PipeTyped
<1>2. pqueue' \in Seq(PipeEvents) /\ Members(pqueue') = Members(pqueue) \cup {x}
  BY <1>1, MembersAppended
<1>3. PipeTyped'
  BY <1>2 DEF SignalInv, PipeTyped, Idle
<1>4. \A m \in OnTheWay' : m \in OnTheWay \/ ~OfSignal(m)
  BY <1>2 DEF OnTheWay
<1> QED
  BY <1>3, <1>4, NothingOfSignal

LEMMA KeySignal ==
    ASSUME SignalInv
    PROVE  /\ \A k \in {"set", "receive", "abort", "clear", "none"} : KeyTyped(k) => SignalInv'
           /\ KeyStep \/ QuitTyped => SignalInv'
<1>1. ASSUME NEW k \in {"set", "receive", "abort", "clear", "none"}, KeyTyped(k) PROVE SignalInv'
  <2>1. PipeTyped' /\ OnTheWay' = OnTheWay
    BY <1>1 DEF KeyTyped, SignalInv, PipeTyped, OnTheWay, rxVars, signalVars, generatorVars, Idle
  <2> QED
    BY <1>1, <2>1, NothingOfSignal DEF KeyTyped, signalVars, generatorVars
<1>2. CASE KeyPush
  <2>1. pkey \in {"set", "receive", "abort", "clear", "none"}
    BY <1>2 DEF KeyPush, SignalInv, PipeTyped
  <2>2. Msg(pkey) \in PipeEvents /\ ~OfSignal(Msg(pkey))
    BY <2>1 DEF Msg, PipeEvents, OfSignal
  <2>3. pqueue' = Append(pqueue, Msg(pkey)) /\ keyThread' # "push"
    BY <1>2 DEF KeyPush
  <2> QED
    BY <1>2, <2>2, <2>3, PipePushed DEF KeyPush, rxVars, signalVars, generatorVars
<1>3. CASE KeyLastPush
  <2>1. Msg("quit") \in PipeEvents /\ ~OfSignal(Msg("quit"))
    BY DEF Msg, PipeEvents, OfSignal
  <2>2. pqueue' = Append(pqueue, Msg("quit")) /\ keyThread' # "push"
    BY <1>3 DEF KeyLastPush
  <2> QED
    BY <1>3, <2>1, <2>2, PipePushed DEF KeyLastPush, rxVars, signalVars, generatorVars
<1>4. CASE QuitTyped
  <2>1. PipeTyped' /\ OnTheWay' = OnTheWay
    BY <1>4 DEF QuitTyped, SignalInv, PipeTyped, OnTheWay, rxVars, signalVars, generatorVars, Idle
  <2> QED
    BY <1>4, <2>1, NothingOfSignal DEF QuitTyped, signalVars, generatorVars
<1> QED
  BY <1>1, <1>2, <1>3, <1>4 DEF KeyStep

LEMMA RxSignal == ASSUME SignalInv, RxStep \/ RxCut PROVE SignalInv'
<1>0. pqueue \in Seq(PipeEvents) /\ pipe \in Seq(PipeEvents) /\ rxMsg \in PipeEvents
  BY DEF SignalInv, PipeTyped
<1>1. CASE RxMessage
  <2>1. Tail(pipe) \in Seq(PipeEvents) /\ Members(Tail(pipe)) \subseteq Members(pipe)
        /\ Head(pipe) \in PipeEvents /\ Head(pipe) \in Members(pipe)
    BY <1>0, <1>1, MembersOfRest DEF RxMessage
  <2>2. pipe' = Tail(pipe) /\ rxMsg' = Head(pipe) /\ UNCHANGED pqueue
    BY <1>1 DEF RxMessage
  <2>3. PipeTyped'
    BY <1>1, <2>1, <2>2 DEF RxMessage, SignalInv, PipeTyped, keyVars, signalVars, generatorVars, Idle
  <2>4. \A m \in OnTheWay' : m \in OnTheWay
    BY <2>1, <2>2 DEF OnTheWay
  <2> QED
    BY <1>1, <2>3, <2>4, NothingOfSignal DEF RxMessage, signalVars, generatorVars
<1>2. CASE RxCut
  <2>1. PICK k \in 1 .. Len(pipe) : pipe' = SubSeq(pipe, k + 1, Len(pipe))
    BY <1>2 DEF RxCut
  <2>2. pipe' \in Seq(PipeEvents) /\ Members(pipe') \subseteq Members(pipe)
    BY <1>0, <2>1, MembersOfSuffix
  <2>3. rx' = "check" /\ UNCHANGED <<pqueue, rxMsg>>
    BY <1>2 DEF RxCut
  <2>4. PipeTyped'
    BY <1>2, <2>2, <2>3 DEF RxCut, SignalInv, PipeTyped, keyVars, signalVars, generatorVars, Idle
  <2>5. \A m \in OnTheWay' : m \in OnTheWay
    BY <2>2, <2>3 DEF OnTheWay
  <2> QED
    BY <1>2, <2>4, <2>5, NothingOfSignal DEF RxCut, signalVars, generatorVars
<1>3. CASE RxPush
  <2>1. pqueue' = Append(pqueue, rxMsg) /\ rx = "push" /\ rx' # "push"
    BY <1>3 DEF RxPush
  <2> QED
    BY <1>0, <1>3, <2>1, PipePushed DEF RxPush, keyVars, signalVars, generatorVars
<1>4. CASE RxLastPush
  <2>1. Msg("rxQuit") \in PipeEvents /\ ~OfSignal(Msg("rxQuit"))
    BY DEF Msg, PipeEvents, OfSignal
  <2>2. pqueue' = Append(pqueue, Msg("rxQuit")) /\ rx' # "push"
    BY <1>4 DEF RxLastPush
  <2> QED
    BY <1>4, <2>1, <2>2, PipePushed DEF RxLastPush, keyVars, signalVars, generatorVars
<1>5. CASE RxQuiet \/ RxCheck
  <2>1. UNCHANGED <<pqueue, pipe, rxMsg, keyVars, signalVars, toGenerator, generatorVars>> /\ rx' # "push"
    BY <1>5 DEF RxQuiet, RxCheck
  <2>2. PipeTyped' /\ \A m \in OnTheWay' : m \in OnTheWay
    BY <2>1 DEF SignalInv, PipeTyped, OnTheWay, keyVars, signalVars, generatorVars, Idle
  <2> QED
    BY <2>1, <2>2, NothingOfSignal DEF signalVars, generatorVars
<1> QED
  BY <1>1, <1>2, <1>3, <1>4, <1>5 DEF RxStep

-----------------------------------------------------------------------------
(* main *)

\* What main takes was on the way, and nothing else comes.
LEMMA PipePopped ==
    ASSUME SignalInv, NEW type, PPop(type)
    PROVE  /\ pqueue' \in Seq(PipeEvents)
           /\ OnTheWay' \subseteq OnTheWay
           /\ Head(pqueue) \in OnTheWay /\ Head(pqueue) \in PipeEvents /\ Head(pqueue).type = type
<1>1. pqueue \in Seq(PipeEvents) /\ pqueue # <<>>
  BY DEF SignalInv, PipeTyped, PPop
<1>2. Tail(pqueue) \in Seq(PipeEvents) /\ Members(Tail(pqueue)) \subseteq Members(pqueue)
      /\ Head(pqueue) \in PipeEvents /\ Head(pqueue) \in Members(pqueue)
  BY <1>1, MembersOfRest
<1> QED
  BY <1>2 DEF PPop, rxVars, OnTheWay

\* A plot or data that are cleared, and a reception that ends, harm nothing;
\* nor does another command for the generator.
LEMMA SignalDropped ==
    ASSUME SignalInv, PipeTyped', OnTheWay' \subseteq OnTheWay,
           UNCHANGED <<overlap, request, sendingChunk>>,
           UNCHANGED receiving \/ ~receiving', receiving' => UNCHANGED cid,
           \/ UNCHANGED signalData
           \/ ~receiving' /\ signalData' = <<>>
           \/ signalData' = [i \in DOMAIN signalData |-> Zero],
           UNCHANGED plotted \/ plotted' = <<>>,
           \/ UNCHANGED toGenerator
           \/ \E c \in {"abort", "set"} : toGenerator' = Append(toGenerator, c)
    PROVE  SignalInv'
<1> SUFFICES ASSUME ~overlap PROVE OneSignal'
  BY DEF SignalInv
<1>1. OneSignal /\ PipeTyped
  BY DEF SignalInv
<1>2. ChunksCurrent'
  BY <1>1 DEF OneSignal, ChunksCurrent
<1>3. /\ Len(signalData) \in Nat
      /\ Len(signalData') \in Nat
      /\ signalData' = <<>> => Len(signalData') = 0
      /\ signalData = <<>> => signalData' = <<>>
      /\ signalData' # <<>> => signalData # <<>> /\ Len(signalData') = Len(signalData)
      /\ \A k \in 1 .. Len(signalData') : signalData'[k] \in {Zero, signalData[k]} /\ k \in 1 .. Len(signalData)
  <2>1. signalData \in Seq(Nat \X Nat) /\ signalData' \in Seq(Nat \X Nat)
    BY <1>1 DEF PipeTyped
  <2>2. CASE UNCHANGED signalData
    BY <2>1, <2>2
  <2>3. CASE signalData' = <<>>
    BY <2>1, <2>3
  <2>4. CASE signalData' = [i \in DOMAIN signalData |-> Zero]
    <3>1. DOMAIN signalData = 1 .. Len(signalData) /\ Len(signalData) \in Nat
      BY <2>1
    <3>2. DOMAIN signalData' = 1 .. Len(signalData)
      BY <2>4, <3>1
    <3>3. Len(signalData') = Len(signalData)
      BY <2>1, <3>1, <3>2
    <3>4. \A k \in 1 .. Len(signalData) : signalData'[k] = Zero
      BY <2>4, <3>1
    <3> QED
      BY <2>1, <3>1, <3>3, <3>4
  <2> QED
    BY <2>2, <2>3, <2>4
<1>4. RequestAlone'
  <2>1. toGenerator \in Seq({"signal", "abort", "set"}) /\ Len(toGenerator) \in Nat
    BY <1>1 DEF PipeTyped
  <2>2. \A i \in 1 .. Len(toGenerator') :
           toGenerator'[i] = "signal" => i \in 1 .. Len(toGenerator) /\ toGenerator[i] = "signal"
    <3>1. CASE UNCHANGED toGenerator
      BY <3>1
    <3>2. ASSUME NEW c \in {"abort", "set"}, toGenerator' = Append(toGenerator, c)
          PROVE  \A i \in 1 .. Len(toGenerator') :
                    toGenerator'[i] = "signal" => i \in 1 .. Len(toGenerator) /\ toGenerator[i] = "signal"
      <4>1. c \in {"signal", "abort", "set"} /\ c # "signal"
        BY <3>2
      <4>2. Len(toGenerator') = Len(toGenerator) + 1 /\ toGenerator'[Len(toGenerator) + 1] = c
            /\ \A i \in 1 .. Len(toGenerator) : toGenerator'[i] = toGenerator[i]
        BY <2>1, <3>2, <4>1
      <4> QED
        BY <2>1, <4>1, <4>2
    <3> QED
      BY <3>1, <3>2
  <2>3. Idle' = Idle
    BY DEF Idle
  <2> QED
    BY <1>1, <1>3, <2>2, <2>3 DEF OneSignal, RequestAlone
<1>5. DataOfOne'
  <2>1. \A k \in 1 .. Len(signalData') : signalData'[k] \in {Zero, <<request', k - 1>>}
    BY <1>1, <1>3 DEF OneSignal, DataOfOne
  <2>2. signalData' # <<>> => request' > 0
    BY <1>1, <1>3 DEF OneSignal, DataOfOne
  <2>3. receiving' => cid' = Len(signalData')
    <3> SUFFICES ASSUME receiving' PROVE cid' = Len(signalData')
      OBVIOUS
    <3>1. receiving /\ cid' = cid /\ cid = Len(signalData)
      BY <1>1 DEF OneSignal, DataOfOne
    <3>2. CASE signalData = <<>>
      BY <1>3, <3>1, <3>2
    <3>3. CASE signalData # <<>>
      <4>1. Len(signalData) > 0
        BY <1>1, <3>3 DEF PipeTyped
      <4>2. signalData' # <<>>
        <5>1. CASE UNCHANGED signalData
          BY <3>3, <5>1
        <5>2. CASE signalData' = [i \in DOMAIN signalData |-> Zero]
          <6>1. 1 \in DOMAIN signalData'
            BY <1>1, <4>1, <5>2 DEF PipeTyped
          <6> QED
            BY <6>1
        <5> QED
          BY <5>1, <5>2
      <4> QED
        BY <1>3, <3>1, <4>2
    <3> QED
      BY <3>2, <3>3
  <2> QED
    BY <2>1, <2>2, <2>3 DEF DataOfOne
<1>6. PlotOfOne'
  BY <1>1 DEF OneSignal, PlotOfOne
<1> QED
  BY <1>1, <1>2, <1>4, <1>5, <1>6 DEF OneSignal, Idle

LEMMA OtherSignal ==
    ASSUME SignalInv,
           HandleClear \/ HandleSet \/ HandleAbortKey \/ HandleQuitKey \/ HandleOther \/ HandleAborted
    PROVE  SignalInv'
<1>1. PICK type \in {"clear", "set", "abort", "quit", "none", "ok", "aborted"} : PPop(type)
  BY DEF HandleClear, HandleSet, HandleAbortKey, HandleQuitKey, HandleOther, HandleAborted
<1>2. pqueue' \in Seq(PipeEvents) /\ OnTheWay' \subseteq OnTheWay
  BY <1>1, PipePopped
<1>3. UNCHANGED <<keyVars, rxVars, pipe, generatorVars, overlap>>
  BY <1>1 DEF PPop, HandleClear, HandleSet, HandleAbortKey, HandleQuitKey, HandleOther, HandleAborted, signalVars
<1>4. PipeTyped
  BY DEF SignalInv
<1>5. toGenerator' = toGenerator \/ \E c \in {"abort", "set"} : toGenerator' = Append(toGenerator, c)
  BY DEF HandleClear, HandleSet, HandleAbortKey, HandleQuitKey, HandleOther, HandleAborted
<1>6. toGenerator' \in Seq({"signal", "abort", "set"})
  <2>1. toGenerator \in Seq({"signal", "abort", "set"})
    BY <1>4 DEF PipeTyped
  <2>2. \A c \in {"abort", "set"} : Append(toGenerator, c) \in Seq({"signal", "abort", "set"})
    BY <2>1
  <2> QED
    BY <1>5, <2>1, <2>2
<1>7. \/ UNCHANGED signalData
      \/ ~receiving' /\ signalData' = <<>>
      \/ signalData' = [i \in DOMAIN signalData |-> Zero]
  BY DEF HandleClear, HandleSet, HandleAbortKey, HandleQuitKey, HandleOther, HandleAborted, signalVars
<1>8. signalData' \in Seq(Nat \X Nat)
  <2>1. CASE signalData' = [i \in DOMAIN signalData |-> Zero]
    <3>1. Zero \in Nat \X Nat
      BY DEF Zero
    <3>2. Len(signalData) \in Nat /\ DOMAIN signalData = 1 .. Len(signalData)
      BY <1>4 DEF PipeTyped
    <3>3. signalData' \in [1 .. Len(signalData) -> Nat \X Nat]
      BY <2>1, <3>1, <3>2
    <3> QED
      BY <3>2, <3>3
  <2>2. <<>> \in Seq(Nat \X Nat)
    OBVIOUS
  <2> QED
    BY <1>4, <1>7, <2>1, <2>2 DEF PipeTyped
<1>9. UNCHANGED cid /\ (UNCHANGED receiving \/ ~receiving') /\ receiving' \in BOOLEAN
  BY <1>4 DEF HandleClear, HandleSet, HandleAbortKey, HandleQuitKey, HandleOther, HandleAborted, signalVars, PipeTyped
<1>10. UNCHANGED plotted \/ plotted' = <<>>
  BY DEF HandleClear, HandleSet, HandleAbortKey, HandleQuitKey, HandleOther, HandleAborted, signalVars
<1>11. PipeTyped'
  BY <1>2, <1>3, <1>4, <1>6, <1>8, <1>9 DEF PipeTyped, keyVars, rxVars, generatorVars, Idle
<1> QED
  BY <1>2, <1>3, <1>5, <1>7, <1>9, <1>10, <1>11, SignalDropped DEF generatorVars

\* A request made while anything of an earlier signal is on its way is not
\* covered by the promise; otherwise nothing is, and the data are cleared.
LEMMA ReceiveSignal == ASSUME SignalInv, HandleReceive PROVE SignalInv'
<1>1. PPop("receive") /\ PipeTyped
  BY DEF HandleReceive, SignalInv
<1>2. pqueue' \in Seq(PipeEvents) /\ OnTheWay' \subseteq OnTheWay
  BY <1>1, PipePopped
<1>3. UNCHANGED <<keyVars, rxVars, pipe, generatorVars>>
  BY <1>1 DEF PPop
<1>4. CASE receiving
  <2>1. UNCHANGED <<signalVars, toGenerator>>
    BY <1>4 DEF HandleReceive
  <2>2. PipeTyped'
    BY <1>1, <1>2, <1>3, <2>1 DEF PipeTyped, keyVars, rxVars, signalVars, generatorVars, Idle
  <2> QED
    BY <1>2, <1>3, <2>1, <2>2, NothingOfSignal DEF signalVars, generatorVars
<1>5. CASE ~receiving
  <2>1. /\ receiving' = TRUE /\ cid' = 0 /\ signalData' = <<>>
        /\ toGenerator' = Append(toGenerator, "signal")
        /\ overlap' = (overlap \/ OnItsWay)
        /\ UNCHANGED plotted
    BY <1>5 DEF HandleReceive
  <2>2. PipeTyped'
    <3>1. overlap' \in BOOLEAN
      BY <2>1
    <3>2. toGenerator' \in Seq({"signal", "abort", "set"})
      BY <1>1, <2>1 DEF PipeTyped
    <3> QED
      BY <1>1, <1>2, <1>3, <2>1, <3>1, <3>2 DEF PipeTyped, keyVars, rxVars, generatorVars, Idle
  <2> SUFFICES ASSUME ~overlap' PROVE OneSignal'
    BY <2>2 DEF SignalInv
  <2>3. ~overlap /\ ~OnItsWay
    BY <2>1
  <2>4. OneSignal
    BY <2>3 DEF SignalInv
  <2>5. sendingChunk = Idle /\ toGenerator = <<>>
    BY <2>3 DEF OnItsWay
  <2>6. \A m \in OnTheWay' : ~OfSignal(m)
    <3>1. \A i \in DOMAIN pipe : ~OfSignal(pipe[i])
      BY <2>3 DEF OnItsWay, OfSignal
    <3>2. \A i \in DOMAIN pqueue' : ~OfSignal(pqueue'[i])
      BY <2>3 DEF OnItsWay, OfSignal
    <3>3. rx = "push" => ~OfSignal(rxMsg)
      <4> SUFFICES ASSUME rx = "push" PROVE ~OfSignal(rxMsg)
        OBVIOUS
      <4>1. \A i \in DOMAIN <<rxMsg>> : <<rxMsg>>[i].type \notin {"data", "done"}
        BY <2>3 DEF OnItsWay
      <4>2. 1 \in DOMAIN <<rxMsg>> /\ <<rxMsg>>[1] = rxMsg
        OBVIOUS
      <4> QED
        BY <4>1, <4>2 DEF OfSignal
    <3>4. DOMAIN pipe = 1 .. Len(pipe) /\ DOMAIN pqueue' = 1 .. Len(pqueue')
      BY <1>1, <1>2 DEF PipeTyped
    <3>5. \A m \in Members(pipe) : ~OfSignal(m)
      BY <3>1, <3>4 DEF Members
    <3>6. \A m \in Members(pqueue)' : ~OfSignal(m)
      BY <3>2, <3>4 DEF Members
    <3> QED
      BY <1>3, <3>3, <3>5, <3>6 DEF OnTheWay, rxVars, Members
  <2>7. ChunksCurrent'
    BY <2>6 DEF ChunksCurrent, OfSignal
  <2>8. RequestAlone'
    <3>1. toGenerator' = <<"signal">> /\ Len(<<"signal">>) = 1
      BY <2>1, <2>5
    <3> QED
      BY <1>3, <2>1, <2>5, <2>6, <3>1 DEF RequestAlone, generatorVars, Idle
  <2>9. DataOfOne'
    BY <2>1 DEF DataOfOne
  <2>10. PlotOfOne'
    BY <1>3, <2>1, <2>4 DEF OneSignal, PlotOfOne, generatorVars
  <2> QED
    BY <1>3, <2>5, <2>7, <2>8, <2>9, <2>10 DEF OneSignal, generatorVars, Idle
<1> QED
  BY <1>4, <1>5

LEMMA DataSignal == ASSUME SignalInv, HandleData PROVE SignalInv'
<1> USE PipeAssumption
<1> DEFINE m == Head(pqueue)
<1>1. PPop("data") /\ PipeTyped
  BY DEF HandleData, SignalInv
<1>2. /\ pqueue' \in Seq(PipeEvents) /\ OnTheWay' \subseteq OnTheWay
      /\ m \in OnTheWay /\ m \in PipeEvents /\ m.type = "data"
  BY <1>1, PipePopped
<1>3. m.request \in Nat /\ m.cid \in Nat
  BY <1>2 DEF PipeEvents
<1> HIDE DEF m
<1>4. UNCHANGED <<keyVars, rxVars, pipe, generatorVars, toGenerator, plotted, overlap>>
  BY <1>1 DEF PPop, HandleData
<1>5. signalData \in Seq(Nat \X Nat) /\ Len(signalData) \in Nat /\ cid \in Nat
  BY <1>1 DEF PipeTyped
<1>6. CASE receiving /\ ChunkFits(m)
  <2>1. signalData' = Append(signalData, <<m.request, m.cid>>) /\ cid' = cid + 1 /\ receiving' = receiving
    BY <1>6 DEF HandleData, m
  <2>2. <<m.request, m.cid>> \in Nat \X Nat
    BY <1>3
  <2>3. signalData' \in Seq(Nat \X Nat) /\ Len(signalData') = Len(signalData) + 1
        /\ \A k \in 1 .. Len(signalData) : signalData'[k] = signalData[k]
    BY <1>5, <2>1, <2>2
  <2>4. signalData'[Len(signalData) + 1] = <<m.request, m.cid>> /\ signalData' # <<>>
    BY <1>5, <2>1, <2>2
  <2>5. PipeTyped'
    BY <1>1, <1>2, <1>4, <1>5, <2>1, <2>3 DEF PipeTyped, keyVars, rxVars, generatorVars, Idle
  <2> SUFFICES ASSUME ~overlap PROVE OneSignal'
    BY <1>4, <2>5 DEF SignalInv
  <2>6. OneSignal
    BY DEF SignalInv
  <2>7. m.request = request /\ request > 0
    BY <1>2, <2>6 DEF OneSignal, ChunksCurrent
  <2>8. m.cid = Len(signalData)
    BY <1>6, <2>6 DEF OneSignal, DataOfOne, ChunkFits
  <2>9. ChunksCurrent'
    BY <1>2, <1>4, <2>6 DEF OneSignal, ChunksCurrent, generatorVars
  <2>10. RequestAlone'
    <3>1. \A i \in 1 .. Len(toGenerator) : toGenerator[i] # "signal"
      BY <1>2, <2>6 DEF OneSignal, RequestAlone, OfSignal
    <3> QED
      BY <1>4, <3>1 DEF RequestAlone
  <2>11. DataOfOne'
    <3>1. request' = request
      BY <1>4 DEF generatorVars
    <3>2. \A k \in 1 .. Len(signalData') : signalData'[k] \in {Zero, <<request', k - 1>>}
      <4> TAKE k \in 1 .. Len(signalData')
      <4>1. CASE k \in 1 .. Len(signalData)
        BY <2>3, <2>6, <3>1, <4>1 DEF OneSignal, DataOfOne
      <4>2. CASE k = Len(signalData) + 1
        <5>1. m.cid = k - 1 /\ m.request = request'
          BY <1>5, <2>7, <2>8, <3>1, <4>2
        <5> QED
          BY <2>4, <4>2, <5>1
      <4> QED
        BY <1>5, <2>3, <4>1, <4>2
    <3>3. receiving' => cid' = Len(signalData')
      BY <1>6, <2>1, <2>3, <2>6 DEF OneSignal, DataOfOne
    <3> QED
      BY <2>7, <3>1, <3>2, <3>3 DEF DataOfOne
  <2>12. PlotOfOne'
    BY <1>4, <2>6 DEF OneSignal, PlotOfOne, generatorVars
  <2> QED
    BY <1>4, <2>6, <2>9, <2>10, <2>11, <2>12 DEF OneSignal, generatorVars, Idle
<1>7. CASE ~(receiving /\ ChunkFits(m))
  <2>1. /\ receiving' = (receiving /\ m.cid # cid)
        /\ cid' = IF receiving /\ m.cid = cid THEN cid + 1 ELSE cid
        /\ UNCHANGED signalData
    BY <1>7 DEF HandleData, m
  <2>2. receiving' \in BOOLEAN /\ cid' \in Nat
    BY <1>5, <2>1
  <2>3. (UNCHANGED receiving \/ ~receiving') /\ (receiving' => cid' = cid)
    BY <1>1, <2>1 DEF PipeTyped
  <2>4. PipeTyped'
    BY <1>1, <1>2, <1>4, <2>1, <2>2 DEF PipeTyped, keyVars, rxVars, generatorVars, Idle
  <2> QED
    BY <1>2, <1>4, <2>1, <2>3, <2>4, SignalDropped DEF generatorVars
<1> QED
  BY <1>6, <1>7

\* What is drawn was received, so of one request.
LEMMA DoneSignal == ASSUME SignalInv, HandleDone PROVE SignalInv'
<1> USE PipeAssumption
<1>1. PPop("done") /\ PipeTyped
  BY DEF HandleDone, SignalInv
<1>2. pqueue' \in Seq(PipeEvents) /\ OnTheWay' \subseteq OnTheWay
  BY <1>1, PipePopped
<1>3. UNCHANGED <<keyVars, rxVars, pipe, generatorVars, toGenerator, cid, signalData, overlap>> /\ receiving' = FALSE
  BY <1>1 DEF PPop, HandleDone
<1>4. PipeTyped'
  BY <1>1, <1>2, <1>3 DEF PipeTyped, keyVars, rxVars, generatorVars, Idle
<1> SUFFICES ASSUME ~overlap PROVE OneSignal'
  BY <1>3, <1>4 DEF SignalInv
<1>5. OneSignal
  BY DEF SignalInv
<1>6. ChunksCurrent' /\ RequestAlone' /\ DataOfOne'
  BY <1>2, <1>3, <1>5 DEF OneSignal, ChunksCurrent, RequestAlone, DataOfOne, generatorVars, Idle
<1>7. PlotOfOne'
  <2>1. CASE receiving /\ AllReceived
    <3>1. plotted' = signalData /\ Len(signalData) = Chunks
      BY <2>1 DEF HandleDone, AllReceived
    <3> SUFFICES ASSUME plotted' # <<>>
                 PROVE  \E r \in 1 .. request' : \A k \in 1 .. Chunks : plotted'[k] \in {Zero, <<r, k - 1>>}
      BY <3>1 DEF PlotOfOne
    <3>2. request > 0 /\ request \in Nat /\ request' = request
      BY <1>1, <1>3, <1>5, <3>1 DEF OneSignal, DataOfOne, PipeTyped, generatorVars
    <3>3. \A k \in 1 .. Chunks : plotted'[k] \in {Zero, <<request, k - 1>>}
      BY <1>5, <3>1 DEF OneSignal, DataOfOne
    <3> QED
      BY <3>2, <3>3
  <2>2. CASE ~(receiving /\ AllReceived)
    BY <1>3, <1>5, <2>2 DEF HandleDone, OneSignal, PlotOfOne, generatorVars
  <2> QED
    BY <2>1, <2>2
<1> QED
  BY <1>3, <1>5, <1>6, <1>7 DEF OneSignal, generatorVars, Idle

LEMMA LeavesSignal == ASSUME SignalInv, Leaves PROVE SignalInv'
<1>1. PipeTyped
  BY DEF SignalInv
<1>2. UNCHANGED <<keyVars, rxVars, signalVars, toGenerator, pipe, generatorVars>>
  BY DEF Leaves
<1>3. pqueue' \in Seq(PipeEvents) /\ Members(pqueue') \subseteq Members(pqueue)
  <2>1. CASE pqueue # <<>> /\ pqueue' = Tail(pqueue)
    BY <1>1, <2>1, MembersOfRest DEF PipeTyped
  <2>2. CASE pqueue' = pqueue
    BY <1>1, <2>2 DEF PipeTyped
  <2> QED
    BY <2>1, <2>2 DEF Leaves
<1>4. PipeTyped' /\ \A m \in OnTheWay' : m \in OnTheWay
  BY <1>1, <1>2, <1>3 DEF PipeTyped, OnTheWay, keyVars, rxVars, signalVars, generatorVars, Idle
<1> QED
  BY <1>2, <1>4, NothingOfSignal DEF signalVars, generatorVars

LEMMA ClientSignal == ASSUME SignalInv, ClientStep PROVE SignalInv'
<1>1. CASE MainClears
  <2>1. Msg("clear") \in PipeEvents /\ ~OfSignal(Msg("clear"))
    BY DEF Msg, PipeEvents, OfSignal
  <2>2. pqueue' = Append(pqueue, Msg("clear"))
    BY <1>1 DEF MainClears
  <2> QED
    BY <1>1, <2>1, <2>2, PipePushed DEF MainClears, keyVars, rxVars, signalVars, generatorVars
<1> QED
  BY <1>1, OtherSignal, ReceiveSignal, DataSignal, DoneSignal, LeavesSignal DEF ClientStep

-----------------------------------------------------------------------------
(* the generator *)

LEMMA GeneratorTakesSignal == ASSUME SignalInv, GeneratorTakes PROVE SignalInv'
<1> USE PipeAssumption
<1>1. PipeTyped /\ toGenerator # <<>> /\ toGenerator' = Tail(toGenerator)
  BY DEF GeneratorTakes, SignalInv
<1>2. UNCHANGED <<pqueue, keyVars, rxVars, signalVars>>
  BY DEF GeneratorTakes
<1>3. toGenerator \in Seq({"signal", "abort", "set"}) /\ Len(toGenerator) \in Nat /\ Len(toGenerator) >= 1
  BY <1>1 DEF PipeTyped
<1>4. toGenerator' \in Seq({"signal", "abort", "set"}) /\ Len(toGenerator') = Len(toGenerator) - 1
      /\ Head(toGenerator) = toGenerator[1] /\ Head(toGenerator) \in {"signal", "abort", "set"}
      /\ \A i \in 1 .. Len(toGenerator') : toGenerator'[i] = toGenerator[i + 1] /\ i + 1 \in 1 .. Len(toGenerator)
  BY <1>1, <1>3
<1>5. \/ /\ Head(toGenerator) = "signal" /\ request' = request + 1 /\ sendingChunk' = 0 /\ UNCHANGED pipe
      \/ /\ Head(toGenerator) = "abort" /\ sendingChunk' = Idle /\ UNCHANGED <<request, pipe>>
      \/ /\ Head(toGenerator) = "set" /\ pipe' = Append(pipe, Msg("ok")) /\ UNCHANGED <<request, sendingChunk>>
  BY <1>4 DEF GeneratorTakes
<1>6. pipe' \in Seq(PipeEvents) /\ \A m \in Members(pipe)' : m \in Members(pipe) \/ ~OfSignal(m)
  <2>1. Msg("ok") \in PipeEvents /\ ~OfSignal(Msg("ok"))
    BY DEF Msg, PipeEvents, OfSignal
  <2>2. CASE pipe' = Append(pipe, Msg("ok"))
    <3>1. Append(pipe, Msg("ok")) \in Seq(PipeEvents) /\ Members(Append(pipe, Msg("ok"))) = Members(pipe) \cup {Msg("ok")}
      BY <1>1, <2>1, MembersAppended DEF PipeTyped
    <3>2. Members(pipe)' = Members(Append(pipe, Msg("ok")))
      BY <2>2 DEF Members
    <3> QED
      BY <2>1, <2>2, <3>1, <3>2
  <2>3. CASE UNCHANGED pipe
    BY <1>1, <2>3 DEF PipeTyped, Members
  <2> QED
    BY <1>5, <2>2, <2>3
<1>7. \A m \in OnTheWay' : m \in OnTheWay \/ ~OfSignal(m)
  BY <1>2, <1>6 DEF OnTheWay, rxVars, Members
<1>8. PipeTyped'
  <2>1. request' \in Nat /\ sendingChunk' \in 0 .. Idle
    BY <1>1, <1>5 DEF PipeTyped, Idle
  <2> QED
    BY <1>1, <1>2, <1>4, <1>6, <2>1 DEF PipeTyped, keyVars, rxVars, signalVars, Idle
<1> SUFFICES ASSUME ~overlap PROVE OneSignal'
  BY <1>2, <1>8 DEF SignalInv, signalVars
<1>9. OneSignal
  BY DEF SignalInv
<1>10. \A i \in 1 .. Len(toGenerator') : toGenerator'[i] # "signal"
  BY <1>4, <1>9 DEF OneSignal, RequestAlone
<1>11. RequestAlone'
  BY <1>10 DEF RequestAlone
<1>12. CASE Head(toGenerator) = "signal"
  <2>1. request' = request + 1 /\ request \in Nat
    BY <1>1, <1>5, <1>12 DEF PipeTyped
  <2>2. signalData = <<>> /\ \A m \in OnTheWay : ~OfSignal(m)
    BY <1>3, <1>4, <1>9, <1>12 DEF OneSignal, RequestAlone
  <2>3. ChunksCurrent'
    BY <1>7, <2>2 DEF ChunksCurrent, OfSignal
  <2>4. DataOfOne'
    BY <1>2, <1>9, <2>2 DEF DataOfOne, OneSignal, signalVars
  <2>5. PlotOfOne'
    <3>1. \A r \in 1 .. request : r \in 1 .. request'
      BY <2>1
    <3> QED
      BY <1>2, <1>9, <3>1 DEF OneSignal, PlotOfOne, signalVars
  <2> QED
    BY <1>11, <2>1, <2>3, <2>4, <2>5 DEF OneSignal
<1>13. CASE Head(toGenerator) # "signal"
  <2>1. request' = request /\ (sendingChunk' = sendingChunk \/ sendingChunk' = Idle)
    BY <1>5, <1>13
  <2>2. ChunksCurrent'
    BY <1>7, <1>9, <2>1 DEF ChunksCurrent, OfSignal, OneSignal
  <2>3. DataOfOne' /\ PlotOfOne'
    BY <1>2, <1>9, <2>1 DEF OneSignal, DataOfOne, PlotOfOne, signalVars
  <2> QED
    BY <1>9, <1>11, <2>1, <2>2, <2>3 DEF OneSignal, Idle
<1> QED
  BY <1>12, <1>13

LEMMA GeneratorAbortsSignal == ASSUME SignalInv, GeneratorAborts PROVE SignalInv'
<1> USE PipeAssumption
<1>1. PipeTyped /\ sendingChunk # Idle /\ pipe' = Append(pipe, Msg("aborted")) /\ sendingChunk' = Idle
  BY DEF GeneratorAborts, SignalInv
<1>2. UNCHANGED <<pqueue, keyVars, rxVars, signalVars, toGenerator, request>>
  BY DEF GeneratorAborts
<1>3. Msg("aborted") \in PipeEvents /\ ~OfSignal(Msg("aborted")) /\ Msg("aborted").type # "data"
  BY DEF Msg, PipeEvents, OfSignal
<1>4. pipe' \in Seq(PipeEvents) /\ Members(pipe)' = Members(pipe) \cup {Msg("aborted")}
  <2>1. Append(pipe, Msg("aborted")) \in Seq(PipeEvents)
        /\ Members(Append(pipe, Msg("aborted"))) = Members(pipe) \cup {Msg("aborted")}
    BY <1>1, <1>3, MembersAppended DEF PipeTyped
  <2> QED
    BY <1>1, <2>1 DEF Members
<1>5. PipeTyped'
  BY <1>1, <1>2, <1>4 DEF PipeTyped, keyVars, rxVars, signalVars, Idle
<1> SUFFICES ASSUME ~overlap PROVE OneSignal'
  BY <1>2, <1>5 DEF SignalInv, signalVars
<1>6. OneSignal
  BY DEF SignalInv
<1>7. OnTheWay' = OnTheWay \cup {Msg("aborted")}
  BY <1>2, <1>4 DEF OnTheWay, rxVars, Members
<1>8. ChunksCurrent'
  BY <1>2, <1>3, <1>6, <1>7 DEF ChunksCurrent, OneSignal
<1>9. RequestAlone'
  BY <1>1, <1>2, <1>6 DEF OneSignal, RequestAlone
<1>10. DataOfOne' /\ PlotOfOne'
  BY <1>2, <1>6 DEF OneSignal, DataOfOne, PlotOfOne, signalVars
<1> QED
  BY <1>1, <1>8, <1>9, <1>10 DEF OneSignal, Idle

LEMMA GeneratorSendsSignal == ASSUME SignalInv, GeneratorSends PROVE SignalInv'
<1> USE PipeAssumption
<1> DEFINE sent == IF sendingChunk < Chunks THEN DataOf(request, sendingChunk) ELSE Msg("done")
<1>1. PipeTyped /\ sendingChunk # Idle /\ pipe' = Append(pipe, sent) /\ sendingChunk' = sendingChunk + 1
  BY DEF GeneratorSends, SignalInv
<1>2. UNCHANGED <<pqueue, keyVars, rxVars, signalVars, toGenerator, request>>
  BY DEF GeneratorSends
<1>3. sendingChunk \in 0 .. Chunks /\ request \in Nat
  BY <1>1 DEF PipeTyped, Idle
<1>4. sent \in PipeEvents /\ (sent.type = "data" => sent.request = request /\ sent.cid \in 0 .. Chunks - 1)
  <2>1. CASE sendingChunk < Chunks
    <3>1. sent = [type |-> "data", request |-> request, cid |-> sendingChunk]
      BY <2>1 DEF DataOf
    <3> HIDE DEF sent
    <3> QED
      BY <1>3, <2>1, <3>1 DEF PipeEvents
  <2>2. CASE ~(sendingChunk < Chunks)
    <3>1. sent = [type |-> "done"]
      BY <2>2 DEF Msg
    <3> HIDE DEF sent
    <3> QED
      BY <3>1 DEF PipeEvents
  <2> QED
    BY <2>1, <2>2
<1> HIDE DEF sent
<1>5. pipe' \in Seq(PipeEvents) /\ Members(pipe)' = Members(pipe) \cup {sent}
  <2>1. Append(pipe, sent) \in Seq(PipeEvents) /\ Members(Append(pipe, sent)) = Members(pipe) \cup {sent}
    BY <1>1, <1>4, MembersAppended DEF PipeTyped
  <2> QED
    BY <1>1, <2>1 DEF Members
<1>6. PipeTyped'
  BY <1>1, <1>2, <1>3, <1>5 DEF PipeTyped, keyVars, rxVars, signalVars, Idle
<1> SUFFICES ASSUME ~overlap PROVE OneSignal'
  BY <1>2, <1>6 DEF SignalInv, signalVars
<1>7. OneSignal /\ request > 0
  BY <1>1 DEF SignalInv, OneSignal
<1>8. OnTheWay' = OnTheWay \cup {sent}
  BY <1>2, <1>5 DEF OnTheWay, rxVars, Members
<1>9. ChunksCurrent'
  BY <1>2, <1>4, <1>7, <1>8 DEF ChunksCurrent, OneSignal
<1>10. RequestAlone'
  BY <1>1, <1>2, <1>7 DEF OneSignal, RequestAlone
<1>11. DataOfOne' /\ PlotOfOne'
  BY <1>2, <1>7 DEF OneSignal, DataOfOne, PlotOfOne, signalVars
<1> QED
  BY <1>2, <1>7, <1>9, <1>10, <1>11 DEF OneSignal

LEMMA SignalNext == SignalInv /\ [PipeNext]_pipeVars => SignalInv'
<1> SUFFICES ASSUME SignalInv, [PipeNext]_pipeVars PROVE SignalInv'
  OBVIOUS
<1>1. CASE UNCHANGED pipeVars
  <2>1. PipeTyped' /\ OnTheWay' = OnTheWay
    BY <1>1 DEF pipeVars, SignalInv, PipeTyped, OnTheWay, Members, Idle
  <2> QED
    BY <1>1, <2>1, NothingOfSignal DEF pipeVars
<1>2. CASE \E k \in {"set", "receive", "abort", "clear", "none"} : KeyTyped(k)
  BY <1>2, KeySignal
<1> QED
  BY <1>1, <1>2, KeySignal, RxSignal, ClientSignal, GeneratorTakesSignal, GeneratorSendsSignal,
     GeneratorAbortsSignal DEF PipeNext

\* The receiving thread of pipe_io.c may lose any messages, and keys come at
\* any time: what the client of the signal generator draws is one signal.
THEOREM PlotIsOfOne == PipeSpec => []PlotIsOneSignal
<1>1. SignalInv => PlotIsOneSignal
  BY DEF SignalInv, OneSignal, PlotOfOne, PlotIsOneSignal
<1> QED
  BY <1>1, SignalInit, SignalNext, PTL DEF PipeSpec

-----------------------------------------------------------------------------
(* hw10: the host and the firmware *)

KeyEvents == {"version", "abort", "reset", "compute", "other", "quit"}
BoardReports == {"ok", "done", "data", "versionIs", "startup"}
HostEvents == KeyEvents \cup BoardReports \cup {"serialQuit", "none"}
BoardOrders == {c \in [type : {"version", "abort", "compute"}, tasks : Nat] : c.type = "compute" => c.tasks > 0}

\* The events that turn the flag, and the flag after main has handled an event.
Turning == {"ok", "done", "startup"}
FlagAfter(flag, e) == IF e = "ok" THEN ~flag ELSE IF e \in {"done", "startup"} THEN FALSE ELSE flag

\* What the flag is after k of the events of s: the last conjunct, that it stays
\* as it is from where no event turns it, follows by induction.
FlagRuns(runs, from, s, to) ==
    /\ runs \in [0 .. Len(s) -> BOOLEAN]
    /\ runs[0] = from /\ runs[Len(s)] = to
    /\ \A k \in 1 .. Len(s) : runs[k] = FlagAfter(runs[k - 1], s[k])
    /\ \A j \in 0 .. Len(s) : (\A k \in j + 1 .. Len(s) : s[k] \notin Turning) => runs[j] = to

Turns(from, s, to) == \E runs : FlagRuns(runs, from, s, to)

FlagHeld == IF hostMain = "lock" THEN FlagAfter(hcomputing, event) ELSE hcomputing
FlagRead(flag) == IF serialIn \in {"parse", "push"} THEN FlagAfter(flag, hmsg) ELSE flag

\* The flag main will have when it has heard all is what the board does now.
FlagFollows == \E queued \in BOOLEAN : Turns(FlagHeld, hqueue, queued) /\ Turns(FlagRead(queued), reports, working)

TaskTyped ==
    /\ hqueue \in Seq(HostEvents) /\ event \in HostEvents /\ hmsg \in BoardReports \cup {"none"}
    /\ reports \in Seq(BoardReports) /\ commands \in Seq(BoardOrders)
    /\ hkey \in HostKeys \cup {NoKey} /\ hcomputing \in BOOLEAN /\ working \in BOOLEAN /\ crossed \in BOOLEAN
    /\ tasksLeft \in Nat /\ nbrTasks \in Nat

\* A chunk that is to be computed has tasks.
TasksKnown ==
    nbrTasks = 0 =>
        /\ ~(keyboard = "push" /\ hkey.type = "compute")
        /\ \A i \in 1 .. Len(hqueue) : hqueue[i] # "compute"
        /\ event # "compute"

FlagInv ==
    /\ TaskTyped /\ TasksKnown
    /\ hostMain \in {"pop", "lock"} /\ ~crossed => FlagFollows

-----------------------------------------------------------------------------
(* the flag through a sequence of events *)

LEMMA FlagAfterTyped == ASSUME NEW a \in BOOLEAN, NEW e PROVE FlagAfter(a, e) \in BOOLEAN
BY DEF FlagAfter

LEMMA TurnsNone == ASSUME NEW a \in BOOLEAN PROVE Turns(a, <<>>, a)
<1> DEFINE runs == [k \in 0 .. 0 |-> a]
<1>1. runs \in [0 .. 0 -> BOOLEAN] /\ runs[0] = a
  OBVIOUS
<1>2. \A j \in 0 .. 0 : runs[j] = a
  OBVIOUS
<1> HIDE DEF runs
<1>3. FlagRuns(runs, a, <<>>, a)
  BY <1>1, <1>2 DEF FlagRuns
<1> QED
  BY <1>3 DEF Turns

\* An event that is sent is heard last.
LEMMA TurnsMore ==
    ASSUME NEW S, NEW s \in Seq(S), NEW e \in S, NEW from \in BOOLEAN, NEW to \in BOOLEAN, Turns(from, s, to)
    PROVE  Turns(from, Append(s, e), FlagAfter(to, e))
<1> DEFINE n == Len(s)
           t == Append(s, e)
           after == FlagAfter(to, e)
<1>1. n \in Nat /\ Len(t) = n + 1 /\ t[n + 1] = e /\ \A k \in 1 .. n : t[k] = s[k]
  OBVIOUS
<1>2. PICK runs : FlagRuns(runs, from, s, to)
  BY DEF Turns
<1>3. after \in BOOLEAN /\ (e \notin Turning => after = to)
  BY FlagAfterTyped DEF FlagAfter, Turning
<1>4. /\ runs \in [0 .. n -> BOOLEAN]
      /\ runs[0] = from /\ runs[n] = to
      /\ \A k \in 1 .. n : runs[k] = FlagAfter(runs[k - 1], s[k])
      /\ \A j \in 0 .. n : (\A k \in j + 1 .. n : s[k] \notin Turning) => runs[j] = to
  BY <1>2 DEF FlagRuns
<1> DEFINE longer == [k \in 0 .. n + 1 |-> IF k = n + 1 THEN after ELSE runs[k]]
<1> HIDE DEF n, t, after
<1>5. \A k \in 0 .. n : k \in 0 .. n + 1 /\ k # n + 1 /\ longer[k] = runs[k]
  BY <1>1
<1>6. longer[n + 1] = after /\ longer \in [0 .. n + 1 -> BOOLEAN]
  BY <1>1, <1>3, <1>4
<1> HIDE DEF longer
<1>7. \A k \in 1 .. n + 1 : longer[k] = FlagAfter(longer[k - 1], t[k])
  <2> TAKE k \in 1 .. n + 1
  <2>1. CASE k = n + 1
    <3>1. k - 1 = n /\ n \in 0 .. n
      BY <1>1, <2>1
    <3>2. longer[k - 1] = to /\ t[k] = e /\ longer[k] = after
      BY <1>1, <1>4, <1>5, <1>6, <2>1, <3>1
    <3> QED
      BY <3>2 DEF after
  <2>2. CASE k \in 1 .. n
    <3>1. k \in 0 .. n /\ k - 1 \in 0 .. n
      BY <1>1, <2>2
    <3>2. longer[k] = runs[k] /\ longer[k - 1] = runs[k - 1] /\ t[k] = s[k]
      BY <1>1, <1>5, <2>2, <3>1
    <3> QED
      BY <1>4, <2>2, <3>2
  <2> QED
    BY <1>1, <2>1, <2>2
<1>8. ASSUME NEW j \in 0 .. n + 1, \A k \in j + 1 .. n + 1 : t[k] \notin Turning
      PROVE  longer[j] = after
  <2>1. CASE j = n + 1
    BY <1>6, <2>1
  <2>2. CASE j \in 0 .. n
    <3>1. n + 1 \in j + 1 .. n + 1
      BY <1>1, <2>2
    <3>2. after = to
      BY <1>1, <1>3, <1>8, <3>1
    <3>3. \A k \in j + 1 .. n : s[k] \notin Turning
      <4> TAKE k \in j + 1 .. n
      <4>1. k \in j + 1 .. n + 1 /\ k \in 1 .. n
        BY <1>1, <2>2
      <4> QED
        BY <1>1, <1>8, <4>1
    <3> QED
      BY <1>4, <1>5, <2>2, <3>2, <3>3
  <2> QED
    BY <1>1, <2>1, <2>2
<1>9. longer[0] = from
  <2>1. 0 \in 0 .. n
    BY <1>1
  <2> QED
    BY <1>4, <1>5, <2>1
<1>10. FlagRuns(longer, from, t, after)
  BY <1>1, <1>6, <1>7, <1>8, <1>9 DEF FlagRuns
<1> QED
  BY <1>10 DEF Turns, t, after

\* An event that is taken is heard first.
LEMMA TurnsLess ==
    ASSUME NEW S, NEW s \in Seq(S), s # <<>>, NEW from, NEW to, Turns(from, s, to)
    PROVE  Turns(FlagAfter(from, Head(s)), Tail(s), to)
<1> DEFINE n == Len(s) - 1
           t == Tail(s)
<1>1. n \in Nat /\ Len(s) = n + 1 /\ Len(t) = n /\ Head(s) = s[1] /\ \A k \in 1 .. n : t[k] = s[k + 1]
  OBVIOUS
<1>2. PICK runs : FlagRuns(runs, from, s, to)
  BY DEF Turns
<1>3. /\ runs \in [0 .. n + 1 -> BOOLEAN]
      /\ runs[0] = from /\ runs[n + 1] = to
      /\ \A k \in 1 .. n + 1 : runs[k] = FlagAfter(runs[k - 1], s[k])
      /\ \A j \in 0 .. n + 1 : (\A k \in j + 1 .. n + 1 : s[k] \notin Turning) => runs[j] = to
  BY <1>1, <1>2 DEF FlagRuns
<1> DEFINE rest == [k \in 0 .. n |-> runs[k + 1]]
<1> HIDE DEF n, t
<1>4. \A k \in 0 .. n : rest[k] = runs[k + 1] /\ k + 1 \in 1 .. n + 1
  BY <1>1
<1>5. rest \in [0 .. n -> BOOLEAN]
  BY <1>1, <1>3
<1> HIDE DEF rest
<1>6. rest[0] = FlagAfter(from, Head(s))
  <2>1. 0 \in 0 .. n /\ 1 \in 1 .. n + 1 /\ 0 + 1 = 1 /\ 1 - 1 = 0
    BY <1>1
  <2>2. rest[0] = runs[1]
    BY <1>4, <2>1
  <2>3. runs[1] = FlagAfter(runs[0], s[1])
    BY <1>3, <2>1
  <2> QED
    BY <1>1, <1>3, <2>2, <2>3
<1>7. rest[n] = to
  <2>1. n \in 0 .. n
    BY <1>1
  <2> QED
    BY <1>3, <1>4, <2>1
<1>8. \A k \in 1 .. n : rest[k] = FlagAfter(rest[k - 1], t[k])
  <2> TAKE k \in 1 .. n
  <2>1. k \in 0 .. n /\ k - 1 \in 0 .. n /\ k - 1 + 1 = k /\ k + 1 \in 1 .. n + 1 /\ k + 1 - 1 = k
    BY <1>1
  <2>2. rest[k] = runs[k + 1] /\ rest[k - 1] = runs[k] /\ t[k] = s[k + 1]
    BY <1>1, <1>4, <2>1
  <2>3. runs[k + 1] = FlagAfter(runs[k], s[k + 1])
    BY <1>3, <2>1
  <2> QED
    BY <2>2, <2>3
<1>9. ASSUME NEW j \in 0 .. n, \A k \in j + 1 .. n : t[k] \notin Turning
      PROVE  rest[j] = to
  <2>1. j + 1 \in 0 .. n + 1
    BY <1>1
  <2>2. \A k \in j + 1 + 1 .. n + 1 : s[k] \notin Turning
    <3> TAKE k \in j + 1 + 1 .. n + 1
    <3>1. k - 1 \in j + 1 .. n /\ k - 1 \in 1 .. n /\ k - 1 + 1 = k
      BY <1>1
    <3> QED
      BY <1>1, <1>9, <3>1
  <2> QED
    BY <1>3, <1>4, <2>1, <2>2
<1>10. FlagRuns(rest, FlagAfter(from, Head(s)), t, to)
  BY <1>1, <1>5, <1>6, <1>7, <1>8, <1>9 DEF FlagRuns
<1> QED
  BY <1>10 DEF Turns, t

\* With nothing that turns it the flag stays.
LEMMA TurnsQuiet ==
    ASSUME NEW S, NEW s \in Seq(S), NEW from, NEW to, Turns(from, s, to),
           \A k \in 1 .. Len(s) : s[k] \notin Turning
    PROVE  from = to
<1>1. PICK runs : FlagRuns(runs, from, s, to)
  BY DEF Turns
<1>2. Len(s) \in Nat /\ 0 \in 0 .. Len(s) /\ 0 + 1 = 1
  OBVIOUS
<1>3. \A k \in 0 + 1 .. Len(s) : s[k] \notin Turning
  BY <1>2
<1> QED
  BY <1>1, <1>2, <1>3 DEF FlagRuns

-----------------------------------------------------------------------------
(* the steps *)

LEMMA FlagInit == TaskInit => FlagInv
<1> SUFFICES ASSUME TaskInit PROVE FlagInv
  OBVIOUS
<1>1. TaskTyped
  <2>1. NoKey \in HostKeys \cup {NoKey}
    OBVIOUS
  <2>2. <<>> \in Seq(HostEvents) /\ <<>> \in Seq(BoardOrders) /\ <<>> \in Seq(BoardReports)
    OBVIOUS
  <2>3. <<"startup">> \in Seq(BoardReports) /\ "none" \in HostEvents
    BY DEF BoardReports, HostEvents
  <2> QED
    BY <2>1, <2>2, <2>3 DEF TaskInit, TaskTyped
<1>2. TasksKnown
  <2>1. Len(<<>>) = 0
    OBVIOUS
  <2> QED
    BY <2>1 DEF TaskInit, TasksKnown, NoKey
<1>3. FlagFollows
  <2>1. FlagHeld = FALSE /\ FlagRead(FALSE) = FALSE /\ working = FALSE /\ hqueue = <<>>
    BY DEF TaskInit, FlagHeld, FlagRead
  <2>2. Turns(FALSE, <<>>, FALSE)
    BY TurnsNone
  <2>3. Turns(FALSE, reports, FALSE)
    <3>1. CASE reports = <<>>
      BY <2>2, <3>1
    <3>2. CASE reports = <<"startup">>
      <4>1. <<>> \in Seq(BoardReports) /\ "startup" \in BoardReports /\ Append(<<>>, "startup") = <<"startup">>
        BY DEF BoardReports
      <4>2. Turns(FALSE, Append(<<>>, "startup"), FlagAfter(FALSE, "startup"))
        BY <2>2, <4>1, TurnsMore
      <4>3. FlagAfter(FALSE, "startup") = FALSE
        BY DEF FlagAfter
      <4> QED
        BY <3>2, <4>1, <4>2, <4>3
    <3> QED
      BY <3>1, <3>2 DEF TaskInit
  <2> QED
    BY <2>1, <2>2, <2>3 DEF FlagFollows
<1> QED
  BY <1>1, <1>2, <1>3 DEF FlagInv

\* A step that hears and sends nothing.
LEMMA FlagSame ==
    ASSUME FlagInv, TaskTyped', TasksKnown',
           UNCHANGED <<hqueue, event, hmsg, hcomputing, reports, working, crossed>>,
           UNCHANGED hostMain \/ hostMain' \notin {"pop", "lock"},
           (serialIn \in {"parse", "push"}) <=> (serialIn' \in {"parse", "push"})
    PROVE  FlagInv'
<1>1. ASSUME hostMain' \in {"pop", "lock"}, ~crossed' PROVE FlagFollows'
  <2>1. UNCHANGED <<hqueue, reports, working, hostMain>> /\ FlagFollows
    BY <1>1 DEF FlagInv
  <2>2. PICK q \in BOOLEAN : Turns(FlagHeld, hqueue, q) /\ Turns(FlagRead(q), reports, working)
    BY <2>1 DEF FlagFollows
  <2>3. FlagHeld' = FlagHeld /\ FlagRead(q)' = FlagRead(q)
    BY <2>1 DEF FlagHeld, FlagRead
  <2>4. Turns(FlagHeld', hqueue', q) /\ Turns(FlagRead(q)', reports', working')
    BY <2>1, <2>2, <2>3
  <2> QED
    BY <2>4 DEF FlagFollows
<1> QED
  BY <1>1 DEF FlagInv

\* A key's event, or the last word of a thread, is pushed: none turns the flag.
LEMMA HostPushed ==
    ASSUME FlagInv, NEW e \in KeyEvents \cup {"serialQuit"}, hqueue' = Append(hqueue, e),
           e = "compute" => nbrTasks > 0,
           keyboard' # "push" \/ UNCHANGED keyboard, UNCHANGED hkey,
           (serialIn \notin {"parse", "push"} /\ serialIn' \notin {"parse", "push"}) \/ UNCHANGED serialIn,
           UNCHANGED <<hostMain, event, hmsg, hcomputing, nbrTasks, commands, reports, working, tasksLeft, crossed>>
    PROVE  FlagInv'
<1>1. TaskTyped /\ TasksKnown
  BY DEF FlagInv
<1>2. e \in HostEvents /\ e \notin Turning
  BY DEF KeyEvents, HostEvents, Turning
<1>3. hqueue \in Seq(HostEvents) /\ nbrTasks \in Nat
  BY <1>1 DEF TaskTyped
<1>4. /\ hqueue' \in Seq(HostEvents) /\ Len(hqueue) \in Nat /\ Len(hqueue') = Len(hqueue) + 1
      /\ hqueue'[Len(hqueue) + 1] = e /\ \A k \in 1 .. Len(hqueue) : hqueue'[k] = hqueue[k]
  BY <1>2, <1>3
<1>5. TaskTyped'
  BY <1>1, <1>4 DEF TaskTyped
<1>6. TasksKnown'
  <2> SUFFICES ASSUME nbrTasks = 0
               PROVE  /\ ~(keyboard' = "push" /\ hkey'.type = "compute")
                      /\ \A i \in 1 .. Len(hqueue') : hqueue'[i] # "compute"
                      /\ event' # "compute"
    BY DEF TasksKnown
  <2>1. e # "compute"
    BY <1>3
  <2> QED
    BY <1>1, <1>4, <2>1 DEF TasksKnown
<1>7. ASSUME hostMain' \in {"pop", "lock"}, ~crossed' PROVE FlagFollows'
  <2>1. PICK q \in BOOLEAN : Turns(FlagHeld, hqueue, q) /\ Turns(FlagRead(q), reports, working)
    BY <1>7 DEF FlagInv, FlagFollows
  <2>2. FlagHeld \in BOOLEAN
    BY <1>1, FlagAfterTyped DEF FlagHeld, TaskTyped
  <2>3. Turns(FlagHeld, hqueue', FlagAfter(q, e))
    BY <1>2, <1>3, <2>1, <2>2, TurnsMore
  <2>4. FlagAfter(q, e) = q
    BY <1>2 DEF FlagAfter, Turning
  <2>5. FlagHeld' = FlagHeld /\ FlagRead(q)' = FlagRead(q)
    BY DEF FlagHeld, FlagRead
  <2>6. Turns(FlagHeld', hqueue', q) /\ Turns(FlagRead(q)', reports', working')
    BY <2>1, <2>3, <2>4, <2>5
  <2> QED
    BY <2>6 DEF FlagFollows
<1> QED
  BY <1>5, <1>6, <1>7 DEF FlagInv

LEMMA KeyboardFlag == ASSUME FlagInv, KeyboardStep \/ PressZero \/ \E k \in HostKeys : PressKey(k) PROVE FlagInv'
<1> USE TaskAssumption
<1>1. TaskTyped /\ TasksKnown
  BY DEF FlagInv
<1>2. ASSUME NEW k \in HostKeys, PressKey(k) PROVE FlagInv'
  <2>1. UNCHANGED <<hqueue, hostMain, event, serialIn, hmsg, hcomputing, nbrTasks, commands, reports, working,
                    tasksLeft, crossed>>
        /\ hkey' = k /\ keyboard' = "lock"
    BY <1>2 DEF PressKey, mainOnly, serialOnly, shared, link, boardOnly
  <2>2. TaskTyped' /\ TasksKnown'
    BY <1>1, <2>1 DEF TaskTyped, TasksKnown
  <2> QED
    BY <2>1, <2>2, FlagSame
<1>6. CASE PressZero
  <2>1. UNCHANGED <<hqueue, hostMain, event, hkey, serialIn, hmsg, hcomputing, nbrTasks, commands, reports, working,
                    tasksLeft, crossed>>
        /\ keyboard' = "lastPush"
    BY <1>6 DEF PressZero, mainOnly, serialOnly, shared, link, boardOnly
  <2>2. TaskTyped' /\ TasksKnown'
    BY <1>1, <2>1 DEF TaskTyped, TasksKnown
  <2> QED
    BY <2>1, <2>2, FlagSame
<1>3. CASE KeyMeans
  <2>1. UNCHANGED <<hqueue, hostMain, event, hkey, serialIn, hmsg, hcomputing, commands, reports, working,
                    tasksLeft, crossed>>
        /\ keyboard = "lock"
    BY <1>3 DEF KeyMeans, mainOnly, serialOnly, link, boardOnly
  <2>2. CASE hkey.type = "compute" /\ keyboard' = "push"
    <3>1. nbrTasks' = hkey.tasks
      BY <1>3, <2>2 DEF KeyMeans
    <3>2. hkey.tasks \in 1 .. MaxTasks
      BY <1>1, <2>2 DEF TaskTyped, HostKeys, NoKey
    <3>3. nbrTasks' \in Nat /\ nbrTasks' # 0
      BY <3>1, <3>2
    <3>4. TaskTyped' /\ TasksKnown'
      BY <1>1, <2>1, <3>3 DEF TaskTyped, TasksKnown
    <3> QED
      BY <2>1, <3>4, FlagSame
  <2>3. CASE ~(hkey.type = "compute" /\ keyboard' = "push")
    <3>1. nbrTasks' = nbrTasks
      BY <1>3, <2>3 DEF KeyMeans
    <3>2. TaskTyped' /\ TasksKnown'
      BY <1>1, <2>1, <2>3, <3>1 DEF TaskTyped, TasksKnown
    <3> QED
      BY <2>1, <3>2, FlagSame
  <2> QED
    BY <2>2, <2>3
<1>4. CASE KeyboardPush
  <2>1. hkey.type \in KeyEvents
    BY <1>1 DEF TaskTyped, HostKeys, NoKey, KeyEvents
  <2>2. hkey.type = "compute" => nbrTasks > 0
    BY <1>1, <1>4 DEF KeyboardPush, TasksKnown, TaskTyped
  <2>3. hqueue' = Append(hqueue, hkey.type) /\ keyboard' # "push"
    BY <1>4 DEF KeyboardPush
  <2> QED
    BY <1>4, <2>1, <2>2, <2>3, HostPushed DEF KeyboardPush, mainOnly, serialOnly, shared, link, boardOnly
<1>5. CASE KeyboardLastPush
  <2>1. "quit" \in KeyEvents
    BY DEF KeyEvents
  <2>2. hqueue' = Append(hqueue, "quit") /\ keyboard' # "push"
    BY <1>5 DEF KeyboardLastPush
  <2> QED
    BY <1>5, <2>1, <2>2, HostPushed DEF KeyboardLastPush, mainOnly, serialOnly, shared, link, boardOnly
<1> QED
  BY <1>2, <1>3, <1>4, <1>5, <1>6 DEF KeyboardStep

LEMMA SerialFlag == ASSUME FlagInv, SerialInStep \/ SerialFails PROVE FlagInv'
<1>1. TaskTyped /\ TasksKnown
  BY DEF FlagInv
<1>2. reports \in Seq(BoardReports) /\ hqueue \in Seq(HostEvents)
  BY <1>1 DEF TaskTyped
<1>3. CASE SerialReads
  <2>1. reports # <<>> /\ hmsg' = Head(reports) /\ reports' = Tail(reports) /\ serialIn = "read" /\ serialIn' = "parse"
    BY <1>3 DEF SerialReads
  <2>2. UNCHANGED <<hqueue, hmtx, mainOnly, keyboardOnly, shared, commands, boardOnly>>
    BY <1>3 DEF SerialReads
  <2>3. Head(reports) \in BoardReports /\ Tail(reports) \in Seq(BoardReports)
    BY <1>2, <2>1
  <2>4. TaskTyped' /\ TasksKnown'
    BY <1>1, <2>1, <2>2, <2>3 DEF TaskTyped, TasksKnown, mainOnly, keyboardOnly, shared, boardOnly
  <2>5. ASSUME hostMain' \in {"pop", "lock"}, ~crossed' PROVE FlagFollows'
    <3>1. PICK q \in BOOLEAN : Turns(FlagHeld, hqueue, q) /\ Turns(FlagRead(q), reports, working)
      BY <2>2, <2>5 DEF FlagInv, FlagFollows, mainOnly, boardOnly
    <3>2. FlagHeld' = FlagHeld /\ FlagRead(q) = q /\ FlagRead(q)' = FlagAfter(q, Head(reports))
      BY <2>1, <2>2 DEF FlagHeld, FlagRead, mainOnly, shared
    <3>3. Turns(FlagAfter(q, Head(reports)), Tail(reports), working)
      BY <1>2, <2>1, <3>1, <3>2, TurnsLess
    <3>4. Turns(FlagHeld', hqueue', q) /\ Turns(FlagRead(q)', reports', working')
      BY <2>1, <2>2, <3>1, <3>2, <3>3 DEF boardOnly
    <3> QED
      BY <3>4 DEF FlagFollows
  <2> QED
    BY <2>4, <2>5 DEF FlagInv
<1>4. CASE SerialPushes
  <2>1. hqueue' = Append(hqueue, hmsg) /\ serialIn = "push" /\ serialIn' = "read"
    BY <1>4 DEF SerialPushes
  <2>2. UNCHANGED <<hmtx, mainOnly, keyboardOnly, hmsg, shared, link, boardOnly>>
    BY <1>4 DEF SerialPushes
  <2>3. hmsg \in HostEvents /\ hmsg # "compute"
    BY <1>1 DEF TaskTyped, HostEvents, BoardReports
  <2>4. /\ hqueue' \in Seq(HostEvents) /\ Len(hqueue) \in Nat /\ Len(hqueue') = Len(hqueue) + 1
        /\ hqueue'[Len(hqueue) + 1] = hmsg /\ \A k \in 1 .. Len(hqueue) : hqueue'[k] = hqueue[k]
    BY <1>2, <2>1, <2>3
  <2>5. TaskTyped'
    BY <1>1, <2>2, <2>4 DEF TaskTyped, mainOnly, keyboardOnly, shared, link, boardOnly
  <2>6. TasksKnown'
    BY <1>1, <2>2, <2>3, <2>4 DEF TasksKnown, mainOnly, keyboardOnly, shared
  <2>7. ASSUME hostMain' \in {"pop", "lock"}, ~crossed' PROVE FlagFollows'
    <3>1. PICK q \in BOOLEAN : Turns(FlagHeld, hqueue, q) /\ Turns(FlagRead(q), reports, working)
      BY <2>2, <2>7 DEF FlagInv, FlagFollows, mainOnly, boardOnly
    <3>0. PICK heard \in BOOLEAN : heard = FlagAfter(q, hmsg)
      BY FlagAfterTyped
    <3>2. FlagHeld \in BOOLEAN
      BY <1>1, FlagAfterTyped DEF FlagHeld, TaskTyped
    <3>3. FlagHeld' = FlagHeld /\ FlagRead(q) = heard
      BY <2>1, <2>2, <3>0 DEF FlagHeld, FlagRead, mainOnly, shared
    <3>4. Turns(FlagHeld, hqueue', heard)
      BY <1>2, <2>1, <2>3, <3>0, <3>1, <3>2, TurnsMore
    <3>5. FlagRead(heard)' = heard
      BY <2>1 DEF FlagRead
    <3>6. Turns(FlagHeld', hqueue', heard) /\ Turns(FlagRead(heard)', reports', working')
      BY <2>2, <3>1, <3>3, <3>4, <3>5 DEF link, boardOnly
    <3>7. \E h \in BOOLEAN : Turns(FlagHeld', hqueue', h) /\ Turns(FlagRead(h)', reports', working')
      BY <3>6
    <3> QED
      BY <3>7 DEF FlagFollows
  <2> QED
    BY <2>5, <2>6, <2>7 DEF FlagInv
<1>5. CASE SerialLastPush10
  <2>1. hqueue' = Append(hqueue, "serialQuit") /\ serialIn = "lastPush" /\ serialIn' = "exited"
    BY <1>5 DEF SerialLastPush10
  <2> QED
    BY <1>5, <2>1, HostPushed DEF SerialLastPush10, mainOnly, keyboardOnly, shared, link, boardOnly
<1>6. CASE SerialParses \/ SerialTimeout \/ SerialFails
  <2>1. UNCHANGED <<hqueue, mainOnly, keyboardOnly, hmsg, shared, link, boardOnly>>
        /\ (serialIn \in {"parse", "push"} <=> serialIn' \in {"parse", "push"})
    BY <1>6 DEF SerialParses, SerialTimeout, SerialFails
  <2>2. TaskTyped' /\ TasksKnown'
    BY <1>1, <2>1 DEF TaskTyped, TasksKnown, mainOnly, keyboardOnly, shared, link, boardOnly
  <2> QED
    BY <2>1, <2>2, FlagSame DEF mainOnly, keyboardOnly, shared, link, boardOnly
<1> QED
  BY <1>3, <1>4, <1>5, <1>6 DEF SerialInStep

\* main takes an event: it is the next to turn the flag.
LEMMA PopsFlag == ASSUME FlagInv, HostPops PROVE FlagInv'
<1>1. TaskTyped /\ TasksKnown
  BY DEF FlagInv
<1>2. /\ hostMain = "pop" /\ hqueue # <<>> /\ event' = Head(hqueue) /\ hqueue' = Tail(hqueue)
      /\ hostMain' = IF event' = "serialQuit" THEN "cleanup" ELSE "lock"
      /\ UNCHANGED <<hmtx, keyboardOnly, serialOnly, shared, link, boardOnly>>
  BY DEF HostPops
<1>3. hqueue \in Seq(HostEvents)
  BY <1>1 DEF TaskTyped
<1>4. /\ Head(hqueue) \in HostEvents /\ Tail(hqueue) \in Seq(HostEvents) /\ Head(hqueue) = hqueue[1]
      /\ Len(hqueue) \in Nat /\ Len(hqueue) >= 1 /\ Len(Tail(hqueue)) = Len(hqueue) - 1
      /\ \A k \in 1 .. Len(hqueue) - 1 : Tail(hqueue)[k] = hqueue[k + 1]
  BY <1>2, <1>3
<1>5. TaskTyped'
  BY <1>1, <1>2, <1>4 DEF TaskTyped, keyboardOnly, serialOnly, shared, link, boardOnly
<1>6. TasksKnown'
  <2>1. \A k \in 1 .. Len(hqueue') : hqueue'[k] = hqueue[k + 1] /\ k + 1 \in 1 .. Len(hqueue)
    BY <1>2, <1>4
  <2>2. 1 \in 1 .. Len(hqueue)
    BY <1>4
  <2> QED
    BY <1>1, <1>2, <1>4, <2>1, <2>2 DEF TasksKnown, keyboardOnly, shared
<1>7. ASSUME hostMain' \in {"pop", "lock"}, ~crossed' PROVE FlagFollows'
  <2>1. PICK q \in BOOLEAN : Turns(FlagHeld, hqueue, q) /\ Turns(FlagRead(q), reports, working)
    BY <1>2, <1>7 DEF FlagInv, FlagFollows, boardOnly
  <2>2. hostMain' = "lock"
    BY <1>2, <1>7
  <2>3. FlagHeld = hcomputing /\ FlagHeld' = FlagAfter(hcomputing, Head(hqueue)) /\ FlagRead(q)' = FlagRead(q)
    BY <1>2, <2>2 DEF FlagHeld, FlagRead, serialOnly, shared
  <2>4. Turns(FlagAfter(hcomputing, Head(hqueue)), Tail(hqueue), q)
    BY <1>2, <1>3, <2>1, <2>3, TurnsLess
  <2>5. Turns(FlagHeld', hqueue', q) /\ Turns(FlagRead(q)', reports', working')
    BY <1>2, <2>1, <2>3, <2>4 DEF link, boardOnly
  <2> QED
    BY <2>5 DEF FlagFollows
<1> QED
  BY <1>5, <1>6, <1>7 DEF FlagInv

\* main handles it: the flag is turned as expected.
LEMMA HandledFlag ==
    ASSUME FlagInv, HandleVersion \/ HandleStop \/ HandleCompute \/ HandleReset \/ HandleStartup \/ HandleReport
    PROVE  FlagInv'
<1>1. TaskTyped /\ TasksKnown
  BY DEF FlagInv
<1>2. /\ hostMain = "lock" /\ hostMain' = IF event = "quit" THEN "cleanup" ELSE "pop"
      /\ UNCHANGED <<hqueue, hmtx, event, keyboardOnly, serialOnly, reports, boardOnly, nbrTasks>>
  BY DEF Handles, HandleVersion, HandleStop, HandleCompute, HandleReset, HandleStartup, HandleReport
<1>3. hcomputing' = FlagAfter(hcomputing, event)
  <2>1. CASE HandleVersion \/ HandleStop \/ HandleCompute \/ HandleReset
    <3>1. event \in {"version", "abort", "quit", "compute", "reset"} /\ hcomputing' = hcomputing
      BY <2>1 DEF Handles, HandleVersion, HandleStop, HandleCompute, HandleReset
    <3> QED
      BY <3>1 DEF FlagAfter
  <2>2. CASE HandleStartup
    <3>1. event = "startup" /\ hcomputing' = FALSE
      BY <2>2 DEF Handles, HandleStartup
    <3> QED
      BY <3>1 DEF FlagAfter
  <2>3. CASE HandleReport
    <3>1. event \in {"ok", "done", "data", "versionIs"}
      BY <1>1, <2>3 DEF Handles, HandleReport, TaskTyped, HostEvents, KeyEvents, BoardReports
    <3>2. CASE event = "ok"
      <4>1. hcomputing' = AfterOk(hcomputing)
        BY <2>3, <3>2 DEF HandleReport
      <4> QED
        BY <3>2, <4>1 DEF FlagAfter, AfterOk
    <3>3. CASE event = "done"
      <4>1. hcomputing' = FALSE
        BY <2>3, <3>3 DEF HandleReport
      <4> QED
        BY <3>3, <4>1 DEF FlagAfter
    <3>4. CASE event \in {"data", "versionIs"}
      <4>1. hcomputing' = hcomputing
        BY <2>3, <3>4 DEF HandleReport
      <4> QED
        BY <3>4, <4>1 DEF FlagAfter
    <3> QED
      BY <3>1, <3>2, <3>3, <3>4
  <2> QED
    BY <2>1, <2>2, <2>3
<1>4. commands' \in Seq(BoardOrders)
  <2>1. commands \in Seq(BoardOrders)
    BY <1>1 DEF TaskTyped
  <2>2. Order("version", 0) \in BoardOrders /\ Order("abort", 0) \in BoardOrders
    BY DEF Order, BoardOrders
  <2>3. CASE HandleCompute
    <3>1. nbrTasks \in Nat /\ nbrTasks # 0
      BY <1>1, <2>3 DEF TasksKnown, TaskTyped, HandleCompute, Handles
    <3>2. Order("compute", nbrTasks) \in BoardOrders
      BY <3>1 DEF Order, BoardOrders
    <3>3. commands' = Append(commands, Order("compute", nbrTasks))
      BY <2>3 DEF HandleCompute
    <3> QED
      BY <2>1, <3>2, <3>3
  <2>4. CASE HandleVersion \/ HandleStop \/ HandleReset \/ HandleStartup \/ HandleReport
    <3>1. \/ commands' = commands
          \/ commands' = Append(commands, Order("version", 0))
          \/ commands' = Append(commands, Order("abort", 0))
      BY <2>4 DEF HandleVersion, HandleStop, HandleReset, HandleStartup, HandleReport
    <3> HIDE DEF BoardOrders, Order
    <3> QED
      BY <2>1, <2>2, <3>1
  <2> QED
    BY <2>3, <2>4
<1>5. hcomputing' \in BOOLEAN
  BY <1>1, <1>3, FlagAfterTyped DEF TaskTyped
<1>6. TaskTyped' /\ TasksKnown'
  BY <1>1, <1>2, <1>4, <1>5 DEF TaskTyped, TasksKnown, keyboardOnly, serialOnly, boardOnly
<1>7. ASSUME hostMain' \in {"pop", "lock"}, ~crossed' PROVE FlagFollows'
  <2>1. PICK q \in BOOLEAN : Turns(FlagHeld, hqueue, q) /\ Turns(FlagRead(q), reports, working)
    BY <1>2, <1>7 DEF FlagInv, FlagFollows, boardOnly
  <2>2. hostMain' = "pop"
    BY <1>2, <1>7
  <2>3. FlagHeld' = FlagHeld /\ FlagRead(q)' = FlagRead(q)
    BY <1>2, <1>3, <2>2 DEF FlagHeld, FlagRead, serialOnly
  <2>4. Turns(FlagHeld', hqueue', q) /\ Turns(FlagRead(q)', reports', working')
    BY <1>2, <2>1, <2>3 DEF boardOnly
  <2> QED
    BY <2>4 DEF FlagFollows
<1> QED
  BY <1>6, <1>7 DEF FlagInv

LEMMA HostLeavesFlag == ASSUME FlagInv, HostLeaves PROVE FlagInv'
<1>1. TaskTyped /\ TasksKnown
  BY DEF FlagInv
<1>2. UNCHANGED <<event, keyboardOnly, serialOnly, shared, link, boardOnly>> /\ hostMain' \notin {"pop", "lock"}
  BY DEF HostLeaves
<1>3. hqueue \in Seq(HostEvents) /\ (hqueue' = hqueue \/ (hqueue # <<>> /\ hqueue' = Tail(hqueue)))
  BY <1>1 DEF TaskTyped, HostLeaves
<1>4. hqueue' \in Seq(HostEvents)
      /\ \A k \in 1 .. Len(hqueue') : \E i \in 1 .. Len(hqueue) : hqueue'[k] = hqueue[i]
  <2>1. CASE hqueue' = hqueue
    BY <1>3, <2>1
  <2>2. CASE hqueue # <<>> /\ hqueue' = Tail(hqueue)
    <3>1. Tail(hqueue) \in Seq(HostEvents) /\ Len(Tail(hqueue)) = Len(hqueue) - 1 /\ Len(hqueue) \in Nat
          /\ \A k \in 1 .. Len(hqueue) - 1 : Tail(hqueue)[k] = hqueue[k + 1]
      BY <1>3, <2>2
    <3>2. \A k \in 1 .. Len(hqueue) - 1 : k + 1 \in 1 .. Len(hqueue)
      BY <3>1
    <3> QED
      BY <2>2, <3>1, <3>2
  <2> QED
    BY <1>3, <2>1, <2>2
<1>5. TaskTyped' /\ TasksKnown'
  BY <1>1, <1>2, <1>4 DEF TaskTyped, TasksKnown, keyboardOnly, serialOnly, shared, link, boardOnly
<1> QED
  BY <1>2, <1>5 DEF FlagInv

LEMMA BoardCommandFlag == ASSUME FlagInv, BoardCommand PROVE FlagInv'
<1>1. TaskTyped /\ TasksKnown
  BY DEF FlagInv
<1> DEFINE c == Head(commands)
<1>2. commands # <<>> /\ commands' = Tail(commands) /\ UNCHANGED hostOnly
  BY DEF BoardCommand
<1>3. commands \in Seq(BoardOrders) /\ reports \in Seq(BoardReports) /\ working \in BOOLEAN /\ crossed \in BOOLEAN
      /\ tasksLeft \in Nat
  BY <1>1 DEF TaskTyped
<1>4. c \in BoardOrders /\ Tail(commands) \in Seq(BoardOrders)
  BY <1>2, <1>3
<1>5. /\ c.type \in {"version", "abort", "compute"} /\ c.tasks \in Nat
      /\ c.type = "compute" => c.tasks > 0
  BY <1>4 DEF BoardOrders
<1>6. \E m \in {"versionIs", "ok"} :
         /\ reports' = Append(reports, m) /\ tasksLeft' \in Nat /\ working' \in BOOLEAN /\ crossed' \in BOOLEAN
         /\ ~crossed' => ~crossed /\ working' = FlagAfter(working, m)
  <2>1. CASE c.type = "version"
    <3>1. reports' = Append(reports, "versionIs") /\ UNCHANGED <<working, tasksLeft, crossed>>
      BY <2>1 DEF BoardCommand, Report, boardOnly
    <3>2. FlagAfter(working, "versionIs") = working
      BY DEF FlagAfter
    <3> QED
      BY <1>3, <3>1, <3>2
  <2>2. CASE c.type = "abort"
    <3>1. /\ reports' = Append(reports, "ok") /\ UNCHANGED tasksLeft
          /\ working' = FALSE /\ crossed' = (crossed \/ ~working)
      BY <2>2 DEF BoardCommand, Report
    <3>2. FlagAfter(working, "ok") = ~working
      BY DEF FlagAfter
    <3> QED
      BY <1>3, <3>1, <3>2
  <2>3. CASE c.type = "compute"
    <3>1. /\ reports' = Append(reports, "ok")
          /\ working' = (working \/ c.tasks > 0)
          /\ tasksLeft' = IF c.tasks > 0 THEN c.tasks ELSE tasksLeft
          /\ crossed' = (crossed \/ working)
      BY <2>3 DEF BoardCommand, Report
    <3>2. FlagAfter(working, "ok") = ~working
      BY DEF FlagAfter
    <3>3. working' = TRUE /\ tasksLeft' \in Nat
      BY <1>5, <2>3, <3>1
    <3> QED
      BY <1>3, <3>1, <3>2, <3>3
  <2> QED
    BY <1>5, <2>1, <2>2, <2>3
<1>7. PICK m \in {"versionIs", "ok"} :
         /\ reports' = Append(reports, m) /\ tasksLeft' \in Nat /\ working' \in BOOLEAN /\ crossed' \in BOOLEAN
         /\ ~crossed' => ~crossed /\ working' = FlagAfter(working, m)
  BY <1>6
<1>8. m \in BoardReports
  BY DEF BoardReports
<1>9. TaskTyped' /\ TasksKnown'
  <2>1. reports' \in Seq(BoardReports)
    BY <1>3, <1>7, <1>8
  <2> QED
    BY <1>1, <1>2, <1>4, <1>7, <2>1
    DEF TaskTyped, TasksKnown, hostOnly, mainOnly, keyboardOnly, serialOnly, shared
<1>10. ASSUME hostMain' \in {"pop", "lock"}, ~crossed' PROVE FlagFollows'
  <2>1. PICK q \in BOOLEAN : Turns(FlagHeld, hqueue, q) /\ Turns(FlagRead(q), reports, working)
    BY <1>2, <1>7, <1>10 DEF FlagInv, FlagFollows, hostOnly, mainOnly
  <2>2. FlagRead(q) \in BOOLEAN
    BY FlagAfterTyped DEF FlagRead
  <2>3. Turns(FlagRead(q), Append(reports, m), FlagAfter(working, m))
    BY <1>3, <1>8, <2>1, <2>2, TurnsMore
  <2>4. FlagHeld' = FlagHeld /\ FlagRead(q)' = FlagRead(q) /\ hqueue' = hqueue
    BY <1>2 DEF FlagHeld, FlagRead, hostOnly, mainOnly, serialOnly, shared
  <2>5. Turns(FlagHeld', hqueue', q) /\ Turns(FlagRead(q)', reports', working')
    BY <1>7, <1>10, <2>1, <2>3, <2>4
  <2> QED
    BY <2>5 DEF FlagFollows
<1> QED
  BY <1>9, <1>10 DEF FlagInv

LEMMA BoardTaskFlag == ASSUME FlagInv, BoardTask PROVE FlagInv'
<1>1. TaskTyped /\ TasksKnown
  BY DEF FlagInv
<1> DEFINE m == IF tasksLeft > 0 THEN "data" ELSE "done"
<1>2. /\ reports' = Append(reports, m) /\ working' = (tasksLeft > 0)
      /\ tasksLeft' = IF tasksLeft > 0 THEN tasksLeft - 1 ELSE 0
      /\ working /\ UNCHANGED <<hostOnly, commands, crossed>>
  BY DEF BoardTask, Report
<1>3. reports \in Seq(BoardReports) /\ working = TRUE /\ tasksLeft \in Nat
  BY <1>1, <1>2 DEF TaskTyped
<1>4. m \in BoardReports
  BY DEF BoardReports
<1>5. working' = FlagAfter(working, m) /\ working' \in BOOLEAN /\ tasksLeft' \in Nat
  <2>1. CASE tasksLeft > 0
    <3>1. FlagAfter(TRUE, "data") = TRUE /\ m = "data"
      BY <2>1 DEF FlagAfter
    <3> HIDE DEF m
    <3>2. working' = TRUE
      BY <1>2, <2>1
    <3>3. FlagAfter(working, m) = TRUE
      BY <1>3, <3>1, Zenon
    <3>4. tasksLeft' \in Nat
      BY <1>2, <1>3, <2>1
    <3> QED
      BY <3>2, <3>3, <3>4
  <2>2. CASE ~(tasksLeft > 0)
    <3>1. FlagAfter(TRUE, "done") = FALSE /\ m = "done"
      BY <2>2 DEF FlagAfter
    <3> HIDE DEF m
    <3>2. working' = FALSE
      <4>1. working' = (tasksLeft > 0) /\ (tasksLeft > 0) \in BOOLEAN
        BY <1>2
      <4>2. (tasksLeft > 0) = FALSE
        BY <2>2
      <4> QED
        BY <4>1, <4>2
    <3>3. FlagAfter(working, m) = FALSE
      BY <1>3, <3>1, Zenon
    <3>4. tasksLeft' \in Nat
      BY <1>2, <1>3, <2>2
    <3> QED
      BY <3>2, <3>3, <3>4
  <2> QED
    BY <2>1, <2>2
<1> HIDE DEF m
<1>6. TaskTyped' /\ TasksKnown'
  <2>1. reports' \in Seq(BoardReports)
    BY <1>2, <1>3, <1>4
  <2> QED
    BY <1>1, <1>2, <1>5, <2>1 DEF TaskTyped, TasksKnown, hostOnly, mainOnly, keyboardOnly, serialOnly, shared
<1>7. ASSUME hostMain' \in {"pop", "lock"}, ~crossed' PROVE FlagFollows'
  <2>1. PICK q \in BOOLEAN : Turns(FlagHeld, hqueue, q) /\ Turns(FlagRead(q), reports, working)
    BY <1>2, <1>7 DEF FlagInv, FlagFollows, hostOnly, mainOnly
  <2>2. FlagRead(q) \in BOOLEAN /\ working \in BOOLEAN
    BY <1>3, FlagAfterTyped DEF FlagRead
  <2>3. Turns(FlagRead(q), Append(reports, m), FlagAfter(working, m))
    BY <1>3, <1>4, <2>1, <2>2, TurnsMore
  <2>4. FlagHeld' = FlagHeld /\ FlagRead(q)' = FlagRead(q) /\ hqueue' = hqueue
    BY <1>2 DEF FlagHeld, FlagRead, hostOnly, mainOnly, serialOnly, shared
  <2>5. Turns(FlagHeld', hqueue', q) /\ Turns(FlagRead(q)', reports', working')
    BY <1>2, <1>5, <2>1, <2>3, <2>4
  <2> QED
    BY <2>5 DEF FlagFollows
<1> QED
  BY <1>6, <1>7 DEF FlagInv

LEMMA FlagNext == FlagInv /\ [TaskNext]_taskVars => FlagInv'
<1> SUFFICES ASSUME FlagInv, [TaskNext]_taskVars PROVE FlagInv'
  OBVIOUS
<1>1. CASE UNCHANGED taskVars
  <2>1. TaskTyped' /\ TasksKnown'
    BY <1>1 DEF FlagInv, TaskTyped, TasksKnown, taskVars
  <2> QED
    BY <1>1, <2>1, FlagSame DEF taskVars
<1> QED
  BY <1>1, KeyboardFlag, SerialFlag, PopsFlag, HandledFlag, HostLeavesFlag, BoardCommandFlag, BoardTaskFlag
  DEF TaskNext, HostStep, WorkStep

\* The flag that hw10-main.c turns with each MSG_OK is, when all has been heard,
\* what the board does, however commands and reports overtake each other; a
\* MSG_COMPUTE or MSG_ABORT that crossed MSG_DONE is left out.
THEOREM FlagFollowsBoard == TaskSpec => []FlagIsBoards
<1>1. FlagInv => FlagIsBoards
  <2> SUFFICES ASSUME FlagInv, hostMain \in {"pop", "lock"}, ~crossed, Unheard = {} PROVE hcomputing = working
    BY DEF FlagIsBoards
  <2>1. TaskTyped
    BY DEF FlagInv
  <2>2. PICK q \in BOOLEAN : Turns(FlagHeld, hqueue, q) /\ Turns(FlagRead(q), reports, working)
    BY DEF FlagInv, FlagFollows
  <2>3. hqueue \in Seq(HostEvents) /\ reports \in Seq(HostEvents) /\ hmsg \in HostEvents
    BY <2>1 DEF TaskTyped, HostEvents
  <2> DEFINE inHand == IF serialIn \in {"parse", "push"} THEN <<hmsg>> ELSE <<>>
  <2>4. inHand \in Seq(HostEvents)
    BY <2>3
  <2>5. Between = hqueue \o inHand \o reports
    BY DEF Between
  <2>6. serialIn \in {"parse", "push"} => Len(inHand) = 1 /\ inHand[1] = hmsg
    OBVIOUS
  <2> HIDE DEF inHand
  <2>7. /\ Between \in Seq(HostEvents) /\ DOMAIN Between = 1 .. Len(hqueue) + Len(inHand) + Len(reports)
        /\ Len(hqueue) \in Nat /\ Len(inHand) \in Nat /\ Len(reports) \in Nat
        /\ \A k \in 1 .. Len(hqueue) : Between[k] = hqueue[k]
        /\ \A k \in 1 .. Len(inHand) : Between[Len(hqueue) + k] = inHand[k]
        /\ \A k \in 1 .. Len(reports) : Between[Len(hqueue) + Len(inHand) + k] = reports[k]
    BY <2>3, <2>4, <2>5
  <2>8. \A i \in DOMAIN Between : Between[i] \notin Turning
    BY DEF Unheard, Turning
  <2>9. \A k \in 1 .. Len(hqueue) : hqueue[k] \notin Turning
    <3> TAKE k \in 1 .. Len(hqueue)
    <3>1. k \in DOMAIN Between
      BY <2>7
    <3> QED
      BY <2>7, <2>8, <3>1
  <2>10. \A k \in 1 .. Len(reports) : reports[k] \notin Turning
    <3> TAKE k \in 1 .. Len(reports)
    <3>1. Len(hqueue) + Len(inHand) + k \in DOMAIN Between
      BY <2>7
    <3> QED
      BY <2>7, <2>8, <3>1
  <2>11. serialIn \in {"parse", "push"} => hmsg \notin Turning
    <3> SUFFICES ASSUME serialIn \in {"parse", "push"} PROVE hmsg \notin Turning
      OBVIOUS
    <3>1. Len(hqueue) + 1 \in DOMAIN Between /\ 1 \in 1 .. Len(inHand)
      BY <2>6, <2>7
    <3> QED
      BY <2>6, <2>7, <2>8, <3>1
  <2>12. hostMain = "lock" => event \notin Turning
    BY DEF Unheard, Turning
  <2>13. FlagHeld = hcomputing /\ FlagRead(q) = q
    BY <2>11, <2>12 DEF FlagHeld, FlagRead, FlagAfter, Turning
  <2>14. hcomputing = q
    BY <2>2, <2>3, <2>9, <2>13, TurnsQuiet
  <2>15. q = working
    BY <2>2, <2>3, <2>10, <2>13, TurnsQuiet
  <2> QED
    BY <2>14, <2>15
<1> QED
  BY <1>1, FlagInit, FlagNext, PTL DEF TaskSpec
=============================================================================
