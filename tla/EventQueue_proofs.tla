-------------------------- MODULE EventQueue_proofs --------------------------
(***************************************************************************)
(* Proofs about EventQueue for every set of pushers, every set of events   *)
(* and every capacity: type correctness, no lost wake-up, the safety of    *)
(* queue_cleanup, and the step simulation of the bounded buffer.           *)
(***************************************************************************)
EXTENDS EventQueue, TLAPS, SequenceTheorems

-----------------------------------------------------------------------------
\* Arithmetic modulo the capacity, for the numbers the ring uses.
LEMMA ModSmall == ASSUME NEW x \in Nat, x < Capacity PROVE x % Capacity = x
  BY CapacityAssumption

LEMMA ModOnce ==
  ASSUME NEW x \in Nat, x >= Capacity, x < 2 * Capacity
  PROVE  x % Capacity = x - Capacity
  BY CapacityAssumption

\* The successor of a slot is the next slot, or the first after the last.
LEMMA NextSlotIs ==
  ASSUME NEW i \in Slots
  PROVE  /\ NextSlot(i) \in Slots
         /\ NextSlot(i) = IF i = Capacity - 1 THEN 0 ELSE i + 1
         /\ NextSlot(i) # i
<1>1. CASE i = Capacity - 1
  BY <1>1, CapacityAssumption, ModOnce DEF Slots, NextSlot
<1>2. CASE i # Capacity - 1
  BY <1>2, CapacityAssumption, ModSmall DEF Slots, NextSlot
<1> QED BY <1>1, <1>2

\* A broadcast leaves the caller in the given state and nobody else asleep.
LEMMA AwakenIs ==
  ASSUME TypeOK, NEW t \in Threads, NEW next \in States \ {"waitPush", "waitPop"}
  PROVE  /\ Awaken(t, next) \in [Threads -> States]
         /\ Awaken(t, next)[t] = next
         /\ \A u \in Threads : Awaken(t, next)[u] \notin {"waitPush", "waitPop"}
  BY DEF Awaken, TypeOK, States

-----------------------------------------------------------------------------
\* Every variable keeps its type: in and out stay inside the ring.
THEOREM TypeCorrect == Spec => []TypeOK
<1>1. Init => TypeOK
  <2> SUFFICES ASSUME Init PROVE TypeOK
    OBVIOUS
  <2>1. 0 \in Slots
    BY CapacityAssumption DEF Slots
  <2>2. ring \in [Slots -> Events \cup {NoEvent}] /\ closing \in BOOLEAN
    BY DEF Init
  <2>3. pc \in [Threads -> States] /\ arg \in [Threads -> Events \cup {NoEvent}]
    BY DEF Init, States
  <2> QED BY <2>1, <2>2, <2>3 DEF Init, TypeOK
<1>2. TypeOK /\ [Next]_vars => TypeOK'
  <2> SUFFICES ASSUME TypeOK, [Next]_vars PROVE TypeOK'
    OBVIOUS
  <2> USE DEF TypeOK
  <2> Main \in Threads /\ Pushers \subseteq Threads
    BY DEF Threads
  <2>1. CASE CallPop
    BY <2>1 DEF CallPop, States
  <2>2. CASE CallCleanup
    BY <2>2 DEF CallCleanup, States
  <2>3. CASE PopWait
    BY <2>3 DEF PopWait, States
  <2>4. CASE Pop
    <3>1. pc' \in [Threads -> States]
      BY <2>4, AwakenIs DEF Pop, States
    <3> QED BY <2>4, <3>1, NextSlotIs DEF Pop
  <2>5. CASE CleanupTest
    BY <2>5 DEF CleanupTest, States
  <2>6. ASSUME NEW t \in Pushers, PushWait(t) PROVE TypeOK'
    BY <2>6 DEF PushWait, States
  <2>7. ASSUME NEW t \in Pushers, Push(t) PROVE TypeOK'
    <3>1. pc' \in [Threads -> States]
      BY <2>7, AwakenIs DEF Push, States
    <3> QED BY <2>7, <3>1, NextSlotIs DEF Push
  <2>8. ASSUME NEW t \in Pushers, NEW e \in Events, CallPush(t, e) PROVE TypeOK'
    BY <2>8 DEF CallPush, States
  <2>9. ASSUME NEW t \in Threads, SpuriousWakeup(t) PROVE TypeOK'
    BY <2>9 DEF SpuriousWakeup, States
  <2>10. CASE UNCHANGED vars
    BY <2>10 DEF vars
  <2> QED
    BY <2>1, <2>2, <2>3, <2>4, <2>5, <2>6, <2>7, <2>8, <2>9, <2>10 DEF Next, MainStep
<1> QED BY <1>1, <1>2, PTL DEF Spec

-----------------------------------------------------------------------------
\* Once queue_cleanup is entered, Main is in its loop, in a queue_pop that
\* will find an event, or past it.
CleanupInv ==
    closing => \/ pc[Main] \in {"cleanup", "left"}
               \/ pc[Main] = "pop" /\ ~Empty

\* Only pushers push and only Main pops; a pusher has its event at hand.
RolesInv ==
    /\ pc[Main] \in {"push", "waitPush"} => Main \in Pushers
    /\ \A t \in Threads \ {Main} : pc[t] \in {"idle", "push", "waitPush"}
    /\ \A t \in Threads : pc[t] \in {"push", "waitPush"} => arg[t] \in Events

IInv == NoLostWakeup /\ CleanupInv /\ RolesInv

LEMMA Inductive == TypeOK /\ IInv /\ [Next]_vars => IInv'
<1> SUFFICES ASSUME TypeOK, IInv, [Next]_vars PROVE IInv'
  OBVIOUS
<1> USE DEF TypeOK, IInv, NoLostWakeup, CleanupInv, RolesInv, Empty, Full
<1> Main \in Threads /\ Pushers \subseteq Threads
  BY DEF Threads
<1>1. CASE CallPop
  BY <1>1 DEF CallPop
<1>2. CASE CallCleanup
  BY <1>2 DEF CallCleanup
<1>3. CASE PopWait
  BY <1>3 DEF PopWait
<1>4. CASE Pop
  <2>1. /\ \A u \in Threads : pc'[u] \notin {"waitPush", "waitPop"}
        /\ pc'[Main] = IF closing THEN "cleanup" ELSE "idle"
    BY <1>4, AwakenIs DEF Pop, States
  <2>2. NoLostWakeup' /\ CleanupInv'
    BY <1>4, <2>1 DEF Pop
  <2>3. RolesInv'
    BY <1>4 DEF Pop, Awaken
  <2> QED BY <2>2, <2>3
<1>5. CASE CleanupTest
  BY <1>5 DEF CleanupTest
<1>6. ASSUME NEW t \in Pushers, PushWait(t) PROVE IInv'
  BY <1>6 DEF PushWait
<1>7. ASSUME NEW t \in Pushers, Push(t) PROVE IInv'
  <2>1. \A u \in Threads : pc'[u] \notin {"waitPush", "waitPop"}
    BY <1>7, AwakenIs DEF Push, States
  <2>2. closing /\ pc[Main] \in {"cleanup", "left", "pop"} => pc'[Main] = pc[Main] \/ t = Main
    BY <1>7 DEF Push, Awaken
  <2>3. in' # out'
    BY <1>7 DEF Push
  <2> QED BY <1>7, <2>1, <2>2, <2>3 DEF Push, Awaken
<1>8. ASSUME NEW t \in Pushers, NEW e \in Events, CallPush(t, e) PROVE IInv'
  BY <1>8 DEF CallPush
<1>9. ASSUME NEW t \in Threads, SpuriousWakeup(t) PROVE IInv'
  BY <1>9 DEF SpuriousWakeup
<1>10. CASE UNCHANGED vars
  BY <1>10 DEF vars
<1> QED
  BY <1>1, <1>2, <1>3, <1>4, <1>5, <1>6, <1>7, <1>8, <1>9, <1>10 DEF Next, MainStep

\* The safety of the sleepers for every number of threads and every capacity:
\* a thread asleep in queue_push or queue_pop has a reason to be.
THEOREM NoWakeupIsLost == Spec => []NoLostWakeup
<1>1. Init => IInv
  BY DEF Init, IInv, NoLostWakeup, CleanupInv, RolesInv, Threads
<1>2. IInv => NoLostWakeup
  BY DEF IInv
<1> QED BY <1>1, <1>2, Inductive, TypeCorrect, PTL DEF Spec

\* queue_cleanup never blocks, though it tests the ring without the mutex.
THEOREM CleanupIsSafe == Spec => []CleanupNeverBlocks
<1>1. Init => IInv
  BY DEF Init, IInv, NoLostWakeup, CleanupInv, RolesInv, Threads
<1>2. IInv => CleanupNeverBlocks
  BY DEF IInv, CleanupInv, CleanupNeverBlocks
<1> QED BY <1>1, <1>2, Inductive, TypeCorrect, PTL DEF Spec

\* With Main only popping, the threads are never all asleep.
THEOREM SomeThreadIsAwake == Spec => []NeverAllAsleep
<1>1. Init => IInv
  BY DEF Init, IInv, NoLostWakeup, CleanupInv, RolesInv, Threads
<1>2. TypeOK /\ IInv => NeverAllAsleep
  <2> SUFFICES ASSUME TypeOK, IInv, Main \notin Pushers, Pushers # {},
                      \A t \in Threads : pc[t] \in {"waitPush", "waitPop"}
               PROVE  FALSE
    BY DEF NeverAllAsleep
  <2>1. PICK t \in Pushers : pc[t] = "waitPush"
    BY DEF IInv, RolesInv, Threads
  <2>2. Full /\ Empty
    BY <2>1 DEF IInv, NoLostWakeup, RolesInv, Threads
  <2> QED BY <2>2, NextSlotIs DEF Full, Empty, TypeOK
<1> QED BY <1>1, <1>2, Inductive, TypeCorrect, PTL DEF Spec

-----------------------------------------------------------------------------
\* The number of events between two slots, without the remainder.
LEMMA CountIs ==
  ASSUME NEW i \in Slots, NEW o \in Slots
  PROVE  /\ Count(i, o) = IF i >= o THEN i - o ELSE i + Capacity - o
         /\ Count(i, o) \in 0 .. Capacity - 1
<1>1. CASE i >= o
  <2>1. i + Capacity - o >= Capacity /\ i + Capacity - o < 2 * Capacity
    BY <1>1, CapacityAssumption DEF Slots
  <2>2. Count(i, o) = i - o
    BY <1>1, <2>1, ModOnce, CapacityAssumption DEF Slots, Count
  <2> QED BY <1>1, <2>2, CapacityAssumption DEF Slots
<1>2. CASE i < o
  <2>1. i + Capacity - o \in Nat /\ i + Capacity - o < Capacity
    BY <1>2, CapacityAssumption DEF Slots
  <2>2. Count(i, o) = i + Capacity - o
    BY <1>2, <2>1, ModSmall, CapacityAssumption DEF Slots, Count
  <2> QED BY <1>2, <2>1, <2>2, CapacityAssumption DEF Slots
<1> QED BY <1>1, <1>2, CapacityAssumption DEF Slots

\* The slot of the k-th oldest event, when the oldest is in slot o.
SlotOf(o, k) == IF o + k - 1 < Capacity THEN o + k - 1 ELSE o + k - 1 - Capacity

LEMMA SlotOfIs ==
  ASSUME NEW o \in Slots, NEW k \in 1 .. Capacity
  PROVE  (o + k - 1) % Capacity = SlotOf(o, k) /\ SlotOf(o, k) \in Slots
<1>1. o + k - 1 \in Nat /\ o + k - 1 < 2 * Capacity
  BY CapacityAssumption DEF Slots
<1>2. CASE o + k - 1 < Capacity
  <2>1. (o + k - 1) % Capacity = o + k - 1
    BY <1>1, <1>2, ModSmall
  <2> QED BY <1>1, <1>2, <2>1, CapacityAssumption DEF SlotOf, Slots
<1>3. CASE o + k - 1 >= Capacity
  <2>1. (o + k - 1) % Capacity = o + k - 1 - Capacity
    <3>1. PICK x \in Nat : x = o + k - 1
      BY <1>1
    <3>2. x >= Capacity /\ x < 2 * Capacity
      BY <3>1, <1>1, <1>3, CapacityAssumption
    <3>3. x % Capacity = x - Capacity
      BY <3>1, <3>2, ModOnce
    <3> QED BY <3>1, <3>3, CapacityAssumption DEF Slots
  <2> QED BY <1>1, <1>3, <2>1, CapacityAssumption DEF SlotOf, Slots
<1> QED BY <1>1, <1>2, <1>3, CapacityAssumption DEF Slots

LEMMA ContentsIs ==
  ASSUME NEW S, NEW r \in [Slots -> S], NEW i \in Slots, NEW o \in Slots
  PROVE  /\ ContentsOf(r, i, o) \in Seq(S)
         /\ Len(ContentsOf(r, i, o)) = Count(i, o)
         /\ \A k \in 1 .. Count(i, o) : ContentsOf(r, i, o)[k] = r[SlotOf(o, k)]
<1>1. Count(i, o) \in Nat /\ 1 .. Count(i, o) \subseteq 1 .. Capacity
  BY CountIs, CapacityAssumption
<1>2. \A k \in 1 .. Count(i, o) :
         (o + k - 1) % Capacity = SlotOf(o, k) /\ r[SlotOf(o, k)] \in S
  BY <1>1, SlotOfIs
<1>3. ContentsOf(r, i, o) = [k \in 1 .. Count(i, o) |-> r[SlotOf(o, k)]]
  BY <1>2 DEF ContentsOf
<1> QED BY <1>1, <1>2, <1>3

\* Writing at in and moving it on appends to the contents of a ring not full.
LEMMA WriteAppends ==
  ASSUME NEW S, NEW r \in [Slots -> S], NEW i \in Slots, NEW o \in Slots,
         NEW e \in S, NextSlot(i) # o
  PROVE  /\ Len(ContentsOf(r, i, o)) < Capacity - 1
         /\ ContentsOf([r EXCEPT ![i] = e], NextSlot(i), o) = Append(ContentsOf(r, i, o), e)
<1> DEFINE w == [r EXCEPT ![i] = e]
           n == Count(i, o)
           before == ContentsOf(r, i, o)
           after == ContentsOf(w, NextSlot(i), o)
<1>1. NextSlot(i) \in Slots /\ NextSlot(i) = IF i = Capacity - 1 THEN 0 ELSE i + 1
  BY NextSlotIs
<1>0. n = (IF i >= o THEN i - o ELSE i + Capacity - o) /\ n \in 0 .. Capacity - 1
  BY CountIs
<1> HIDE DEF n
<1>2. n \in Nat /\ n < Capacity - 1 /\ Count(NextSlot(i), o) = n + 1
  <2>1. Count(NextSlot(i), o) =
          IF NextSlot(i) >= o THEN NextSlot(i) - o ELSE NextSlot(i) + Capacity - o
    BY <1>1, CountIs
  <2> QED BY <1>1, <1>0, <2>1, CapacityAssumption DEF Slots
<1>3. SlotOf(o, n + 1) = i
  BY <1>2, <1>0, CapacityAssumption DEF SlotOf, Slots
<1>4. \A k \in 1 .. n : SlotOf(o, k) # i /\ SlotOf(o, k) \in Slots
  BY <1>2, <1>0, CapacityAssumption DEF SlotOf, Slots
<1>5. w \in [Slots -> S] /\ w[i] = e /\ \A s \in Slots \ {i} : w[s] = r[s]
  OBVIOUS
<1>6. before \in Seq(S) /\ Len(before) = n /\ \A k \in 1 .. n : before[k] = r[SlotOf(o, k)]
  BY ContentsIs DEF n
<1>7. /\ after \in Seq(S) /\ Len(after) = n + 1
      /\ \A k \in 1 .. n + 1 : after[k] = w[SlotOf(o, k)]
  <2> HIDE DEF w
  <2>1. /\ after \in Seq(S) /\ Len(after) = Count(NextSlot(i), o)
        /\ \A k \in 1 .. Count(NextSlot(i), o) : after[k] = w[SlotOf(o, k)]
    <3>1. w \in [Slots -> S] /\ NextSlot(i) \in Slots
      BY <1>1, <1>5
    <3> QED BY <3>1, ContentsIs
  <2> QED BY <1>2, <2>1
<1> HIDE DEF w, before, after
<1>8. Append(before, e) \in Seq(S) /\ Len(Append(before, e)) = n + 1
  BY <1>6
<1>9. ASSUME NEW k \in 1 .. n + 1 PROVE after[k] = Append(before, e)[k]
  <2>1. CASE k = n + 1
    <3>1. after[k] = e
      BY <1>2, <1>3, <1>5, <1>7, <2>1
    <3>2. Append(before, e)[k] = e
      BY <1>6, <2>1, AppendProperties
    <3> QED BY <3>1, <3>2
  <2>2. CASE k \in 1 .. n
    BY <1>2, <1>4, <1>5, <1>6, <1>7, <2>2
  <2>3. k = n + 1 \/ k \in 1 .. n
    BY <1>2
  <2> QED BY <2>1, <2>2, <2>3
<1>10. after = Append(before, e)
  BY <1>2, <1>7, <1>8, <1>9, SeqEqual
<1> QED BY <1>2, <1>6, <1>10 DEF w, before, after

\* Moving out on takes the head of the contents, which is in slot out.
LEMMA ReadTakesHead ==
  ASSUME NEW S, NEW r \in [Slots -> S], NEW i \in Slots, NEW o \in Slots, i # o
  PROVE  /\ ContentsOf(r, i, o) # <<>>
         /\ r[o] = Head(ContentsOf(r, i, o))
         /\ ContentsOf(r, i, NextSlot(o)) = Tail(ContentsOf(r, i, o))
<1> DEFINE n == Count(i, o)
           before == ContentsOf(r, i, o)
           after == ContentsOf(r, i, NextSlot(o))
<1>1. NextSlot(o) \in Slots /\ NextSlot(o) = IF o = Capacity - 1 THEN 0 ELSE o + 1
  BY NextSlotIs
<1>0. n = (IF i >= o THEN i - o ELSE i + Capacity - o) /\ n \in 0 .. Capacity - 1
  BY CountIs
<1> HIDE DEF n
<1>2. n \in Nat /\ n >= 1 /\ n < Capacity /\ Count(i, NextSlot(o)) = n - 1
  <2>1. Count(i, NextSlot(o)) =
          IF i >= NextSlot(o) THEN i - NextSlot(o) ELSE i + Capacity - NextSlot(o)
    BY <1>1, CountIs
  <2> QED BY <1>1, <1>0, <2>1, CapacityAssumption DEF Slots
<1>3. SlotOf(o, 1) = o /\ \A k \in 1 .. n - 1 : SlotOf(NextSlot(o), k) = SlotOf(o, k + 1)
  BY <1>1, <1>2, CapacityAssumption DEF SlotOf, Slots
<1>4. before \in Seq(S) /\ Len(before) = n /\ \A k \in 1 .. n : before[k] = r[SlotOf(o, k)]
  BY ContentsIs DEF n
<1>5. /\ after \in Seq(S) /\ Len(after) = n - 1
      /\ \A k \in 1 .. n - 1 : after[k] = r[SlotOf(NextSlot(o), k)]
  <2>1. /\ after \in Seq(S) /\ Len(after) = Count(i, NextSlot(o))
        /\ \A k \in 1 .. Count(i, NextSlot(o)) : after[k] = r[SlotOf(NextSlot(o), k)]
    BY <1>1, ContentsIs
  <2> QED BY <1>2, <2>1
<1> HIDE DEF before, after
<1>6. before # <<>> /\ Head(before) = before[1]
  BY <1>2, <1>4
<1>7. /\ Tail(before) \in Seq(S) /\ Len(Tail(before)) = n - 1
      /\ \A k \in 1 .. n - 1 : Tail(before)[k] = before[k + 1]
  BY <1>2, <1>4, <1>6, HeadTailProperties
<1>8. ASSUME NEW k \in 1 .. n - 1 PROVE after[k] = Tail(before)[k]
  <2>1. after[k] = r[SlotOf(o, k + 1)]
    BY <1>3, <1>5
  <2>2. Tail(before)[k] = r[SlotOf(o, k + 1)]
    BY <1>2, <1>4, <1>7
  <2> QED BY <2>1, <2>2
<1>9. after = Tail(before)
  BY <1>2, <1>5, <1>7, <1>8, SeqEqual
<1> QED BY <1>2, <1>3, <1>4, <1>6, <1>9 DEF before, after
-----------------------------------------------------------------------------
\* The ring implements the bounded buffer of Capacity - 1 events: every push
\* is a Put, every pop the Get of the same event, the end of queue_cleanup a
\* Close of an empty buffer, and everything else leaves the buffer alone.
THEOREM ImplementsFifo == Spec => Fifo!Init /\ [][Fifo!Next]_Fifo!vars
<1> Main \in Threads /\ Pushers \subseteq Threads
  BY DEF Threads
<1>1. Init => IInv
  BY DEF Init, IInv, NoLostWakeup, CleanupInv, RolesInv, Threads
<1>2. Init => Fifo!Init
  <2> SUFFICES ASSUME Init PROVE Fifo!Init
    OBVIOUS
  <2>1. in \in Slots /\ in = out /\ ring \in [Slots -> {NoEvent}]
    BY CapacityAssumption DEF Init, Slots
  <2>2. Count(in, out) = 0
    BY <2>1, CountIs, CapacityAssumption DEF Slots
  <2>3. Contents \in Seq({NoEvent}) /\ Len(Contents) = 0
    BY <2>1, <2>2, ContentsIs DEF Contents
  <2>4. Contents = <<>>
    BY <2>3, EmptySeq
  <2> QED BY <2>4 DEF Fifo!Init, Init
<1>3. TypeOK /\ TypeOK' /\ IInv /\ [Next]_vars => [Fifo!Next]_Fifo!vars
  <2> SUFFICES ASSUME TypeOK, TypeOK', IInv, [Next]_vars PROVE [Fifo!Next]_Fifo!vars
    OBVIOUS
  <2> DEFINE open == pc[Main] # "left"
  <2>1. ASSUME UNCHANGED <<ring, in, out, ret>>, open' = open
        PROVE  UNCHANGED Fifo!vars
    BY <2>1 DEF Fifo!vars, Contents
  <2>2. CASE CallPop \/ CallCleanup \/ PopWait
    BY <2>1, <2>2 DEF CallPop, CallCleanup, PopWait, TypeOK
  <2>3. CASE Pop
    <3>1. Contents # <<>> /\ ret' = Head(Contents) /\ Contents' = Tail(Contents)
      BY <2>3, ReadTakesHead DEF Pop, Empty, TypeOK, Contents
    <3>2. open /\ open'
      BY <2>3 DEF Pop, Awaken, TypeOK
    <3> QED BY <3>1, <3>2 DEF Fifo!Next, Fifo!Get
  <2>4. CASE CleanupTest
    <3>1. CASE Empty
      <4>1. Count(in, out) = 0
        BY <3>1, CountIs, CapacityAssumption DEF Empty, TypeOK, Slots
      <4>2. Contents = <<>>
        <5>1. ring \in [Slots -> Events \cup {NoEvent}] /\ in \in Slots /\ out \in Slots
          BY DEF TypeOK
        <5>2. /\ ContentsOf(ring, in, out) \in Seq(Events \cup {NoEvent})
              /\ Len(ContentsOf(ring, in, out)) = 0
          BY <4>1, <5>1, ContentsIs
        <5> QED BY <5>2, EmptySeq DEF Contents
      <4>3. open /\ ~open' /\ UNCHANGED <<ring, in, out, ret>>
        BY <2>4, <3>1 DEF CleanupTest, TypeOK
      <4> QED BY <4>2, <4>3 DEF Fifo!Next, Fifo!Close, Contents
    <3>2. CASE ~Empty
      BY <2>1, <2>4, <3>2 DEF CleanupTest, TypeOK
    <3> QED BY <3>1, <3>2
  <2>5. ASSUME NEW t \in Pushers, PushWait(t) PROVE UNCHANGED Fifo!vars
    BY <2>1, <2>5 DEF PushWait, TypeOK
  <2>6. ASSUME NEW t \in Pushers, Push(t) PROVE Fifo!Next
    <3>1. arg[t] \in Events
      BY <2>6 DEF Push, IInv, RolesInv
    <3>2. Len(Contents) < Capacity - 1 /\ Contents' = Append(Contents, arg[t])
      <4>1. /\ ring' = [ring EXCEPT ![in] = arg[t]] /\ in' = NextSlot(in) /\ out' = out
            /\ NextSlot(in) # out
        BY <2>6 DEF Push, Full
      <4> DEFINE S == Events \cup {NoEvent}
      <4>2. ring \in [Slots -> S] /\ in \in Slots /\ out \in Slots /\ arg[t] \in S
        BY <3>1 DEF TypeOK
      <4> HIDE DEF S
      <4>3. /\ Len(ContentsOf(ring, in, out)) < Capacity - 1
            /\ ContentsOf([ring EXCEPT ![in] = arg[t]], NextSlot(in), out)
                 = Append(ContentsOf(ring, in, out), arg[t])
        BY <4>1, <4>2, WriteAppends, Zenon
      <4> QED BY <4>1, <4>3 DEF Contents
    <3>3. open' = open /\ ret' = ret
      BY <2>6 DEF Push, Awaken, TypeOK
    <3> QED BY <3>1, <3>2, <3>3 DEF Fifo!Next, Fifo!Put
  <2>7. ASSUME NEW t \in Pushers, NEW e \in Events, CallPush(t, e) PROVE UNCHANGED Fifo!vars
    BY <2>1, <2>7 DEF CallPush, TypeOK
  <2>8. ASSUME NEW t \in Threads, SpuriousWakeup(t) PROVE UNCHANGED Fifo!vars
    BY <2>1, <2>8 DEF SpuriousWakeup, TypeOK
  <2>9. CASE UNCHANGED vars
    BY <2>1, <2>9 DEF vars
  <2> QED
    BY <2>2, <2>3, <2>4, <2>5, <2>6, <2>7, <2>8, <2>9 DEF Next, MainStep
<1> QED BY <1>1, <1>2, <1>3, Inductive, TypeCorrect, PTL DEF Spec
=============================================================================
