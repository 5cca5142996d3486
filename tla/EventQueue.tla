----------------------------- MODULE EventQueue -----------------------------
(***************************************************************************)
(* SEM/event_queue.c: the ring buffer through which the keyboard thread    *)
(* and the serial thread hand events to the main thread, with one mutex    *)
(* and ONE condition variable on which both full and empty waiters sleep.  *)
(*                                                                         *)
(* All accesses but the test of queue_cleanup happen under q.mtx, which is *)
(* released only by pthread_cond_wait and by the final unlock, so a step   *)
(* here is one passage through the critical section: it either finds the   *)
(* condition of the while loop true and falls asleep, or does the work and *)
(* broadcasts.  A sleeper may also wake for no reason (POSIX).             *)
(***************************************************************************)
EXTENDS Naturals, Sequences

CONSTANTS Pushers,   \* threads that call queue_push
          Main,      \* the only thread that calls queue_pop and queue_cleanup
          Events,    \* the events
          NoEvent,   \* the content of a slot never written, an answer not given
          Capacity   \* QUEUE_CAPACITY: slots of the ring, one of them unused

ASSUME CapacityAssumption == Capacity \in Nat /\ Capacity > 1
ASSUME NoEventAssumption == NoEvent \notin Events

VARIABLES ring,      \* q.queue
          in,        \* q.in, where the next push writes
          out,       \* q.out, where the next pop reads
          pc,        \* what each thread is doing with the queue
          arg,       \* the event a thread is pushing
          ret,       \* the event the last queue_pop returned to Main
          closing    \* Main has entered queue_cleanup

vars == <<ring, in, out, pc, arg, ret, closing>>

Threads == Pushers \cup {Main}
Slots == 0 .. Capacity - 1

\* "idle": outside; "push", "pop": about to (re)enter the critical section;
\* "waitPush", "waitPop": asleep in pthread_cond_wait; "cleanup": at the test
\* of queue_cleanup's loop; "left": Main is past queue_cleanup, in the joins.
States == {"idle", "push", "waitPush", "pop", "waitPop", "cleanup", "left"}

TypeOK ==
    /\ ring \in [Slots -> Events \cup {NoEvent}]
    /\ in \in Slots
    /\ out \in Slots
    /\ pc \in [Threads -> States]
    /\ arg \in [Threads -> Events \cup {NoEvent}]
    /\ ret \in Events \cup {NoEvent}
    /\ closing \in BOOLEAN

Init ==
    /\ ring = [s \in Slots |-> NoEvent]
    /\ in = 0
    /\ out = 0
    /\ pc = [t \in Threads |-> "idle"]
    /\ arg = [t \in Threads |-> NoEvent]
    /\ ret = NoEvent
    /\ closing = FALSE

-----------------------------------------------------------------------------
\* Used by a mutated form: nobody is awakened.
NoBroadcast(t, next) == [pc EXCEPT ![t] = next]

-----------------------------------------------------------------------------
NextSlot(i) == (i + 1) % Capacity
Empty == in = out
Full == NextSlot(in) = out

\* pthread_cond_broadcast, then the caller goes on in state next: every
\* sleeper is back at the test of the while loop it slept in.
Awaken(t, next) ==
    [u \in Threads |-> IF u = t THEN next
                       ELSE IF pc[u] = "waitPush" THEN "push"
                       ELSE IF pc[u] = "waitPop" THEN "pop"
                       ELSE pc[u]]

\* queue_push is called; Main too pushes, when it handles MSG_DONE.
CallPush(t, e) ==
    /\ pc[t] = "idle"
    /\ pc' = [pc EXCEPT ![t] = "push"]
    /\ arg' = [arg EXCEPT ![t] = e]
    /\ UNCHANGED <<ring, in, out, ret, closing>>

PushWait(t) ==
    /\ pc[t] = "push"
    /\ Full
    /\ pc' = [pc EXCEPT ![t] = "waitPush"]
    /\ UNCHANGED <<ring, in, out, arg, ret, closing>>

\* The mutated form tests the condition once, with "if" for "while": a thread
\* that has slept writes whatever it finds.
PushUntested(t) ==
    /\ pc[t] = "push"
    /\ ring' = [ring EXCEPT ![in] = arg[t]]
    /\ in' = NextSlot(in)
    /\ pc' = Awaken(t, "idle")
    /\ UNCHANGED <<out, arg, ret, closing>>

Push(t) ==
    /\ pc[t] = "push"
    /\ ~Full
    /\ ring' = [ring EXCEPT ![in] = arg[t]]
    /\ in' = NextSlot(in)
    /\ pc' = Awaken(t, "idle")
    /\ UNCHANGED <<out, arg, ret, closing>>

CallPop ==
    /\ pc[Main] = "idle"
    /\ pc' = [pc EXCEPT ![Main] = "pop"]
    /\ UNCHANGED <<ring, in, out, arg, ret, closing>>

PopWait ==
    /\ pc[Main] = "pop"
    /\ Empty
    /\ pc' = [pc EXCEPT ![Main] = "waitPop"]
    /\ UNCHANGED <<ring, in, out, arg, ret, closing>>

\* Mutated form: the pop does not wake those who wait for room.
PopSilent ==
    /\ pc[Main] = "pop"
    /\ ~Empty
    /\ ret' = ring[out]
    /\ out' = NextSlot(out)
    /\ pc' = NoBroadcast(Main, IF closing THEN "cleanup" ELSE "idle")
    /\ UNCHANGED <<ring, in, arg, closing>>

Pop ==
    /\ pc[Main] = "pop"
    /\ ~Empty
    /\ ret' = ring[out]
    /\ out' = NextSlot(out)
    /\ pc' = Awaken(Main, IF closing THEN "cleanup" ELSE "idle")
    /\ UNCHANGED <<ring, in, arg, closing>>

CallCleanup ==
    /\ pc[Main] = "idle"
    /\ pc' = [pc EXCEPT ![Main] = "cleanup"]
    /\ closing' = TRUE
    /\ UNCHANGED <<ring, in, out, arg, ret>>

\* Mutated form: a do-while loop, which pops before it looks.
CleanupBlind ==
    /\ pc[Main] = "cleanup"
    /\ pc' = [pc EXCEPT ![Main] = "pop"]
    /\ UNCHANGED <<ring, in, out, arg, ret, closing>>

\* The loop test of queue_cleanup reads in and out WITHOUT the mutex.  Only
\* Main moves out, so the test is as of the moment it reads in.
CleanupTest ==
    /\ pc[Main] = "cleanup"
    /\ pc' = [pc EXCEPT ![Main] = IF Empty THEN "left" ELSE "pop"]
    /\ UNCHANGED <<ring, in, out, arg, ret, closing>>

SpuriousWakeup(t) ==
    /\ pc[t] \in {"waitPush", "waitPop"}
    /\ pc' = [pc EXCEPT ![t] = IF pc[t] = "waitPush" THEN "push" ELSE "pop"]
    /\ UNCHANGED <<ring, in, out, arg, ret, closing>>

MainStep == PopWait \/ Pop \/ CleanupTest

Next ==
    \/ CallPop \/ CallCleanup \/ MainStep
    \/ \E t \in Pushers : PushWait(t) \/ Push(t) \/ \E e \in Events : CallPush(t, e)
    \/ \E t \in Threads : SpuriousWakeup(t)

\* Main is scheduled, and its event loop calls queue_pop again and again; a
\* thread whose push finds room is scheduled too.  A pusher need not push.
Fairness ==
    /\ WF_vars(CallPop \/ CallCleanup)
    /\ WF_vars(Pop)
    /\ WF_vars(CleanupTest)
    /\ \A t \in Pushers : WF_vars(Push(t) \/ PushWait(t))

Spec == Init /\ [][Next]_vars /\ Fairness

-----------------------------------------------------------------------------
\* No wake-up is lost: with a single condition variable for both conditions,
\* nobody sleeps in queue_push unless the ring is full, nor in queue_pop unless
\* it is empty, whichever thread the broadcasts woke and in whatever order.
NoLostWakeup ==
    /\ (\E t \in Threads : pc[t] = "waitPush") => Full
    /\ pc[Main] = "waitPop" => Empty

\* When Main only pops, the threads are never all asleep on the condition
\* variable: either Main can pop, or some other thread is free to push.
NeverAllAsleep ==
    (Main \notin Pushers /\ Pushers # {})
      => \E t \in Threads : pc[t] \notin {"waitPush", "waitPop"}

\* queue_cleanup tests in and out unlocked and then calls the blocking
\* queue_pop: Main never sleeps there, since nobody else takes events out.
CleanupNeverBlocks == closing => pc[Main] # "waitPop" /\ (pc[Main] = "pop" => ~Empty)

\* The events in ring r between out o and in i, oldest first.
Count(i, o) == (i + Capacity - o) % Capacity
ContentsOf(r, i, o) == [k \in 1 .. Count(i, o) |-> r[(o + k - 1) % Capacity]]
Contents == ContentsOf(ring, in, out)

\* The ring with its sleepers implements the bounded first-in first-out
\* buffer of Capacity - 1 events: nothing is lost, duplicated, overwritten or
\* reordered, and what was pushed is taken out while Main runs its loop.
Fifo == INSTANCE BoundedFifo
          WITH fifo <- Contents, answer <- ret, open <- pc[Main] # "left",
               Bound <- Capacity - 1
FifoSpec == Fifo!Spec
=============================================================================
