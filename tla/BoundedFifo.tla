---------------------------- MODULE BoundedFifo ----------------------------
(***************************************************************************)
(* What SEM/event_queue.h promises its callers: a first-in first-out       *)
(* buffer of at most Bound events.  A put waits for room, a get waits for  *)
(* an event, and the reader closes the buffer when it has found it empty.  *)
(***************************************************************************)
EXTENDS Naturals, Sequences

CONSTANTS Events,   \* the events that can be queued
          NoEvent,  \* the answer of a reader that has not read yet
          Bound     \* the most events the buffer holds

VARIABLES fifo,     \* the queued events, oldest first
          answer,   \* the event the last get returned
          open      \* the reader has not closed the buffer

vars == <<fifo, answer, open>>

Init == fifo = <<>> /\ answer = NoEvent /\ open = TRUE

Put(e) ==
    /\ Len(fifo) < Bound
    /\ fifo' = Append(fifo, e)
    /\ UNCHANGED <<answer, open>>

Get ==
    /\ open
    /\ fifo # <<>>
    /\ answer' = Head(fifo)
    /\ fifo' = Tail(fifo)
    /\ UNCHANGED open

Close ==
    /\ open
    /\ fifo = <<>>
    /\ open' = FALSE
    /\ UNCHANGED <<fifo, answer>>

Next == Get \/ Close \/ \E e \in Events : Put(e)

\* The reader keeps reading while there is something to read.
Spec == Init /\ [][Next]_vars /\ WF_vars(Get)
=============================================================================
