----------------------------- MODULE RingQueue -----------------------------
(***************************************************************************)
(* The queue of homework 6 (06/b3b36prg-hw06/queue.c): a ring in an array  *)
(* that grows when it is full and shrinks when a third of it would do,     *)
(* under the commands of its main.c, which ends by popping what is left.   *)
(*                                                                         *)
(* due is what queue.h promises: the elements added and not removed.       *)
(***************************************************************************)
EXTENDS Integers, Sequences

CONSTANTS RingValues,
          MaxCapacity,  \* bound: the capacity the ring grows to
          MaxDue        \* bound: elements in the queue

ASSUME RingAssumption == MaxCapacity \in Nat /\ MaxDue \in Nat

VARIABLES array, first, last, capacity, ringSize,
          ring,     \* main: "create", "commands", "drain" (it empties the queue), "ended", "crashed"
          due,
          damaged   \* the array has grown while its elements were wrapped around its end

ringVars == <<array, first, last, capacity, ringSize, ring, due, damaged>>

Garbage == "garbage"  \* what malloc and realloc leave in an element

RingInit ==
    /\ array = <<>> /\ capacity = 0 /\ first = -1 /\ last = -1 /\ ringSize = 0
    /\ ring = "create" /\ due = <<>> /\ damaged = FALSE

Create(n) ==
    /\ ring = "create"
    /\ capacity' = n
    /\ array' = [k \in 0 .. n - 1 |-> Garbage]
    /\ ring' = "commands"
    /\ UNCHANGED <<first, last, ringSize, due, damaged>>

RingAfter(k, n) == IF k = n - 1 THEN 0 ELSE k + 1

\* my_realloc: the elements stay where they are.
Realloc(n) == [k \in 0 .. n - 1 |-> IF k < capacity THEN array[k] ELSE Garbage]

\* Mutated form: the array grows one element too late.
GrownLate == IF ringSize > capacity THEN 2 * capacity ELSE capacity

Grown == IF ringSize >= capacity THEN 2 * capacity ELSE capacity

Push(v) ==
    /\ ring = "commands"
    /\ Grown > 0 /\ Grown <= MaxCapacity /\ Len(due) < MaxDue
    /\ capacity' = Grown
    /\ last' = IF first = -1 THEN 0 ELSE RingAfter(last, Grown)
    /\ first' = IF first = -1 THEN 0 ELSE first
    /\ array' = [Realloc(Grown) EXCEPT ![last'] = v]
    /\ ringSize' = ringSize + 1
    /\ due' = Append(due, v)
    /\ damaged' = (damaged \/ (Grown > capacity /\ first > 0))
    /\ UNCHANGED ring

\* realloc to no element returns NULL after the array is freed, and
\* free_completely frees it again.
PushNowhere ==
    /\ ring = "commands" /\ Grown = 0
    /\ ring' = "crashed"
    /\ UNCHANGED <<array, first, last, capacity, ringSize, due, damaged>>

AfterPop == IF first = last THEN <<-1, -1>> ELSE <<RingAfter(first, capacity), last>>

\* Mutated form: the size is not counted down with the last element.
SizeAfterPopKept == IF first = last THEN ringSize ELSE ringSize - 1

SizeAfterPop == ringSize - 1

\* The case in which the array stays as it is.
Pop ==
    /\ ring \in {"commands", "drain"}
    /\ first # -1 /\ ringSize >= capacity \div 3
    /\ first' = AfterPop[1] /\ last' = AfterPop[2]
    /\ ringSize' = SizeAfterPop
    /\ due' = IF due = <<>> THEN <<>> ELSE Tail(due)
    /\ UNCHANGED <<array, capacity, ring, damaged>>

\* Otherwise reorganise() empties the queue by pop_from_queue, which calls
\* reorganise() again with nothing changed: the stack overflows.
PopShrinking ==
    /\ ring \in {"commands", "drain"}
    /\ first # -1 /\ ringSize < capacity \div 3
    /\ ring' = "crashed"
    /\ UNCHANGED <<array, first, last, capacity, ringSize, due, damaged>>

InputEnds == ring = "commands" /\ ring' = "drain" /\ UNCHANGED <<array, first, last, capacity, ringSize, due, damaged>>

DrainEnds == ring = "drain" /\ ringSize = 0 /\ ring' = "ended" /\ UNCHANGED <<array, first, last, capacity, ringSize, due, damaged>>

RingNext ==
    \/ \E n \in 0 .. MaxCapacity : Create(n)
    \/ \E v \in RingValues : Push(v)
    \/ PushNowhere \/ Pop \/ PopShrinking \/ InputEnds \/ DrainEnds

\* main does not stop in the middle of its last loop.
Draining == DrainEnds \/ (ring = "drain" /\ (Pop \/ PopShrinking))

RingSpec == RingInit /\ [][RingNext]_ringVars /\ WF_ringVars(Draining)

\* get_from_queue
GetFromQueue(idx) ==
    IF idx < 0 \/ idx >= capacity \/ idx > ringSize - 1 \/ first = -1 THEN "NULL"
    ELSE array[(first + idx) % capacity]

-----------------------------------------------------------------------------
\* Through any number of wraps and growths the queue holds what was pushed and
\* not popped, in order, and get_from_queue finds it and nothing else; except
\* after a growth while the elements were wrapped around the end of the array.
RingIsFifo ==
    ~damaged /\ ring \in {"commands", "drain"} =>
        \A k \in -1 .. MaxDue :
            GetFromQueue(k) = IF k \in 0 .. Len(due) - 1 THEN due[k + 1] ELSE "NULL"

\* The loop that empties the queue at the end of main ends, unless the ring
\* was damaged or the shrinking crashes it.
DrainReachesEnd == ring = "drain" ~> ring \in {"ended", "crashed"} \/ damaged
=============================================================================
