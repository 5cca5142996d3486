---------------------------- MODULE GenericQueue ----------------------------
(***************************************************************************)
(* The queue of pointers of homework 7 (07/b3b36prg-hw07/queue.c), with    *)
(* the functions set to compare and to clear its entries.  The nodes are   *)
(* modelled as in LinkedList, which this queue is shown to implement, the  *)
(* keys of its entries taken for the values.                               *)
(***************************************************************************)
EXTENDS Integers, Sequences, FiniteSets, SequencesExt, ListNodes

CONSTANTS EntryKeys  \* the keys of the entries 1 .. Len(EntryKeys), as compare orders them

ASSUME EntryAssumption == EntryKeys \in Seq(Nat)

VARIABLES queue, queueLast, queueSize,
          callbacks,  \* the functions that have been set
          crashed,    \* a function that was not set has been called
          given, back, cleared,  \* entries handed to the queue, popped, cleared by it
          usedPush

queueVars == <<queue, queueLast, queueSize, callbacks, crashed, given, back, cleared, usedPush>>

Entries == DOMAIN EntryKeys
Callbacks == {"compare", "clear"}

QueueInit ==
    /\ queue = <<>> /\ queueLast = 0 /\ queueSize = 0 /\ callbacks = {} /\ crashed = FALSE
    /\ given = {} /\ back = {} /\ cleared = {} /\ usedPush = FALSE

\* setCompare and setClear, each on its own.
SetCallback(f) ==
    /\ callbacks' = callbacks \cup {f}
    /\ UNCHANGED <<queue, queueLast, queueSize, crashed, given, back, cleared, usedPush>>

\* A call of a function before it is set: of compare in an insert or an erase,
\* of clear in a clear or in an erase that finds its entry.
CallUnset ==
    /\ callbacks # Callbacks /\ ~crashed
    /\ queueLast # 0
    /\ crashed' = TRUE
    /\ UNCHANGED <<queue, queueLast, queueSize, callbacks, given, back, cleared, usedPush>>

Give(e) == ~crashed /\ e \notin given /\ given' = given \cup {e} /\ queueSize' = queueSize + 1

\* last is a place in the queue, 0 for NULL, -1 a node freed, -2 one not reachable.
QueuePush(e) ==
    /\ Give(e)
    /\ queue' = IF queueLast < 0 THEN queue ELSE SubSeq(queue, 1, queueLast) \o <<e>>
    /\ queueLast' = IF queueLast < 0 THEN -2 ELSE queueLast + 1
    /\ usedPush' = TRUE
    /\ UNCHANGED <<callbacks, crashed, back, cleared>>

\* Mutated form: the new last entry is not noted.
LastAfterInsertKept(place, reused) ==
    IF reused THEN place ELSE IF queueLast >= place THEN queueLast + 1 ELSE queueLast

LastAfterInsert(place, reused) ==
    IF place = Len(queue) + 1 \/ reused THEN place
    ELSE IF queueLast >= place THEN queueLast + 1 ELSE queueLast

NotGreater(k, e) == EntryKeys[queue[k]] <= EntryKeys[e]

\* insert: before the first entry that is not greater; but the only entry of a
\* queue stays before an equal one.
QueueInsert(e, reused) ==
    /\ Give(e)
    /\ "compare" \in callbacks \/ queueLast = 0
    /\ reused => queueLast = -1
    /\ \E place \in 1 .. Len(queue) + 1 :
          /\ IF queueSize = 1 /\ queue # <<>>
             THEN place = (IF EntryKeys[queue[1]] >= EntryKeys[e] THEN 2 ELSE 1)
             ELSE /\ \A k \in 1 .. place - 1 : ~NotGreater(k, e)
                  /\ place \in DOMAIN queue => NotGreater(place, e)
          /\ queue' = InsertAt(queue, place, e)
          /\ queueLast' = LastAfterInsert(place, reused)
    /\ UNCHANGED <<callbacks, crashed, back, cleared, usedPush>>

\* pop: the entry goes back to the caller.
QueuePop ==
    /\ ~crashed /\ queue # <<>>
    /\ back' = back \cup {Head(queue)}
    /\ queue' = Tail(queue)
    /\ queueSize' = queueSize - 1
    /\ queueLast' = IF Len(queue) = 1 THEN 0 ELSE IF queueLast = 1 THEN -1
                    ELSE IF queueLast > 1 THEN queueLast - 1 ELSE queueLast
    /\ UNCHANGED <<callbacks, crashed, given, cleared, usedPush>>

\* erase_first_case and the loop behind it; each entry erased is cleared.
QueueErase(key) ==
    /\ ~crashed /\ callbacks = Callbacks
    /\ LET kept(s) == Without(s, {e \in Entries : EntryKeys[e] = key})
       IN  /\ queue # kept(queue)
           /\ queue' = kept(queue)
           /\ queueSize' = queueSize - (Len(queue) - Len(queue'))
           /\ queueLast' = IF queue' = <<>> THEN 0
                           ELSE IF queueLast < 0 THEN queueLast
                           ELSE IF EntryKeys[queue[queueLast]] = key THEN -1
                           ELSE Len(kept(SubSeq(queue, 1, queueLast)))
    /\ cleared' = cleared \cup (ToSet(queue) \ ToSet(queue'))
    /\ UNCHANGED <<callbacks, crashed, given, back, usedPush>>

QueueClear ==
    /\ ~crashed /\ queueLast # 0 /\ "clear" \in callbacks
    /\ cleared' = cleared \cup ToSet(queue)
    /\ queue' = <<>> /\ queueLast' = 0 /\ queueSize' = queueSize - Len(queue)
    /\ UNCHANGED <<callbacks, crashed, given, back, usedPush>>

QueueNext ==
    \/ CallUnset \/ QueuePop \/ QueueClear
    \/ \E f \in Callbacks : SetCallback(f)
    \/ \E e \in Entries : QueuePush(e) \/ QueueErase(EntryKeys[e]) \/ \E reused \in BOOLEAN : QueueInsert(e, reused)

QueueSpec == QueueInit /\ [][QueueNext]_queueVars

-----------------------------------------------------------------------------
Lost == given \ (ToSet(queue) \cup back \cup cleared)

\* The queue is the list of linked_list.c over the keys: one step of the one
\* is one of the other, also where last has gone astray.
List == INSTANCE LinkedList
          WITH ListValues <- Range(EntryKeys), MaxCount <- Len(EntryKeys),
               items <- [k \in DOMAIN queue |-> EntryKeys[queue[k]]],
               listLast <- queueLast, count <- queueSize, pushed <- usedPush,
               cutOff <- Cardinality(Lost)
IsIntList == List!ListSpec

\* Memory: an entry is in the queue once, and is not released or given back
\* while it is there; what clear() cannot reach is just what push() cut off.
EntriesOwnedOnce ==
    /\ Cardinality(ToSet(queue)) = Len(queue)
    /\ back \cap cleared = {} /\ ToSet(queue) \cap (back \cup cleared) = {}
    /\ queueLast = 0 => Cardinality(Lost) = queueSize
=============================================================================
