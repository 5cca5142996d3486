----------------------------- MODULE LinkedList -----------------------------
(***************************************************************************)
(* The list of homework 7 (07/b3b36prg-hw07/linked_list.c), one action per *)
(* function of linked_list.h that changes the list.                        *)
(*                                                                         *)
(* The nodes reachable from first are a sequence of values.  last is the   *)
(* place of its node among them, 0 for NULL, or Freed or Stray: a node not *)
(* reachable any more, given back to malloc or not.                        *)
(***************************************************************************)
EXTENDS Integers, Sequences, SequencesExt, ListNodes

CONSTANTS ListValues,
          MaxCount  \* bound: the capacity the list grows to

ASSUME ListAssumption == ListValues \subseteq Nat /\ MaxCount \in Nat

Freed == -1
Stray == -2

VARIABLES items, listLast,
          count,   \* link_list->capacity
          pushed,  \* push() has been used, not insert() only
          cutOff   \* the nodes allocated and not reachable

listVars == <<items, listLast, count, pushed, cutOff>>

ListInit == items = <<>> /\ listLast = 0 /\ count = 0 /\ pushed = FALSE /\ cutOff = 0

\* push: the new node is linked to last, wherever that is, and becomes last.
\* A negative value is refused, which changes nothing.
ListPush(v) ==
    /\ count < MaxCount
    /\ IF listLast < 0 THEN /\ listLast' = Stray /\ cutOff' = cutOff + 1
                            /\ UNCHANGED items
       ELSE /\ items' = SubSeq(items, 1, listLast) \o <<v>>
            /\ listLast' = listLast + 1
            /\ cutOff' = cutOff + Len(items) - listLast
    /\ count' = count + 1
    /\ pushed' = TRUE

\* Where last is after the node at place k is freed, others staying.
LastWithout(k) == IF listLast = k THEN Freed ELSE IF listLast > k THEN listLast - 1 ELSE listLast

LastAfterPop == IF Len(items) = 1 THEN 0 ELSE LastWithout(1)

\* pop: of an empty list it returns POP_FAILURE and changes nothing.
ListPop ==
    /\ items # <<>>
    /\ items' = Tail(items)
    /\ listLast' = LastAfterPop
    /\ count' = count - 1
    /\ UNCHANGED <<pushed, cutOff>>

BehindGreater(v) ==
    CHOOSE k \in 1 .. Len(items) :
        /\ k = Len(items) \/ items[k + 1] <= v
        /\ \A j \in 2 .. k : items[j] > v

\* Mutated form: of one node the first is not compared.
InsertPlaceAlwaysBehind(v) ==
    IF items = <<>> \/ (count # 1 /\ items[1] <= v) THEN 0 ELSE BehindGreater(v)

\* insert_one_case and insert_multiple_case: the number of nodes v comes
\* behind.  One node is told from more by the capacity, not by first.
InsertPlace(v) ==
    IF items = <<>> \/ (count = 1 /\ items[1] < v) \/ (count # 1 /\ items[1] <= v) THEN 0
    ELSE BehindGreater(v)

\* insert.  malloc may return the node that was freed while last points to it.
ListInsert(v, reused) ==
    /\ count < MaxCount
    /\ reused => listLast = Freed
    /\ LET k == InsertPlace(v)
       IN  /\ items' = InsertAt(items, k + 1, v)
           /\ listLast' = IF k = Len(items) \/ reused THEN k + 1
                          ELSE IF listLast > k THEN listLast + 1 ELSE listLast
    /\ count' = count + 1
    /\ UNCHANGED <<pushed, cutOff>>

\* erase_first_case and the loop behind it; set_to_null.  When the node of
\* last goes and others stay, last keeps pointing to it.
ListErase(v) ==
    /\ Contains(items, v)
    /\ items' = Without(items, {v})
    /\ listLast' = IF items' = <<>> THEN 0
                   ELSE IF listLast < 0 THEN listLast
                   ELSE IF items[listLast] = v THEN Freed
                   ELSE Len(Without(SubSeq(items, 1, listLast), {v}))
    /\ count' = count - (Len(items) - Len(items'))
    /\ UNCHANGED <<pushed, cutOff>>

ListClear ==
    /\ items' = <<>> /\ listLast' = 0
    /\ count' = count - Len(items)
    /\ UNCHANGED <<pushed, cutOff>>

ListNext ==
    \/ ListPop \/ ListClear
    \/ \E v \in ListValues : ListPush(v) \/ ListErase(v) \/ \E reused \in BOOLEAN : ListInsert(v, reused)

ListSpec == ListInit /\ [][ListNext]_listVars

-----------------------------------------------------------------------------
\* insert() alone keeps the list in the order its comment promises, whatever
\* is popped and erased in between, also while last points to a freed node.
InsertSorts == ~pushed => \A j, k \in DOMAIN items : j < k => items[j] >= items[k]
=============================================================================
