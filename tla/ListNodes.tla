----------------------------- MODULE ListNodes -----------------------------
(***************************************************************************)
(* What the loops of erase() in homework 7 leave of the nodes of a list    *)
(* (07/b3b36prg-hw07/linked_list.c and queue.c): those whose entry is not  *)
(* one to erase, in their order.                                           *)
(***************************************************************************)
EXTENDS Integers, Sequences

Without(s, erased) ==
    LET kept[n \in 0 .. Len(s)] ==
            IF n = 0 THEN <<>>
            ELSE IF s[n] \in erased THEN kept[n - 1]
            ELSE Append(kept[n - 1], s[n])
    IN  kept[Len(s)]
=============================================================================
