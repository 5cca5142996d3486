---------------------------- MODULE MessageLink ----------------------------
(***************************************************************************)
(* What SemSystem takes the serial line for: from when the receiver        *)
(* listens, messages arrive whole, in the order they were sent, each of    *)
(* them once, and in the end all of them do, as long as no byte has been   *)
(* lost.  After that nothing is promised.  What comes before the receiver  *)
(* listens it misses, in the same order, and never takes it for a message. *)
(***************************************************************************)
EXTENDS Naturals, Sequences

CONSTANTS Messages,
          NoMessage  \* before the first message has been taken

VARIABLES transit,    \* the messages on the way, oldest first
          taken,      \* the message that has been taken last
          listening,  \* the receiver takes messages
          broken      \* a byte has been lost

vars == <<transit, taken, listening, broken>>

Init == transit = <<>> /\ taken = NoMessage /\ listening \in BOOLEAN /\ broken = FALSE

Send(m) ==
    /\ ~broken
    /\ transit' = Append(transit, m)
    /\ UNCHANGED <<taken, listening, broken>>

Take ==
    /\ ~broken /\ listening
    /\ transit # <<>>
    /\ taken' = Head(transit)
    /\ transit' = Tail(transit)
    /\ UNCHANGED <<listening, broken>>

Miss ==
    /\ ~broken /\ ~listening
    /\ transit # <<>>
    /\ transit' = Tail(transit)
    /\ UNCHANGED <<taken, listening, broken>>

Listen ==
    /\ ~broken /\ ~listening
    /\ listening' = TRUE
    /\ UNCHANGED <<transit, taken, broken>>

Break == broken'

Next == Take \/ Miss \/ Listen \/ Break \/ \E m \in Messages : Send(m)

Spec == Init /\ [][Next]_vars /\ WF_vars(Take \/ Miss)
=============================================================================
