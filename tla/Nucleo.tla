------------------------------- MODULE Nucleo -------------------------------
(***************************************************************************)
(* SEM/main.cpp: the firmware that computes one chunk at a time.  Each     *)
(* round of its loop first answers a pressed button, then takes a message  *)
(* if one has arrived, else computes one pixel.  The button interrupt may  *)
(* come between any two of these steps.                                    *)
(*                                                                         *)
(* Messages are whole here and in order: MessageLink and SerialToHost say  *)
(* what stands behind that.                                                *)
(***************************************************************************)
EXTENDS Naturals, Sequences

CONSTANTS Chunks,      \* what a MSG_COMPUTE may ask for
          Parameters,  \* what a MSG_SET_COMPUTE may carry
          NoParameters \* n, c and d before the first MSG_SET_COMPUTE: undefined

ASSUME ChunkAssumption ==
    \A m \in Chunks : m.n_re \in Nat \ {0} /\ m.n_im \in Nat \ {0}
ASSUME ParameterAssumption == NoParameters \notin Parameters

VARIABLES fromHost,  \* messages on the way from the host, oldest first
          toHost,    \* messages on the way to the host
          computing, \* computing
          abort_request,
          at,        \* "check": before the test of abort_request, "work": after
          chunk,     \* cid, re, im, n_re, n_im: the chunk of the last MSG_COMPUTE
          i, j,      \* the next pixel
          pixel,     \* the number of pixels sent
          params     \* n, c_re, c_im, d_re, d_im

boardVars == <<computing, abort_request, at, chunk, i, j, pixel, params>>
nucleoVars == <<fromHost, toHost, boardVars>>

Simple(t) == [type |-> t]
Data(c, x, y, p) == [type |-> "COMPUTE_DATA", chunk |-> c, i_re |-> x, i_im |-> y, params |-> p]
HostMessages ==
    {Simple(t) : t \in {"GET_VERSION", "ABORT"}}
      \cup {[type |-> "SET_COMPUTE", params |-> p] : p \in Parameters}
      \cup {[type |-> "COMPUTE", chunk |-> c] : c \in Chunks}

\* The state main() starts from; chunk and i, j, pixel are not read before
\* the first MSG_COMPUTE sets them.
BoardInit ==
    /\ computing = FALSE
    /\ abort_request = FALSE
    /\ at = "work"
    /\ chunk \in Chunks
    /\ i = 0 /\ j = 0 /\ pixel = 0
    /\ params = NoParameters

NucleoInit == BoardInit /\ fromHost = <<>> /\ toHost = <<Simple("STARTUP")>>

Send(m) == toHost' = Append(toHost, m)

\* The next round tests abort_request again, which matters while computing.
NextRound(c) == IF c THEN "check" ELSE "work"

-----------------------------------------------------------------------------
\* The interrupt of the button.
Button ==
    /\ abort_request' = TRUE
    /\ UNCHANGED <<fromHost, toHost, computing, at, chunk, i, j, pixel, params>>

\* Mutated form: the computation goes on after the MSG_ABORT.
CheckGoesOn ==
    /\ at = "check"
    /\ at' = "work"
    /\ IF abort_request /\ computing
       THEN Send(Simple("ABORT")) /\ abort_request' = FALSE
       ELSE UNCHANGED <<toHost, abort_request>>
    /\ UNCHANGED <<fromHost, computing, chunk, i, j, pixel, params>>

\* The test at the head of the loop.
Check ==
    /\ at = "check"
    /\ at' = "work"
    /\ IF abort_request /\ computing
       THEN /\ Send(Simple("ABORT"))
            /\ computing' = FALSE
            /\ abort_request' = FALSE
       ELSE UNCHANGED <<toHost, computing, abort_request>>
    /\ UNCHANGED <<fromHost, chunk, i, j, pixel, params>>

Receives(t) ==
    /\ at = "work"
    /\ fromHost # <<>>
    /\ Head(fromHost).type = t
    /\ fromHost' = Tail(fromHost)

ReceiveGetVersion ==
    /\ Receives("GET_VERSION")
    /\ Send(Simple("VERSION"))
    /\ at' = NextRound(computing)
    /\ UNCHANGED <<computing, abort_request, chunk, i, j, pixel, params>>

ReceiveAbort ==
    /\ Receives("ABORT")
    /\ toHost' = toHost \o <<Simple("OK"), Simple("ABORT")>>
    /\ computing' = FALSE
    /\ abort_request' = FALSE
    /\ at' = NextRound(FALSE)
    /\ UNCHANGED <<chunk, i, j, pixel, params>>

ReceiveSetCompute ==
    /\ Receives("SET_COMPUTE")
    /\ params' = Head(fromHost).params
    /\ Send(Simple("OK"))
    /\ at' = NextRound(computing)
    /\ UNCHANGED <<computing, abort_request, chunk, i, j, pixel>>

\* Mutated form: a new chunk is taken although one is being computed.
ReceiveComputeAlways ==
    /\ Receives("COMPUTE")
    /\ chunk' = Head(fromHost).chunk
    /\ computing' = TRUE
    /\ Send(Simple("OK"))
    /\ at' = NextRound(TRUE)
    /\ i' = 0 /\ j' = 0 /\ pixel' = 0
    /\ UNCHANGED <<abort_request, params>>

\* Mutated form: i and j are not set to zero.
ReceiveComputeKeepsCorner ==
    /\ Receives("COMPUTE")
    /\ IF computing THEN UNCHANGED <<chunk, pixel>>
       ELSE chunk' = Head(fromHost).chunk /\ pixel' = 0
    /\ computing' = TRUE
    /\ Send(Simple("OK"))
    /\ at' = NextRound(TRUE)
    /\ UNCHANGED <<abort_request, i, j, params>>

\* A chunk asked for while another is computed is answered MSG_OK as well.
ReceiveCompute ==
    /\ Receives("COMPUTE")
    /\ IF computing THEN UNCHANGED <<chunk, i, j, pixel>>
       ELSE chunk' = Head(fromHost).chunk /\ i' = 0 /\ j' = 0 /\ pixel' = 0
    /\ computing' = TRUE
    /\ Send(Simple("OK"))
    /\ at' = NextRound(TRUE)
    /\ UNCHANGED <<abort_request, params>>

\* One pixel, when no message has arrived (one may still be on the way).
ComputePixel ==
    /\ at = "work"
    /\ computing
    /\ chunk.n_re * chunk.n_im > pixel
    /\ Send(Data(chunk, i, j, params))
    /\ pixel' = pixel + 1
    /\ IF (i + 1) % chunk.n_re = 0 THEN i' = 0 /\ j' = j + 1
                                   ELSE i' = i + 1 /\ j' = j
    /\ at' = "check"
    /\ UNCHANGED <<fromHost, computing, abort_request, chunk, params>>

ChunkDone ==
    /\ at = "work"
    /\ computing
    /\ chunk.n_re * chunk.n_im <= pixel
    /\ Send(Simple("DONE"))
    /\ computing' = FALSE
    /\ at' = NextRound(FALSE)
    /\ UNCHANGED <<fromHost, abort_request, chunk, i, j, pixel, params>>

\* The reset button: everything is lost, with what was on the way from the
\* host up to some message, and MSG_STARTUP is sent.  tx_buffer is lost as
\* well.  No message is taken back for that: what the host has seen is also
\* seen when the board stands still before the first message lost and the
\* reset takes all that it would have read from then on.  A message of which
\* a part was on the wire is left out; to the host it is one that has lost
\* bytes (SerialToHost).
Restart ==
    /\ computing' = FALSE
    /\ abort_request' = FALSE
    /\ at' = "work"
    /\ params' = NoParameters
    /\ i' = 0 /\ j' = 0 /\ pixel' = 0
    /\ \E n \in 0 .. Len(fromHost) : fromHost' = SubSeq(fromHost, n + 1, Len(fromHost))
    /\ Send(Simple("STARTUP"))
    /\ UNCHANGED chunk

Receive == ReceiveGetVersion \/ ReceiveAbort \/ ReceiveSetCompute \/ ReceiveCompute
Work == Check \/ Receive \/ ComputePixel \/ ChunkDone

-----------------------------------------------------------------------------
(* The board with any host: it sends what it likes and reads what it gets. *)

CONSTANT MaxOnTheWay  \* bound: messages on the way in one direction

HostSends(m) ==
    /\ Len(fromHost) < MaxOnTheWay
    /\ fromHost' = Append(fromHost, m)
    /\ UNCHANGED <<toHost, boardVars>>

HostReads ==
    /\ toHost # <<>>
    /\ toHost' = Tail(toHost)
    /\ UNCHANGED <<fromHost, boardVars>>

\* The transmit buffer is bounded: the board waits until there is room.
RoomToSend == Len(toHost) < MaxOnTheWay

NucleoNext ==
    \/ RoomToSend /\ (Work \/ Restart)
    \/ Button
    \/ HostReads
    \/ \E m \in HostMessages : HostSends(m)

NucleoSpec == NucleoInit /\ [][NucleoNext]_nucleoVars

-----------------------------------------------------------------------------
BoardType ==
    /\ computing \in BOOLEAN /\ abort_request \in BOOLEAN
    /\ at \in {"check", "work"}
    /\ chunk \in Chunks
    /\ params \in Parameters \cup {NoParameters}
    /\ i \in Nat /\ j \in Nat /\ pixel \in Nat

\* The pixel counter, which ends the chunk, and the position (i, j), which is
\* sent to the host, go row by row together: pixel number "pixel" of the chunk
\* is in column i and row j, so that a chunk that reports MSG_DONE has sent
\* each of its pixels once, and no other.
RowByRow ==
    computing => /\ pixel = j * chunk.n_re + i
                 /\ i < chunk.n_re
                 /\ pixel <= chunk.n_re * chunk.n_im

\* What is sent lies inside the chunk it names.
DataInside ==
    \A k \in DOMAIN toHost :
        toHost[k].type = "COMPUTE_DATA" =>
            toHost[k].i_re < toHost[k].chunk.n_re /\ toHost[k].i_im < toHost[k].chunk.n_im

\* The pixels of a chunk are computed in order, and those on the way, whatever
\* the board has been asked to do since, are pixels of the chunk they name.
PixelsInOrder == RowByRow /\ DataInside

\* A chunk is never replaced by another in the middle: the board leaves a
\* chunk only through MSG_DONE, MSG_ABORT or a restart, which it reports.
ReportsEnd ==
    [][computing /\ (~computing' \/ chunk' # chunk)
         => /\ ~computing'
            /\ Len(toHost') > Len(toHost)
            /\ toHost'[Len(toHost')].type \in {"DONE", "ABORT", "STARTUP"}]_nucleoVars
=============================================================================
