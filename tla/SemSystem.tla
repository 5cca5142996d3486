------------------------------ MODULE SemSystem ------------------------------
(***************************************************************************)
(* The semester project as a whole: the user, the host's event loop        *)
(* (SEM/prgsem-main.c) with its computation (Computation), and the board   *)
(* (Nucleo), joined by two links that keep the order of the messages.      *)
(*                                                                         *)
(* main handles one event at a time with mtx held, so handling an event is *)
(* one step.  The link from the board and the event queue are ONE sequence *)
(* here: a message still on the wire cannot be told from one the board has *)
(* not sent yet.  The queue is not full (HostThreads is about that), and   *)
(* messages arrive whole (MessageLink and SerialToHost are about that).    *)
(***************************************************************************)
EXTENDS Naturals, Sequences

CONSTANTS Divide, Width, Height, Step, MaxWidth,  \* as in Computation
          Keys,         \* the keys the user may press, a subset of AllKeys
          MaxKeys,      \* bound: keys pressed
          MaxButtons,   \* bound: presses of the board's user button
          MaxRestarts,  \* bound: resets of the board
          Hasty         \* the keys pressed at any moment, the others when all is quiet

\* "set" s, "start" 1 .. 5, "cpu" c, "abort" a, "reset" r, "clear" l,
\* "version" g, "resize" d after t and +.
AllKeys == {"set", "start", "cpu", "abort", "reset", "clear", "version", "resize"}

VARIABLES comp, last,       \* the computation on the host, see Computation
          grid,             \* comp.grid: how good the value at each index is
          data_computing,   \* data.computing
          events,           \* the event queue, with the link from the board
          toBoard,          \* the link to the board
          \* the board, see Nucleo
          computing, abort_request, at, chunk, i, j, pixel, params,
          stopped,          \* an abort was accepted, and the user has not started since
          keys, buttons, restarts  \* for the bounds

\* What was asked for is in the links here, so that Computation's record of it
\* is not needed.
C == INSTANCE Computation WITH asked <- {}
\* Parameters are what a MSG_SET_COMPUTE depends on, the size of the image;
\* before the first MSG_COMPUTE the board's chunk is arbitrary and not read.
N == INSTANCE Nucleo
       WITH fromHost <- toBoard, toHost <- events,
            Chunks <- {C!Request(C!CompInit)}, Parameters <- {}, NoParameters <- <<>>,
            MaxOnTheWay <- 0

\* The sizes are those Computation is about.
ASSUME ImageAssumption == C!DivideAssumption /\ C!SizeAssumption

boardVars == <<computing, abort_request, at, chunk, i, j, pixel, params>>
hostVars == <<comp, last, grid, data_computing, stopped>>
budget == <<keys, buttons, restarts>>
vars == <<hostVars, events, toBoard, boardVars, budget>>

-----------------------------------------------------------------------------
\* What is known of a grid element: "unset"; "good": the value of its pixel;
\* "unprepared": of its pixel, but computed without the parameters of this
\* image; "alien": the value of another pixel; "cleared": zero since the user
\* cleared the grid.
Blank(c) == [k \in 0 .. c.w * c.h - 1 |-> "unset"]

Key(k) == [type |-> "key", key |-> k, byUser |-> TRUE]
NextChunkEvent == [type |-> "key", key |-> "start", byUser |-> FALSE]

Init ==
    /\ C!Init
    /\ grid = Blank(comp)
    /\ data_computing = FALSE
    /\ toBoard = <<>>
    /\ events = <<N!Simple("STARTUP")>>
    /\ N!BoardInit
    /\ stopped = FALSE
    /\ keys = 0 /\ buttons = 0 /\ restarts = 0

Quiet == events = <<>> /\ toBoard = <<>> /\ ~computing

\* input_thread: 1 .. 5 and r are dropped while data.computing, as it is when
\* the key is READ; what happens until the event is handled is not known here.
Admitted(k) == k \in {"start", "reset"} => ~data_computing

\* Bound: one resize at a time, up to MaxWidth.
ResizeBound ==
    /\ comp.w + Step <= MaxWidth
    /\ \A n \in DOMAIN events : events[n].type = "key" => events[n].key # "resize"

Press(k) ==
    /\ keys < MaxKeys
    /\ k = "resize" => ResizeBound
    /\ keys' = keys + 1
    /\ k \in Hasty \/ Quiet
    /\ Admitted(k)
    /\ events' = Append(events, Key(k))
    /\ UNCHANGED <<hostVars, toBoard, boardVars, buttons, restarts>>

-----------------------------------------------------------------------------
(* main: the handling of one event.                                        *)

ToBoard(m) == toBoard' = Append(toBoard, m)
Pops(t) == events # <<>> /\ Head(events).type = t /\ events' = Tail(events)
PopsKey(k) == Pops("key") /\ Head(events).key = k

Unmoved == UNCHANGED <<boardVars, budget>>

HandleSet ==
    /\ PopsKey("set")
    /\ IF C!MaySet(comp)
       THEN /\ comp' = C!AfterSet(comp)
            /\ ToBoard([type |-> "SET_COMPUTE", params |-> <<comp.w, comp.h>>])
       ELSE UNCHANGED <<comp, toBoard>>
    /\ UNCHANGED <<last, grid, data_computing, stopped>> /\ Unmoved

\* EV_COMPUTE, of the user or of main itself: data.computing is set whether
\* or not there was a chunk left to send.
HandleStart ==
    /\ PopsKey("start")
    /\ comp' = C!Advanced(C!Enabled(comp))
    /\ IF comp'.computing
       THEN ToBoard([type |-> "COMPUTE", chunk |-> C!Request(comp')])
       ELSE UNCHANGED toBoard
    /\ data_computing' = TRUE
    /\ stopped' = (stopped /\ ~Head(events).byUser)
    /\ UNCHANGED <<last, grid>> /\ Unmoved

HandleCpu ==
    /\ PopsKey("cpu")
    /\ comp' = IF data_computing THEN comp ELSE C!Enabled(comp)
    /\ UNCHANGED <<toBoard, last, grid, data_computing, stopped>> /\ Unmoved

\* Mutated form: the board is not told.
HandleAbortUntold ==
    /\ PopsKey("abort")
    /\ IF data_computing
       THEN comp' = C!Aborted(comp) /\ stopped' = TRUE
       ELSE UNCHANGED <<comp, stopped>>
    /\ data_computing' = FALSE
    /\ UNCHANGED <<last, grid, toBoard>> /\ Unmoved

HandleAbort ==
    /\ PopsKey("abort")
    /\ IF data_computing
       THEN /\ comp' = C!Aborted(comp)
            /\ ToBoard(N!Simple("ABORT"))
            /\ stopped' = TRUE
       ELSE UNCHANGED <<comp, toBoard, stopped>>
    /\ data_computing' = FALSE
    /\ UNCHANGED <<last, grid>> /\ Unmoved

HandleReset ==
    /\ PopsKey("reset")
    /\ comp' = C!AtChunkZero(comp)
    /\ UNCHANGED <<toBoard, last, grid, data_computing, stopped>> /\ Unmoved

HandleClear ==
    /\ PopsKey("clear")
    /\ grid' = [k \in DOMAIN grid |-> IF grid[k] = "unset" THEN "unset" ELSE "cleared"]
    /\ UNCHANGED <<comp, last, toBoard, data_computing, stopped>> /\ Unmoved

HandleVersion ==
    /\ PopsKey("version")
    /\ ToBoard(N!Simple("GET_VERSION"))
    /\ UNCHANGED hostVars /\ Unmoved

\* EV_CHANGE_DONE: nothing asks whether a computation is running.
HandleResize ==
    /\ PopsKey("resize")
    /\ comp' = C!Resized(comp, Step)
    /\ grid' = Blank(comp')
    /\ UNCHANGED <<last, toBoard, data_computing, stopped>> /\ Unmoved

HandleStartup ==
    /\ Pops("STARTUP")
    /\ data_computing' = FALSE
    /\ UNCHANGED <<comp, last, grid, toBoard, stopped>> /\ Unmoved

\* MSG_OK and MSG_VERSION are only reported.
HandleReport ==
    /\ Pops("OK") \/ Pops("VERSION")
    /\ UNCHANGED <<hostVars, toBoard>> /\ Unmoved

\* The pixel a MSG_COMPUTE_DATA is for: its chunk carries the corner the
\* board started from.
Computed(m) ==
    [cid |-> m.chunk.cid, i_re |-> m.i_re, i_im |-> m.i_im,
     iter |-> <<m.chunk.w, m.chunk.h, m.chunk.x + m.i_re, m.chunk.y + m.i_im>>]
Quality(c, d, m) ==
    IF d.iter # C!Pixel(c, C!Index(c, d) % c.w, C!Index(c, d) \div c.w) THEN "alien"
    ELSE IF m.params # <<c.w, c.h>> THEN "unprepared" ELSE "good"

HandleData ==
    /\ Pops("COMPUTE_DATA")
    /\ LET m == Head(events)
           d == Computed(m)
       IN  IF comp.abort THEN UNCHANGED <<comp, grid>>
           ELSE /\ comp' = C!Updated(comp, d)
                /\ grid' = IF C!Hits(comp, d)
                           THEN [grid EXCEPT ![C!Index(comp, d)] = Quality(comp, d, m)]
                           ELSE grid
    /\ UNCHANGED <<last, toBoard, data_computing, stopped>> /\ Unmoved

\* Mutated forms: the chunk after a chunk is not asked for; data.computing
\* stays set after the last chunk.
HandleDoneForgets ==
    /\ Pops("DONE")
    /\ data_computing' = FALSE
    /\ UNCHANGED <<comp, last, grid, toBoard, stopped>> /\ Unmoved
HandleDoneStaysComputing ==
    /\ events # <<>> /\ Head(events).type = "DONE"
    /\ events' = IF comp.done THEN Tail(events) ELSE Append(Tail(events), NextChunkEvent)
    /\ UNCHANGED <<comp, last, grid, data_computing, toBoard, stopped>> /\ Unmoved

\* MSG_DONE: main asks itself for the next chunk through the queue.
HandleDone ==
    /\ events # <<>> /\ Head(events).type = "DONE"
    /\ events' = IF comp.done THEN Tail(events) ELSE Append(Tail(events), NextChunkEvent)
    /\ data_computing' = FALSE
    /\ UNCHANGED <<comp, last, grid, toBoard, stopped>> /\ Unmoved

HandleBoardAbort ==
    /\ Pops("ABORT")
    /\ comp' = C!Aborted(comp)
    /\ data_computing' = FALSE
    /\ stopped' = TRUE
    /\ UNCHANGED <<last, grid, toBoard>> /\ Unmoved

HandleKey ==
    HandleSet \/ HandleStart \/ HandleCpu \/ HandleAbort \/ HandleReset
    \/ HandleClear \/ HandleVersion \/ HandleResize
HandleMessage ==
    HandleStartup \/ HandleReport \/ HandleData \/ HandleDone \/ HandleBoardAbort
Main == HandleKey \/ HandleMessage

-----------------------------------------------------------------------------
(* The board.                                                              *)

Board == N!Work /\ UNCHANGED <<hostVars, budget>>

PressButton ==
    /\ buttons < MaxButtons
    /\ buttons' = buttons + 1
    /\ N!Button
    /\ UNCHANGED <<hostVars, keys, restarts>>

RestartBoard ==
    /\ restarts < MaxRestarts
    /\ restarts' = restarts + 1
    /\ N!Restart
    /\ UNCHANGED <<hostVars, keys, buttons>>

Next == Main \/ Board \/ PressButton \/ RestartBoard \/ \E k \in Keys : Press(k)

\* Both programs run; the user and the buttons owe nothing.
Fairness == WF_vars(Main) /\ WF_vars(Board)
Spec == Init /\ [][Next]_vars /\ Fairness

-----------------------------------------------------------------------------
TypeOK ==
    /\ C!CompType
    /\ grid \in [0 .. comp.w * comp.h - 1 -> {"unset", "good", "unprepared", "alien", "cleared"}]
    /\ data_computing \in BOOLEAN /\ stopped \in BOOLEAN
    /\ computing \in BOOLEAN /\ abort_request \in BOOLEAN /\ at \in {"check", "work"}

\* No value is stored for a pixel it was not computed for, however the keys,
\* the data still on the way, the aborts and the restarts interleave.
AlignedWrites == \A k \in DOMAIN grid : grid[k] # "alien"

\* When the host says the computation is done, every pixel of the image has
\* been stored: no chunk was left out.  (A pixel may have been cleared since.)
DoneMeansComplete == comp.done => \A k \in DOMAIN grid : grid[k] # "unset"

\* A computation that is running comes to its end, unless it is aborted, with
\* whatever else the user asks for meanwhile.
Completes == (comp.computing /\ ~comp.done) ~> (comp.done \/ comp.abort)

\* When nothing is in flight and the board is idle, the host does not believe
\* that it is computing (it would drop every further start).
InSync == Quiet => ~data_computing

\* "abort computation": once an abort was accepted, no chunk is sent to the
\* board until the user starts again.
SendsChunk ==
    Len(toBoard') > Len(toBoard) /\ toBoard'[Len(toBoard')].type = "COMPUTE"
AbortSticks == [][SendsChunk => ~stopped']_vars

\* No abort crosses the next chunk: while a MSG_ABORT is on its way to the
\* board, no MSG_DONE and no wish of main itself is on its way to main, which
\* would have it ask for one more.
Uncrossed ==
    \/ \A n \in DOMAIN toBoard : toBoard[n].type # "ABORT"
    \/ \A n \in DOMAIN events : events[n].type # "DONE" /\ events[n] # NextChunkEvent
=============================================================================
