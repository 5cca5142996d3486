--------------------------- MODULE CounterThreads ---------------------------
(***************************************************************************)
(* The three threads of lab 10 (10/prg-lab10/main.c): one counts, one      *)
(* shows the count when it is signalled, one waits for a key.  A passage   *)
(* through a section under mtx is one step; the count itself is left out.  *)
(***************************************************************************)

VARIABLES stop,      \* shared_data.quit
          computer,  \* "start", "loop", "ended"
          shower,    \* output_thread: "lock", "waiting" on the condition, "woken", "print", "ended"
          keyer      \* input_thread: "getchar", "read", "ended"

counterVars == <<stop, computer, shower, keyer>>

CounterInit == stop = FALSE /\ computer = "start" /\ shower = "lock" /\ keyer = "getchar"

\* pthread_cond_signal and _broadcast: only the shower ever waits.
Woken == IF shower = "waiting" THEN "woken" ELSE shower

\* compute_thread looks at quit before its loop, without the mutex, and under
\* it in each round, after it has counted and before it signals.
ComputerStarts ==
    /\ computer = "start"
    /\ computer' = IF stop THEN "ended" ELSE "loop"
    /\ UNCHANGED <<stop, shower, keyer>>

\* Mutated form: the last count is not signalled.
CountsUnlessStopped ==
    /\ computer = "loop"
    /\ computer' = IF stop THEN "ended" ELSE "loop"
    /\ shower' = IF stop THEN shower ELSE Woken
    /\ UNCHANGED <<stop, keyer>>

Counts ==
    /\ computer = "loop"
    /\ computer' = IF stop THEN "ended" ELSE "loop"
    /\ shower' = Woken
    /\ UNCHANGED <<stop, keyer>>

\* output_thread waits without looking at anything; the wait may also return
\* for no reason (POSIX).  It reads quit after it has unlocked and printed.
ShowerWaits == shower = "lock" /\ shower' = "waiting" /\ UNCHANGED <<stop, computer, keyer>>
ShowerSpurious == shower = "waiting" /\ shower' = "woken" /\ UNCHANGED <<stop, computer, keyer>>
ShowerReads == shower = "woken" /\ shower' = "print" /\ UNCHANGED <<stop, computer, keyer>>
ShowerPrints == shower = "print" /\ shower' = (IF stop THEN "ended" ELSE "lock") /\ UNCHANGED <<stop, computer, keyer>>

\* input_thread: if (c = 'q') assigns, so that any key ends the program.
KeyPressed == keyer = "getchar" /\ keyer' = "read" /\ UNCHANGED <<stop, computer, shower>>
KeyStops ==
    /\ keyer = "read"
    /\ stop' = TRUE /\ keyer' = "ended" /\ shower' = Woken
    /\ UNCHANGED computer

ComputerStep == ComputerStarts \/ Counts
ShowerStep == ShowerWaits \/ ShowerReads \/ ShowerPrints
CounterNext == ComputerStep \/ ShowerStep \/ ShowerSpurious \/ KeyPressed \/ KeyStops

-----------------------------------------------------------------------------
\* A key ends the other two threads, and the shower as well if it is in its
\* wait at any time before the last count.  It stays in the wait for ever, and
\* main in its join, when the broadcast and the last signal both came while it
\* was on its way from reading quit back to the wait.
CounterQuitEnds ==
    /\ stop ~> computer = "ended" /\ keyer = "ended" /\ shower \in {"waiting", "ended"}
    /\ (stop /\ shower = "waiting" /\ computer = "loop") ~> shower = "ended"
=============================================================================
