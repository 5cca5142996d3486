------------------------------ MODULE MCQueue ------------------------------
(***************************************************************************)
(* The event queue, and homework 10, a program around a copy of it, each   *)
(* on its own: part says which one a behaviour is about.                   *)
(***************************************************************************)
EXTENDS EventQueue, TaskHost

VARIABLE part

bothVars == <<part, vars, taskVars>>

BothInit ==
    /\ part \in {"queue", "tasks"}
    /\ Init /\ TaskInit /\ (part = "tasks" \/ reports = <<>>)

InQueue(A) == part = "queue" /\ A /\ UNCHANGED <<part, taskVars>>
InTasks(A) == part = "tasks" /\ A /\ UNCHANGED <<part, vars>>

\* The variables of the other do not move.
BothFairness ==
    /\ WF_vars(part = "queue" /\ (CallPop \/ CallCleanup))
    /\ WF_vars(part = "queue" /\ Pop)
    /\ WF_vars(part = "queue" /\ CleanupTest)
    /\ \A t \in Pushers : WF_vars(part = "queue" /\ (Push(t) \/ PushWait(t)))
    /\ WF_taskVars(part = "tasks" /\ KeyboardStep) /\ WF_taskVars(part = "tasks" /\ SerialInStep)
    /\ WF_taskVars(part = "tasks" /\ HostStep) /\ WF_taskVars(part = "tasks" /\ WorkStep)

BothSpec == BothInit /\ [][InQueue(Next) \/ InTasks(TaskNext)]_bothVars /\ BothFairness
=============================================================================
