----------------------------- MODULE MCPrograms -----------------------------
(***************************************************************************)
(* The other programs, each on its own: part says which one a behaviour is *)
(* about.  Keys, lost messages and the interrupts of a board may stop      *)
(* coming; a thread that can go on does.                                   *)
(***************************************************************************)
EXTENDS RingQueue, LinkedList, GenericQueue, MatrixCalc, SmallPrograms,
        CounterThreads, LedClient, PipeClient

VARIABLE part

Strings(letters, n) == UNION {[1 .. k -> letters] : k \in 0 .. n}

MCEntryKeys == <<1, 2, 2, 1, 3>>
MCMatrices == {<< <<1, 2>>, <<0, -1>> >>, << <<2, 0>>, <<1, 1>> >>, << <<3, -2>> >>}
MCInputs ==
    [program : {"house"}, width : {2, 3, 4, 5, 7, 70}, height : {2, 3, 5, 6, 7}, fence : 0 .. 7]
    \cup [program : {"factors"}, num : 1 .. 50]
    \cup [program : {"caesar"}, string1 : Strings({65, 90, 97, 110}, 2), string2 : Strings({65, 98, 122}, 2)]
    \cup [program : {"grep"}, pattern : Strings({"a", "b"}, 2),
          lines : {<<s, t>> : s \in Strings({"a", "b"}, 3), t \in Strings({"a"}, 1)}]

allVars == <<part, ringVars, listVars, queueVars, calcVars, progVars, counterVars, ledVars, pipeVars>>

Init ==
    /\ part \in {"ring", "list", "queue", "calculator", "programs", "counter", "led", "pipe"}
    /\ RingInit /\ ListInit /\ QueueInit
    /\ IF part = "calculator" THEN CalcInit
       ELSE m1 = NoMatrix /\ m2 = NoMatrix /\ sign1 = NoSign /\ calc = "reading" /\ terms = <<>>
    /\ IF part = "programs" THEN ProgInit ELSE input = [program |-> "none"] /\ ran = FALSE /\ printed = <<>>
    /\ CounterInit /\ PipeInit
    /\ LedInit /\ (part = "led" \/ read = "?")

Only(p) ==
    /\ part = p /\ UNCHANGED part
    /\ p # "ring" => UNCHANGED ringVars
    /\ p # "list" => UNCHANGED listVars
    /\ p # "queue" => UNCHANGED queueVars
    /\ p # "calculator" => UNCHANGED calcVars
    /\ p # "programs" => UNCHANGED progVars
    /\ p # "counter" => UNCHANGED counterVars
    /\ p # "led" => UNCHANGED ledVars
    /\ p # "pipe" => UNCHANGED pipeVars

Next ==
    \/ Only("ring") /\ RingNext
    \/ Only("list") /\ ListNext
    \/ Only("queue") /\ QueueNext
    \/ Only("calculator") /\ CalcNext
    \/ Only("programs") /\ RunProgram
    \/ Only("counter") /\ CounterNext
    \/ Only("led") /\ LedNext
    \/ Only("pipe") /\ PipeNext

\* Of the programs without threads only the loop at the end of homework 6 has
\* to go on.  The variables of the others do not move.
Fairness ==
    /\ WF_ringVars(part = "ring" /\ Draining)
    /\ WF_counterVars(part = "counter" /\ ComputerStep)
    /\ WF_counterVars(part = "counter" /\ ShowerStep)
    /\ WF_counterVars(part = "counter" /\ KeyStops)
    /\ WF_ledVars(part = "led" /\ ReceiverStep)
    /\ WF_ledVars(part = "led" /\ Averages)
    /\ WF_ledVars(part = "led" /\ Displays)
    /\ WF_ledVars(part = "led" /\ TypistSeesOpen)
    /\ WF_pipeVars(part = "pipe" /\ KeyStep)
    /\ WF_pipeVars(part = "pipe" /\ RxStep)
    /\ WF_pipeVars(part = "pipe" /\ ClientStep)

Spec == Init /\ [][Next]_allVars /\ Fairness
=============================================================================
