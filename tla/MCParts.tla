------------------------------ MODULE MCParts ------------------------------
(***************************************************************************)
(* Three parts of the semester project, each on its own: part says which   *)
(* one a behaviour is about.  The board has two chunks of different shapes *)
(* and one set of parameters.                                              *)
(***************************************************************************)
EXTENDS Computation, HostImage, Nucleo

VARIABLE part

MCChunks == {[cid |-> 0, n_re |-> 2, n_im |-> 2], [cid |-> 1, n_re |-> 3, n_im |-> 1]}

partVars == <<part, compVars, imageVars, nucleoVars>>

PartsInit ==
    /\ part \in {"computation", "image", "board"}
    /\ Init /\ ImageInit /\ NucleoInit /\ (part = "board" \/ chunk.cid = 0)

Only(p) ==
    /\ part = p /\ UNCHANGED part
    /\ p # "computation" => UNCHANGED compVars
    /\ p # "image" => UNCHANGED imageVars
    /\ p # "board" => UNCHANGED nucleoVars

\* The program may have ended: only the board goes on for ever.
Ended == im.ended /\ UNCHANGED imageVars

PartsNext ==
    \/ Only("computation") /\ Next
    \/ Only("image") /\ (ImageNext \/ Ended)
    \/ Only("board") /\ NucleoNext

PartsSpec == PartsInit /\ [][PartsNext]_partVars
=============================================================================
