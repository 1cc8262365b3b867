---------------------------- MODULE MCDPStaging -----------------------------
(***************************************************************************)
(* doRunDpComm on every graph of three nodes whose nodes have work 1..3    *)
(* and memory 1..2 and whose inner cuts carry 0 or 2 units, for stage      *)
(* counts 1..3 on a group of three devices.  The memory budget lets a      *)
(* node of memory 2 run alone on one device but not next to another node, *)
(* so the memory `break`, the min_d raise and the b `break` all happen.   *)
(***************************************************************************)
EXTENDS DPStaging

MCGraphs ==
    {g \in [work : [0..2 -> 1..3], mem : [0..2 -> 1..2],
            cut : [0..3 -> {0, 2}]] : g.cut[0] = 0 /\ g.cut[3] = 0}

(***************************************************************************)
(* Four nodes of work 1..2, memory 1..2 and inner cuts of 0 or 2 units:   *)
(* the stage counts 2..4 give later stages several boundaries b, so min_d  *)
(* is carried from one b to the next, and several predecessors per cell;  *)
(* the cuts make the communication term of step_val differ between them. *)
(***************************************************************************)
MCGraphs4 ==
    {g \in [work : [0..3 -> 1..2], mem : [0..3 -> 1..2],
            cut : [0..4 -> {0, 2}]] : g.cut[0] = 0 /\ g.cut[4] = 0}
=============================================================================
