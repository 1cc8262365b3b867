---------------------------- MODULE MCRunDpComm -----------------------------
(***************************************************************************)
(* runDpComm on every graph of three nodes with work 1 or 4, memory 1..3  *)
(* and inner cuts of 0 or 2 units.  The .cfg files fix the devices (four,  *)
(* one or two per node), the pipeline and stage bounds, the switches and  *)
(* the launches.                                                           *)
(***************************************************************************)
EXTENDS RunDpComm

MCGraphs ==
    {g \in [work : [0..2 -> {1, 4}], mem : [0..2 -> 1..3],
            cut : [0..3 -> {0, 2}]] : g.cut[0] = 0 /\ g.cut[3] = 0}

\* one launch that neither loads nor saves
MCOneLaunch == << <<FALSE, FALSE>> >>

\* a launch that loads before any file exists, one that saves its
\* solutions, then one that loads them
MCSaveThenLoad == << <<TRUE, FALSE>>, <<FALSE, TRUE>>, <<TRUE, FALSE>> >>
=============================================================================
