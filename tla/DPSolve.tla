------------------------------ MODULE DPSolve -------------------------------
(***************************************************************************)
(* What the allocation DP promises (spec section 4.2): the returned stages *)
(* are those of the exhaustive dynamic program that, for every cell        *)
(* (s, b, d), considers EVERY predecessor (s-1, b_prev, d_prev) in the     *)
(* order b_prev, then d_prev ascending, skips the filtered, unreached and  *)
(* memory-exceeding ones, and keeps the first candidate whose step value   *)
(* is below the cell's current value.  No candidate is pruned by the       *)
(* order of evaluation.  The whole solve is one step.                      *)
(***************************************************************************)
EXTENDS Integers, SequencesExt, CostOracle

CONSTANTS LayerNum, DevNumPerGroup, StageNums, ReplicaNum, PipelineNum,
          BatchSize, MinPipelineBs, LimitDevNumPot, LimitDevNumMoreThanBs,
          DevMem, ErrorVal, Graphs

VARIABLES graph, stageNum,
          answer   \* [returned, stages]: whether the solve has returned,
                   \* and the stages it returned

N == LayerNum
D == DevNumPerGroup
R == ReplicaNum
P == PipelineNum

Inf == [eval |-> ErrorVal, fwd |-> ErrorVal, bwd |-> ErrorVal,
        pb |-> 0, pd |-> 0]
Zero == [eval |-> 0, fwd |-> 0, bwd |-> 0, pb |-> 0, pd |-> 0]

PowersOfTwo == {2^i : i \in 0..D}

\* a stage of delta devices per replica passes the device filters
DevCountAllowed(delta) ==
    /\ LimitDevNumMoreThanBs => delta <= CeilDiv(BatchSize, R * P)
    /\ LimitDevNumPot => delta \in PowersOfTwo
    /\ CeilDiv(BatchSize, R * P * delta) >= MinPipelineBs

\* the cell value stage st reaches through predecessor c = (pb, pd) on
\* nodes from..to with delta devices per replica
Through(g, c, pb, pd, from, to, delta) ==
    LET k == delta * R
        f == Fwd(g, from, to, k, P)
        w == Bwd(g, from, to, k, P)
        comm == CommTime(InSize(g, from, to) \div (k * P))
                + CommTime(OutSize(g, from, to) \div (k * P))
        v == MaxOf(f + comm, c.fwd) + MaxOf(w + comm, c.bwd)
    IN [val |-> v,
        cell |-> [eval |-> MaxOf(v, c.eval), fwd |-> MaxOf(f, c.fwd),
                  bwd |-> MaxOf(w, c.bwd), pb |-> pb, pd |-> pd]]

\* the best cell (st, bb, dd) from the row prev of stage st - 1
BestCell(g, S, prev, st, bb, dd) ==
    LET bLim == IF st = 1 THEN 1 ELSE bb
        dLim == IF st = 1 THEN 1 ELSE dd
        nd == dLim - (st - 1)
        nb == bLim - (st - 1)
        cands == [i \in 1..(nb * nd) |->
                    <<(st - 1) + (i - 1) \div nd, (st - 1) + ((i - 1) % nd)>>]
        Consider(cur, cand) ==
            LET pb == cand[1]  pd == cand[2]  c == prev[<<pb, pd>>]
                t == Through(g, c, pb, pd, pb, bb - 1, dd - pd)
            IN IF /\ DevCountAllowed(dd - pd)
                  /\ c.eval < ErrorVal
                  /\ Mem(g, pb, bb - 1, (dd - pd) * R) < DevMem
                  /\ cur.eval > t.val
               THEN t.cell
               ELSE cur
    IN IF nb > 0 /\ nd > 0 THEN FoldLeft(Consider, Inf, cands) ELSE Inf

\* the cells <<b, d>> of stage st, each row built once from the previous
RECURSIVE Row(_, _, _)
Row(g, S, st) ==
    IF st = 0 THEN [c \in (0..N) \X (0..D) |-> Zero]
    ELSE LET prev == Row(g, S, st - 1)
         IN [c \in (0..N) \X (0..D) |->
               IF /\ c[1] \in (IF st = S THEN N ELSE st)..(N - S + st)
                  /\ c[2] \in st..D
               THEN BestCell(g, S, prev, st, c[1], c[2])
               ELSE Inf]

\* follow the back-pointers from cell (st, bb, dd) down to stage 0
RECURSIVE Trace(_, _, _, _, _)
Trace(g, S, st, bb, dd) ==
    IF st = 0 THEN <<>>
    ELSE LET c == Row(g, S, st)[<<bb, dd>>]
         IN Append(Trace(g, S, st - 1, c.pb, c.pd),
                   [from |-> c.pb, to |-> bb - 1, devs |-> dd - c.pd])

\* the solution on all D devices of the group, <<>> when there is none
Solve(g, S) ==
    IF Row(g, S, S)[<<N, D>>].eval < ErrorVal THEN Trace(g, S, S, N, D)
    ELSE <<>>

Init ==
    /\ graph \in Graphs
    /\ stageNum \in {st \in StageNums : st <= D}
    /\ answer = [returned |-> FALSE, stages |-> <<>>]

\* the solve returns its answer, <<>> when there is none
Solved ==
    /\ ~answer.returned
    /\ answer'.returned
    /\ answer' = [returned |-> TRUE, stages |-> Solve(graph, stageNum)]
    /\ UNCHANGED <<graph, stageNum>>

Spec == Init /\ [][Solved]_<<graph, stageNum, answer>>
=============================================================================
