----------------------------- MODULE DPStaging ------------------------------
(***************************************************************************)
(* DPStaging::doRunDpComm (src/src/graph/DPStaging.cpp): the 3-D dynamic   *)
(* program that, for a fixed stage count, devices per group, replica count *)
(* and pipeline count, fills table[stage][boundary][used_dev] and traces   *)
(* back the stage boundaries and per-stage device counts.                  *)
(*                                                                         *)
(* The loop nest  s / b / d (descending) / b_prev / d_prev  is kept step   *)
(* by step: one action per body of the innermost loop (each of its         *)
(* `continue`, `break` and update outcomes) and one per loop exit, because *)
(* the three early exits of the code depend on the order of the loops:     *)
(*   - a memory excess `break`s the d_prev loop (larger d_prev only leaves *)
(*     fewer devices to the stage);                                        *)
(*   - a d with no candidate and no filtered candidate sets min_d = d + 1  *)
(*     and `break`s the d loop; min_d stays for the later b of the stage;  *)
(*   - a b with no candidate at all `break`s the b loop.                   *)
(* The cost oracle is CostOracle; the graph is an input chosen in Init.   *)
(***************************************************************************)
EXTENDS Integers, Sequences, FiniteSets, CostOracle

CONSTANTS
    LayerNum,              \* graph.nodes.size()
    DevNumPerGroup,        \* dev_num_per_group
    StageNums,             \* the stage_num arguments to consider
    ReplicaNum,            \* replica_num
    PipelineNum,           \* pipeline_num
    BatchSize,             \* conf_.batch_size
    MinPipelineBs,         \* config MIN_PIPELINE_BS
    LimitDevNumPot,        \* config LIMIT_DEV_NUM_POT
    LimitDevNumMoreThanBs, \* config LIMIT_DEV_NUM_MORE_THAN_BS
    ProfileByAcc,          \* config PROFILE_BY_ACC
    DevMem,                \* conf_.dev_mem
    ErrorVal,              \* ProfilerUtil::ERROR_VAL, the infeasible sentinel
    LongMax,               \* LONG_MAX
    Graphs                 \* the input graphs (records of CostOracle)

ASSUME /\ LayerNum \in Nat \ {0} /\ DevNumPerGroup \in Nat \ {0}
       /\ StageNums \subseteq 1..LayerNum
       /\ {ReplicaNum, PipelineNum, BatchSize} \subseteq Nat \ {0}
       /\ ErrorVal \in Nat /\ LongMax >= DevMem

VARIABLES
    graph,     \* the MLGraph argument
    stageNum,  \* the stage_num argument
    table,     \* table[<<s, b, d>>]: the DPState cells
    s, b, d,   \* stage, right boundary, devices used for stages <= s
    bp, dp,    \* b_prev, d_prev: the candidate predecessor cell
    minD,      \* min_d
    foundB,    \* found_b_sol
    foundD,    \* found_d_sol
    skipBs,    \* skip_small_bs
    pc,        \* where in the loop nest the function is
    result     \* the returned AllocSolution: its stages, <<>> when empty

vars == <<graph, stageNum, table, s, b, d, bp, dp, minD, foundB, foundD,
          skipBs, pc, result>>

N == LayerNum
D == DevNumPerGroup

Cells == (0..D) \X (0..N) \X (0..D)

\* DPState(): every field ERROR_VAL, back-pointers 0
InfState == [eval |-> ErrorVal, fwd |-> ErrorVal, bwd |-> ErrorVal,
             pb |-> 0, pd |-> 0]
\* DPState(0, 0, 0, 0, 0, 0): the cells of stage 0
ZeroState == [eval |-> 0, fwd |-> 0, bwd |-> 0, pb |-> 0, pd |-> 0]

\* isPowerOfTwo: halve while even and > 1, then compare with 1
RECURSIVE IsPowerOfTwo(_)
IsPowerOfTwo(x) ==
    IF x % 2 = 0 /\ x > 1 THEN IsPowerOfTwo(x \div 2) ELSE x = 1

\* the ranges of the b loop and of the candidate loops
BStart(st) == IF st = stageNum THEN N ELSE st
BEnd(st) == N - stageNum + st
BPrevLimit == IF s = 1 THEN 1 ELSE b
DPrevLimit == IF s = 1 THEN 1 ELSE d

(***************************************************************************)
(* The candidate (s, b, d) <- (s-1, bp, dp): stage s gets nodes bp..b-1 on *)
(* delta = d - dp devices of each of the ReplicaNum replicas.              *)
(***************************************************************************)
Delta == d - dp
Devs == Delta * ReplicaNum

\* mutant: the power-of-two filter left out
FilteredNoPot(delta) ==
    \/ LimitDevNumMoreThanBs
         /\ CeilDiv(BatchSize, ReplicaNum * PipelineNum) < delta
    \/ CeilDiv(BatchSize, ReplicaNum * PipelineNum * delta) < MinPipelineBs

\* the three `continue` filters that set skip_small_bs
Filtered(delta) ==
    \/ LimitDevNumMoreThanBs
         /\ CeilDiv(BatchSize, ReplicaNum * PipelineNum) < delta
    \/ LimitDevNumPot /\ ~IsPowerOfTwo(delta)
    \/ CeilDiv(BatchSize, ReplicaNum * PipelineNum * delta) < MinPipelineBs

Prev == table[<<s - 1, bp, dp>>]

StepFwd == Fwd(graph, bp, b - 1, Devs, PipelineNum)
StepBwd == Bwd(graph, bp, b - 1, Devs, PipelineNum)
StepComm ==
    CommTime(InSize(graph, bp, b - 1) \div (Devs * PipelineNum))
    + CommTime(OutSize(graph, bp, b - 1) \div (Devs * PipelineNum))

\* estimateEval: max forward plus max backward, communication included
EstimateEval(fwd, bwd, comm, prevFwd, prevBwd) ==
    MaxOf(fwd + comm, prevFwd) + MaxOf(bwd + comm, prevBwd)

StepVal == EstimateEval(StepFwd, StepBwd, StepComm, Prev.fwd, Prev.bwd)

\* mutant: the memory of the range without its last node
StepMemLastNodeMissing ==
    IF ProfileByAcc THEN Mem(graph, bp, b - 2, Devs) ELSE LongMax

\* step_mem stays LONG_MAX unless the profile is accumulated
StepMem == IF ProfileByAcc THEN Mem(graph, bp, b - 1, Devs) ELSE LongMax

\* the cell written by an update
Updated == [eval |-> MaxOf(StepVal, Prev.eval),
            fwd  |-> MaxOf(StepFwd, Prev.fwd),
            bwd  |-> MaxOf(StepBwd, Prev.bwd),
            pb   |-> bp, pd |-> dp]

(***************************************************************************)
(* Loop control.                                                           *)
(***************************************************************************)
\* the end of the d_prev loop: next b_prev, or the end of both loops
NextBPrev ==
    IF bp + 1 < BPrevLimit
    THEN /\ bp' = bp + 1 /\ dp' = s - 1 /\ UNCHANGED pc
    ELSE /\ pc' = "dEnd" /\ UNCHANGED <<bp, dp>>

NextCandidate ==
    IF dp + 1 < DPrevLimit
    THEN /\ dp' = dp + 1 /\ UNCHANGED <<bp, pc>>
    ELSE NextBPrev

\* enter the body of the d loop for devices nd
EnterD(nd) ==
    /\ d' = nd /\ bp' = s - 1 /\ dp' = s - 1
    /\ foundD' = FALSE /\ skipBs' = FALSE /\ pc' = "cand"

\* enter the body of the b loop for stage ns, boundary nb and min_d nmin
EnterB(ns, nb, nmin) ==
    /\ s' = ns /\ b' = nb /\ minD' = nmin /\ foundB' = FALSE
    /\ IF D >= MaxOf(nmin, ns)
       THEN /\ d' = D /\ bp' = ns - 1 /\ dp' = ns - 1
            /\ foundD' = FALSE /\ skipBs' = FALSE /\ pc' = "cand"
       ELSE /\ pc' = "bEnd" /\ UNCHANGED <<d, bp, dp, foundD, skipBs>>

Init ==
    /\ graph \in Graphs
    /\ stageNum \in {st \in StageNums : st <= D}
    /\ table = [c \in Cells |-> IF c[1] = 0 THEN ZeroState ELSE InfState]
    /\ s = 1 /\ b = BStart(1) /\ minD = 1 /\ foundB = FALSE
    /\ d = D /\ bp = 0 /\ dp = 0 /\ foundD = FALSE /\ skipBs = FALSE
    /\ pc = "cand"
    /\ result = <<>>

(***************************************************************************)
(* The body of the d_prev loop.                                            *)
(***************************************************************************)
SkipSmallBs ==
    /\ pc = "cand"
    /\ Filtered(Delta)
    /\ skipBs' = TRUE
    /\ NextCandidate
    /\ UNCHANGED <<graph, stageNum, table, s, b, d, minD, foundB, foundD,
                   result>>

SkipInfeasiblePrev ==
    /\ pc = "cand"
    /\ ~Filtered(Delta)
    /\ Prev.eval >= ErrorVal
    /\ NextCandidate
    /\ UNCHANGED <<graph, stageNum, table, s, b, d, minD, foundB, foundD,
                   skipBs, result>>

MemExceeded ==
    /\ pc = "cand"
    /\ ~Filtered(Delta)
    /\ Prev.eval < ErrorVal
    /\ StepMem >= DevMem
    /\ NextBPrev
    /\ UNCHANGED <<graph, stageNum, table, s, b, d, minD, foundB, foundD,
                   skipBs, result>>

\* mutant: ties replace the best found so far
EvaluateLastTieWins ==
    /\ pc = "cand"
    /\ ~Filtered(Delta)
    /\ Prev.eval < ErrorVal
    /\ StepMem < DevMem
    /\ foundB' = TRUE /\ foundD' = TRUE
    /\ table' = IF table[<<s, b, d>>].eval >= StepVal
                THEN [table EXCEPT ![<<s, b, d>>] = Updated]
                ELSE table
    /\ NextCandidate
    /\ UNCHANGED <<graph, stageNum, s, b, d, minD, skipBs, result>>

\* a feasible candidate: update the cell when step_val is below its eval
Evaluate ==
    /\ pc = "cand"
    /\ ~Filtered(Delta)
    /\ Prev.eval < ErrorVal
    /\ StepMem < DevMem
    /\ foundB' = TRUE /\ foundD' = TRUE
    /\ table' = IF table[<<s, b, d>>].eval > StepVal
                THEN [table EXCEPT ![<<s, b, d>>] = Updated]
                ELSE table
    /\ NextCandidate
    /\ UNCHANGED <<graph, stageNum, s, b, d, minD, skipBs, result>>

(***************************************************************************)
(* The end of the body of the d loop.                                      *)
(***************************************************************************)
\* mutant: min_d raised even when a candidate was filtered out
NoSolutionForDIgnoringSkips ==
    /\ pc = "dEnd"
    /\ ~foundD
    /\ minD' = d + 1
    /\ pc' = "bEnd"
    /\ UNCHANGED <<graph, stageNum, table, s, b, d, bp, dp, foundB, foundD,
                   skipBs, result>>

NoSolutionForD ==
    /\ pc = "dEnd"
    /\ ~foundD /\ ~skipBs
    /\ minD' = d + 1
    /\ pc' = "bEnd"
    /\ UNCHANGED <<graph, stageNum, table, s, b, d, bp, dp, foundB, foundD,
                   skipBs, result>>

\* mutant: the d loop does not decrement d
NextDNoDecrement ==
    /\ pc = "dEnd"
    /\ foundD \/ skipBs
    /\ d - 1 >= MaxOf(minD, s)
    /\ EnterD(d)
    /\ UNCHANGED <<graph, stageNum, table, s, b, minD, foundB, result>>

NextD ==
    /\ pc = "dEnd"
    /\ foundD \/ skipBs
    /\ d - 1 >= MaxOf(minD, s)
    /\ EnterD(d - 1)
    /\ UNCHANGED <<graph, stageNum, table, s, b, minD, foundB, result>>

LastD ==
    /\ pc = "dEnd"
    /\ foundD \/ skipBs
    /\ d - 1 < MaxOf(minD, s)
    /\ pc' = "bEnd"
    /\ UNCHANGED <<graph, stageNum, table, s, b, d, bp, dp, minD, foundB,
                   foundD, skipBs, result>>

(***************************************************************************)
(* The end of the body of the b loop and of the s loop.                    *)
(***************************************************************************)
NextB ==
    /\ pc = "bEnd"
    /\ foundB
    /\ b + 1 <= BEnd(s)
    /\ EnterB(s, b + 1, minD)
    /\ UNCHANGED <<graph, stageNum, table, result>>

EndOfStage ==
    /\ pc = "bEnd"
    /\ ~foundB \/ b + 1 > BEnd(s)
    /\ pc' = "sEnd"
    /\ UNCHANGED <<graph, stageNum, table, s, b, d, bp, dp, minD, foundB,
                   foundD, skipBs, result>>

NextStage ==
    /\ pc = "sEnd"
    /\ s < stageNum
    /\ EnterB(s + 1, BStart(s + 1), 1)
    /\ UNCHANGED <<graph, stageNum, table, result>>

(***************************************************************************)
(* The result: best_d is searched over d = dev_num_per_group only, then    *)
(* the back-pointers are followed from (stage_num, layer_num, best_d).     *)
(* A stage is [from, to, devs]: nodes from..to on devs devices per         *)
(* replica (repl_nums = devs * replica_num).                               *)
(***************************************************************************)
\* mutant: a stage taken to end at b_sol instead of b_sol - 1
RECURSIVE BackTraceToBoundary(_, _, _, _)
BackTraceToBoundary(t, st, bsol, dsol) ==
    IF st = 0 THEN [ok |-> TRUE, stages |-> <<>>]
    ELSE LET c == t[<<st, bsol, dsol>>]
             rest == BackTraceToBoundary(t, st - 1, c.pb, c.pd)
         IN [ok |-> c.eval < ErrorVal /\ rest.ok,
             stages |-> Append(rest.stages, [from |-> c.pb, to |-> bsol,
                                             devs |-> dsol - c.pd])]

\* [ok |-> FALSE] when the trace-back meets an unreached cell
RECURSIVE BackTrace(_, _, _, _)
BackTrace(t, st, bsol, dsol) ==
    IF st = 0 THEN [ok |-> TRUE, stages |-> <<>>]
    ELSE LET c == t[<<st, bsol, dsol>>]
             rest == BackTrace(t, st - 1, c.pb, c.pd)
         IN [ok |-> c.eval < ErrorVal /\ rest.ok,
             stages |-> Append(rest.stages, [from |-> c.pb, to |-> bsol - 1,
                                             devs |-> dsol - c.pd])]

BestD(t) == IF t[<<stageNum, N, D>>].eval < ErrorVal THEN D ELSE 0

Solution(t) ==
    LET tr == BackTrace(t, stageNum, N, BestD(t))
    IN IF tr.ok THEN tr.stages ELSE <<>>

GetSolution ==
    /\ pc = "sEnd"
    /\ s = stageNum
    /\ result' = Solution(table)
    /\ pc' = "done"
    /\ UNCHANGED <<graph, stageNum, table, s, b, d, bp, dp, minD, foundB,
                   foundD, skipBs>>

Next ==
    \/ SkipSmallBs \/ SkipInfeasiblePrev \/ MemExceeded \/ Evaluate
    \/ NoSolutionForD \/ NextD \/ LastD
    \/ NextB \/ EndOfStage \/ NextStage
    \/ GetSolution

\* the function runs to its end: each step of the loop nest is taken
Spec == Init /\ [][Next]_vars /\ WF_vars(Next)

-----------------------------------------------------------------------------
(***************************************************************************)
(* A candidate replaces the best of a cell only when the value it gives    *)
(* the cell is strictly smaller (spec 4.2 step 6): no step of doRunDpComm  *)
(* raises the eval of a table cell once the cell has been reached.         *)
(***************************************************************************)
CellEvalNeverRises ==
    [][\A c \in Cells : table'[c].eval <= table[c].eval]_table

Stage == [from : 0..N - 1, to : 0..N - 1, devs : 1..D]

TypeOK ==
    /\ graph \in Graphs
    /\ stageNum \in StageNums
    /\ table \in [Cells -> [eval : Nat, fwd : Nat, bwd : Nat,
                            pb : 0..N, pd : 0..D]]
    /\ s \in 1..stageNum /\ b \in 0..N /\ d \in 0..D
    /\ bp \in 0..N /\ dp \in 0..D /\ minD \in 1..D + 1
    /\ {foundB, foundD, skipBs} \subseteq BOOLEAN
    /\ pc \in {"cand", "dEnd", "bEnd", "sEnd", "done"}
    /\ result \in Seq(Stage)

\* the exhaustive DP of the spec, seen through doRunDpComm's state
Abs == INSTANCE DPSolve
    WITH answer <- [returned |-> pc = "done", stages |-> result]

(***************************************************************************)
(* The returned AllocSolution can be deployed: its stages cover the nodes  *)
(* 0..layer_num-1 in order, each at least one node, their device counts    *)
(* add up to dev_num_per_group, and every stage passes the device filters  *)
(* and fits in conf_.dev_mem by the cost oracle's memory estimate.  This   *)
(* is about the back-pointers (pre_boundary, pre_dev_num) written by the   *)
(* updates of doRunDpComm and followed by its trace-back.                  *)
(***************************************************************************)
SolutionDeployable ==
    pc = "done" /\ result # <<>> =>
        /\ Len(result) = stageNum
        /\ result[1].from = 0 /\ result[Len(result)].to = N - 1
        /\ \A i \in 1..Len(result) - 1 : result[i + 1].from = result[i].to + 1
        /\ \A i \in 1..Len(result) :
              LET st == result[i]
              IN /\ st.from <= st.to /\ st.devs >= 1
                 /\ Abs!DevCountAllowed(st.devs)
                 /\ Mem(graph, st.from, st.to, st.devs * ReplicaNum) < DevMem
        /\ LET Used[i \in 0..Len(result)] ==
                  IF i = 0 THEN 0 ELSE Used[i - 1] + result[i].devs
           IN Used[Len(result)] = D

(***************************************************************************)
(* doRunDpComm returns: every loop of the nest ends and the trace-back is  *)
(* reached, whatever early exits the graph triggers.                       *)
(***************************************************************************)
Termination == <>(pc = "done")

(***************************************************************************)
(* The early exits (the memory `break` of the d_prev loop, the min_d       *)
(* raise and `break` of the d loop, the `break` of the b loop) lose        *)
(* nothing: doRunDpComm returns the stages the exhaustive DP of DPSolve    *)
(* returns for the same graph and stage count.                             *)
(***************************************************************************)
RefinesDPSolve == Abs!Spec
=============================================================================
