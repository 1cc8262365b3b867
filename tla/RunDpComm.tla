------------------------------ MODULE RunDpComm -----------------------------
(***************************************************************************)
(* DPStaging::runDpComm (src/src/graph/DPStaging.cpp): the multi-          *)
(* resolution search around the allocation DP.  For each node count that   *)
(* divides the total (the devices of node_num_used nodes form a group,     *)
(* the rest are replicas), for each new stage count, for each pipeline     *)
(* count doubling up to min(batch_size, max_pipeline_num), it calls        *)
(* doRunDpComm and keeps every non-empty solution; unless dp_search_all,   *)
(* it stops the stage loop and the node loop once a solution is found.     *)
(* It then returns the kept solution of least estimateTime, or throws.     *)
(*                                                                         *)
(* doRunDpComm is the exhaustive DP of DPSolve (which DPStaging refines),  *)
(* instantiated for each call's device count, replica count and pipeline  *)
(* count.  With LOAD_ALLOC_SOLUTIONS a call is replaced by reading the    *)
(* solution file of its (stage count, pipeline count), and with           *)
(* SAVE_ALLOC_SOLUTIONS every computed solution is written to that file;  *)
(* the files outlive the process, so a behaviour may hold several         *)
(* launches of the program on the same graph.  The profile dumps are      *)
(* left out.                                                               *)
(***************************************************************************)
EXTENDS Integers, Sequences, SequencesExt, FiniteSetsExt, TLC, CostOracle

CONSTANTS
    DevNum,                \* conf_.dev_num
    CudaDeviceCount,       \* getCudaDeviceCount()
    NodeCount,             \* graph.nodes.size()
    BatchSize,             \* conf_.batch_size
    MinPipelineNum,        \* conf_.min_pipeline_num
    MaxPipelineNum,        \* conf_.max_pipeline_num
    CfgStageNum,           \* conf_.cfg_stage_num (0: not forced)
    CfgPipelineNum,        \* conf_.cfg_pipeline_num (0: not forced)
    DpSearchAll,           \* config DP_SEARCH_ALL
    Dry,                   \* the search runs as DPDryStaging (run_dp_dry)
    IntBits,               \* the width of int (pipeline_num and the bound)
    Launches,              \* per launch of the program, in order:
                           \* <<LOAD_ALLOC_SOLUTIONS, SAVE_ALLOC_SOLUTIONS>>
    MinPipelineBs, LimitDevNumPot, LimitDevNumMoreThanBs, DevMem, ErrorVal,
    Graphs                 \* the input graphs (records of CostOracle)

ASSUME /\ IntBits \in Nat \ {0, 1}
       /\ {DevNum, CudaDeviceCount, NodeCount, BatchSize} \subseteq Nat \ {0}
       /\ {CfgStageNum, CfgPipelineNum} \subseteq Nat
       /\ Launches \in Seq(BOOLEAN \X BOOLEAN) /\ Launches # <<>>

VARIABLES
    graph,            \* the MLGraph argument
    nodeNumUsed,      \* node_num_used
    stageNum,         \* stage_num
    stageNumMax,      \* stage_num_max
    prevStageNumMax,  \* prev_stage_num_max
    pipelineNum,      \* pipeline_num
    solFound,         \* sol_found
    plSols,           \* pl_sols: the kept solutions, in the order found
    pc,               \* "node", "stage", "pipe", "nodeEnd", "select",
                      \* "done", "failed" (the runtime_error)
    best,             \* best_sol
    files,            \* the solution files on disk: file name -> solution
    launch,           \* the launch of the program running
    results           \* history: how each earlier launch ended

launchVars == <<files, launch, results>>
vars == <<graph, nodeNumUsed, stageNum, stageNumMax, prevStageNumMax,
          pipelineNum, solFound, plSols, pc, best, launchVars>>

\* config LOAD_ALLOC_SOLUTIONS and SAVE_ALLOC_SOLUTIONS of this launch
LoadAllocSols == Launches[launch][1]
SaveAllocSols == Launches[launch][2]

\* mutant: the file named by the stage count alone
MakeAllocSolutionFileNameNoPipeline(st, pl) == <<st, 0>>

\* makeAllocSolutionFileName: <prefix>_s<stage_num>_p<pipeline_num>.bin
MakeAllocSolutionFileName(st, pl) == <<st, pl>>

DevPerNode == IF DevNum <= CudaDeviceCount THEN DevNum ELSE CudaDeviceCount
NodeNumTotal == DevNum \div DevPerNode

\* the forced pipeline count overrides both bounds
MinPl == IF CfgPipelineNum # 0 THEN CfgPipelineNum ELSE MinPipelineNum
MaxPl == IF CfgPipelineNum # 0 THEN CfgPipelineNum ELSE MaxPipelineNum

\* an int of IntBits bits: the two's-complement wrap of signed overflow
IntWrap(x) == ((x + 2^(IntBits - 1)) % 2^IntBits) - 2^(IntBits - 1)

\* `int pipeline_num = std::max(1, conf_.min_pipeline_num)`
PipelineStart == IF MinPl >= 1 THEN MinPl ELSE 1

\* `std::min((int)conf_.batch_size, conf_.max_pipeline_num)`
PipelineBound == IF IntWrap(BatchSize) <= MaxPl THEN IntWrap(BatchSize) ELSE MaxPl

ReplNum(used) == NodeNumTotal \div used
DevPerGroup(used) == DevPerNode * used

\* the node counts that divide the total, and the pipeline counts tried
Divisors == {u \in 1..NodeNumTotal : NodeNumTotal % u = 0}
Pipelines == {PipelineStart * 2^i : i \in 0..PipelineBound} \cap 1..PipelineBound

\* doRunDpComm(graph, stage_num, dev_per_group, replica_num, pipeline_num):
\* only its operator Solve is used, which reads no variable, so DPSolve's
\* variables are given constant values and the answers are computed once
DP(dpg, repl, pl) == INSTANCE DPSolve WITH
    LayerNum <- NodeCount, DevNumPerGroup <- dpg, StageNums <- 1..NodeCount,
    ReplicaNum <- repl, PipelineNum <- pl,
    graph <- CHOOSE g \in Graphs : TRUE, stageNum <- 1,
    answer <- [returned |-> FALSE, stages |-> <<>>]

\* the DP's answer for every input graph and every call the sweep can make
DPAnswer ==
    [c \in Graphs \X Divisors \X (1..NodeCount) \X Pipelines |->
        DP(DevPerGroup(c[2]), ReplNum(c[2]), c[4])!Solve(c[1], c[3])]

\* an AllocSolution: its stages [from, to, devs], its pipeline and
\* replica counts
NoSol == [stages |-> <<>>, pipeline |-> 0, replica |-> 0]

DoRunDpComm(g, st, used, pl) ==
    [stages |-> DPAnswer[<<g, used, st, pl>>],
     pipeline |-> pl, replica |-> ReplNum(used)]

MaxOr0(S) == IF S = {} THEN 0 ELSE Max(S)

\* DPStaging::estimateSolutionGraph: the profile of the stage's composite
\* sol.graphs[i] on its repl_nums (devices times replica_num)
EstimateSolutionGraph(g, sol, i) ==
    LET St == sol.stages[i + 1]
        k == St.devs * sol.replica
    IN [fwd |-> Fwd(g, St.from, St.to, k, sol.pipeline),
        bwd |-> Bwd(g, St.from, St.to, k, sol.pipeline)]

\* DPDryStaging::estimateSolutionGraph: the profile of graph.nodes[i], the
\* i-th node of the MLGraph, on dev_nums[i+1] - dev_nums[i] devices
DryEstimateSolutionGraph(g, sol, i) ==
    LET k == sol.stages[i + 1].devs
    IN [fwd |-> Fwd(g, i, i, k, sol.pipeline),
        bwd |-> Bwd(g, i, i, k, sol.pipeline)]

\* mutant: g_to_excl = min(step, size), the stage entering at step left out
InFlightNoNewest(step, P, S) ==
    (IF step - P + 1 >= 0 THEN step - P + 1 ELSE 0)
      ..((IF step <= S THEN step ELSE S) - 1)

\* the stages in flight at a step: g_from = max(0, step - pipeline_num + 1)
\* up to g_to_excl = min(step + 1, sol.graphs.size()), exclusive
InFlight(step, P, S) ==
    (IF step - P + 1 >= 0 THEN step - P + 1 ELSE 0)
      ..((IF step + 1 <= S THEN step + 1 ELSE S) - 1)

(***************************************************************************)
(* estimateTime: over the steps of the pipeline schedule, the slowest      *)
(* forward plus the slowest backward of the stages in flight (the profile  *)
(* of the virtual estimateSolutionGraph, which dry selects, and the stage's*)
(* input/output communication on repl * pipeline_num shares), plus the     *)
(* slowest stage's gradient all-reduce.                                    *)
(***************************************************************************)
EstimateTimeWith(g, sol, dry) ==
    LET S == Len(sol.stages)
        P == sol.pipeline
        St(i) == sol.stages[i + 1]
        Repl(i) == St(i).devs * sol.replica
        Prof(i) == IF dry THEN DryEstimateSolutionGraph(g, sol, i)
                   ELSE EstimateSolutionGraph(g, sol, i)
        Comm(i) == CommTime(InSize(g, St(i).from, St(i).to) \div (Repl(i) * P))
                   + CommTime(OutSize(g, St(i).from, St(i).to) \div (Repl(i) * P))
        FwdT(i) == Prof(i).fwd + Comm(i)
        BwdT(i) == Prof(i).bwd + Comm(i)
        StepTime(step) == MaxOr0({FwdT(i) : i \in InFlight(step, P, S)})
                          + MaxOr0({BwdT(i) : i \in InFlight(step, P, S)})
    IN MapThenSumSet(StepTime, 0..(P + S - 2))
       + MaxOr0({AllReduceTime(g, St(i).from, St(i).to) : i \in 0..(S - 1)})

\* estimateTime as the search's own class computes it
EstimateTime(g, sol) == EstimateTimeWith(g, sol, Dry)

\* mutant: `est_time <= best_time`, the last of the fastest kept
FastestNonStrict(g, sols) ==
    LET Better(acc, sol) ==
            acc = NoSol \/ EstimateTime(g, sol) <= EstimateTime(g, acc)
    IN FoldLeft(LAMBDA acc, sol : IF Better(acc, sol) THEN sol ELSE acc,
                NoSol, sols)

\* the selection loop over pl_sols: best_time starts at LONG_MAX, above
\* every estimate here, and a solution becomes best_sol only when
\* est_time < best_time
Fastest(g, sols) ==
    LET Better(acc, sol) ==
            acc = NoSol \/ EstimateTime(g, sol) < EstimateTime(g, acc)
    IN FoldLeft(LAMBDA acc, sol : IF Better(acc, sol) THEN sol ELSE acc,
                NoSol, sols)

Init ==
    /\ graph \in Graphs
    /\ nodeNumUsed = 1
    /\ stageNum = 0 /\ stageNumMax = 0 /\ prevStageNumMax = 0
    /\ pipelineNum = 0
    /\ solFound = FALSE
    /\ plSols = <<>>
    /\ pc = "node"
    /\ best = NoSol
    /\ files = [f \in {} |-> NoSol]
    /\ launch = 1
    /\ results = <<>>

\* `if (node_total % node_num_used != 0) continue;`
SkipNodeNum ==
    /\ pc = "node"
    /\ nodeNumUsed <= NodeNumTotal
    /\ NodeNumTotal % nodeNumUsed # 0
    /\ nodeNumUsed' = nodeNumUsed + 1
    /\ UNCHANGED <<graph, stageNum, stageNumMax, prevStageNumMax, pipelineNum,
                   solFound, plSols, pc, best, launchVars>>

\* the stage range of this node count (new stage counts only, clipped to
\* the graph), or the forced one
EnterNodeNum ==
    /\ pc = "node"
    /\ nodeNumUsed <= NodeNumTotal
    /\ NodeNumTotal % nodeNumUsed = 0
    /\ LET lo == IF CfgStageNum # 0 THEN CfgStageNum ELSE prevStageNumMax + 1
           hi == IF CfgStageNum # 0 THEN CfgStageNum
                 ELSE DevPerGroup(nodeNumUsed)
       IN /\ prevStageNumMax' = IF CfgStageNum # 0 THEN prevStageNumMax ELSE hi
          /\ stageNum' = IF lo <= NodeCount THEN lo ELSE NodeCount
          /\ stageNumMax' = IF hi <= NodeCount THEN hi ELSE NodeCount
    /\ pc' = "stage"
    /\ UNCHANGED <<graph, nodeNumUsed, pipelineNum, solFound, plSols, best,
                   launchVars>>

NodeLoopEnd ==
    /\ pc = "node"
    /\ nodeNumUsed > NodeNumTotal
    /\ pc' = "select"
    /\ UNCHANGED <<graph, nodeNumUsed, stageNum, stageNumMax, prevStageNumMax,
                   pipelineNum, solFound, plSols, best, launchVars>>

EnterStage ==
    /\ pc = "stage"
    /\ stageNum <= stageNumMax
    /\ pipelineNum' = PipelineStart
    /\ pc' = "pipe"
    /\ UNCHANGED <<graph, nodeNumUsed, stageNum, stageNumMax, prevStageNumMax,
                   solFound, plSols, best, launchVars>>

StageLoopEnd ==
    /\ pc = "stage"
    /\ stageNum > stageNumMax
    /\ pc' = "nodeEnd"
    /\ UNCHANGED <<graph, nodeNumUsed, stageNum, stageNumMax, prevStageNumMax,
                   pipelineNum, solFound, plSols, best, launchVars>>

\* the file of this iteration's stage and pipeline counts
File == MakeAllocSolutionFileName(stageNum, pipelineNum)

\* the solution of this iteration: loadAllocSolution, or doRunDpComm
\* followed by saveAllocSolution when saving
IterSol == IF LoadAllocSols THEN files[File]
           ELSE DoRunDpComm(graph, stageNum, nodeNumUsed, pipelineNum)

SavedFiles == IF ~LoadAllocSols /\ SaveAllocSols
              THEN (File :> IterSol) @@ files ELSE files

\* mutant: every answer kept, also an empty one
RunDpKeepsEmpty ==
    /\ pc = "pipe"
    /\ pipelineNum <= PipelineBound
    /\ ~LoadAllocSols \/ File \in DOMAIN files
    /\ solFound' = TRUE
    /\ plSols' = Append(plSols, IterSol)
    /\ files' = SavedFiles
    /\ pipelineNum' = IntWrap(pipelineNum * 2)
    /\ UNCHANGED <<graph, nodeNumUsed, stageNum, stageNumMax, prevStageNumMax,
                   pc, best, launch, results>>

\* one iteration of the pipeline loop: the solution loaded or computed
\* (and saved); a non-empty one is kept
RunDp ==
    /\ pc = "pipe"
    /\ pipelineNum <= PipelineBound
    /\ ~LoadAllocSols \/ File \in DOMAIN files
    /\ IF IterSol.stages # <<>>
       THEN /\ solFound' = TRUE
            /\ plSols' = Append(plSols, IterSol)
       ELSE UNCHANGED <<solFound, plSols>>
    /\ files' = SavedFiles
    /\ pipelineNum' = IntWrap(pipelineNum * 2)
    /\ UNCHANGED <<graph, nodeNumUsed, stageNum, stageNumMax, prevStageNumMax,
                   pc, best, launch, results>>

\* loadAllocSolution of a file no launch wrote: loadFromFile throws
LoadMissing ==
    /\ pc = "pipe"
    /\ pipelineNum <= PipelineBound
    /\ LoadAllocSols /\ File \notin DOMAIN files
    /\ pc' = "loadFailed"
    /\ UNCHANGED <<graph, nodeNumUsed, stageNum, stageNumMax, prevStageNumMax,
                   pipelineNum, solFound, plSols, best, launchVars>>

\* mutant: the stage loop's `stage_num++` lost
PipelinesDoneNoIncrement ==
    /\ pc = "pipe"
    /\ pipelineNum > PipelineBound
    /\ IF ~DpSearchAll /\ solFound /\ stageNum >= 1
       THEN /\ pc' = "nodeEnd" /\ UNCHANGED stageNum
       ELSE /\ pc' = "stage" /\ UNCHANGED stageNum
    /\ UNCHANGED <<graph, nodeNumUsed, stageNumMax, prevStageNumMax,
                   pipelineNum, solFound, plSols, best, launchVars>>

\* after the pipeline loop: `break` once a solution was found
\* (stage_num >= MIN_SEARCH_STAGE_NUM = 1 always holds), else next stage
PipelinesDone ==
    /\ pc = "pipe"
    /\ pipelineNum > PipelineBound
    /\ IF ~DpSearchAll /\ solFound /\ stageNum >= 1
       THEN /\ pc' = "nodeEnd" /\ UNCHANGED stageNum
       ELSE /\ stageNum' = stageNum + 1 /\ pc' = "stage"
    /\ UNCHANGED <<graph, nodeNumUsed, stageNumMax, prevStageNumMax,
                   pipelineNum, solFound, plSols, best, launchVars>>

\* after the stage loop: `break` once a solution was found, else next node
NodeNumDone ==
    /\ pc = "nodeEnd"
    /\ IF ~DpSearchAll /\ solFound
       THEN /\ pc' = "select" /\ UNCHANGED nodeNumUsed
       ELSE /\ nodeNumUsed' = nodeNumUsed + 1 /\ pc' = "node"
    /\ UNCHANGED <<graph, stageNum, stageNumMax, prevStageNumMax, pipelineNum,
                   solFound, plSols, best, launchVars>>

\* throw when nothing was kept, else the fastest by estimateTime
Select ==
    /\ pc = "select"
    /\ IF plSols = <<>>
       THEN /\ pc' = "failed" /\ UNCHANGED best
       ELSE /\ best' = Fastest(graph, plSols) /\ pc' = "done"
    /\ UNCHANGED <<graph, nodeNumUsed, stageNum, stageNumMax, prevStageNumMax,
                   pipelineNum, solFound, plSols, launchVars>>

\* how a launch ended: returned, threw, or failed to load
Result == <<pc, best>>

Finished == pc \in {"done", "failed", "loadFailed"}

\* the program launched again on the same graph with the next flags:
\* runDpComm starts over (pl_sols, sol_found, prev_stage_num_max), and
\* only the files remain from the earlier launch
Relaunch ==
    /\ Finished
    /\ launch < Len(Launches)
    /\ results' = Append(results, Result)
    /\ launch' = launch + 1
    /\ nodeNumUsed' = 1
    /\ stageNum' = 0 /\ stageNumMax' = 0 /\ prevStageNumMax' = 0
    /\ pipelineNum' = 0
    /\ solFound' = FALSE
    /\ plSols' = <<>>
    /\ pc' = "node"
    /\ best' = NoSol
    /\ UNCHANGED <<graph, files>>

Next ==
    \/ SkipNodeNum \/ EnterNodeNum \/ NodeLoopEnd
    \/ EnterStage \/ StageLoopEnd
    \/ RunDp \/ PipelinesDone
    \/ NodeNumDone
    \/ Select
    \/ LoadMissing
    \/ Relaunch

\* one thread runs the search to its end; the next launch follows the end
Spec == Init /\ [][Next]_vars /\ WF_vars(Next)
-----------------------------------------------------------------------------
TypeOK ==
    /\ graph \in Graphs
    /\ nodeNumUsed \in 1..(NodeNumTotal + 1)
    /\ pc \in {"node", "stage", "pipe", "nodeEnd", "select", "done", "failed",
              "loadFailed"}
    /\ launch \in 1..Len(Launches) /\ Len(results) = launch - 1
    /\ \A f \in DOMAIN files : f[1] \in 1..NodeCount /\ f[2] \in Pipelines
    /\ solFound = (plSols # <<>>)
    /\ \A i \in 1..Len(plSols) : plSols[i].stages # <<>>

\* every (node count, stage count, pipeline count) of the sweep spec 4.3
\* describes: stage counts bounded by the node count and devices-per-group
Triples ==
    {t \in Divisors \X (1..NodeCount) \X Pipelines : t[2] <= DevPerGroup(t[1])}

Solvable(t) == DoRunDpComm(graph, t[2], t[1], t[3]).stages # <<>>

\* a kept solution by its replica count, stage count and pipeline count
Key(sol) == <<sol.replica, Len(sol.stages), sol.pipeline>>
KeyOf(t) == <<ReplNum(t[1]), t[2], t[3]>>

Ended == pc \in {"select", "done", "failed"}

(***************************************************************************)
(* runDpComm throws "Failed to find a feasible allocation" only when no    *)
(* triple of the sweep has a solution (spec 7: no solution across the      *)
(* entire sweep is the fatal error), although prev_stage_num_max restricts *)
(* each node count to stage counts the smaller groups did not try.         *)
(***************************************************************************)
FailsOnlyIfInfeasible ==
    pc = "failed" => \A t \in Triples : ~Solvable(t)

(***************************************************************************)
(* Spec 4.3: any triple yielding a solution is retained, and only the      *)
(* larger device-group counts are skipped once one yields a solution: when *)
(* the sweep ends, the kept solutions are those of every solvable triple   *)
(* of the first node count that has one.                                   *)
(***************************************************************************)
RetainsFirstGroup ==
    (Ended /\ ~DpSearchAll /\ \E t \in Triples : Solvable(t)) =>
        LET u0 == Min({t[1] : t \in {x \in Triples : Solvable(x)}})
        IN {Key(plSols[i]) : i \in 1..Len(plSols)}
             = {KeyOf(t) : t \in {x \in Triples : x[1] = u0 /\ Solvable(x)}}

(***************************************************************************)
(* The returned solution is one of the kept ones and none of them has a    *)
(* smaller estimateTime, as DPStaging estimates it (spec 4.3: the retained *)
(* solution of least estimated time), whichever estimateSolutionGraph the *)
(* search itself uses.                                                     *)
(***************************************************************************)
BestIsFastest ==
    pc = "done" =>
        /\ \E i \in 1..Len(plSols) : best = plSols[i]
        /\ \A i \in 1..Len(plSols) :
              EstimateTimeWith(graph, best, FALSE)
                <= EstimateTimeWith(graph, plSols[i], FALSE)

(***************************************************************************)
(* The selection loop (DPStaging.cpp:410-420) returns, of the solutions    *)
(* the sweep kept, the first in the order it found them (node count, then *)
(* stage count, then pipeline count, or the order the files were loaded)  *)
(* among those of least estimateTime: on a tie the smaller pipeline count *)
(* wins, as spec 4.2 fixes first-found for the DP.  The search's own      *)
(* estimate is used, so this is about the loop, not the estimator.        *)
(***************************************************************************)
FirstFastest ==
    pc = "done" =>
        LET est == [i \in 1..Len(plSols) |-> EstimateTime(graph, plSols[i])]
            first == CHOOSE i \in 1..Len(plSols) :
                       /\ \A j \in 1..Len(plSols) : est[i] <= est[j]
                       /\ \A j \in 1..(i - 1) : est[j] > est[i]
        IN best = plSols[first]

(***************************************************************************)
(* runDpComm ends, and so does the sequence of launches.  The state, read *)
(* lexicographically as launch, node count, phase (node test, stage loop, *)
(* node end, selection, ended), stage count, position in the stage body   *)
(* (entry, pipeline loop) and pipeline count, strictly grows with every   *)
(* step, and each part is bounded, so the single thread running the loops *)
(* gets out.  It is the `pipeline_num *= 2` that must grow (an overflow   *)
(* wraps it to a smaller value) and each `stage_num++` and                 *)
(* `node_num_used++` that must happen.                                     *)
(***************************************************************************)
Phase == CASE pc = "node" -> 0 [] pc \in {"stage", "pipe"} -> 1
         [] pc = "nodeEnd" -> 2 [] pc = "select" -> 3 [] OTHER -> 4

Progress == <<launch, nodeNumUsed, Phase, stageNum,
              IF pc = "pipe" THEN 1 ELSE 0, pipelineNum>>

RECURSIVE LexLess(_, _, _)
LexLess(x, y, k) ==
    /\ k <= Len(x)
    /\ \/ x[k] < y[k]
       \/ x[k] = y[k] /\ LexLess(x, y, k + 1)

SweepProgresses == [][LexLess(Progress, Progress', 1)]_vars

(***************************************************************************)
(* estimateTime agrees with the pipeline schedule spec 4.3 describes: at   *)
(* step t, stage i works on micro-batch t - i when 0 <= t - i < P, and the *)
(* step costs the slowest forward plus the slowest backward of the stages  *)
(* so busy.  The code's window arithmetic (g_from, g_to_excl) must pick    *)
(* exactly those stages for the solution doRunDpComm returns for every    *)
(* triple of the sweep, whether or not the sweep reaches or keeps it.      *)
(***************************************************************************)
ScheduleTime(g, sol) ==
    LET S == Len(sol.stages)
        P == sol.pipeline
        Busy(t) == {i \in 0..(S - 1) : t - i \in 0..(P - 1)}
        Prof(i) == EstimateSolutionGraph(g, sol, i)
        Comm(i) == LET st == sol.stages[i + 1]
                       k == st.devs * sol.replica * P
                   IN CommTime(InSize(g, st.from, st.to) \div k)
                      + CommTime(OutSize(g, st.from, st.to) \div k)
        Slowest(t) == MaxOr0({Prof(i).fwd + Comm(i) : i \in Busy(t)})
                      + MaxOr0({Prof(i).bwd + Comm(i) : i \in Busy(t)})
    IN MapThenSumSet(Slowest, 0..(P + S - 2))
       + MaxOr0({AllReduceTime(g, sol.stages[i + 1].from, sol.stages[i + 1].to) :
                   i \in 0..(S - 1)})

EstimateMatchesSchedule ==
    \A t \in Triples :
        LET sol == DoRunDpComm(graph, t[2], t[1], t[3])
        IN Solvable(t) => EstimateTimeWith(graph, sol, FALSE) = ScheduleTime(graph, sol)
(***************************************************************************)
(* Solutions saved by one launch and loaded by the next give the same      *)
(* answer (DPStaging.cpp:366-375): a launch with LOAD_ALLOC_SOLUTIONS that *)
(* follows one with SAVE_ALLOC_SOLUTIONS returns the allocation that       *)
(* launch returned, or throws as it did.  The file name holds only the     *)
(* stage and pipeline counts, so a later device group overwrites an        *)
(* earlier group's file, every solve (an empty one too) must have been     *)
(* written, and the loading launch must walk the loops the same way.      *)
(***************************************************************************)
RoundTrip ==
    Finished =>
        \A i \in 1..Len(results) :
            (~Launches[i][1] /\ Launches[i][2] /\ LoadAllocSols)
                => results[i] = Result
=============================================================================
