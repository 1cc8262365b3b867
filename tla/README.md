# TLA+ models of RaNNC's allocation search

This directory holds TLA+ models of the C++ core of RaNNC, which lives under `src/src/`.
RaNNC is the automatic partitioner for distributed training. Every module is written from the
source. The exceptions are `CostOracle`, which models collaborators that are not under
`src/` and is written from `spec.md`, and the `Exchange` action of `RedistArgs`, which models
`NCCLWrapper::redist` (also outside `src/`) by the all-to-all-v semantics it implements.
Likewise, in the parameter-slicing models, `getLocalRank`, `createDummyRanks`, `::rannc::merge` and the
deployment loop that calls `sliceParam` are outside `src/` and are modelled from how the code uses them.

## The system and its parts

| Part | Source | What it does | State |
|---|---|---|---|
| DP allocation solver | `graph/DPStaging.cpp` `doRunDpComm` (485-790), `isPowerOfTwo` (12-16), `estimateEval` (161-168) | Fixes a stage count, devices per group, replica count and pipeline count. It fills `table[stage][boundary][used_dev]` with `DPState` cells (eval, max_fwd, max_bwd, back-pointers), then traces back the stage boundaries and per-stage device counts. | the table, the loop indices, `min_d`, `found_b_sol`, `found_d_sol`, `skip_small_bs` |
| Multi-resolution search | `DPStaging.cpp` `runDpComm` (295-447), `estimateTime` (240-276) | Loops over node counts, stage counts and pipeline counts (doubling) and calls `doRunDpComm` for each. It stops early once a solution exists, then picks the solution with the least estimated time. | `pl_sols`, `sol_found`, `prev_stage_num_max`; the solution files `<prefix>_s<stage>_p<pipeline>.bin` (`saveAllocSolution`, `loadAllocSolution`, 804-816), which outlive the process |
| Graph merge cache | `DPStaging.cpp` `GraphMergeHelper::merge` (36-114) | Builds the merged subgraph of nodes from..to. It reuses the longest cached prefix (from, k) and caches every prefix it builds. | `graph_merge_cache_` |
| Cost oracle | ProfilerUtil, `calcGraphMem`, `calcCommTime` (not in `src/`) | Returns forward/backward time and memory of a merged range on k devices. | profile cache |
| Redistribution arguments | `comm/SComm.cpp` `getRedistArgsSend/Recv` (16-177), `SComm::getRedistArgs` (420-481) | Computes the all-to-all-v counts and displacements that move a tensor from one distribution over ranks to another. | none (pure) |
| Local split helpers | `SComm.cpp` `isLastLocalSplit`, `get{First,Next,Prev}LocalSplitIndex` (581-627) | Find the non-empty micro-batches of a rank. | none (pure) |
| Parameter slicing | `distop/PartitionTensor.cpp` (9-176), `DPStaging::partitionParams` (792-801) | Under `force_dist_matmul`, rewrites a step graph: each `aten::linear` whose weight's dim 1 divides by the replica count becomes `rannc::linear_dist`, with rank constants and a rank list added to its inputs. `getDistParams` marks the weights to partition, and `sliceParam` gives each rank its segment. | none (pure) |
| Bindings, custom ops | `main.cpp`, `torch/CustomOps.cpp` | pybind11 and torch glue. | none |

How the parts interact:
- `runDpComm` calls `doRunDpComm` once per configuration.
- `doRunDpComm` calls `GraphMergeHelper::merge` for each candidate range (b_prev..b-1). It hands the composite to `partitionParams` with `(d - d_prev) * replica_num` replicas, and calls the cost oracle for its profile and memory. The trace-back does the same for each chosen stage. Deployment then slices each partitioned weight on the stage's ranks.
- At run time, SComm moves activations between stages. It uses the redistribution arguments and the local split helpers for the micro-batches the allocation fixed.

The allocation search is sequential: one thread runs the DP. The hard behaviours are therefore not interleavings but *order-dependent pruning* in a long loop nest:
- the memory `break` of the d_prev loop;
- the `min_d` raise that persists across b;
- the `break` of the b loop;
- the update rule;
- the trace-back.

The redistribution is different: every rank of a route computes its own arguments, in no fixed order relative to the other ranks, before the collective exchange. `RedistArgs` models those computations in every order.

## Modules

- **`CostOracle`** (written from the spec). The oracle's functions, in closed form. The graph is a record `[work, mem, cut]` over nodes `0..N-1`. Time and memory are `ceil(sum / k)`, so they are monotone in the device count and the range, as spec §8 assumes.
- **`DPStaging`** (`doRunDpComm`). The variables are `table` (cells `<<s, b, d>>`), the loop indices `s`, `b`, `d`, `bp`, `dp`, and `minD`, `foundB`, `foundD`, `skipBs`. `pc` says which loop end is next, and `result` holds the returned stages. The graph and stage count are chosen in `Init`. Each `continue`, `break` and update of the innermost body is its own action:
  - `SkipSmallBs`: the three device filters;
  - `SkipInfeasiblePrev`;
  - `MemExceeded`: the `break`;
  - `Evaluate`: the comparison and the update, with `found_*` set.

  Each loop end is also its own action: `NoSolutionForD` (the `min_d = d+1; break`), `NextD`, `LastD`, `NextB`, `EndOfStage` (the b `break` or the loop end), `NextStage`, and `GetSolution` (the best_d scan and the trace-back).
- **`DPSolve`** (the abstract specification). What spec §4.2 promises: the exhaustive DP, in which every cell considers every predecessor in code order and nothing is pruned by evaluation order. The whole solve is one step, `Solved`. `DPStaging` maps onto it with `answer <- [returned |-> pc = "done", stages |-> result]`.
- **`MCDPStaging`** enumerates the input graphs for TLC.
- **`RunDpComm`** (`runDpComm`, `estimateTime`). The variables are the loop indices `nodeNumUsed`, `stageNum`, `pipelineNum`, the range bounds `stageNumMax` and `prevStageNumMax`, `solFound`, the kept solutions `plSols` (in the order found), the returned `best`, and `pc` for the loop end that is next. Each loop step is an action:
  - `SkipNodeNum`: the divisor `continue`;
  - `EnterNodeNum`: the stage range, new stage counts only, clipped to the graph;
  - `RunDp`: one iteration of the pipeline loop. Under `LOAD_ALLOC_SOLUTIONS` it reads the file of its stage and pipeline counts (`IterSol`); otherwise it calls `doRunDpComm` and, under `SAVE_ALLOC_SOLUTIONS`, writes the answer to that file (`SavedFiles`). A non-empty answer is kept;
  - `LoadMissing`: the load of a file that no launch wrote, which throws;
  - `PipelinesDone` and `NodeNumDone`: the two `break`s;
  - `Select`: the throw, or the first solution of least `EstimateTime`;
  - `Relaunch`: the program started again on the same graph with the next launch's flags (the constant `Launches`). `runDpComm` starts over and only `files` (file name `<<stage, pipeline>>` -> solution) remains. `results` records how each launch ended.

  `estimateTime` calls the virtual `estimateSolutionGraph` once per stage in flight. `EstimateTimeWith(g, sol, dry)` is that loop, and the constant `Dry` picks the override:
  - `EstimateSolutionGraph` (`DPStaging`): the profile of the stage's composite on `repl_nums` = devices × `replica_num`;
  - `DryEstimateSolutionGraph` (`DPDryStaging`, `run_dp_dry`): the profile of `graph.nodes[g_idx]`, the `g_idx`-th node of the MLGraph, on `dev_nums[g_idx+1] - dev_nums[g_idx]` devices.

  `doRunDpComm` is `DPSolve`'s `Solve`, through an instance `DP(dpg, repl, pl)` for each call's devices per group, replicas and pipelines. `DPStaging` is checked to refine `DPSolve` only at one replica, one micro-batch and 4 devices with the power-of-two filter on (`dp_n4_pot`); the sweep calls the DP at 1, 2 and 4 replicas and pipelines and with that filter off. There the substitution rests on the monotone linear oracle, under which the pruning rules are exact (the memory break, the `min_d` raise, the `b` break); the violation answers of the sweep runs were recomputed by hand from `doRunDpComm`. It is an assumption of the sweep runs, not a result of them. `DPAnswer` tabulates the answers once, for every graph and every call the sweep can make.
- **`MCRunDpComm`** enumerates 3-node graphs (work 1 or 4, memory 1..3, inner cuts 0 or 2). Work 1 and 4 make stages of unequal cost, so the window of stages in flight decides a step's slowest stage.
- **`GraphMerge`** (`GraphMergeHelper`). The variables are `cache` (the composite per key `<<from, to>>`, or none), `computed` (how often `::rannc::merge` built each key), and the last call and its result. A composite is the set of node indices it holds, and `MergeWith` adds one node. `Merge(from, to)` is one whole call:
  - the cache hit;
  - the `while` walk over cached prefixes (`AvailTo`, `WalkBase`);
  - the `for` loop (`Extend`) that caches every prefix it builds;
  - the final store.

  Calls come in any order, bounded by `MaxCalls`. It is checked inside `StepGraph`.
- **`PartitionTensor`** (all of `PartitionTensor.cpp`) is pure operators over an abstract IR graph. A graph is a record of its ordered nodes (op name, input and output names), its typed values (a tensor's dims, or the INT and INT-list types) and its inputs.
  - `ReplaceWithDistOp` folds over the nodes. `ReplaceNode` is the dist branch: it emits one `prim::Constant` per rank, named from the running counter (`RankNames`), then the `prim::ListConstruct`, then the renamed node with the list appended. `CopyNode` is the else branch. Both copy the output values.
  - `GetDistParams` runs on the rewritten graph, as the code does.
  - `SliceParam` returns the kept range, or the thrown error when the dim does not divide.
  - `getLocalRank` (outside `src/`, and not described in `spec.md`) is taken to be the rank's position among the sorted ranks. This is an assumption: the code hands it an `unordered_set`, and whether every rank of a stage sees the same order is decided outside `src/`.
- **`StepGraph`** composes `GraphMerge` (an instance) with `PartitionTensor` along `doRunDpComm`'s path.
  - `Step(from, to, n)` is one DP step: `merge(from, to)`, then `partitionParams` on the composite's IR graph with n replicas, on n deployment ranks chosen from `Ranks`.
  - `Deploy` has every one of those ranks call `sliceParam` on each partitioned parameter. `sliceParam` is pure, so the ranks' order does not matter and is not enumerated.
  - `MergedIR` stands for `::rannc::merge` (outside `src/`): it concatenates the nodes' IR graphs in order. `createDummyRanks(n)` is `0..n-1`.
  - `StepInfo` tabulates `partitionParams` once per composite and replica count. It is a pure function, and the table keeps the run under two minutes.
  - DPStaging calls a three-argument `replaceWithDistOp(g, ranks, param_part)`, which is not in `src/`. The model uses the two-argument definition that is in `src/`.
- **`MCStepGraph`**: five MLGraph nodes, linear-relu-linear-gelu-linear. The first and last linears share the weight `W0` (a tied weight, as in models that reuse a layer's parameters), which has in-features 4; `W1` has 6. So 1 or 2 replicas partition every linear and 3 only the middle one, and a composite of all five nodes reads `W0` from two dist nodes. There `getDistParams` writes its entry twice. The merged IR takes a tied weight as one input.
- **`RedistArgs`** (`getRedistArgsSend`, `getRedistArgsRecv`, `getRedistArgs`). The route is chosen in `Init`: source and destination ranks and the element count each holds (standing for `calcDistBatchDims`, outside `src/`), with equal totals.
  - The inner loop shared by both functions is the recursive `Scan`. It keeps the `<=` boundary test, the `min`, and the `break` once the rank's range is assigned.
  - `ComputeArgs(me)` is one rank's `getRedistArgs`, in any order across ranks.
  - `Exchange` moves the elements once all ranks have their arguments.
- **`LocalSplit`** (`isLastLocalSplit`, `get{First,Next,Prev}LocalSplitIndex`). The four helpers are operators over the per-split local batch sizes, which are an input. The actions are the walks a pipelined rank makes with them:
  - `First`;
  - `ForwardStep`: `isLastLocalSplit`, then `getNextLocalSplitIndex`;
  - `BackwardStep`: `getPrevLocalSplitIndex`.

  Whether `assert` is compiled in is chosen in `Init`.

## Runs

| Run | cfg | Expect | What it shows |
|---|---|---|---|
| `dp_n4_pot` | `MCDPStagingPot.cfg` | pass | 4 nodes and 4 devices; stage counts 2-4; the power-of-two and batch-size filters on; every graph with work 1..2, memory 1..2 and inner cuts {0,2}. That is 2048 inputs and 282624 states, in 35 s. Properties: the loop nest ends (`Termination`); its allocation tiles the nodes and devices, obeys the filters and fits in memory (`SolutionDeployable`); and it equals the exhaustive DP's answer (`RefinesDPSolve`). Filtered candidates set `skip_small_bs`, which suppresses the `min_d` raise. |
| `dp_noacc` | `MCDPStagingNoAcc.cfg` | violation | Without `PROFILE_BY_ACC`, `step_mem` stays `LONG_MAX`, every candidate breaks on memory, and no allocation is returned where the exhaustive DP finds one. |
| `dp_eval_rises` | `MCDPStagingEval.cfg` | violation | The update compares `step_val` but stores `max(step_val, prev.eval)`. TLC finds a cell whose eval rises from 7 to 10 on an "improvement". |
| `redist` | `MCRedistArgs.cfg` | pass | Every route over ranks {0,1,2,3} (sources and destinations any non-empty subsets, so ranks in both lists occur) with sizes 0..2 and equal totals, in every order of the ranks' computations: 162055 states. Each sender's count to a receiver equals the receiver's count from it and the size of their overlap (`CountsMatch`). After the exchange every destination position holds exactly its own global element (`Delivered`). |
| `local_split` | `MCLocalSplit.cfg` | pass | Every assignment of local sizes 0..2 to 4 splits, debug build or not. The forward walk visits exactly the non-empty splits, and `isLastLocalSplit` is true only at the last (`ForwardWalkExact`). |
| `local_split_prev` | `MCLocalSplitPrev.cfg` | violation | `getPrevLocalSplitIndex` stops at `i > 0`. With data in splits 0 and 3, the backward walk is `<<3>>` against the forward `<<0, 3>>`. |
| `local_split_assert` | `MCLocalSplitAssert.cfg` | violation | `assert(last_index > 0)` fails in a debug build when split 0 is the only split with data. |
| `step_graph` | `MCStepGraph.cfg` | pass | Every sequence of 4 DP steps over 5 nodes, each with 1-3 replicas on any ranks of {0,1,2}, each step's stage deployed or not: 21144 states in about 65 s. Every cached and returned composite holds exactly its range (`CompositesExact`), and no composite is built twice, which is spec §4.1 (`MergedOnce`). The rewritten step graph is well formed: one producer per value, defined before use, and typed (`RewriteWellFormed`). The deployment step (`Deploy`, every rank calling `sliceParam`) is explored and typed but carries no property: the model deploys a stage on exactly the replica count the rewrite checked, and ranks the stage by sorted position, so the slices tile the dim by construction; the ways it can go wrong are decided outside `src/`. |
| `rdp_sweep` | `MCRunDpComm.cfg` | pass | 864 graphs on 4 one-device nodes: node counts 1, 2 and 4 (3 skipped), pipeline counts 1, 2 and 4. Three launches run on each graph: one that loads before any file exists (and throws), one that saves, and one that loads. That is 20224 states, in about 80 s. The selection loop (`Fastest`, the code's strict `<` from `LONG_MAX` over `pl_sols` in order) returns the first kept solution, in the order the sweep found them, among those of least `estimateTime` (`FirstFastest`, stated against a direct argmin). Kept solutions of different pipeline counts tie on the estimate for some graphs, so a `<=` in the loop (the last of the tied) breaks it. With `min_pipeline_num` 0, the clamp `std::max(1, .)` is what keeps the pipeline loop moving; a count of 0 would fail `SweepProgresses`. Every step of the three loops strictly increases the loop measure `Progress` in lexicographic order (`SweepProgresses`). The measure is bounded, so the sweep reaches its return or its throw. For the solution `doRunDpComm` returns for every triple of the sweep, kept or not, `estimateTime` equals a direct sum over the micro-batch schedule, where stage i is busy at step t when 0 <= t - i < P (`EstimateMatchesSchedule`). This checks both ends of the `g_from`/`g_to_excl` window: a `g_to_excl` that leaves out the entering stage, or a `g_from` one step late, breaks it. The loading launch ends as the saving launch did (`RoundTrip`). This holds only because every solve is saved, an empty one too, and the file name holds both the stage and the pipeline count: a name without the pipeline count breaks it. So does saving only non-empty solutions (spec §5, "written at most once after a successful solve"), because the loading launch then throws at the first file that was never written. |
| `rdp_fail_feasible` | `MCRunDpCommFail.cfg` | violation | The same system, with `min_pipeline_batch_size` 2. The stage range of each group starts at `prev_stage_num_max + 1`, so the 4-node group tries only 3 stages. For node memory (2, 3, 3) and a budget of 3, `runDpComm` throws, although 2 stages on that group (1 device + 3 devices) fit. Spec §4.3 sweeps every stage count up to the devices per group; spec §7 makes only an empty sweep fatal. |
| `rdp_retain` | `MCRunDpCommRetain.cfg` | violation | Two devices per node. The stage-loop `break` (line 386) drops the 2-stage solutions of the first group, which spec §4.3 says are retained. |
| `rdp_dry` | `MCRunDpCommDry.cfg` | violation | Run as `DPDryStaging` with `DP_SEARCH_ALL`, so several stage counts are kept. The dry estimate profiles MLGraph node `g_idx` in place of stage `g_idx` and leaves out `replica_num`. For work (4,1,1) it returns the 3-stage allocation on devices (2,1,1) with one micro-batch, although `DPStaging`'s estimate ranks another kept solution faster (`BestIsFastest`, evaluated with the non-dry estimate spec §4.3 describes). With `DP_SEARCH_ALL` off, TLC finds no such graph at these bounds: only pipeline counts of one stage count are then compared, and the two estimates order them alike. |

The seven violations are recorded as findings in `PROJECT.json`.

Bounds:
- 3 nodes (the violation runs) and 4 nodes (`dp_n4_pot`) with up to 4 stages reach every early exit:
  - the memory break (DevMem 3 against ranges of memory up to 6 or 8);
  - the min_d raise and its persistence to the next b;
  - the b break;
  - the filters (batch size 4 limits devices to at most 4, and the power-of-two filter removes 3).
- Work values 1..3 make ties and strict improvements both occur.
- A 4-node, 4-device run with all stage counts 1-4 took 16 minutes. `dp_n4_pot` drops stage count 1, which has no predecessor choice.
- `redist`: four ranks give disjoint, nested and overlapping source and destination sets. Sizes 0..2 give zero-size ranks, which are where the `<=` test matters, and ranges that straddle two peers.
- `local_split`: four splits with sizes 0..2 give every pattern of empty and non-empty splits, including split 0 alone.
- `step_graph`: five nodes and four calls reach a prefix walk of two cached entries followed by further merging. Composites hold up to three linears, so the rank-name counters run across several dist nodes. The in-features 4 and 6 against 1-3 replicas give both divisible and non-divisible weights in one composite. The tied `W0` gives a partitioned parameter read by two dist nodes. Rank sets such as {0, 2} make `getLocalRank` differ from the rank.
- `rdp_sweep`: four devices on one-device nodes give three groups and a skipped node count.
  - Memory 1..3 against a budget of 3 makes some graphs infeasible everywhere, which reaches the throw.
  - Other graphs keep several solutions of different estimated time.
  - With `min_pipeline_batch_size` 1, a single stage over all devices is the least memory per device. So only the first group ever succeeds, and the later groups are searched only to fail.
  - `pipeline_num` is an `IntBits`-bit `int` (`IntWrap`: two's-complement wrap, the outcome the build gives for the signed overflow). The runs use 5 bits, so that the bound 4 stays below 2^(5-2) just as a real bound stays below 2^30. At 4 bits the same bound is the scaled 2^30: TLC then shows the count going 1, 2, 4, -8 and `SweepProgresses` failing (checked once; no run is kept at that width). That is the overflow of DPStaging.cpp:358 for a bound of at least 2^30, which TLC's own 32-bit integers cannot reach directly.
  - `min_pipeline_batch_size` 2 (`rdp_fail_feasible`) filters out the first group's single stage, and the later groups then matter.
  - Three launches (`MCSaveThenLoad`: load, save, load) are the shortest sequence in which a load finds no file (`LoadMissing`), a save writes every file of the sweep, and a later load reads all of them. The other `RunDpComm` runs use one launch that neither loads nor saves (`MCOneLaunch`).

Fairness: `DPStaging`'s `Spec` has `WF_vars(Next)`. This is justified because the code is one thread running a loop nest, so an enabled step is always taken. `DPSolve` has no fairness: `RefinesDPSolve` checks that every step of the loop nest maps to a stutter or to the one `Solved` step. The `returned` flag turns an empty answer where the exhaustive DP has a solution into a violation. `Termination` separately shows that the `done` step happens.

`RunDpComm`, `RedistArgs` and `LocalSplit` also carry `WF_vars(Next)`, for the same reason. `RunDpComm` states termination as a loop variant instead of a `<>` property: every step strictly increases `Progress` = (launch, node count, loop phase, stage count, pipeline phase, pipeline count), which is bounded. A relaunch raises the launch number and restarts the loops. The stage count and the pipeline count each have to advance past their bounds. Checking `<>` instead is far slower, because TLC evaluates the DP answers again for each state of the liveness graph. The others check only safety. `GraphMerge` and `StepGraph` have no fairness, because nothing obliges a caller to call `merge()` or to deploy. Their runs set `CHECK_DEADLOCK FALSE`: the explored calls end at `MaxCalls`.

The monotone oracle is an assumption the code's memory break relies on (comment at DPStaging.cpp:672-674). The refinement holds under it, and only under it.

## Not modelled (yet), and the plan

Modelled so far, beyond the DP: `RedistArgs`, `LocalSplit`, `GraphMerge`, `RunDpComm` (with both `estimateSolutionGraph` overrides, the `int` width of `pipeline_num`, and the solution files that `LOAD_ALLOC_SOLUTIONS`/`SAVE_ALLOC_SOLUTIONS` read and write across launches), and parameter slicing (`PartitionTensor`, `StepGraph`).

Next:
1. **Compose `GraphMerge` with `DPStaging`**: drive the merge cache with the exact call sequence of the loop nest and the trace-back, if TLC allows at 3 nodes.
2. **`set_tracing_state`** (main.cpp:236-252), the one binding with state of its own: a static saved tracer against torch's current one, with the asserts of a debug build. It stays out because the tracer it saves and restores belongs to torch (outside `src/`), and the callers that pair the calls are Python code outside `src/`: a model would consist of an assumed caller and an assumed tracer, and say nothing about this code beyond the two assignments.

Hazards without a property:
- **The node-loop `break`** (DPStaging.cpp:390). In `rdp_sweep` the first group keeps a solution whenever any group does, so "all kept solutions come from one group" held by the break alone and is no longer checked.
- **The slices of a partitioned weight** (PartitionTensor.cpp:163-175): the deployed rank count and `getLocalRank`'s order come from outside `src/` (see `step_graph`).
- **The `best_d` scan** (DPStaging.cpp:743) covers only `d = dev_num_per_group`. An earlier run showed that with the power-of-two filter and 3 devices no allocation is returned, although one on 2 devices exists. That run was retired in favour of `rdp_dry`. `GetSolution`/`BestD` still model the narrowed scan.
- **A tied weight** (PartitionTensor.cpp:33) read by a linear and by a non-dist node is sliced for both. A weight tied between two linears is in `MCStepGraph`, where the two readers agree on divisibility. What the non-dist node then receives is decided outside `src/`.
- **The communicator cache** (SComm.cpp:644) is keyed by the route's tag alone, so two routes with one tag would share one MPI group. The tags come from outside `src/`, and the MPI layer is not modelled.
- **`set_tracing_state(false)` called twice** (main.cpp:249). In a build without asserts, the second call saves the null tracer over the suspended one, and the next `set_tracing_state(true)` throws. The tracer and the Python callers that pair the calls are outside `src/`.
- **The solution file name** (DPStaging.cpp:480) holds the stage and pipeline counts but not the device group. With `DP_SEARCH_ALL`, two groups that solve the same stage count save to one file, and a later loading launch reads the second group's solution for the first. `RoundTrip` covers the name's pipeline count. In `rdp_sweep` the groups never share a file, because the search stops after the first group that succeeds, and reaching the collision needs `DP_SEARCH_ALL` with saving on, a configuration no run checks.

Left out for good:
- the rest of `DPDryStaging::partition` (`createPartition`, `replicate`, `searchAllocation*`, `createDeployment` are outside `src/`);
- `main.cpp` and `CustomOps.cpp` (bindings and hooks);
- the MPI/NCCL calls of SComm (runtime I/O, out of scope per spec);
- profile dumps and the serialisation of solution files (file I/O and formatting; what a file holds and when it is read or written is modelled).
