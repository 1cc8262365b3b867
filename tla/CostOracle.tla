----------------------------- MODULE CostOracle -----------------------------
(***************************************************************************)
(* The external collaborators of the allocation search (ProfilerUtil,      *)
(* calcCommTime, calcGraphMem), which are not part of the source modelled  *)
(* here.  They are stated from the spec (section 6: a cost oracle returns  *)
(* forward time, backward time and peak memory for a composite subgraph,   *)
(* a device count and a pipeline count) with closed-form costs of the kind *)
(* spec section 8 suggests, so that their results are monotone:           *)
(*   - time shrinks, never grows, with more devices or more micro-batches; *)
(*   - memory shrinks with more devices and grows with a longer range.     *)
(* A graph is a record: work[i] and mem[i] per node i \in 0..N-1, and      *)
(* cut[i] the size of the values crossing the boundary before node i       *)
(* (cut[0] the model input, cut[N] the model output).                      *)
(***************************************************************************)
EXTENDS Integers, FiniteSets

CeilDiv(a, b) == (a + b - 1) \div b

MaxOf(a, b) == IF a >= b THEN a ELSE b

\* sum of f[i] for i in from..to, inclusive
RECURSIVE RangeSum(_, _, _)
RangeSum(f, from, to) ==
    IF from > to THEN 0 ELSE f[from] + RangeSum(f, from + 1, to)

\* The composite subgraph merge(from, to) holds nodes from..to; the values
\* produced and consumed inside the range are pruned, so its inputs are
\* the values crossing cut[from] and its outputs those crossing cut[to+1].
InSize(g, from, to)  == g.cut[from]
OutSize(g, from, to) == g.cut[to + 1]

\* profile of merge(from, to) on k devices with p micro-batches
Fwd(g, from, to, k, p) == CeilDiv(RangeSum(g.work, from, to), k * p)
Bwd(g, from, to, k, p) == 2 * Fwd(g, from, to, k, p)

\* calcGraphMem: peak memory of merge(from, to) on k devices
Mem(g, from, to, k) == CeilDiv(RangeSum(g.mem, from, to), k)

\* calcCommTime: time to move a value of the given size
CommTime(size) == size

\* calcAllReduceTime: time of the gradient all-reduce of a stage
AllReduceTime(g, from, to) == RangeSum(g.mem, from, to)
=============================================================================
