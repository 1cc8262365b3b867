------------------------------ MODULE StepGraph ------------------------------
(***************************************************************************)
(* The step graph of doRunDpComm (src/src/graph/DPStaging.cpp): every DP   *)
(* step merges the nodes b_prev..b-1 through the GraphMergeHelper cache    *)
(* and hands the composite to partitionParams with (d - d_prev) *          *)
(* replica_num replicas; the trace-back does the same for each chosen      *)
(* stage and gives the partition info to deployment, where every rank of  *)
(* the stage slices its partitioned parameters with sliceParam.  This      *)
(* module composes GraphMerge with PartitionTensor along that path.        *)
(*                                                                         *)
(* NodeGraphs gives the IR graph of each node of the MLGraph; the merged   *)
(* IR graph of a composite (::rannc::merge, outside src/) concatenates the *)
(* nodes' graphs in order.  The replica counts range over 1..MaxRepl and   *)
(* the deployment ranks of a stage over the subsets of Ranks of that size. *)
(***************************************************************************)
EXTENDS Integers, FiniteSets, SequencesExt, Functions, PartitionTensor

CONSTANTS
    NodeNum,          \* graph_.nodes.size()
    MaxCalls,         \* the number of steps explored
    NodeGraphs,       \* node index -> its IR graph
    Params,           \* the value names that are parameters
    MaxRepl,          \* the largest (d - d_prev) * replica_num explored
    Ranks,            \* the global ranks a stage may be deployed on
    ForceDistMatmul   \* conf_.force_dist_matmul

ASSUME MaxRepl \in Nat \ {0} /\ MaxRepl <= Cardinality(Ranks)

VARIABLES
    cache, computed, calls, lastKey, lastRet,   \* GraphMergeHelper
    info,          \* the TensorPartitioningGraphInfo of the last step
    stageRanks,    \* the ranks the last step's stage is deployed on
    sliced         \* the sliceParam calls of the deployment: [rank, name, res]

GM == INSTANCE GraphMerge

mergeVars == <<cache, computed, calls, lastKey, lastRet>>
vars == <<mergeVars, info, stageRanks, sliced>>

\* ::rannc::merge (outside src/): the IR graph of the nodes of composite S
\* in order; its inputs are the nodes' inputs no earlier node produces or
\* already takes (a tied weight is one input)
MergedIR(S) ==
    LET order == [i \in 1..Cardinality(S) |->
                    CHOOSE x \in S : Cardinality({y \in S : y < x}) = i - 1]
        parts == [i \in DOMAIN order |-> NodeGraphs[order[i]]]
        produced(i) == UNION {ToSet(parts[j].outputs) \cup ToSet(parts[j].inputs) :
                                j \in 1..(i - 1)}
    IN [nodes |-> FlattenSeq([i \in DOMAIN parts |-> parts[i].nodes]),
        values |-> FoldLeft(LAMBDA acc, p : p.values @@ acc, EmptyMap, parts),
        inputs |-> FlattenSeq([i \in DOMAIN parts |->
                     SelectSeq(parts[i].inputs, LAMBDA v : v \notin produced(i))]),
        outputs |-> parts[Len(parts)].outputs]

\* createDummyRanks (outside src/): the ranks 0..n-1
CreateDummyRanks(n) == [i \in 1..n |-> i - 1]

\* partitionParams: replaceWithDistOp on dummy ranks under
\* force_dist_matmul, the graph as it is otherwise
PartitionParams(g, replNum) ==
    IF ForceDistMatmul THEN ReplaceWithDistOp(g, CreateDummyRanks(replNum))
    ELSE [graph |-> g, ranks |-> <<>>, paramPart |-> EmptyMap,
          distRanks |-> EmptyMap, rankValueNames |-> EmptyMap]

\* partitionParams of every composite for every replica count, computed
\* once: both are pure functions of their arguments
StepInfo == [c \in (SUBSET GM!Nodes \ {{}}) \X (1..MaxRepl) |->
               PartitionParams(MergedIR(c[1]), c[2])]

\* no step has run yet
NoInfo == [graph |-> [nodes |-> <<>>, values |-> EmptyMap, inputs |-> <<>>,
                      outputs |-> <<>>],
           ranks |-> <<>>, paramPart |-> EmptyMap, distRanks |-> EmptyMap,
           rankValueNames |-> EmptyMap]

Init ==
    /\ GM!Init
    /\ info = NoInfo
    /\ stageRanks = {}
    /\ sliced = {}

\* one step: merge_helper.merge(b_prev, b - 1), then partitionParams on
\* the composite with replNum replicas, deployed on replNum ranks
Step(from, to, replNum) ==
    /\ GM!Merge(from, to)
    /\ info' = StepInfo[<<lastRet', replNum>>]
    /\ stageRanks' \in {rs \in SUBSET Ranks : Cardinality(rs) = replNum}
    /\ sliced' = {}

\* the stage is deployed: every rank of it runs sliceParam on each
\* parameter the partition marks (sliceParam is a pure function of its
\* arguments, so the order in which the ranks do so does not matter)
Deploy ==
    /\ stageRanks # {}
    /\ sliced = {}
    /\ sliced' =
         {[rank |-> r, name |-> name,
           res |-> SliceParam(name, info.graph.values[name].dim, stageRanks,
                              r, info.paramPart)] :
            r \in stageRanks, name \in DOMAIN info.paramPart \cap Params}
    /\ UNCHANGED <<mergeVars, info, stageRanks>>

Next ==
    \/ \E k \in GM!Keys, n \in 1..MaxRepl : Step(k[1], k[2], n)
    \/ Deploy

Spec == Init /\ [][Next]_vars

-----------------------------------------------------------------------------
TypeOK ==
    /\ GM!TypeOK
    /\ info.graph \in [nodes : Seq([name : STRING, in : Seq(DOMAIN info.graph.values),
                                    out : Seq(DOMAIN info.graph.values)]),
                       values : [DOMAIN info.graph.values -> [kind : STRING, dim : Seq(Nat)]],
                       inputs : Seq(DOMAIN info.graph.values),
                       outputs : Seq(DOMAIN info.graph.values)]
    /\ stageRanks \subseteq Ranks
    /\ \A s \in sliced : s.rank \in stageRanks /\ s.name \in Params

\* The merge cache's composites hold exactly their key's nodes
CompositesExact == GM!CompositesExact

\* The merge cache builds every composite at most once
MergedOnce == GM!MergedOnce

(***************************************************************************)
(* replaceWithDistOp turns a well-formed step graph into a well-formed one:*)
(* the rank constants and rank lists it adds to every dist node are fresh  *)
(* values with one producer each, defined before the linear_dist node that *)
(* reads them, and typed in the new values, over every composite and       *)
(* replica count the DP asks for.                                          *)
(***************************************************************************)
RewriteWellFormed == WellFormed(info.graph)

=============================================================================
