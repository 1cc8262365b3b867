--------------------------- MODULE PartitionTensor ---------------------------
(***************************************************************************)
(* Operator partitioning of parameters (src/src/distop/PartitionTensor.cpp)*)
(* as pure operators over an IR graph.                                     *)
(*                                                                         *)
(* An IR graph is a record: its nodes in order (op name, input and output  *)
(* value names), the values it knows (name -> type), and its input and     *)
(* output names.  A type is [kind, dim]: a tensor with its dims, or the    *)
(* INT scalar and INT list types of the rank constants.  Value names are   *)
(* pairs <<tag, index>>: the graph's own names are model-level pairs, and  *)
(* the names replaceWithDistOp makes are <<"_ex_rank_", k>> and            *)
(* <<"_ex_rank_list_", k>>, the string it streams together.  Argument and  *)
(* dim indices are the code's 0-based ones; sequences are indexed +1.      *)
(***************************************************************************)
EXTENDS Integers, FiniteSets, SequencesExt, Functions

Tensor(dims) == [kind |-> "tensor", dim |-> dims]
IntType == [kind |-> "int", dim |-> <<>>]
IntListType == [kind |-> "intlist", dim |-> <<>>]

ExRank(k) == <<"_ex_rank_", k>>
ExRankList(k) == <<"_ex_rank_list_", k>>

EmptyMap == [v \in {} |-> 0]

\* dist_ops: aten::linear becomes rannc::linear_dist, its weight (arg 1)
\* partitioned along dim 1
DistOps == << [original |-> "aten::linear", dist |-> "rannc::linear_dist",
               partitionDim |-> << <<1, 1>> >>] >>

\* getDistOpNameMap: original op name -> dist op name
GetDistOpNameMap == [o \in {op.original : op \in ToSet(DistOps)} |->
                       (CHOOSE op \in ToSet(DistOps) : op.original = o).dist]

\* the dist_ops entry a node of getDistParams' loop is, by its name
DistOpsOfNode(name) == {op \in ToSet(DistOps) : op.dist = name}

\* the entries one node adds to getDistParams' map: input -> (arg, dim)
DistEntries(n) ==
    LET parts == UNION {ToSet(op.partitionDim) : op \in DistOpsOfNode(n.name)}
    IN [v \in {n.in[pd[1] + 1] : pd \in parts} |->
          CHOOSE pd \in parts : n.in[pd[1] + 1] = v]

\* getDistParams: for every dist node, its partitioned input -> (arg, dim);
\* a later node overwrites an earlier entry
GetDistParams(g) == FoldLeft(LAMBDA ret, n : DistEntries(n) @@ ret,
                             EmptyMap, g.nodes)

\* isInputDivisible: every partitioned dim of the node's inputs divides
IsInputDivisible(node, op, values, divNum) ==
    \A pd \in ToSet(op.partitionDim) :
        values[node.in[pd[1] + 1]].dim[pd[2] + 1] % divNum = 0

\* isDistOpAvailable: the node is an original op of dist_ops and divisible
IsDistOpAvailable(node, values, divNum) ==
    \E op \in ToSet(DistOps) :
        /\ op.original = node.name
        /\ IsInputDivisible(node, op, values, divNum)

\* the output values of node n copied from the original graph's values
OutValues(n, vals) == [v \in ToSet(n.out) |-> vals[v]]

(***************************************************************************)
(* One dist node of replaceWithDistOp's loop: a prim::Constant per rank    *)
(* named _ex_rank_<ex_rank_arg_idx++>, a prim::ListConstruct of them named *)
(* _ex_rank_list_<ex_rank_list_arg_idx++>, then the node renamed with the  *)
(* list appended to its inputs; rank_value_names is keyed by the new       *)
(* node's position.  The accumulator holds new_nodes, new_values,          *)
(* dist_ranks, rank_value_names and the two counters.                      *)
(***************************************************************************)
\* mutant: ex_rank_arg_idx restarts at 0 for every node
RankNamesFromZero(acc, ranks) == [j \in 1..Len(ranks) |-> ExRank(j - 1)]

\* the names _ex_rank_<ex_rank_arg_idx++> of one node's rank constants
RankNames(acc, ranks) == [j \in 1..Len(ranks) |-> ExRank(acc.arg + j - 1)]

ReplaceNode(acc, n, vals, ranks) ==
    LET names == RankNames(acc, ranks)
        consts == [j \in 1..Len(ranks) |->
                     [name |-> "prim::Constant", in |-> <<>>, out |-> <<names[j]>>]]
        lst == ExRankList(acc.list)
        newNode == [name |-> GetDistOpNameMap[n.name],
                    in |-> Append(n.in, lst), out |-> n.out]
        nodes == acc.nodes \o consts
                 \o << [name |-> "prim::ListConstruct", in |-> names, out |-> <<lst>>],
                      newNode >>
    IN [nodes |-> nodes,
        values |-> OutValues(n, vals) @@ (lst :> IntListType)
                   @@ [v \in ToSet(names) |-> IntType] @@ acc.values,
        distRanks |-> [v \in ToSet(names) |->
                         ranks[CHOOSE j \in 1..Len(ranks) : names[j] = v]]
                      @@ acc.distRanks,
        rankValueNames |-> (Len(nodes) :> names) @@ acc.rankValueNames,
        arg |-> acc.arg + Len(ranks), list |-> acc.list + 1]

\* mutant: the outputs' values copied only for replaced nodes
CopyNodeNoValues(acc, n, vals) ==
    [acc EXCEPT !.nodes = Append(@, [name |-> n.name, in |-> n.in, out |-> n.out])]

\* the else branch: the node copied, its outputs' values copied
CopyNode(acc, n, vals) ==
    [acc EXCEPT !.nodes = Append(@, [name |-> n.name, in |-> n.in, out |-> n.out]),
                !.values = OutValues(n, vals) @@ @]

\* replaceWithDistOp(g, ranks): the rewritten graph, ranks, the param
\* partition of the rewritten graph, dist_ranks and rank_value_names
ReplaceWithDistOp(g, ranks) ==
    LET init == [nodes |-> <<>>,
                 values |-> [v \in ToSet(g.inputs) |-> g.values[v]],
                 distRanks |-> EmptyMap, rankValueNames |-> EmptyMap,
                 arg |-> 0, list |-> 0]
        step(acc, n) == IF IsDistOpAvailable(n, g.values, Len(ranks))
                        THEN ReplaceNode(acc, n, g.values, ranks)
                        ELSE CopyNode(acc, n, g.values)
        acc == FoldLeft(step, init, g.nodes)
        rg == [nodes |-> acc.nodes, values |-> acc.values,
               inputs |-> g.inputs, outputs |-> g.outputs]
    IN [graph |-> rg, ranks |-> ranks, paramPart |-> GetDistParams(rg),
        distRanks |-> acc.distRanks, rankValueNames |-> acc.rankValueNames]

\* getLocalRank (outside src/): the position of my_rank among the ranks
GetLocalRank(ranks, myRank) == Cardinality({r \in ranks : r < myRank})

\* sliceParam: the range [lo, hi) of the partitioned dim rank myRank keeps,
\* or the runtime_error thrown when the dim does not divide
SliceParam(name, dims, ranks, myRank, paramPartitions) ==
    LET dimIdx == paramPartitions[name][2]
        size == dims[dimIdx + 1]
        segment == size \div Cardinality(ranks)
        local == GetLocalRank(ranks, myRank)
    IN IF size % Cardinality(ranks) # 0
       THEN [thrown |-> TRUE, dim |-> dimIdx, lo |-> 0, hi |-> 0]
       ELSE [thrown |-> FALSE, dim |-> dimIdx,
             lo |-> segment * local, hi |-> segment * (local + 1)]

(***************************************************************************)
(* A graph is well formed when every value has at most one definition (a   *)
(* graph input or one producing node), every node input is defined        *)
(* before the node, and every value a node names has a type.               *)
(***************************************************************************)
Producers(g, v) == {i \in DOMAIN g.nodes : v \in ToSet(g.nodes[i].out)}

ValueNames(g) == ToSet(g.inputs) \cup
                 UNION {ToSet(g.nodes[i].in) \cup ToSet(g.nodes[i].out) :
                          i \in DOMAIN g.nodes}

WellFormed(g) ==
    /\ \A v \in ValueNames(g) :
          /\ v \in DOMAIN g.values
          /\ Cardinality(Producers(g, v))
               + (IF v \in ToSet(g.inputs) THEN 1 ELSE 0) <= 1
    /\ \A i \in DOMAIN g.nodes : \A v \in ToSet(g.nodes[i].in) :
          v \in ToSet(g.inputs) \/ \E j \in 1..(i - 1) : j \in Producers(g, v)
=============================================================================
