----------------------------- MODULE GraphMerge -----------------------------
(***************************************************************************)
(* GraphMergeHelper (src/src/graph/DPStaging.cpp): the cache of composite  *)
(* subgraphs merge(from, to) of the node range from..to.  The constructor  *)
(* caches every single node; merge() answers from the cache, or walks the  *)
(* cached prefixes (from, from+1), (from, from+2), ... to the longest one  *)
(* and merges the remaining nodes onto it one at a time, caching each      *)
(* prefix it builds.                                                       *)
(*                                                                         *)
(* A composite is abstracted to the set of node indices it holds:          *)
(* ::rannc::merge(base, tgt, ...) (outside src/) combines a composite with *)
(* the next node.  The caller may ask for any valid range in any order;    *)
(* doRunDpComm asks for (b_prev, b-1) and the trace-back for the stages.   *)
(***************************************************************************)
EXTENDS Integers, FiniteSets

CONSTANTS
    NodeNum,    \* graph_.nodes.size()
    MaxCalls    \* the number of merge() calls explored

ASSUME NodeNum \in Nat \ {0} /\ MaxCalls \in Nat

Nodes == 0..(NodeNum - 1)

\* GraphMergeKey: the inclusive ranges from <= to < nodes.size()
Keys == {k \in Nodes \X Nodes : k[1] <= k[2]}

None == {}    \* no cache entry (every composite holds a node)

VARIABLES
    cache,      \* graph_merge_cache_[k]: the composite cached under k
    computed,   \* computed[k]: how many times ::rannc::merge built k
    calls,      \* the merge() calls made so far
    lastKey,    \* the key of the last call
    lastRet     \* the composite it returned

vars == <<cache, computed, calls, lastKey, lastRet>>

\* a node of the graph as its own composite (node_map_ entry)
NodeEntry(i) == {i}

\* mutant: the node after tgt merged (nodes.at(i + 1))
MergeWithNext(base, i) == base \cup {i + 1}

\* ::rannc::merge(*base, tgt, ...): the composite of base and node i
MergeWith(base, i) == base \cup {i}

\* the walk `while (contains(graph_merge_cache_, (from, avail_to)))`
RECURSIVE AvailTo(_, _)
AvailTo(from, k) ==
    IF k < NodeNum /\ cache[<<from, k>>] # None THEN AvailTo(from, k + 1)
    ELSE k

\* the base the walk ends with: the node `from` itself, or the longest
\* cached prefix
WalkBase(from, avail) ==
    IF avail = from + 1 THEN NodeEntry(from) ELSE cache[<<from, avail - 1>>]

(***************************************************************************)
(* The loop `for (i = avail_to; i <= to; i++)`: merge node i onto base,    *)
(* cache it under (from, i), continue from it.  Returns the new cache, the *)
(* new build counts and the final base.                                    *)
(***************************************************************************)
RECURSIVE Extend(_, _, _, _, _, _)
Extend(c, n, from, i, to, base) ==
    IF i > to THEN [cache |-> c, computed |-> n, base |-> base]
    ELSE LET m == MergeWith(base, i)
         IN Extend([c EXCEPT ![<<from, i>>] = m],
                   [n EXCEPT ![<<from, i>>] = @ + 1], from, i + 1, to, m)

\* mutant: no walk over the cache; every call merges from the first node
MergeResultNoWalk(from, to) ==
    IF cache[<<from, to>>] # None
    THEN [cache |-> cache, computed |-> computed, base |-> cache[<<from, to>>]]
    ELSE LET ext == Extend(cache, computed, from, from + 1, to, NodeEntry(from))
         IN [ext EXCEPT !.cache = [@ EXCEPT ![<<from, to>>] = ext.base]]

\* mutant: the merge loop starts one node after avail_to
MergeResultSkipFirst(from, to) ==
    IF cache[<<from, to>>] # None
    THEN [cache |-> cache, computed |-> computed, base |-> cache[<<from, to>>]]
    ELSE LET avail == AvailTo(from, from + 1)
             ext == Extend(cache, computed, from, avail + 1, to,
                           WalkBase(from, avail))
         IN [ext EXCEPT !.cache = [@ EXCEPT ![<<from, to>>] = ext.base]]

\* one call of merge(from, to): its return value and the cache after it
MergeResult(from, to) ==
    IF cache[<<from, to>>] # None
    THEN [cache |-> cache, computed |-> computed, base |-> cache[<<from, to>>]]
    ELSE LET avail == AvailTo(from, from + 1)
             ext == Extend(cache, computed, from, avail, to,
                           WalkBase(from, avail))
         IN [ext EXCEPT !.cache = [@ EXCEPT ![<<from, to>>] = ext.base]]

\* the constructor: every node cached under (i, i)
Init ==
    /\ cache = [k \in Keys |-> IF k[1] = k[2] THEN NodeEntry(k[1]) ELSE None]
    /\ computed = [k \in Keys |-> 0]
    /\ calls = 0
    /\ lastKey = <<0, 0>>
    /\ lastRet = NodeEntry(0)

Merge(from, to) ==
    /\ calls < MaxCalls
    /\ LET r == MergeResult(from, to)
       IN /\ cache' = r.cache
          /\ computed' = r.computed
          /\ lastRet' = r.base
    /\ lastKey' = <<from, to>>
    /\ calls' = calls + 1

Next == \E k \in Keys : Merge(k[1], k[2])

Spec == Init /\ [][Next]_vars

-----------------------------------------------------------------------------
TypeOK ==
    /\ cache \in [Keys -> SUBSET Nodes]
    /\ computed \in [Keys -> 0..MaxCalls * NodeNum]
    /\ calls \in 0..MaxCalls
    /\ lastKey \in Keys /\ lastRet \in SUBSET Nodes

(***************************************************************************)
(* Every composite in the cache, whichever calls built it and from which   *)
(* cached prefix, holds exactly the nodes of its key's range, and so does  *)
(* the composite the last merge() call returned.                           *)
(***************************************************************************)
CompositesExact ==
    /\ \A k \in Keys : cache[k] # None => cache[k] = k[1]..k[2]
    /\ lastRet = lastKey[1]..lastKey[2]

(***************************************************************************)
(* Spec 4.1: the cache builds each composite at most once, whatever the    *)
(* order of the calls; a range whose prefix is cached is extended from it  *)
(* rather than rebuilt.                                                    *)
(***************************************************************************)
MergedOnce == \A k \in Keys : computed[k] <= 1
=============================================================================
