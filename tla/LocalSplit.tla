----------------------------- MODULE LocalSplit -----------------------------
(***************************************************************************)
(* The local split helpers of SComm (src/src/comm/SComm.cpp):             *)
(* getFirstLocalSplitIndex, getNextLocalSplitIndex, getPrevLocalSplitIndex *)
(* and isLastLocalSplit.  Each scans the micro-batches (splits)            *)
(* 0..pipeline_num_-1 for those in which this rank has local data          *)
(* (bs_calc_.getLocalSplitBatchSize(ranks, my_rank, i) > 0; the batch-size *)
(* calculator is outside src/, so the local sizes are an input).           *)
(*                                                                         *)
(* The model is the walk a pipelined rank makes with them: forward from    *)
(* the first split with data through getNextLocalSplitIndex, asking        *)
(* isLastLocalSplit at each split, then backward from the last through     *)
(* getPrevLocalSplitIndex.  `assert` aborts in a debug build and is        *)
(* compiled out otherwise; the build is chosen in Init.                    *)
(***************************************************************************)
EXTENDS Integers, Sequences, FiniteSets

CONSTANTS
    PipelineNum,   \* pipeline_num_
    MaxLocalBs     \* the largest local split batch size enumerated

ASSUME PipelineNum \in Nat \ {0} /\ MaxLocalBs \in Nat \ {0}

Splits == 0..(PipelineNum - 1)

VARIABLES
    localBs,     \* localBs[i]: getLocalSplitBatchSize(ranks, my_rank, i)
    debugBuild,  \* whether assert is compiled in
    pc,          \* "first", "fwd", "bwd", "done", "noData", "assertFailed"
    cur,         \* the split the walk is at
    fwdVisited,  \* the splits the forward walk visited, in order
    lastFlags,   \* isLastLocalSplit at each split of fwdVisited
    bwdVisited   \* the splits the backward walk visited, in order

vars == <<localBs, debugBuild, pc, cur, fwdVisited, lastFlags, bwdVisited>>

HasData(i) == localBs[i] > 0

\* getFirstLocalSplitIndex: the first split with data, -1 for the throw
GetFirstLocalSplitIndex ==
    IF \E i \in Splits : HasData(i)
    THEN CHOOSE i \in Splits : HasData(i) /\ \A j \in 0..(i - 1) : ~HasData(j)
    ELSE -1

\* mutant: "no next split" reported as pipeline_num_ instead of -1
GetNextLocalSplitIndexPastEnd(split) ==
    LET later == {i \in (split + 1)..(PipelineNum - 1) : HasData(i)}
    IN IF later = {} THEN PipelineNum
       ELSE CHOOSE i \in later : \A j \in later : i <= j

\* mutant: a split with zero local batch size counted as having data
GetNextLocalSplitIndexWithEmpty(split) ==
    LET later == {i \in (split + 1)..(PipelineNum - 1) : localBs[i] >= 0}
    IN IF later = {} THEN -1
       ELSE CHOOSE i \in later : \A j \in later : i <= j

\* getNextLocalSplitIndex: for i from split+1 up while i < pipeline_num_
GetNextLocalSplitIndex(split) ==
    LET later == {i \in (split + 1)..(PipelineNum - 1) : HasData(i)}
    IN IF later = {} THEN -1
       ELSE CHOOSE i \in later : \A j \in later : i <= j

\* getPrevLocalSplitIndex: for i from split-1 down while i > 0
GetPrevLocalSplitIndex(split) ==
    LET earlier == {i \in 1..(split - 1) : HasData(i)}
    IN IF earlier = {} THEN -1
       ELSE CHOOSE i \in earlier : \A j \in earlier : i >= j

\* isLastLocalSplit: last_index, the last split with data (-1 if none)
LastIndex ==
    IF \E i \in Splits : HasData(i)
    THEN CHOOSE i \in Splits : HasData(i) /\ \A j \in Splits : j > i => ~HasData(j)
    ELSE -1

\* assert(last_index > 0)
LastIndexAssertFails == debugBuild /\ ~(LastIndex > 0)

Init ==
    /\ localBs \in [Splits -> 0..MaxLocalBs]
    /\ debugBuild \in BOOLEAN
    /\ pc = "first"
    /\ cur = -1
    /\ fwdVisited = <<>> /\ lastFlags = <<>> /\ bwdVisited = <<>>

\* the walk starts at getFirstLocalSplitIndex, which throws without data
First ==
    /\ pc = "first"
    /\ pc' = IF GetFirstLocalSplitIndex = -1 THEN "noData" ELSE "fwd"
    /\ cur' = GetFirstLocalSplitIndex
    /\ UNCHANGED <<localBs, debugBuild, fwdVisited, lastFlags, bwdVisited>>

\* at split cur: isLastLocalSplit(cur), then getNextLocalSplitIndex(cur);
\* past the last split the backward walk starts where this one ended
ForwardStep ==
    /\ pc = "fwd"
    /\ IF LastIndexAssertFails
       THEN /\ pc' = "assertFailed"
            /\ UNCHANGED <<cur, fwdVisited, lastFlags>>
       ELSE /\ fwdVisited' = Append(fwdVisited, cur)
            /\ lastFlags' = Append(lastFlags, LastIndex = cur)
            /\ LET nxt == GetNextLocalSplitIndex(cur)
               IN IF nxt = -1 THEN /\ pc' = "bwd" /\ UNCHANGED cur
                  ELSE /\ cur' = nxt /\ UNCHANGED pc
    /\ UNCHANGED <<localBs, debugBuild, bwdVisited>>

\* at split cur: getPrevLocalSplitIndex(cur) until it answers -1
BackwardStep ==
    /\ pc = "bwd"
    /\ bwdVisited' = Append(bwdVisited, cur)
    /\ LET prv == GetPrevLocalSplitIndex(cur)
       IN IF prv = -1 THEN /\ pc' = "done" /\ UNCHANGED cur
          ELSE /\ cur' = prv /\ UNCHANGED pc
    /\ UNCHANGED <<localBs, debugBuild, fwdVisited, lastFlags>>

Next == First \/ ForwardStep \/ BackwardStep

Spec == Init /\ [][Next]_vars /\ WF_vars(Next)

-----------------------------------------------------------------------------
TypeOK ==
    /\ localBs \in [Splits -> 0..MaxLocalBs]
    /\ pc \in {"first", "fwd", "bwd", "done", "noData", "assertFailed"}
    /\ cur \in -1..(PipelineNum - 1)
    /\ fwdVisited \in Seq(Splits) /\ bwdVisited \in Seq(Splits)
    /\ lastFlags \in Seq(BOOLEAN)

\* the splits with local data, ascending: the reference for the walks
DataSplits ==
    LET S == {i \in Splits : localBs[i] > 0}
        Ith[k \in 0..Cardinality(S)] ==
            IF k = 0 THEN <<>>
            ELSE LET prev == Ith[k - 1]
                     rest == {i \in S : \A j \in 1..Len(prev) : i > prev[j]}
                 IN Append(prev, CHOOSE i \in rest : \A j \in rest : i <= j)
    IN Ith[Cardinality(S)]

Reversed(sq) == [i \in 1..Len(sq) |-> sq[Len(sq) - i + 1]]

(***************************************************************************)
(* The forward walk (getFirstLocalSplitIndex, then getNextLocalSplitIndex  *)
(* until -1) visits exactly the splits with local data, in order, and      *)
(* isLastLocalSplit answers TRUE at the last of them and only there.       *)
(***************************************************************************)
ForwardWalkExact ==
    pc \in {"bwd", "done"} =>
        /\ fwdVisited = DataSplits
        /\ \A k \in 1..Len(lastFlags) : lastFlags[k] <=> k = Len(fwdVisited)

(***************************************************************************)
(* The backward walk (getPrevLocalSplitIndex from the last split with data *)
(* until -1) visits the same splits as the forward walk, in reverse: the   *)
(* contract getNextLocalSplitIndex keeps in the other direction.           *)
(***************************************************************************)
BackwardWalkExact ==
    pc = "done" => bwdVisited = Reversed(fwdVisited)

(***************************************************************************)
(* isLastLocalSplit's assert(last_index > 0) holds whenever the rank has   *)
(* local data, so a debug build does not abort a legal walk.               *)
(***************************************************************************)
LastSplitAssertHolds == pc # "assertFailed"
=============================================================================
