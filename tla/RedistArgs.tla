----------------------------- MODULE RedistArgs -----------------------------
(***************************************************************************)
(* SComm::getRedistArgs with getRedistArgsSend and getRedistArgsRecv       *)
(* (src/src/comm/SComm.cpp): every rank of a route computes, on its own,   *)
(* the all-to-all-v arguments (sendcounts, sdispls, recvcounts, rdispls)   *)
(* that move a batch tensor from its distribution over the source ranks to *)
(* its distribution over the destination ranks; then NCCLWrapper::redist   *)
(* exchanges the pieces.                                                   *)
(*                                                                         *)
(* A distribution gives each rank a number of elements (productDim of the  *)
(* dims BatchSizeCalculator::calcDistBatchDims assigns it, outside src/):  *)
(* ranks hold consecutive ranges of the flattened tensor in ascending rank *)
(* order.  The exchange is the all-to-all-v semantics: the k-th element a  *)
(* receiver takes from a sender lands at rdispls + k and is the sender's   *)
(* element sdispls + k.                                                    *)
(***************************************************************************)
EXTENDS Integers, SequencesExt, Functions

CONSTANTS
    Ranks,        \* the MPI ranks that may take part in a route
    MaxRankSize   \* the largest number of elements a rank holds

ASSUME Ranks \subseteq Nat /\ MaxRankSize \in Nat

VARIABLES
    srcRanks,    \* route.sources
    destRanks,   \* route.dests
    srcSize,     \* productDim(src_dist.at(r)) for r \in srcRanks
    destSize,    \* productDim(dest_dist.at(r)) for r \in destRanks
    args,        \* args[r]: the RedistArgs rank r computed, NoArgs before
    exchanged,   \* whether redist has run
    recvBuf      \* recvBuf[r][i]: the global elements written to position i

vars == <<srcRanks, destRanks, srcSize, destSize, args, exchanged, recvBuf>>

NoArgs == [none |-> TRUE]

Group == srcRanks \cup destRanks

\* the ascending vectors vec_src_ranks and vec_dest_ranks
SortedRanks(S) == SetToSortSeq(S, <)

\* the first global element of rank r in a distribution over seq
RangeStart(seq, size, r) ==
    SumFunctionOnSet(size, {seq[j] : j \in {i \in 1..Len(seq) : seq[i] < r}})

\* mutant: every peer gets a count, also one whose range ends before pos
RECURSIVE ScanNoEndCheck(_, _, _, _, _, _, _, _, _)
ScanNoEndCheck(myFrom, myTo, peers, peerSize, k, off, peerFrom, cnt, dsp) ==
    IF k > Len(peers) THEN [counts |-> cnt, displs |-> dsp]
    ELSE
      LET pr == peers[k]
          pos == myFrom + off
          peerTo == peerFrom + peerSize[pr]
          c == IF myTo - pos <= peerTo - pos THEN myTo - pos ELSE peerTo - pos
      IN IF myFrom + off + c = myTo
         THEN [counts |-> (pr :> c) @@ cnt, displs |-> (pr :> off) @@ dsp]
         ELSE ScanNoEndCheck(myFrom, myTo, peers, peerSize, k + 1, off + c,
                             peerTo, (pr :> c) @@ cnt, (pr :> off) @@ dsp)

\* mutant: the count taken is the rest of the own range, without the min
RECURSIVE ScanNoMin(_, _, _, _, _, _, _, _, _)
ScanNoMin(myFrom, myTo, peers, peerSize, k, off, peerFrom, cnt, dsp) ==
    IF k > Len(peers) THEN [counts |-> cnt, displs |-> dsp]
    ELSE
      LET pr == peers[k]
          pos == myFrom + off
          peerTo == peerFrom + peerSize[pr]
          take == pos <= peerTo
          c == myTo - pos
          cnt2 == IF take THEN (pr :> c) @@ cnt ELSE cnt
          dsp2 == IF take THEN (pr :> off) @@ dsp ELSE dsp
          off2 == IF take THEN off + c ELSE off
      IN IF myFrom + off2 = myTo THEN [counts |-> cnt2, displs |-> dsp2]
         ELSE ScanNoMin(myFrom, myTo, peers, peerSize, k + 1, off2, peerTo,
                        cnt2, dsp2)

(***************************************************************************)
(* The inner loop of getRedistArgsSend (over dest ranks) and of            *)
(* getRedistArgsRecv (over src ranks): the rank's own range is             *)
(* [myFrom, myTo); the peers' ranges are laid out in peer order from 0.    *)
(* A peer whose range ends at or after the current position gets           *)
(* min(myTo - pos, peerTo - pos) elements at the current offset; the loop  *)
(* stops when the whole own range is assigned.  Returns the count and      *)
(* displacement of every peer it wrote.                                    *)
(***************************************************************************)
RECURSIVE Scan(_, _, _, _, _, _, _, _, _)
Scan(myFrom, myTo, peers, peerSize, k, off, peerFrom, cnt, dsp) ==
    IF k > Len(peers) THEN [counts |-> cnt, displs |-> dsp]
    ELSE
      LET pr == peers[k]
          pos == myFrom + off
          peerTo == peerFrom + peerSize[pr]
          take == pos <= peerTo
          c == IF myTo - pos <= peerTo - pos THEN myTo - pos ELSE peerTo - pos
          cnt2 == IF take THEN (pr :> c) @@ cnt ELSE cnt
          dsp2 == IF take THEN (pr :> off) @@ dsp ELSE dsp
          off2 == IF take THEN off + c ELSE off
      IN IF myFrom + off2 = myTo THEN [counts |-> cnt2, displs |-> dsp2]
         ELSE Scan(myFrom, myTo, peers, peerSize, k + 1, off2, peerTo,
                   cnt2, dsp2)

\* the value an unordered_map gives a rank it never stored (0)
Lookup(f, r) == IF r \in DOMAIN f THEN f[r] ELSE 0

ZeroArgs == [r \in Group |-> 0]

\* getRedistArgsSend: counts and displacements towards every group rank
RedistArgsSend(me) ==
    LET from == RangeStart(SortedRanks(srcRanks), srcSize, me)
        sc == Scan(from, from + srcSize[me], SortedRanks(destRanks), destSize,
                   1, 0, 0, <<>>, <<>>)
    IN [sendcounts |-> [r \in Group |-> Lookup(sc.counts, r)],
        sdispls    |-> [r \in Group |-> Lookup(sc.displs, r)],
        recvcounts |-> ZeroArgs, rdispls |-> ZeroArgs]

\* getRedistArgsRecv: counts and displacements from every group rank
RedistArgsRecv(me) ==
    LET from == RangeStart(SortedRanks(destRanks), destSize, me)
        sc == Scan(from, from + destSize[me], SortedRanks(srcRanks), srcSize,
                   1, 0, 0, <<>>, <<>>)
    IN [sendcounts |-> ZeroArgs, sdispls |-> ZeroArgs,
        recvcounts |-> [r \in Group |-> Lookup(sc.counts, r)],
        rdispls    |-> [r \in Group |-> Lookup(sc.displs, r)]]

\* mutant: a source rank returns its send part even when it also receives
GetRedistArgsSendFirst(me) ==
    IF me \in srcRanks THEN RedistArgsSend(me) ELSE RedistArgsRecv(me)

\* getRedistArgs: the send part of a source rank, the receive part of a
\* destination rank, both parts of a rank that is both
GetRedistArgs(me) ==
    CASE me \in srcRanks /\ me \notin destRanks -> RedistArgsSend(me)
      [] me \notin srcRanks /\ me \in destRanks -> RedistArgsRecv(me)
      [] OTHER -> [RedistArgsRecv(me) EXCEPT
                     !.sendcounts = RedistArgsSend(me).sendcounts,
                     !.sdispls = RedistArgsSend(me).sdispls]

Init ==
    /\ srcRanks \in SUBSET Ranks \ {{}}
    /\ destRanks \in SUBSET Ranks \ {{}}
    /\ srcSize \in [srcRanks -> 0..MaxRankSize]
    /\ destSize \in [destRanks -> 0..MaxRankSize]
    \* both distribute the same tensor
    /\ SumFunction(srcSize) = SumFunction(destSize)
    /\ args = [r \in Ranks |-> NoArgs]
    /\ exchanged = FALSE
    /\ recvBuf = [r \in destRanks |-> <<>>]

\* rank me of the route calls getRedistArgs
ComputeArgs(me) ==
    /\ me \in Group
    /\ args[me] = NoArgs
    /\ args' = [args EXCEPT ![me] = GetRedistArgs(me)]
    /\ UNCHANGED <<srcRanks, destRanks, srcSize, destSize, exchanged, recvBuf>>

\* NCCLWrapper::redist, once every rank of the group has its arguments:
\* destination position i of rank r receives, from each source s whose
\* piece covers it, the element sdispls + (i - rdispls) of s
Exchange ==
    /\ \A r \in Group : args[r] # NoArgs
    /\ ~exchanged
    /\ exchanged' = TRUE
    /\ recvBuf' =
         [r \in destRanks |->
           [i \in 0..(destSize[r] - 1) |->
             {RangeStart(SortedRanks(srcRanks), srcSize, s)
                + args[s].sdispls[r] + (i - args[r].rdispls[s]) :
                s \in {x \in srcRanks :
                         /\ args[r].rdispls[x] <= i
                         /\ i < args[r].rdispls[x] + args[r].recvcounts[x]}}]]
    /\ UNCHANGED <<srcRanks, destRanks, srcSize, destSize, args>>

Next == (\E me \in Ranks : ComputeArgs(me)) \/ Exchange

Spec == Init /\ [][Next]_vars /\ WF_vars(Next)
-----------------------------------------------------------------------------
Total == SumFunction(srcSize)

TypeOK ==
    /\ srcRanks \subseteq Ranks /\ destRanks \subseteq Ranks
    /\ \A r \in Ranks :
         args[r] = NoArgs \/
         args[r] \in [sendcounts : [Group -> 0..Total],
                      sdispls : [Group -> 0..Total],
                      recvcounts : [Group -> 0..Total],
                      rdispls : [Group -> 0..Total]]
    /\ exchanged \in BOOLEAN /\ DOMAIN recvBuf = destRanks

\* where rank r's range starts, stated directly from the distribution
SrcFirst(r) == SumFunctionOnSet(srcSize, {x \in srcRanks : x < r})
DestFirst(r) == SumFunctionOnSet(destSize, {x \in destRanks : x < r})

(***************************************************************************)
(* Each rank computes its arguments alone, from its own position in the    *)
(* rank vectors (getRedistArgsSend on a source, getRedistArgsRecv on a     *)
(* destination): for every pair, the count the source sends to the        *)
(* destination equals the count the destination expects from the source,  *)
(* and both are the size of the overlap of their two ranges.  A mismatch   *)
(* would hang or corrupt the NCCL send/recv pairs of redist.               *)
(***************************************************************************)
CountsMatch ==
    \A src \in srcRanks, dst \in destRanks :
        args[src] # NoArgs /\ args[dst] # NoArgs =>
            LET lo == IF SrcFirst(src) >= DestFirst(dst)
                      THEN SrcFirst(src) ELSE DestFirst(dst)
                hiS == SrcFirst(src) + srcSize[src]
                hiD == DestFirst(dst) + destSize[dst]
                hi == IF hiS <= hiD THEN hiS ELSE hiD
            IN /\ args[src].sendcounts[dst] = args[dst].recvcounts[src]
               /\ args[src].sendcounts[dst] = IF hi > lo THEN hi - lo ELSE 0

(***************************************************************************)
(* After redist, with the displacements of both sides, every position i of *)
(* every destination rank holds exactly one element, and it is the         *)
(* element of the global tensor that the destination distribution assigns *)
(* to that position: nothing is lost, duplicated or shifted.               *)
(***************************************************************************)
Delivered ==
    exchanged =>
        \A dst \in destRanks : \A i \in 0..(destSize[dst] - 1) :
            recvBuf[dst][i] = {DestFirst(dst) + i}
=============================================================================
