----------------------------- MODULE AIWCReport -----------------------------
(***************************************************************************)
(* The statistics WorkloadCharacterisation::kernelEnd derives from the     *)
(* kernel aggregate (src/src/clc.h, 782-1160), as pure operators.  Only    *)
(* integer and rational metrics are exact.  A metric that takes log2 is   *)
(* kept as the multiset of terms it sums: an entropy -sum p log2 p over   *)
(* probabilities c / M is determined by M and the bag of counts c, and a  *)
(* Yokota entropy by how many patterns have each taken-count.  The SIMD   *)
(* stdev is kept as the variance it takes the square root of.  Formatting *)
(* (float casts, precision, locale) is left out.                           *)
(*                                                                         *)
(* Histograms (the code's unordered_maps) are bags: functions from keys to *)
(* positive counts.  A ratio printed as a double is a record [num, den];  *)
(* den = 0 is the NaN the code produces for 0.0 / 0.                       *)
(***************************************************************************)
EXTENDS Naturals, Sequences, FiniteSets, SequencesExt, Folds, Bags, TLC

CONSTANT UnsignedLimit   \* 2^32: the range of the code's `unsigned`

ASSUME UnsignedLimit \in Nat \ {0}

\* const unsigned m = 16: the branch-history window of the branch entropy.
HistoryLength == 16

Ratio(n, d) == [num |-> n, den |-> d]
NaN == Ratio(0, 0)

SeqSum(s) == FoldLeft(LAMBDA acc, x : acc + x, 0, s)

\* (unsigned)ceil(n * 0.9); the double product rounds to the exact
\* ceiling for every count a kernel can reach before the cast wraps.
NinetyPercentOf(n) == ((9 * n + 9) \div 10) % UnsignedLimit

\* The counts of a histogram, in some order of its keys.
CountsOf(B) ==
  MapThenFoldSet(LAMBDA c, acc : Append(acc, c), <<>>, LAMBDA k : B[k],
                 LAMBDA S : CHOOSE k \in S : TRUE, DOMAIN B)

\* Bug variant: the comparator of partial_sort_copy reversed.
AscendingCounts(B) == SortSeq(CountsOf(B), LAMBDA a, b : a < b)

\* partial_sort_copy into a vector as long as the map, by descending count:
\* the counts, most frequent first.
DescendingCounts(B) == SortSeq(CountsOf(B), LAMBDA a, b : a > b)

\* while (count < significant) { count += sorted[k].second; k++; }
RECURSIVE CoverPrefix(_, _, _, _)
CoverPrefix(sorted, significant, count, k) ==
  IF count < significant
  THEN CoverPrefix(sorted, significant, count + sorted[k + 1], k + 1)
  ELSE k

\* The number of most frequent keys that cover 90% of the total.
PrefixFor90Pct(sorted) == CoverPrefix(sorted, NinetyPercentOf(SeqSum(sorted)), 0, 0)

\* Bug variant: the median taken without sorting.
MedianOfUnsorted(s) ==
  LET n == Len(s)
  IN  IF n % 2 = 0 THEN (s[n \div 2] + s[n \div 2 + 1]) \div 2 ELSE s[n \div 2 + 1]

\* Sort ascending, then the middle element, or the integer mean of the two
\* middle ones (unsigned arithmetic) for an even length.
MedianOf(s) ==
  LET a == SortSeq(s, <)  n == Len(s)
  IN  IF n % 2 = 0 THEN (a[n \div 2] + a[n \div 2 + 1]) \div 2
                   ELSE a[n \div 2 + 1]

\* std::accumulate(...) / size(): the mean reorder distance.
FreedomToReorder(s) ==
  IF s = <<>> THEN NaN ELSE Ratio(SeqSum(s), Len(s))

\* local_address_count[nskip]: accesses per address with nskip LSBs dropped.
AddressHistogram(ops, nskip) ==
  LET Shift(i) == ops[i] \div (2 ^ nskip)
  IN  [a \in {Shift(i) : i \in DOMAIN ops} |->
         Cardinality({i \in DOMAIN ops : Shift(i) = a})]

\* The branch-history windows of one line: (length - m + 1) windows of m.
Windows(h) ==
  [i \in 1 .. (Len(h) - (HistoryLength - 1)) |-> SubSeq(h, i, i + HistoryLength - 1)]

TakenIn(w) == Cardinality({j \in DOMAIN w : w[j]})

\* H: the history patterns of one line (strings of '1'/'0' in the code),
\* each with its number of occurrences.
PatternBag(h) ==
  LET ws == Windows(h)
  IN  [pat \in {ws[i] : i \in DOMAIN ws} |-> Cardinality({i \in DOMAIN ws : ws[i] = pat})]

\* linear_branch_entropy * m for a window: 2 * min(p, 1 - p) with p = t/m.
LinearTerm(w) ==
  LET t == TakenIn(w) IN 2 * (IF t < HistoryLength - t THEN t ELSE HistoryLength - t)

\* The lines with at least m outcomes; shorter ones are skipped.
LongLines(branchOps) == {l \in DOMAIN branchOps : Len(branchOps[l]) >= HistoryLength}

\* H of every long line.
PatternBags(branchOps) == [l \in LongLines(branchOps) |-> PatternBag(branchOps[l])]

\* for (auto const &h : H): every <<line, pattern>> the loops visit.
LinePatterns(Hs) == UNION {{<<l, pat>> : pat \in DOMAIN Hs[l]} : l \in DOMAIN Hs}

\* average_entropy: sum of occurrences * linear entropy over all patterns,
\* divided by N, the number of windows; NaN (no window) is coerced to 0.
LinearBranchEntropy(branchOps) ==
  LET Hs == PatternBags(branchOps)
      Occ(lp) == Hs[lp[1]][lp[2]]
      num == MapThenSumSet(LAMBDA lp : Occ(lp) * LinearTerm(lp[2]), LinePatterns(Hs))
      N == MapThenSumSet(Occ, LinePatterns(Hs))
  IN  IF N = 0 THEN Ratio(0, 1) ELSE Ratio(num, HistoryLength * N)

\* yokota_entropy and yokota_entropy_per_workload as the coefficient of
\* -p log2 p for each p = t/m: occurrences, respectively distinct patterns,
\* with t taken outcomes.  p = 0 is skipped by the code; p = 1 adds 0.
YokotaEntropy(branchOps, perWorkload) ==
  LET Hs == PatternBags(branchOps)
      Weight(lp) == IF perWorkload THEN 1 ELSE Hs[lp[1]][lp[2]]
  IN  [t \in 1 .. HistoryLength - 1 |->
         MapThenSumSet(Weight, {lp \in LinePatterns(Hs) : TakenIn(lp[2]) = t})]

\* -sum over the histogram of (c/M) log2 (c/M): M and the bag of counts.
EntropyTerms(hist, M) ==
  [total |-> M,
   counts |-> [c \in {hist[a] : a \in DOMAIN hist} |-> Cardinality({a \in DOMAIN hist : hist[a] = c})]]

\* sqrt(sum (w - mean)^2 * count / num) squared, as one exact ratio.
SimdVariance(W) ==
  LET num == BagCardinality(W)
      sum == MapThenSumSet(LAMBDA w : w * W[w], DOMAIN W)
      sq == MapThenSumSet(LAMBDA w : w * w * W[w], DOMAIN W)
  IN  Ratio(num * sq - sum * sum, num * num)

\* 90% Memory Footprint: the distinct addresses, most accessed first, that
\* cover ceil(0.9 * accesses) of the accesses.
MemoryFootprint90(mem0) == PrefixFor90Pct(DescendingCounts(mem0))

\* Memory Diversity: the accesses to each address space, and local and
\* constant ones in percent of their sum, m_total_memory_access, an
\* `unsigned` that wraps.
MemoryDiversity(p) ==
  LET total == (p.m_global_memory_access + p.m_local_memory_access
                  + p.m_constant_memory_access) % UnsignedLimit
  IN  [global |-> p.m_global_memory_access,
       local |-> p.m_local_memory_access,
       constant |-> p.m_constant_memory_access,
       relativeLocal |-> Ratio(100 * p.m_local_memory_access, total),
       relativeConstant |-> Ratio(100 * p.m_constant_memory_access, total)]

\* sorted_branch_ops: each line that recorded a branch, with the length of
\* its hit-and-miss history.
BranchCounts(branchOps) ==
  [l \in {l \in DOMAIN branchOps : branchOps[l] # <<>>} |-> Len(branchOps[l])]

\* unique_branch_addresses: the branch lines, longest history first, that
\* cover ceil(0.9 * branch_op_count) of the branch executions.
BranchFootprint90(branchOps) == PrefixFor90Pct(DescendingCounts(BranchCounts(branchOps)))

\* The report kernelEnd prints and writes, from the aggregate p.
KernelReport(p) ==
  LET itb == p.m_instructionsToBarrier
      ipt == p.m_instructionsPerWorkitem
      mem0 == AddressHistogram(p.m_memoryOps, 0)
      M == Len(p.m_memoryOps)
      total == BagCardinality(p.m_computeOps)
      simdSum == MapThenSumSet(LAMBDA w : w * p.m_instructionWidth[w],
                               DOMAIN p.m_instructionWidth)
  IN
  [opcode |-> PrefixFor90Pct(DescendingCounts(p.m_computeOps)),
   totalInstructionCount |-> total,
   freedomToReorder |-> FreedomToReorder(p.m_instructionsBetweenLoadOrStore),
   resourcePressure |-> Ratio(BagCardinality(p.m_loadInstructionLabels)
                                + BagCardinality(p.m_storeInstructionLabels),
                              p.m_threads_invoked),
   workitems |-> p.m_threads_invoked,
   granularity |-> Ratio(1, p.m_threads_invoked),
   operandSum |-> simdSum,
   simdMin |-> Min(DOMAIN p.m_instructionWidth),
   simdMax |-> Max(DOMAIN p.m_instructionWidth),
   simdMean |-> Ratio(simdSum, BagCardinality(p.m_instructionWidth)),
   simdVariance |-> SimdVariance(p.m_instructionWidth),
   instructionsPerOperand |-> Ratio(total, simdSum),
   barriersHit |-> p.m_barriers_hit,
   barriersPerInstruction |-> Ratio(p.m_barriers_hit + p.m_threads_invoked, total),
   itbMin |-> Min(Range(itb)), itbMax |-> Max(Range(itb)), itbMedian |-> MedianOf(itb),
   iptMin |-> Min(Range(ipt)), iptMax |-> Max(Range(ipt)), iptMedian |-> MedianOf(ipt),
   totalMemoryFootprint |-> Cardinality(DOMAIN mem0),
   memoryFootprint90 |-> MemoryFootprint90(mem0),
   globalEntropy |-> EntropyTerms(mem0, M),
   localEntropy |-> [n \in 1 .. 10 |-> EntropyTerms(AddressHistogram(p.m_memoryOps, n), M)],
   globalAccesses |-> MemoryDiversity(p).global,
   localAccesses |-> MemoryDiversity(p).local,
   constantAccesses |-> MemoryDiversity(p).constant,
   relativeLocal |-> MemoryDiversity(p).relativeLocal,
   relativeConstant |-> MemoryDiversity(p).relativeConstant,
   uniqueBranches |-> Cardinality(DOMAIN BranchCounts(p.m_branchOps)),
   branches90 |-> BranchFootprint90(p.m_branchOps),
   yokotaEntropy |-> YokotaEntropy(p.m_branchOps, FALSE),
   yokotaPerWorkload |-> YokotaEntropy(p.m_branchOps, TRUE),
   linearBranchEntropy |-> LinearBranchEntropy(p.m_branchOps)]

=============================================================================
