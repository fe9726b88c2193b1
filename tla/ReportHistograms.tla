-------------------------- MODULE ReportHistograms --------------------------
(***************************************************************************)
(* The 90% coverage statistics of kernelEnd over every histogram a kernel  *)
(* can leave in the aggregate.  kernelEnd applies the same loop to three  *)
(* histograms: opcodes (m_computeOps, "unique opcodes required to cover   *)
(* 90% of dynamic instructions"), addresses (local_address_count[0],      *)
(* "90% memory footprint") and branch lines (history lengths of           *)
(* m_branchOps, "90% branch instructions").                                *)
(*                                                                         *)
(* counts is the histogram: instructionExecuted increments one key, the   *)
(* merge of workGroupComplete adds worker counts key by key, so every bag *)
(* over Keys is reachable.  kernelEnd reads it and clears it.              *)
(***************************************************************************)
EXTENDS AIWCReport

CONSTANTS
  Keys,       \* opcode names (or addresses, or branch lines)
  MaxCount    \* bound on the events counted in one kernel

ASSUME MaxCount \in Nat

VARIABLES counts, reported

vars == <<counts, reported>>

Init ==
  /\ counts = EmptyBag
  /\ reported = 0

\* (*m_state.computeOps)[opcode_name]++, folded into m_computeOps by the
\* merge: one more event of key k.
Count(k) ==
  /\ BagCardinality(counts) < MaxCount
  /\ counts' = counts (+) SetToBag({k})
  /\ UNCHANGED reported

\* kernelEnd: sort, sum, loop to 90%, and clear the histogram.
Report ==
  /\ reported' = PrefixFor90Pct(DescendingCounts(counts))
  /\ counts' = EmptyBag

Next == (\E k \in Keys : Count(k)) \/ Report

Spec == Init /\ [][Next]_vars

KeySymmetry == Permutations(Keys)

-----------------------------------------------------------------------------
(* Reference: the least number of keys whose counts add up to 90%.        *)

FewestKeysCovering(B) ==
  LET Total(S) == MapThenSumSet(LAMBDA k : B[k], S)
      covering == {S \in SUBSET DOMAIN B : 10 * Total(S) >= 9 * Total(DOMAIN B)}
  IN  Min({Cardinality(S) : S \in covering})

\* The number kernelEnd reports is the fewest keys (opcodes, addresses,
\* branch lines) that together account for at least 90% of the events: the
\* sort by descending count, ceil(0.9 n) and the while loop in kernelEnd
\* together compute that minimum, whatever the histogram.
NinetyPercentCoverMinimal ==
  [][Report => reported' = FewestKeysCovering(counts)]_vars

=============================================================================
