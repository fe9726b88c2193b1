------------------------- MODULE BranchHistoryMerge -------------------------
(***************************************************************************)
(* How the branch histories of work-groups reach kernelEnd's branch       *)
(* entropy.  Each work-group leaves the outcomes of one conditional       *)
(* branch line in its worker's branchOps; workGroupComplete appends them, *)
(* in one piece, to m_branchOps[line] of the aggregate, in whatever order *)
(* the worker threads finish; kernelEnd slides a window of 16 outcomes    *)
(* over the merged sequence.                                               *)
(***************************************************************************)
EXTENDS AIWCReport

CONSTANTS
  Groups,     \* work-groups of the kernel
  Line,       \* the debug line of the branch
  Histories   \* the outcome sequences a work-group can leave for the line

ASSUME Histories \subseteq Seq(BOOLEAN)

VARIABLES
  groupHistory,   \* the outcomes each work-group recorded (per worker)
  m_branchOps,    \* the aggregate's history of Line
  mergeOrder,     \* the order the groups completed
  reported        \* kernelEnd's average linear branch entropy

vars == <<groupHistory, m_branchOps, mergeOrder, reported>>

NotReported == Ratio(0, 0)

Init ==
  /\ groupHistory \in [Groups -> Histories]
  /\ m_branchOps = <<>>
  /\ mergeOrder = <<>>
  /\ reported = NotReported

\* workGroupComplete, lines 1232-1234: the group's outcomes pushed back in
\* their recorded order.
workGroupComplete(g) ==
  /\ g \notin Range(mergeOrder)
  /\ m_branchOps' = m_branchOps \o groupHistory[g]
  /\ mergeOrder' = Append(mergeOrder, g)
  /\ UNCHANGED <<groupHistory, reported>>

\* kernelEnd, once every group merged: the linear branch entropy.
kernelEnd ==
  /\ Range(mergeOrder) = Groups /\ reported = NotReported
  /\ reported' = LinearBranchEntropy(Line :> m_branchOps)
  /\ UNCHANGED <<groupHistory, m_branchOps, mergeOrder>>

Next == (\E g \in Groups : workGroupComplete(g)) \/ kernelEnd

Spec == Init /\ [][Next]_vars

-----------------------------------------------------------------------------

\* Every order in which the groups can complete.
CompletionOrders ==
  {o \in [1 .. Cardinality(Groups) -> Groups] : Range(o) = Groups}

MergedInOrder(o) == FoldLeft(LAMBDA acc, g : acc \o groupHistory[g], <<>>, o)

SameRatio(a, b) == a.num * b.den = b.num * a.den

\* spec.md: reshuffling work-group completion order must not change any
\* emitted metric.  The average linear branch entropy kernelEnd reports is
\* the one any other completion order of the groups would give.
BranchEntropyOrderInvariant ==
  reported # NotReported =>
    \A o \in CompletionOrders :
      SameRatio(reported, LinearBranchEntropy(Line :> MergedInOrder(o)))

=============================================================================
