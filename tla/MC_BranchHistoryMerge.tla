------------------------ MODULE MC_BranchHistoryMerge ------------------------
(***************************************************************************)
(* Outcome sequences of one branch line for TLC: the exit test of a loop  *)
(* run k times (taken k times, then not taken) and an if whose condition  *)
(* alternates between work-items.                                         *)
(***************************************************************************)
EXTENDS BranchHistoryMerge

LoopHistory(k) == [i \in 1 .. k + 1 |-> i <= k]
AlternatingHistory(n) == [i \in 1 .. n |-> i % 2 = 1]

MCHistories ==
  {LoopHistory(k) : k \in 6 .. 9} \cup {AlternatingHistory(n) : n \in 8 .. 9}
====
