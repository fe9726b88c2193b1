\* Two worker threads running two work-groups of two work-items each,
\* for two kernels: groups overlap, a worker reuses its state across
\* groups and kernels, work-items interleave at the barrier, and the second
\* invocation starts from what kernelEnd left of the aggregate.  Fair
\* workers and kernelEnd, for KernelCompletes; no symmetry, since TLC's
\* liveness checking is not sound under symmetry reduction.
CONSTANTS
  Workers = {w1, w2}
  Groups = {g1, g2}
  Items = {i1, i2}
  KernelNames = {kA}
  MaxKernels = 2
  MaxTransfers = 0
  NoGroup = NoGroup
  NoItem = NoItem
  NoBlock = NoBlock
  Program <- KernelWithBarrier
  UnsignedLimit <- MCUnsignedLimit
SPECIFICATION FairSpec
INVARIANTS
  MergedTotalsMatchExecution
  BranchHistoryFaithful
  SequenceLengthsAgree
PROPERTIES
  KernelCompletes
  ReportIndependentOfMergeOrder
