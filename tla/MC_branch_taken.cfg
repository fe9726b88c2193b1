\* Expected violation: the history records the false successor as TRUE.
CONSTANTS
  Workers = {w1, w2}
  Groups = {g1, g2}
  Items = {i1, i2}
  KernelNames = {kA}
  MaxKernels = 2
  MaxTransfers = 0
  NoGroup = NoGroup
  NoItem = NoItem
  NoBlock = NoBlock
  Program <- KernelWithBarrier
  UnsignedLimit <- MCUnsignedLimit
SYMMETRY Symmetry
SPECIFICATION Spec
INVARIANT BranchHistoryRecordsTaken
