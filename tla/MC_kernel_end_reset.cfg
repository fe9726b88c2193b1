\* Expected violation: kernelEnd leaves part of the aggregate uncleared.
CONSTANTS
  Workers = {w1, w2}
  Groups = {g1, g2}
  Items = {i1, i2}
  KernelNames = {kA}
  MaxKernels = 2
  MaxTransfers = 0
  NoGroup = NoGroup
  NoItem = NoItem
  NoBlock = NoBlock
  Program <- KernelWithBarrier
  UnsignedLimit <- MCUnsignedLimit
SYMMETRY Symmetry
SPECIFICATION Spec
INVARIANT AggregateEmptyAfterKernelEnd
