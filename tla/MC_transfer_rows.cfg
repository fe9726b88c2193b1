\* Expected violation: std::unique only merges adjacent repeats of a kernel name.
CONSTANTS
  Workers = {w1}
  Groups = {g1}
  Items = {i1}
  KernelNames = {kA, kB}
  MaxKernels = 3
  MaxTransfers = 4
  NoGroup = NoGroup
  NoItem = NoItem
  NoBlock = NoBlock
  Program <- TrivialKernel
  UnsignedLimit <- MCUnsignedLimit
SPECIFICATION Spec
INVARIANT TransferRowsDistinct
