\* Host transfers around three kernel invocations of two kernels; each
\* kernel is a single one-instruction work-item, so the state space is
\* spent on the order of copies, kernel launches and the destructor.
CONSTANTS
  Workers = {w1}
  Groups = {g1}
  Items = {i1}
  KernelNames = {kA, kB}
  MaxKernels = 3
  MaxTransfers = 4
  NoGroup = NoGroup
  NoItem = NoItem
  NoBlock = NoBlock
  Program <- TrivialKernel
  UnsignedLimit <- MCUnsignedLimit
SPECIFICATION Spec
INVARIANTS
  TypeOK
  HostToDeviceAttribution
PROPERTY
  TransfersRefineLog
