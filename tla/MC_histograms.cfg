\* Every histogram of up to 12 events over three keys, reported by kernelEnd.
\* unsigned is 32 bits wide; 2^30 stands for 2^32, which TLC's integers
\* cannot hold, and no count here comes near either.
CONSTANTS
  Keys = {o1, o2, o3}
  MaxCount = 12
  UnsignedLimit = 1073741824
SYMMETRY KeySymmetry
SPECIFICATION Spec
PROPERTY NinetyPercentCoverMinimal
