\* Expected violation: the branch entropy depends on the order in which the
\* work-groups complete, because the windows span two groups' histories.
CONSTANTS
  Groups = {g1, g2}
  Line = 7
  UnsignedLimit = 1073741824
  Histories <- MCHistories
SPECIFICATION Spec
CHECK_DEADLOCK FALSE
INVARIANT BranchEntropyOrderInvariant
