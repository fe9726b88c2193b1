\* One application process: every kernelEnd and the destructor pick a
\* file name, in a directory that may hold files of earlier runs.  Init
\* takes the plugin built with and without NDEBUG.
CONSTANTS
  Procs = {p1}
  kA = kA
  kB = kB
  TransfersBase = TransfersBase
  OldRun = OldRun
  Truncated = Truncated
  Script <- OneProcessScript
  PreExisting <- OneProcessLeftovers
SPECIFICATION Spec
INVARIANT
  NoReportOverwritten
  NoFreeNumberBelowAReport
