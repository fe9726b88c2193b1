\* Two application processes in one working directory, each writing a
\* kernel report and the transfer summary.
CONSTANTS
  Procs = {p1, p2}
  kA = kA
  kB = kB
  TransfersBase = TransfersBase
  OldRun = OldRun
  Truncated = Truncated
  Script <- TwoProcessScript
  PreExisting = {}
SPECIFICATION Spec
INVARIANT
  NoReportOverwritten
