------------------------- MODULE MC_LogFileNaming -------------------------
(***************************************************************************)
(* Instances of LogFileNaming for TLC.                                     *)
(***************************************************************************)
EXTENDS LogFileNaming

\* Kernel names, and the base of the destructor's file, "memory_transfers".
CONSTANTS kA, kB, TransfersBase

\* One process running kernels kA, kB, a kernel named "memory_transfers"
\* (its report and the transfer summary share a base) and kA again, then
\* exiting.  Earlier runs may have left any of the files it could pick,
\* gaps included.
OneProcessScript == [p \in Procs |-> <<kA, kB, TransfersBase, kA, TransfersBase>>]

OneProcessLeftovers == {<<kA, 0>>, <<kA, 1>>, <<kB, 0>>, <<TransfersBase, 0>>}

\* Two processes each running kernel kA once and exiting at the same time.
TwoProcessScript == [p \in Procs |-> <<kA, TransfersBase>>]
=============================================================================
