--------------------------- MODULE HostTransferLog ---------------------------
(***************************************************************************)
(* What the host-transfer tracker promises (spec.md 4.4 and 6): every     *)
(* device-to-host copy is attributed to the kernel enqueued last; every    *)
(* host-to-device copy is attributed to the kernel enqueued NEXT, and is  *)
(* pending until that kernel begins.  Transfers happen between kernels.   *)
(***************************************************************************)
EXTENDS Sequences

CONSTANTS
  Kernels,    \* kernel names
  Pending,    \* attribution of a host-to-device copy no kernel claimed yet
  NoKernel    \* the name attributed before any kernel was enqueued

VARIABLES
  h2d,         \* attribution of each host-to-device copy, in issue order
  d2h,         \* attribution of each device-to-host copy, in issue order
  lastKernel,  \* the kernel enqueued last
  running,     \* a kernel invocation is in progress
  exited       \* the application has exited and the summary is written

vars == <<h2d, d2h, lastKernel, running, exited>>

Init ==
  /\ h2d = <<>> /\ d2h = <<>>
  /\ lastKernel = NoKernel
  /\ running = FALSE /\ exited = FALSE

Between == ~running /\ ~exited

WriteToDevice ==
  /\ Between
  /\ h2d' = Append(h2d, Pending)
  /\ UNCHANGED <<d2h, lastKernel, running, exited>>

ReadFromDevice ==
  /\ Between
  /\ d2h' = Append(d2h, lastKernel)
  /\ UNCHANGED <<h2d, lastKernel, running, exited>>

\* The kernel claims every pending copy.
Launch(k) ==
  /\ Between
  /\ h2d' = [i \in DOMAIN h2d |-> IF h2d[i] = Pending THEN k ELSE h2d[i]]
  /\ lastKernel' = k
  /\ running' = TRUE
  /\ UNCHANGED <<d2h, exited>>

Finish ==
  /\ running
  /\ running' = FALSE
  /\ UNCHANGED <<h2d, d2h, lastKernel, exited>>

Exit ==
  /\ Between
  /\ exited' = TRUE
  /\ UNCHANGED <<h2d, d2h, lastKernel, running>>

Next == WriteToDevice \/ ReadFromDevice \/ (\E k \in Kernels : Launch(k))
          \/ Finish \/ Exit

Spec == Init /\ [][Next]_vars

=============================================================================
