---------------------- MODULE WorkloadCharacterisation ----------------------
(***************************************************************************)
(* The AIWC plugin of Oclgrind (WorkloadCharacterisation.cpp) together    *)
(* with the part of the Oclgrind host that drives its callbacks.          *)
(*                                                                         *)
(* Plugin state, named as in the code:                                     *)
(*   m_state[w]  the THREAD_LOCAL WorkerState of worker thread w;          *)
(*   plugin      the kernel-invocation aggregate (m_computeOps, ...);      *)
(*   m_hostToDeviceCopy, m_deviceToHostCopy,                              *)
(*   m_numberOfHostToDeviceCopiesBeforeKernelNamed, m_last_kernel_name     *)
(*               the host-transfer log kept for the plugin's lifetime.     *)
(* Host state (modelled from spec.md, the interpreter is not in src/):     *)
(* which kernel runs, which worker runs which work-group, and for every    *)
(* work-item of a group its program counter and scheduling status.  A      *)
(* worker runs one work-item at a time and switches only when the item     *)
(* reaches a barrier or completes; when every unfinished item waits at     *)
(* the barrier the worker clears it.                                       *)
(*                                                                         *)
(* Every work-item executes Program, a sequence of instruction records     *)
(*   [op, mem, space, addr, label, width, line]                            *)
(* op: LLVM opcode name, or "barrier" for a call of barrier();             *)
(* mem: the memory event the instruction raises ("none", "load", "store",  *)
(*   "atomic"): loads, stores and the builtins of clc.h (vload, vstore,    *)
(*   async copies, atomics) all raise one;                                 *)
(* space/addr: address space and address of that access; label: the       *)
(*   pointer operand's name; width: result.num; line: the debug line of a *)
(*   conditional branch.                                                   *)
(* A conditional branch chooses its condition nondeterministically; the    *)
(* next instruction of the same item lies in the successor block.          *)
(***************************************************************************)
EXTENDS Naturals, Sequences, FiniteSets, SequencesExt, BagsExt, AIWCReport

CONSTANTS
  Workers,      \* worker threads of the interpreter
  Groups,       \* work-groups of one kernel invocation
  Items,        \* work-items of one work-group
  Program,      \* the instructions every work-item executes
  KernelNames,  \* names of the kernels the application enqueues
  MaxKernels,   \* bound on kernel invocations
  MaxTransfers, \* bound on host<->device transfers
  NoGroup, NoItem, NoBlock

ASSUME MaxKernels \in Nat /\ MaxTransfers \in Nat
ASSUME Program \in Seq([op : STRING, mem : STRING, space : Nat, addr : Nat,
                        label : STRING, width : Nat, line : Nat])

\* Oclgrind's encoding of the address spaces (core/common.h).
AddrSpacePrivate  == 0
AddrSpaceGlobal   == 1
AddrSpaceConstant == 2
AddrSpaceLocal    == 3

\* The name m_last_kernel_name holds before any kernel was enqueued.
NoName == ""

\* No kernel has reported yet.
NoReport == [opcode |-> 0]

BranchLines == {Program[i].line : i \in {j \in DOMAIN Program : Program[j].op = "br"}}

\* LLVM's conditional branch "br i1 %c, label %T, label %F" keeps its
\* operands as <<c, F, T>>: getOperand(1) is the false successor and
\* getOperand(2) the true one.  A successor block is <<line, condition>>.
BrOperand(inst, n) == <<inst.line, n = 2>>

VARIABLES
  m_state, plugin,
  m_hostToDeviceCopy, m_deviceToHostCopy,
  m_numberOfHostToDeviceCopiesBeforeKernelNamed, m_last_kernel_name,
  running, kernels, gstatus, worker, cur, ipc, istatus, block,
  interrupted, transferReport, report,
  begun, issuedAt, brTrace, mergeOrder   \* history variables

hostVars == <<running, kernels, gstatus, worker, cur, ipc, istatus, block>>
transferVars == <<m_hostToDeviceCopy, m_deviceToHostCopy,
                  m_numberOfHostToDeviceCopiesBeforeKernelNamed, m_last_kernel_name>>
historyVars == <<begun, issuedAt, brTrace, mergeOrder>>
vars == <<m_state, plugin, transferVars, hostVars, interrupted, transferReport, report,
          historyVars>>

-----------------------------------------------------------------------------
(* Worker-local accumulator: each hook is a function of the WorkerState.   *)

\* The WorkerState right after workGroupBegin allocated and cleared it.
EmptyWorkerState ==
  [computeOps |-> EmptyBag, memoryOps |-> <<>>,
   branchOps |-> [l \in BranchLines |-> <<>>],
   instructionsBetweenBarriers |-> <<>>, instructionWidth |-> EmptyBag,
   instructionsPerWorkitem |-> <<>>, instructionsBetweenLoadOrStore |-> <<>>,
   loadInstructionLabels |-> EmptyBag, storeInstructionLabels |-> EmptyBag,
   threads_invoked |-> 0, instruction_count |-> 0, barriers_hit |-> 0,
   workitem_instruction_count |-> 0, ops_between_load_or_store |-> 0,
   constant_memory_access_count |-> 0, local_memory_access_count |-> 0,
   global_memory_access_count |-> 0,
   previous_instruction_is_branch |-> FALSE,
   target1 |-> NoBlock, target2 |-> NoBlock, branch_loc |-> 0]

\* Bug variant: workGroupBegin forgets to clear computeOps.
workGroupBeginKeepingOps(s) ==
  [EmptyWorkerState EXCEPT
     !.computeOps = s.computeOps,
     !.workitem_instruction_count = s.workitem_instruction_count,
     !.ops_between_load_or_store = s.ops_between_load_or_store]

\* workGroupBegin: clear the containers, the counters and the branch
\* context; workitem_instruction_count and ops_between_load_or_store are
\* left as they are (workItemBegin resets them).
workGroupBegin(s) ==
  [EmptyWorkerState EXCEPT
     !.workitem_instruction_count = s.workitem_instruction_count,
     !.ops_between_load_or_store = s.ops_between_load_or_store]

memoryLoad(s, inst) ==
  IF inst.space # AddrSpacePrivate
  THEN [s EXCEPT !.memoryOps = Append(@, inst.addr)] ELSE s

memoryStore(s, inst) ==
  IF inst.space # AddrSpacePrivate
  THEN [s EXCEPT !.memoryOps = Append(@, inst.addr)] ELSE s

memoryAtomicLoad(s, inst) ==
  IF inst.space # 0 THEN [s EXCEPT !.memoryOps = Append(@, inst.addr)] ELSE s

memoryAtomicStore(s, inst) ==
  IF inst.space # 0 THEN [s EXCEPT !.memoryOps = Append(@, inst.addr)] ELSE s

\* The memory callbacks the interpreter raises while executing inst; an
\* atomic read-modify-write raises a load and a store.
MemoryEvents(s, inst) ==
  CASE inst.mem = "load"   -> memoryLoad(s, inst)
    [] inst.mem = "store"  -> memoryStore(s, inst)
    [] inst.mem = "atomic" -> memoryAtomicStore(memoryAtomicLoad(s, inst), inst)
    [] OTHER               -> s

CountOpcode(s, inst) == [s EXCEPT !.computeOps = BagAdd(@, inst.op)]

\* Load and Store instructions are counted by their pointer's address space.
ClassifyMemoryInst(s, inst) ==
  IF inst.op \notin {"load", "store"} THEN s
  ELSE CASE inst.space = AddrSpaceLocal    -> [s EXCEPT !.local_memory_access_count = @ + 1]
         [] inst.space = AddrSpaceGlobal   -> [s EXCEPT !.global_memory_access_count = @ + 1]
         [] inst.space = AddrSpaceConstant -> [s EXCEPT !.constant_memory_access_count = @ + 1]
         [] OTHER                          -> s

\* Distance since the last load or store, and the pointer labels.
TrackLoadStore(s, inst) ==
  LET t == [s EXCEPT !.ops_between_load_or_store = @ + 1]
      pushed(u) == [u EXCEPT !.instructionsBetweenLoadOrStore =
                               Append(@, t.ops_between_load_or_store),
                             !.ops_between_load_or_store = 0]
  IN CASE inst.op = "load"  -> pushed([t EXCEPT !.loadInstructionLabels = BagAdd(@, inst.label)])
       [] inst.op = "store" -> pushed([t EXCEPT !.storeInstructionLabels = BagAdd(@, inst.label)])
       [] OTHER             -> t

\* Bug variant: the outcome is compared with the wrong target.
RecordBranchOutcomeSwapped(s, parent) ==
  IF ~s.previous_instruction_is_branch THEN s
  ELSE [s EXCEPT !.branchOps[s.branch_loc] = Append(@, parent = s.target2),
                 !.previous_instruction_is_branch = FALSE]

\* The instruction after a conditional branch: TRUE is recorded when its
\* block is target1, FALSE when it is target2.
RecordBranchOutcome(s, parent) ==
  IF ~s.previous_instruction_is_branch THEN s
  ELSE [s EXCEPT !.branchOps[s.branch_loc] = Append(@, parent = s.target1),
                 !.previous_instruction_is_branch = FALSE]

\* The code's fatal "Error in branching!" path: std::raise(SIGINT).
BranchingError(s, parent) ==
  s.previous_instruction_is_branch /\ parent \notin {s.target1, s.target2}

\* Bug variant: both recorded targets taken from the first operand.
NoteConditionalBranchOneTarget(s, inst) ==
  IF inst.op # "br" THEN s
  ELSE [s EXCEPT !.previous_instruction_is_branch = TRUE,
                 !.target1 = BrOperand(inst, 1), !.target2 = BrOperand(inst, 1),
                 !.branch_loc = inst.line]

NoteConditionalBranch(s, inst) ==
  IF inst.op # "br" THEN s
  ELSE [s EXCEPT !.previous_instruction_is_branch = TRUE,
                 !.target1 = BrOperand(inst, 1), !.target2 = BrOperand(inst, 2),
                 !.branch_loc = inst.line]

CountInstruction(s, inst) ==
  [s EXCEPT !.instruction_count = @ + 1, !.workitem_instruction_count = @ + 1,
            !.instructionWidth = BagAdd(@, inst.width)]

\* instructionExecuted for inst, whose basic block is parent.
instructionExecuted(s, inst, parent) ==
  CountInstruction(
    NoteConditionalBranch(
      RecordBranchOutcome(
        TrackLoadStore(ClassifyMemoryInst(CountOpcode(s, inst), inst), inst),
        parent), inst), inst)

workItemBarrier(s) ==
  [s EXCEPT !.barriers_hit = @ + 1,
            !.instructionsBetweenBarriers = Append(@, s.instruction_count),
            !.instruction_count = 0]

workItemClearBarrier(s) == [s EXCEPT !.instruction_count = 0]

workItemBegin(s) ==
  [s EXCEPT !.threads_invoked = @ + 1, !.instruction_count = 0,
            !.workitem_instruction_count = 0, !.ops_between_load_or_store = 0]

\* Bug variant: completion does not push the last instructions-to-barrier count.
workItemCompleteNoBarrierPush(s) ==
  [s EXCEPT !.instructionsPerWorkitem = Append(@, s.workitem_instruction_count)]

workItemComplete(s) ==
  [s EXCEPT !.instructionsBetweenBarriers = Append(@, s.instruction_count),
            !.instructionsPerWorkitem = Append(@, s.workitem_instruction_count)]

-----------------------------------------------------------------------------
(* Group merger and the kernel-invocation aggregate.                       *)

EmptyAggregate ==
  [m_computeOps |-> EmptyBag, m_memoryOps |-> <<>>,
   m_branchOps |-> [l \in BranchLines |-> <<>>],
   m_instructionsToBarrier |-> <<>>, m_instructionWidth |-> EmptyBag,
   m_instructionsPerWorkitem |-> <<>>, m_instructionsBetweenLoadOrStore |-> <<>>,
   m_loadInstructionLabels |-> EmptyBag, m_storeInstructionLabels |-> EmptyBag,
   m_threads_invoked |-> 0, m_barriers_hit |-> 0, m_global_memory_access |-> 0,
   m_local_memory_access |-> 0, m_constant_memory_access |-> 0]

\* workGroupComplete, under m_mtx: fold the worker's state into the aggregate.
MergeWorkerState(p, s) ==
  [p EXCEPT
     !.m_computeOps = @ (+) s.computeOps,
     !.m_memoryOps = @ \o s.memoryOps,
     !.m_branchOps = [l \in BranchLines |-> @[l] \o s.branchOps[l]],
     !.m_threads_invoked = @ + s.threads_invoked,
     !.m_instructionsToBarrier = @ \o s.instructionsBetweenBarriers,
     !.m_barriers_hit = @ + s.barriers_hit,
     !.m_instructionWidth = @ (+) s.instructionWidth,
     !.m_instructionsPerWorkitem = @ \o s.instructionsPerWorkitem,
     !.m_instructionsBetweenLoadOrStore = @ \o s.instructionsBetweenLoadOrStore,
     !.m_loadInstructionLabels = @ (+) s.loadInstructionLabels,
     !.m_storeInstructionLabels = @ (+) s.storeInstructionLabels,
     !.m_constant_memory_access = @ + s.constant_memory_access_count,
     !.m_local_memory_access = @ + s.local_memory_access_count,
     !.m_global_memory_access = @ + s.global_memory_access_count]

\* kernelEnd's reset after the report: the containers it clears.
ResetAfterReport(p) ==
  [p EXCEPT !.m_memoryOps = <<>>, !.m_computeOps = EmptyBag,
            !.m_branchOps = [l \in BranchLines |-> <<>>],
            !.m_instructionsToBarrier = <<>>, !.m_instructionsPerWorkitem = <<>>,
            !.m_threads_invoked = 0, !.m_instructionsBetweenLoadOrStore = <<>>,
            !.m_loadInstructionLabels = EmptyBag, !.m_storeInstructionLabels = EmptyBag]

\* Bug variant: the relabel loop runs one copy too far back.
RelabelOneTooMany(log, n, name) ==
  [i \in DOMAIN log |-> IF i >= Len(log) - n THEN name ELSE log[i]]

\* kernelBegin: relabel the last m_numberOfHostToDeviceCopiesBeforeKernelNamed
\* host-to-device copies with the new kernel's name.
RelabelHostToDevice(log, n, name) ==
  [i \in DOMAIN log |-> IF i > Len(log) - n THEN name ELSE log[i]]

\* std::unique: drop adjacent repeats only.
AdjacentUnique(s) ==
  FoldLeft(LAMBDA acc, x : IF acc # <<>> /\ Last(acc) = x THEN acc ELSE Append(acc, x),
           <<>>, s)

CountOf(s, x) == Cardinality({i \in DOMAIN s : s[i] = x})

\* The rows of aiwc_memory_transfers_<N>.csv written by the destructor.
TransferRows ==
  [i \in DOMAIN AdjacentUnique(m_hostToDeviceCopy) |->
     <<"host to device", AdjacentUnique(m_hostToDeviceCopy)[i],
       CountOf(m_hostToDeviceCopy, AdjacentUnique(m_hostToDeviceCopy)[i])>>]
  \o
  [i \in DOMAIN AdjacentUnique(m_deviceToHostCopy) |->
     <<"device to host", AdjacentUnique(m_deviceToHostCopy)[i],
       CountOf(m_deviceToHostCopy, AdjacentUnique(m_deviceToHostCopy)[i])>>]

-----------------------------------------------------------------------------
(* The host: kernels, work-groups on worker threads, work-items of a group *)

Init ==
  /\ m_state = [w \in Workers |-> EmptyWorkerState]
  /\ plugin = EmptyAggregate
  /\ m_hostToDeviceCopy = <<>> /\ m_deviceToHostCopy = <<>>
  /\ m_numberOfHostToDeviceCopiesBeforeKernelNamed = 0
  /\ m_last_kernel_name = NoName
  /\ running = FALSE /\ kernels = 0
  /\ gstatus = [g \in Groups |-> "done"]
  /\ worker = [w \in Workers |-> NoGroup] /\ cur = [w \in Workers |-> NoItem]
  /\ ipc = [g \in Groups |-> [i \in Items |-> 1]]
  /\ istatus = [g \in Groups |-> [i \in Items |-> "new"]]
  /\ block = [g \in Groups |-> [i \in Items |-> NoBlock]]
  /\ interrupted = FALSE /\ transferReport = <<>> /\ report = NoReport
  /\ begun = <<>> /\ issuedAt = <<>>
  /\ brTrace = [g \in Groups |-> <<>>] /\ mergeOrder = <<>>

\* Host-side write to a device buffer (clEnqueueWriteBuffer and the like),
\* only between kernel invocations.
hostMemoryStore ==
  /\ ~running /\ transferReport = <<>>
  /\ Len(m_hostToDeviceCopy) + Len(m_deviceToHostCopy) < MaxTransfers
  /\ m_hostToDeviceCopy' = Append(m_hostToDeviceCopy, m_last_kernel_name)
  /\ m_numberOfHostToDeviceCopiesBeforeKernelNamed' =
        m_numberOfHostToDeviceCopiesBeforeKernelNamed + 1
  /\ issuedAt' = Append(issuedAt, kernels)
  /\ UNCHANGED <<m_state, plugin, m_deviceToHostCopy, m_last_kernel_name, hostVars,
                 interrupted, transferReport, report, begun, brTrace, mergeOrder>>

\* Bug variant: a host read is also counted as a copy awaiting relabelling.
hostMemoryLoadCounted ==
  /\ ~running /\ transferReport = <<>>
  /\ Len(m_hostToDeviceCopy) + Len(m_deviceToHostCopy) < MaxTransfers
  /\ m_deviceToHostCopy' = Append(m_deviceToHostCopy, m_last_kernel_name)
  /\ m_numberOfHostToDeviceCopiesBeforeKernelNamed' =
        m_numberOfHostToDeviceCopiesBeforeKernelNamed + 1
  /\ UNCHANGED <<m_state, plugin, m_hostToDeviceCopy, m_last_kernel_name,
                 hostVars, interrupted, transferReport, report, historyVars>>

\* Host-side read of a device buffer.
hostMemoryLoad ==
  /\ ~running /\ transferReport = <<>>
  /\ Len(m_hostToDeviceCopy) + Len(m_deviceToHostCopy) < MaxTransfers
  /\ m_deviceToHostCopy' = Append(m_deviceToHostCopy, m_last_kernel_name)
  /\ UNCHANGED <<m_state, plugin, m_hostToDeviceCopy, m_last_kernel_name,
                 m_numberOfHostToDeviceCopiesBeforeKernelNamed, hostVars,
                 interrupted, transferReport, report, historyVars>>

\* Bug variant: the count of copies awaiting a name is never reset.
kernelBeginKeepingCount(name) ==
  /\ ~running /\ transferReport = <<>> /\ kernels < MaxKernels
  /\ m_last_kernel_name' = name
  /\ m_hostToDeviceCopy' = RelabelHostToDevice(m_hostToDeviceCopy,
                             m_numberOfHostToDeviceCopiesBeforeKernelNamed, name)
  /\ plugin' = EmptyAggregate
  /\ running' = TRUE /\ kernels' = kernels + 1
  /\ gstatus' = [g \in Groups |-> "pending"]
  /\ ipc' = [g \in Groups |-> [i \in Items |-> 1]]
  /\ istatus' = [g \in Groups |-> [i \in Items |-> "new"]]
  /\ block' = [g \in Groups |-> [i \in Items |-> NoBlock]]
  /\ begun' = Append(begun, name)
  /\ brTrace' = [g \in Groups |-> <<>>] /\ mergeOrder' = <<>>
  /\ UNCHANGED <<m_state, m_deviceToHostCopy, worker, cur, interrupted,
                 transferReport, report, issuedAt,
                 m_numberOfHostToDeviceCopiesBeforeKernelNamed>>

kernelBegin(name) ==
  /\ ~running /\ transferReport = <<>> /\ kernels < MaxKernels
  /\ m_last_kernel_name' = name
  /\ m_hostToDeviceCopy' = RelabelHostToDevice(m_hostToDeviceCopy,
                             m_numberOfHostToDeviceCopiesBeforeKernelNamed, name)
  /\ m_numberOfHostToDeviceCopiesBeforeKernelNamed' = 0
  /\ plugin' = EmptyAggregate
  /\ running' = TRUE /\ kernels' = kernels + 1
  /\ gstatus' = [g \in Groups |-> "pending"]
  /\ ipc' = [g \in Groups |-> [i \in Items |-> 1]]
  /\ istatus' = [g \in Groups |-> [i \in Items |-> "new"]]
  /\ block' = [g \in Groups |-> [i \in Items |-> NoBlock]]
  /\ begun' = Append(begun, name)
  /\ brTrace' = [g \in Groups |-> <<>>] /\ mergeOrder' = <<>>
  /\ UNCHANGED <<m_state, m_deviceToHostCopy, worker, cur, interrupted,
                 transferReport, report, issuedAt>>

\* kernelEnd, once every work-group completed: the report computed from the
\* aggregate (printed and written to aiwc_<kernel>_<N>.csv), then the reset.
kernelEnd ==
  /\ running /\ \A g \in Groups : gstatus[g] = "done"
  /\ report' = KernelReport(plugin)
  /\ plugin' = ResetAfterReport(plugin)
  /\ running' = FALSE
  /\ UNCHANGED <<m_state, transferVars, kernels, gstatus, worker, cur, ipc,
                 istatus, block, interrupted, transferReport, historyVars>>

\* A free worker thread takes a pending work-group.
StartWorkGroup(w, g) ==
  /\ running /\ ~interrupted
  /\ worker[w] = NoGroup /\ gstatus[g] = "pending"
  /\ m_state' = [m_state EXCEPT ![w] = workGroupBegin(@)]
  /\ gstatus' = [gstatus EXCEPT ![g] = "running"]
  /\ worker' = [worker EXCEPT ![w] = g]
  /\ UNCHANGED <<plugin, transferVars, running, kernels, cur, ipc, istatus,
                 block, interrupted, transferReport, report, historyVars>>

\* The worker starts a work-item of its group that has not run yet.
StartWorkItem(w, i) ==
  LET g == worker[w] IN
  /\ g # NoGroup /\ cur[w] = NoItem /\ ~interrupted
  /\ istatus[g][i] = "new"
  /\ m_state' = [m_state EXCEPT ![w] = workItemBegin(@)]
  /\ istatus' = [istatus EXCEPT ![g][i] = "ready"]
  /\ cur' = [cur EXCEPT ![w] = i]
  /\ UNCHANGED <<plugin, transferVars, running, kernels, gstatus, worker, ipc,
                 block, interrupted, transferReport, report, historyVars>>

\* The worker resumes a work-item released from the barrier.
ResumeWorkItem(w, i) ==
  LET g == worker[w] IN
  /\ g # NoGroup /\ cur[w] = NoItem /\ ~interrupted
  /\ istatus[g][i] = "ready"
  /\ cur' = [cur EXCEPT ![w] = i]
  /\ UNCHANGED <<m_state, plugin, transferVars, running, kernels, gstatus,
                 worker, ipc, istatus, block, interrupted, transferReport, report,
                 historyVars>>

\* The current work-item executes its next instruction: the memory
\* callbacks it raises, then instructionExecuted.
ExecuteInstruction(w) ==
  LET g == worker[w]  i == cur[w]  inst == Program[ipc[g][i]] IN
  /\ i # NoItem /\ ~interrupted
  /\ ipc[g][i] <= Len(Program) /\ inst.op # "barrier"
  /\ m_state' = [m_state EXCEPT ![w] =
                   instructionExecuted(MemoryEvents(@, inst), inst, block[g][i])]
  /\ interrupted' = BranchingError(m_state[w], block[g][i])
  /\ ipc' = [ipc EXCEPT ![g][i] = @ + 1]
  /\ IF inst.op = "br"
     THEN \E c \in BOOLEAN :
            /\ block' = [block EXCEPT ![g][i] = <<inst.line, c>>]
            /\ brTrace' = [brTrace EXCEPT ![g] = Append(@, <<inst.line, c>>)]
     ELSE UNCHANGED <<block, brTrace>>
  /\ UNCHANGED <<plugin, transferVars, running, kernels, gstatus, worker, cur,
                 istatus, transferReport, report, begun, issuedAt, mergeOrder>>

\* The current work-item reaches barrier() and waits.
BarrierReached(w) ==
  LET g == worker[w]  i == cur[w] IN
  /\ i # NoItem /\ ~interrupted
  /\ ipc[g][i] <= Len(Program) /\ Program[ipc[g][i]].op = "barrier"
  /\ m_state' = [m_state EXCEPT ![w] = workItemBarrier(@)]
  /\ ipc' = [ipc EXCEPT ![g][i] = @ + 1]
  /\ istatus' = [istatus EXCEPT ![g][i] = "barrier"]
  /\ cur' = [cur EXCEPT ![w] = NoItem]
  /\ UNCHANGED <<plugin, transferVars, running, kernels, gstatus, worker, block,
                 interrupted, transferReport, report, historyVars>>

\* Every unfinished work-item waits at the barrier: release them all, each
\* raising workItemClearBarrier.
ClearBarrier(w) ==
  LET g == worker[w] IN
  /\ g # NoGroup /\ cur[w] = NoItem /\ ~interrupted
  /\ \A i \in Items : istatus[g][i] \in {"barrier", "done"}
  /\ \E i \in Items : istatus[g][i] = "barrier"
  /\ m_state' = [m_state EXCEPT ![w] = workItemClearBarrier(@)]
  /\ istatus' = [istatus EXCEPT ![g] =
                   [i \in Items |-> IF @[i] = "barrier" THEN "ready" ELSE @[i]]]
  /\ UNCHANGED <<plugin, transferVars, running, kernels, gstatus, worker, cur,
                 ipc, block, interrupted, transferReport, report, historyVars>>

\* The current work-item returns from the kernel.
CompleteWorkItem(w) ==
  LET g == worker[w]  i == cur[w] IN
  /\ i # NoItem /\ ~interrupted
  /\ ipc[g][i] = Len(Program) + 1
  /\ m_state' = [m_state EXCEPT ![w] = workItemComplete(@)]
  /\ istatus' = [istatus EXCEPT ![g][i] = "done"]
  /\ cur' = [cur EXCEPT ![w] = NoItem]
  /\ UNCHANGED <<plugin, transferVars, running, kernels, gstatus, worker, ipc,
                 block, interrupted, transferReport, report, historyVars>>

\* workGroupComplete: merge under the plugin mutex (one atomic step); the
\* worker's memoryOps is cleared, everything else waits for workGroupBegin.
CompleteWorkGroup(w) ==
  LET g == worker[w] IN
  /\ g # NoGroup /\ ~interrupted
  /\ \A i \in Items : istatus[g][i] = "done"
  /\ plugin' = MergeWorkerState(plugin, m_state[w])
  /\ m_state' = [m_state EXCEPT ![w].memoryOps = <<>>]
  /\ gstatus' = [gstatus EXCEPT ![g] = "done"]
  /\ worker' = [worker EXCEPT ![w] = NoGroup]
  /\ mergeOrder' = Append(mergeOrder, g)
  /\ UNCHANGED <<transferVars, running, kernels, cur, ipc, istatus, block,
                 interrupted, transferReport, report, begun, issuedAt, brTrace>>

\* The plugin's destructor at application exit: the transfer summary.
PluginDestroyed ==
  /\ ~running /\ transferReport = <<>>
  /\ transferReport' = <<"written">> \o TransferRows
  /\ UNCHANGED <<m_state, plugin, transferVars, hostVars, interrupted, report,
                 historyVars>>

\* After the destructor, or once std::raise(SIGINT) stopped the process,
\* nothing happens any more.
Terminated ==
  /\ transferReport # <<>> \/ interrupted
  /\ UNCHANGED vars

Next ==
  \/ hostMemoryStore \/ hostMemoryLoad
  \/ \E n \in KernelNames : kernelBegin(n)
  \/ kernelEnd
  \/ \E w \in Workers :
       \/ \E g \in Groups : StartWorkGroup(w, g)
       \/ \E i \in Items : StartWorkItem(w, i) \/ ResumeWorkItem(w, i)
       \/ ExecuteInstruction(w) \/ BarrierReached(w) \/ ClearBarrier(w)
       \/ CompleteWorkItem(w) \/ CompleteWorkGroup(w)
  \/ PluginDestroyed
  \/ Terminated

Spec == Init /\ [][Next]_vars

\* The steps of worker thread w.  The interpreter's worker loop keeps
\* taking groups and running their work-items until none is left; the only
\* wait is on m_mtx, held for one merge.
WorkerStep(w) ==
  \/ \E g \in Groups : StartWorkGroup(w, g)
  \/ \E i \in Items : StartWorkItem(w, i) \/ ResumeWorkItem(w, i)
  \/ ExecuteInstruction(w) \/ BarrierReached(w) \/ ClearBarrier(w)
  \/ CompleteWorkItem(w) \/ CompleteWorkGroup(w)

\* Workers never stop while work is left, and the host calls kernelEnd once
\* every group completed.  The application (transfers, launches, exit) is
\* not assumed to do anything.
FairSpec ==
  Spec /\ \A w \in Workers : WF_vars(WorkerStep(w)) /\ WF_vars(kernelEnd)

-----------------------------------------------------------------------------
(* What the host really executed, per work-item, as the reference the     *)
(* aggregate is compared with.                                             *)

Insts == SelectSeq(Program, LAMBDA x : x.op # "barrier")

Field(seq, f(_)) == [k \in DOMAIN seq |-> f(seq[k])]

Scaled(B, n) == IF n = 0 THEN EmptyBag ELSE [x \in DOMAIN B |-> n * B[x]]

\* Addresses one work-item puts into memoryOps (an atomic puts two).
AccessesOf(x) ==
  IF x.mem = "none" \/ x.space = AddrSpacePrivate THEN <<>>
  ELSE IF x.mem = "atomic" THEN <<x.addr, x.addr>> ELSE <<x.addr>>

Accesses == FlattenSeq(Field(Program, AccessesOf))

MemInstCount(space) ==
  Len(SelectSeq(Insts, LAMBDA x : x.op \in {"load", "store"} /\ x.space = space))

\* Instructions of one work-item between two barriers.
Segments ==
  LET step(acc, x) == IF x.op = "barrier" THEN <<Append(acc[1], acc[2]), 0>>
                      ELSE <<acc[1], acc[2] + 1>>
      r == FoldLeft(step, <<<<>>, 0>>, Program)
  IN Append(r[1], r[2])

\* Instructions since the previous load or store, the load or store counted.
Distances ==
  LET step(acc, x) == IF x.op \in {"load", "store"} THEN <<Append(acc[1], acc[2] + 1), 0>>
                      ELSE <<acc[1], acc[2] + 1>>
  IN FoldLeft(step, <<<<>>, 0>>, Insts)[1]

\* Work-items of the current kernel whose group has been merged.
MergedItems == Len(mergeOrder) * Cardinality(Items)

KernelFinished == running /\ \A g \in Groups : gstatus[g] = "done"

\* The outcomes of the branch at line l in a group's execution trace, as
\* the code encodes them and as spec.md defines them (TRUE = taken).
RecordedOutcomes(trace, l) ==
  Field(SelectSeq(trace, LAMBDA b : b[1] = l),
        LAMBDA b : <<b[1], b[2]>> = BrOperand([line |-> l], 1))
TakenOutcomes(trace, l) ==
  Field(SelectSeq(trace, LAMBDA b : b[1] = l), LAMBDA b : b[2])

\* The label a host-to-device copy issued after e kernels should carry: the
\* next kernel enqueued, or the last one if no kernel followed it.
ExpectedLabel(e) ==
  IF e < Len(begun) THEN begun[e + 1] ELSE IF e = 0 THEN NoName ELSE begun[e]

-----------------------------------------------------------------------------
(* Properties                                                              *)

TypeOK ==
  /\ running \in BOOLEAN /\ kernels \in 0..MaxKernels /\ interrupted \in BOOLEAN
  /\ worker \in [Workers -> Groups \cup {NoGroup}]
  /\ cur \in [Workers -> Items \cup {NoItem}]
  /\ gstatus \in [Groups -> {"pending", "running", "done"}]
  /\ istatus \in [Groups -> [Items -> {"new", "ready", "barrier", "done"}]]
  /\ ipc \in [Groups -> [Items -> 1..Len(Program) + 1]]
  /\ DOMAIN m_state = Workers /\ DOMAIN plugin = DOMAIN EmptyAggregate
  /\ m_hostToDeviceCopy \in Seq(KernelNames \cup {NoName})
  /\ m_deviceToHostCopy \in Seq(KernelNames \cup {NoName})
  /\ m_numberOfHostToDeviceCopiesBeforeKernelNamed \in 0..Len(m_hostToDeviceCopy)

\* While a kernel runs, the aggregate holds exactly what the work-items of
\* the merged work-groups executed: opcodes, SIMD widths, non-private
\* addresses, work-items, barriers, memory instructions by address space
\* and pointer labels.  Worker threads reuse their THREAD_LOCAL state for
\* many groups and kernels, so a missed clear double-counts.
MergedTotalsMatchExecution ==
  running =>
    LET n == MergedItems IN
    /\ plugin.m_computeOps = Scaled(ToBag(Field(Insts, LAMBDA x : x.op)), n)
    /\ plugin.m_instructionWidth = Scaled(ToBag(Field(Insts, LAMBDA x : x.width)), n)
    /\ ToBag(plugin.m_memoryOps) = Scaled(ToBag(Accesses), n)
    /\ plugin.m_threads_invoked = n
    /\ plugin.m_barriers_hit = n * (Len(Program) - Len(Insts))
    /\ plugin.m_global_memory_access = n * MemInstCount(AddrSpaceGlobal)
    /\ plugin.m_local_memory_access = n * MemInstCount(AddrSpaceLocal)
    /\ plugin.m_constant_memory_access = n * MemInstCount(AddrSpaceConstant)
    /\ plugin.m_loadInstructionLabels =
         Scaled(ToBag(Field(SelectSeq(Insts, LAMBDA x : x.op = "load"), LAMBDA x : x.label)), n)
    /\ plugin.m_storeInstructionLabels =
         Scaled(ToBag(Field(SelectSeq(Insts, LAMBDA x : x.op = "store"), LAMBDA x : x.label)), n)

\* For every branch line, the merged history is each merged group's
\* outcomes in the order its worker executed them, groups in merge order:
\* the pending-branch flag pairs each branch with the next instruction of
\* the same work-item even though work-items share the worker's state.
BranchHistoryFaithful ==
  running =>
    \A l \in BranchLines :
      plugin.m_branchOps[l] =
        FlattenSeq(Field(mergeOrder, LAMBDA g : RecordedOutcomes(brTrace[g], l)))

\* spec.md 3: the branch history records TRUE when the branch is taken.
BranchHistoryRecordsTaken ==
  running =>
    \A l \in BranchLines :
      plugin.m_branchOps[l] =
        FlattenSeq(Field(mergeOrder, LAMBDA g : TakenOutcomes(brTrace[g], l)))

\* The per-item sequences agree with the counters beside them: one
\* instructionsPerWorkitem entry per work-item, one instructions-to-barrier
\* entry per barrier and per completion, one reorder distance per load or
\* store label.
SequenceLengthsAgree ==
  running =>
    /\ Len(plugin.m_instructionsPerWorkitem) = plugin.m_threads_invoked
    /\ Len(plugin.m_instructionsToBarrier) = plugin.m_threads_invoked + plugin.m_barriers_hit
    /\ Len(plugin.m_instructionsBetweenLoadOrStore) =
         BagCardinality(plugin.m_loadInstructionLabels)
           + BagCardinality(plugin.m_storeInstructionLabels)

\* spec.md 8, scenario 2: at kernel end instructionsPerWorkitem,
\* instructionsToBarrier and instructionsBetweenLoadOrStore hold each
\* work-item's own counts, although the counters live in the worker state
\* that all work-items of a group share while they interleave at barriers.
PerWorkitemStatisticsExact ==
  KernelFinished =>
    LET n == plugin.m_threads_invoked IN
    /\ ToBag(plugin.m_instructionsPerWorkitem) = Scaled(SetToBag({Len(Insts)}), n)
    /\ ToBag(plugin.m_instructionsToBarrier) = Scaled(ToBag(Segments), n)
    /\ ToBag(plugin.m_instructionsBetweenLoadOrStore) = Scaled(ToBag(Distances), n)

\* spec.md 8: after kernelEnd the invocation aggregate is empty.
AggregateEmptyAfterKernelEnd ==
  (~running /\ kernels > 0) => plugin = EmptyAggregate

\* Every host-to-device copy is attributed to the kernel enqueued next
\* after it, or to the last kernel when none followed: kernelBegin relabels
\* exactly the copies made since the previous kernelBegin.
HostToDeviceAttribution ==
  \A i \in DOMAIN m_hostToDeviceCopy : m_hostToDeviceCopy[i] = ExpectedLabel(issuedAt[i])

\* spec.md 4.4 and 6: the transfer summary has one row per direction and
\* distinct kernel name.
TransferRowsDistinct ==
  transferReport # <<>> =>
    \A i, j \in 2..Len(transferReport) :
      i # j => Head(transferReport[i]) # Head(transferReport[j])
               \/ transferReport[i][2] # transferReport[j][2]


\* The aggregate with every sequence the workers append to in merge order
\* put in one canonical order (the branch histories excepted: their order
\* matters, see BranchHistoryMerge).
CanonicalAggregate(p) ==
  [p EXCEPT !.m_memoryOps = SortSeq(@, <),
            !.m_instructionsToBarrier = SortSeq(@, <),
            !.m_instructionsPerWorkitem = SortSeq(@, <),
            !.m_instructionsBetweenLoadOrStore = SortSeq(@, <)]

\* spec.md: workers merge in no particular order, and every statistic
\* derived from the appended sequences (footprints, address entropies,
\* medians, min/max, freedom to reorder) is order-independent.  The report
\* kernelEnd writes is the one of the same aggregate in canonical order, so
\* any two merge orders of the same contributions give the same report.
ReportIndependentOfMergeOrder ==
  [][kernelEnd => report' = KernelReport(CanonicalAggregate(plugin))]_vars

\* Every ratio kernelEnd prints and writes to its CSV is a number: freedom to
\* reorder, granularity, barriers per instruction, SIMD mean, instructions
\* per operand and the local and constant memory percentages.  spec.md says
\* a kernel without loads or stores reports 0 freedom to reorder; the code
\* divides the empty accumulate by size() = 0, and the percentages by a
\* memory-access total of 0.
ReportRatiosDefined ==
  report # NoReport =>
    \A f \in {"freedomToReorder", "granularity", "barriersPerInstruction", "simdMean",
              "instructionsPerOperand", "relativeLocal", "relativeConstant"} :
      report[f].den # 0


\* The host-to-device log as the abstract log sees it: the copies the next
\* kernel has still to claim are pending.
PendingImage ==
  [i \in DOMAIN m_hostToDeviceCopy |->
     IF i > Len(m_hostToDeviceCopy) - m_numberOfHostToDeviceCopiesBeforeKernelNamed
     THEN "pending" ELSE m_hostToDeviceCopy[i]]

HostTransfers == INSTANCE HostTransferLog
  WITH Kernels <- KernelNames, Pending <- "pending", NoKernel <- NoName,
       h2d <- PendingImage, d2h <- m_deviceToHostCopy,
       lastKernel <- m_last_kernel_name, running <- running,
       exited <- transferReport # <<>>

\* The tracker (hostMemoryStore/Load, the relabel loop and counter reset of
\* kernelBegin, the destructor) implements the abstract transfer log: each
\* device-to-host copy names the last kernel, each host-to-device copy the
\* next one.
TransfersRefineLog == HostTransfers!Spec

\* Every kernel invocation that begins reaches kernelEnd and its report:
\* the plugin's hooks never stop a worker (the SIGINT of instructionExecuted
\* would), and the barrier handling never leaves a group waiting.
KernelCompletes == running ~> ~running

====
