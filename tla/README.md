# TLA+ models of the AIWC plugin (Oclgrind workload characterisation)

This directory models `WorkloadCharacterisation`, the AIWC plugin of Oclgrind.
Its source is the second part of `src/src/clc.h` (lines 495-1267). The first part
(lines 1-495) is Oclgrind's OpenCL builtin header. It holds declarations only,
and it matters to the plugin only through the memory callbacks that builtins
(vload/vstore, async copies, atomics) raise.

## The system

The plugin is a set of callbacks. The interpreter calls them while it runs
kernels on a pool of worker threads.

| Part | Code | State |
|---|---|---|
| Worker-local accumulator | `m_state` (THREAD_LOCAL WorkerState), `memoryLoad/Store`, `memoryAtomicLoad/Store`, `instructionExecuted`, `workItemBegin/Barrier/ClearBarrier/Complete`, `workGroupBegin` (536-754, 1179-1217) | opcode histogram, memory-op addresses, branch histories per source line, per-item counters, load/store labels, SIMD widths, address-space counters, pending-branch targets |
| Group merger | `workGroupComplete` under `m_mtx` (1219-1267) | the kernel aggregate `m_*` |
| Kernel lifecycle | `kernelBegin` (756-780), `kernelEnd` (782-1177) | aggregate cleared, report written, partial reset |
| Host-transfer tracker | `hostMemoryLoad/Store` (597-606), relabel in `kernelBegin`, destructor (544-595) | `m_hostToDeviceCopy`, `m_deviceToHostCopy`, the pending-copy count, `m_last_kernel_name` |
| Host scheduler | Oclgrind core, not under `src/` | which worker runs which group and item |
| CSV log file naming | probe-then-open in `kernelEnd` (1116-1160) and the destructor (573-591) | the files in the working directory |

How the parts interact:
- Each worker owns one thread-local WorkerState and runs one work-group at a time.
- Within the group, work-items run one after another. The worker switches items
  only when an item reaches a barrier or completes, so items of one group
  interleave at barriers.
- At group end, the worker merges its state into the shared aggregate under the
  mutex.
- `kernelEnd` reports on the aggregate.
- Host transfers happen between kernels. Each is labelled with the last
  kernel's name. Host-to-device copies are relabelled with the *next* kernel's
  name when that kernel starts.

The hard behaviours:
- interleavings of workers merging;
- interleavings of work-items of one group at barriers, sharing one thread-local
  state;
- thread-local state reused by the next group on the same worker;
- the one-instruction delay before a branch outcome is known;
- the order of transfers and launches on the host.

## Modules

`WorkloadCharacterisation.tla` is the whole plugin plus the host scheduler.

- **Worker state.** `m_state[w]` is a record with the fields of WorkerState.
  Each `unordered_map` is a bag. Each `vector` is a sequence.
- **Hooks.** Every hook is an operator on that record, named as in the code:
  `memoryLoad`, `instructionExecuted`, `workItemBarrier`, and so on.
  `instructionExecuted` is the composition of the code's six blocks, in the
  code's order:

  `CountOpcode → ClassifyMemoryInst → TrackLoadStore → RecordBranchOutcome → NoteConditionalBranch → CountInstruction`

- **Aggregate.** `plugin` is the kernel aggregate.
  - `MergeWorkerState` is `workGroupComplete`.
  - `EmptyAggregate` is `kernelBegin`'s clears.
  - `ResetAfterReport` is the reset at the end of `kernelEnd`.
- **Host actions.** These are modelled from the spec and marked `spec_modelled`:
  - `StartWorkGroup` calls `workGroupBegin`.
  - `StartWorkItem` calls `workItemBegin`.
  - `ResumeWorkItem` resumes an item after a barrier.
  - `ExecuteInstruction` raises the memory callbacks (`MemoryEvents`) and then
    `instructionExecuted`.
  - `BarrierReached` calls `workItemBarrier`. It raises no
    `instructionExecuted` for the `barrier()` call itself. This agrees with
    scenario 2 of `spec.md`, whose instructions-to-barrier are {4,4,2,2}.
  - `ClearBarrier` runs when every unfinished item waits. It releases them and
    calls `workItemClearBarrier`.
  - `CompleteWorkItem` calls `workItemComplete`.
  - `CompleteWorkGroup` merges, as one atomic step, because the code holds the
    lock for the whole function.
- **Branches.** The condition of a `br` is chosen nondeterministically. The
  block reached next is `<<line, cond>>`. A conditional branch's operands are
  `<<cond, IfFalse, IfTrue>>`, as in LLVM, so `BrOperand(inst, 1)` is the false
  successor.
- **SIGINT.** The error path of the outcome check raises SIGINT. It sets
  `interrupted`, which disables every action but the stuttering `Terminated`.
  The process has stopped, so the kernel never reaches `kernelEnd`.
  `KernelCompletes` therefore also shows that the path is never taken.
- **Host transfers.** `hostMemoryStore` and `hostMemoryLoad` are actions.
  `kernelBegin` relabels pending copies (`RelabelHostToDevice`). The destructor
  (`PluginDestroyed`) writes `TransferRows` (`AdjacentUnique` is `std::unique`,
  `CountOf` is `std::count`).
- **History variables.** These record what really ran and let properties compare
  the plugin's statistics with the truth:
  - `begun`: the kernels launched;
  - `issuedAt`: the kernel count at each copy;
  - `brTrace`: the branch outcomes per group;
  - `mergeOrder`: the order in which groups merged.

`kernelEnd` computes `report`, the record `KernelReport(plugin)` of `AIWCReport.tla`, then applies the reset.

`AIWCReport.tla` holds the statistics of `kernelEnd` (782-1160) as pure operators:
- `DescendingCounts` is `partial_sort_copy` by descending count.
- `NinetyPercentOf` is `(unsigned)ceil(n*0.9)`. The double product equals the exact ceiling ⌈9n/10⌉; this was checked numerically for every n below 200000.
- `CoverPrefix` is the RECURSIVE `while` loop, and `PrefixFor90Pct` combines the three.
- `MedianOf`, `FreedomToReorder` and `AddressHistogram` (`local_address_count[k]`) are also defined.
- The branch history uses `Windows`, `PatternBag` (the map `H` of patterns
  of one line), `PatternBags`, `LinePatterns`, `TakenIn` and `LinearTerm`.
  `LinearBranchEntropy` (window m = 16, NaN coerced to 0) and
  `YokotaEntropy` are built from them.
- `MemoryFootprint90` (944-969) is the 90% memory footprint.
  `MemoryDiversity` (1006-1021) gives the accesses per address space and
  the local and constant percentages of their `unsigned` sum
  `m_total_memory_access`, which wraps modulo `UnsignedLimit`.
  `BranchCounts` (`sorted_branch_ops`, 1030-1041) and `BranchFootprint90`
  (1043-1051) give the unique branch lines and the 90% branch count.
- Granularity, barriers per instruction, SIMD min/max/mean and instructions
  per operand are fields of `KernelReport`.

A metric that takes `log2` is kept exactly, as the multiset of terms it sums:
- `EntropyTerms` gives an address entropy as the access total and the bag of
  per-address counts, for `nskip` = 0 (global) and 1..10 (local).
- `YokotaEntropy` gives, for each taken-count t = 1..15, the coefficient of
  -p log2 p with p = t/16: occurrences, or distinct patterns for the
  per-workload value.
- `SimdVariance` is the exact variance that the SIMD stdev takes the square
  root of.

Two reports are therefore equal exactly when the code's values are equal,
up to float rounding.

The module also leaves some things out:
- Output formatting is not modelled: float casts, precision, locale.
- A double ratio is kept as an exact `[num, den]` record. `den = 0` stands for the NaN of `0.0/0`.
- `unsigned` is the constant `UnsignedLimit`. TLC's integers are 32-bit signed, so they cannot hold 2^32. The passing runs use 2^30, which agrees with 2^32 on every reachable value. The `unsigned_wrap` run scales the range down to 2^3.

`ReportHistograms.tla` checks the 90% loop against a reference:
- The histogram is filled one event at a time (`Count`, i.e. `computeOps[op]++` and the merge).
- `Report` is kernelEnd's sort-and-loop followed by the clear.
- `FewestKeysCovering` is the reference: the least number of keys whose counts sum to at least 90%, taken over all subsets. It does not depend on any sorting.

`BranchHistoryMerge.tla` models how the groups' branch histories reach `m_branchOps`:
- `workGroupComplete` (1231-1234) appends each group's history as a whole.
- `kernelEnd` computes the linear branch entropy.
- `MC_BranchHistoryMerge.tla` gives loop-exit and alternating histories of 6-10 outcomes per group.

**Fairness and liveness.** `FairSpec` adds weak fairness to each worker's
steps (`WorkerStep(w)`) and to `kernelEnd`. The code justifies both:
- a worker thread of the interpreter keeps taking groups and running items
  while work is left;
- the only wait is on `m_mtx`, which is held for one merge;
- the host calls `kernelEnd` once every group has completed.

The application (transfers, launches, exit) gets no fairness, because it
need not do anything. `Terminated` stutters after the destructor and after
SIGINT, since the process has stopped.

**Refinement.** `HostTransferLog.tla` is the abstract promise of the transfer
tracker (spec.md 4.4):
- a device-to-host copy names the last kernel;
- a host-to-device copy stays `Pending` until the next kernel begins, which
  claims it.

`WorkloadCharacterisation` instantiates it as `HostTransfers` (INSTANCE ...
WITH). Under the mapping, the last `m_numberOfHostToDeviceCopiesBeforeKernelNamed`
entries of `m_hostToDeviceCopy` are pending (`PendingImage`), and `exited`
holds once the destructor has written its rows. `TransfersRefineLog` is the
abstract `Spec`, checked as a PROPERTY.

`LogFileNaming.tla` models how each CSV gets its name, for one process or
several sharing a working directory:
- `ProbeTaken` and `ProbeFree` are the `while (std::ifstream(name))` loop.
- `Open` is `logfile.open`, which creates or truncates the file.
- `Write` is the rows and `close`.
- `OpenFails` is a failed `logfile.open` in a debug build: `assert(logfile)`
  aborts the process, which writes no further report and never runs the
  destructor.
- `OpenFailsIgnored` is a failed `logfile.open` in an NDEBUG build. The
  `Release` and `RelWithDebInfo` builds that `src/README.md` recommends
  define NDEBUG, which compiles the assert out. The rows go to the failed
  stream, the report is lost, and the process goes on to its next report.
- `ndebug[p]`, chosen in `Init`, is the build of process p's plugin; both
  builds are explored. This is the fault model: any open may fail. A debug
  build stops at its first failure; an NDEBUG build may fail at every open.
- A process's `Script` lists the bases it writes: kernel names for
  `kernelEnd`, then `memory_transfers` for the destructor.
- `disk` maps each `<<base, count>>` file to the report written last.
- `MC_LogFileNaming.tla` includes a kernel named `memory_transfers`, whose
  report shares a base with the transfer summary, and leftovers of earlier
  runs with gaps.

`MC_WorkloadCharacterisation.tla` instantiates the model. `KernelWithBarrier` is
a seven-instruction kernel:
1. a global load;
2. a conditional branch;
3. an add of width 4;
4. `barrier()`;
5. a local atomic call;
6. a private store;
7. `ret`.

Together these reach every block of `instructionExecuted` and every memory
callback. `TrivialKernel` is a single `ret`, for the transfer runs.

## Runs

| Run | Expect | Checks |
|---|---|---|
| `core` (MC_core.cfg) | pass | Under `FairSpec`. `KernelCompletes`: every kernel invocation that begins reaches `kernelEnd` (`running ~> ~running`). No group waits forever at its barrier, and the SIGINT path is never taken. `MergedTotalsMatchExecution`: once a kernel's groups have all merged, the aggregate's opcode histogram, address-space counts, item count, barrier count, memory-op count and load/store labels equal what the items executed. `BranchHistoryFaithful`: each line's merged branch history is a permutation of the group histories of the outcomes taken, so one bit per executed branch. `SequenceLengthsAgree`: ITB has items + barriers entries, IPT one per item, reorder distances one per load/store.  `ReportIndependentOfMergeOrder` (action property): each `kernelEnd` writes the report of the aggregate with every merged sequence sorted (`CanonicalAggregate`), so every merge order of the same contributions gives the same report, as spec.md claims. The branch histories are left out, because their order does matter (finding 6). |
| `transfers` (MC_transfers.cfg) | pass | `HostToDeviceAttribution`: every host-to-device copy carries the name of the first kernel launched after it, or the pending label if none has been launched yet. `TransfersRefineLog`: the tracker implements `HostTransferLog`. Also `TypeOK`. |
| `workitem_stats` | violation | `PerWorkitemStatisticsExact`: IPT and ITB hold each item's own counts. Violated: counters are shared by the interleaved items. |
| `branch_taken` | violation | `BranchHistoryRecordsTaken`: TRUE in the history means the branch condition held. Violated: operand 1 is the false successor. |
| `kernel_end_reset` | violation | `AggregateEmptyAfterKernelEnd`: the spec's "aggregate empty after kernelEnd". Violated: the width histogram, barrier and address-space counters are left. |
| `histograms` (MC_histograms.cfg, ReportHistograms) | pass | `NinetyPercentCoverMinimal`: every `Report` step yields the fewest keys covering 90% of the events. It is checked over every histogram of up to 12 events on 3 keys (symmetric). |
| `unsigned_wrap` | violation | The same property with `unsigned` scaled to 2^3. It is violated: 7 events of opcode o1 and 1 of o2 give the target ceil(7.2) = 8, which wraps to 0. The loop reports 0 opcodes, and the reference needs 2. |
| `branch_order` (MC_BranchHistoryMerge) | violation | `BranchEntropyOrderInvariant`: the reported linear branch entropy equals the one any other completion order gives. It is violated. |
| `freedom_reorder` (MC_freedom_reorder.cfg) | violation | `ReportRatiosDefined`: every ratio of the report is a number. It is violated: a kernel without memory access computes 0.0/0 for the freedom to reorder and both memory percentages. |
| `transfer_rows` | violation | `TransferRowsDistinct`: one transfer row per kernel. Violated: `std::unique` is adjacent-only. |
| `log_names` (MC_LogFileNaming) | pass | `NoReportOverwritten`: every report closed, and every file of an earlier run, is still on disk with its own content. `NoFreeNumberBelowAReport` (spec.md 6, the smallest free number): below the number of every report this run wrote, every number of its base is taken. The probe restarts at 0 for each report, and a report dropped by a failed open in an NDEBUG build leaves its number free for a later report. The mutant that carries `logfile_count` over from the previous report leaves a gap. One process, built with or without NDEBUG, writes five reports into a directory holding any subset of four leftover files. |
| `log_race` (MC_LogFileNaming) | violation | The same property for two processes, each writing a kernel report and a transfer summary. Violated: both probe `aiwc_kA_0.csv` free before either opens it. |

### Bounds

The bounds are small, but each one reaches the behaviour it is there for:
- **Core run: 2 workers, 2 groups, 2 items, 2 kernels.** Two workers merge
  concurrently. Two items of a group interleave at the barrier. A worker reuses
  its thread-local state for a second group. A second kernel starts from a
  reset aggregate.
- **Transfer runs: 4 transfers, 3 kernels out of 2 names.** Four transfers
  over 3 launches produce every pattern that matters:
  - copies before the first kernel;
  - several pending copies;
  - reads interleaved with writes;
  - non-adjacent repeats of one kernel name.
- **Symmetry.** The core run checks a liveness property, and TLC's liveness
  checking is unsound under symmetry, so it explores all 147,235 states
  without it (about 100 s). The violation runs on the same model use
  symmetry over workers, groups and items, which the code treats alike.
- **Log naming: 1 process with 5 reports, or 2 processes with 2 each.** One
  process probes past every leftover and past its own earlier files. Two
  processes are enough for the probe/open race.

## Findings

1. **Per-work-item statistics mix items (code bug).**
   - `instruction_count`, `workitem_instruction_count` and
     `ops_between_load_or_store` are per worker, not per item (lines 725-726
     and 676).
   - Items of a group interleave at barriers, so IPT/ITB and the reorder
     distances are wrong whenever a kernel has a barrier.
   - TLC shows IPT ⟨6,9,6,9⟩ for items that execute 6 or 7 instructions.
2. **Taken and not-taken are swapped (code bug).** Line 712 reads operand 1,
   which is LLVM's false successor.
3. **kernelEnd does not empty the aggregate (divergence from the spec).** Its
   reset (1167-1176) omits five fields. This has no effect on the output,
   because `kernelBegin` clears them.
4. **Duplicate transfer rows (code bug).** The transfer summary has a row per
   run of equal labels, not per kernel (`std::unique`, line 560).

5. **The 90% counts wrap (code bug).** At line 811, with the same pattern at 959 and 1046, `(unsigned)ceil(0.9 n)` wraps from 4,772,185,884 counted events, where ceil(0.9 n) = 2^32 wraps to 0. The reported count is then too small.
6. **Branch entropy depends on completion order (divergence from the spec).** The 16-wide windows straddle the histories of two groups (line 1075). The spec requires that completion order change no metric.
7. **NaN ratios (divergence from the spec).** At line 839, a kernel without loads or stores divides 0 by 0 for the freedom to reorder. The spec says to report 0. With no memory access, lines 1019-1021 divide by a total of 0 for both memory percentages. The spec says nothing about that case.
8. **Two processes can overwrite each other's CSV (divergence from the spec).**
   The name is probed (line 576, and 1118) and opened later with truncation.
   spec.md 6 says `<seq>` names a file that does not exist at write time.
   spec.md 8 accepts the race, because kernel ends are serialized within one
   process. `log_names` confirms that a single process is safe.

## Not modelled, and the plan

- **Float rounding.** The statistics are exact rationals or exact multisets
  of log terms. The code's float and double rounding, its casts
  (`(float)mem_entropy`) and the final `sqrt` of the SIMD stdev are left out.
- **Wrap of `m_total_memory_access`.** `MemoryDiversity` wraps the sum
  of the three access counters, as the code's `unsigned` does. No run
  reaches the wrap, because it takes 2^32 accesses in one kernel. The kernel
  model keeps its other counters unbounded, so it cannot be run with a
  small `UnsignedLimit`: the code's counters would wrap there too. The only
  run with a small `unsigned` range, `unsigned_wrap`, checks the histogram
  loop alone. The hazard at 1017 is listed without a property.
- **The NDEBUG build.** The source asserts that the CSV opened, and the
  model has both builds. In an NDEBUG build, which is what the recommended
  `Release` builds are, a failed open drops the report silently, and the
  console still names the file. spec.md 7.2 says this failure is fatal. This
  divergence is argued here, not shown by a run: it holds by construction of
  `OpenFailsIgnored`, which is the code with the assert removed.
- **Not modelled at all:**
  - console/CSV formatting and the locale (pure I/O);
  - the builtin declarations of lines 1-495 (declarations only, no state).
