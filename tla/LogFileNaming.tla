---------------------------- MODULE LogFileNaming ----------------------------
(***************************************************************************)
(* How the plugin names its CSV files (src/src/clc.h, kernelEnd 1116-1160, *)
(* destructor 573-591).  Each report starts from logfile_count = 0, probes *)
(* "aiwc_<base>_<count>.csv" with std::ifstream and increments the count   *)
(* while the file can be opened, then opens the first free name with an   *)
(* std::ofstream (create or truncate), asserts the stream, writes the rows *)
(* and closes it.  <base> is the kernel name for kernelEnd and             *)
(* "memory_transfers" for the destructor.                                  *)
(*                                                                         *)
(* Within one process the reports are written one after the other: the   *)
(* host calls kernelEnd and the destructor in sequence.  Several processes *)
(* using the plugin in one working directory share the file system, and   *)
(* their steps interleave.  A file's content is the identity of the report *)
(* written last; the rows are written in one go when the stream is closed. *)
(*                                                                         *)
(* The open can fail (no write permission, no space).  In a debug build   *)
(* assert(logfile) then aborts the process: it writes no further report   *)
(* and never runs the destructor.  In the Release and RelWithDebInfo      *)
(* builds src/README.md recommends, NDEBUG compiles the assert out: the   *)
(* rows go to the failed stream and the process carries on.               *)
(***************************************************************************)
EXTENDS Naturals, Sequences, FiniteSets, TLC

CONSTANTS
  Procs,          \* processes running an application under the plugin
  Script,         \* Script[p]: the bases of the reports p writes, in order
  PreExisting,    \* files that may be left in the directory by earlier runs
  OldRun,         \* the writer of a file left by an earlier run
  Truncated       \* the content of a file just opened and not yet written

VARIABLES
  disk,            \* the directory: file <<base, count>> -> its content
  pc,              \* where each process is in writing its current report
  k,               \* the index in Script[p] of the report being written
  logfile_count,   \* the probe counter of the current report
  written,         \* every report that was closed, and every old file
  ndebug           \* ndebug[p]: p's plugin was built with NDEBUG

vars == <<disk, pc, k, logfile_count, written, ndebug>>

\* logfile_name: "aiwc_" + base + "_" + std::to_string(logfile_count) + ".csv".
File(p) == <<Script[p][k[p]], logfile_count[p]>>

Init ==
  /\ \E S \in SUBSET PreExisting : disk = [f \in S |-> <<OldRun, f>>]
  /\ pc = [p \in Procs |-> IF Script[p] = <<>> THEN "done" ELSE "probe"]
  /\ k = [p \in Procs |-> 1]
  /\ logfile_count = [p \in Procs |-> 0]
  /\ written = {disk[f] : f \in DOMAIN disk}
  /\ ndebug \in [Procs -> BOOLEAN]

\* while (std::ifstream(logfile_name)): the name is taken, try the next.
ProbeTaken(p) ==
  /\ pc[p] = "probe" /\ File(p) \in DOMAIN disk
  /\ logfile_count' = [logfile_count EXCEPT ![p] = @ + 1]
  /\ UNCHANGED <<disk, pc, k, written, ndebug>>

\* Bug variant: the first name is used without probing it.
ProbeFreeUnchecked(p) ==
  /\ pc[p] = "probe"
  /\ pc' = [pc EXCEPT ![p] = "open"]
  /\ UNCHANGED <<disk, k, logfile_count, written, ndebug>>

\* The probe fails: the loop ends with this name.
ProbeFree(p) ==
  /\ pc[p] = "probe" /\ File(p) \notin DOMAIN disk
  /\ pc' = [pc EXCEPT ![p] = "open"]
  /\ UNCHANGED <<disk, k, logfile_count, written, ndebug>>

\* logfile.open(logfile_name) fails in an NDEBUG build: the assert is
\* compiled out, the rows go to the failed stream and the process carries
\* on with its next report.
OpenFailsIgnored(p) ==
  /\ pc[p] = "open" /\ ndebug[p]
  /\ k' = [k EXCEPT ![p] = @ + 1]
  /\ logfile_count' = [logfile_count EXCEPT ![p] = 0]
  /\ pc' = [pc EXCEPT ![p] = IF k[p] = Len(Script[p]) THEN "done" ELSE "probe"]
  /\ UNCHANGED <<disk, written, ndebug>>

\* logfile.open(logfile_name) fails in a debug build; assert(logfile)
\* aborts the process.
OpenFails(p) ==
  /\ pc[p] = "open" /\ ~ndebug[p]
  /\ pc' = [pc EXCEPT ![p] = "aborted"]
  /\ UNCHANGED <<disk, k, logfile_count, written, ndebug>>

\* logfile.open(logfile_name); assert(logfile): the file is created, or
\* truncated if it exists by now.
Open(p) ==
  /\ pc[p] = "open"
  /\ disk' = (File(p) :> Truncated) @@ disk
  /\ pc' = [pc EXCEPT ![p] = "write"]
  /\ UNCHANGED <<k, logfile_count, written, ndebug>>

\* Bug variant: logfile_count carried over from the previous report
\* instead of restarting at 0.
WriteKeepingCount(p) ==
  /\ pc[p] = "write"
  /\ disk' = [disk EXCEPT ![File(p)] = <<p, k[p]>>]
  /\ written' = written \cup {<<p, k[p]>>}
  /\ k' = [k EXCEPT ![p] = @ + 1]
  /\ pc' = [pc EXCEPT ![p] = IF k[p] = Len(Script[p]) THEN "done" ELSE "probe"]
  /\ UNCHANGED <<logfile_count, ndebug>>

\* The rows and logfile.close(); the process goes on to its next report
\* (the next kernelEnd, or the destructor), or is done.
Write(p) ==
  /\ pc[p] = "write"
  /\ disk' = [disk EXCEPT ![File(p)] = <<p, k[p]>>]
  /\ written' = written \cup {<<p, k[p]>>}
  /\ k' = [k EXCEPT ![p] = @ + 1]
  /\ logfile_count' = [logfile_count EXCEPT ![p] = 0]
  /\ pc' = [pc EXCEPT ![p] = IF k[p] = Len(Script[p]) THEN "done" ELSE "probe"]
  /\ UNCHANGED ndebug

\* Every process has exited or been aborted.
Terminated ==
  /\ \A p \in Procs : pc[p] \in {"done", "aborted"}
  /\ UNCHANGED vars

Next ==
  \/ \E p \in Procs : \/ ProbeTaken(p) \/ ProbeFree(p) \/ Open(p) \/ Write(p)
                     \/ OpenFails(p) \/ OpenFailsIgnored(p)
  \/ Terminated

Spec == Init /\ [][Next]_vars

-----------------------------------------------------------------------------

\* spec.md: the sequence number is the smallest one whose file does not
\* exist at write time, so no CSV replaces another.  Every report a
\* kernelEnd or destructor closed, and every file of an earlier run, is
\* still in the directory with its own content.
NoReportOverwritten == \A r \in written : \E f \in DOMAIN disk : disk[f] = r

\* spec.md 6: <seq> is the smallest number whose file does not exist at
\* write time.  The probe loop restarts from logfile_count = 0 for every
\* report (1116, 573), files are only ever added, and a report dropped by a
\* failed open leaves its number free: so below the number of any report
\* this run wrote, every number of its base is taken.
NoFreeNumberBelowAReport ==
  \A f \in DOMAIN disk :
    (\E p \in Procs : \E j \in DOMAIN Script[p] : disk[f] = <<p, j>>)
      => \A m \in 0 .. (f[2] - 1) : <<f[1], m>> \in DOMAIN disk

=============================================================================
