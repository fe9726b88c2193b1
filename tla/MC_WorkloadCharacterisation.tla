-------------------- MODULE MC_WorkloadCharacterisation --------------------
(***************************************************************************)
(* Instances of WorkloadCharacterisation for TLC.                          *)
(***************************************************************************)
EXTENDS WorkloadCharacterisation, TLC

\* An instruction record; fields a kind of instruction does not use are 0/"".
I(op, mem, space, addr, label, width, line) ==
  [op |-> op, mem |-> mem, space |-> space, addr |-> addr, label |-> label,
   width |-> width, line |-> line]

\* A kernel whose work-items load from global memory, branch, compute on a
\* 4-wide vector, wait at a barrier, do a local atomic and a private store.
KernelWithBarrier ==
  << I("load",  "load",   AddrSpaceGlobal,  1, "a", 1, 0),
     I("br",    "none",   0,                0, "",  1, 7),
     I("add",   "none",   0,                0, "",  4, 0),
     I("barrier", "none", 0,                0, "",  1, 0),
     I("call",  "atomic", AddrSpaceLocal,   2, "",  1, 0),
     I("store", "store",  AddrSpacePrivate, 3, "p", 1, 0),
     I("ret",   "none",   0,                0, "",  1, 0) >>

\* The smallest kernel: used where only the host transfers matter.
TrivialKernel == << I("ret", "none", 0, 0, "", 1, 0) >>

\* unsigned is 32 bits wide, but TLC's integers are 32-bit signed and cannot
\* hold 2^32.  Every count reachable in these runs is far below 2^30, and
\* below it a cast modulo 2^30 and modulo 2^32 agree.
MCUnsignedLimit == 2 ^ 30

Symmetry == Permutations(Workers) \cup Permutations(Groups) \cup Permutations(Items)
====
