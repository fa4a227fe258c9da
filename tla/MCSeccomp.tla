----------------------------- MODULE MCSeccomp -----------------------------
EXTENDS Seccomp, TLC

Entry(k, jt, jf) == [k |-> k, jt |-> jt, jf |-> jf]

\* The compare instructions of the table, as they stand in the source.
DROS_SECCOMP_FILTER ==
  << Entry(0,   26, 0), Entry(1,   25, 0), Entry(3,   24, 0), Entry(5,   23, 0),
     Entry(9,   22, 0), Entry(10,  21, 0), Entry(11,  20, 0), Entry(12,  19, 0),
     Entry(13,  18, 0), Entry(14,  17, 0), Entry(15,  16, 0), Entry(28,  15, 0),
     Entry(32,  14, 0), Entry(33,  13, 0), Entry(39,  12, 0), Entry(46,  11, 0),
     Entry(47,  10, 0), Entry(60,   9, 0), Entry(72,   8, 0), Entry(157,  7, 0),
     Entry(186,  6, 0), Entry(202,  5, 0), Entry(228,  4, 0), Entry(231,  3, 0),
     Entry(318,  2, 0), Entry(319,  1, 0) >>

\* The allowed numbers, their neighbours, and calls the source names as the ones
\* to keep out: open, execve, ptrace, openat, process_vm_readv, clone3.
SampledSyscalls ==
  (Nat \cap UNION {(n - 1) .. (n + 1) : n \in Allowed}) \cup {2, 59, 101, 257, 310, 435}

=============================================================================
