\* The table of the source against its own numbers and their neighbours.
SPECIFICATION Spec
CONSTANTS
  Threads = {t1, t2}
  Syscalls <- SampledSyscalls
  Prctl = 157
  Jeq <- DROS_SECCOMP_FILTER
INVARIANTS TypeOK FilterExact KilledForCause ArmedKeepsPrivs
CHECK_DEADLOCK FALSE
