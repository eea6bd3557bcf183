----------------------------- MODULE UserThreads -----------------------------
(* The threads of the user programs, whose system calls (Syscalls) and page  *)
(* faults (Paging) ExceptionHandler of userprog/exception.cc serves.         *)
CONSTANT Threads
=============================================================================
