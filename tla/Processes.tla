----------------------------- MODULE Processes ------------------------------
(***************************************************************************)
(* Processes and their threads: the system calls Fork, Exec, Exit and Halt *)
(* of userprog/exception.cc, and the decision which Exit halts Nachos.     *)
(*                                                                         *)
(* The process started on the command line is not in the process table and *)
(* nothing sets its ID; Exec numbers the others from 1.  A process of the  *)
(* table has a count of its threads.  The first process is over with its   *)
(* first Exit, another with the Exit that brings its count to zero; the    *)
(* Exit that ends the last process halts.                                  *)
(*                                                                         *)
(* A thread in a call is preempted only where a lock operation enables     *)
(* interrupts again.  A step goes from the effect of one such operation to *)
(* the effect of the next, and pc is where the thread is then.  A thread   *)
(* asleep in a lock's queue has the pc it will go on from.                 *)
(***************************************************************************)
EXTENDS Queues, Integers, FiniteSets

CONSTANTS MaxProcesses,   \* MAX_PROCESSES; no program makes more
          MaxThreads,     \* bound on the threads of all processes
          FirstIDs        \* what the ID of the first process may be: it is
                          \* read from memory that nothing initialized

Processes == 0..(MaxProcesses - 1)
Threads   == 0..(MaxThreads - 1)

ProcessesAssumption ==
    /\ MaxProcesses \in Nat \ {0}
    /\ MaxThreads \in Nat \ {0}
    /\ FirstIDs \subseteq Nat
    /\ FirstIDs \cap Processes = {0}   \* 0, or an index outside the tables

ASSUME ProcessesAssumption

NoThread == -1
NoSpace  == -1
NoMailbox == -1

LockNames == {"forkLock", "execLock"}

VARIABLES
    numProcesses,        \* the ID of the youngest process
    numProcessesExited,  \* starts at -1, for the first process
    threadCount,         \* processTable[id]->threadCount, per process in it
    locks,               \* forkLock and execLock
    processLock,         \* per process in the table
    mailboxCount,        \* the mailbox of the next thread
    space,               \* per thread, the ID of its address space
    mailbox,             \* per thread, its mailbox
    parent,              \* per thread, the one that starts it
    pc,                  \* per thread
    halted,              \* an Exit halted Nachos
    up                   \* it did not crash, and no program halted it

vars == <<numProcesses, numProcessesExited, threadCount, locks, processLock,
          mailboxCount, space, mailbox, parent, pc, halted, up>>

tables == <<numProcesses, numProcessesExited, threadCount>>
births == <<mailboxCount, space, mailbox, parent>>

FreeLock == [owner |-> NoThread, queue |-> << >>]

-----------------------------------------------------------------------------
(* Locks *)

Taken(L, t) == IF L.owner = NoThread THEN [L EXCEPT !.owner = t]
               ELSE [L EXCEPT !.queue = Append(@, t)]

(* The lock after its owner released it to the first in its queue. *)
Released(L) ==
    IF L.queue = << >> THEN [L EXCEPT !.owner = NoThread]
    ELSE [L EXCEPT !.owner = Head(L.queue), !.queue = Tail(L.queue)]

Asleep(t) ==
    \/ \E l \in LockNames : Queued(locks[l].queue, t)
    \/ \E p \in DOMAIN processLock : Queued(processLock[p].queue, t)

(* t is at place and can go on, to the place next. *)
Goes(t, place, next) ==
    /\ up /\ ~halted
    /\ pc[t] = place /\ ~Asleep(t)
    /\ pc' = [pc EXCEPT ![t] = next]

TakesLock(t, l)    == locks' = [locks EXCEPT ![l] = Taken(@, t)]
ReleasesLock(t, l) == locks' = [locks EXCEPT ![l] = Released(@)]

Crash == up' = FALSE

(* The system call Halt; an unknown one does the same. *)
Halt(t) ==
    /\ Goes(t, "User", "User")
    /\ up' = FALSE
    /\ UNCHANGED <<tables, births, locks, processLock, halted>>

-----------------------------------------------------------------------------
(* Fork_Syscall *)

Unborn == {t \in Threads : pc[t] = "None"}
Newest == CHOOSE t \in Unborn : \A u \in Unborn : t <= u

(* Bounds: there are threads and processes for what is begun and one more. *)
RoomForThread ==
    Cardinality({t \in Threads : pc[t] \in {"Forking", "Execing"}}) < Cardinality(Unborn)
RoomForProcess ==
    numProcesses + Cardinality({t \in Threads : pc[t] = "Execing"}) + 1 \in Processes

(* t makes a thread of the process id, which does not run yet. *)
NewThread(t, id) ==
    /\ parent' = [parent EXCEPT ![Newest] = t]
    /\ space' = [space EXCEPT ![Newest] = id]
    /\ mailbox' = [mailbox EXCEPT ![Newest] = mailboxCount]
    /\ mailboxCount' = mailboxCount + 1

Fork(t) ==
    /\ RoomForThread
    /\ Goes(t, "User", "Forking")
    /\ TakesLock(t, "forkLock")
    /\ UNCHANGED <<tables, births, processLock, halted, up>>

(* A bad name or address: the call returns. *)
ForkFails(t) ==
    /\ Goes(t, "Forking", "User")
    /\ ReleasesLock(t, "forkLock")
    /\ UNCHANGED <<tables, births, processLock, halted, up>>

(* Variant of Counted: the new thread counts itself when it starts; until    *)
(* then its process may come to an end.                                      *)
CountedLater(id) == threadCount

(* The table's count with the new thread. *)
Counted(id) == [threadCount EXCEPT ![id] = @ + 1]

(* The new thread is counted, up to its page table.  The first process is    *)
(* not in the table: the pointer is NULL.                                    *)
ForkCounts(t) ==
    /\ up /\ ~halted
    /\ pc[t] = "Forking" /\ ~Asleep(t)
    /\ LET id == space[t]
       IN  \/ /\ id \in DOMAIN threadCount
              /\ threadCount' = Counted(id)
              /\ NewThread(t, id)
              /\ pc' = [pc EXCEPT ![t] = "Forked", ![Newest] = "New"]
              /\ UNCHANGED up
           \/ /\ id \notin DOMAIN threadCount
              /\ Crash
              /\ UNCHANGED <<threadCount, births, pc>>
    /\ UNCHANGED <<numProcesses, numProcessesExited, locks, processLock, halted>>

(* MakeNewPT, and the end of the exclusion; only then is the thread started. *)
ForkReleases(t) ==
    /\ Goes(t, "Forked", "Starting")
    /\ ReleasesLock(t, "forkLock")
    /\ UNCHANGED <<tables, births, processLock, halted, up>>

-----------------------------------------------------------------------------
(* Exec_Syscall *)

Exec(t) ==
    /\ RoomForThread /\ RoomForProcess
    /\ Goes(t, "User", "Execing")
    /\ TakesLock(t, "execLock")
    /\ UNCHANGED <<tables, births, processLock, halted, up>>

(* A bad name, or no such file. *)
ExecFails(t) ==
    /\ Goes(t, "Execing", "User")
    /\ ReleasesLock(t, "execLock")
    /\ UNCHANGED <<tables, births, processLock, halted, up>>

(* The process enters the table with the thread it starts with; the lock of  *)
(* its count is new, so that taking it is no wait.                           *)
ExecEnters(t) ==
    /\ up /\ ~halted
    /\ pc[t] = "Execing" /\ ~Asleep(t)
    /\ LET id == numProcesses + 1
       IN  /\ numProcesses' = id
           /\ threadCount' = [p \in DOMAIN threadCount \cup {id} |->
                                 IF p = id THEN 1 ELSE threadCount[p]]
           /\ processLock' = [p \in DOMAIN processLock \cup {id} |->
                                 IF p = id THEN FreeLock ELSE processLock[p]]
           /\ NewThread(t, id)
    /\ pc' = [pc EXCEPT ![t] = "Execed", ![Newest] = "New"]
    /\ UNCHANGED <<numProcessesExited, locks, halted, up>>

ExecReleases(t) ==
    /\ Goes(t, "Execed", "Starting")
    /\ ReleasesLock(t, "execLock")
    /\ UNCHANGED <<tables, births, processLock, halted, up>>

(* Thread::Fork of the thread that Fork or Exec made. *)
Start(t) ==
    /\ up /\ ~halted
    /\ pc[t] = "Starting"
    /\ \E u \in Threads :
          /\ pc[u] = "New" /\ parent[u] = t
          /\ pc' = [pc EXCEPT ![t] = "User", ![u] = "User"]
    /\ UNCHANGED <<tables, births, locks, processLock, halted, up>>

-----------------------------------------------------------------------------
(* Exit_Syscall *)

Exit(t) ==
    /\ Goes(t, "User", "Exiting")
    /\ TakesLock(t, "execLock")
    /\ UNCHANGED <<tables, births, processLock, halted, up>>

(* Variant of LastOne: the first process is forgotten. *)
LastOneButFirst(exited) == exited = numProcesses - 1

(* Variant of LastOne: as if the count of those that exited began at 0. *)
LastOneLate(exited) == exited = numProcesses + 1

(* With this one exited, all processes are over. *)
LastOne(exited) == exited = numProcesses

(* The thread is done; whether it ends the last process is decided here, and *)
(* it halts when it has let go of the locks.                                 *)
Verdict(ends) == IF ends /\ LastOne(numProcessesExited + 1) THEN "Halting" ELSE "Finishing"

(* The first process: each Exit of it ends it. *)
ExitFirst(t) ==
    /\ space[t] = 0
    /\ Goes(t, "Exiting", Verdict(TRUE))
    /\ numProcessesExited' = numProcessesExited + 1
    /\ ReleasesLock(t, "execLock")
    /\ UNCHANGED <<numProcesses, threadCount, births, processLock, halted, up>>

(* Another process: its lock is taken inside the execLock.  With an ID from  *)
(* nowhere there is no such lock.                                            *)
ExitTakes(t) ==
    /\ space[t] # 0
    /\ Goes(t, "Exiting", "Leaving")
    /\ \/ /\ space[t] \in DOMAIN processLock
          /\ processLock' = [processLock EXCEPT ![space[t]] = Taken(@, t)]
          /\ UNCHANGED up
       \/ /\ space[t] \notin DOMAIN processLock
          /\ Crash
          /\ UNCHANGED processLock
    /\ UNCHANGED <<tables, births, locks, halted>>

Verdicts == {"Halting", "Finishing"}

(* Where a thread is that has still to release the execLock. *)
With(v) == IF v = "Halting" THEN "LeftLast" ELSE "Left"

ExitCounts(t) ==
    LET id   == space[t]
        last == threadCount[id] = 1
    IN  /\ Goes(t, "Leaving", With(Verdict(last)))
        /\ threadCount' = [threadCount EXCEPT ![id] = @ - 1]
        /\ numProcessesExited' = numProcessesExited + IF last THEN 1 ELSE 0
        /\ processLock' = [processLock EXCEPT ![id] = Released(@)]
        /\ UNCHANGED <<numProcesses, births, locks, halted, up>>

ExitReleases(t) ==
    /\ \E v \in Verdicts : Goes(t, With(v), v)
    /\ ReleasesLock(t, "execLock")
    /\ UNCHANGED <<tables, births, processLock, halted, up>>

Finish(t) ==
    /\ Goes(t, "Finishing", "Gone")
    /\ UNCHANGED <<tables, births, locks, processLock, halted, up>>

ExitHalts(t) ==
    /\ Goes(t, "Halting", "Gone")
    /\ halted' = TRUE
    /\ UNCHANGED <<tables, births, locks, processLock, up>>

-----------------------------------------------------------------------------

Init ==
    /\ numProcesses = 0
    /\ numProcessesExited = -1
    /\ threadCount = << >>
    /\ locks = [l \in LockNames |-> FreeLock]
    /\ processLock = << >>
    /\ mailboxCount = 0
    /\ space \in {[t \in Threads |-> IF t = 0 THEN id ELSE NoSpace] : id \in FirstIDs}
    /\ mailbox = [t \in Threads |-> NoMailbox]
    /\ parent = [t \in Threads |-> NoThread]
    /\ pc = [t \in Threads |-> IF t = 0 THEN "User" ELSE "None"]
    /\ halted = FALSE
    /\ up = TRUE

(* ExceptionHandler, for the calls of this module; Yield changes nothing. *)
Call(t) == Fork(t) \/ Exec(t) \/ Exit(t) \/ Halt(t)

Continue(t) ==
    \/ ForkFails(t) \/ ForkCounts(t) \/ ForkReleases(t)
    \/ ExecFails(t) \/ ExecEnters(t) \/ ExecReleases(t) \/ Start(t)
    \/ ExitFirst(t) \/ ExitTakes(t) \/ ExitCounts(t) \/ ExitReleases(t)
    \/ Finish(t) \/ ExitHalts(t)

Next == \E t \in Threads : Call(t) \/ Continue(t)

Spec == Init /\ [][Next]_vars

(* A thread that is not asleep gets the processor again: the ready list is   *)
(* first in, first out, and user code is preempted.                          *)
FairSpec == Spec /\ \A t \in Threads : WF_vars(Continue(t))

-----------------------------------------------------------------------------
(* Properties *)

(* Where a thread is that its process still counts, and those after that. *)
Counting == {"New", "User", "Forking", "Forked", "Execing", "Execed", "Starting",
             "Exiting", "Leaving"}
Over     == {"LeftLast", "Left", "Halting", "Finishing", "Gone"}

(* The types of the variables. *)
TypeOK ==
    /\ numProcesses \in Processes
    /\ numProcessesExited \in -1..numProcesses
    /\ DOMAIN threadCount = 1..numProcesses
    /\ \A p \in DOMAIN threadCount : threadCount[p] \in 0..MaxThreads
    /\ locks \in [LockNames -> [owner : Threads \cup {NoThread}, queue : Seq(Threads)]]
    /\ DOMAIN processLock = DOMAIN threadCount
    /\ \A p \in DOMAIN processLock :
          processLock[p] \in [owner : Threads \cup {NoThread}, queue : Seq(Threads)]
    /\ mailboxCount \in Nat
    /\ space \in [Threads -> Nat \cup {NoSpace}]
    /\ mailbox \in [Threads -> 0..MaxThreads \cup {NoMailbox}]
    /\ parent \in [Threads -> Threads \cup {NoThread}]
    /\ pc \in [Threads -> Counting \cup Over \cup {"None"}]
    /\ halted \in BOOLEAN /\ up \in BOOLEAN

(* The counts that decide about halting, kept under three different locks,   *)
(* agree with the threads there are: a process's count is that of its        *)
(* threads that have not left, those not yet started included; and the       *)
(* processes counted as exited are those without such a thread.              *)
CountsSound == TypeOK /\
    LET alive(p) == {t \in Threads : space[t] = p /\ pc[t] \in Counting}
        ended    == {p \in 1..numProcesses : alive(p) = {}}
                    \cup {p \in {0} : pc[0] \in Over}
    IN  up => /\ \A p \in DOMAIN threadCount : threadCount[p] = Cardinality(alive(p))
              /\ numProcessesExited + 1 = Cardinality(ended)

(* Exit halts Nachos only when no thread of any process has anything left to *)
(* do but to finish, whatever others were forking or executing.              *)
HaltsOnlyAtTheEnd ==
    halted => \A t \in Threads : pc[t] \in {"None", "Finishing", "Gone"}

(* When all threads have called Exit, Nachos halts. *)
LastExitHalts ==
    (\A t \in Threads : pc[t] \in {"None", "Exiting", "Leaving"} \cup Over)
        ~> halted \/ ~up

=============================================================================
