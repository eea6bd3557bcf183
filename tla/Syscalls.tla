------------------------------ MODULE Syscalls ------------------------------
(***************************************************************************)
(* Locks and conditions of user programs: the single-machine branches of   *)
(* the system calls of userprog/exception.cc, on top of threads/synch.cc.  *)
(*                                                                         *)
(* A user program names a lock or a condition by its index in a table of   *)
(* the kernel; a slot belongs to the address space that created it and is  *)
(* never used again.  Destroying only marks an object.  A condition that   *)
(* is marked is deleted when its queue is found empty; a lock that is      *)
(* marked is deleted by whichever thread next acquires or releases it.     *)
(*                                                                         *)
(* The kernel is preempted only where synch.cc enables interrupts again,   *)
(* which is after the effect of Lock::Release, Condition::Signal, ...: a   *)
(* step is what a thread does up to such a place, and pc tells where in    *)
(* its call a thread is.  A call that a test refuses with -1 changes       *)
(* nothing and is no step.                                                 *)
(*                                                                         *)
(* A deleted Lock or Condition is freed memory.  Its owner is read there   *)
(* as it was left or as anything, and deleting it once more may end the    *)
(* program.                                                                *)
(***************************************************************************)
EXTENDS UserThreads, Queues, Integers, FiniteSets

CONSTANTS Spaces,
          MaxLocks, MaxConditions,   \* MAX_LOCKS, MAX_CONDITIONS
          SpaceOf,                   \* currentThread->space
          NoThread                   \* a NULL Thread*

SyscallsAssumption ==
    /\ MaxLocks \in Nat
    /\ MaxConditions \in Nat
    /\ SpaceOf \in [Threads -> Spaces]
    /\ NoThread \notin Threads

ASSUME SyscallsAssumption

LockIndexes == 0..(MaxLocks - 1)
CondIndexes == 0..(MaxConditions - 1)
NoLock      == -1

VARIABLES
    lockTable,       \* the LockX of the slots in use, with their Lock
    conditionTable,  \* the ConditionX of the slots in use, with their Condition
    conditionLock,   \* the kernel's lock for CreateCondition
    pc,              \* per thread, where in which call on what it is
    holds,           \* history: the locks that calls told a thread it has
    up               \* Nachos runs

vars == <<lockTable, conditionTable, conditionLock, pc, holds, up>>

(* User: in user code.  Acquiring, Waiting, Reacquiring, Creating: asleep in *)
(* the queue of a lock, a condition, a condition's lock after a signal, the  *)
(* conditionLock.  Signaled: to take its lock again.  The others are between *)
(* two steps of their call.                                                  *)
Places == {"User", "Acquiring", "Waiting", "Signaled", "Reacquiring",
           "Releasing", "Signaling", "Broadcasting", "Creating", "Constructing"}

At(place, i, j) == [at |-> place, lock |-> i, cond |-> j]
InUser == At("User", NoLock, NoLock)

FreeLock == [owner |-> NoThread, queue |-> << >>]

-----------------------------------------------------------------------------
(* Lock and Condition of threads/synch.cc *)

(* Variant of Handed: the next thread is made ready, the lock is not its. *)
HandedFree(L) == [L EXCEPT !.owner = NoThread,
                           !.queue = IF @ = << >> THEN @ ELSE Tail(@)]

(* The lock after its owner released it: the first in its queue has it. *)
Handed(L) ==
    IF L.queue = << >> THEN [L EXCEPT !.owner = NoThread]
    ELSE [L EXCEPT !.owner = Head(L.queue), !.queue = Tail(L.queue)]

Next1(q) == IF q = << >> THEN {} ELSE {Head(q)}

(* t's call returned, and so did those of the threads in ts that it woke.    *)
Back(t, place, ts) ==
    pc' = [u \in Threads |-> IF u \in ts THEN InUser
                             ELSE IF u = t THEN place ELSE pc[u]]

(* holds when t gives up the locks out and the threads in ts get in. *)
Holding(t, out, ts, in) ==
    holds' = [u \in Threads |-> (IF u = t THEN holds[u] \ out ELSE holds[u])
                                \cup (IF u \in ts THEN in ELSE {})]

(* t acquires lock i, or sleeps in its queue at place. *)
TakeLock(t, i, place) ==
    LET L == lockTable[i]
    IN  \/ /\ L.owner = NoThread
           /\ lockTable' = [lockTable EXCEPT ![i].owner = t]
           /\ Back(t, InUser, {})
           /\ Holding(t, {}, {t}, {i})
        \/ /\ L.owner # NoThread
           /\ lockTable' = [lockTable EXCEPT ![i].queue = Append(@, t)]
           /\ Back(t, place, {})
           /\ UNCHANGED holds

(* Deleting a lock destroys its queue; the threads in it stay asleep.        *)
DeleteLock(i) ==
    /\ lockTable' = [lockTable EXCEPT ![i].isDeleted = TRUE, ![i].queue = << >>]
    /\ up' \in IF lockTable[i].isDeleted THEN BOOLEAN ELSE {TRUE}

(* The condition after a Signal with lock i: with another lock than its      *)
(* waiters have it complains, and with the last of them its lock is gone.    *)
AfterSignal(C, i) ==
    IF C.queue = << >> \/ C.waitingLock # i THEN C
    ELSE [C EXCEPT !.queue = Tail(@),
                   !.waitingLock = IF Len(C.queue) = 1 THEN NoLock ELSE @]

(* Who is awake after that Signal. *)
Awakened(C, i) == IF C.waitingLock = i THEN Next1(C.queue) ELSE {}

-----------------------------------------------------------------------------
(* The tests of the calls.  The owner of a deleted lock is read from freed   *)
(* memory, but every call that gets there refuses a deleted lock, too.       *)

Runs(t, place) == up /\ pc[t].at = place

Mine(t, table, i) == i \in DOMAIN table /\ table[i].space = SpaceOf[t]

(* Variant of HeldBy: whichever thread has the lock. *)
HeldByAnyone(t, i) == Mine(t, lockTable, i) /\ lockTable[i].owner # NoThread

HeldBy(t, i) == Mine(t, lockTable, i) /\ lockTable[i].owner = t

(* Variant of Unused: waiters do not count. *)
UnusedAlways(C) == TRUE

(* Nobody waits: a condition that is marked may be deleted. *)
Unused(C) == C.queue = << >>

Marked(X) == X.isToBeDeleted \/ X.isDeleted

FreeSlots(table, all) == all \ DOMAIN table

First(S) == CHOOSE i \in S : \A j \in S : i <= j

With(f, i, r) == [j \in DOMAIN f \cup {i} |-> IF j = i THEN r ELSE f[j]]

-----------------------------------------------------------------------------
(* Locks *)

CreateLock(t) ==
    /\ Runs(t, "User")
    /\ FreeSlots(lockTable, LockIndexes) # {}
    /\ lockTable' = With(lockTable, First(FreeSlots(lockTable, LockIndexes)),
           [owner |-> NoThread, queue |-> << >>, space |-> SpaceOf[t],
            isToBeDeleted |-> FALSE, isDeleted |-> FALSE])
    /\ UNCHANGED <<conditionTable, conditionLock, pc, holds, up>>

(* A lock that is marked is deleted here, whoever may hold it or queue. *)
Acquire(t, i) ==
    /\ Runs(t, "User")
    /\ Mine(t, lockTable, i)
    /\ lockTable[i].owner # t /\ ~lockTable[i].isDeleted
    /\ \/ /\ lockTable[i].isToBeDeleted
          /\ DeleteLock(i)
          /\ UNCHANGED <<pc, holds>>
       \/ /\ ~lockTable[i].isToBeDeleted
          /\ TakeLock(t, i, At("Acquiring", i, NoLock))
          /\ UNCHANGED up
    /\ UNCHANGED <<conditionTable, conditionLock>>

(* Lock::Release; the deletion of a marked lock comes after it. *)
Release(t, i) ==
    /\ Runs(t, "User")
    /\ HeldBy(t, i) /\ ~lockTable[i].isDeleted
    /\ LET heir == Next1(lockTable[i].queue)
       IN  /\ lockTable' = [lockTable EXCEPT ![i] = Handed(@)]
           /\ Back(t, IF lockTable[i].isToBeDeleted THEN At("Releasing", i, NoLock)
                      ELSE InUser, heir)
           /\ Holding(t, {i}, heir, {i})
    /\ UNCHANGED <<conditionTable, conditionLock, up>>

ReleaseDeletes(t) ==
    /\ Runs(t, "Releasing")
    /\ DeleteLock(pc[t].lock)
    /\ Back(t, InUser, {})
    /\ UNCHANGED <<conditionTable, conditionLock, holds>>

DestroyLock(t, i) ==
    /\ Runs(t, "User")
    /\ Mine(t, lockTable, i)
    /\ lockTable[i].owner # t /\ ~Marked(lockTable[i])
    /\ lockTable' = [lockTable EXCEPT ![i].isToBeDeleted = TRUE]
    /\ UNCHANGED <<conditionTable, conditionLock, pc, holds, up>>

-----------------------------------------------------------------------------
(* Conditions *)

(* Up to the conditionLock, whose holder goes on in Construct. *)
CreateCondition(t) ==
    /\ Runs(t, "User")
    /\ conditionLock.owner # t     \* Lock::Acquire by its owner: see Recreate
    /\ \/ /\ conditionLock.owner = NoThread
          /\ conditionLock' = [conditionLock EXCEPT !.owner = t]
          /\ Back(t, At("Constructing", NoLock, NoLock), {})
       \/ /\ conditionLock.owner # NoThread
          /\ conditionLock' = [conditionLock EXCEPT !.queue = Append(@, t)]
          /\ Back(t, At("Creating", NoLock, NoLock), {})
    /\ UNCHANGED <<lockTable, conditionTable, holds, up>>

(* A thread that found the table full and came back still has the            *)
(* conditionLock, finds the table full again, and returns.                   *)
Recreate(t) ==
    /\ Runs(t, "User")
    /\ conditionLock.owner = t
    /\ Back(t, At("Constructing", NoLock, NoLock), {})
    /\ UNCHANGED <<lockTable, conditionTable, conditionLock, holds, up>>

(* With the table full the call returns and keeps the conditionLock. *)
Construct(t) ==
    /\ Runs(t, "Constructing")
    /\ LET free == FreeSlots(conditionTable, CondIndexes)
           heir == Next1(conditionLock.queue)
       IN  \/ /\ free = {}
              /\ Back(t, InUser, {})
              /\ UNCHANGED <<conditionTable, conditionLock>>
           \/ /\ free # {}
              /\ conditionTable' = With(conditionTable, First(free),
                     [queue |-> << >>, waitingLock |-> NoLock, space |-> SpaceOf[t],
                      isToBeDeleted |-> FALSE, isDeleted |-> FALSE])
              /\ conditionLock' = Handed(conditionLock)
              /\ pc' = [u \in Threads |-> IF u = t THEN InUser
                            ELSE IF u \in heir THEN At("Constructing", NoLock, NoLock)
                            ELSE pc[u]]
    /\ UNCHANGED <<lockTable, holds, up>>

DestroyCondition(t, j) ==
    /\ Runs(t, "User")
    /\ Mine(t, conditionTable, j) /\ ~conditionTable[j].isDeleted
    /\ conditionTable' = [conditionTable EXCEPT
           ![j].isToBeDeleted = TRUE,
           ![j].isDeleted = Unused(conditionTable[j])]
    /\ UNCHANGED <<lockTable, conditionLock, pc, holds, up>>

(* Condition::Wait: with another lock than the waiters have it complains and *)
(* the call returns 0 all the same.                                          *)
Wait(t, j, i) ==
    /\ Runs(t, "User")
    /\ Mine(t, conditionTable, j) /\ ~Marked(conditionTable[j])
    /\ HeldBy(t, i) /\ ~Marked(lockTable[i])
    /\ conditionTable[j].waitingLock \in {NoLock, i}
    /\ LET heir == Next1(lockTable[i].queue)
       IN  /\ lockTable' = [lockTable EXCEPT ![i] = Handed(@)]
           /\ Back(t, At("Waiting", i, j), heir)
           /\ Holding(t, {i}, heir, {i})
    /\ conditionTable' = [conditionTable EXCEPT ![j].waitingLock = i,
                                                ![j].queue = Append(@, t)]
    /\ UNCHANGED <<conditionLock, up>>

(* The waiter is awake and acquires its lock, which may be deleted by now:   *)
(* then it finds it free, and goes on, or not, and sleeps for ever.          *)
WaitReturns(t) ==
    /\ Runs(t, "Signaled")
    /\ LET i == pc[t].lock
           place == At("Reacquiring", i, pc[t].cond)
       IN  \/ /\ ~lockTable[i].isDeleted
              /\ TakeLock(t, i, place)
           \/ /\ lockTable[i].isDeleted
              /\ \/ Back(t, InUser, {}) /\ Holding(t, {}, {t}, {i})
                 \/ Back(t, place, {}) /\ UNCHANGED holds
              /\ UNCHANGED lockTable
    /\ UNCHANGED <<conditionTable, conditionLock, up>>

(* One Condition::Signal by t with lock i, after which t is at place. *)
Signals(t, j, i, place) ==
    LET ts == Awakened(conditionTable[j], i)
    IN  /\ conditionTable' = [conditionTable EXCEPT ![j] = AfterSignal(@, i)]
        /\ pc' = [u \in Threads |-> IF u \in ts THEN [pc[u] EXCEPT !.at = "Signaled"]
                                    ELSE IF u = t THEN place ELSE pc[u]]

Signal(t, j, i) ==
    /\ Runs(t, "User")
    /\ Mine(t, conditionTable, j) /\ ~conditionTable[j].isDeleted
    /\ HeldBy(t, i) /\ ~lockTable[i].isDeleted
    /\ Signals(t, j, i, At("Signaling", i, j))
    /\ UNCHANGED <<lockTable, conditionLock, holds, up>>

(* Variant of Afterwards: the call returns without the test. *)
AfterwardsInUser(i, j) == InUser

(* Where a Broadcast goes on when the queue is empty. *)
Afterwards(i, j) == At("Signaling", i, j)

(* Condition::Broadcast is a loop of Signals until the queue is empty, which *)
(* with another lock than the waiters' does nothing but go round.            *)
Broadcast(t, j, i) ==
    /\ Runs(t, "User")
    /\ Mine(t, conditionTable, j) /\ ~conditionTable[j].isDeleted
    /\ HeldBy(t, i) /\ ~Marked(lockTable[i])
    /\ Back(t, At("Broadcasting", i, j), {})
    /\ UNCHANGED <<lockTable, conditionTable, conditionLock, holds, up>>

BroadcastSignals(t) ==
    /\ Runs(t, "Broadcasting")
    /\ LET i == pc[t].lock
           j == pc[t].cond
       IN  \/ /\ conditionTable[j].queue # << >>
              /\ Signals(t, j, i, pc[t])
              /\ UNCHANGED up
           \/ /\ conditionTable[j].queue = << >>
              /\ Back(t, Afterwards(i, j), {})
              /\ up' \in IF conditionTable[j].isDeleted THEN BOOLEAN ELSE {TRUE}
              /\ UNCHANGED conditionTable
    /\ UNCHANGED <<lockTable, conditionLock, holds>>

(* The test after Signal and Broadcast.  Another thread may have deleted the *)
(* condition since: its freed queue is empty or not, and it is deleted again.*)
SignalDeletes(t) ==
    /\ Runs(t, "Signaling")
    /\ LET j == pc[t].cond
           C == conditionTable[j]
       IN  \/ /\ C.isToBeDeleted /\ (C.isDeleted \/ Unused(C))
              /\ conditionTable' = [conditionTable EXCEPT ![j].isDeleted = TRUE]
              /\ up' \in IF C.isDeleted THEN BOOLEAN ELSE {TRUE}
           \/ /\ ~C.isToBeDeleted \/ C.isDeleted \/ ~Unused(C)
              /\ UNCHANGED <<conditionTable, up>>
    /\ Back(t, InUser, {})
    /\ UNCHANGED <<lockTable, conditionLock, holds>>

-----------------------------------------------------------------------------

Init ==
    /\ lockTable = << >>
    /\ conditionTable = << >>
    /\ conditionLock = FreeLock
    /\ pc = [t \in Threads |-> InUser]
    /\ holds = [t \in Threads |-> {}]
    /\ up = TRUE

(* A call of t's program. *)
Call(t) ==
    \/ CreateLock(t) \/ CreateCondition(t) \/ Recreate(t)
    \/ \E i \in LockIndexes : Acquire(t, i) \/ Release(t, i) \/ DestroyLock(t, i)
    \/ \E j \in CondIndexes : DestroyCondition(t, j)
    \/ \E i \in LockIndexes, j \in CondIndexes :
          Wait(t, j, i) \/ Signal(t, j, i) \/ Broadcast(t, j, i)

(* A thread in the kernel that is not asleep goes on. *)
Continue(t) ==
    \/ ReleaseDeletes(t) \/ WaitReturns(t) \/ BroadcastSignals(t)
    \/ SignalDeletes(t) \/ Construct(t)

Next == \E t \in Threads : Call(t) \/ Continue(t)

Spec == Init /\ [][Next]_vars

(* The scheduler's ready list is first in, first out. *)
FairSpec == Spec /\ \A t \in Threads : WF_vars(Continue(t))

-----------------------------------------------------------------------------
(* Properties *)

LockX == [owner : Threads \cup {NoThread}, queue : Seq(Threads), space : Spaces,
          isToBeDeleted : BOOLEAN, isDeleted : BOOLEAN]

ConditionX == [queue : Seq(Threads), waitingLock : LockIndexes \cup {NoLock},
               space : Spaces, isToBeDeleted : BOOLEAN, isDeleted : BOOLEAN]

(* The types of the variables; what is deleted was marked before. *)
TypeOK ==
    /\ DOMAIN lockTable \subseteq LockIndexes
    /\ \A i \in DOMAIN lockTable :
          /\ lockTable[i] \in LockX
          /\ lockTable[i].isDeleted => lockTable[i].isToBeDeleted
    /\ DOMAIN conditionTable \subseteq CondIndexes
    /\ \A j \in DOMAIN conditionTable :
          /\ conditionTable[j] \in ConditionX
          /\ conditionTable[j].isDeleted => conditionTable[j].isToBeDeleted
    /\ conditionLock \in [owner : Threads \cup {NoThread}, queue : Seq(Threads)]
    /\ pc \in [Threads -> [at : Places, lock : LockIndexes \cup {NoLock},
                           cond : CondIndexes \cup {NoLock}]]
    /\ holds \in [Threads -> SUBSET LockIndexes]
    /\ up \in BOOLEAN

(* What a lock that is not deleted and its threads say of each other: a      *)
(* thread that its calls told it has the lock is the owner, so that two      *)
(* never have it, also when one comes out of a Wait; the threads asleep for  *)
(* it are those in its queue; and nobody queues for a free lock.             *)
LiveLockSound == TypeOK /\
    \A i \in DOMAIN lockTable : ~lockTable[i].isDeleted =>
        LET L == lockTable[i]
        IN  /\ \A t \in Threads :
                  /\ i \in holds[t] <=> L.owner = t
                  /\ pc[t].at \in {"Acquiring", "Reacquiring"} /\ pc[t].lock = i
                        <=> Queued(L.queue, t)
            /\ L.owner = NoThread => L.queue = << >>

(* A condition is deleted only when no thread is asleep in it, although      *)
(* every thread may destroy it and the test follows the Signal later: a      *)
(* thread waiting in freed memory would never be signaled.                   *)
NobodyWaitsInDeleted ==
    \A t \in Threads : pc[t].at = "Waiting" =>
        /\ Queued(conditionTable[pc[t].cond].queue, t)
        /\ ~conditionTable[pc[t].cond].isDeleted

(* A condition that is marked is deleted once its last waiter is signaled.   *)
MarkedConditionDeleted ==
    LET Deletable(j) == /\ j \in DOMAIN conditionTable
                        /\ conditionTable[j].isToBeDeleted
                        /\ conditionTable[j].queue = << >>
    IN  \A j \in CondIndexes :
            Deletable(j) ~> ~up \/ (Deletable(j) /\ conditionTable[j].isDeleted)

=============================================================================
