------------------------------- MODULE Synch -------------------------------
(***************************************************************************)
(* The Nachos kernel's threads, scheduler and synchronisation objects:     *)
(* threads/thread.cc, threads/scheduler.cc and threads/synch.cc.           *)
(*                                                                         *)
(* There is one processor.  The routines of synch.cc run with interrupts   *)
(* off, so one call is one step up to the point where it puts its thread   *)
(* to sleep; the rest of the call is another step, taken when the          *)
(* scheduler runs the thread again.  Between two calls interrupts are on:  *)
(* the timer may make the thread yield and a device handler may V.         *)
(* The callers are not restricted: any thread may make any call, with any  *)
(* lock, in any order, as the tests of threads/threadtest.cc do.  A call   *)
(* that only prints an error and returns changes nothing and is not a step.*)
(***************************************************************************)
EXTENDS Queues, FiniteSets

CONSTANTS Threads,    \* thread objects, the main thread among them
          Main,       \* the thread that called Initialize
          Sems, Locks, Conds,
          NoThread,   \* NULL Thread*
          NoLock,     \* NULL Lock*
          NoObj,      \* a thread outside any call on a semaphore or condition
          MaxValue    \* bound on a semaphore's value

ASSUME SynchAssumption ==
    /\ Main \in Threads
    /\ NoThread \notin Threads
    /\ NoLock \notin Locks
    /\ NoObj \notin Sems \cup Conds
    /\ MaxValue \in Nat

(* Thread objects are allocated one by one from the kernel's memory. *)
ASSUME FiniteThreads == IsFiniteSet(Threads)

VARIABLES
    readyList,           \* scheduler->readyList
    currentThread,
    threadToBeDestroyed,
    status,              \* Thread::status; "DELETED" once the destructor ran
    pc,                  \* the kernel call a thread is inside of
    on,                  \* the semaphore or condition of that call
    lk,                  \* the lock of that call
    semValue, semQueue,
    lockFree, ownerThread, lockQueue,
    condQueue, waitingLock,
    held                 \* history: the locks a thread's caller believes it
                         \* holds (Acquire or Wait returned, not released since)

threadVars == <<readyList, currentThread, threadToBeDestroyed, status>>
callVars   == <<pc, on, lk>>
semVars    == <<semValue, semQueue>>
lockVars   == <<lockFree, ownerThread, lockQueue, held>>
condVars   == <<condQueue, waitingLock>>
vars == <<readyList, currentThread, threadToBeDestroyed, status, pc, on, lk,
          semValue, semQueue, lockFree, ownerThread, lockQueue,
          condQueue, waitingLock, held>>

Statuses == {"JUST_CREATED", "RUNNING", "READY", "BLOCKED", "DELETED"}
Calls    == {"fresh", "run", "P", "Acquire", "Wait", "Broadcast", "finished"}

-----------------------------------------------------------------------------
(* The processor. *)

(* currentThread executes, rather than idling inside Sleep. *)
Running(t) == currentThread = t /\ status[t] = "RUNNING"

(* No thread was ready when currentThread went to sleep: the machine idles. *)
Idle == status[currentThread] # "RUNNING"

(* Interrupts are enabled: the thread is between two kernel calls, or        *)
(* between two iterations of Broadcast, which does not disable them itself.  *)
InterruptsOn(t) == Running(t) /\ pc[t] \in {"run", "Broadcast"}

(* Run: switch to next; st, rest and doomed are what the caller leaves in    *)
(* status, readyList and threadToBeDestroyed.  A thread that has run before  *)
(* resumes after SWITCH and deletes the carcass; one that has not starts in  *)
(* ThreadRoot and does not.                                                  *)
Run(next, rest, st, doomed) ==
    /\ currentThread' = next
    /\ readyList' = rest
    /\ \/ /\ pc[next] = "fresh" \/ doomed = NoThread
          /\ status' = [st EXCEPT ![next] = "RUNNING"]
          /\ threadToBeDestroyed' = doomed
       \/ /\ pc[next] # "fresh" /\ doomed # NoThread
          /\ status' = [st EXCEPT ![next] = "RUNNING", ![doomed] = "DELETED"]
          /\ threadToBeDestroyed' = NoThread

(* Sleep: t blocks; the head of the ready list runs, or the machine idles. *)
Sleep(t, ready, st, doomed) ==
    \/ /\ ready # << >>
       /\ Run(Head(ready), Tail(ready), [st EXCEPT ![t] = "BLOCKED"], doomed)
    \/ /\ ready = << >>
       /\ status' = [st EXCEPT ![t] = "BLOCKED"]
       /\ threadToBeDestroyed' = doomed
       /\ readyList' = ready
       /\ UNCHANGED currentThread

(* ReadyToRun, in a call that does not give up the processor. *)
ReadyToRun(t) ==
    /\ status' = [status EXCEPT ![t] = "READY"]
    /\ readyList' = Append(readyList, t)
    /\ UNCHANGED <<currentThread, threadToBeDestroyed>>

Return(t) ==
    /\ pc' = [pc EXCEPT ![t] = "run"]
    /\ on' = [on EXCEPT ![t] = NoObj]
    /\ lk' = [lk EXCEPT ![t] = NoLock]

Enter(t, call, obj, lock) ==
    /\ pc' = [pc EXCEPT ![t] = call]
    /\ on' = [on EXCEPT ![t] = obj]
    /\ lk' = [lk EXCEPT ![t] = lock]

-----------------------------------------------------------------------------
(* thread.cc and scheduler.cc *)

Fork(t, u) ==
    /\ Running(t) /\ pc[t] = "run"
    /\ status[u] = "JUST_CREATED"
    /\ ReadyToRun(u)
    /\ UNCHANGED <<callVars, semVars, lockVars, condVars>>

(* The first steps of a forked thread: enable interrupts, call the function. *)
ThreadRoot(t) ==
    /\ Running(t) /\ pc[t] = "fresh"
    /\ Return(t)
    /\ UNCHANGED <<threadVars, semVars, lockVars, condVars>>

Finish(t) ==
    /\ Running(t) /\ pc[t] = "run"
    /\ Enter(t, "finished", NoObj, NoLock)
    /\ Sleep(t, readyList, status, t)
    /\ UNCHANGED <<semVars, lockVars, condVars>>

(* Yield: called by the thread, or by OneTick on the timer's request. *)
Yield(t) ==
    /\ InterruptsOn(t)
    /\ readyList # << >>
    /\ Run(Head(readyList), Append(Tail(readyList), t),
           [status EXCEPT ![t] = "READY"], threadToBeDestroyed)
    /\ UNCHANGED <<callVars, semVars, lockVars, condVars>>

(* An interrupt made a thread ready while the machine idled in Sleep's loop. *)
WakeFromIdle ==
    /\ Idle
    /\ readyList # << >>
    /\ Run(Head(readyList), Tail(readyList), status, threadToBeDestroyed)
    /\ UNCHANGED <<callVars, semVars, lockVars, condVars>>

-----------------------------------------------------------------------------
(* Semaphores *)

(* Variant of P: the woken thread takes the unit without testing the value. *)
PWithoutLoop(t, s) ==
    /\ Running(t)
    /\ pc[t] = "run" \/ (pc[t] = "P" /\ on[t] = s)
    /\ \/ /\ semValue[s] = 0 /\ pc[t] = "run"
          /\ semQueue' = [semQueue EXCEPT ![s] = Append(@, t)]
          /\ Enter(t, "P", s, NoLock)
          /\ Sleep(t, readyList, status, threadToBeDestroyed)
          /\ UNCHANGED semValue
       \/ /\ semValue[s] > 0 \/ pc[t] = "P"
          /\ semValue' = [semValue EXCEPT ![s] = @ - 1]
          /\ Return(t)
          /\ UNCHANGED <<threadVars, semQueue>>
    /\ UNCHANGED <<lockVars, condVars>>

(* P, from its start or from the Sleep of its loop: both test the value. *)
P(t, s) ==
    /\ Running(t)
    /\ pc[t] = "run" \/ (pc[t] = "P" /\ on[t] = s)
    /\ \/ /\ semValue[s] = 0
          /\ semQueue' = [semQueue EXCEPT ![s] = Append(@, t)]
          /\ Enter(t, "P", s, NoLock)
          /\ Sleep(t, readyList, status, threadToBeDestroyed)
          /\ UNCHANGED semValue
       \/ /\ semValue[s] > 0
          /\ semValue' = [semValue EXCEPT ![s] = @ - 1]
          /\ Return(t)
          /\ UNCHANGED <<threadVars, semQueue>>
    /\ UNCHANGED <<lockVars, condVars>>

(* Variant of V: the woken thread stays in the queue. *)
VKeepsWaiter(s) ==
    /\ Idle \/ InterruptsOn(currentThread)
    /\ semValue[s] < MaxValue
    /\ semValue' = [semValue EXCEPT ![s] = @ + 1]
    /\ \/ semQueue[s] # << >> /\ ReadyToRun(Head(semQueue[s]))
       \/ semQueue[s] = << >> /\ UNCHANGED threadVars
    /\ UNCHANGED <<semQueue, callVars, lockVars, condVars>>

(* V, by the current thread or by the handler of a device interrupt. *)
V(s) ==
    /\ Idle \/ InterruptsOn(currentThread)
    /\ semValue[s] < MaxValue
    /\ semValue' = [semValue EXCEPT ![s] = @ + 1]
    /\ \/ /\ semQueue[s] # << >>
          /\ semQueue' = [semQueue EXCEPT ![s] = Tail(@)]
          /\ ReadyToRun(Head(semQueue[s]))
       \/ /\ semQueue[s] = << >>
          /\ UNCHANGED <<semQueue, threadVars>>
    /\ UNCHANGED <<callVars, lockVars, condVars>>

-----------------------------------------------------------------------------
(* Locks *)

(* Acquire, called by the thread or at the end of its Wait: the lock is free *)
(* and taken, or the thread queues and sleeps.                               *)
Acquire(t, l) ==
    /\ Running(t)
    /\ pc[t] = "run" \/ (pc[t] = "Wait" /\ lk[t] = l)
    /\ ownerThread[l] # t
    /\ \/ /\ lockFree[l]
          /\ lockFree' = [lockFree EXCEPT ![l] = FALSE]
          /\ ownerThread' = [ownerThread EXCEPT ![l] = t]
          /\ held' = [held EXCEPT ![t] = @ \cup {l}]
          /\ Return(t)
          /\ UNCHANGED <<threadVars, lockQueue>>
       \/ /\ ~lockFree[l]
          /\ lockQueue' = [lockQueue EXCEPT ![l] = Append(@, t)]
          /\ Enter(t, "Acquire", NoObj, l)
          /\ Sleep(t, readyList, status, threadToBeDestroyed)
          /\ UNCHANGED <<lockFree, ownerThread, held>>
    /\ UNCHANGED <<semVars, condVars>>

(* The Sleep inside Acquire returned: Acquire returns without looking at the *)
(* lock again.                                                               *)
AcquireReturns(t) ==
    /\ Running(t) /\ pc[t] = "Acquire"
    /\ held' = [held EXCEPT ![t] = @ \cup {lk[t]}]
    /\ Return(t)
    /\ UNCHANGED <<threadVars, semVars, condVars, lockFree, ownerThread, lockQueue>>

(* Variants of what Release does: the lock is freed and the waiter woken,    *)
(* with no hand-over; the owner is not cleared.                              *)
HandOverFrees(t, l) ==
    /\ held' = [held EXCEPT ![t] = @ \ {l}]
    /\ lockFree' = [lockFree EXCEPT ![l] = TRUE]
    /\ ownerThread' = [ownerThread EXCEPT ![l] = NoThread]
    /\ lockQueue' = [lockQueue EXCEPT ![l] = IF @ = << >> THEN @ ELSE Tail(@)]

HandOverKeepsOwner(t, l) ==
    /\ held' = [held EXCEPT ![t] = @ \ {l}]
    /\ \/ /\ lockQueue[l] # << >>
          /\ ownerThread' = [ownerThread EXCEPT ![l] = Head(lockQueue[l])]
          /\ lockQueue' = [lockQueue EXCEPT ![l] = Tail(@)]
          /\ UNCHANGED lockFree
       \/ /\ lockQueue[l] = << >>
          /\ lockFree' = [lockFree EXCEPT ![l] = TRUE]
          /\ UNCHANGED <<lockQueue, ownerThread>>

(* What Release does to the lock: it goes to the first waiter, or is free. *)
HandOver(t, l) ==
    /\ held' = [held EXCEPT ![t] = @ \ {l}]
    /\ \/ /\ lockQueue[l] # << >>
          /\ ownerThread' = [ownerThread EXCEPT ![l] = Head(lockQueue[l])]
          /\ lockQueue' = [lockQueue EXCEPT ![l] = Tail(@)]
          /\ UNCHANGED lockFree
       \/ /\ lockQueue[l] = << >>
          /\ lockFree' = [lockFree EXCEPT ![l] = TRUE]
          /\ ownerThread' = [ownerThread EXCEPT ![l] = NoThread]
          /\ UNCHANGED lockQueue

Release(t, l) ==
    /\ Running(t) /\ pc[t] = "run"
    /\ ownerThread[l] = t
    /\ HandOver(t, l)
    /\ \/ lockQueue[l] # << >> /\ ReadyToRun(Head(lockQueue[l]))
       \/ lockQueue[l] = << >> /\ UNCHANGED threadVars
    /\ UNCHANGED <<callVars, semVars, condVars>>

-----------------------------------------------------------------------------
(* Conditions *)

(* Variant of Wait: the thread sleeps with the lock. *)
WaitKeepsLock(t, c, l) ==
    /\ Running(t) /\ pc[t] = "run"
    /\ waitingLock[c] \in {NoLock, l}
    /\ waitingLock' = [waitingLock EXCEPT ![c] = l]
    /\ condQueue' = [condQueue EXCEPT ![c] = Append(@, t)]
    /\ Enter(t, "Wait", c, l)
    /\ Sleep(t, readyList, status, threadToBeDestroyed)
    /\ UNCHANGED <<lockVars, semVars>>

(* Wait: its Release gives the lock up only if the caller owns it, but the   *)
(* caller goes to sleep on the condition either way.                         *)
Wait(t, c, l) ==
    /\ Running(t) /\ pc[t] = "run"
    /\ waitingLock[c] \in {NoLock, l}
    /\ waitingLock' = [waitingLock EXCEPT ![c] = l]
    /\ condQueue' = [condQueue EXCEPT ![c] = Append(@, t)]
    /\ Enter(t, "Wait", c, l)
    /\ \/ /\ ownerThread[l] = t /\ lockQueue[l] # << >>
          /\ HandOver(t, l)
          /\ LET u == Head(lockQueue[l])
             IN  Sleep(t, Append(readyList, u), [status EXCEPT ![u] = "READY"],
                       threadToBeDestroyed)
       \/ /\ ownerThread[l] = t /\ lockQueue[l] = << >>
          /\ HandOver(t, l)
          /\ Sleep(t, readyList, status, threadToBeDestroyed)
       \/ /\ ownerThread[l] # t
          /\ Sleep(t, readyList, status, threadToBeDestroyed)
          /\ UNCHANGED lockVars
    /\ UNCHANGED semVars

(* Variant of Signal: the lock stays associated with an empty queue. *)
SignalKeepsLock(c, l) ==
    /\ condQueue[c] # << >>
    /\ waitingLock[c] = l
    /\ ReadyToRun(Head(condQueue[c]))
    /\ condQueue' = [condQueue EXCEPT ![c] = Tail(@)]
    /\ UNCHANGED waitingLock

(* What Signal does when the lock passed is the one the waiters gave up. *)
SignalFirst(c, l) ==
    /\ condQueue[c] # << >>
    /\ waitingLock[c] = l
    /\ ReadyToRun(Head(condQueue[c]))
    /\ condQueue' = [condQueue EXCEPT ![c] = Tail(@)]
    /\ waitingLock' = [waitingLock EXCEPT ![c] = IF Len(condQueue[c]) = 1
                                                 THEN NoLock ELSE @]

Signal(t, c, l) ==
    /\ Running(t) /\ pc[t] = "run"
    /\ SignalFirst(c, l)
    /\ UNCHANGED <<callVars, semVars, lockVars>>

(* Broadcast loops until the queue is empty.  Each iteration is a Signal     *)
(* with interrupts on in between; a Signal that refuses its lock changes     *)
(* nothing, and the loop goes round.                                         *)
Broadcast(t, c, l) ==
    /\ Running(t) /\ pc[t] = "run"
    /\ condQueue[c] # << >>
    /\ Enter(t, "Broadcast", c, l)
    /\ UNCHANGED <<threadVars, semVars, lockVars, condVars>>

BroadcastSignal(t) ==
    /\ Running(t) /\ pc[t] = "Broadcast"
    /\ lk[t] # NoLock
    /\ SignalFirst(on[t], lk[t])
    /\ UNCHANGED <<callVars, semVars, lockVars>>

BroadcastReturns(t) ==
    /\ Running(t) /\ pc[t] = "Broadcast"
    /\ condQueue[on[t]] = << >>
    /\ Return(t)
    /\ UNCHANGED <<threadVars, semVars, lockVars, condVars>>

-----------------------------------------------------------------------------

Init ==
    /\ readyList = << >>
    /\ currentThread = Main
    /\ threadToBeDestroyed = NoThread
    /\ status = [t \in Threads |-> IF t = Main THEN "RUNNING" ELSE "JUST_CREATED"]
    /\ pc = [t \in Threads |-> IF t = Main THEN "run" ELSE "fresh"]
    /\ on = [t \in Threads |-> NoObj]
    /\ lk = [t \in Threads |-> NoLock]
    /\ semValue \in [Sems -> {0, 1}]
    /\ semQueue = [s \in Sems |-> << >>]
    /\ lockFree = [l \in Locks |-> TRUE]
    /\ ownerThread = [l \in Locks |-> NoThread]
    /\ lockQueue = [l \in Locks |-> << >>]
    /\ condQueue = [c \in Conds |-> << >>]
    /\ waitingLock = [c \in Conds |-> NoLock]
    /\ held = [t \in Threads |-> {}]

(* What the thread that has the processor may do next. *)
Step(t) ==
    \/ \E u \in Threads : Fork(t, u)
    \/ ThreadRoot(t)
    \/ Finish(t)
    \/ Yield(t)
    \/ \E s \in Sems : P(t, s)
    \/ \E l \in Locks : Acquire(t, l)
    \/ AcquireReturns(t)
    \/ \E l \in Locks : Release(t, l)
    \/ \E c \in Conds, l \in Locks : Wait(t, c, l)
    \/ \E c \in Conds, l \in Locks : Signal(t, c, l)
    \/ \E c \in Conds, l \in Locks \cup {NoLock} : Broadcast(t, c, l)
    \/ BroadcastSignal(t)
    \/ BroadcastReturns(t)

Next ==
    \/ \E t \in Threads : Step(t)
    \/ \E s \in Sems : V(s)
    \/ WakeFromIdle

Spec == Init /\ [][Next]_vars

-----------------------------------------------------------------------------
(* Properties *)

TypeOK ==
    /\ readyList \in Seq(Threads)
    /\ currentThread \in Threads
    /\ threadToBeDestroyed \in Threads \cup {NoThread}
    /\ status \in [Threads -> Statuses]
    /\ pc \in [Threads -> Calls]
    /\ on \in [Threads -> Sems \cup Conds \cup {NoObj}]
    /\ lk \in [Threads -> Locks \cup {NoLock}]
    /\ semValue \in [Sems -> Nat]
    /\ semQueue \in [Sems -> Seq(Threads)]
    /\ lockFree \in [Locks -> BOOLEAN]
    /\ ownerThread \in [Locks -> Threads \cup {NoThread}]
    /\ lockQueue \in [Locks -> Seq(Threads)]
    /\ condQueue \in [Conds -> Seq(Threads)]
    /\ waitingLock \in [Conds -> Locks \cup {NoLock}]
    /\ held \in [Threads -> SUBSET Locks]
    /\ \A t \in Threads :
          /\ pc[t] = "P" => on[t] \in Sems
          /\ pc[t] \in {"Wait", "Broadcast"} => on[t] \in Conds
          /\ pc[t] \in {"Acquire", "Wait"} => lk[t] \in Locks

(* Only currentThread runs.                                                  *)
OnlyCurrentRuns == \A t \in Threads : status[t] = "RUNNING" => t = currentThread

(* A thread is on the ready list, once, exactly when its status is READY.    *)
ReadyListSound ==
    /\ Distinct(readyList)
    /\ \A t \in Threads : Queued(readyList, t) <=> status[t] = "READY"

(* The queue of each semaphore, lock or condition holds, once each, exactly  *)
(* the threads that sleep inside P, Acquire or Wait on that object: nobody   *)
(* sleeps where no V, Release or Signal would find it, and nobody is queued  *)
(* after it was woken.                                                       *)
SemQueuesSound ==
    \A s \in Sems :
        /\ Distinct(semQueue[s])
        /\ \A t \in Threads : Queued(semQueue[s], t) <=>
               status[t] = "BLOCKED" /\ pc[t] = "P" /\ on[t] = s

LockQueuesSound ==
    \A l \in Locks :
        /\ Distinct(lockQueue[l])
        /\ \A t \in Threads : Queued(lockQueue[l], t) <=>
               status[t] = "BLOCKED" /\ pc[t] = "Acquire" /\ lk[t] = l

CondQueuesSound ==
    \A c \in Conds :
        /\ Distinct(condQueue[c])
        /\ \A t \in Threads : Queued(condQueue[c], t) <=>
               status[t] = "BLOCKED" /\ pc[t] = "Wait" /\ on[t] = c

(* The thread the next switch deletes has finished and sleeps.               *)
CarcassSleeps ==
    threadToBeDestroyed # NoThread =>
        /\ pc[threadToBeDestroyed] = "finished"
        /\ status[threadToBeDestroyed] = "BLOCKED"

(* Every thread is in one place: it runs, it is on the ready list, or it     *)
(* sleeps in the queue of the object its call is about.  This is what makes  *)
(* it safe for Sleep to return without a check in Acquire and in Wait.       *)
EveryThreadInOnePlace ==
    /\ OnlyCurrentRuns
    /\ ReadyListSound
    /\ SemQueuesSound
    /\ LockQueuesSound
    /\ CondQueuesSound
    /\ CarcassSleeps

(* Two callers never both have an Acquire (or a Wait) on a lock behind them  *)
(* and the Release still to come, although Acquire returns from Sleep        *)
(* without testing the lock and a lock is handed over before its new owner   *)
(* runs.                                                                     *)
MutualExclusion ==
    \A t, u \in Threads : t # u => held[t] \cap held[u] = {}

(* A lock is free exactly when it has no owner, nobody queues for a free     *)
(* lock, the owner is the thread that holds it or the one that was woken to  *)
(* it, and a thread is woken inside Acquire only to a lock it already owns.  *)
LockStateSound ==
    \A l \in Locks :
        /\ lockFree[l] <=> ownerThread[l] = NoThread
        /\ lockFree[l] => lockQueue[l] = << >>
        /\ \A t \in Threads : l \in held[t] <=>
               ownerThread[l] = t /\ ~(pc[t] = "Acquire" /\ lk[t] = l)
        /\ \A t \in Threads :
               pc[t] = "Acquire" /\ lk[t] = l /\ status[t] # "BLOCKED"
                   => ownerThread[l] = t

(* The threads a V took from the queue of s that have not passed P yet. *)
Woken(s) == {t \in Threads : pc[t] = "P" /\ on[t] = s /\ ~Queued(semQueue[s], t)}

(* While threads sleep on a semaphore, each unit of its value has a woken    *)
(* thread on its way to take it: no V is lost although P tests the value     *)
(* again after Sleep and threads that never slept may take the unit first.   *)
NoLostV ==
    \A s \in Sems : semQueue[s] # << >> => semValue[s] <= Cardinality(Woken(s))

(* A condition remembers a lock exactly while threads wait, and it is the    *)
(* lock each of them will acquire when signalled.                            *)
WaitersShareLock ==
    \A c \in Conds :
        /\ waitingLock[c] = NoLock <=> condQueue[c] = << >>
        /\ \A t \in Threads : Queued(condQueue[c], t) => lk[t] = waitingLock[c]

(* Whoever sleeps on a semaphore or a condition can still be woken: no unit  *)
(* of a semaphore goes by its sleepers, and no Signal with the lock of a     *)
(* condition's waiters is refused.                                           *)
SleepersSound == NoLostV /\ WaitersShareLock

(* The locks and conditions are a Mesa monitor: giving the lock up and       *)
(* joining the waiters is one step, and a lock is entered only when empty.   *)
Monitor == INSTANCE Monitor WITH
    waiters <- [c \in Conds |-> {t \in Threads : Queued(condQueue[c], t)}]

MonitorSpec == Monitor!Spec

=============================================================================
