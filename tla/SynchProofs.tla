---------------------------- MODULE SynchProofs ----------------------------
(* Theorems about Synch, for any number of threads and objects. *)
EXTENDS Synch, QueueTheorems, FiniteSetTheorems

USE SynchAssumption

-----------------------------------------------------------------------------
(* Queues of threads. *)

(* Append, for a thread that is not in the queue. *)
LEMMA AppendQueued ==
    ASSUME NEW q \in Seq(Threads), NEW t \in Threads
    PROVE  /\ Append(q, t) \in Seq(Threads)
           /\ Append(q, t) # << >>
           /\ \A u \in Threads : Queued(Append(q, t), u) <=> Queued(q, u) \/ u = t
           /\ Distinct(q) /\ ~Queued(q, t) => Distinct(Append(q, t))
  BY QueueAppend

(* Removal of the first thread. *)
LEMMA TailQueued ==
    ASSUME NEW q \in Seq(Threads), q # << >>, Distinct(q)
    PROVE  /\ Head(q) \in Threads
           /\ Tail(q) \in Seq(Threads)
           /\ Queued(q, Head(q))
           /\ Distinct(Tail(q))
           /\ \A u \in Threads : Queued(Tail(q), u) <=> Queued(q, u) /\ u # Head(q)
  BY QueueTail

(* The empty queue. *)
LEMMA EmptyQueued ==
    ASSUME NEW q \in Seq(Threads)
    PROVE  /\ q = << >> <=> \A u \in Threads : ~Queued(q, u)
           /\ q = << >> => Distinct(q)
  BY QueueEmpty

-----------------------------------------------------------------------------
(* The scheduler. *)

Sched == OnlyCurrentRuns /\ ReadyListSound /\ CarcassSleeps

SchedTypeOK ==
    /\ readyList \in Seq(Threads)
    /\ currentThread \in Threads
    /\ threadToBeDestroyed \in Threads \cup {NoThread}
    /\ status \in [Threads -> Statuses]

(* Scheduler::Run leaves the ready list and the statuses in agreement, and   *)
(* blocks or unblocks nobody but the carcass it deletes.                     *)
LEMMA RunSound ==
    ASSUME NEW next \in Threads, NEW rest \in Seq(Threads),
           NEW st \in [Threads -> Statuses], NEW doomed \in Threads \cup {NoThread},
           Distinct(rest),
           st[next] = "READY",
           \A u \in Threads : Queued(rest, u) <=> st[u] = "READY" /\ u # next,
           \A u \in Threads : st[u] # "RUNNING",
           doomed # NoThread => pc'[doomed] = "finished" /\ st[doomed] = "BLOCKED",
           Run(next, rest, st, doomed)
    PROVE  /\ Sched' /\ SchedTypeOK'
           /\ \A u \in Threads : pc'[u] # "finished" =>
                  (status'[u] = "BLOCKED" <=> st[u] = "BLOCKED")
  <1>1. CASE pc[next] = "fresh" \/ doomed = NoThread
    <2>1. status' = [st EXCEPT ![next] = "RUNNING"] /\ threadToBeDestroyed' = doomed
      BY <1>1 DEF Run
    <2>2. currentThread' = next /\ readyList' = rest
      BY DEF Run
    <2> QED
      BY <2>1, <2>2 DEF Sched, SchedTypeOK, OnlyCurrentRuns, ReadyListSound,
                        CarcassSleeps, Statuses
  <1>2. CASE pc[next] # "fresh" /\ doomed # NoThread
    <2>1. /\ status' = [st EXCEPT ![next] = "RUNNING", ![doomed] = "DELETED"]
          /\ threadToBeDestroyed' = NoThread
      BY <1>2 DEF Run
    <2>2. currentThread' = next /\ readyList' = rest
      BY DEF Run
    <2>3. doomed \in Threads /\ doomed # next
      BY <1>2
    <2> QED
      BY <1>2, <2>1, <2>2, <2>3 DEF Sched, SchedTypeOK, OnlyCurrentRuns,
                               ReadyListSound, CarcassSleeps, Statuses
  <1> QED
    BY <1>1, <1>2

(* Thread::Sleep blocks the thread that calls it, and nobody else. *)
LEMMA SleepSound ==
    ASSUME NEW t \in Threads, NEW ready \in Seq(Threads),
           NEW st \in [Threads -> Statuses], NEW doomed \in Threads \cup {NoThread},
           currentThread = t, st[t] = "RUNNING",
           Distinct(ready),
           \A u \in Threads : Queued(ready, u) <=> st[u] = "READY",
           \A u \in Threads : st[u] = "RUNNING" => u = t,
           doomed # NoThread =>
               pc'[doomed] = "finished" /\ (st[doomed] = "BLOCKED" \/ doomed = t),
           Sleep(t, ready, st, doomed)
    PROVE  /\ Sched' /\ SchedTypeOK'
           /\ \A u \in Threads : pc'[u] # "finished" =>
                  (status'[u] = "BLOCKED" <=> st[u] = "BLOCKED" \/ u = t)
  <1> DEFINE slept == [st EXCEPT ![t] = "BLOCKED"]
  <1>1. slept \in [Threads -> Statuses]
    BY DEF Statuses
  <1>2. CASE ready = << >>
    <2>1. /\ status' = slept /\ threadToBeDestroyed' = doomed
          /\ readyList' = ready /\ currentThread' = t
      BY <1>2 DEF Sleep
    <2> QED
      BY <1>1, <2>1 DEF Sched, SchedTypeOK, OnlyCurrentRuns, ReadyListSound,
                        CarcassSleeps
  <1>3. CASE ready # << >>
    <2>1. Run(Head(ready), Tail(ready), slept, doomed)
      BY <1>3 DEF Sleep
    <2>2. /\ Head(ready) \in Threads /\ Tail(ready) \in Seq(Threads)
          /\ Queued(ready, Head(ready)) /\ Distinct(Tail(ready))
          /\ \A u \in Threads : Queued(Tail(ready), u)
                                   <=> Queued(ready, u) /\ u # Head(ready)
      BY <1>3, TailQueued
    <2>3. /\ slept[Head(ready)] = "READY"
          /\ \A u \in Threads : slept[u] # "RUNNING"
          /\ \A u \in Threads : Queued(Tail(ready), u)
                                   <=> slept[u] = "READY" /\ u # Head(ready)
          /\ doomed # NoThread => pc'[doomed] = "finished" /\ slept[doomed] = "BLOCKED"
          /\ \A u \in Threads : slept[u] = "BLOCKED" <=> st[u] = "BLOCKED" \/ u = t
      BY <2>2
    <2> HIDE DEF slept
    <2>4. /\ Sched' /\ SchedTypeOK'
          /\ \A u \in Threads : pc'[u] # "finished" =>
                 (status'[u] = "BLOCKED" <=> slept[u] = "BLOCKED")
      <3> DEFINE next == Head(ready)
                 rest == Tail(ready)
      <3>1. /\ next \in Threads /\ rest \in Seq(Threads)
            /\ Distinct(rest) /\ slept[next] = "READY"
            /\ \A u \in Threads : Queued(rest, u) <=> slept[u] = "READY" /\ u # next
            /\ Run(next, rest, slept, doomed)
        BY <2>1, <2>2, <2>3
      <3> HIDE DEF next, rest
      <3> QED
        BY <1>1, <2>3, <3>1, RunSound
    <2> QED
      BY <2>3, <2>4
  <1> QED
    BY <1>2, <1>3

(* Scheduler::ReadyToRun wakes one thread. *)
LEMMA ReadyToRunSound ==
    ASSUME SchedTypeOK, Sched, NEW u \in Threads,
           status[u] \in {"BLOCKED", "JUST_CREATED"}, u # threadToBeDestroyed,
           threadToBeDestroyed # NoThread =>
               pc'[threadToBeDestroyed] = pc[threadToBeDestroyed],
           ReadyToRun(u)
    PROVE  /\ Sched' /\ SchedTypeOK'
           /\ \A w \in Threads :
                  status'[w] = "BLOCKED" <=> status[w] = "BLOCKED" /\ w # u
  <1>1. /\ status' = [status EXCEPT ![u] = "READY"]
        /\ readyList' = Append(readyList, u)
        /\ currentThread' = currentThread
        /\ threadToBeDestroyed' = threadToBeDestroyed
    BY DEF ReadyToRun
  <1>2. /\ readyList' \in Seq(Threads)
        /\ \A w \in Threads : Queued(readyList', w) <=> Queued(readyList, w) \/ w = u
        /\ Distinct(readyList')
    BY <1>1, AppendQueued DEF Sched, SchedTypeOK, ReadyListSound
  <1>3. status' \in [Threads -> Statuses]
    BY <1>1 DEF SchedTypeOK, Statuses
  <1> QED
    BY <1>1, <1>2, <1>3 DEF Sched, SchedTypeOK, OnlyCurrentRuns, ReadyListSound,
                            CarcassSleeps

-----------------------------------------------------------------------------
(* The inductive invariant and the actions, one lemma each. *)

ObjectsSound == SemQueuesSound /\ LockQueuesSound /\ CondQueuesSound

IInv == TypeOK /\ Sched /\ ObjectsSound /\ LockStateSound

CallTypeOK ==
    /\ pc \in [Threads -> Calls]
    /\ on \in [Threads -> Sems \cup Conds \cup {NoObj}]
    /\ lk \in [Threads -> Locks \cup {NoLock}]
    /\ \A t \in Threads :
          /\ pc[t] = "P" => on[t] \in Sems
          /\ pc[t] \in {"Wait", "Broadcast"} => on[t] \in Conds
          /\ pc[t] \in {"Acquire", "Wait"} => lk[t] \in Locks

LEMMA ReturnTyped ==
    ASSUME CallTypeOK, NEW t \in Threads, Return(t)
    PROVE  /\ CallTypeOK'
           /\ pc'[t] = "run"
           /\ \A u \in Threads \ {t} : pc'[u] = pc[u] /\ on'[u] = on[u] /\ lk'[u] = lk[u]
  BY DEF CallTypeOK, Return, Calls

LEMMA EnterTyped ==
    ASSUME CallTypeOK, NEW t \in Threads, NEW call \in Calls,
           NEW obj \in Sems \cup Conds \cup {NoObj}, NEW lock \in Locks \cup {NoLock},
           call = "P" => obj \in Sems,
           call \in {"Wait", "Broadcast"} => obj \in Conds,
           call \in {"Acquire", "Wait"} => lock \in Locks,
           Enter(t, call, obj, lock)
    PROVE  /\ CallTypeOK'
           /\ pc'[t] = call /\ on'[t] = obj /\ lk'[t] = lock
           /\ \A u \in Threads \ {t} : pc'[u] = pc[u] /\ on'[u] = on[u] /\ lk'[u] = lk[u]
  BY DEF CallTypeOK, Enter

(* Queues a step leaves alone stay right if it moves no thread into or out   *)
(* of a sleep in them.                                                       *)
LEMMA SemFrame ==
    ASSUME SemQueuesSound, UNCHANGED semQueue,
           \A u \in Threads :
              \/ /\ pc'[u] = pc[u] /\ on'[u] = on[u]
                 /\ status'[u] = "BLOCKED" <=> status[u] = "BLOCKED"
              \/ /\ pc[u] # "P" \/ status[u] # "BLOCKED"
                 /\ pc'[u] # "P" \/ status'[u] # "BLOCKED"
    PROVE  SemQueuesSound'
  BY DEF SemQueuesSound

LEMMA LockFrame ==
    ASSUME LockQueuesSound, UNCHANGED lockQueue,
           \A u \in Threads :
              \/ /\ pc'[u] = pc[u] /\ lk'[u] = lk[u]
                 /\ status'[u] = "BLOCKED" <=> status[u] = "BLOCKED"
              \/ /\ pc[u] # "Acquire" \/ status[u] # "BLOCKED"
                 /\ pc'[u] # "Acquire" \/ status'[u] # "BLOCKED"
    PROVE  LockQueuesSound'
  BY DEF LockQueuesSound

LEMMA CondFrame ==
    ASSUME CondQueuesSound, UNCHANGED condQueue,
           \A u \in Threads :
              \/ /\ pc'[u] = pc[u] /\ on'[u] = on[u]
                 /\ status'[u] = "BLOCKED" <=> status[u] = "BLOCKED"
              \/ /\ pc[u] # "Wait" \/ status[u] # "BLOCKED"
                 /\ pc'[u] # "Wait" \/ status'[u] # "BLOCKED"
    PROVE  CondQueuesSound'
  BY DEF CondQueuesSound

LEMMA ObjectsFrame ==
    ASSUME ObjectsSound, UNCHANGED <<semQueue, lockQueue, condQueue>>,
           \A u \in Threads :
              \/ /\ pc'[u] = pc[u] /\ on'[u] = on[u] /\ lk'[u] = lk[u]
                 /\ status'[u] = "BLOCKED" <=> status[u] = "BLOCKED"
              \/ /\ pc[u] \notin {"P", "Acquire", "Wait"} \/ status[u] # "BLOCKED"
                 /\ pc'[u] \notin {"P", "Acquire", "Wait"} \/ status'[u] # "BLOCKED"
    PROVE  ObjectsSound'
  BY SemFrame, LockFrame, CondFrame DEF ObjectsSound

(* A step that leaves the locks alone and wakes nobody inside Acquire. *)
LEMMA LocksFrame ==
    ASSUME LockStateSound, UNCHANGED lockVars,
           \A u \in Threads :
              \/ /\ pc'[u] = pc[u] /\ lk'[u] = lk[u]
                 /\ status'[u] # "BLOCKED" => status[u] # "BLOCKED"
              \/ pc[u] # "Acquire" /\ pc'[u] # "Acquire"
    PROVE  LockStateSound'
  BY DEF LockStateSound, lockVars

LEMMA TypeParts ==
    ASSUME SchedTypeOK', CallTypeOK',
           semValue' \in [Sems -> Nat], semQueue' \in [Sems -> Seq(Threads)],
           lockFree' \in [Locks -> BOOLEAN],
           ownerThread' \in [Locks -> Threads \cup {NoThread}],
           lockQueue' \in [Locks -> Seq(Threads)],
           condQueue' \in [Conds -> Seq(Threads)],
           waitingLock' \in [Conds -> Locks \cup {NoLock}],
           held' \in [Threads -> SUBSET Locks]
    PROVE  TypeOK'
  BY DEF TypeOK, SchedTypeOK, CallTypeOK

LEMMA IInvParts ==
    ASSUME IInv
    PROVE  SchedTypeOK /\ CallTypeOK
  BY DEF IInv, TypeOK, SchedTypeOK, CallTypeOK

LEMMA ForkInv ==
    ASSUME IInv, NEW t \in Threads, NEW u \in Threads, Fork(t, u)
    PROVE  IInv'
  <1>1. /\ Sched' /\ SchedTypeOK'
        /\ \A w \in Threads : status'[w] = "BLOCKED" <=> status[w] = "BLOCKED" /\ w # u
    BY IInvParts, ReadyToRunSound DEF Fork, callVars, IInv, Sched, CarcassSleeps, SchedTypeOK
  <1>2. ObjectsSound'
    BY <1>1, ObjectsFrame DEF IInv, Fork, callVars, semVars, lockVars, condVars
  <1>3. LockStateSound'
    BY <1>1, LocksFrame DEF IInv, Fork, callVars
  <1>4. TypeOK'
    BY <1>1, IInvParts, TypeParts
       DEF IInv, TypeOK, CallTypeOK, Fork, callVars, semVars, lockVars, condVars
  <1> QED
    BY <1>1, <1>2, <1>3, <1>4 DEF IInv

LEMMA ThreadRootInv ==
    ASSUME IInv, NEW t \in Threads, ThreadRoot(t)
    PROVE  IInv'
  <1>1. /\ CallTypeOK' /\ pc'[t] = "run"
        /\ \A u \in Threads \ {t} : pc'[u] = pc[u] /\ on'[u] = on[u] /\ lk'[u] = lk[u]
    BY IInvParts, ReturnTyped DEF ThreadRoot
  <1>2. Sched' /\ SchedTypeOK'
    <2>1. threadToBeDestroyed # t
      BY DEF ThreadRoot, Running, IInv, Sched, CarcassSleeps
    <2> QED
      BY <1>1, <2>1, IInvParts
         DEF ThreadRoot, threadVars, IInv, Sched, SchedTypeOK, OnlyCurrentRuns,
             ReadyListSound, CarcassSleeps
  <1>3. ObjectsSound'
    BY <1>1, ObjectsFrame
       DEF IInv, ThreadRoot, Running, threadVars, semVars, lockVars, condVars
  <1>4. LockStateSound'
    BY <1>1, LocksFrame DEF IInv, ThreadRoot, Running, threadVars
  <1>5. TypeOK'
    BY <1>1, <1>2, TypeParts
       DEF IInv, TypeOK, ThreadRoot, semVars, lockVars, condVars
  <1> QED
    BY <1>2, <1>3, <1>4, <1>5 DEF IInv

LEMMA FinishInv ==
    ASSUME IInv, NEW t \in Threads, Finish(t)
    PROVE  IInv'
  <1>1. /\ CallTypeOK' /\ pc'[t] = "finished"
        /\ \A u \in Threads \ {t} : pc'[u] = pc[u] /\ on'[u] = on[u] /\ lk'[u] = lk[u]
    BY IInvParts, EnterTyped DEF Finish, Calls
  <1>2. /\ Sched' /\ SchedTypeOK'
        /\ \A u \in Threads : pc'[u] # "finished" =>
               (status'[u] = "BLOCKED" <=> status[u] = "BLOCKED" \/ u = t)
    <2>1. /\ readyList \in Seq(Threads) /\ status \in [Threads -> Statuses]
          /\ currentThread = t /\ status[t] = "RUNNING" /\ Distinct(readyList)
          /\ \A u \in Threads : Queued(readyList, u) <=> status[u] = "READY"
          /\ \A u \in Threads : status[u] = "RUNNING" => u = t
          /\ Sleep(t, readyList, status, t)
      BY IInvParts DEF Finish, Running, IInv, Sched, OnlyCurrentRuns, ReadyListSound,
                       SchedTypeOK
    <2> QED
      BY <1>1, <2>1, SleepSound
  <1>3. ObjectsSound'
    BY <1>1, <1>2, ObjectsFrame
       DEF IInv, Finish, Running, semVars, lockVars, condVars
  <1>4. LockStateSound'
    BY <1>1, <1>2, LocksFrame DEF IInv, Finish
  <1>5. TypeOK'
    BY <1>1, <1>2, TypeParts
       DEF IInv, TypeOK, Finish, semVars, lockVars, condVars
  <1> QED
    BY <1>2, <1>3, <1>4, <1>5 DEF IInv

LEMMA YieldInv ==
    ASSUME IInv, NEW t \in Threads, Yield(t)
    PROVE  IInv'
  <1> DEFINE next == Head(readyList)
             rest == Append(Tail(readyList), t)
             st   == [status EXCEPT ![t] = "READY"]
  <1>1. /\ readyList \in Seq(Threads) /\ readyList # << >> /\ Distinct(readyList)
        /\ status[t] = "RUNNING" /\ pc' = pc /\ on' = on /\ lk' = lk
        /\ \A u \in Threads : Queued(readyList, u) <=> status[u] = "READY"
        /\ \A u \in Threads : status[u] = "RUNNING" => u = t
        /\ Run(next, rest, st, threadToBeDestroyed)
    BY IInvParts DEF Yield, InterruptsOn, Running, IInv, Sched, OnlyCurrentRuns,
                     ReadyListSound, SchedTypeOK, callVars
  <1>2. /\ next \in Threads /\ Tail(readyList) \in Seq(Threads)
        /\ Queued(readyList, next) /\ Distinct(Tail(readyList))
        /\ \A u \in Threads : Queued(Tail(readyList), u)
                                 <=> Queued(readyList, u) /\ u # next
    BY <1>1, TailQueued
  <1>3. /\ rest \in Seq(Threads) /\ Distinct(rest)
        /\ \A u \in Threads : Queued(rest, u) <=> Queued(Tail(readyList), u) \/ u = t
    BY <1>1, <1>2, AppendQueued
  <1>4. st \in [Threads -> Statuses]
    BY IInvParts DEF SchedTypeOK, Statuses
  <1>5. /\ st[next] = "READY"
        /\ \A u \in Threads : Queued(rest, u) <=> st[u] = "READY" /\ u # next
        /\ \A u \in Threads : st[u] # "RUNNING"
        /\ \A u \in Threads : st[u] = "BLOCKED" <=> status[u] = "BLOCKED"
        /\ threadToBeDestroyed \in Threads \cup {NoThread}
        /\ threadToBeDestroyed # NoThread =>
               pc'[threadToBeDestroyed] = "finished" /\ st[threadToBeDestroyed] = "BLOCKED"
    BY <1>1, <1>2, <1>3, IInvParts DEF IInv, Sched, CarcassSleeps, SchedTypeOK
  <1>6. /\ Sched' /\ SchedTypeOK'
        /\ \A u \in Threads : pc'[u] # "finished" =>
               (status'[u] = "BLOCKED" <=> status[u] = "BLOCKED")
    <2> HIDE DEF next, rest, st
    <2> QED
      BY <1>1, <1>2, <1>3, <1>4, <1>5, RunSound
  <1>7. ObjectsSound'
    BY <1>1, <1>6, ObjectsFrame DEF IInv, Yield, semVars, lockVars, condVars
  <1>8. LockStateSound'
    BY <1>1, <1>6, LocksFrame DEF IInv, Yield
  <1>9. TypeOK'
    BY <1>1, <1>6, IInvParts, TypeParts
       DEF IInv, TypeOK, CallTypeOK, Yield, callVars, semVars, lockVars, condVars
  <1> QED
    BY <1>6, <1>7, <1>8, <1>9 DEF IInv

LEMMA WakeFromIdleInv ==
    ASSUME IInv, WakeFromIdle
    PROVE  IInv'
  <1> DEFINE next == Head(readyList)
             rest == Tail(readyList)
  <1>1. /\ readyList \in Seq(Threads) /\ readyList # << >> /\ Distinct(readyList)
        /\ pc' = pc /\ on' = on /\ lk' = lk
        /\ \A u \in Threads : Queued(readyList, u) <=> status[u] = "READY"
        /\ \A u \in Threads : status[u] # "RUNNING"
        /\ status \in [Threads -> Statuses]
        /\ threadToBeDestroyed \in Threads \cup {NoThread}
        /\ threadToBeDestroyed # NoThread =>
               pc'[threadToBeDestroyed] = "finished"
               /\ status[threadToBeDestroyed] = "BLOCKED"
        /\ Run(next, rest, status, threadToBeDestroyed)
    BY IInvParts DEF WakeFromIdle, Idle, IInv, Sched, OnlyCurrentRuns,
                     ReadyListSound, CarcassSleeps, SchedTypeOK, callVars
  <1>2. /\ next \in Threads /\ rest \in Seq(Threads)
        /\ Queued(readyList, next) /\ Distinct(rest)
        /\ \A u \in Threads : Queued(rest, u) <=> Queued(readyList, u) /\ u # next
    BY <1>1, TailQueued
  <1>3. /\ Sched' /\ SchedTypeOK'
        /\ \A u \in Threads : pc'[u] # "finished" =>
               (status'[u] = "BLOCKED" <=> status[u] = "BLOCKED")
    <2> HIDE DEF next, rest
    <2> QED
      BY <1>1, <1>2, RunSound
  <1>4. ObjectsSound'
    BY <1>1, <1>3, ObjectsFrame DEF IInv, WakeFromIdle, semVars, lockVars, condVars
  <1>5. LockStateSound'
    BY <1>1, <1>3, LocksFrame DEF IInv, WakeFromIdle
  <1>6. TypeOK'
    BY <1>1, <1>3, IInvParts, TypeParts
       DEF IInv, TypeOK, CallTypeOK, WakeFromIdle, callVars, semVars, lockVars, condVars
  <1> QED
    BY <1>3, <1>4, <1>5, <1>6 DEF IInv

(* The thread that runs is in no queue and is nobody's carcass. *)
LEMMA RunningThread ==
    ASSUME IInv, NEW t \in Threads, Running(t)
    PROVE  /\ readyList \in Seq(Threads) /\ status \in [Threads -> Statuses]
           /\ currentThread = t /\ status[t] = "RUNNING" /\ Distinct(readyList)
           /\ \A u \in Threads : Queued(readyList, u) <=> status[u] = "READY"
           /\ \A u \in Threads : status[u] = "RUNNING" => u = t
           /\ threadToBeDestroyed \in Threads \cup {NoThread}
           /\ threadToBeDestroyed # t
           /\ threadToBeDestroyed # NoThread =>
                  /\ pc[threadToBeDestroyed] = "finished"
                  /\ status[threadToBeDestroyed] = "BLOCKED"
           /\ \A s \in Sems : ~Queued(semQueue[s], t)
           /\ \A l \in Locks : ~Queued(lockQueue[l], t)
           /\ \A c \in Conds : ~Queued(condQueue[c], t)
  BY IInvParts DEF Running, IInv, Sched, OnlyCurrentRuns, ReadyListSound, CarcassSleeps,
                   SchedTypeOK, ObjectsSound, SemQueuesSound, LockQueuesSound,
                   CondQueuesSound

(* The thread that runs returns from a call and keeps the processor. *)
LEMMA ReturnKeepsSched ==
    ASSUME IInv, NEW t \in Threads, Running(t), Return(t), UNCHANGED threadVars
    PROVE  Sched' /\ SchedTypeOK'
  <1>1. \A u \in Threads \ {t} : pc'[u] = pc[u]
    BY IInvParts, ReturnTyped
  <1> QED
    BY <1>1, IInvParts, RunningThread
       DEF threadVars, IInv, Sched, SchedTypeOK, OnlyCurrentRuns, ReadyListSound,
           CarcassSleeps

(* The thread that runs goes to sleep, alone. *)
LEMMA SleepFromRunning ==
    ASSUME IInv, NEW t \in Threads, Running(t),
           \A u \in Threads \ {t} : pc'[u] = pc[u],
           Sleep(t, readyList, status, threadToBeDestroyed)
    PROVE  /\ Sched' /\ SchedTypeOK'
           /\ \A u \in Threads : pc'[u] # "finished" =>
                  (status'[u] = "BLOCKED" <=> status[u] = "BLOCKED" \/ u = t)
  <1>1. threadToBeDestroyed # NoThread =>
            pc'[threadToBeDestroyed] = "finished"
            /\ (status[threadToBeDestroyed] = "BLOCKED" \/ threadToBeDestroyed = t)
    BY RunningThread
  <1> QED
    BY <1>1, RunningThread, SleepSound

LEMMA PInv ==
    ASSUME IInv, NEW t \in Threads, NEW s \in Sems, P(t, s)
    PROVE  IInv'
  <1>1. Running(t) /\ pc[t] \in {"run", "P"} /\ UNCHANGED <<lockVars, condVars>>
    BY DEF P
  <1>2. CASE semValue[s] = 0
    <2>1. /\ semQueue' = [semQueue EXCEPT ![s] = Append(@, t)]
          /\ Enter(t, "P", s, NoLock)
          /\ Sleep(t, readyList, status, threadToBeDestroyed)
          /\ semValue' = semValue
      BY <1>2 DEF P
    <2>2. /\ CallTypeOK' /\ pc'[t] = "P" /\ on'[t] = s
          /\ \A u \in Threads \ {t} : pc'[u] = pc[u] /\ on'[u] = on[u] /\ lk'[u] = lk[u]
      BY <2>1, IInvParts, EnterTyped DEF Calls
    <2>3. /\ Sched' /\ SchedTypeOK'
          /\ \A u \in Threads : pc'[u] # "finished" =>
                 (status'[u] = "BLOCKED" <=> status[u] = "BLOCKED" \/ u = t)
      BY <1>1, <2>1, <2>2, SleepFromRunning
    <2>4. \A r \in Sems : semQueue[r] \in Seq(Threads)
      BY DEF IInv, TypeOK
    <2>5. /\ semQueue' \in [Sems -> Seq(Threads)]
          /\ Distinct(semQueue'[s])
          /\ \A u \in Threads : Queued(semQueue'[s], u) <=> Queued(semQueue[s], u) \/ u = t
          /\ \A r \in Sems \ {s} : semQueue'[r] = semQueue[r]
      <3>1. /\ Append(semQueue[s], t) \in Seq(Threads)
            /\ Distinct(Append(semQueue[s], t))
            /\ \A u \in Threads : Queued(Append(semQueue[s], t), u)
                                     <=> Queued(semQueue[s], u) \/ u = t
        BY <1>1, <2>4, AppendQueued, RunningThread DEF IInv, ObjectsSound, SemQueuesSound
      <3> QED
        BY <2>1, <2>4, <3>1 DEF IInv, TypeOK
    <2>6. SemQueuesSound'
      BY <1>1, <2>2, <2>3, <2>5, RunningThread DEF IInv, ObjectsSound, SemQueuesSound
    <2>7. LockQueuesSound' /\ CondQueuesSound'
      BY <1>1, <2>2, <2>3, LockFrame, CondFrame
         DEF IInv, ObjectsSound, lockVars, condVars, Running
    <2>8. LockStateSound'
      BY <1>1, <2>2, <2>3, LocksFrame DEF IInv
    <2>9. TypeOK'
      BY <1>1, <2>1, <2>2, <2>3, <2>5, TypeParts DEF IInv, TypeOK, lockVars, condVars
    <2> QED
      BY <2>3, <2>6, <2>7, <2>8, <2>9 DEF IInv, ObjectsSound
  <1>3. CASE semValue[s] > 0
    <2>1. /\ semValue' = [semValue EXCEPT ![s] = @ - 1]
          /\ Return(t) /\ UNCHANGED threadVars /\ semQueue' = semQueue
      BY <1>3 DEF P
    <2>2. /\ CallTypeOK' /\ pc'[t] = "run"
          /\ \A u \in Threads \ {t} : pc'[u] = pc[u] /\ on'[u] = on[u] /\ lk'[u] = lk[u]
      BY <2>1, IInvParts, ReturnTyped
    <2>3. Sched' /\ SchedTypeOK' /\ status' = status
      BY <1>1, <2>1, ReturnKeepsSched DEF threadVars
    <2>4. ObjectsSound'
      BY <1>1, <2>1, <2>2, <2>3, ObjectsFrame
         DEF IInv, lockVars, condVars, Running
    <2>5. LockStateSound'
      BY <1>1, <2>2, <2>3, LocksFrame DEF IInv
    <2>6. semValue' \in [Sems -> Nat]
      BY <1>3, <2>1 DEF IInv, TypeOK
    <2>7. TypeOK'
      BY <1>1, <2>1, <2>2, <2>3, <2>6, TypeParts DEF IInv, TypeOK, lockVars, condVars
    <2> QED
      BY <2>3, <2>4, <2>5, <2>7 DEF IInv
  <1> QED
    BY <1>2, <1>3 DEF P, IInv, TypeOK

LEMMA VInv ==
    ASSUME IInv, NEW s \in Sems, V(s)
    PROVE  IInv'
  <1>1. /\ pc' = pc /\ on' = on /\ lk' = lk /\ CallTypeOK'
        /\ UNCHANGED <<lockVars, condVars>>
    BY IInvParts DEF V, callVars, CallTypeOK
  <1>2. semValue' \in [Sems -> Nat]
    BY DEF V, IInv, TypeOK
  <1>3. CASE semQueue[s] # << >>
    <2> DEFINE u == Head(semQueue[s])
    <2>1. semQueue' = [semQueue EXCEPT ![s] = Tail(@)] /\ ReadyToRun(u)
      BY <1>3 DEF V
    <2>2. /\ u \in Threads /\ Tail(semQueue[s]) \in Seq(Threads)
          /\ Queued(semQueue[s], u) /\ Distinct(Tail(semQueue[s]))
          /\ \A w \in Threads : Queued(Tail(semQueue[s]), w)
                                   <=> Queued(semQueue[s], w) /\ w # u
      BY <1>3, TailQueued DEF IInv, TypeOK, ObjectsSound, SemQueuesSound
    <2>3. status[u] = "BLOCKED" /\ pc[u] = "P" /\ on[u] = s
      BY <2>2 DEF IInv, ObjectsSound, SemQueuesSound
    <2> HIDE DEF u
    <2>4. /\ Sched' /\ SchedTypeOK'
          /\ \A w \in Threads : status'[w] = "BLOCKED" <=> status[w] = "BLOCKED" /\ w # u
      BY <1>1, <2>1, <2>2, <2>3, IInvParts, ReadyToRunSound DEF IInv, Sched, CarcassSleeps
    <2>5. /\ semQueue' \in [Sems -> Seq(Threads)]
          /\ Distinct(semQueue'[s])
          /\ \A w \in Threads : Queued(semQueue'[s], w) <=> Queued(semQueue[s], w) /\ w # u
          /\ \A r \in Sems \ {s} : semQueue'[r] = semQueue[r]
      BY <2>1, <2>2 DEF IInv, TypeOK
    <2>6. SemQueuesSound'
      BY <1>1, <2>3, <2>4, <2>5 DEF IInv, ObjectsSound, SemQueuesSound
    <2>7. LockQueuesSound' /\ CondQueuesSound'
      BY <1>1, <2>3, <2>4, LockFrame, CondFrame DEF IInv, ObjectsSound, lockVars, condVars
    <2>8. LockStateSound'
      BY <1>1, <2>3, <2>4, LocksFrame DEF IInv
    <2>9. TypeOK'
      BY <1>1, <1>2, <2>4, <2>5, TypeParts DEF IInv, TypeOK, lockVars, condVars
    <2> QED
      BY <2>4, <2>6, <2>7, <2>8, <2>9 DEF IInv, ObjectsSound
  <1>4. CASE semQueue[s] = << >>
    <2>1. semQueue' = semQueue /\ UNCHANGED threadVars
      BY <1>4 DEF V
    <2>2. Sched' /\ SchedTypeOK' /\ status' = status
      BY <1>1, <2>1, IInvParts
         DEF threadVars, IInv, Sched, SchedTypeOK, OnlyCurrentRuns, ReadyListSound,
             CarcassSleeps
    <2>3. ObjectsSound'
      BY <1>1, <2>1, <2>2, ObjectsFrame DEF IInv, lockVars, condVars
    <2>4. LockStateSound'
      BY <1>1, <2>2, LocksFrame DEF IInv
    <2>5. TypeOK'
      BY <1>1, <1>2, <2>1, <2>2, TypeParts DEF IInv, TypeOK, lockVars, condVars
    <2> QED
      BY <2>2, <2>3, <2>4, <2>5 DEF IInv
  <1> QED
    BY <1>3, <1>4

LEMMA AcquireInv ==
    ASSUME IInv, NEW t \in Threads, NEW l \in Locks, Acquire(t, l)
    PROVE  IInv'
  <1>1. /\ Running(t) /\ pc[t] \in {"run", "Wait"} /\ ownerThread[l] # t
        /\ UNCHANGED <<semVars, condVars>>
    BY DEF Acquire
  <1>2. CASE lockFree[l]
    <2>1. /\ lockFree' = [lockFree EXCEPT ![l] = FALSE]
          /\ ownerThread' = [ownerThread EXCEPT ![l] = t]
          /\ held' = [held EXCEPT ![t] = @ \cup {l}]
          /\ Return(t) /\ UNCHANGED threadVars /\ lockQueue' = lockQueue
      BY <1>2 DEF Acquire
    <2>2. /\ CallTypeOK' /\ pc'[t] = "run"
          /\ \A u \in Threads \ {t} : pc'[u] = pc[u] /\ on'[u] = on[u] /\ lk'[u] = lk[u]
      BY <2>1, IInvParts, ReturnTyped
    <2>3. Sched' /\ SchedTypeOK' /\ status' = status
      BY <1>1, <2>1, ReturnKeepsSched DEF threadVars
    <2>4. ObjectsSound'
      BY <1>1, <2>1, <2>2, <2>3, ObjectsFrame
         DEF IInv, semVars, condVars, Running
    <2>5. /\ lockFree' \in [Locks -> BOOLEAN]
          /\ ownerThread' \in [Locks -> Threads \cup {NoThread}]
          /\ held' \in [Threads -> SUBSET Locks]
      BY <2>1 DEF IInv, TypeOK
    <2>6. LockStateSound'
      <3>1. ownerThread[l] = NoThread /\ lockQueue[l] = << >>
        BY <1>2 DEF IInv, LockStateSound
      <3>2. \A m \in Locks \ {l} : /\ ownerThread'[m] = ownerThread[m]
                                   /\ lockFree'[m] = lockFree[m]
                                   /\ \A u \in Threads : m \in held'[u] <=> m \in held[u]
        BY <2>1 DEF IInv, TypeOK
      <3>3. /\ ownerThread'[l] = t /\ lockFree'[l] = FALSE
            /\ \A u \in Threads : l \in held'[u] <=> l \in held[u] \/ u = t
        BY <2>1 DEF IInv, TypeOK
      <3> QED
        BY <1>1, <2>1, <2>2, <2>3, <3>1, <3>2, <3>3 DEF IInv, LockStateSound
    <2>7. TypeOK'
      BY <1>1, <2>1, <2>2, <2>3, <2>5, TypeParts DEF IInv, TypeOK, semVars, condVars
    <2> QED
      BY <2>3, <2>4, <2>6, <2>7 DEF IInv
  <1>3. CASE ~lockFree[l]
    <2>1. /\ lockQueue' = [lockQueue EXCEPT ![l] = Append(@, t)]
          /\ Enter(t, "Acquire", NoObj, l)
          /\ Sleep(t, readyList, status, threadToBeDestroyed)
          /\ UNCHANGED <<lockFree, ownerThread, held>>
      BY <1>3 DEF Acquire
    <2>2. /\ CallTypeOK' /\ pc'[t] = "Acquire" /\ lk'[t] = l
          /\ \A u \in Threads \ {t} : pc'[u] = pc[u] /\ on'[u] = on[u] /\ lk'[u] = lk[u]
      BY <2>1, IInvParts, EnterTyped DEF Calls
    <2>3. /\ Sched' /\ SchedTypeOK'
          /\ \A u \in Threads : pc'[u] # "finished" =>
                 (status'[u] = "BLOCKED" <=> status[u] = "BLOCKED" \/ u = t)
      BY <1>1, <2>1, <2>2, SleepFromRunning
    <2>4. \A r \in Locks : lockQueue[r] \in Seq(Threads)
      BY DEF IInv, TypeOK
    <2>5. /\ lockQueue' \in [Locks -> Seq(Threads)]
          /\ Distinct(lockQueue'[l])
          /\ \A u \in Threads : Queued(lockQueue'[l], u) <=> Queued(lockQueue[l], u) \/ u = t
          /\ \A r \in Locks \ {l} : lockQueue'[r] = lockQueue[r]
      <3>1. /\ Append(lockQueue[l], t) \in Seq(Threads)
            /\ Distinct(Append(lockQueue[l], t))
            /\ \A u \in Threads : Queued(Append(lockQueue[l], t), u)
                                     <=> Queued(lockQueue[l], u) \/ u = t
        BY <1>1, <2>4, AppendQueued, RunningThread DEF IInv, ObjectsSound, LockQueuesSound
      <3> QED
        BY <2>1, <2>4, <3>1 DEF IInv, TypeOK
    <2>6. LockQueuesSound'
      <3>1. status[t] = "RUNNING"
        BY <1>1 DEF Running
      <3>2. ASSUME NEW m \in Locks, NEW u \in Threads
            PROVE  Queued(lockQueue'[m], u) <=>
                       status'[u] = "BLOCKED" /\ pc'[u] = "Acquire" /\ lk'[u] = m
        <4>1. Queued(lockQueue[m], u) <=>
                  status[u] = "BLOCKED" /\ pc[u] = "Acquire" /\ lk[u] = m
          BY DEF IInv, ObjectsSound, LockQueuesSound
        <4>2. CASE u = t
          BY <2>2, <2>3, <2>5, <3>1, <4>1, <4>2
        <4>3. CASE u # t
          BY <2>2, <2>3, <2>5, <4>1, <4>3
        <4> QED
          BY <4>2, <4>3
      <3>3. \A m \in Locks : Distinct(lockQueue'[m])
        BY <2>5 DEF IInv, ObjectsSound, LockQueuesSound
      <3> QED
        BY <3>2, <3>3 DEF LockQueuesSound
    <2>7. SemQueuesSound' /\ CondQueuesSound'
      BY <1>1, <2>2, <2>3, SemFrame, CondFrame
         DEF IInv, ObjectsSound, semVars, condVars, Running
    <2>8. LockStateSound'
      <3> SUFFICES ASSUME NEW m \in Locks
                   PROVE  /\ lockFree'[m] <=> ownerThread'[m] = NoThread
                          /\ lockFree'[m] => lockQueue'[m] = << >>
                          /\ \A u \in Threads :
                                /\ m \in held'[u] <=>
                                     ownerThread'[m] = u /\ ~(pc'[u] = "Acquire" /\ lk'[u] = m)
                                /\ pc'[u] = "Acquire" /\ lk'[u] = m /\ status'[u] # "BLOCKED"
                                     => ownerThread'[m] = u
        BY DEF LockStateSound
      <3>1. /\ lockFree[m] <=> ownerThread[m] = NoThread
            /\ lockFree[m] => lockQueue[m] = << >>
            /\ \A u \in Threads :
                  /\ m \in held[u] <=>
                        ownerThread[m] = u /\ ~(pc[u] = "Acquire" /\ lk[u] = m)
                  /\ pc[u] = "Acquire" /\ lk[u] = m /\ status[u] # "BLOCKED"
                        => ownerThread[m] = u
        BY DEF IInv, LockStateSound
      <3>2. lockFree[m] => lockQueue'[m] = lockQueue[m]
        BY <1>3, <2>5
      <3>3. status'[t] = "BLOCKED"
        BY <2>2, <2>3
      <3>4. ownerThread' = ownerThread /\ lockFree' = lockFree /\ held' = held
        BY <2>1
      <3>5. ASSUME NEW u \in Threads
            PROVE  /\ m \in held'[u] <=>
                        ownerThread'[m] = u /\ ~(pc'[u] = "Acquire" /\ lk'[u] = m)
                   /\ pc'[u] = "Acquire" /\ lk'[u] = m /\ status'[u] # "BLOCKED"
                        => ownerThread'[m] = u
        <4>1. CASE u = t
          BY <1>1, <2>2, <3>1, <3>3, <3>4, <4>1
        <4>2. CASE u # t
          BY <2>2, <2>3, <3>1, <3>4, <4>2
        <4> QED
          BY <4>1, <4>2
      <3> QED
        BY <3>1, <3>2, <3>4, <3>5
    <2>9. TypeOK'
      BY <1>1, <2>1, <2>2, <2>3, <2>5, TypeParts DEF IInv, TypeOK, semVars, condVars
    <2> QED
      BY <2>3, <2>6, <2>7, <2>8, <2>9 DEF IInv, ObjectsSound
  <1> QED
    BY <1>2, <1>3

LEMMA AcquireReturnsInv ==
    ASSUME IInv, NEW t \in Threads, AcquireReturns(t)
    PROVE  IInv'
  <1>1. /\ Running(t) /\ pc[t] = "Acquire" /\ Return(t)
        /\ held' = [held EXCEPT ![t] = @ \cup {lk[t]}]
        /\ UNCHANGED threadVars /\ UNCHANGED semVars /\ UNCHANGED condVars
        /\ lockFree' = lockFree /\ ownerThread' = ownerThread /\ lockQueue' = lockQueue
    BY DEF AcquireReturns
  <1>2. /\ CallTypeOK' /\ pc'[t] = "run"
        /\ \A u \in Threads \ {t} : pc'[u] = pc[u] /\ on'[u] = on[u] /\ lk'[u] = lk[u]
    BY <1>1, IInvParts, ReturnTyped
  <1>3. Sched' /\ SchedTypeOK' /\ status' = status
    BY <1>1, ReturnKeepsSched DEF threadVars
  <1>4. ObjectsSound'
    BY <1>1, <1>2, <1>3, ObjectsFrame DEF IInv, semVars, condVars, Running
  <1>5. lk[t] \in Locks /\ ownerThread[lk[t]] = t
    BY <1>1, IInvParts DEF IInv, CallTypeOK, LockStateSound, Running
  <1>6. /\ held' \in [Threads -> SUBSET Locks]
        /\ \A l \in Locks, u \in Threads :
              l \in held'[u] <=> l \in held[u] \/ (u = t /\ l = lk[t])
    BY <1>1, <1>5 DEF IInv, TypeOK
  <1>7. LockStateSound'
    BY <1>1, <1>2, <1>3, <1>5, <1>6 DEF IInv, LockStateSound
  <1>8. TypeOK'
    BY <1>1, <1>2, <1>3, <1>6, TypeParts DEF IInv, TypeOK, semVars, condVars
  <1> QED
    BY <1>3, <1>4, <1>7, <1>8 DEF IInv

(* The first waiter of a lock, if there is one. *)
FirstWaiter(l, u) == lockQueue[l] # << >> /\ u = Head(lockQueue[l])

LEMMA FirstWaiterSleeps ==
    ASSUME IInv, NEW l \in Locks, lockQueue[l] # << >>
    PROVE  /\ Head(lockQueue[l]) \in Threads
           /\ status[Head(lockQueue[l])] = "BLOCKED"
           /\ pc[Head(lockQueue[l])] = "Acquire"
           /\ lk[Head(lockQueue[l])] = l
           /\ Tail(lockQueue[l]) \in Seq(Threads)
           /\ Distinct(Tail(lockQueue[l]))
           /\ \A u \in Threads : Queued(Tail(lockQueue[l]), u)
                                    <=> Queued(lockQueue[l], u) /\ ~FirstWaiter(l, u)
  <1> DEFINE q == lockQueue[l]
  <1>1. q \in Seq(Threads) /\ Distinct(q)
    BY DEF IInv, TypeOK, ObjectsSound, LockQueuesSound
  <1>2. /\ Head(q) \in Threads /\ Tail(q) \in Seq(Threads)
        /\ Queued(q, Head(q)) /\ Distinct(Tail(q))
        /\ \A u \in Threads : Queued(Tail(q), u) <=> Queued(q, u) /\ u # Head(q)
    <2> HIDE DEF q
    <2> QED
      BY <1>1, TailQueued DEF q
  <1> QED
    BY <1>2 DEF IInv, ObjectsSound, LockQueuesSound, FirstWaiter

(* Release's effect on the lock, when the first waiter is woken and nobody   *)
(* but t changes the call it is in.                                          *)
LEMMA HandOverSound ==
    ASSUME IInv, NEW t \in Threads, NEW l \in Locks,
           Running(t), pc[t] = "run", ownerThread[l] = t, HandOver(t, l),
           pc'[t] \in {"run", "Wait"},
           \A u \in Threads \ {t} :
              /\ pc'[u] = pc[u] /\ lk'[u] = lk[u]
              /\ pc[u] # "finished" =>
                    (status'[u] = "BLOCKED" <=> status[u] = "BLOCKED" /\ ~FirstWaiter(l, u))
    PROVE  /\ LockQueuesSound' /\ LockStateSound'
           /\ lockFree' \in [Locks -> BOOLEAN]
           /\ ownerThread' \in [Locks -> Threads \cup {NoThread}]
           /\ lockQueue' \in [Locks -> Seq(Threads)]
           /\ held' \in [Threads -> SUBSET Locks]
  <1>0. status[t] = "RUNNING" /\ ~Queued(lockQueue[l], t)
    BY RunningThread DEF Running
  <1>1. /\ held' = [held EXCEPT ![t] = @ \ {l}]
        /\ held' \in [Threads -> SUBSET Locks]
        /\ \A m \in Locks, u \in Threads : m \in held'[u] <=> m \in held[u] /\ ~(u = t /\ m = l)
    BY DEF HandOver, IInv, TypeOK
  <1>2. /\ \A m \in Locks \ {l} : /\ lockQueue'[m] = lockQueue[m]
                                  /\ lockFree'[m] = lockFree[m]
                                  /\ ownerThread'[m] = ownerThread[m]
        /\ lockFree' \in [Locks -> BOOLEAN]
        /\ ownerThread' \in [Locks -> Threads \cup {NoThread}]
        /\ lockQueue' \in [Locks -> Seq(Threads)]
    <2>1. CASE lockQueue[l] # << >>
      <3> DEFINE h == Head(lockQueue[l])
                 q == Tail(lockQueue[l])
      <3>1. /\ ownerThread' = [ownerThread EXCEPT ![l] = h]
            /\ lockQueue' = [lockQueue EXCEPT ![l] = q]
            /\ lockFree' = lockFree
        BY <2>1 DEF HandOver
      <3>2. h \in Threads /\ q \in Seq(Threads)
        BY <2>1, FirstWaiterSleeps
      <3> HIDE DEF h, q
      <3> QED
        BY <3>1, <3>2 DEF IInv, TypeOK
    <2>2. CASE lockQueue[l] = << >>
      BY <2>2 DEF HandOver, IInv, TypeOK
    <2> QED
      BY <2>1, <2>2
  <1>3. /\ Distinct(lockQueue'[l])
        /\ \A u \in Threads : Queued(lockQueue'[l], u)
                                 <=> Queued(lockQueue[l], u) /\ ~FirstWaiter(l, u)
    <2>1. CASE lockQueue[l] # << >>
      <3>1. lockQueue'[l] = Tail(lockQueue[l])
        BY <2>1 DEF HandOver, IInv, TypeOK
      <3> QED
        BY <2>1, <3>1, FirstWaiterSleeps
    <2>2. CASE lockQueue[l] = << >>
      BY <2>2 DEF HandOver, FirstWaiter, IInv, ObjectsSound, LockQueuesSound
    <2> QED
      BY <2>1, <2>2
  <1>4. LockQueuesSound'
    <2>1. ASSUME NEW m \in Locks, NEW u \in Threads
          PROVE  Queued(lockQueue'[m], u) <=>
                     status'[u] = "BLOCKED" /\ pc'[u] = "Acquire" /\ lk'[u] = m
      <3>1. Queued(lockQueue[m], u) <=>
                status[u] = "BLOCKED" /\ pc[u] = "Acquire" /\ lk[u] = m
        BY DEF IInv, ObjectsSound, LockQueuesSound
      <3>2. FirstWaiter(l, u) => lk[u] = l
        BY FirstWaiterSleeps DEF FirstWaiter
      <3>3. CASE u = t
        BY <1>0, <1>2, <1>3, <3>1, <3>3
      <3>4. CASE u # t
        BY <1>2, <1>3, <3>1, <3>2, <3>4
      <3> QED
        BY <3>3, <3>4
    <2>2. \A m \in Locks : Distinct(lockQueue'[m])
      BY <1>2, <1>3 DEF IInv, ObjectsSound, LockQueuesSound
    <2> QED
      BY <2>1, <2>2 DEF LockQueuesSound
  <1>5. ASSUME NEW m \in Locks
        PROVE  /\ lockFree'[m] <=> ownerThread'[m] = NoThread
               /\ lockFree'[m] => lockQueue'[m] = << >>
    <2>1. /\ lockFree[m] <=> ownerThread[m] = NoThread
          /\ lockFree[m] => lockQueue[m] = << >>
      BY DEF IInv, LockStateSound
    <2>2. CASE m # l
      BY <1>2, <2>1, <2>2
    <2>3. CASE m = l /\ lockQueue[l] # << >>
      <3>1. lockFree' = lockFree /\ ownerThread'[l] = Head(lockQueue[l])
        BY <2>3 DEF HandOver, IInv, TypeOK
      <3>2. Head(lockQueue[l]) # NoThread
        BY <2>3, FirstWaiterSleeps
      <3> QED
        BY <2>1, <2>3, <3>1, <3>2
    <2>4. CASE m = l /\ lockQueue[l] = << >>
      BY <2>4 DEF HandOver, IInv, TypeOK
    <2> QED
      BY <2>2, <2>3, <2>4
  <1>6. ASSUME NEW m \in Locks, NEW u \in Threads
        PROVE  /\ m \in held'[u] <=>
                     ownerThread'[m] = u /\ ~(pc'[u] = "Acquire" /\ lk'[u] = m)
               /\ pc'[u] = "Acquire" /\ lk'[u] = m /\ status'[u] # "BLOCKED"
                     => ownerThread'[m] = u
    <2>1. /\ m \in held[u] <=>
                ownerThread[m] = u /\ ~(pc[u] = "Acquire" /\ lk[u] = m)
          /\ pc[u] = "Acquire" /\ lk[u] = m /\ status[u] # "BLOCKED"
                => ownerThread[m] = u
      BY DEF IInv, LockStateSound
    <2>2. CASE m # l
      <3>1. ~(FirstWaiter(l, u) /\ lk[u] = m)
        BY <2>2, FirstWaiterSleeps DEF FirstWaiter
      <3>2. CASE u = t
        BY <1>1, <1>2, <2>1, <2>2, <3>2
      <3>3. CASE u # t
        BY <1>1, <1>2, <2>1, <2>2, <3>1, <3>3
      <3> QED
        BY <3>2, <3>3
    <2>3. CASE m = l /\ lockQueue[l] # << >>
      <3>1. ownerThread'[l] = Head(lockQueue[l])
        BY <2>3 DEF HandOver, IInv, TypeOK
      <3>2. /\ Head(lockQueue[l]) # t
            /\ pc[Head(lockQueue[l])] = "Acquire" /\ lk[Head(lockQueue[l])] = l
            /\ Head(lockQueue[l]) \in Threads
        BY <2>3, FirstWaiterSleeps
      <3>3. CASE u = t
        BY <1>1, <2>3, <3>1, <3>2, <3>3
      <3>4. CASE u # t /\ u = Head(lockQueue[l])
        <4>1. pc'[u] = "Acquire" /\ lk'[u] = l /\ ownerThread'[l] = u
          BY <3>1, <3>2, <3>4
        <4>2. m \notin held'[u]
          BY <1>1, <2>1, <2>3, <3>4
        <4> QED
          BY <2>3, <4>1, <4>2
      <3>5. CASE u # t /\ u # Head(lockQueue[l])
        <4>1. ~FirstWaiter(l, u)
          BY <3>5 DEF FirstWaiter
        <4>2. m \notin held'[u]
          BY <1>1, <2>1, <2>3, <3>5
        <4>3. ~(pc'[u] = "Acquire" /\ lk'[u] = m /\ status'[u] # "BLOCKED")
          BY <2>1, <2>3, <3>5, <4>1
        <4> QED
          BY <2>3, <3>1, <3>5, <4>2, <4>3
      <3> QED
        BY <3>3, <3>4, <3>5
    <2>4. CASE m = l /\ lockQueue[l] = << >>
      <3>1. ownerThread'[l] = NoThread /\ u # NoThread
        BY <2>4 DEF HandOver, IInv, TypeOK
      <3>2. m \notin held'[u]
        BY <1>1, <2>1, <2>4
      <3>3. ~(pc[u] = "Acquire" /\ lk[u] = m /\ status[u] = "BLOCKED")
        BY <2>4, EmptyQueued DEF IInv, TypeOK, ObjectsSound, LockQueuesSound
      <3>4. ~(pc'[u] = "Acquire" /\ lk'[u] = m)
        BY <2>1, <2>4, <3>3
      <3> QED
        BY <2>4, <3>1, <3>2, <3>4
    <2> QED
      BY <2>2, <2>3, <2>4
  <1>7. LockStateSound'
    BY <1>5, <1>6 DEF LockStateSound
  <1> QED
    BY <1>1, <1>2, <1>4, <1>7

LEMMA ReleaseInv ==
    ASSUME IInv, NEW t \in Threads, NEW l \in Locks, Release(t, l)
    PROVE  IInv'
  <1>1. /\ Running(t) /\ pc[t] = "run" /\ ownerThread[l] = t /\ HandOver(t, l)
        /\ pc' = pc /\ on' = on /\ lk' = lk /\ CallTypeOK'
        /\ UNCHANGED <<semVars, condVars>>
    BY IInvParts DEF Release, callVars, CallTypeOK
  <1>2. /\ Sched' /\ SchedTypeOK'
        /\ \A u \in Threads :
              status'[u] = "BLOCKED" <=> status[u] = "BLOCKED" /\ ~FirstWaiter(l, u)
    <2>1. CASE lockQueue[l] # << >>
      <3> DEFINE h == Head(lockQueue[l])
      <3>1. ReadyToRun(h)
        BY <2>1 DEF Release
      <3>2. /\ h \in Threads /\ status[h] = "BLOCKED" /\ pc[h] = "Acquire"
            /\ \A u \in Threads : FirstWaiter(l, u) <=> u = h
        BY <2>1, FirstWaiterSleeps DEF FirstWaiter
      <3> HIDE DEF h
      <3> QED
        BY <1>1, <3>1, <3>2, IInvParts, ReadyToRunSound DEF IInv, Sched, CarcassSleeps
    <2>2. CASE lockQueue[l] = << >>
      BY <1>1, <2>2, IInvParts
         DEF Release, FirstWaiter, threadVars, IInv, Sched, SchedTypeOK,
             OnlyCurrentRuns, ReadyListSound, CarcassSleeps
    <2> QED
      BY <2>1, <2>2
  <1>3. /\ LockQueuesSound' /\ LockStateSound'
        /\ lockFree' \in [Locks -> BOOLEAN]
        /\ ownerThread' \in [Locks -> Threads \cup {NoThread}]
        /\ lockQueue' \in [Locks -> Seq(Threads)]
        /\ held' \in [Threads -> SUBSET Locks]
    BY <1>1, <1>2, HandOverSound
  <1>4. SemQueuesSound' /\ CondQueuesSound'
    <2>1. \A u \in Threads : FirstWaiter(l, u) => pc[u] = "Acquire"
      BY FirstWaiterSleeps DEF FirstWaiter
    <2> QED
      BY <1>1, <1>2, <2>1, SemFrame, CondFrame DEF IInv, ObjectsSound, semVars, condVars
  <1>5. TypeOK'
    BY <1>1, <1>2, <1>3, TypeParts DEF IInv, TypeOK, semVars, condVars
  <1> QED
    BY <1>2, <1>3, <1>4, <1>5 DEF IInv, ObjectsSound

LEMMA WaitInv ==
    ASSUME IInv, NEW t \in Threads, NEW c \in Conds, NEW l \in Locks, Wait(t, c, l)
    PROVE  IInv'
  <1>1. /\ Running(t) /\ pc[t] = "run" /\ status[t] = "RUNNING"
        /\ waitingLock' = [waitingLock EXCEPT ![c] = l]
        /\ condQueue' = [condQueue EXCEPT ![c] = Append(@, t)]
        /\ Enter(t, "Wait", c, l) /\ UNCHANGED semVars
    BY DEF Wait, Running
  <1>2. /\ CallTypeOK' /\ pc'[t] = "Wait" /\ on'[t] = c /\ lk'[t] = l
        /\ \A u \in Threads \ {t} : pc'[u] = pc[u] /\ on'[u] = on[u] /\ lk'[u] = lk[u]
    BY <1>1, IInvParts, EnterTyped DEF Calls
  <1> DEFINE Wakes(u) == ownerThread[l] = t /\ FirstWaiter(l, u)
  <1>3. /\ Sched' /\ SchedTypeOK'
        /\ \A u \in Threads : pc'[u] # "finished" =>
              (status'[u] = "BLOCKED" <=> (status[u] = "BLOCKED" /\ ~Wakes(u)) \/ u = t)
    <2>1. CASE ownerThread[l] = t /\ lockQueue[l] # << >>
      <3> DEFINE h     == Head(lockQueue[l])
                 ready == Append(readyList, h)
                 st    == [status EXCEPT ![h] = "READY"]
      <3>1. Sleep(t, ready, st, threadToBeDestroyed)
        BY <2>1 DEF Wait
      <3>2. /\ h \in Threads /\ status[h] = "BLOCKED" /\ pc[h] = "Acquire" /\ h # t
            /\ \A u \in Threads : Wakes(u) <=> u = h
        BY <1>1, <2>1, FirstWaiterSleeps DEF FirstWaiter
      <3>3. /\ ready \in Seq(Threads) /\ Distinct(ready)
            /\ \A u \in Threads : Queued(ready, u) <=> Queued(readyList, u) \/ u = h
        <4> HIDE DEF h
        <4> QED
          BY <1>1, <3>2, RunningThread, AppendQueued
      <3>4. st \in [Threads -> Statuses]
        BY IInvParts DEF SchedTypeOK, Statuses
      <3>5. /\ currentThread = t /\ st[t] = "RUNNING"
            /\ \A u \in Threads : Queued(ready, u) <=> st[u] = "READY"
            /\ \A u \in Threads : st[u] = "RUNNING" => u = t
            /\ \A u \in Threads : st[u] = "BLOCKED" <=> status[u] = "BLOCKED" /\ u # h
            /\ threadToBeDestroyed \in Threads \cup {NoThread}
            /\ threadToBeDestroyed # NoThread =>
                   pc'[threadToBeDestroyed] = "finished"
                   /\ (st[threadToBeDestroyed] = "BLOCKED" \/ threadToBeDestroyed = t)
        <4> HIDE DEF h, ready
        <4> QED
          BY <1>1, <1>2, <3>2, <3>3, RunningThread
      <3>6. /\ Sched' /\ SchedTypeOK'
            /\ \A u \in Threads : pc'[u] # "finished" =>
                  (status'[u] = "BLOCKED" <=> st[u] = "BLOCKED" \/ u = t)
        <4> HIDE DEF h, ready, st
        <4> QED
          BY <3>1, <3>3, <3>4, <3>5, SleepSound
      <3> HIDE DEF h, ready, st, Wakes
      <3> QED
        BY <3>2, <3>5, <3>6
    <2>2. CASE ~(ownerThread[l] = t /\ lockQueue[l] # << >>)
      <3>1. Sleep(t, readyList, status, threadToBeDestroyed)
        BY <2>2 DEF Wait
      <3>2. \A u \in Threads : ~Wakes(u)
        BY <2>2 DEF FirstWaiter
      <3>3. /\ Sched' /\ SchedTypeOK'
            /\ \A u \in Threads : pc'[u] # "finished" =>
                  (status'[u] = "BLOCKED" <=> status[u] = "BLOCKED" \/ u = t)
        BY <1>1, <1>2, <3>1, SleepFromRunning
      <3> HIDE DEF Wakes
      <3> QED
        BY <3>2, <3>3
    <2> QED
      BY <2>1, <2>2
  <1>4. \A u \in Threads : Wakes(u) => pc[u] = "Acquire"
    BY FirstWaiterSleeps DEF FirstWaiter
  <1>5. /\ LockQueuesSound' /\ LockStateSound'
        /\ lockFree' \in [Locks -> BOOLEAN]
        /\ ownerThread' \in [Locks -> Threads \cup {NoThread}]
        /\ lockQueue' \in [Locks -> Seq(Threads)]
        /\ held' \in [Threads -> SUBSET Locks]
    <2>1. CASE ownerThread[l] = t
      <3>1. HandOver(t, l)
        BY <2>1 DEF Wait
      <3> QED
        BY <1>1, <1>2, <1>3, <2>1, <3>1, HandOverSound
    <2>2. CASE ownerThread[l] # t
      <3>1. UNCHANGED lockVars
        BY <2>2 DEF Wait
      <3>2. LockQueuesSound'
        BY <1>1, <1>2, <1>3, <2>2, <3>1, LockFrame DEF IInv, ObjectsSound, lockVars
      <3>3. LockStateSound'
        BY <1>1, <1>2, <1>3, <2>2, <3>1, LocksFrame DEF IInv
      <3> QED
        BY <3>1, <3>2, <3>3 DEF lockVars, IInv, TypeOK
    <2> QED
      BY <2>1, <2>2
  <1> HIDE DEF Wakes
  <1>6. SemQueuesSound'
    BY <1>1, <1>2, <1>3, <1>4, SemFrame DEF IInv, ObjectsSound, semVars
  <1>7. /\ condQueue' \in [Conds -> Seq(Threads)]
        /\ Distinct(condQueue'[c])
        /\ \A u \in Threads : Queued(condQueue'[c], u) <=> Queued(condQueue[c], u) \/ u = t
        /\ \A d \in Conds \ {c} : condQueue'[d] = condQueue[d]
    <2>1. \A d \in Conds : condQueue[d] \in Seq(Threads)
      BY DEF IInv, TypeOK
    <2>2. /\ Append(condQueue[c], t) \in Seq(Threads)
          /\ Distinct(Append(condQueue[c], t))
          /\ \A u \in Threads : Queued(Append(condQueue[c], t), u)
                                   <=> Queued(condQueue[c], u) \/ u = t
      BY <1>1, <2>1, AppendQueued, RunningThread DEF IInv, ObjectsSound, CondQueuesSound
    <2> QED
      BY <1>1, <2>1, <2>2 DEF IInv, TypeOK
  <1>8. CondQueuesSound'
    <2>1. ASSUME NEW d \in Conds, NEW u \in Threads
          PROVE  Queued(condQueue'[d], u) <=>
                     status'[u] = "BLOCKED" /\ pc'[u] = "Wait" /\ on'[u] = d
      <3>1. Queued(condQueue[d], u) <=>
                status[u] = "BLOCKED" /\ pc[u] = "Wait" /\ on[u] = d
        BY DEF IInv, ObjectsSound, CondQueuesSound
      <3>2. CASE u = t
        BY <1>1, <1>2, <1>3, <1>7, <3>1, <3>2
      <3>3. CASE u # t
        BY <1>2, <1>3, <1>4, <1>7, <3>1, <3>3
      <3> QED
        BY <3>2, <3>3
    <2>2. \A d \in Conds : Distinct(condQueue'[d])
      BY <1>7 DEF IInv, ObjectsSound, CondQueuesSound
    <2> QED
      BY <2>1, <2>2 DEF CondQueuesSound
  <1>9. TypeOK'
    <2>1. waitingLock' \in [Conds -> Locks \cup {NoLock}]
      BY <1>1 DEF IInv, TypeOK
    <2> QED
      BY <1>1, <1>2, <1>3, <1>5, <1>7, <2>1, TypeParts DEF IInv, TypeOK, semVars
  <1> QED
    BY <1>3, <1>5, <1>6, <1>8, <1>9 DEF IInv, ObjectsSound

(* Signal's effect on the condition and on the scheduler. *)
LEMMA SignalFirstInv ==
    ASSUME IInv, NEW c \in Conds, NEW l \in Locks, SignalFirst(c, l),
           UNCHANGED <<callVars, semVars, lockVars>>
    PROVE  IInv'
  <1> DEFINE h == Head(condQueue[c])
  <1>1. /\ pc' = pc /\ on' = on /\ lk' = lk /\ CallTypeOK'
        /\ condQueue' = [condQueue EXCEPT ![c] = Tail(@)]
        /\ waitingLock' \in [Conds -> Locks \cup {NoLock}]
        /\ ReadyToRun(h)
    BY IInvParts DEF SignalFirst, callVars, CallTypeOK, IInv, TypeOK
  <1>2. /\ h \in Threads /\ Tail(condQueue[c]) \in Seq(Threads)
        /\ Queued(condQueue[c], h) /\ Distinct(Tail(condQueue[c]))
        /\ \A w \in Threads : Queued(Tail(condQueue[c]), w)
                                 <=> Queued(condQueue[c], w) /\ w # h
    BY TailQueued DEF SignalFirst, IInv, TypeOK, ObjectsSound, CondQueuesSound
  <1>3. status[h] = "BLOCKED" /\ pc[h] = "Wait" /\ on[h] = c
    BY <1>2 DEF IInv, ObjectsSound, CondQueuesSound
  <1> HIDE DEF h
  <1>4. /\ Sched' /\ SchedTypeOK'
        /\ \A w \in Threads : status'[w] = "BLOCKED" <=> status[w] = "BLOCKED" /\ w # h
    BY <1>1, <1>2, <1>3, IInvParts, ReadyToRunSound DEF IInv, Sched, CarcassSleeps
  <1>5. /\ condQueue' \in [Conds -> Seq(Threads)]
        /\ Distinct(condQueue'[c])
        /\ \A w \in Threads : Queued(condQueue'[c], w) <=> Queued(condQueue[c], w) /\ w # h
        /\ \A d \in Conds \ {c} : condQueue'[d] = condQueue[d]
    BY <1>1, <1>2 DEF IInv, TypeOK
  <1>6. CondQueuesSound'
    BY <1>1, <1>3, <1>4, <1>5 DEF IInv, ObjectsSound, CondQueuesSound
  <1>7. SemQueuesSound' /\ LockQueuesSound'
    BY <1>1, <1>3, <1>4, SemFrame, LockFrame DEF IInv, ObjectsSound, semVars, lockVars
  <1>8. LockStateSound'
    BY <1>1, <1>3, <1>4, LocksFrame DEF IInv
  <1>9. TypeOK'
    BY <1>1, <1>4, <1>5, TypeParts DEF IInv, TypeOK, semVars, lockVars
  <1> QED
    BY <1>4, <1>6, <1>7, <1>8, <1>9 DEF IInv, ObjectsSound

LEMMA BroadcastSignalInv ==
    ASSUME IInv, NEW t \in Threads, BroadcastSignal(t)
    PROVE  IInv'
  <1>1. on[t] \in Conds /\ lk[t] \in Locks
    BY IInvParts DEF BroadcastSignal, CallTypeOK
  <1> QED
    BY <1>1, SignalFirstInv DEF BroadcastSignal

(* Broadcast is entered and left without touching any object. *)
LEMMA BroadcastEdgeInv ==
    ASSUME IInv, NEW t \in Threads, Running(t), CallTypeOK',
           pc[t] \in {"run", "Broadcast"}, pc'[t] \in {"run", "Broadcast"},
           \A u \in Threads \ {t} : pc'[u] = pc[u] /\ on'[u] = on[u] /\ lk'[u] = lk[u],
           UNCHANGED <<threadVars, semVars, lockVars, condVars>>
    PROVE  IInv'
  <1>1. Sched' /\ SchedTypeOK' /\ status' = status
    BY IInvParts, RunningThread
       DEF threadVars, IInv, Sched, SchedTypeOK, OnlyCurrentRuns, ReadyListSound,
           CarcassSleeps
  <1>2. ObjectsSound'
    BY <1>1, ObjectsFrame DEF IInv, semVars, lockVars, condVars
  <1>3. LockStateSound'
    BY <1>1, LocksFrame DEF IInv
  <1>4. TypeOK'
    BY <1>1, TypeParts DEF IInv, TypeOK, semVars, lockVars, condVars
  <1> QED
    BY <1>1, <1>2, <1>3, <1>4 DEF IInv

LEMMA BroadcastInv ==
    ASSUME IInv, NEW t \in Threads, NEW c \in Conds, NEW l \in Locks \cup {NoLock},
           Broadcast(t, c, l)
    PROVE  IInv'
  <1>1. Enter(t, "Broadcast", c, l) /\ Running(t) /\ pc[t] = "run"
    BY DEF Broadcast
  <1>2. /\ CallTypeOK' /\ pc'[t] = "Broadcast"
        /\ \A u \in Threads \ {t} : pc'[u] = pc[u] /\ on'[u] = on[u] /\ lk'[u] = lk[u]
    BY <1>1, IInvParts, EnterTyped DEF Calls
  <1> QED
    BY <1>1, <1>2, BroadcastEdgeInv DEF Broadcast

LEMMA BroadcastReturnsInv ==
    ASSUME IInv, NEW t \in Threads, BroadcastReturns(t)
    PROVE  IInv'
  <1>1. /\ CallTypeOK' /\ pc'[t] = "run"
        /\ \A u \in Threads \ {t} : pc'[u] = pc[u] /\ on'[u] = on[u] /\ lk'[u] = lk[u]
    BY IInvParts, ReturnTyped DEF BroadcastReturns
  <1> QED
    BY <1>1, BroadcastEdgeInv DEF BroadcastReturns

LEMMA StutterInv ==
    ASSUME IInv, UNCHANGED vars
    PROVE  IInv'
  BY DEF vars, IInv, TypeOK, Sched, OnlyCurrentRuns, ReadyListSound, CarcassSleeps,
         ObjectsSound, SemQueuesSound, LockQueuesSound, CondQueuesSound, LockStateSound

LEMMA InitInv == Init => IInv
  <1> SUFFICES ASSUME Init PROVE IInv
    OBVIOUS
  <1>1. << >> \in Seq(Threads) /\ Distinct(<< >>) /\ \A u \in Threads : ~Queued(<< >>, u)
    BY DEF Queued, Distinct
  <1>2. TypeOK
    BY <1>1 DEF Init, TypeOK, Statuses, Calls
  <1>3. Sched
    BY <1>1 DEF Init, Sched, OnlyCurrentRuns, ReadyListSound, CarcassSleeps
  <1>4. ObjectsSound
    BY <1>1 DEF Init, ObjectsSound, SemQueuesSound, LockQueuesSound, CondQueuesSound
  <1>5. LockStateSound
    BY <1>1 DEF Init, LockStateSound
  <1> QED
    BY <1>2, <1>3, <1>4, <1>5 DEF IInv

LEMMA NextInv == IInv /\ [Next]_vars => IInv'
  <1> SUFFICES ASSUME IInv, [Next]_vars PROVE IInv'
    OBVIOUS
  <1>1. ASSUME NEW t \in Threads, Step(t) PROVE IInv'
    <2>1. ASSUME NEW u \in Threads, Fork(t, u) PROVE IInv'
      BY <2>1, ForkInv
    <2>2. CASE ThreadRoot(t)
      BY <2>2, ThreadRootInv
    <2>3. CASE Finish(t)
      BY <2>3, FinishInv
    <2>4. CASE Yield(t)
      BY <2>4, YieldInv
    <2>5. ASSUME NEW s \in Sems, P(t, s) PROVE IInv'
      BY <2>5, PInv
    <2>6. ASSUME NEW l \in Locks, Acquire(t, l) PROVE IInv'
      BY <2>6, AcquireInv
    <2>7. CASE AcquireReturns(t)
      BY <2>7, AcquireReturnsInv
    <2>8. ASSUME NEW l \in Locks, Release(t, l) PROVE IInv'
      BY <2>8, ReleaseInv
    <2>9. ASSUME NEW c \in Conds, NEW l \in Locks, Wait(t, c, l) PROVE IInv'
      BY <2>9, WaitInv
    <2>10. ASSUME NEW c \in Conds, NEW l \in Locks, Signal(t, c, l) PROVE IInv'
      BY <2>10, SignalFirstInv DEF Signal
    <2>11. ASSUME NEW c \in Conds, NEW l \in Locks \cup {NoLock}, Broadcast(t, c, l)
           PROVE IInv'
      BY <2>11, BroadcastInv
    <2>12. CASE BroadcastSignal(t)
      BY <2>12, BroadcastSignalInv
    <2>13. CASE BroadcastReturns(t)
      BY <2>13, BroadcastReturnsInv
    <2> QED
      BY <1>1, <2>1, <2>2, <2>3, <2>4, <2>5, <2>6, <2>7, <2>8, <2>9, <2>10, <2>11,
         <2>12, <2>13 DEF Step
  <1>2. ASSUME NEW s \in Sems, V(s) PROVE IInv'
    BY <1>2, VInv
  <1>3. CASE WakeFromIdle
    BY <1>3, WakeFromIdleInv
  <1>4. CASE UNCHANGED vars
    BY <1>4, StutterInv
  <1> QED
    BY <1>1, <1>2, <1>3, <1>4 DEF Next

-----------------------------------------------------------------------------
(* Theorems. *)

LEMMA Invariance == Spec => []IInv
  BY InitInv, NextInv, PTL DEF Spec

(* Every variable stays in its type, and a thread inside a call has the      *)
(* object and the lock the call needs.                                       *)
THEOREM TypeCorrect == Spec => []TypeOK
  <1>1. IInv => TypeOK
    BY DEF IInv
  <1> QED
    BY <1>1, Invariance, PTL

(* Whatever the threads call, each of them is in exactly one place: running, *)
(* on the ready list, or in the queue of the object it sleeps on.            *)
THEOREM OnePlace == Spec => []EveryThreadInOnePlace
  <1>1. IInv => EveryThreadInOnePlace
    BY DEF IInv, Sched, ObjectsSound, EveryThreadInOnePlace
  <1> QED
    BY <1>1, Invariance, PTL

(* free, ownerThread, the queue and what the callers believe always agree.   *)
THEOREM LockState == Spec => []LockStateSound
  <1>1. IInv => LockStateSound
    BY DEF IInv
  <1> QED
    BY <1>1, Invariance, PTL

(* Handing a lock over inside Release, with no test after the Sleep inside   *)
(* Acquire, gives mutual exclusion.                                          *)
THEOREM Exclusion == Spec => []MutualExclusion
  <1>1. IInv => MutualExclusion
    BY DEF IInv, TypeOK, LockStateSound, MutualExclusion
  <1> QED
    BY <1>1, Invariance, PTL

-----------------------------------------------------------------------------
(* Who sleeps can be woken. *)

(* A set of threads can be counted. *)
LEMMA ThreadsCount ==
    ASSUME NEW S \in SUBSET Threads
    PROVE  IsFiniteSet(S) /\ Cardinality(S) \in Nat
  BY FiniteThreads, FS_Subset, FS_CardinalityType

(* Sleeping is a matter of the queues: who runs is in none of them. *)
LEMMA RunningNotQueued ==
    ASSUME IInv, NEW t \in Threads, Running(t)
    PROVE  /\ \A s \in Sems : ~Queued(semQueue[s], t)
           /\ \A c \in Conds : ~Queued(condQueue[c], t)
  BY DEF IInv, ObjectsSound, SemQueuesSound, CondQueuesSound, Running

(* A step outside of P and V: no call of P begins or ends. *)
LEMMA WokenFrame ==
    ASSUME NoLostV, UNCHANGED semVars,
           \A u \in Threads : \/ pc'[u] = pc[u] /\ on'[u] = on[u]
                              \/ pc[u] # "P" /\ pc'[u] # "P"
    PROVE  NoLostV'
  <1>1. ASSUME NEW s \in Sems PROVE Woken(s)' = Woken(s)
    BY DEF Woken, semVars
  <1> QED
    BY <1>1 DEF NoLostV, semVars

(* A step outside of Wait and Signal: the waiters keep the lock they gave.   *)
LEMMA WaitersFrame ==
    ASSUME WaitersShareLock, UNCHANGED condVars,
           \A c \in Conds, u \in Threads : Queued(condQueue[c], u) => lk'[u] = lk[u]
    PROVE  WaitersShareLock'
  BY DEF WaitersShareLock, condVars

(* The steps of a thread that are about no semaphore and no condition. *)
LEMMA CallFrame ==
    ASSUME IInv, SleepersSound, NEW t \in Threads, Running(t),
           \A u \in Threads \ {t} : pc'[u] = pc[u] /\ on'[u] = on[u] /\ lk'[u] = lk[u],
           \/ pc'[t] = pc[t] /\ on'[t] = on[t]
           \/ pc[t] # "P" /\ pc'[t] # "P",
           UNCHANGED <<semVars, condVars>>
    PROVE  SleepersSound'
  <1>1. NoLostV'
    <2>1. \A u \in Threads : \/ pc'[u] = pc[u] /\ on'[u] = on[u]
                             \/ pc[u] # "P" /\ pc'[u] # "P"
      OBVIOUS
    <2> QED
      BY <2>1, WokenFrame DEF SleepersSound
  <1>2. WaitersShareLock'
    BY RunningNotQueued, WaitersFrame DEF SleepersSound
  <1> QED
    BY <1>1, <1>2 DEF SleepersSound

(* P: a thread that goes to sleep found the value at 0, and one that passes  *)
(* takes a unit and is no longer on its way to one.                          *)
LEMMA PSleepers ==
    ASSUME IInv, SleepersSound, NEW t \in Threads, NEW s \in Sems, P(t, s)
    PROVE  SleepersSound'
  <1>1. /\ Running(t) /\ UNCHANGED condVars
        /\ pc[t] = "run" \/ (pc[t] = "P" /\ on[t] = s)
        /\ pc \in [Threads -> Calls] /\ lk \in [Threads -> Locks \cup {NoLock}]
        /\ on \in [Threads -> Sems \cup Conds \cup {NoObj}]
        /\ semValue \in [Sems -> Nat] /\ semQueue \in [Sems -> Seq(Threads)]
    BY DEF P, IInv, TypeOK
  <1>2. \A u \in Threads \ {t} : pc'[u] = pc[u] /\ on'[u] = on[u] /\ lk'[u] = lk[u]
    BY <1>1 DEF P, Enter, Return
  <1>3. WaitersShareLock'
    BY <1>1, <1>2, RunningNotQueued, WaitersFrame DEF SleepersSound
  <1>4. ASSUME NEW r \in Sems, r # s PROVE /\ Woken(r)' = Woken(r)
                                           /\ semQueue'[r] = semQueue[r]
                                           /\ semValue'[r] = semValue[r]
    <2>1. semQueue'[r] = semQueue[r] /\ semValue'[r] = semValue[r]
      BY <1>1, <1>4 DEF P
    <2>2. ~(pc[t] = "P" /\ on[t] = r)
      BY <1>1, <1>4
    <2>3. ~(pc'[t] = "P" /\ on'[t] = r)
      BY <1>1, <1>4 DEF P, Enter, Return
    <2> QED
      BY <1>2, <2>1, <2>2, <2>3 DEF Woken
  <1>5. semQueue'[s] # << >> => semValue'[s] <= Cardinality(Woken(s)')
    <2>1. CASE semValue[s] = 0
      <3>1. semValue'[s] = 0
        BY <1>1, <2>1 DEF P
      <3>2. Woken(s)' \in SUBSET Threads
        BY DEF Woken
      <3> QED
        BY <3>1, <3>2, ThreadsCount
    <2>2. CASE semValue[s] > 0
      <3>1. /\ semValue'[s] = semValue[s] - 1 /\ semQueue' = semQueue
            /\ pc'[t] = "run"
        BY <1>1, <2>2 DEF P, Return
      <3>2. Woken(s)' = Woken(s) \ {t}
        BY <1>2, <3>1 DEF Woken
      <3>3. Woken(s) \in SUBSET Threads
        BY DEF Woken
      <3>4. Cardinality(Woken(s) \ {t}) >= Cardinality(Woken(s)) - 1
        BY <3>3, ThreadsCount, FS_RemoveElement
      <3>5. Cardinality(Woken(s) \ {t}) \in Nat /\ Cardinality(Woken(s)) \in Nat
        BY <3>3, ThreadsCount
      <3>6. semQueue[s] # << >> => semValue[s] <= Cardinality(Woken(s))
        BY DEF SleepersSound, NoLostV
      <3>7. semValue[s] \in Nat
        BY <1>1
      <3> HIDE DEF SleepersSound
      <3> QED
        BY <3>1, <3>2, <3>4, <3>5, <3>6, <3>7
    <2> QED
      BY <1>1, <2>1, <2>2
  <1>6. NoLostV'
    BY <1>4, <1>5 DEF SleepersSound, NoLostV
  <1> QED
    BY <1>3, <1>6 DEF SleepersSound

(* V: the unit it adds has the thread it takes from the queue coming for it. *)
LEMMA VSleepers ==
    ASSUME IInv, SleepersSound, NEW s \in Sems, V(s)
    PROVE  SleepersSound'
  <1>1. /\ UNCHANGED <<condVars, pc, on, lk>>
        /\ semValue' = [semValue EXCEPT ![s] = @ + 1]
        /\ semValue \in [Sems -> Nat] /\ semQueue \in [Sems -> Seq(Threads)]
        /\ Distinct(semQueue[s])
    BY DEF V, callVars, IInv, TypeOK, ObjectsSound, SemQueuesSound
  <1>2. WaitersShareLock'
    BY <1>1, WaitersFrame DEF SleepersSound
  <1>3. CASE semQueue[s] = << >>
    <2>1. semQueue' = semQueue
      BY <1>3 DEF V
    <2>2. \A r \in Sems : Woken(r)' = Woken(r)
      BY <1>1, <2>1 DEF Woken
    <2>3. NoLostV'
      BY <1>1, <1>3, <2>1, <2>2 DEF SleepersSound, NoLostV
    <2> QED
      BY <1>2, <2>3 DEF SleepersSound
  <1>4. CASE semQueue[s] # << >>
    <2> DEFINE u == Head(semQueue[s])
    <2>1. semQueue' = [semQueue EXCEPT ![s] = Tail(@)]
      BY <1>4 DEF V
    <2>2. /\ u \in Threads /\ Queued(semQueue[s], u)
          /\ \A w \in Threads : Queued(Tail(semQueue[s]), w)
                                  <=> Queued(semQueue[s], w) /\ w # u
      BY <1>1, <1>4, TailQueued
    <2>3. pc[u] = "P" /\ on[u] = s
      BY <2>2 DEF IInv, ObjectsSound, SemQueuesSound
    <2> HIDE DEF u
    <2>4. Woken(s)' = Woken(s) \cup {u} /\ u \notin Woken(s)
      BY <1>1, <2>1, <2>2, <2>3 DEF Woken
    <2>5. Woken(s) \in SUBSET Threads
      BY DEF Woken
    <2>6. Cardinality(Woken(s) \cup {u}) = Cardinality(Woken(s)) + 1
      BY <2>4, <2>5, ThreadsCount, FS_AddElement
    <2>7. Cardinality(Woken(s)) \in Nat
      BY <2>5, ThreadsCount
    <2>8. semValue[s] <= Cardinality(Woken(s))
      BY <1>4 DEF SleepersSound, NoLostV
    <2>9. semValue'[s] <= Cardinality(Woken(s)')
      BY <1>1, <2>4, <2>6, <2>7, <2>8
    <2>10. \A r \in Sems \ {s} : /\ Woken(r)' = Woken(r)
                                 /\ semQueue'[r] = semQueue[r]
                                 /\ semValue'[r] = semValue[r]
      BY <1>1, <2>1 DEF Woken
    <2>11. NoLostV'
      BY <2>9, <2>10 DEF SleepersSound, NoLostV
    <2> QED
      BY <1>2, <2>11 DEF SleepersSound
  <1> QED
    BY <1>3, <1>4

(* Wait: the condition takes the lock of its first waiter, and those that    *)
(* join later pass the same.                                                 *)
LEMMA WaitSleepers ==
    ASSUME IInv, SleepersSound, NEW t \in Threads, NEW c \in Conds, NEW l \in Locks,
           Wait(t, c, l)
    PROVE  SleepersSound'
  <1>1. /\ Running(t) /\ pc[t] = "run" /\ UNCHANGED semVars
        /\ waitingLock[c] \in {NoLock, l}
        /\ waitingLock' = [waitingLock EXCEPT ![c] = l]
        /\ condQueue' = [condQueue EXCEPT ![c] = Append(@, t)]
        /\ Enter(t, "Wait", c, l)
    BY DEF Wait
  <1>2. /\ pc \in [Threads -> Calls] /\ lk \in [Threads -> Locks \cup {NoLock}]
        /\ on \in [Threads -> Sems \cup Conds \cup {NoObj}]
        /\ condQueue \in [Conds -> Seq(Threads)]
        /\ waitingLock \in [Conds -> Locks \cup {NoLock}]
    BY DEF IInv, TypeOK
  <1>3. /\ \A u \in Threads \ {t} : pc'[u] = pc[u] /\ on'[u] = on[u] /\ lk'[u] = lk[u]
        /\ pc'[t] = "Wait" /\ lk'[t] = l
    BY <1>1, <1>2 DEF Enter
  <1>4. NoLostV'
    BY <1>1, <1>3, WokenFrame DEF SleepersSound
  <1>5. /\ waitingLock'[c] = l /\ l # NoLock
        /\ condQueue'[c] # << >>
        /\ \A u \in Threads : Queued(condQueue'[c], u) <=> Queued(condQueue[c], u) \/ u = t
    BY <1>1, <1>2, AppendQueued
  <1>6. ASSUME NEW u \in Threads, Queued(condQueue[c], u) PROVE lk'[u] = l
    <2>1. u # t
      BY <1>1, <1>6, RunningNotQueued
    <2>2. condQueue[c] # << >>
      BY <1>2, <1>6, EmptyQueued
    <2>3. lk[u] = waitingLock[c] /\ waitingLock[c] # NoLock
      BY <1>6, <2>2 DEF SleepersSound, WaitersShareLock
    <2> QED
      BY <1>1, <1>3, <2>1, <2>3
  <1>7. ASSUME NEW d \in Conds, d # c
        PROVE  /\ waitingLock'[d] = NoLock <=> condQueue'[d] = << >>
               /\ \A u \in Threads : Queued(condQueue'[d], u) => lk'[u] = waitingLock'[d]
    <2>1. condQueue'[d] = condQueue[d] /\ waitingLock'[d] = waitingLock[d]
      BY <1>1, <1>2, <1>7
    <2> QED
      BY <1>1, <1>3, <2>1, RunningNotQueued DEF SleepersSound, WaitersShareLock
  <1>8. WaitersShareLock'
    BY <1>3, <1>5, <1>6, <1>7 DEF WaitersShareLock
  <1> QED
    BY <1>4, <1>8 DEF SleepersSound

(* Signal and the iterations of Broadcast: the lock is forgotten with the    *)
(* last waiter, not before.                                                  *)
LEMMA SignalSleepers ==
    ASSUME IInv, SleepersSound, NEW c \in Conds, NEW l \in Locks, SignalFirst(c, l),
           UNCHANGED <<callVars, semVars>>
    PROVE  SleepersSound'
  <1>1. /\ condQueue[c] # << >> /\ waitingLock[c] = l
        /\ condQueue' = [condQueue EXCEPT ![c] = Tail(@)]
        /\ waitingLock' = [waitingLock EXCEPT ![c] = IF Len(condQueue[c]) = 1
                                                     THEN NoLock ELSE @]
        /\ condQueue \in [Conds -> Seq(Threads)] /\ Distinct(condQueue[c])
        /\ waitingLock \in [Conds -> Locks \cup {NoLock}]
        /\ UNCHANGED <<pc, on, lk>>
    BY DEF SignalFirst, callVars, IInv, TypeOK, ObjectsSound, CondQueuesSound
  <1>2. NoLostV'
    BY <1>1, WokenFrame DEF SleepersSound
  <1>3. /\ Tail(condQueue[c]) = << >> <=> Len(condQueue[c]) = 1
        /\ condQueue'[c] = Tail(condQueue[c])
    <2> DEFINE q == condQueue[c]
    <2>1. q \in Seq(Threads) /\ q # << >> /\ condQueue'[c] = Tail(q)
      BY <1>1
    <2> HIDE DEF q
    <2>2. Tail(q) = << >> <=> Len(q) = 1
      <3>1. Len(Tail(q)) = Len(q) - 1 /\ Len(q) \in Nat /\ Tail(q) \in Seq(Threads)
        BY <2>1
      <3>2. Tail(q) = << >> <=> Len(Tail(q)) = 0
        BY <3>1, EmptySeq
      <3> QED
        BY <3>1, <3>2
    <2> QED
      BY <2>1, <2>2 DEF q
  <1>4. \A u \in Threads : Queued(condQueue'[c], u) => Queued(condQueue[c], u)
    BY <1>1, <1>3, TailQueued
  <1>5. \A u \in Threads : Queued(condQueue'[c], u) => condQueue'[c] # << >>
    BY <1>1, <1>3, TailQueued, EmptyQueued
  <1>6. waitingLock'[c] = IF condQueue'[c] = << >> THEN NoLock ELSE l
    BY <1>1, <1>3
  <1>7. WaitersShareLock'
    BY <1>1, <1>4, <1>5, <1>6 DEF SleepersSound, WaitersShareLock
  <1> QED
    BY <1>2, <1>7 DEF SleepersSound

(* Locks and scheduling. *)
LEMMA OtherSleepers ==
    ASSUME IInv, SleepersSound, NEW t \in Threads,
           \/ \E u \in Threads : Fork(t, u)
           \/ ThreadRoot(t) \/ Finish(t) \/ Yield(t)
           \/ \E l \in Locks : Acquire(t, l) \/ Release(t, l)
           \/ AcquireReturns(t)
           \/ \E c \in Conds, l \in Locks \cup {NoLock} : Broadcast(t, c, l)
           \/ BroadcastReturns(t)
    PROVE  SleepersSound'
  <1>1. pc \in [Threads -> Calls]
    BY DEF IInv, TypeOK
  <1>2. Running(t) /\ UNCHANGED <<semVars, condVars>>
    BY DEF Fork, ThreadRoot, Finish, Yield, InterruptsOn, Acquire, Release,
           AcquireReturns, Broadcast, BroadcastReturns
  <1>3. \/ UNCHANGED callVars
        \/ Return(t) /\ pc[t] # "P"
        \/ (\E l \in Locks \cup {NoLock} : Enter(t, "finished", NoObj, NoLock)
               \/ Enter(t, "Acquire", NoObj, l)
               \/ \E c \in Conds : Enter(t, "Broadcast", c, l)) /\ pc[t] # "P"
    BY DEF Fork, ThreadRoot, Finish, Yield, Acquire, Release, AcquireReturns,
           Broadcast, BroadcastReturns
  <1>4. /\ \A u \in Threads \ {t} : pc'[u] = pc[u] /\ on'[u] = on[u] /\ lk'[u] = lk[u]
        /\ \/ pc'[t] = pc[t] /\ on'[t] = on[t]
           \/ pc[t] # "P" /\ pc'[t] # "P"
    BY <1>1, <1>3 DEF Return, Enter, callVars, IInv, TypeOK
  <1> QED
    BY <1>2, <1>4, CallFrame

LEMMA SleepersNext == IInv /\ SleepersSound /\ [Next]_vars => SleepersSound'
  <1> SUFFICES ASSUME IInv, SleepersSound, [Next]_vars PROVE SleepersSound'
    OBVIOUS
  <1>1. ASSUME NEW t \in Threads, Step(t) PROVE SleepersSound'
    <2>1. ASSUME NEW s \in Sems, P(t, s) PROVE SleepersSound'
      BY <2>1, PSleepers
    <2>2. ASSUME NEW c \in Conds, NEW l \in Locks, Wait(t, c, l) PROVE SleepersSound'
      BY <2>2, WaitSleepers
    <2>3. ASSUME NEW c \in Conds, NEW l \in Locks, Signal(t, c, l) PROVE SleepersSound'
      BY <2>3, SignalSleepers DEF Signal
    <2>4. CASE BroadcastSignal(t)
      <3>1. on[t] \in Conds /\ lk[t] \in Locks
        BY <2>4, IInvParts DEF BroadcastSignal, CallTypeOK
      <3> QED
        BY <2>4, <3>1, SignalSleepers DEF BroadcastSignal
    <2>5. CASE \/ \E u \in Threads : Fork(t, u)
               \/ ThreadRoot(t) \/ Finish(t) \/ Yield(t)
               \/ \E l \in Locks : Acquire(t, l) \/ Release(t, l)
               \/ AcquireReturns(t)
               \/ \E c \in Conds, l \in Locks \cup {NoLock} : Broadcast(t, c, l)
               \/ BroadcastReturns(t)
      BY <2>5, OtherSleepers
    <2> QED
      BY <1>1, <2>1, <2>2, <2>3, <2>4, <2>5 DEF Step
  <1>2. ASSUME NEW s \in Sems, V(s) PROVE SleepersSound'
    BY <1>2, VSleepers
  <1>3. CASE WakeFromIdle \/ UNCHANGED vars
    <2>1. UNCHANGED <<semVars, condVars, pc, on, lk>>
      BY <1>3 DEF WakeFromIdle, callVars, vars, semVars, condVars
    <2> QED
      BY <2>1, WokenFrame, WaitersFrame DEF SleepersSound
  <1> QED
    BY <1>1, <1>2, <1>3 DEF Next

(* No V is lost and no Signal with the waiters' lock is refused: who sleeps  *)
(* in P has a woken thread for every unit that went by, and a condition      *)
(* remembers the lock of its waiters as long as it has any.                  *)
THEOREM SleepersWoken == Spec => []SleepersSound
  <1>1. Init => SleepersSound
    <2>1. << >> \in Seq(Threads) /\ \A u \in Threads : ~Queued(<< >>, u)
      BY DEF Queued
    <2> QED
      BY <2>1 DEF Init, SleepersSound, NoLostV, WaitersShareLock
  <1> QED
    BY <1>1, SleepersNext, Invariance, PTL DEF Spec

-----------------------------------------------------------------------------
(* The monitor. *)

Waiters == [c \in Conds |-> {t \in Threads : Queued(condQueue[c], t)}]

(* A step that changes neither the queues of the conditions nor who holds    *)
(* what is invisible to the monitor.                                         *)
LEMMA MonitorStutter ==
    ASSUME UNCHANGED <<condQueue, held>>
    PROVE  UNCHANGED <<held, Waiters>>
  BY DEF Waiters

(* Acquire finds the lock free, or returns with a lock handed to it: nobody  *)
(* else holds it.                                                            *)
LEMMA AcquireMonitor ==
    ASSUME IInv, NEW t \in Threads, NEW l \in Locks,
           lockFree[l] \/ (ownerThread[l] = t /\ pc[t] = "Acquire" /\ lk[t] = l),
           held' = [held EXCEPT ![t] = @ \cup {l}], UNCHANGED condQueue
    PROVE  Monitor!Acquire(t, l)
  <1>1. \A u \in Threads : l \notin held[u]
    BY DEF IInv, TypeOK, LockStateSound
  <1> QED
    BY <1>1 DEF Monitor!Acquire

LEMMA WaitMonitor ==
    ASSUME IInv, NEW t \in Threads, NEW c \in Conds, NEW l \in Locks, Wait(t, c, l)
    PROVE  Monitor!Wait(t, c, l)
  <1>1. /\ condQueue \in [Conds -> Seq(Threads)] /\ held \in [Threads -> SUBSET Locks]
        /\ condQueue' = [condQueue EXCEPT ![c] = Append(@, t)] /\ Running(t)
    BY DEF Wait, IInv, TypeOK
  <1>2. \A d \in Conds : ~Queued(condQueue[d], t)
    BY <1>1, RunningNotQueued
  <1>3. \A u \in Threads : Queued(Append(condQueue[c], t), u)
                              <=> Queued(condQueue[c], u) \/ u = t
    BY <1>1, AppendQueued
  <1>4. Waiters' = [Waiters EXCEPT ![c] = @ \cup {t}]
    BY <1>1, <1>3 DEF Waiters
  <1>5. held' = [held EXCEPT ![t] = @ \ {l}]
    <2>1. CASE ownerThread[l] = t
      BY <2>1 DEF Wait, HandOver
    <2>2. CASE ownerThread[l] # t
      <3>1. l \notin held[t] /\ held' = held
        BY <2>2 DEF Wait, lockVars, IInv, LockStateSound
      <3> QED
        BY <1>1, <3>1
    <2> QED
      BY <2>1, <2>2
  <1> QED
    BY <1>2, <1>4, <1>5 DEF Monitor!Wait, Waiters

LEMMA SignalMonitor ==
    ASSUME IInv, NEW c \in Conds, NEW l \in Locks, SignalFirst(c, l), UNCHANGED lockVars
    PROVE  Monitor!Signal(c)
  <1> DEFINE u == Head(condQueue[c])
  <1>1. /\ condQueue \in [Conds -> Seq(Threads)] /\ Distinct(condQueue[c])
        /\ condQueue[c] # << >>
        /\ condQueue' = [condQueue EXCEPT ![c] = Tail(@)] /\ held' = held
    BY DEF SignalFirst, lockVars, IInv, TypeOK, ObjectsSound, CondQueuesSound
  <1>2. /\ u \in Threads /\ Queued(condQueue[c], u)
        /\ \A w \in Threads : Queued(Tail(condQueue[c]), w)
                                <=> Queued(condQueue[c], w) /\ w # u
    BY <1>1, TailQueued
  <1> HIDE DEF u
  <1>3. Waiters' = [Waiters EXCEPT ![c] = @ \ {u}] /\ u \in Waiters[c]
    BY <1>1, <1>2 DEF Waiters
  <1> QED
    BY <1>1, <1>3 DEF Monitor!Signal, Waiters

(* Every step of the kernel is a step of the monitor or is invisible to it. *)
LEMMA MonitorNext == IInv /\ [Next]_vars => [Monitor!Next]_<<held, Waiters>>
  <1> SUFFICES ASSUME IInv, [Next]_vars PROVE Monitor!Next \/ UNCHANGED <<held, Waiters>>
    OBVIOUS
  <1>1. ASSUME NEW t \in Threads, Step(t)
        PROVE  Monitor!Next \/ UNCHANGED <<held, Waiters>>
    <2>1. ASSUME NEW l \in Locks, Acquire(t, l)
          PROVE  Monitor!Next \/ UNCHANGED <<held, Waiters>>
      <3>1. CASE lockFree[l]
        <4>1. Monitor!Acquire(t, l)
          BY <2>1, <3>1, AcquireMonitor DEF Acquire, condVars
        <4> QED
          BY <4>1 DEF Monitor!Next
      <3>2. CASE ~lockFree[l]
        BY <2>1, <3>2, MonitorStutter DEF Acquire, condVars
      <3> QED
        BY <3>1, <3>2
    <2>2. CASE AcquireReturns(t)
      <3>1. lk[t] \in Locks /\ status[t] # "BLOCKED" /\ pc[t] = "Acquire"
        BY <2>2, IInvParts DEF AcquireReturns, CallTypeOK, Running
      <3>2. ownerThread[lk[t]] = t
        BY <3>1 DEF IInv, LockStateSound
      <3>3. Monitor!Acquire(t, lk[t])
        BY <2>2, <3>1, <3>2, AcquireMonitor DEF AcquireReturns, condVars
      <3> QED
        BY <3>1, <3>3 DEF Monitor!Next
    <2>3. ASSUME NEW l \in Locks, Release(t, l) PROVE Monitor!Next
      <3>1. held' = [held EXCEPT ![t] = @ \ {l}] /\ condQueue' = condQueue
        BY <2>3 DEF Release, HandOver, condVars
      <3>2. l \in held[t]
        BY <2>3 DEF Release, IInv, LockStateSound
      <3>3. Monitor!Release(t, l)
        BY <3>1, <3>2 DEF Monitor!Release
      <3> QED
        BY <3>3 DEF Monitor!Next
    <2>4. ASSUME NEW c \in Conds, NEW l \in Locks, Wait(t, c, l) PROVE Monitor!Next
      BY <2>4, WaitMonitor DEF Monitor!Next
    <2>5. ASSUME NEW c \in Conds, NEW l \in Locks, Signal(t, c, l) PROVE Monitor!Next
      BY <2>5, SignalMonitor DEF Signal, Monitor!Next
    <2>6. CASE BroadcastSignal(t)
      <3>1. on[t] \in Conds /\ lk[t] \in Locks
        BY <2>6, IInvParts DEF BroadcastSignal, CallTypeOK
      <3> QED
        BY <2>6, <3>1, SignalMonitor DEF BroadcastSignal, Monitor!Next
    <2>7. CASE \/ \E u \in Threads : Fork(t, u)
               \/ ThreadRoot(t) \/ Finish(t) \/ Yield(t)
               \/ \E s \in Sems : P(t, s)
               \/ \E c \in Conds, l \in Locks \cup {NoLock} : Broadcast(t, c, l)
               \/ BroadcastReturns(t)
      <3>1. UNCHANGED <<condQueue, held>>
        BY <2>7 DEF Fork, ThreadRoot, Finish, Yield, P, Broadcast, BroadcastReturns,
                    lockVars, condVars
      <3> QED
        BY <3>1, MonitorStutter
    <2> QED
      BY <1>1, <2>1, <2>2, <2>3, <2>4, <2>5, <2>6, <2>7 DEF Step
  <1>2. CASE (\E s \in Sems : V(s)) \/ WakeFromIdle \/ UNCHANGED vars
    <2>1. UNCHANGED <<condQueue, held>>
      BY <1>2 DEF V, WakeFromIdle, vars, lockVars, condVars
    <2> QED
      BY <2>1, MonitorStutter
  <1> QED
    BY <1>1, <1>2 DEF Next

(* The locks and condition variables of the kernel implement a Mesa monitor: *)
(* with who is queued on a condition for its waiters, a lock is entered only *)
(* when nobody holds it, Wait leaves it and joins the waiters in one step,   *)
(* and Signal takes one of them out.                                         *)
THEOREM ImplementsMonitor == Spec => MonitorSpec
  <1>1. Init => Monitor!Init
    <2>1. << >> \in Seq(Threads) /\ \A u \in Threads : ~Queued(<< >>, u)
      BY DEF Queued
    <2> QED
      BY <2>1 DEF Init, Monitor!Init
  <1>2. IInv /\ [Next]_vars => [Monitor!Next]_(Monitor!monitorVars)
    BY MonitorNext DEF Monitor!monitorVars, Waiters
  <1> QED
    BY <1>1, <1>2, Invariance, PTL DEF Spec, MonitorSpec, Monitor!Spec

=============================================================================
