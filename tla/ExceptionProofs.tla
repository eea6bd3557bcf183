--------------------------- MODULE ExceptionProofs --------------------------
(***************************************************************************)
(* Theorems about what ExceptionHandler of exception.cc does for the       *)
(* threads of the user programs: the system calls of locks and conditions  *)
(* (Syscalls), for any number of threads, address spaces, locks and        *)
(* conditions, and the page faults (Paging), for any number of threads,    *)
(* processes, pages, frames, TLB entries and places in the swap file.      *)
(* Syscalls comes first; the names of what belongs to Paging begin so      *)
(* where both need one.                                                    *)
(***************************************************************************)
EXTENDS Syscalls, Paging, QueueTheorems

USE SyscallsAssumption DEF SyscallsAssumption

-----------------------------------------------------------------------------
(* The inductive invariant. *)

PCs == [at : Places, lock : LockIndexes \cup {NoLock}, cond : CondIndexes \cup {NoLock}]

(* t is asleep for lock i, in condition j. *)
Asks(t, i)   == pc[t].at \in {"Acquiring", "Reacquiring"} /\ pc[t].lock = i
Sleeps(t, j) == pc[t].at = "Waiting" /\ pc[t].cond = j

(* What a call is about exists; so does what a thread holds. *)
CallOK(r) ==
    /\ r.at \in {"Acquiring", "Reacquiring", "Waiting", "Signaled", "Releasing",
                 "Signaling", "Broadcasting"} => r.lock \in DOMAIN lockTable
    /\ r.at \in {"Reacquiring", "Waiting", "Signaled", "Signaling", "Broadcasting"}
          => r.cond \in DOMAIN conditionTable
    /\ r.at = "Releasing" => lockTable[r.lock].isToBeDeleted

CallsSound == \A t \in Threads : CallOK(pc[t]) /\ holds[t] \subseteq DOMAIN lockTable

(* A lock that is not deleted: its owner, its queue and its threads agree. *)
LockSound(i) ==
    /\ Distinct(lockTable[i].queue)
    /\ \A t \in Threads : /\ i \in holds[t] <=> lockTable[i].owner = t
                          /\ Queued(lockTable[i].queue, t) <=> Asks(t, i)
    /\ lockTable[i].owner = NoThread => lockTable[i].queue = << >>

LocksSound == \A i \in DOMAIN lockTable : ~lockTable[i].isDeleted => LockSound(i)

(* A condition, deleted or not, has the threads that wait in it. *)
CondSound(j) ==
    /\ Distinct(conditionTable[j].queue)
    /\ \A t \in Threads : Queued(conditionTable[j].queue, t) <=> Sleeps(t, j)
    /\ conditionTable[j].isDeleted => conditionTable[j].queue = << >>

CondsSound == \A j \in DOMAIN conditionTable : CondSound(j)

(* The conditionLock's queue has the threads that wait to create one. *)
CreateSound ==
    /\ Distinct(conditionLock.queue)
    /\ \A t \in Threads : Queued(conditionLock.queue, t) <=> pc[t].at = "Creating"

IInv == TypeOK /\ CallsSound /\ LocksSound /\ CondsSound /\ CreateSound

(* No step takes a mark from a lock again. *)
MarksKept == \A i \in DOMAIN lockTable :
                lockTable[i].isToBeDeleted => lockTable'[i].isToBeDeleted

(* t gives lock i up to the first that waits for it, and is then at place. *)
GivesUp(t, i, place) ==
    /\ lockTable' = [lockTable EXCEPT ![i] = Handed(@)]
    /\ Back(t, place, Next1(lockTable[i].queue))
    /\ Holding(t, {i}, Next1(lockTable[i].queue), {i})

LockTableOK ==
    /\ DOMAIN lockTable \subseteq LockIndexes
    /\ \A i \in DOMAIN lockTable :
          /\ lockTable[i] \in LockX
          /\ lockTable[i].isDeleted => lockTable[i].isToBeDeleted

CondTableOK ==
    /\ DOMAIN conditionTable \subseteq CondIndexes
    /\ \A j \in DOMAIN conditionTable :
          /\ conditionTable[j] \in ConditionX
          /\ conditionTable[j].isDeleted => conditionTable[j].isToBeDeleted

-----------------------------------------------------------------------------
(* Helpers. *)

(* The first free slot of a table is one. *)
LEMMA FirstIn ==
    ASSUME NEW S \in SUBSET Nat, S # {}
    PROVE  First(S) \in S
  BY SmallestMember DEF First

LEMMA AtTyped ==
    ASSUME NEW place \in Places, NEW i \in LockIndexes \cup {NoLock},
           NEW j \in CondIndexes \cup {NoLock}
    PROVE  /\ At(place, i, j) \in PCs
           /\ At(place, i, j).at = place
           /\ At(place, i, j).lock = i
           /\ At(place, i, j).cond = j
  BY DEF At, PCs

LEMMA InUserTyped == InUser \in PCs /\ InUser.at = "User"
  BY AtTyped DEF InUser, Places

(* Back moves t and the threads it names, and nobody else. *)
LEMMA BackTyped ==
    ASSUME pc \in [Threads -> PCs], NEW t \in Threads, NEW place \in PCs, NEW ts,
           Back(t, place, ts)
    PROVE  /\ pc' \in [Threads -> PCs]
           /\ \A u \in Threads : pc'[u] = IF u \in ts THEN InUser
                                          ELSE IF u = t THEN place ELSE pc[u]
  BY InUserTyped DEF Back

(* Calls that go on without a change to what they are about. *)
LEMMA CallsFrame ==
    ASSUME CallsSound,
           DOMAIN lockTable \subseteq DOMAIN lockTable',
           DOMAIN conditionTable \subseteq DOMAIN conditionTable', MarksKept,
           \A u \in Threads : /\ pc'[u] = pc[u] \/ CallOK(pc'[u])
                              /\ holds'[u] \subseteq DOMAIN lockTable'
    PROVE  CallsSound'
  BY DEF CallsSound, CallOK, MarksKept

(* A lock that a step leaves alone, with those that hold it or ask for it. *)
LEMMA LockFrame ==
    ASSUME NEW i, LockSound(i), lockTable'[i] = lockTable[i],
           \A u \in Threads : /\ i \in holds'[u] <=> i \in holds[u]
                              /\ Asks(u, i)' <=> Asks(u, i)
    PROVE  LockSound(i)'
  BY DEF LockSound

LEMMA LocksFrame ==
    ASSUME LocksSound, UNCHANGED <<lockTable, holds>>,
           \A u \in Threads : \/ pc'[u] = pc[u]
                              \/ /\ pc[u].at \notin {"Acquiring", "Reacquiring"}
                                 /\ pc'[u].at \notin {"Acquiring", "Reacquiring"}
    PROVE  LocksSound'
  BY LockFrame DEF LocksSound, Asks

LEMMA CondsFrame ==
    ASSUME CondsSound, UNCHANGED conditionTable,
           \A u \in Threads : \/ pc'[u] = pc[u]
                              \/ pc[u].at # "Waiting" /\ pc'[u].at # "Waiting"
    PROVE  CondsSound'
  BY DEF CondsSound, CondSound, Sleeps

LEMMA CreateFrame ==
    ASSUME CreateSound, UNCHANGED conditionLock,
           \A u \in Threads : \/ pc'[u] = pc[u]
                              \/ pc[u].at # "Creating" /\ pc'[u].at # "Creating"
    PROVE  CreateSound'
  BY DEF CreateSound

LEMMA TypeParts ==
    ASSUME LockTableOK', CondTableOK',
           conditionLock' \in [owner : Threads \cup {NoThread}, queue : Seq(Threads)],
           pc' \in [Threads -> PCs],
           holds' \in [Threads -> SUBSET LockIndexes],
           up' \in BOOLEAN
    PROVE  TypeOK'
  BY DEF TypeOK, LockTableOK, CondTableOK, PCs

LEMMA IInvTypes ==
    ASSUME IInv
    PROVE  /\ LockTableOK /\ CondTableOK
           /\ conditionLock \in [owner : Threads \cup {NoThread}, queue : Seq(Threads)]
           /\ pc \in [Threads -> PCs]
           /\ holds \in [Threads -> SUBSET LockIndexes]
           /\ up \in BOOLEAN
           /\ CallsSound /\ LocksSound /\ CondsSound /\ CreateSound
  BY DEF IInv, TypeOK, LockTableOK, CondTableOK, PCs

-----------------------------------------------------------------------------
(* What calls do to a lock. *)

(* The first in the queue of a lock that is released gets it, and comes out  *)
(* of its call.                                                              *)
LEMMA GiveUpSound ==
    ASSUME IInv, NEW t \in Threads, NEW i \in DOMAIN lockTable,
           ~lockTable[i].isDeleted, lockTable[i].owner = t, pc[t].at = "User",
           NEW place \in PCs, place.at \notin {"Acquiring", "Reacquiring"},
           GivesUp(t, i, place)
    PROVE  /\ LockTableOK' /\ LocksSound'
           /\ DOMAIN lockTable' = DOMAIN lockTable /\ MarksKept
           /\ pc' \in [Threads -> PCs] /\ holds' \in [Threads -> SUBSET LockIndexes]
           /\ pc'[t] = place
           /\ \A u \in Threads \ {t} : pc'[u] = pc[u] \/ (Asks(u, i) /\ pc'[u] = InUser)
           /\ \A u \in Threads : holds'[u] \subseteq holds[u] \cup {i}
  <1> DEFINE L == lockTable[i]
             ts == Next1(L.queue)
  <1>1. /\ LockTableOK /\ LocksSound /\ pc \in [Threads -> PCs]
        /\ holds \in [Threads -> SUBSET LockIndexes]
    BY IInvTypes
  <1>2. /\ L \in LockX /\ L.queue \in Seq(Threads) /\ Distinct(L.queue) /\ LockSound(i)
        /\ i \in LockIndexes
    BY <1>1 DEF LockTableOK, LockX, LocksSound, LockSound
  <1>3. lockTable'[i] = Handed(L) /\ DOMAIN lockTable' = DOMAIN lockTable
    BY DEF GivesUp
  <1>4. \A k \in DOMAIN lockTable : k # i => lockTable'[k] = lockTable[k]
    BY DEF GivesUp
  <1>5. /\ Handed(L) \in LockX
        /\ Handed(L).isDeleted = L.isDeleted /\ Handed(L).isToBeDeleted = L.isToBeDeleted
        /\ Distinct(Handed(L).queue)
        /\ \A u \in Threads : /\ u \in ts <=> Handed(L).owner = u
                              /\ Queued(Handed(L).queue, u) <=> Queued(L.queue, u) /\ u \notin ts
                              /\ u \in ts => Queued(L.queue, u)
        /\ Handed(L).owner = NoThread => Handed(L).queue = << >>
    <2> HIDE DEF L
    <2>1. CASE L.queue = << >>
      <3>1. Handed(L) = [L EXCEPT !.owner = NoThread] /\ ts = {}
        BY <2>1 DEF Handed, Next1
      <3>2. \A u \in Threads : ~Queued(L.queue, u)
        BY <1>2, <2>1, QueueEmpty
      <3>3. Handed(L) \in LockX /\ Handed(L).owner = NoThread /\ Handed(L).queue = L.queue
        BY <1>2, <3>1 DEF LockX
      <3> QED
        BY <1>2, <2>1, <3>1, <3>2, <3>3 DEF LockX
    <2>2. CASE L.queue # << >>
      <3> DEFINE h == Head(L.queue)
                 q == Tail(L.queue)
      <3>1. Handed(L) = [L EXCEPT !.owner = h, !.queue = q] /\ ts = {h}
        BY <2>2 DEF Handed, Next1
      <3>2. /\ h \in Threads /\ q \in Seq(Threads) /\ Distinct(q) /\ Queued(L.queue, h)
            /\ \A u \in Threads : Queued(q, u) <=> Queued(L.queue, u) /\ u # h
        BY <1>2, <2>2, QueueTail
      <3> HIDE DEF h, q
      <3>3. /\ Handed(L) \in LockX /\ Handed(L).owner = h /\ Handed(L).queue = q
            /\ Handed(L).isDeleted = L.isDeleted /\ Handed(L).isToBeDeleted = L.isToBeDeleted
        BY <1>2, <3>1, <3>2 DEF LockX
      <3> HIDE DEF ts
      <3> QED
        BY <3>1, <3>2, <3>3
    <2> QED
      BY <2>1, <2>2
  <1>6. \A u \in ts : u \in Threads /\ u # t /\ Asks(u, i)
    <2>1. ts \subseteq Threads
      <3> HIDE DEF L
      <3> QED
        BY <1>2, QueueTail DEF Next1
    <2>2. \A u \in ts : Asks(u, i)
      BY <1>2, <1>5, <2>1 DEF LockSound
    <2> QED
      BY <2>1, <2>2 DEF Asks
  <1> HIDE DEF L, ts
  <1>7. /\ pc' \in [Threads -> PCs]
        /\ pc'[t] = place
        /\ \A u \in Threads : /\ u \in ts => pc'[u] = InUser
                              /\ u \notin ts /\ u # t => pc'[u] = pc[u]
    <2>1. Back(t, place, ts)
      BY DEF ts, L, GivesUp
    <2> QED
      BY <1>1, <1>6, <2>1, BackTyped
  <1>8. /\ holds' \in [Threads -> SUBSET LockIndexes]
        /\ \A u \in Threads : /\ i \in holds'[u] <=> u \in ts \/ (u # t /\ i \in holds[u])
                              /\ \A k : k # i => (k \in holds'[u] <=> k \in holds[u])
    <2>1. Holding(t, {i}, ts, {i})
      BY DEF ts, L, GivesUp
    <2> QED
      BY <1>1, <1>2, <1>6, <2>1 DEF Holding
  <1>9. LockTableOK'
    BY <1>1, <1>2, <1>3, <1>4, <1>5 DEF LockTableOK, L
  <1>10. LockSound(i)'
    <2>1. \A u \in Threads : i \in holds[u] <=> u = t
      BY <1>2 DEF LockSound, L
    <2>2. \A u \in Threads : Asks(u, i)' <=> Asks(u, i) /\ u \notin ts
      BY <1>6, <1>7, InUserTyped DEF Asks
    <2> QED
      BY <1>2, <1>3, <1>5, <1>6, <1>8, <2>1, <2>2 DEF LockSound, L
  <1>11. ASSUME NEW k \in DOMAIN lockTable, k # i, ~lockTable[k].isDeleted
         PROVE  LockSound(k)'
    <2>1. LockSound(k)
      BY <1>1, <1>11 DEF LocksSound
    <2>2. \A u \in Threads : Asks(u, k)' <=> Asks(u, k)
      BY <1>6, <1>7, <1>11, InUserTyped DEF Asks
    <2> QED
      BY <1>4, <1>8, <1>11, <2>1, <2>2, LockFrame
  <1>12. LocksSound'
    BY <1>3, <1>4, <1>10, <1>11 DEF LocksSound
  <1>13. MarksKept
    BY <1>3, <1>4, <1>5 DEF MarksKept, L
  <1> QED
    BY <1>3, <1>6, <1>7, <1>8, <1>9, <1>12, <1>13

(* A lock is taken when it is free, and waited for when it is not. *)
LEMMA TakeLockSound ==
    ASSUME IInv, NEW t \in Threads, NEW i \in DOMAIN lockTable, ~lockTable[i].isDeleted,
           pc[t].at \notin {"Acquiring", "Reacquiring"},
           NEW place \in PCs, place.at \in {"Acquiring", "Reacquiring"}, place.lock = i,
           TakeLock(t, i, place)
    PROVE  /\ LockTableOK' /\ LocksSound'
           /\ DOMAIN lockTable' = DOMAIN lockTable /\ MarksKept
           /\ pc' \in [Threads -> PCs] /\ holds' \in [Threads -> SUBSET LockIndexes]
           /\ pc'[t] \in {InUser, place}
           /\ \A u \in Threads \ {t} : pc'[u] = pc[u]
           /\ \A u \in Threads : holds'[u] \subseteq holds[u] \cup {i}
  <1>1. /\ LockTableOK /\ LocksSound /\ pc \in [Threads -> PCs]
        /\ holds \in [Threads -> SUBSET LockIndexes] /\ InUser \in PCs
    BY IInvTypes, InUserTyped
  <1>2. /\ lockTable[i] \in LockX /\ LockSound(i) /\ i \in LockIndexes
        /\ lockTable[i].queue \in Seq(Threads)
        /\ lockTable[i].isDeleted => lockTable[i].isToBeDeleted
    BY <1>1 DEF LockTableOK, LockX, LocksSound
  <1>3. CASE lockTable[i].owner = NoThread
    <2>1. /\ lockTable' = [lockTable EXCEPT ![i].owner = t]
          /\ Back(t, InUser, {}) /\ Holding(t, {}, {t}, {i})
      BY <1>3 DEF TakeLock
    <2>2. /\ pc' \in [Threads -> PCs] /\ pc'[t] = InUser
          /\ \A u \in Threads \ {t} : pc'[u] = pc[u]
      BY <1>1, <2>1, BackTyped
    <2>3. /\ holds' \in [Threads -> SUBSET LockIndexes]
          /\ \A u \in Threads : holds'[u] = IF u = t THEN holds[u] \cup {i} ELSE holds[u]
      BY <1>1, <1>2, <2>1 DEF Holding
    <2>4. /\ DOMAIN lockTable' = DOMAIN lockTable
          /\ lockTable'[i] = [lockTable[i] EXCEPT !.owner = t]
          /\ \A k \in DOMAIN lockTable : k # i => lockTable'[k] = lockTable[k]
      BY <2>1
    <2>5. /\ lockTable'[i] \in LockX /\ lockTable'[i].owner = t
          /\ lockTable'[i].queue = lockTable[i].queue
          /\ lockTable'[i].isDeleted = lockTable[i].isDeleted
          /\ lockTable'[i].isToBeDeleted = lockTable[i].isToBeDeleted
      BY <1>2, <2>4 DEF LockX
    <2>6. LockTableOK'
      BY <1>1, <1>2, <2>4, <2>5 DEF LockTableOK
    <2>7. \A u \in Threads, k \in DOMAIN lockTable : Asks(u, k)' <=> Asks(u, k)
      BY <2>2, InUserTyped DEF Asks
    <2>8. LockSound(i)'
      BY <1>2, <1>3, <2>3, <2>5, <2>7 DEF LockSound
    <2>9. LocksSound'
      BY <1>1, <2>3, <2>4, <2>7, <2>8, LockFrame DEF LocksSound
    <2>10. MarksKept
      BY <2>4, <2>5 DEF MarksKept
    <2> QED
      BY <2>2, <2>3, <2>4, <2>6, <2>9, <2>10
  <1>4. CASE lockTable[i].owner # NoThread
    <2>1. /\ lockTable' = [lockTable EXCEPT ![i].queue = Append(@, t)]
          /\ Back(t, place, {}) /\ holds' = holds
      BY <1>4 DEF TakeLock
    <2>2. /\ pc' \in [Threads -> PCs] /\ pc'[t] = place
          /\ \A u \in Threads \ {t} : pc'[u] = pc[u]
      BY <1>1, <2>1, BackTyped
    <2> DEFINE q == Append(lockTable[i].queue, t)
    <2>3. /\ DOMAIN lockTable' = DOMAIN lockTable
          /\ lockTable'[i] = [lockTable[i] EXCEPT !.queue = q]
          /\ \A k \in DOMAIN lockTable : k # i => lockTable'[k] = lockTable[k]
      BY <2>1
    <2>4. /\ q \in Seq(Threads) /\ Distinct(q)
          /\ \A u \in Threads : Queued(q, u) <=> Queued(lockTable[i].queue, u) \/ u = t
      <3>1. Distinct(lockTable[i].queue) /\ ~Queued(lockTable[i].queue, t)
        BY <1>2 DEF LockSound, Asks
      <3> QED
        BY <1>2, <3>1, QueueAppend
    <2> HIDE DEF q
    <2>5. /\ lockTable'[i] \in LockX /\ lockTable'[i].owner = lockTable[i].owner
          /\ lockTable'[i].queue = q
          /\ lockTable'[i].isDeleted = lockTable[i].isDeleted
          /\ lockTable'[i].isToBeDeleted = lockTable[i].isToBeDeleted
      BY <1>2, <2>3, <2>4 DEF LockX
    <2>6. LockTableOK'
      BY <1>1, <1>2, <2>3, <2>5 DEF LockTableOK
    <2>7. \A u \in Threads, k \in DOMAIN lockTable :
             Asks(u, k)' <=> Asks(u, k) \/ (u = t /\ k = i)
      BY <2>2 DEF Asks
    <2>8. LockSound(i)'
      BY <1>2, <1>4, <2>1, <2>4, <2>5, <2>7 DEF LockSound
    <2>9. LocksSound'
      BY <1>1, <2>1, <2>3, <2>7, <2>8, LockFrame DEF LocksSound
    <2>10. MarksKept
      BY <2>3, <2>5 DEF MarksKept
    <2> QED
      BY <1>1, <2>1, <2>2, <2>3, <2>6, <2>9, <2>10
  <1> QED
    BY <1>3, <1>4

(* Nothing more is asked of a lock that is deleted. *)
LEMMA DeleteLockSound ==
    ASSUME IInv, NEW i \in DOMAIN lockTable, DeleteLock(i), lockTable[i].isToBeDeleted,
           UNCHANGED holds,
           \A u \in Threads : \/ pc'[u] = pc[u]
                              \/ /\ pc[u].at \notin {"Acquiring", "Reacquiring"}
                                 /\ pc'[u].at \notin {"Acquiring", "Reacquiring"}
    PROVE  /\ LockTableOK' /\ LocksSound' /\ up' \in BOOLEAN
           /\ DOMAIN lockTable' = DOMAIN lockTable /\ MarksKept
  <1>1. LockTableOK /\ LocksSound
    BY IInvTypes
  <1>2. /\ lockTable' = [lockTable EXCEPT ![i] = [@ EXCEPT !.isDeleted = TRUE, !.queue = << >>]]
        /\ up' \in BOOLEAN
    BY DEF DeleteLock
  <1>3. /\ DOMAIN lockTable' = DOMAIN lockTable
        /\ \A k \in DOMAIN lockTable : k # i => lockTable'[k] = lockTable[k]
        /\ lockTable'[i] = [lockTable[i] EXCEPT !.isDeleted = TRUE, !.queue = << >>]
    BY <1>2
  <1>4. lockTable'[i] \in LockX /\ lockTable'[i].isDeleted /\ lockTable'[i].isToBeDeleted
    <2> DEFINE L == lockTable[i]
               none == << >>
    <2>1. L \in LockX /\ L.isToBeDeleted /\ none \in Seq(Threads)
      BY <1>1 DEF LockTableOK
    <2>2. lockTable'[i] = [L EXCEPT !.isDeleted = TRUE, !.queue = none]
      BY <1>3
    <2> HIDE DEF L, none
    <2> QED
      BY <2>1, <2>2 DEF LockX
  <1>5. LockTableOK'
    BY <1>1, <1>3, <1>4 DEF LockTableOK
  <1>6. \A u \in Threads, k \in DOMAIN lockTable : Asks(u, k)' <=> Asks(u, k)
    BY DEF Asks
  <1>7. LocksSound'
    BY <1>1, <1>3, <1>4, <1>6, LockFrame DEF LocksSound
  <1>8. MarksKept
    BY <1>3, <1>4 DEF MarksKept
  <1> QED
    BY <1>2, <1>3, <1>5, <1>7, <1>8

(* A Signal takes at most the first waiter out of a condition; the waiter    *)
(* knows which lock to take again.                                           *)
LEMMA SignalsSound ==
    ASSUME IInv, NEW t \in Threads, NEW j \in DOMAIN conditionTable, NEW i,
           pc[t].at # "Waiting", NEW place \in PCs, place.at # "Waiting",
           Signals(t, j, i, place)
    PROVE  /\ CondTableOK' /\ CondsSound'
           /\ DOMAIN conditionTable' = DOMAIN conditionTable
           /\ pc' \in [Threads -> PCs] /\ pc'[t] = place
           /\ \A u \in Threads \ {t} :
                 \/ pc'[u] = pc[u]
                 \/ /\ Sleeps(u, j) /\ pc'[u].at = "Signaled"
                    /\ pc'[u].lock = pc[u].lock /\ pc'[u].cond = pc[u].cond
  <1> DEFINE C == conditionTable[j]
             D == AfterSignal(C, i)
             ts == Awakened(C, i)
  <1>1. /\ CondTableOK /\ CondsSound /\ pc \in [Threads -> PCs]
    BY IInvTypes
  <1>2. /\ C \in ConditionX /\ C.queue \in Seq(Threads) /\ CondSound(j)
        /\ Distinct(C.queue) /\ (C.isDeleted => C.isToBeDeleted)
    BY <1>1 DEF CondTableOK, ConditionX, CondsSound, CondSound
  <1>3. /\ D \in ConditionX
        /\ D.isDeleted = C.isDeleted /\ D.isToBeDeleted = C.isToBeDeleted
        /\ Distinct(D.queue)
        /\ \A u \in Threads : /\ Queued(D.queue, u) <=> Queued(C.queue, u) /\ u \notin ts
                              /\ u \in ts => Queued(C.queue, u)
        /\ ts \subseteq Threads
        /\ C.queue = << >> => D.queue = << >>
    <2> HIDE DEF C
    <2>1. CASE C.queue = << >> \/ C.waitingLock # i
      <3>1. D = C /\ ts = {}
        BY <2>1 DEF AfterSignal, Awakened, Next1
      <3> QED
        BY <1>2, <3>1
    <2>2. CASE C.queue # << >> /\ C.waitingLock = i
      <3> DEFINE h == Head(C.queue)
                 q == Tail(C.queue)
                 w == IF Len(C.queue) = 1 THEN NoLock ELSE C.waitingLock
      <3>1. D = [C EXCEPT !.queue = q, !.waitingLock = w] /\ ts = {h}
        BY <2>2 DEF AfterSignal, Awakened, Next1
      <3>2. /\ h \in Threads /\ q \in Seq(Threads) /\ Distinct(q) /\ Queued(C.queue, h)
            /\ \A u \in Threads : Queued(q, u) <=> Queued(C.queue, u) /\ u # h
        BY <1>2, <2>2, QueueTail
      <3>3. w \in LockIndexes \cup {NoLock}
        BY <1>2 DEF ConditionX
      <3> HIDE DEF h, q, w
      <3>4. /\ D \in ConditionX /\ D.queue = q
            /\ D.isDeleted = C.isDeleted /\ D.isToBeDeleted = C.isToBeDeleted
        BY <1>2, <3>1, <3>2, <3>3 DEF ConditionX
      <3> HIDE DEF D, ts
      <3> QED
        BY <2>2, <3>1, <3>2, <3>4
    <2> QED
      BY <2>1, <2>2
  <1>4. /\ DOMAIN conditionTable' = DOMAIN conditionTable
        /\ conditionTable'[j] = D
        /\ \A k \in DOMAIN conditionTable : k # j => conditionTable'[k] = conditionTable[k]
        /\ \A u \in Threads : pc'[u] = IF u \in ts THEN [pc[u] EXCEPT !.at = "Signaled"]
                                       ELSE IF u = t THEN place ELSE pc[u]
        /\ pc' = [u \in Threads |-> pc'[u]]
    BY DEF Signals
  <1>5. \A u \in ts : u \in Threads /\ u # t /\ Sleeps(u, j)
    BY <1>2, <1>3 DEF CondSound, Sleeps
  <1> HIDE DEF C, D, ts
  <1>6. \A u \in ts : /\ pc'[u] \in PCs /\ pc'[u].at = "Signaled"
                      /\ pc'[u].lock = pc[u].lock /\ pc'[u].cond = pc[u].cond
    BY <1>1, <1>4, <1>5 DEF PCs, Places
  <1>7. pc' \in [Threads -> PCs] /\ pc'[t] = place
    BY <1>1, <1>4, <1>5, <1>6
  <1>8. CondTableOK'
    BY <1>1, <1>2, <1>3, <1>4 DEF CondTableOK, C
  <1>9. \A u \in Threads, k \in DOMAIN conditionTable :
           Sleeps(u, k)' <=> Sleeps(u, k) /\ u \notin ts
    BY <1>4, <1>5, <1>6 DEF Sleeps
  <1>10. CondSound(j)'
    BY <1>2, <1>3, <1>4, <1>9 DEF CondSound, C
  <1>11. ASSUME NEW k \in DOMAIN conditionTable, k # j
         PROVE  CondSound(k)'
    <2>1. CondSound(k)
      BY <1>1 DEF CondsSound
    <2>2. \A u \in Threads : Sleeps(u, k)' <=> Sleeps(u, k)
      BY <1>5, <1>9, <1>11 DEF Sleeps
    <2> QED
      BY <1>4, <1>11, <2>1, <2>2 DEF CondSound
  <1>12. CondsSound'
    BY <1>4, <1>10, <1>11 DEF CondsSound
  <1> QED
    BY <1>4, <1>5, <1>6, <1>7, <1>8, <1>12

-----------------------------------------------------------------------------
(* Every step keeps the inductive invariant. *)

(* A creation finds a slot that is not in use. *)
LEMMA FreeSlot ==
    ASSUME NEW table, NEW n \in Nat, FreeSlots(table, 0..(n - 1)) # {}
    PROVE  First(FreeSlots(table, 0..(n - 1))) \in 0..(n - 1) \ DOMAIN table
  <1> DEFINE S == FreeSlots(table, 0..(n - 1))
  <1>1. S \subseteq 0..(n - 1) \ DOMAIN table /\ S \in SUBSET Nat
    BY DEF FreeSlots
  <1> HIDE DEF S
  <1>2. S # {}
    BY DEF S
  <1>3. First(S) \in S
    BY <1>1, <1>2, FirstIn
  <1> QED
    BY <1>1, <1>3 DEF S

LEMMA CreateLockInv ==
    ASSUME IInv, NEW t \in Threads, CreateLock(t)
    PROVE  IInv'
  <1> DEFINE r == [owner |-> NoThread, queue |-> << >>, space |-> SpaceOf[t],
                   isToBeDeleted |-> FALSE, isDeleted |-> FALSE]
  <1>1. /\ LockTableOK /\ CondTableOK /\ CallsSound /\ LocksSound /\ CondsSound /\ CreateSound
        /\ conditionLock \in [owner : Threads \cup {NoThread}, queue : Seq(Threads)]
        /\ pc \in [Threads -> PCs] /\ holds \in [Threads -> SUBSET LockIndexes] /\ up \in BOOLEAN
    BY IInvTypes
  <1>2. /\ UNCHANGED <<conditionTable, conditionLock, pc, holds, up>>
        /\ FreeSlots(lockTable, LockIndexes) # {}
        /\ lockTable' = With(lockTable, First(FreeSlots(lockTable, LockIndexes)), r)
    BY DEF CreateLock
  <1>3. /\ r \in LockX /\ ~r.isDeleted /\ ~r.isToBeDeleted /\ r.owner = NoThread
        /\ r.queue = << >>
    <2> DEFINE none == << >>
    <2>1. none \in Seq(Threads) /\ SpaceOf[t] \in Spaces
      OBVIOUS
    <2>2. r = [owner |-> NoThread, queue |-> none, space |-> SpaceOf[t],
               isToBeDeleted |-> FALSE, isDeleted |-> FALSE]
      OBVIOUS
    <2>3. r.queue = << >>
      OBVIOUS
    <2> HIDE DEF none, r
    <2> QED
      BY <2>1, <2>2, <2>3 DEF LockX
  <1> HIDE DEF r
  <1>4. PICK k \in LockIndexes \ DOMAIN lockTable :
           /\ DOMAIN lockTable' = DOMAIN lockTable \cup {k}
           /\ lockTable'[k] = r
           /\ \A n \in DOMAIN lockTable : n # k /\ lockTable'[n] = lockTable[n]
    <2>1. PICK k \in LockIndexes \ DOMAIN lockTable : lockTable' = With(lockTable, k, r)
      BY <1>2, FreeSlot DEF LockIndexes
    <2> QED
      BY <2>1 DEF With
  <1>5. LockTableOK'
    BY <1>1, <1>3, <1>4 DEF LockTableOK
  <1>6. MarksKept
    BY <1>4 DEF MarksKept
  <1>7. CallsSound'
    <2>1. \A u \in Threads : pc'[u] = pc[u] /\ holds'[u] \subseteq DOMAIN lockTable'
      BY <1>1, <1>2, <1>4 DEF CallsSound
    <2> QED
      BY <1>1, <1>2, <1>4, <1>6, <2>1, CallsFrame
  <1>8. ASSUME NEW n \in DOMAIN lockTable, ~lockTable[n].isDeleted
        PROVE  LockSound(n)'
    <2>1. LockSound(n)
      BY <1>1, <1>8 DEF LocksSound
    <2> QED
      BY <1>2, <1>4, <2>1, LockFrame DEF Asks
  <1>9. LockSound(k)'
    <2>1. \A u \in Threads : k \notin holds[u] /\ ~Asks(u, k)
      BY <1>1, <1>4 DEF CallsSound, CallOK, Asks
    <2>2. Distinct(<< >>) /\ \A u \in Threads : ~Queued(<< >>, u)
      BY DEF Distinct, Queued
    <2> QED
      BY <1>2, <1>3, <1>4, <2>1, <2>2 DEF LockSound, Asks
  <1>10. LocksSound'
    BY <1>4, <1>8, <1>9 DEF LocksSound
  <1>11. CondsSound' /\ CreateSound' /\ CondTableOK'
    BY <1>1, <1>2, CondsFrame, CreateFrame DEF CondTableOK
  <1> QED
    BY <1>1, <1>2, <1>5, <1>7, <1>10, <1>11, TypeParts DEF IInv

LEMMA AcquireInv ==
    ASSUME IInv, NEW t \in Threads, NEW i \in LockIndexes, Acquire(t, i)
    PROVE  IInv'
  <1>1. /\ LockTableOK /\ CondTableOK /\ CallsSound /\ LocksSound /\ CondsSound /\ CreateSound
        /\ conditionLock \in [owner : Threads \cup {NoThread}, queue : Seq(Threads)]
        /\ pc \in [Threads -> PCs] /\ holds \in [Threads -> SUBSET LockIndexes] /\ up \in BOOLEAN
    BY IInvTypes
  <1>2. /\ pc[t].at = "User" /\ i \in DOMAIN lockTable /\ ~lockTable[i].isDeleted
        /\ UNCHANGED <<conditionTable, conditionLock>>
    BY DEF Acquire, Runs, Mine
  <1>3. CondTableOK'
    BY <1>1, <1>2 DEF CondTableOK
  <1>4. CASE lockTable[i].isToBeDeleted /\ DeleteLock(i) /\ UNCHANGED <<pc, holds>>
    <2>1. /\ LockTableOK' /\ LocksSound' /\ DOMAIN lockTable' = DOMAIN lockTable
          /\ MarksKept /\ up' \in BOOLEAN
      BY <1>2, <1>4, DeleteLockSound
    <2>2. CallsSound'
      <3>1. \A u \in Threads : pc'[u] = pc[u] /\ holds'[u] \subseteq DOMAIN lockTable'
        BY <1>1, <1>4, <2>1 DEF CallsSound
      <3> QED
        BY <1>1, <1>2, <2>1, <3>1, CallsFrame
    <2>3. CondsSound' /\ CreateSound'
      BY <1>1, <1>2, <1>4, CondsFrame, CreateFrame
    <2> QED
      BY <1>1, <1>2, <1>3, <1>4, <2>1, <2>2, <2>3, TypeParts DEF IInv
  <1>5. CASE TakeLock(t, i, At("Acquiring", i, NoLock)) /\ UNCHANGED up
    <2> DEFINE place == At("Acquiring", i, NoLock)
    <2>1. /\ place \in PCs /\ place.at = "Acquiring" /\ place.lock = i
          /\ InUser \in PCs /\ InUser.at = "User"
      BY AtTyped, InUserTyped DEF Places
    <2>2. TakeLock(t, i, place)
      BY <1>5
    <2> HIDE DEF place
    <2>3. /\ LockTableOK' /\ LocksSound'
          /\ DOMAIN lockTable' = DOMAIN lockTable /\ MarksKept
          /\ pc' \in [Threads -> PCs] /\ holds' \in [Threads -> SUBSET LockIndexes]
          /\ pc'[t] \in {InUser, place}
          /\ \A u \in Threads \ {t} : pc'[u] = pc[u]
          /\ \A u \in Threads : holds'[u] \subseteq holds[u] \cup {i}
      BY <1>2, <2>1, <2>2, TakeLockSound
    <2>4. CallsSound'
      <3>1. CallOK(InUser) /\ CallOK(place)
        BY <1>2, <2>1 DEF CallOK
      <3>2. \A u \in Threads : /\ pc'[u] = pc[u] \/ CallOK(pc'[u])
                               /\ holds'[u] \subseteq DOMAIN lockTable'
        BY <1>1, <1>2, <2>3, <3>1 DEF CallsSound
      <3> QED
        BY <1>1, <1>2, <2>3, <3>2, CallsFrame
    <2>5. \A u \in Threads : \/ pc'[u] = pc[u]
                             \/ /\ pc[u].at \notin {"Waiting", "Creating"}
                                /\ pc'[u].at \notin {"Waiting", "Creating"}
      BY <1>2, <2>1, <2>3
    <2>6. CondsSound' /\ CreateSound'
      BY <1>1, <1>2, <2>5, CondsFrame, CreateFrame
    <2> QED
      BY <1>1, <1>2, <1>3, <1>5, <2>3, <2>4, <2>6, TypeParts DEF IInv
  <1> QED
    BY <1>4, <1>5 DEF Acquire

LEMMA ReleaseInv ==
    ASSUME IInv, NEW t \in Threads, NEW i \in LockIndexes, Release(t, i)
    PROVE  IInv'
  <1>1. /\ LockTableOK /\ CondTableOK /\ CallsSound /\ LocksSound /\ CondsSound /\ CreateSound
        /\ conditionLock \in [owner : Threads \cup {NoThread}, queue : Seq(Threads)]
        /\ pc \in [Threads -> PCs] /\ holds \in [Threads -> SUBSET LockIndexes] /\ up \in BOOLEAN
    BY IInvTypes
  <1>0. PICK place \in PCs : place = IF lockTable[i].isToBeDeleted
                                     THEN At("Releasing", i, NoLock) ELSE InUser
    BY AtTyped, InUserTyped DEF Places, Release, Mine, HeldBy
  <1>2. /\ pc[t].at = "User" /\ i \in DOMAIN lockTable /\ ~lockTable[i].isDeleted
        /\ lockTable[i].owner = t
        /\ UNCHANGED <<conditionTable, conditionLock, up>>
        /\ GivesUp(t, i, place)
    BY <1>0 DEF GivesUp, Release, Runs, HeldBy, Mine
  <1>3. /\ place \in PCs /\ place.at \in {"Releasing", "User"} /\ CallOK(place)
        /\ InUser \in PCs /\ InUser.at = "User" /\ CallOK(InUser)
    <2>1. CASE lockTable[i].isToBeDeleted
      <3>1. /\ At("Releasing", i, NoLock) \in PCs
            /\ At("Releasing", i, NoLock).at = "Releasing"
            /\ At("Releasing", i, NoLock).lock = i
        BY AtTyped DEF Places
      <3> QED
        BY <1>0, <1>2, <2>1, <3>1, InUserTyped DEF CallOK
    <2>2. CASE ~lockTable[i].isToBeDeleted
      BY <1>0, <2>2, InUserTyped DEF CallOK
    <2> QED
      BY <2>1, <2>2
  <1>4. /\ LockTableOK' /\ LocksSound'
        /\ DOMAIN lockTable' = DOMAIN lockTable /\ MarksKept
        /\ pc' \in [Threads -> PCs] /\ holds' \in [Threads -> SUBSET LockIndexes]
        /\ pc'[t] = place
        /\ \A u \in Threads \ {t} : pc'[u] = pc[u] \/ (Asks(u, i) /\ pc'[u] = InUser)
        /\ \A u \in Threads : holds'[u] \subseteq holds[u] \cup {i}
    BY <1>2, <1>3, GiveUpSound
  <1>5. CallsSound'
    <2>1. \A u \in Threads : /\ pc'[u] = pc[u] \/ CallOK(pc'[u])
                             /\ holds'[u] \subseteq DOMAIN lockTable'
      BY <1>1, <1>2, <1>3, <1>4 DEF CallsSound
    <2> QED
      BY <1>1, <1>2, <1>4, <2>1, CallsFrame
  <1>6. \A u \in Threads : \/ pc'[u] = pc[u]
                           \/ /\ pc[u].at \notin {"Waiting", "Creating"}
                              /\ pc'[u].at \notin {"Waiting", "Creating"}
    BY <1>2, <1>3, <1>4 DEF Asks
  <1>7. CondsSound' /\ CreateSound' /\ CondTableOK'
    BY <1>1, <1>2, <1>6, CondsFrame, CreateFrame DEF CondTableOK
  <1> QED
    BY <1>1, <1>2, <1>4, <1>5, <1>7, TypeParts DEF IInv

LEMMA ReleaseDeletesInv ==
    ASSUME IInv, NEW t \in Threads, ReleaseDeletes(t)
    PROVE  IInv'
  <1>1. /\ LockTableOK /\ CondTableOK /\ CallsSound /\ LocksSound /\ CondsSound /\ CreateSound
        /\ conditionLock \in [owner : Threads \cup {NoThread}, queue : Seq(Threads)]
        /\ pc \in [Threads -> PCs] /\ holds \in [Threads -> SUBSET LockIndexes] /\ up \in BOOLEAN
    BY IInvTypes
  <1> DEFINE i == pc[t].lock
  <1>2. /\ pc[t].at = "Releasing" /\ DeleteLock(i) /\ Back(t, InUser, {})
        /\ UNCHANGED <<conditionTable, conditionLock, holds>>
    BY DEF ReleaseDeletes, Runs
  <1>3. i \in DOMAIN lockTable /\ lockTable[i].isToBeDeleted
    BY <1>1, <1>2 DEF CallsSound, CallOK
  <1>4. /\ pc' \in [Threads -> PCs] /\ pc'[t] = InUser /\ InUser.at = "User"
        /\ \A u \in Threads \ {t} : pc'[u] = pc[u]
    BY <1>1, <1>2, BackTyped, InUserTyped
  <1>5. \A u \in Threads :
           \/ pc'[u] = pc[u]
           \/ /\ pc[u].at \notin {"Acquiring", "Reacquiring", "Waiting", "Creating"}
              /\ pc'[u].at \notin {"Acquiring", "Reacquiring", "Waiting", "Creating"}
    BY <1>2, <1>4
  <1> HIDE DEF i
  <1>6. /\ LockTableOK' /\ LocksSound' /\ DOMAIN lockTable' = DOMAIN lockTable
        /\ MarksKept /\ up' \in BOOLEAN
    BY <1>2, <1>3, <1>5, DeleteLockSound
  <1>7. CallsSound'
    <2>1. CallOK(InUser)
      BY <1>4 DEF CallOK
    <2>2. \A u \in Threads : /\ pc'[u] = pc[u] \/ CallOK(pc'[u])
                             /\ holds'[u] \subseteq DOMAIN lockTable'
      BY <1>1, <1>2, <1>4, <1>6, <2>1 DEF CallsSound
    <2> QED
      BY <1>1, <1>2, <1>6, <2>2, CallsFrame
  <1>8. CondsSound' /\ CreateSound' /\ CondTableOK'
    BY <1>1, <1>2, <1>5, CondsFrame, CreateFrame DEF CondTableOK
  <1> QED
    BY <1>1, <1>2, <1>4, <1>6, <1>7, <1>8, TypeParts DEF IInv

LEMMA DestroyLockInv ==
    ASSUME IInv, NEW t \in Threads, NEW i \in LockIndexes, DestroyLock(t, i)
    PROVE  IInv'
  <1>1. /\ LockTableOK /\ CondTableOK /\ CallsSound /\ LocksSound /\ CondsSound /\ CreateSound
        /\ conditionLock \in [owner : Threads \cup {NoThread}, queue : Seq(Threads)]
        /\ pc \in [Threads -> PCs] /\ holds \in [Threads -> SUBSET LockIndexes] /\ up \in BOOLEAN
    BY IInvTypes
  <1>2. /\ i \in DOMAIN lockTable
        /\ lockTable' = [lockTable EXCEPT ![i] = [@ EXCEPT !.isToBeDeleted = TRUE]]
        /\ UNCHANGED <<conditionTable, conditionLock, pc, holds, up>>
    BY DEF DestroyLock, Mine
  <1>3. /\ DOMAIN lockTable' = DOMAIN lockTable
        /\ \A k \in DOMAIN lockTable : k # i => lockTable'[k] = lockTable[k]
        /\ lockTable'[i] = [lockTable[i] EXCEPT !.isToBeDeleted = TRUE]
    BY <1>2
  <1>4. /\ lockTable'[i] \in LockX /\ lockTable'[i].isToBeDeleted
        /\ lockTable'[i].isDeleted = lockTable[i].isDeleted
        /\ lockTable'[i].owner = lockTable[i].owner
        /\ lockTable'[i].queue = lockTable[i].queue
    BY <1>1, <1>2, <1>3 DEF LockTableOK, LockX
  <1>5. LockTableOK' /\ MarksKept
    BY <1>1, <1>3, <1>4 DEF LockTableOK, MarksKept
  <1>6. LocksSound'
    BY <1>1, <1>2, <1>3, <1>4 DEF LocksSound, LockSound, Asks
  <1>7. CallsSound'
    <2>1. \A u \in Threads : pc'[u] = pc[u] /\ holds'[u] \subseteq DOMAIN lockTable'
      BY <1>1, <1>2, <1>3 DEF CallsSound
    <2> QED
      BY <1>1, <1>2, <1>3, <1>5, <2>1, CallsFrame
  <1>8. CondsSound' /\ CreateSound' /\ CondTableOK'
    BY <1>1, <1>2, CondsFrame, CreateFrame DEF CondTableOK
  <1> QED
    BY <1>1, <1>2, <1>5, <1>6, <1>7, <1>8, TypeParts DEF IInv

(* A step that moves threads and leaves the locks alone. *)
LEMMA LocksStay ==
    ASSUME IInv, UNCHANGED <<lockTable, holds>>,
           DOMAIN conditionTable \subseteq DOMAIN conditionTable',
           \A u \in Threads :
              \/ pc'[u] = pc[u]
              \/ /\ CallOK(pc'[u])
                 /\ pc[u].at \notin {"Acquiring", "Reacquiring"}
                 /\ pc'[u].at \notin {"Acquiring", "Reacquiring"}
    PROVE  /\ LockTableOK' /\ LocksSound' /\ CallsSound'
           /\ holds' \in [Threads -> SUBSET LockIndexes]
  <1>1. /\ LockTableOK /\ CallsSound /\ LocksSound
        /\ holds \in [Threads -> SUBSET LockIndexes]
    BY IInvTypes
  <1>2. LockTableOK' /\ MarksKept /\ holds' \in [Threads -> SUBSET LockIndexes]
    BY <1>1 DEF LockTableOK, MarksKept
  <1>3. CallsSound'
    <2>1. \A u \in Threads : /\ pc'[u] = pc[u] \/ CallOK(pc'[u])
                             /\ holds'[u] \subseteq DOMAIN lockTable'
      BY <1>1 DEF CallsSound
    <2> QED
      BY <1>1, <1>2, <2>1, CallsFrame
  <1>4. LocksSound'
    BY <1>1, LocksFrame
  <1> QED
    BY <1>2, <1>3, <1>4

(* A thread that gets the conditionLock, or waits for it. *)
LEMMA CreateConditionInv ==
    ASSUME IInv, NEW t \in Threads, CreateCondition(t) \/ Recreate(t)
    PROVE  IInv'
  <1>1. /\ LockTableOK /\ CondTableOK /\ CallsSound /\ LocksSound /\ CondsSound /\ CreateSound
        /\ conditionLock \in [owner : Threads \cup {NoThread}, queue : Seq(Threads)]
        /\ pc \in [Threads -> PCs] /\ holds \in [Threads -> SUBSET LockIndexes] /\ up \in BOOLEAN
    BY IInvTypes
  <1> DEFINE built == At("Constructing", NoLock, NoLock)
             asleep == At("Creating", NoLock, NoLock)
             q == Append(conditionLock.queue, t)
  <1>2. /\ built \in PCs /\ built.at = "Constructing" /\ CallOK(built)
        /\ asleep \in PCs /\ asleep.at = "Creating" /\ CallOK(asleep)
    BY AtTyped DEF Places, CallOK
  <1>3. /\ pc[t].at = "User" /\ UNCHANGED <<lockTable, conditionTable, holds, up>>
        /\ \/ /\ Back(t, built, {})
              /\ \/ conditionLock' = conditionLock
                 \/ conditionLock' = [conditionLock EXCEPT !.owner = t]
           \/ /\ Back(t, asleep, {})
              /\ conditionLock' = [conditionLock EXCEPT !.queue = q]
    BY DEF CreateCondition, Recreate, Runs
  <1>4. /\ q \in Seq(Threads)
        /\ Distinct(q)
        /\ \A u \in Threads : Queued(q, u) <=> Queued(conditionLock.queue, u) \/ u = t
    <2>1. Distinct(conditionLock.queue) /\ ~Queued(conditionLock.queue, t)
      BY <1>1, <1>3 DEF CreateSound
    <2> QED
      BY <1>1, <2>1, QueueAppend
  <1> HIDE DEF built, asleep, q
  <1>5. /\ pc' \in [Threads -> PCs]
        /\ \A u \in Threads \ {t} : pc'[u] = pc[u]
        /\ \/ pc'[t] = built /\ conditionLock'.queue = conditionLock.queue
           \/ pc'[t] = asleep /\ conditionLock'.queue = q
        /\ conditionLock' \in [owner : Threads \cup {NoThread}, queue : Seq(Threads)]
    <2>1. CASE Back(t, asleep, {}) /\ conditionLock' = [conditionLock EXCEPT !.queue = q]
      BY <1>1, <1>2, <1>3, <2>1, <1>4, BackTyped
    <2>2. CASE Back(t, built, {}) /\ conditionLock' = conditionLock
      BY <1>1, <1>2, <1>3, <2>2, BackTyped
    <2>3. CASE Back(t, built, {}) /\ conditionLock' = [conditionLock EXCEPT !.owner = t]
      BY <1>1, <1>2, <1>3, <2>3, BackTyped
    <2> QED
      BY <1>3, <2>1, <2>2, <2>3
  <1>6. \A u \in Threads :
           \/ pc'[u] = pc[u]
           \/ /\ CallOK(pc'[u])
              /\ pc[u].at \notin {"Acquiring", "Reacquiring", "Waiting"}
              /\ pc'[u].at \notin {"Acquiring", "Reacquiring", "Waiting"}
    BY <1>2, <1>3, <1>5
  <1>7. /\ LockTableOK' /\ LocksSound' /\ CallsSound'
        /\ holds' \in [Threads -> SUBSET LockIndexes]
    BY <1>3, <1>6, LocksStay
  <1>8. CondsSound' /\ CondTableOK'
    BY <1>1, <1>3, <1>6, CondsFrame DEF CondTableOK
  <1>9. CreateSound'
    BY <1>1, <1>2, <1>3, <1>4, <1>5 DEF CreateSound
  <1> QED
    BY <1>1, <1>3, <1>5, <1>7, <1>8, <1>9, TypeParts DEF IInv

LEMMA ConstructInv ==
    ASSUME IInv, NEW t \in Threads, Construct(t)
    PROVE  IInv'
  <1>1. /\ LockTableOK /\ CondTableOK /\ CallsSound /\ LocksSound /\ CondsSound /\ CreateSound
        /\ conditionLock \in [owner : Threads \cup {NoThread}, queue : Seq(Threads)]
        /\ pc \in [Threads -> PCs] /\ holds \in [Threads -> SUBSET LockIndexes] /\ up \in BOOLEAN
    BY IInvTypes
  <1> DEFINE free == FreeSlots(conditionTable, CondIndexes)
             r == [queue |-> << >>, waitingLock |-> NoLock, space |-> SpaceOf[t],
                   isToBeDeleted |-> FALSE, isDeleted |-> FALSE]
             heir == Next1(conditionLock.queue)
             built == At("Constructing", NoLock, NoLock)
  <1>2. pc[t].at = "Constructing" /\ UNCHANGED <<lockTable, holds, up>>
    BY DEF Construct, Runs
  <1>3. /\ InUser \in PCs /\ InUser.at = "User" /\ CallOK(InUser)
        /\ built \in PCs /\ built.at = "Constructing" /\ CallOK(built)
    BY AtTyped, InUserTyped DEF Places, CallOK
  <1>4. CASE Back(t, InUser, {}) /\ UNCHANGED <<conditionTable, conditionLock>>
    <2>1. /\ pc' \in [Threads -> PCs] /\ pc'[t] = InUser
          /\ \A u \in Threads \ {t} : pc'[u] = pc[u]
      BY <1>1, <1>3, <1>4, BackTyped
    <2>2. \A u \in Threads :
             \/ pc'[u] = pc[u]
             \/ /\ CallOK(pc'[u])
                /\ pc[u].at \notin {"Acquiring", "Reacquiring", "Waiting", "Creating"}
                /\ pc'[u].at \notin {"Acquiring", "Reacquiring", "Waiting", "Creating"}
      BY <1>2, <1>3, <2>1
    <2>3. /\ LockTableOK' /\ LocksSound' /\ CallsSound'
          /\ holds' \in [Threads -> SUBSET LockIndexes]
      BY <1>2, <1>4, <2>2, LocksStay
    <2>4. CondsSound' /\ CreateSound' /\ CondTableOK'
      BY <1>1, <1>4, <2>2, CondsFrame, CreateFrame DEF CondTableOK
    <2> QED
      BY <1>1, <1>2, <1>4, <2>1, <2>3, <2>4, TypeParts DEF IInv
  <1>5. CASE /\ free # {}
             /\ conditionTable' = With(conditionTable, First(free), r)
             /\ conditionLock' = Handed(conditionLock)
             /\ pc' = [u \in Threads |-> IF u = t THEN InUser
                           ELSE IF u \in heir THEN built ELSE pc[u]]
    <2>1. /\ r \in ConditionX /\ ~r.isDeleted /\ r.queue = << >>
      <3> DEFINE none == << >>
                 mine == SpaceOf[t]
      <3>1. none \in Seq(Threads) /\ mine \in Spaces
        OBVIOUS
      <3>2. r = [queue |-> none, waitingLock |-> NoLock, space |-> mine,
                 isToBeDeleted |-> FALSE, isDeleted |-> FALSE]
        OBVIOUS
      <3>3. r.queue = << >>
        OBVIOUS
      <3> HIDE DEF none, mine, r
      <3> QED
        BY <3>1, <3>2, <3>3 DEF ConditionX
    <2> HIDE DEF r, heir, built
    <2>2. PICK k \in CondIndexes \ DOMAIN conditionTable :
             /\ DOMAIN conditionTable' = DOMAIN conditionTable \cup {k}
             /\ conditionTable'[k] = r
             /\ \A n \in DOMAIN conditionTable :
                   n # k /\ conditionTable'[n] = conditionTable[n]
      <3>1. PICK k \in CondIndexes \ DOMAIN conditionTable :
               conditionTable' = With(conditionTable, k, r)
        BY <1>5, FreeSlot DEF CondIndexes
      <3> QED
        BY <3>1 DEF With
    <2>3. CondTableOK'
      BY <1>1, <2>1, <2>2 DEF CondTableOK
    <2>4. /\ conditionLock' \in [owner : Threads \cup {NoThread}, queue : Seq(Threads)]
          /\ Distinct(conditionLock'.queue)
          /\ heir \subseteq Threads
          /\ \A u \in Threads :
                /\ Queued(conditionLock'.queue, u)
                      <=> Queued(conditionLock.queue, u) /\ u \notin heir
                /\ u \in heir => Queued(conditionLock.queue, u)
      <3> DEFINE L == conditionLock
      <3>1. /\ L \in [owner : Threads \cup {NoThread}, queue : Seq(Threads)]
            /\ L.queue \in Seq(Threads) /\ Distinct(L.queue)
        BY <1>1 DEF CreateSound
      <3>2. conditionLock' = Handed(L) /\ heir = Next1(L.queue)
        BY <1>5 DEF heir
      <3>3. CASE L.queue = << >>
        <4>1. conditionLock' = [L EXCEPT !.owner = NoThread] /\ heir = {}
          BY <3>2, <3>3 DEF Handed, Next1
        <4> QED
          BY <3>1, <4>1
      <3>4. CASE L.queue # << >>
        <4> DEFINE h == Head(L.queue)
                   q == Tail(L.queue)
        <4>1. conditionLock' = [L EXCEPT !.owner = h, !.queue = q] /\ heir = {h}
          BY <3>2, <3>4 DEF Handed, Next1
        <4>2. /\ h \in Threads /\ q \in Seq(Threads) /\ Distinct(q) /\ Queued(L.queue, h)
              /\ \A u \in Threads : Queued(q, u) <=> Queued(L.queue, u) /\ u # h
          BY <3>1, <3>4, QueueTail
        <4> HIDE DEF h, q
        <4> QED
          BY <3>1, <4>1, <4>2
      <3> QED
        BY <3>3, <3>4
    <2>5. \A u \in heir : u \in Threads /\ u # t /\ pc[u].at = "Creating"
      BY <1>1, <1>2, <2>4 DEF CreateSound
    <2>6. /\ pc' \in [Threads -> PCs] /\ pc'[t] = InUser
          /\ \A u \in heir : pc'[u] = built
          /\ \A u \in Threads : u # t /\ u \notin heir => pc'[u] = pc[u]
      BY <1>1, <1>3, <1>5, <2>5
    <2>7. \A u \in Threads :
             \/ pc'[u] = pc[u]
             \/ /\ CallOK(pc'[u])
                /\ pc[u].at \notin {"Acquiring", "Reacquiring", "Waiting"}
                /\ pc'[u].at \notin {"Acquiring", "Reacquiring", "Waiting"}
      BY <1>2, <1>3, <2>5, <2>6
    <2>8. /\ LockTableOK' /\ LocksSound' /\ CallsSound'
          /\ holds' \in [Threads -> SUBSET LockIndexes]
      BY <1>2, <2>2, <2>7, LocksStay
    <2>9. CreateSound'
      BY <1>1, <1>2, <1>3, <2>4, <2>5, <2>6 DEF CreateSound
    <2>10. \A u \in Threads, n \in DOMAIN conditionTable : Sleeps(u, n)' <=> Sleeps(u, n)
      BY <2>7 DEF Sleeps
    <2>11. ASSUME NEW n \in DOMAIN conditionTable
           PROVE  CondSound(n)'
      BY <1>1, <2>2, <2>10 DEF CondsSound, CondSound
    <2>12. CondSound(k)'
      <3>1. \A u \in Threads : ~Sleeps(u, k)'
        BY <1>1, <2>2, <2>7 DEF CallsSound, CallOK, Sleeps
      <3>2. Distinct(<< >>) /\ \A u \in Threads : ~Queued(<< >>, u)
        BY DEF Distinct, Queued
      <3> QED
        BY <2>1, <2>2, <3>1, <3>2 DEF CondSound
    <2>13. CondsSound'
      BY <2>2, <2>11, <2>12 DEF CondsSound
    <2> QED
      BY <1>1, <1>2, <2>3, <2>4, <2>6, <2>8, <2>9, <2>13, TypeParts DEF IInv
  <1> QED
    BY <1>4, <1>5 DEF Construct

(* A condition that is marked, or deleted when it is empty. *)
LEMMA MarkConditionSound ==
    ASSUME CondTableOK, CondsSound, NEW j \in DOMAIN conditionTable,
           NEW marked \in BOOLEAN, NEW deleted \in BOOLEAN,
           deleted => marked /\ conditionTable[j].queue = << >>,
           conditionTable' = [conditionTable EXCEPT
               ![j] = [@ EXCEPT !.isToBeDeleted = marked, !.isDeleted = deleted]],
           \A u \in Threads : \/ pc'[u] = pc[u]
                              \/ pc[u].at # "Waiting" /\ pc'[u].at # "Waiting"
    PROVE  CondTableOK' /\ CondsSound' /\ DOMAIN conditionTable' = DOMAIN conditionTable
  <1>1. /\ DOMAIN conditionTable' = DOMAIN conditionTable
        /\ \A k \in DOMAIN conditionTable : k # j => conditionTable'[k] = conditionTable[k]
        /\ conditionTable'[j] = [conditionTable[j] EXCEPT !.isToBeDeleted = marked,
                                                          !.isDeleted = deleted]
    OBVIOUS
  <1>2. /\ conditionTable'[j] \in ConditionX
        /\ conditionTable'[j].isToBeDeleted = marked
        /\ conditionTable'[j].isDeleted = deleted
        /\ conditionTable'[j].queue = conditionTable[j].queue
    BY <1>1 DEF CondTableOK, ConditionX
  <1>3. CondTableOK'
    BY <1>1, <1>2 DEF CondTableOK
  <1>4. \A u \in Threads, k \in DOMAIN conditionTable : Sleeps(u, k)' <=> Sleeps(u, k)
    BY DEF Sleeps
  <1>5. CondsSound'
    BY <1>1, <1>2, <1>4 DEF CondsSound, CondSound
  <1> QED
    BY <1>1, <1>3, <1>5

LEMMA DestroyConditionInv ==
    ASSUME IInv, NEW t \in Threads, NEW j \in CondIndexes, DestroyCondition(t, j)
    PROVE  IInv'
  <1>1. /\ LockTableOK /\ CondTableOK /\ CallsSound /\ LocksSound /\ CondsSound /\ CreateSound
        /\ conditionLock \in [owner : Threads \cup {NoThread}, queue : Seq(Threads)]
        /\ pc \in [Threads -> PCs] /\ holds \in [Threads -> SUBSET LockIndexes] /\ up \in BOOLEAN
    BY IInvTypes
  <1>2. PICK deleted \in BOOLEAN : deleted = Unused(conditionTable[j])
    BY DEF Unused
  <1>3. /\ j \in DOMAIN conditionTable
        /\ UNCHANGED <<lockTable, conditionLock, pc, holds, up>>
        /\ conditionTable' = [conditionTable EXCEPT
               ![j] = [@ EXCEPT !.isToBeDeleted = TRUE, !.isDeleted = deleted]]
    BY <1>2 DEF DestroyCondition, Mine
  <1>4. deleted => conditionTable[j].queue = << >>
    BY <1>2 DEF Unused
  <1>5. CondTableOK' /\ CondsSound' /\ DOMAIN conditionTable' = DOMAIN conditionTable
    BY <1>1, <1>3, <1>4, MarkConditionSound
  <1>6. /\ LockTableOK' /\ LocksSound' /\ CallsSound'
        /\ holds' \in [Threads -> SUBSET LockIndexes]
    BY <1>3, <1>5, LocksStay
  <1>7. CreateSound'
    BY <1>1, <1>3, CreateFrame
  <1> QED
    BY <1>1, <1>3, <1>5, <1>6, <1>7, TypeParts DEF IInv

LEMMA SignalDeletesInv ==
    ASSUME IInv, NEW t \in Threads, SignalDeletes(t)
    PROVE  IInv'
  <1>1. /\ LockTableOK /\ CondTableOK /\ CallsSound /\ LocksSound /\ CondsSound /\ CreateSound
        /\ conditionLock \in [owner : Threads \cup {NoThread}, queue : Seq(Threads)]
        /\ pc \in [Threads -> PCs] /\ holds \in [Threads -> SUBSET LockIndexes] /\ up \in BOOLEAN
    BY IInvTypes
  <1>2. /\ pc[t].at = "Signaling" /\ Back(t, InUser, {})
        /\ UNCHANGED <<lockTable, conditionLock, holds>>
    BY DEF SignalDeletes, Runs
  <1>3. PICK j \in DOMAIN conditionTable : j = pc[t].cond
    BY <1>1, <1>2 DEF CallsSound, CallOK
  <1>4. /\ pc' \in [Threads -> PCs] /\ pc'[t] = InUser
        /\ \A u \in Threads \ {t} : pc'[u] = pc[u]
    BY <1>1, <1>2, BackTyped, InUserTyped
  <1>5. \A u \in Threads :
           \/ pc'[u] = pc[u]
           \/ /\ CallOK(pc'[u])
              /\ pc[u].at \notin {"Acquiring", "Reacquiring", "Waiting", "Creating"}
              /\ pc'[u].at \notin {"Acquiring", "Reacquiring", "Waiting", "Creating"}
    BY <1>2, <1>4, InUserTyped DEF CallOK
  <1>6. /\ CondTableOK' /\ CondsSound' /\ up' \in BOOLEAN
        /\ DOMAIN conditionTable' = DOMAIN conditionTable
    <2>1. CASE UNCHANGED <<conditionTable, up>>
      BY <1>1, <1>5, <2>1, CondsFrame DEF CondTableOK
    <2>2. CASE /\ conditionTable[j].isToBeDeleted
               /\ conditionTable[j].isDeleted \/ Unused(conditionTable[j])
               /\ conditionTable' = [conditionTable EXCEPT ![j] = [@ EXCEPT !.isDeleted = TRUE]]
               /\ up' \in BOOLEAN
      <3>1. /\ conditionTable[j].queue = << >> /\ conditionTable[j] \in ConditionX
        BY <1>1, <2>2 DEF CondsSound, CondSound, Unused, CondTableOK
      <3>2. conditionTable' = [conditionTable EXCEPT
                ![j] = [@ EXCEPT !.isToBeDeleted = TRUE, !.isDeleted = TRUE]]
        <4>1. [conditionTable[j] EXCEPT !.isDeleted = TRUE]
                 = [conditionTable[j] EXCEPT !.isToBeDeleted = TRUE, !.isDeleted = TRUE]
          BY <2>2, <3>1 DEF ConditionX
        <4> QED
          BY <2>2, <4>1
      <3>3. CondTableOK' /\ CondsSound' /\ DOMAIN conditionTable' = DOMAIN conditionTable
        BY <1>1, <1>5, <3>1, <3>2, MarkConditionSound
      <3> QED
        BY <2>2, <3>3
    <2> QED
      BY <1>3, <2>1, <2>2 DEF SignalDeletes
  <1>7. /\ LockTableOK' /\ LocksSound' /\ CallsSound'
        /\ holds' \in [Threads -> SUBSET LockIndexes]
    BY <1>2, <1>5, <1>6, LocksStay
  <1>8. CreateSound'
    BY <1>1, <1>2, <1>5, CreateFrame
  <1> QED
    BY <1>1, <1>2, <1>4, <1>6, <1>7, <1>8, TypeParts DEF IInv

(* A Signal, with the step that goes round in a Broadcast. *)
LEMMA SignalStepInv ==
    ASSUME IInv, NEW t \in Threads, NEW j \in DOMAIN conditionTable, NEW i,
           pc[t].at \in {"User", "Broadcasting"},
           NEW place \in PCs, place.at \in {"Signaling", "Broadcasting"}, CallOK(place),
           Signals(t, j, i, place), UNCHANGED <<lockTable, conditionLock, holds, up>>
    PROVE  IInv'
  <1>1. /\ LockTableOK /\ CondTableOK /\ CallsSound /\ LocksSound /\ CondsSound /\ CreateSound
        /\ conditionLock \in [owner : Threads \cup {NoThread}, queue : Seq(Threads)]
        /\ pc \in [Threads -> PCs] /\ holds \in [Threads -> SUBSET LockIndexes] /\ up \in BOOLEAN
    BY IInvTypes
  <1>2. /\ CondTableOK' /\ CondsSound'
        /\ DOMAIN conditionTable' = DOMAIN conditionTable
        /\ pc' \in [Threads -> PCs] /\ pc'[t] = place
        /\ \A u \in Threads \ {t} :
              \/ pc'[u] = pc[u]
              \/ /\ Sleeps(u, j) /\ pc'[u].at = "Signaled"
                 /\ pc'[u].lock = pc[u].lock /\ pc'[u].cond = pc[u].cond
    BY SignalsSound
  <1>3. \A u \in Threads :
           \/ pc'[u] = pc[u]
           \/ /\ CallOK(pc'[u])
              /\ pc[u].at \notin {"Acquiring", "Reacquiring", "Creating"}
              /\ pc'[u].at \notin {"Acquiring", "Reacquiring", "Creating"}
    BY <1>1, <1>2 DEF Sleeps, CallsSound, CallOK
  <1>4. /\ LockTableOK' /\ LocksSound' /\ CallsSound'
        /\ holds' \in [Threads -> SUBSET LockIndexes]
    BY <1>2, <1>3, LocksStay
  <1>5. CreateSound'
    BY <1>1, <1>3, CreateFrame
  <1> QED
    BY <1>1, <1>2, <1>4, <1>5, TypeParts DEF IInv

LEMMA SignalInv ==
    ASSUME IInv, NEW t \in Threads, NEW j \in CondIndexes, NEW i \in LockIndexes,
           Signal(t, j, i)
    PROVE  IInv'
  <1>1. /\ pc[t].at = "User" /\ i \in DOMAIN lockTable /\ j \in DOMAIN conditionTable
        /\ Signals(t, j, i, At("Signaling", i, j))
        /\ UNCHANGED <<lockTable, conditionLock, holds, up>>
    BY DEF Signal, Runs, Mine, HeldBy
  <1> DEFINE place == At("Signaling", i, j)
  <1>2. place \in PCs /\ place.at = "Signaling" /\ place.lock = i /\ place.cond = j
    BY AtTyped DEF Places
  <1>3. Signals(t, j, i, place)
    BY <1>1
  <1> HIDE DEF place
  <1>4. CallOK(place)
    BY <1>1, <1>2 DEF CallOK
  <1> QED
    BY <1>1, <1>2, <1>3, <1>4, SignalStepInv

(* A step of t alone between two parts of a call about a condition. *)
LEMMA MoveInv ==
    ASSUME IInv, NEW t \in Threads, pc[t].at \in {"User", "Broadcasting"},
           NEW place \in PCs, place.at \in {"Signaling", "Broadcasting"}, CallOK(place),
           Back(t, place, {}), up' \in BOOLEAN,
           UNCHANGED <<lockTable, conditionTable, conditionLock, holds>>
    PROVE  IInv'
  <1>1. /\ LockTableOK /\ CondTableOK /\ CallsSound /\ LocksSound /\ CondsSound /\ CreateSound
        /\ conditionLock \in [owner : Threads \cup {NoThread}, queue : Seq(Threads)]
        /\ pc \in [Threads -> PCs] /\ holds \in [Threads -> SUBSET LockIndexes]
    BY IInvTypes
  <1>2. /\ pc' \in [Threads -> PCs] /\ pc'[t] = place
        /\ \A u \in Threads \ {t} : pc'[u] = pc[u]
    BY <1>1, BackTyped
  <1>3. \A u \in Threads :
           \/ pc'[u] = pc[u]
           \/ /\ CallOK(pc'[u])
              /\ pc[u].at \notin {"Acquiring", "Reacquiring", "Waiting", "Creating"}
              /\ pc'[u].at \notin {"Acquiring", "Reacquiring", "Waiting", "Creating"}
    BY <1>2
  <1>4. /\ LockTableOK' /\ LocksSound' /\ CallsSound'
        /\ holds' \in [Threads -> SUBSET LockIndexes]
    BY <1>3, LocksStay
  <1>5. CondsSound' /\ CreateSound' /\ CondTableOK'
    BY <1>1, <1>3, CondsFrame, CreateFrame DEF CondTableOK
  <1> QED
    BY <1>1, <1>2, <1>4, <1>5, TypeParts DEF IInv

LEMMA BroadcastInv ==
    ASSUME IInv, NEW t \in Threads, NEW j \in CondIndexes, NEW i \in LockIndexes,
           Broadcast(t, j, i)
    PROVE  IInv'
  <1>1. /\ pc[t].at = "User" /\ i \in DOMAIN lockTable /\ j \in DOMAIN conditionTable
        /\ Back(t, At("Broadcasting", i, j), {})
        /\ UNCHANGED <<lockTable, conditionTable, conditionLock, holds, up>>
    BY DEF Broadcast, Runs, Mine, HeldBy
  <1> DEFINE place == At("Broadcasting", i, j)
  <1>2. place \in PCs /\ place.at = "Broadcasting" /\ place.lock = i /\ place.cond = j
    BY AtTyped DEF Places
  <1>3. Back(t, place, {})
    BY <1>1
  <1> HIDE DEF place
  <1>4. CallOK(place) /\ up' \in BOOLEAN
    BY <1>1, <1>2, IInvTypes DEF CallOK
  <1> QED
    BY <1>1, <1>2, <1>3, <1>4, MoveInv

LEMMA BroadcastSignalsInv ==
    ASSUME IInv, NEW t \in Threads, BroadcastSignals(t)
    PROVE  IInv'
  <1>1. /\ pc \in [Threads -> PCs] /\ CallsSound /\ LockTableOK /\ CondTableOK /\ up \in BOOLEAN
    BY IInvTypes
  <1>2. /\ pc[t].at = "Broadcasting" /\ UNCHANGED <<lockTable, conditionLock, holds>>
    BY DEF BroadcastSignals, Runs
  <1>3. PICK i \in DOMAIN lockTable, j \in DOMAIN conditionTable :
           i = pc[t].lock /\ j = pc[t].cond
    BY <1>1, <1>2 DEF CallsSound, CallOK
  <1>4. CASE Signals(t, j, i, pc[t]) /\ UNCHANGED up
    <2>1. PICK place \in PCs : place = pc[t]
      BY <1>1
    <2>2. CallOK(place)
      BY <1>1, <2>1 DEF CallsSound
    <2> QED
      BY <1>2, <1>4, <2>1, <2>2, SignalStepInv
  <1>5. CASE Back(t, Afterwards(i, j), {}) /\ up' \in BOOLEAN /\ UNCHANGED conditionTable
    <2> DEFINE place == At("Signaling", i, j)
    <2>1. Back(t, place, {})
      BY <1>5 DEF Afterwards
    <2>2. place \in PCs /\ place.at = "Signaling" /\ place.lock = i /\ place.cond = j
      <3>1. i \in LockIndexes /\ j \in CondIndexes
        BY <1>1 DEF LockTableOK, CondTableOK
      <3> QED
        BY <3>1, AtTyped DEF Places
    <2> HIDE DEF place
    <2>3. CallOK(place)
      BY <2>2 DEF CallOK
    <2> QED
      BY <1>2, <1>5, <2>1, <2>2, <2>3, MoveInv
  <1> QED
    BY <1>1, <1>3, <1>4, <1>5 DEF BroadcastSignals

LEMMA WaitInv ==
    ASSUME IInv, NEW t \in Threads, NEW j \in CondIndexes, NEW i \in LockIndexes,
           Wait(t, j, i)
    PROVE  IInv'
  <1>1. /\ LockTableOK /\ CondTableOK /\ CallsSound /\ LocksSound /\ CondsSound /\ CreateSound
        /\ conditionLock \in [owner : Threads \cup {NoThread}, queue : Seq(Threads)]
        /\ pc \in [Threads -> PCs] /\ holds \in [Threads -> SUBSET LockIndexes] /\ up \in BOOLEAN
    BY IInvTypes
  <1> DEFINE place == At("Waiting", i, j)
             C == conditionTable[j]
             q == Append(C.queue, t)
  <1>2. /\ pc[t].at = "User" /\ j \in DOMAIN conditionTable /\ ~C.isDeleted
        /\ i \in DOMAIN lockTable /\ lockTable[i].owner = t /\ ~lockTable[i].isDeleted
        /\ GivesUp(t, i, place)
        /\ conditionTable' = [conditionTable EXCEPT
               ![j] = [@ EXCEPT !.waitingLock = i, !.queue = q]]
        /\ UNCHANGED <<conditionLock, up>>
    BY DEF Wait, Runs, Mine, HeldBy, Marked, GivesUp
  <1>3. /\ place \in PCs /\ place.at = "Waiting" /\ place.lock = i /\ place.cond = j
        /\ InUser \in PCs /\ InUser.at = "User"
    BY AtTyped, InUserTyped DEF Places
  <1>4. /\ C \in ConditionX /\ CondSound(j) /\ C.queue \in Seq(Threads) /\ Distinct(C.queue)
        /\ ~Queued(C.queue, t)
    BY <1>1, <1>2 DEF CondTableOK, CondsSound, CondSound, ConditionX, Sleeps
  <1>5. /\ q \in Seq(Threads) /\ Distinct(q)
        /\ \A u \in Threads : Queued(q, u) <=> Queued(C.queue, u) \/ u = t
    BY <1>4, QueueAppend
  <1> HIDE DEF place, C, q
  <1>6. /\ LockTableOK' /\ LocksSound'
        /\ DOMAIN lockTable' = DOMAIN lockTable /\ MarksKept
        /\ pc' \in [Threads -> PCs] /\ holds' \in [Threads -> SUBSET LockIndexes]
        /\ pc'[t] = place
        /\ \A u \in Threads \ {t} : pc'[u] = pc[u] \/ (Asks(u, i) /\ pc'[u] = InUser)
        /\ \A u \in Threads : holds'[u] \subseteq holds[u] \cup {i}
    BY <1>2, <1>3, GiveUpSound
  <1>7. /\ DOMAIN conditionTable' = DOMAIN conditionTable
        /\ \A k \in DOMAIN conditionTable : k # j => conditionTable'[k] = conditionTable[k]
        /\ conditionTable'[j] = [C EXCEPT !.waitingLock = i, !.queue = q]
    BY <1>2 DEF C
  <1>8. /\ conditionTable'[j] \in ConditionX /\ conditionTable'[j].queue = q
        /\ ~conditionTable'[j].isDeleted
    BY <1>2, <1>4, <1>5, <1>7, ZenonT(60) DEF ConditionX
  <1>9. CondTableOK'
    BY <1>1, <1>7, <1>8 DEF CondTableOK
  <1>10. CallsSound'
    <2>1. CallOK(place) /\ CallOK(InUser)
      BY <1>2, <1>3 DEF CallOK
    <2>2. \A u \in Threads : /\ pc'[u] = pc[u] \/ CallOK(pc'[u])
                             /\ holds'[u] \subseteq DOMAIN lockTable'
      BY <1>1, <1>2, <1>6, <2>1 DEF CallsSound
    <2> QED
      BY <1>1, <1>6, <1>7, <2>2, CallsFrame
  <1>11. \A u \in Threads, k \in DOMAIN conditionTable :
            Sleeps(u, k)' <=> Sleeps(u, k) \/ (u = t /\ k = j)
    BY <1>2, <1>3, <1>6 DEF Sleeps, Asks
  <1>12. CondsSound'
    <2>1. CondSound(j)'
      BY <1>2, <1>4, <1>5, <1>8, <1>11 DEF CondSound, C
    <2>2. ASSUME NEW k \in DOMAIN conditionTable, k # j
          PROVE  CondSound(k)'
      BY <1>1, <1>7, <1>11, <2>2 DEF CondsSound, CondSound
    <2> QED
      BY <1>7, <2>1, <2>2 DEF CondsSound
  <1>13. CreateSound'
    <2>1. \A u \in Threads : \/ pc'[u] = pc[u]
                             \/ pc[u].at # "Creating" /\ pc'[u].at # "Creating"
      BY <1>2, <1>3, <1>6 DEF Asks
    <2> QED
      BY <1>1, <1>2, <2>1, CreateFrame
  <1> QED
    BY <1>1, <1>2, <1>6, <1>9, <1>10, <1>12, <1>13, TypeParts DEF IInv

LEMMA WaitReturnsInv ==
    ASSUME IInv, NEW t \in Threads, WaitReturns(t)
    PROVE  IInv'
  <1>1. /\ LockTableOK /\ CondTableOK /\ CallsSound /\ LocksSound /\ CondsSound /\ CreateSound
        /\ conditionLock \in [owner : Threads \cup {NoThread}, queue : Seq(Threads)]
        /\ pc \in [Threads -> PCs] /\ holds \in [Threads -> SUBSET LockIndexes] /\ up \in BOOLEAN
    BY IInvTypes
  <1>2. pc[t].at = "Signaled" /\ UNCHANGED <<conditionTable, conditionLock, up>>
    BY DEF WaitReturns, Runs
  <1>3. PICK i \in DOMAIN lockTable, j \in DOMAIN conditionTable :
           i = pc[t].lock /\ j = pc[t].cond
    BY <1>1, <1>2 DEF CallsSound, CallOK
  <1> DEFINE place == At("Reacquiring", i, j)
  <1>4. /\ place \in PCs /\ place.at = "Reacquiring" /\ place.lock = i /\ place.cond = j
        /\ InUser \in PCs /\ InUser.at = "User" /\ i \in LockIndexes
    <2>1. i \in LockIndexes /\ j \in CondIndexes
      BY <1>1 DEF LockTableOK, CondTableOK
    <2> QED
      BY <2>1, AtTyped, InUserTyped DEF Places
  <1>5. CallOK(place) /\ CallOK(InUser)
    <2> HIDE DEF place
    <2> QED
      BY <1>4 DEF CallOK
  <1>6. \/ ~lockTable[i].isDeleted /\ TakeLock(t, i, place)
        \/ /\ lockTable[i].isDeleted /\ UNCHANGED lockTable
           /\ \/ Back(t, InUser, {}) /\ Holding(t, {}, {t}, {i})
              \/ Back(t, place, {}) /\ UNCHANGED holds
    BY <1>3 DEF WaitReturns
  <1> HIDE DEF place
  <1>7. /\ LockTableOK' /\ LocksSound'
        /\ DOMAIN lockTable' = DOMAIN lockTable /\ MarksKept
        /\ pc' \in [Threads -> PCs] /\ holds' \in [Threads -> SUBSET LockIndexes]
        /\ pc'[t] \in {InUser, place}
        /\ \A u \in Threads \ {t} : pc'[u] = pc[u]
        /\ \A u \in Threads : holds'[u] \subseteq holds[u] \cup {i}
    <2>1. CASE ~lockTable[i].isDeleted /\ TakeLock(t, i, place)
      BY <1>2, <1>4, <2>1, TakeLockSound
    <2>2. CASE /\ lockTable[i].isDeleted /\ UNCHANGED lockTable
               /\ \/ Back(t, InUser, {}) /\ Holding(t, {}, {t}, {i})
                  \/ Back(t, place, {}) /\ UNCHANGED holds
      <3>1. /\ pc' \in [Threads -> PCs] /\ pc'[t] \in {InUser, place}
            /\ \A u \in Threads \ {t} : pc'[u] = pc[u]
        BY <1>1, <1>4, <2>2, BackTyped
      <3>2. /\ holds' \in [Threads -> SUBSET LockIndexes]
            /\ \A u \in Threads : /\ holds'[u] \subseteq holds[u] \cup {i}
                                  /\ holds[u] \subseteq holds'[u]
        BY <1>1, <1>4, <2>2 DEF Holding
      <3>3. LockTableOK' /\ MarksKept
        BY <1>1, <2>2 DEF LockTableOK, MarksKept
      <3>4. ASSUME NEW k \in DOMAIN lockTable, ~lockTable[k].isDeleted
            PROVE  LockSound(k)'
        <4>1. k # i /\ LockSound(k) /\ lockTable'[k] = lockTable[k]
          BY <1>1, <2>2, <3>4 DEF LocksSound
        <4>2. \A u \in Threads : (k \in holds'[u] <=> k \in holds[u])
          BY <3>2, <4>1
        <4>3. \A u \in Threads : (Asks(u, k)' <=> Asks(u, k))
          BY <1>2, <1>4, <3>1, <4>1 DEF Asks
        <4> QED
          BY <4>1, <4>2, <4>3, LockFrame
      <3>5. LocksSound'
        BY <2>2, <3>4 DEF LocksSound
      <3> QED
        BY <2>2, <3>1, <3>2, <3>3, <3>5
    <2> QED
      BY <1>6, <2>1, <2>2
  <1>8. CallsSound'
    <2>1. \A u \in Threads : /\ pc'[u] = pc[u] \/ CallOK(pc'[u])
                             /\ holds'[u] \subseteq DOMAIN lockTable'
      BY <1>1, <1>5, <1>7 DEF CallsSound
    <2> QED
      BY <1>1, <1>2, <1>7, <2>1, CallsFrame
  <1>9. \A u \in Threads : \/ pc'[u] = pc[u]
                           \/ /\ pc[u].at \notin {"Waiting", "Creating"}
                              /\ pc'[u].at \notin {"Waiting", "Creating"}
    BY <1>2, <1>4, <1>7
  <1>10. CondsSound' /\ CreateSound' /\ CondTableOK'
    BY <1>1, <1>2, <1>9, CondsFrame, CreateFrame DEF CondTableOK
  <1> QED
    BY <1>1, <1>2, <1>7, <1>8, <1>10, TypeParts DEF IInv

-----------------------------------------------------------------------------

LEMMA StutterInv ==
    ASSUME IInv, UNCHANGED vars
    PROVE  IInv'
  <1>1. /\ UNCHANGED lockTable /\ UNCHANGED conditionTable /\ UNCHANGED conditionLock
        /\ UNCHANGED pc /\ UNCHANGED holds /\ UNCHANGED up
    BY DEF vars
  <1>2. TypeOK'
    BY <1>1 DEF IInv, TypeOK
  <1>3. CallsSound' /\ CreateSound'
    BY <1>1 DEF IInv, CallsSound, CallOK, CreateSound
  <1>4. LocksSound' /\ CondsSound'
    BY <1>1 DEF IInv, LocksSound, LockSound, Asks, CondsSound, CondSound, Sleeps
  <1> QED
    BY <1>2, <1>3, <1>4 DEF IInv

LEMMA InitInv ==
    ASSUME Init
    PROVE  IInv
  <1>1. /\ DOMAIN lockTable = {} /\ DOMAIN conditionTable = {}
        /\ conditionLock = FreeLock /\ up = TRUE
        /\ \A t \in Threads : pc[t] = InUser /\ holds[t] = {}
        /\ pc \in [Threads -> PCs] /\ holds \in [Threads -> SUBSET LockIndexes]
    BY InUserTyped DEF Init
  <1>2. /\ FreeLock \in [owner : Threads \cup {NoThread}, queue : Seq(Threads)]
        /\ FreeLock.queue = << >>
    BY DEF FreeLock
  <1>3. TypeOK
    BY <1>1, <1>2 DEF TypeOK, PCs
  <1>4. CallsSound
    BY <1>1, InUserTyped DEF CallsSound, CallOK
  <1>5. LocksSound /\ CondsSound
    BY <1>1 DEF LocksSound, CondsSound
  <1>6. CreateSound
    BY <1>1, <1>2, InUserTyped DEF CreateSound, Distinct, Queued
  <1> QED
    BY <1>3, <1>4, <1>5, <1>6 DEF IInv

LEMMA NextInv ==
    ASSUME IInv, [Next]_vars
    PROVE  IInv'
  <1>1. ASSUME NEW t \in Threads, Call(t)
        PROVE  IInv'
    <2>1. CASE CreateLock(t)
      BY <2>1, CreateLockInv
    <2>2. CASE CreateCondition(t) \/ Recreate(t)
      BY <2>2, CreateConditionInv
    <2>3. CASE \E i \in LockIndexes : Acquire(t, i) \/ Release(t, i) \/ DestroyLock(t, i)
      BY <2>3, AcquireInv, ReleaseInv, DestroyLockInv
    <2>4. CASE \E j \in CondIndexes : DestroyCondition(t, j)
      BY <2>4, DestroyConditionInv
    <2>5. CASE \E i \in LockIndexes, j \in CondIndexes :
                  Wait(t, j, i) \/ Signal(t, j, i) \/ Broadcast(t, j, i)
      BY <2>5, WaitInv, SignalInv, BroadcastInv
    <2> QED
      BY <1>1, <2>1, <2>2, <2>3, <2>4, <2>5 DEF Call
  <1>2. ASSUME NEW t \in Threads, Continue(t)
        PROVE  IInv'
    BY <1>2, ReleaseDeletesInv, WaitReturnsInv, BroadcastSignalsInv, SignalDeletesInv,
       ConstructInv DEF Continue
  <1> QED
    BY <1>1, <1>2, StutterInv DEF Next

LEMMA Invariance == Spec => []IInv
  BY InitInv, NextInv, PTL DEF Spec

(* What the calls told the threads of a lock that is not deleted is what the *)
(* lock says: at most one thread has it, the threads asleep for it are those *)
(* in its queue, and nobody queues for a free lock (ExceptionHandler's lock  *)
(* calls with deferred deletion, over threads/synch.cc).                     *)
THEOREM LocksAgree == Spec => []LiveLockSound
  <1>1. IInv => LiveLockSound
    <2>1. ASSUME IInv PROVE LiveLockSound
      <3>1. TypeOK /\ LocksSound
        BY <2>1 DEF IInv
      <3> QED
        BY <3>1 DEF LiveLockSound, LocksSound, LockSound, Asks
    <2> QED
      BY <2>1
  <1> QED
    BY <1>1, Invariance, PTL

(* However the tests after Signal and Broadcast and DestroyCondition follow  *)
(* each other, a condition that somebody waits in is never deleted.          *)
THEOREM WaitersKept == Spec => []NobodyWaitsInDeleted
  <1>1. IInv => NobodyWaitsInDeleted
    <2>1. ASSUME IInv, NEW t \in Threads, pc[t].at = "Waiting"
          PROVE  /\ Queued(conditionTable[pc[t].cond].queue, t)
                 /\ ~conditionTable[pc[t].cond].isDeleted
      <3>1. pc[t].cond \in DOMAIN conditionTable
        BY <2>1 DEF IInv, CallsSound, CallOK
      <3>2. PICK j \in DOMAIN conditionTable : j = pc[t].cond
        BY <3>1
      <3>3. Queued(conditionTable[j].queue, t) /\ CondSound(j)
        BY <2>1, <3>2 DEF IInv, CondsSound, CondSound, Sleeps
      <3>4. conditionTable[j].queue # << >>
        BY <3>3 DEF Queued
      <3> QED
        BY <3>2, <3>3, <3>4 DEF CondSound
    <2> QED
      BY <2>1 DEF NobodyWaitsInDeleted
  <1> QED
    BY <1>1, Invariance, PTL

(* Two threads are never told that they have the same lock, as long as it is *)
(* not deleted: what a user program relies on.                               *)
COROLLARY OneHolder ==
    Spec => [](\A i \in DOMAIN lockTable, t, u \in Threads :
                  ~lockTable[i].isDeleted /\ i \in holds[t] /\ i \in holds[u] => t = u)
  <1>1. LiveLockSound =>
          \A i \in DOMAIN lockTable, t, u \in Threads :
             ~lockTable[i].isDeleted /\ i \in holds[t] /\ i \in holds[u] => t = u
    BY DEF LiveLockSound
  <1> QED
    BY <1>1, LocksAgree, PTL

-----------------------------------------------------------------------------
(* Page faults. *)

USE PagingAssumption DEF PagingAssumption

-----------------------------------------------------------------------------
(* The inductive invariant. *)

Entries    == [valid : BOOLEAN, page : Pages, process : Processes \cup {None},
               dirty : BOOLEAN, use : BOOLEAN]
TLBEntries == [valid : BOOLEAN, page : Pages, frame : Frames, dirty : BOOLEAN]

TypesSound ==
    /\ PagingTypeOK
    /\ \A i \in DOMAIN swapFile : swapFile[i] \in Contents
    /\ truth \in [Processes -> [Pages -> Values \cup {Code, None}]]

(* iptLock: who is inside the handler owns it, who waits is in its queue. *)
IptLockSound ==
    /\ Distinct(lockQueue)
    /\ \A t \in Threads : Queued(lockQueue, t) <=> faultPc[t] = "Waiting"
    /\ \A t \in Threads : lockOwner = t <=> faultPc[t] \in {"Locked", "Evicting", "Done"}

(* Pages that threads fault on, or that are in a frame, exist.               *)
PagesSound ==
    /\ \A t \in Threads :
          faultPc[t] \in {"Waiting", "Locked", "Evicting"} => fault[t] \in numPages[space[t]]
    /\ \A f \in Frames : ipt[f].valid =>
          \E t \in Threads : ipt[f].process = space[t] /\ ipt[f].page \in numPages[space[t]]

(* A page is in one frame. *)
OneFrame ==
    \A f, g \in Frames :
        /\ ipt[f].valid /\ ipt[g].valid
        /\ ipt[f].process = ipt[g].process /\ ipt[f].page = ipt[g].page
        => f = g

(* The TLB has a page once, and knows of every write since the page came; it *)
(* has nothing yet of the page that is being looked for.                     *)
TLBSound ==
    /\ TLBIsolates
    /\ \A j, k \in Slots : tlb[j].valid /\ tlb[k].valid /\ tlb[j].page = tlb[k].page => j = k
    /\ \A k \in Slots : tlb[k].valid /\ ipt[tlb[k].frame].dirty => tlb[k].dirty

NotInTLB ==
    faultPc[currentThread] \in {"Locked", "Evicting"} => Hits(fault[currentThread]) = {}

(* While a thread that took its victim out of the TLB is preempted, nobody   *)
(* brings it back, and the page it wants does not come either.               *)
VictimSound ==
    \A t \in Threads : ~halted /\ faultPc[t] = "Evicting" =>
        /\ EmptyFrames = {}
        /\ FramesOf(ipt, space[t], fault[t]) = {}
        /\ \A k \in Slots : tlb[k].valid => tlb[k].frame # victim[t]

(* The FIFO queue holds the loaded frames, without the one being evicted. *)
FifoSound ==
    ~halted /\ policy = "FIFO" =>
        /\ Distinct(fifo)
        /\ \A f \in Frames : Queued(fifo, f) <=>
               ipt[f].valid /\ \A t \in Threads : faultPc[t] = "Evicting" => victim[t] # f

(* Every page said to be in the swap file has a place of its own there. *)
SwapSound ==
    /\ \A p \in Processes, v \in Pages :
          pageLocation[p][v] = "SWAP" => swapArray[p][v] \in DOMAIN swapFile
    /\ \A p, q \in Processes, v, w \in Pages :
          /\ pageLocation[p][v] = "SWAP" /\ pageLocation[q][w] = "SWAP"
          /\ swapArray[p][v] = swapArray[q][w]
          => p = q /\ v = w

(* The frame holds the page; it was written since it was last saved; what    *)
(* the swap file or the executable has of the page is what was written last. *)
InFrame(p, v, f) == ipt[f].valid /\ ipt[f].process = p /\ ipt[f].page = v

Changed(f) ==
    ipt[f].dirty \/ \E k \in Slots : tlb[k].valid /\ tlb[k].frame = f /\ tlb[k].dirty

Saved(p, v) ==
    \/ pageLocation[p][v] = "EXECUTABLE" /\ truth[p][v] = Code
    \/ pageLocation[p][v] = "SWAP" /\ swapFile[swapArray[p][v]] = truth[p][v]

(* What was written last to a page is in its frame, and in the backing store *)
(* unless a dirty bit says that it is not.                                   *)
UnwrittenSound ==
    \A p \in Processes, v \in Pages : v \in StackPages \ numPages[p] => truth[p][v] = None

DataSound ==
    OneProcess => \A p \in Processes, v \in Pages : truth[p][v] # None =>
        /\ \A f \in Frames : InFrame(p, v, f) =>
              mainMemory[f] = truth[p][v] /\ (Changed(f) \/ Saved(p, v))
        /\ (\A f \in Frames : ~InFrame(p, v, f)) => Saved(p, v)

PagingInv ==
    /\ TypesSound /\ IptLockSound /\ PagesSound /\ OneFrame /\ TLBSound /\ NotInTLB
    /\ VictimSound /\ FifoSound /\ SwapSound /\ UnwrittenSound /\ DataSound

-----------------------------------------------------------------------------
(* Least, and the types behind the state. *)

(* The loops that look for the first frame, slot or place find one. *)
LEMMA LeastIn ==
    ASSUME NEW S \in SUBSET Nat, S # {}
    PROVE  Least(S) \in S
  BY SmallestMember DEF Least

LEMMA Sizes ==
    /\ Frames \subseteq Nat /\ Slots \subseteq Nat /\ Swap \subseteq Nat
    /\ 0 \in Frames /\ 0 \in Slots
    /\ \A k \in Slots : Following(k) \in Slots
  BY DEF Frames, Slots, Swap, Following

LEMMA SpaceTyped ==
    ASSUME PagingTypeOK
    PROVE  /\ space \in [Threads -> Processes]
           /\ layout.pages \in [Processes -> SUBSET Pages]
  BY DEF PagingTypeOK, space

-----------------------------------------------------------------------------
(* Loading the TLB. *)

(* FillTLB puts one entry into the TLB, for frame f; the table keeps what    *)
(* the frames hold, and loses no dirty bit.                                  *)
LEMMA FillTLBSound ==
    ASSUME PagingTypeOK, TLBSound,
           NEW t \in Threads, t = currentThread,
           NEW table \in [Frames -> Entries], NEW f \in Frames,
           FillTLB(t, table, f),
           UNCHANGED <<layout, currentThread>>,
           table[f].valid, table[f].process = space[t],
           Hits(table[f].page) = {},
           \A k \in Slots : tlb[k].valid => table[tlb[k].frame] = ipt[tlb[k].frame],
           \A g, h \in Frames :
              /\ table[g].valid /\ table[h].valid
              /\ table[g].process = table[h].process /\ table[g].page = table[h].page
              => g = h
    PROVE  /\ tlb' \in [Slots -> TLBEntries] /\ nextTLB' \in Slots
           /\ ipt' \in [Frames -> Entries]
           /\ \A g \in Frames : /\ ipt'[g].valid = table[g].valid
                                /\ ipt'[g].page = table[g].page
                                /\ ipt'[g].process = table[g].process
           /\ TLBSound'
           /\ \A g \in Frames :
                 \/ table[g].dirty
                 \/ \E k \in Slots : tlb[k].valid /\ tlb[k].frame = g /\ tlb[k].dirty
                 => \/ ipt'[g].dirty
                    \/ \E k \in Slots : tlb'[k].valid /\ tlb'[k].frame = g /\ tlb'[k].dirty
  <1> DEFINE old  == tlb[nextTLB]
             mine == FramesOf(table, space[t], old.page)
             kept == [g \in Frames |->
                        IF g \in mine
                        THEN [table[g] EXCEPT !.use = FALSE,
                                              !.dirty = @ \/ (old.valid /\ old.dirty)]
                        ELSE table[g]]
             new  == [valid |-> TRUE, page |-> kept[f].page, frame |-> f,
                      dirty |-> kept[f].dirty]
  <1>1. /\ ipt' = kept
        /\ tlb' = [tlb EXCEPT ![nextTLB] = new]
        /\ nextTLB' = Following(nextTLB)
    BY DEF FillTLB
  <1>2. tlb \in [Slots -> TLBEntries] /\ nextTLB \in Slots /\ old \in TLBEntries
    BY DEF PagingTypeOK, TLBEntries
  <1>3. ASSUME NEW g \in Frames
        PROVE  /\ kept[g] \in Entries
               /\ kept[g].valid = table[g].valid
               /\ kept[g].page = table[g].page
               /\ kept[g].process = table[g].process
               /\ kept[g].dirty = (table[g].dirty \/ (g \in mine /\ old.valid /\ old.dirty))
    <2>1. old.valid \in BOOLEAN /\ old.dirty \in BOOLEAN
      BY <1>2 DEF TLBEntries
    <2>2. table[g] \in Entries /\ table[g].dirty \in BOOLEAN
      BY DEF Entries
    <2> HIDE DEF old, mine
    <2>3. CASE g \in mine
      <3>1. kept[g] = [table[g] EXCEPT !.use = FALSE,
                                       !.dirty = table[g].dirty \/ (old.valid /\ old.dirty)]
        BY <2>3
      <3> QED
        BY <2>1, <2>2, <2>3, <3>1 DEF Entries
    <2>4. CASE g \notin mine
      BY <2>2, <2>4
    <2> QED
      BY <2>3, <2>4
  <1> HIDE DEF kept
  <1>4. new \in TLBEntries
    BY <1>3 DEF TLBEntries, Entries
  <1>5. /\ new.valid /\ new.page = table[f].page /\ new.frame = f
        /\ new.dirty = kept[f].dirty
    BY <1>3
  <1> HIDE DEF new
  <1>6. tlb'[nextTLB] = new /\ \A k \in Slots \ {nextTLB} : tlb'[k] = tlb[k]
    BY <1>1, <1>2
  <1>7. TLBIsolates'
    <2>1. ASSUME NEW k \in Slots, tlb'[k].valid
          PROVE  /\ ipt'[tlb'[k].frame].valid
                 /\ ipt'[tlb'[k].frame].page = tlb'[k].page
                 /\ ipt'[tlb'[k].frame].process = space[t]
      <3>1. CASE k = nextTLB
        BY <1>1, <1>3, <1>5, <1>6, <3>1
      <3>2. CASE k # nextTLB
        <4>1. tlb[k].valid /\ tlb'[k] = tlb[k] /\ tlb[k].frame \in Frames
          BY <1>2, <1>6, <2>1, <3>2 DEF TLBEntries
        <4>2. /\ ipt[tlb[k].frame].valid
              /\ ipt[tlb[k].frame].page = tlb[k].page
              /\ ipt[tlb[k].frame].process = space[t]
          BY <4>1 DEF TLBSound, TLBIsolates
        <4> QED
          BY <1>1, <1>3, <4>1, <4>2
      <3> QED
        BY <3>1, <3>2
    <2> QED
      BY <2>1 DEF TLBIsolates, space
  <1>8. ASSUME NEW j \in Slots, NEW k \in Slots,
               tlb'[j].valid, tlb'[k].valid, tlb'[j].page = tlb'[k].page
        PROVE  j = k
    <2>1. \A i \in Slots : ~(tlb[i].valid /\ tlb[i].page = table[f].page)
      BY DEF Hits
    <2> QED
      BY <1>5, <1>6, <1>8, <2>1 DEF TLBSound
  <1>9. \A i \in Slots : tlb[i].valid =>
            /\ table[tlb[i].frame].valid /\ table[tlb[i].frame].page = tlb[i].page
            /\ table[tlb[i].frame].process = space[t]
            /\ tlb[i].frame \in Frames
    BY <1>2 DEF TLBSound, TLBIsolates, TLBEntries
  <1>10. old.valid => \A g \in mine : g = old.frame
    BY <1>2, <1>9 DEF FramesOf
  <1>11. ASSUME NEW k \in Slots, tlb'[k].valid, ipt'[tlb'[k].frame].dirty
         PROVE  tlb'[k].dirty
    <2>1. CASE k = nextTLB
      BY <1>1, <1>5, <1>6, <1>11, <2>1
    <2>2. CASE k # nextTLB
      <3>1. tlb[k].valid /\ tlb'[k] = tlb[k] /\ tlb[k].frame \in Frames
        BY <1>2, <1>6, <1>11, <2>2 DEF TLBEntries
      <3>2. ~(tlb[k].frame \in mine /\ old.valid)
        <4>1. ASSUME tlb[k].frame \in mine, old.valid PROVE FALSE
          <5>1. tlb[k].page = old.page
            BY <1>2, <1>9, <1>10, <3>1, <4>1
          <5> QED
            BY <1>2, <2>2, <3>1, <4>1, <5>1 DEF TLBSound
        <4> QED
          BY <4>1
      <3>3. table[tlb[k].frame].dirty
        BY <1>1, <1>3, <1>11, <3>1, <3>2
      <3> QED
        BY <3>1, <3>3 DEF TLBSound
    <2> QED
      BY <2>1, <2>2
  <1>12. TLBSound'
    BY <1>7, <1>8, <1>11 DEF TLBSound
  <1>13. ASSUME NEW g \in Frames,
                \/ table[g].dirty
                \/ \E k \in Slots : tlb[k].valid /\ tlb[k].frame = g /\ tlb[k].dirty
         PROVE  \/ ipt'[g].dirty
                \/ \E k \in Slots : tlb'[k].valid /\ tlb'[k].frame = g /\ tlb'[k].dirty
    <2>1. CASE table[g].dirty
      BY <1>1, <1>3, <2>1
    <2>2. ASSUME NEW k \in Slots, tlb[k].valid, tlb[k].frame = g, tlb[k].dirty
          PROVE  \/ ipt'[g].dirty
                 \/ \E j \in Slots : tlb'[j].valid /\ tlb'[j].frame = g /\ tlb'[j].dirty
      <3>1. CASE k = nextTLB
        <4>1. g \in mine /\ old.valid /\ old.dirty
          BY <1>9, <2>2, <3>1 DEF FramesOf
        <4> QED
          BY <1>1, <1>3, <4>1
      <3>2. CASE k # nextTLB
        BY <1>6, <2>2, <3>2
      <3> QED
        BY <3>1, <3>2
    <2> QED
      BY <1>13, <2>1, <2>2
  <1>14. tlb' \in [Slots -> TLBEntries] /\ nextTLB' \in Slots /\ ipt' \in [Frames -> Entries]
    <2>1. kept \in [Frames -> Entries]
      BY <1>3 DEF kept
    <2> QED
      BY <1>1, <1>2, <1>4, <2>1, Sizes
  <1> QED
    BY <1>1, <1>3, <1>12, <1>13, <1>14

-----------------------------------------------------------------------------
(* Saving a page and loading one. *)

SwapTypesOK ==
    /\ pageLocation \in [Processes -> [Pages -> {"EXECUTABLE", "SWAP", "STACK"}]]
    /\ swapArray \in [Processes -> [Pages -> Swap \cup {0}]]
    /\ DOMAIN swapFile \subseteq Swap
    /\ \A i \in DOMAIN swapFile : swapFile[i] \in Contents

(* SwapOut saves what is in the frame, and nothing that was saved is lost. *)
LEMMA SwapOutSound ==
    ASSUME TypesSound, SwapSound,
           NEW f \in Frames, ipt[f].valid, ipt[f].process \in Processes,
           FreeSwap # {}, SwapOut(f), UNCHANGED truth
    PROVE  /\ SwapTypesOK' /\ SwapSound'
           /\ \A p \in Processes, v \in Pages :
                 Saved(p, v) /\ ~InFrame(p, v, f) => Saved(p, v)'
           /\ \A p \in Processes, v \in Pages :
                 InFrame(p, v, f) /\ mainMemory[f] = truth[p][v] => Saved(p, v)'
  <1> DEFINE q == ipt[f].process
             w == ipt[f].page
             s == Least(FreeSwap)
             x == mainMemory[f]
  <1>1. s \in Swap /\ s \notin DOMAIN swapFile
    <2>1. FreeSwap \subseteq Nat
      BY Sizes DEF FreeSwap
    <2> QED
      BY <2>1, LeastIn DEF FreeSwap
  <1>2. q \in Processes /\ w \in Pages /\ x \in Contents
    BY DEF TypesSound, PagingTypeOK
  <1>3. /\ swapFile' = [i \in DOMAIN swapFile \cup {s} |-> IF i = s THEN x ELSE swapFile[i]]
        /\ swapArray' = [swapArray EXCEPT ![q][w] = s]
        /\ pageLocation' = [pageLocation EXCEPT ![q][w] = "SWAP"]
    BY DEF SwapOut
  <1>4. SwapTypesOK
    BY DEF TypesSound, PagingTypeOK, SwapTypesOK
  <1>5. \A p \in Processes, v \in Pages : InFrame(p, v, f) <=> p = q /\ v = w
    BY DEF InFrame
  <1> HIDE DEF q, w, s, x
  <1>6. /\ swapArray'[q][w] = s /\ pageLocation'[q][w] = "SWAP"
        /\ \A p \in Processes, v \in Pages : ~(p = q /\ v = w) =>
              swapArray'[p][v] = swapArray[p][v] /\ pageLocation'[p][v] = pageLocation[p][v]
    BY <1>2, <1>3, <1>4 DEF SwapTypesOK
  <1>7. /\ DOMAIN swapFile' = DOMAIN swapFile \cup {s}
        /\ swapFile'[s] = x
        /\ \A i \in DOMAIN swapFile : swapFile'[i] = swapFile[i]
    BY <1>1, <1>3
  <1>8. SwapTypesOK'
    BY <1>1, <1>2, <1>3, <1>4, <1>7 DEF SwapTypesOK
  <1>9. SwapSound'
    BY <1>1, <1>2, <1>6, <1>7 DEF SwapSound
  <1>10. \A p \in Processes, v \in Pages : Saved(p, v) /\ ~InFrame(p, v, f) => Saved(p, v)'
    BY <1>5, <1>6, <1>7 DEF Saved, SwapSound
  <1>11. \A p \in Processes, v \in Pages :
            InFrame(p, v, f) /\ mainMemory[f] = truth[p][v] => Saved(p, v)'
    BY <1>5, <1>6, <1>7, ZenonT(60) DEF Saved, x
  <1> QED
    BY <1>8, <1>9, <1>10, <1>11

(* Who is inside the handler is alone there. *)
LEMMA AloneInHandler ==
    ASSUME IptLockSound, NEW t \in Threads, faultPc[t] \in {"Locked", "Evicting", "Done"},
           NEW u \in Threads, faultPc[u] \in {"Locked", "Evicting", "Done"}
    PROVE  u = t
  BY DEF IptLockSound

(* A page is loaded into frame f, once nothing in the frame or in the TLB    *)
(* speaks of the page that was there any more.                               *)
LEMMA LoadSound ==
    ASSUME PagingInv, NEW t \in Threads, t = currentThread, faultPc[t] \in {"Locked", "Evicting"},
           NEW f \in Frames, NEW queue \in Seq(Frames),
           FramesOf(ipt, space[t], fault[t]) = {},
           \A k \in Slots : tlb[k].valid => tlb[k].frame # f,
           policy = "FIFO" =>
              /\ Distinct(queue)
              /\ \A g \in Frames : Queued(queue, g) <=> ipt[g].valid /\ g # f,
           LoadInto(t, ipt, f, queue),
           faultPc' = [faultPc EXCEPT ![t] = "Done"],
           UNCHANGED <<truth, lock, fault, currentThread, halted, setting>>,
           victim' \in [Threads -> Frames],
           SwapTypesOK', SwapSound',
           \A p \in Processes, v \in Pages :
              Saved(p, v) /\ ~InFrame(p, v, f) => Saved(p, v)',
           OneProcess => \A p \in Processes, v \in Pages :
              InFrame(p, v, f) /\ truth[p][v] # None => Saved(p, v)'
    PROVE  PagingInv'
  <1> DEFINE p == space[t]
             v == fault[t]
             x == Loaded(p, v, f, swapFile)
             table == [ipt EXCEPT ![f] = NewEntry(p, v)]
  <1>1. TypesSound /\ PagingTypeOK /\ IptLockSound /\ TLBSound
    BY DEF PagingInv, TypesSound
  <1>2. /\ p \in Processes /\ v \in Pages
        /\ ipt \in [Frames -> Entries]
        /\ faultPc \in [Threads -> {"User", "Waiting", "Locked", "Evicting", "Done"}]
        /\ mainMemory \in [Frames -> Contents]
    BY <1>1, SpaceTyped DEF PagingTypeOK, Entries
  <1>3. /\ mainMemory' = [mainMemory EXCEPT ![f] = x]
        /\ FillTLB(t, table, f)
        /\ fifo' = IF policy = "FIFO" THEN Append(queue, f) ELSE queue
    BY DEF LoadInto
  <1>4. x \in Contents
    <2>1. SwapTypesOK /\ SwapSound
      BY <1>1 DEF PagingInv, TypesSound, PagingTypeOK, SwapTypesOK
    <2>2. Code \in Contents
      BY DEF Contents
    <2> QED
      BY <1>2, <2>1, <2>2 DEF Loaded, SwapTypesOK, SwapSound
  <1>5. /\ table \in [Frames -> Entries]
        /\ table[f].valid /\ table[f].process = p /\ table[f].page = v
        /\ \A g \in Frames \ {f} : table[g] = ipt[g]
    BY <1>2 DEF Entries, NewEntry
  <1>6. \A g \in Frames : ~InFrame(p, v, g)
    BY DEF FramesOf, InFrame
  <1>7. Hits(v) = {}
    BY DEF PagingInv, NotInTLB
  <1>8. v \in numPages[p]
    BY DEF PagingInv, PagesSound
  <1>9. \A k \in Slots : tlb[k].valid => table[tlb[k].frame] = ipt[tlb[k].frame]
    <2>1. \A k \in Slots : tlb[k].frame \in Frames
      BY <1>1 DEF PagingTypeOK
    <2> QED
      BY <1>5, <2>1
  <1>10. \A g, h \in Frames :
            /\ table[g].valid /\ table[h].valid
            /\ table[g].process = table[h].process /\ table[g].page = table[h].page
            => g = h
    BY <1>5, <1>6 DEF InFrame, PagingInv, OneFrame
  <1> HIDE DEF p, v, x, table
  <1>11. /\ tlb' \in [Slots -> TLBEntries] /\ nextTLB' \in Slots
         /\ ipt' \in [Frames -> Entries]
         /\ \A g \in Frames : /\ ipt'[g].valid = table[g].valid
                              /\ ipt'[g].page = table[g].page
                              /\ ipt'[g].process = table[g].process
         /\ TLBSound'
         /\ \A g \in Frames :
               \/ table[g].dirty
               \/ \E k \in Slots : tlb[k].valid /\ tlb[k].frame = g /\ tlb[k].dirty
               => \/ ipt'[g].dirty
                  \/ \E k \in Slots : tlb'[k].valid /\ tlb'[k].frame = g /\ tlb'[k].dirty
    <2>1. Hits(table[f].page) = {} /\ table[f].process = space[t]
      BY <1>5, <1>7 DEF p
    <2>2. UNCHANGED <<layout, currentThread>>
      BY DEF setting
    <2>3. /\ PagingTypeOK /\ TLBSound /\ table \in [Frames -> Entries]
          /\ FillTLB(t, table, f) /\ table[f].valid /\ table[f].process = space[t]
      BY <1>1, <1>3, <1>5, <2>1
    <2> QED
      BY <1>9, <1>10, <2>1, <2>2, <2>3, FillTLBSound, SMTT(60)
  <1>12. /\ faultPc'[t] = "Done" /\ \A u \in Threads \ {t} : faultPc'[u] = faultPc[u]
         /\ \A u \in Threads : faultPc'[u] \notin {"Locked", "Evicting"}
    BY <1>1, <1>2, AloneInHandler
  <1>13. space' = space /\ numPages' = numPages /\ policy' = policy
    BY DEF setting, space
  <1>14. fifo' \in Seq(Frames)
    BY <1>3
  <1>15. TypesSound'
    <2>1. PagingTypeOK'
      BY <1>1, <1>2, <1>3, <1>4, <1>11, <1>14
         DEF PagingTypeOK, SwapTypesOK, TLBEntries, Entries, lock, setting, Contents
    <2> QED
      BY <1>1, <2>1 DEF TypesSound, SwapTypesOK, Contents
  <1>16. IptLockSound'
    BY <1>1, <1>2, <1>12 DEF IptLockSound, lock
  <1>17. PagesSound'
    <2>1. \A u \in Threads : faultPc'[u] = "Waiting" => fault'[u] \in numPages'[space'[u]]
      BY <1>12, <1>13 DEF PagingInv, PagesSound
    <2>2. ASSUME NEW g \in Frames, ipt'[g].valid
          PROVE  \E u \in Threads : /\ ipt'[g].process = space'[u]
                                    /\ ipt'[g].page \in numPages'[space'[u]]
      <3>1. CASE g = f
        BY <1>5, <1>8, <1>11, <1>13, <3>1 DEF p
      <3>2. CASE g # f
        BY <1>5, <1>11, <1>13, <2>2, <3>2 DEF PagingInv, PagesSound
      <3> QED
        BY <3>1, <3>2
    <2> QED
      BY <1>12, <2>1, <2>2 DEF PagesSound
  <1>18. OneFrame'
    BY <1>10, <1>11 DEF OneFrame
  <1>19. NotInTLB' /\ VictimSound'
    BY <1>1, <1>12 DEF NotInTLB, VictimSound, PagingTypeOK
  <1>20. FifoSound'
    <2>1. ASSUME policy = "FIFO"
          PROVE  /\ Distinct(fifo')
                 /\ \A g \in Frames : Queued(fifo', g) <=> ipt'[g].valid
      <3>1. /\ fifo' = Append(queue, f) /\ ~Queued(queue, f)
            /\ \A g \in Frames : Queued(Append(queue, f), g) <=> Queued(queue, g) \/ g = f
            /\ Distinct(Append(queue, f))
        BY <1>3, <2>1, QueueAppend
      <3> QED
        BY <1>5, <1>11, <2>1, <3>1
    <2> QED
      BY <1>12, <1>13, <2>1 DEF FifoSound
  <1>21. UnwrittenSound'
    BY <1>13 DEF PagingInv, UnwrittenSound
  <1>22. DataSound'
    <2> SUFFICES ASSUME OneProcess', NEW q \in Processes, NEW w \in Pages, truth'[q][w] # None
                 PROVE  /\ \A g \in Frames : InFrame(q, w, g)' =>
                              mainMemory'[g] = truth'[q][w] /\ (Changed(g)' \/ Saved(q, w)')
                        /\ (\A g \in Frames : ~InFrame(q, w, g)') => Saved(q, w)'
      BY DEF DataSound
    <2>1. OneProcess /\ truth[q][w] # None /\ truth' = truth
      BY <1>13 DEF OneProcess
    <2>2. /\ \A g \in Frames : InFrame(q, w, g) =>
                mainMemory[g] = truth[q][w] /\ (Changed(g) \/ Saved(q, w))
          /\ (\A g \in Frames : ~InFrame(q, w, g)) => Saved(q, w)
      BY <2>1 DEF PagingInv, DataSound
    <2>3. \A g \in Frames \ {f} : InFrame(q, w, g)' <=> InFrame(q, w, g)
      BY <1>5, <1>11 DEF InFrame
    <2>4. InFrame(q, w, f)' <=> q = p /\ w = v
      BY <1>5, <1>11 DEF InFrame
    <2>5. \A g \in Frames \ {f} : Changed(g) => Changed(g)'
      BY <1>5, <1>11 DEF Changed
    <2>6. ASSUME NEW g \in Frames \ {f}, InFrame(q, w, g)'
          PROVE  mainMemory'[g] = truth'[q][w] /\ (Changed(g)' \/ Saved(q, w)')
      <3>1. InFrame(q, w, g) /\ ~InFrame(q, w, f)
        BY <2>3, <2>6 DEF InFrame, PagingInv, OneFrame
      <3>2. mainMemory'[g] = mainMemory[g]
        BY <1>2, <1>3
      <3> QED
        BY <2>1, <2>2, <2>5, <3>1, <3>2
    <2>7. ASSUME q = p, w = v
          PROVE  mainMemory'[f] = truth'[q][w] /\ Saved(q, w)'
      <3>1. Saved(q, w)
        BY <1>6, <2>2, <2>7
      <3>2. Saved(q, w)'
        BY <1>6, <2>7, <3>1
      <3>3. x = truth[q][w]
        BY <2>7, <3>1 DEF x, Loaded, Saved
      <3> QED
        BY <1>2, <1>3, <2>1, <3>2, <3>3
    <2>8. ASSUME \A g \in Frames : ~InFrame(q, w, g)'
          PROVE  Saved(q, w)'
      <3>1. CASE InFrame(q, w, f)
        BY <2>1, <3>1
      <3>2. CASE ~InFrame(q, w, f)
        BY <2>2, <2>3, <2>8, <3>2
      <3> QED
        BY <3>1, <3>2
    <2> QED
      BY <2>4, <2>6, <2>7, <2>8
  <1> QED
    BY <1>11, <1>15, <1>16, <1>17, <1>18, <1>19, <1>20, <1>21, <1>22 DEF PagingInv

-----------------------------------------------------------------------------
(* The actions. *)

LEMMA WriteInv ==
    ASSUME PagingInv, NEW t \in Threads, NEW v \in Pages, NEW y \in Values, Write(t, v, y)
    PROVE  PagingInv'
  <1> DEFINE k == Least(Hits(v))
             f == tlb[k].frame
             p == space[t]
  <1>1. PagingTypeOK /\ TLBSound /\ p \in Processes
    BY SpaceTyped DEF PagingInv, TypesSound
  <1>2. k \in Slots /\ tlb[k].valid /\ tlb[k].page = v
    <2>1. Hits(v) \in SUBSET Nat /\ Hits(v) # {}
      BY Sizes DEF Hits, Write
    <2> QED
      BY <2>1, LeastIn DEF Hits
  <1>3. f \in Frames /\ ipt[f].valid /\ ipt[f].page = v /\ ipt[f].process = p
    BY <1>1, <1>2 DEF TLBSound, TLBIsolates, PagingTypeOK, Write, RunsAt
  <1>4. /\ tlb' = [tlb EXCEPT ![k].dirty = TRUE]
        /\ mainMemory' = [mainMemory EXCEPT ![f] = y]
        /\ truth' = [truth EXCEPT ![p][v] = y]
        /\ t = currentThread /\ faultPc[t] = "User" /\ space' = space
    BY DEF Write, RunsAt, setting, space
  <1>5. UNCHANGED <<ipt, nextTLB, fifo, pageLocation, swapArray, swapFile, lockOwner,
                    lockQueue, faultPc, fault, victim, currentThread, halted, layout,
                    numPages, policy>>
    BY DEF Write, kernel, lock, setting
  <1>6. /\ tlb \in [Slots -> TLBEntries]
        /\ truth \in [Processes -> [Pages -> Values \cup {Code, None}]]
        /\ mainMemory \in [Frames -> Contents]
    BY <1>1 DEF PagingInv, TypesSound, PagingTypeOK, TLBEntries
  <1> HIDE DEF k, f, p
  <1>7. /\ tlb' \in [Slots -> TLBEntries]
        /\ tlb'[k].dirty
        /\ \A j \in Slots : /\ tlb'[j].valid = tlb[j].valid
                            /\ tlb'[j].page = tlb[j].page
                            /\ tlb'[j].frame = tlb[j].frame
                            /\ tlb[j].dirty => tlb'[j].dirty
    BY <1>2, <1>4, <1>6 DEF TLBEntries
  <1>8. /\ truth' \in [Processes -> [Pages -> Values \cup {Code, None}]]
        /\ truth'[p][v] = y
        /\ \A q \in Processes, w \in Pages : ~(q = p /\ w = v) => truth'[q][w] = truth[q][w]
    BY <1>1, <1>4, <1>6
  <1>9. mainMemory' \in [Frames -> Contents]
    BY <1>3, <1>4, <1>6 DEF Contents
  <1>10. TypesSound'
    BY <1>1, <1>5, <1>7, <1>8, <1>9 DEF PagingInv, TypesSound, PagingTypeOK, TLBEntries, Contents
  <1>11. IptLockSound' /\ PagesSound' /\ OneFrame' /\ FifoSound' /\ SwapSound'
    BY <1>4, <1>5 DEF PagingInv, IptLockSound, PagesSound, OneFrame, FifoSound, SwapSound
  <1>12. TLBSound'
    BY <1>1, <1>4, <1>5, <1>7 DEF TLBSound, TLBIsolates
  <1>13. NotInTLB' /\ VictimSound'
    BY <1>4, <1>5, <1>7 DEF PagingInv, NotInTLB, VictimSound, Hits, EmptyFrames, FramesOf
  <1>14. v \in numPages[p]
    BY <1>3 DEF PagingInv, PagesSound
  <1>15. UnwrittenSound'
    BY <1>5, <1>8, <1>14 DEF PagingInv, UnwrittenSound
  <1>16. DataSound'
    <2> SUFFICES ASSUME OneProcess', NEW q \in Processes, NEW w \in Pages, truth'[q][w] # None
                 PROVE  /\ \A g \in Frames : InFrame(q, w, g)' =>
                              mainMemory'[g] = truth'[q][w] /\ (Changed(g)' \/ Saved(q, w)')
                        /\ (\A g \in Frames : ~InFrame(q, w, g)') => Saved(q, w)'
      BY DEF DataSound
    <2>1. OneProcess /\ \A g \in Frames : InFrame(q, w, g)' <=> InFrame(q, w, g)
      BY <1>4, <1>5 DEF OneProcess, InFrame
    <2>2. CASE q = p /\ w = v
      <3>1. PICK g \in Frames : g = f
        BY <1>3
      <3>2. InFrame(q, w, g) /\ \A h \in Frames : InFrame(q, w, h) => h = g
        BY <1>3, <2>2, <3>1 DEF InFrame, PagingInv, OneFrame
      <3>3. tlb'[k].valid /\ tlb'[k].frame = g /\ tlb'[k].dirty
        BY <1>2, <1>7, <3>1 DEF f
      <3>4. mainMemory'[g] = y /\ Changed(g)'
        BY <1>2, <1>4, <1>6, <3>1, <3>3 DEF Changed
      <3> QED
        BY <1>8, <2>1, <2>2, <3>2, <3>4
    <2>3. CASE ~(q = p /\ w = v)
      <3>1. truth'[q][w] = truth[q][w] /\ ~InFrame(q, w, f)
        BY <1>3, <1>8, <2>3 DEF InFrame
      <3>2. Saved(q, w)' <=> Saved(q, w)
        BY <1>5, <3>1 DEF Saved
      <3>3. \A g \in Frames : Changed(g) => Changed(g)'
        BY <1>5, <1>7 DEF Changed
      <3>4. \A g \in Frames : g # f => mainMemory'[g] = mainMemory[g]
        BY <1>4, <1>6
      <3> QED
        BY <2>1, <3>1, <3>2, <3>3, <3>4 DEF PagingInv, DataSound
    <2> QED
      BY <2>2, <2>3
  <1> QED
    BY <1>10, <1>11, <1>12, <1>13, <1>15, <1>16 DEF PagingInv

(* A switch empties the TLB; its dirty bits go to the table. *)
LEMMA SwitchInv ==
    ASSUME PagingInv, NEW t \in Threads, Switch(t)
    PROVE  PagingInv'
  <1>1. /\ tlb' = [k \in Slots |-> Invalid(tlb[k])]
        /\ ipt' = SavedBits
        /\ currentThread' = t
        /\ UNCHANGED <<mainMemory, swapFile, truth, nextTLB, fifo, pageLocation, swapArray,
                       lockOwner, lockQueue, faultPc, fault, victim, halted, layout,
                       numPages, policy>>
    BY DEF Switch, InvalidateAllTLB, memory, kernel, lock, setting
  <1>2. /\ PagingTypeOK /\ tlb \in [Slots -> TLBEntries] /\ ipt \in [Frames -> Entries]
        /\ space' = space
    BY <1>1 DEF PagingInv, TypesSound, PagingTypeOK, TLBEntries, Entries, space
  <1>3. tlb' \in [Slots -> TLBEntries] /\ \A k \in Slots : ~tlb'[k].valid
    <2>1. \A k \in Slots : Invalid(tlb[k]) \in TLBEntries /\ ~Invalid(tlb[k]).valid
      BY <1>2, Sizes DEF TLBEntries, Invalid
    <2> QED
      BY <1>1, <2>1
  <1>4. ASSUME NEW f \in Frames
        PROVE  /\ ipt'[f] \in Entries
               /\ ipt'[f].valid = ipt[f].valid /\ ipt'[f].page = ipt[f].page
               /\ ipt'[f].process = ipt[f].process
               /\ Changed(f) => ipt'[f].dirty
    <2> DEFINE ks == {k \in Slots : tlb[k].valid /\ tlb[k].frame = f}
               b  == \E k \in ks : tlb[k].dirty
    <2>1. ipt'[f] = IF ks = {} THEN ipt[f] ELSE [ipt[f] EXCEPT !.dirty = b]
      BY <1>1 DEF SavedBits
    <2>2. ipt[f] \in Entries /\ b \in BOOLEAN
      BY <1>2
    <2>3. Changed(f) => IF ks = {} THEN ipt[f].dirty ELSE b
      <3>1. ASSUME ks # {}, Changed(f) PROVE b
        <4>1. PICK k \in Slots : tlb[k].valid /\ tlb[k].frame = f
          BY <3>1
        <4>2. ipt[f].dirty => tlb[k].dirty
          BY <4>1 DEF PagingInv, TLBSound
        <4> QED
          BY <3>1, <4>1, <4>2 DEF Changed
      <3>2. ASSUME ks = {}, Changed(f) PROVE ipt[f].dirty
        BY <3>2 DEF Changed
      <3> QED
        BY <3>1, <3>2
    <2> HIDE DEF ks, b
    <2>4. CASE ks = {}
      BY <2>1, <2>2, <2>3, <2>4
    <2>5. CASE ks # {}
      BY <2>1, <2>2, <2>3, <2>5 DEF Entries
    <2> QED
      BY <2>4, <2>5
  <1>5. ipt' \in [Frames -> Entries]
    BY <1>1, <1>4 DEF SavedBits
  <1>6. TypesSound'
    BY <1>1, <1>2, <1>3, <1>5 DEF PagingInv, TypesSound, PagingTypeOK, TLBEntries, Entries, Contents
  <1>7. IptLockSound' /\ PagesSound' /\ OneFrame' /\ FifoSound' /\ SwapSound' /\ UnwrittenSound'
    BY <1>1, <1>2, <1>4
       DEF PagingInv, IptLockSound, PagesSound, OneFrame, FifoSound, SwapSound, UnwrittenSound
  <1>8. TLBSound' /\ NotInTLB'
    BY <1>3 DEF TLBSound, TLBIsolates, NotInTLB, Hits
  <1>9. VictimSound'
    BY <1>1, <1>2, <1>3, <1>4 DEF PagingInv, VictimSound, EmptyFrames, FramesOf
  <1>10. DataSound'
    <2>1. \A q \in Processes, w \in Pages :
             /\ Saved(q, w)' <=> Saved(q, w)
             /\ \A f \in Frames : InFrame(q, w, f)' <=> InFrame(q, w, f)
      BY <1>1, <1>4 DEF Saved, InFrame
    <2>2. \A f \in Frames : Changed(f) => Changed(f)'
      BY <1>4 DEF Changed
    <2>3. OneProcess' = OneProcess
      BY <1>2 DEF OneProcess
    <2> QED
      BY <1>1, <2>1, <2>2, <2>3 DEF PagingInv, DataSound
  <1> QED
    BY <1>6, <1>7, <1>8, <1>9, <1>10 DEF PagingInv

(* A fault takes the lock or joins its queue; memory does not change. *)
LEMMA PageFaultInv ==
    ASSUME PagingInv, NEW t \in Threads, NEW v \in Pages, PageFault(t, v)
    PROVE  PagingInv'
  <1>1. /\ fault' = [fault EXCEPT ![t] = v] /\ v \in numPages[space[t]]
        /\ t = currentThread /\ faultPc[t] = "User" /\ ~halted /\ Hits(v) = {}
        /\ UNCHANGED <<mainMemory, swapFile, truth, tlb, ipt, nextTLB, fifo, pageLocation,
                       swapArray, victim, currentThread, halted, layout, numPages, policy>>
    BY DEF PageFault, RunsAt, memory, kernel, setting
  <1>2. TypesSound /\ PagingTypeOK /\ IptLockSound /\ space' = space
    BY <1>1 DEF PagingInv, TypesSound, space
  <1>3. /\ faultPc' \in [Threads -> {"User", "Waiting", "Locked", "Evicting", "Done"}]
        /\ faultPc'[t] \in {"Waiting", "Locked"}
        /\ \A u \in Threads \ {t} : faultPc'[u] = faultPc[u]
    BY <1>2 DEF PageFault, PagingTypeOK
  <1>4. IptLockSound' /\ lockQueue' \in Seq(Threads) /\ lockOwner' \in Threads \cup {None}
    <2>1. CASE lockOwner = None
      <3>1. lockOwner' = t /\ lockQueue' = lockQueue /\ faultPc' = [faultPc EXCEPT ![t] = "Locked"]
        BY <2>1 DEF PageFault
      <3> QED
        BY <1>1, <1>2, <2>1, <3>1 DEF IptLockSound, PagingTypeOK
    <2>2. CASE lockOwner # None
      <3>1. /\ lockOwner' = lockOwner /\ lockQueue' = Append(lockQueue, t)
            /\ faultPc' = [faultPc EXCEPT ![t] = "Waiting"]
        BY <2>2 DEF PageFault
      <3>2. lockQueue \in Seq(Threads) /\ ~Queued(lockQueue, t) /\ Distinct(lockQueue)
        BY <1>1, <1>2 DEF IptLockSound, PagingTypeOK
      <3>3. /\ Append(lockQueue, t) \in Seq(Threads)
            /\ \A u \in Threads : Queued(Append(lockQueue, t), u)
                                    <=> Queued(lockQueue, u) \/ u = t
            /\ Distinct(Append(lockQueue, t))
        BY <3>2, QueueAppend
      <3> QED
        BY <1>1, <1>2, <3>1, <3>3 DEF IptLockSound, PagingTypeOK
    <2> QED
      BY <2>1, <2>2
  <1>5. TypesSound'
    BY <1>1, <1>2, <1>3, <1>4 DEF TypesSound, PagingTypeOK, Contents
  <1>6. PagesSound'
    BY <1>1, <1>2, <1>3 DEF PagingInv, PagesSound, PagingTypeOK
  <1>7. OneFrame' /\ SwapSound' /\ UnwrittenSound' /\ TLBSound'
    BY <1>1, <1>2 DEF PagingInv, OneFrame, SwapSound, UnwrittenSound, TLBSound, TLBIsolates
  <1>8. NotInTLB'
    BY <1>1, <1>2 DEF NotInTLB, Hits, PagingTypeOK
  <1>9. VictimSound' /\ FifoSound'
    BY <1>1, <1>2, <1>3 DEF PagingInv, VictimSound, FifoSound, EmptyFrames, FramesOf, PagingTypeOK
  <1>10. DataSound'
    BY <1>1, <1>2 DEF PagingInv, DataSound, OneProcess, InFrame, Changed, Saved
  <1> QED
    BY <1>4, <1>5, <1>6, <1>7, <1>8, <1>9, <1>10 DEF PagingInv

(* The lock goes to the first that waits, who has nothing in the TLB yet: it *)
(* is not the thread that runs.                                              *)
LEMMA ReturnInv ==
    ASSUME PagingInv, NEW t \in Threads, Return(t)
    PROVE  PagingInv'
  <1>1. /\ t = currentThread /\ faultPc[t] = "Done" /\ ~halted
        /\ fault' = [fault EXCEPT ![t] = 0]
        /\ UNCHANGED <<mainMemory, swapFile, truth, tlb, ipt, nextTLB, fifo, pageLocation,
                       swapArray, victim, currentThread, halted, layout, numPages, policy>>
    BY DEF Return, RunsAt, memory, kernel, setting
  <1>2. TypesSound /\ PagingTypeOK /\ IptLockSound /\ space' = space
    BY <1>1 DEF PagingInv, TypesSound, space
  <1>3. lockQueue \in Seq(Threads) /\ Distinct(lockQueue) /\ t \in Threads
    BY <1>2 DEF PagingTypeOK, IptLockSound
  <1>4. /\ IptLockSound' /\ lockQueue' \in Seq(Threads) /\ lockOwner' \in Threads \cup {None}
        /\ faultPc' \in [Threads -> {"User", "Waiting", "Locked", "Evicting", "Done"}]
        /\ faultPc'[t] = "User"
        /\ \A u \in Threads : \/ faultPc'[u] = faultPc[u]
                              \/ faultPc[u] = "Waiting" /\ faultPc'[u] = "Locked"
                              \/ faultPc'[u] = "User"
    <2>1. CASE lockQueue = << >>
      <3>1. lockOwner' = None /\ faultPc' = [faultPc EXCEPT ![t] = "User"] /\ lockQueue' = lockQueue
        BY <2>1 DEF Return
      <3> QED
        BY <1>1, <1>2, <3>1 DEF IptLockSound, PagingTypeOK
    <2>2. CASE lockQueue # << >>
      <3> DEFINE h == Head(lockQueue)
      <3>1. /\ lockOwner' = h /\ lockQueue' = Tail(lockQueue)
            /\ faultPc' = [faultPc EXCEPT ![t] = "User", ![h] = "Locked"]
        BY <2>2 DEF Return
      <3>2. /\ h \in Threads /\ Tail(lockQueue) \in Seq(Threads)
            /\ Queued(lockQueue, h) /\ Distinct(Tail(lockQueue))
            /\ \A u \in Threads : Queued(Tail(lockQueue), u)
                                     <=> Queued(lockQueue, u) /\ u # h
        BY <1>3, <2>2, QueueTail
      <3> HIDE DEF h
      <3>3. faultPc[h] = "Waiting" /\ h # t
        BY <1>1, <1>2, <3>2 DEF IptLockSound
      <3> QED
        BY <1>1, <1>2, <3>1, <3>2, <3>3 DEF IptLockSound, PagingTypeOK
    <2> QED
      BY <2>1, <2>2
  <1>5. TypesSound'
    BY <1>1, <1>2, <1>4 DEF TypesSound, PagingTypeOK, Contents
  <1>6. PagesSound'
    BY <1>1, <1>2, <1>4 DEF PagingInv, PagesSound, PagingTypeOK
  <1>7. OneFrame' /\ SwapSound' /\ UnwrittenSound' /\ TLBSound'
    BY <1>1, <1>2 DEF PagingInv, OneFrame, SwapSound, UnwrittenSound, TLBSound, TLBIsolates
  <1>8. NotInTLB'
    BY <1>1, <1>4 DEF NotInTLB
  <1>9. \A u \in Threads : faultPc[u] # "Evicting" /\ faultPc'[u] # "Evicting"
    BY <1>1, <1>2, <1>4 DEF IptLockSound
  <1>10. VictimSound' /\ FifoSound'
    BY <1>1, <1>9 DEF PagingInv, VictimSound, FifoSound
  <1>11. DataSound'
    BY <1>1, <1>2 DEF PagingInv, DataSound, OneProcess, InFrame, Changed, Saved
  <1> QED
    BY <1>4, <1>5, <1>6, <1>7, <1>8, <1>10, <1>11 DEF PagingInv

(* The pages of a new stack were never written. *)
LEMMA MakeNewPTInv ==
    ASSUME PagingInv, NEW t \in Threads, MakeNewPT(t)
    PROVE  PagingInv'
  <1> DEFINE p     == space[t]
             stack == (layout.pages[p] \cap StackPages) \ numPages[p]
  <1>1. /\ numPages' = [numPages EXCEPT ![p] = @ \cup stack]
        /\ pageLocation' = [pageLocation EXCEPT ![p] =
                               [v \in Pages |-> IF v \in stack THEN "STACK" ELSE @[v]]]
        /\ UNCHANGED <<mainMemory, swapFile, truth, tlb, ipt, nextTLB, fifo, swapArray,
                       lockOwner, lockQueue, faultPc, fault, victim, currentThread, halted,
                       layout, policy>>
    BY DEF MakeNewPT, memory, lock
  <1>2. TypesSound /\ PagingTypeOK /\ p \in Processes /\ space' = space
    BY <1>1, SpaceTyped DEF PagingInv, TypesSound, space
  <1>3. stack \subseteq Pages /\ stack \subseteq StackPages \ numPages[p]
    OBVIOUS
  <1> HIDE DEF p, stack
  <1>4. /\ numPages' \in [Processes -> SUBSET Pages]
        /\ \A q \in Processes : numPages[q] \subseteq numPages'[q]
        /\ pageLocation' \in [Processes -> [Pages -> {"EXECUTABLE", "SWAP", "STACK"}]]
        /\ \A q \in Processes, w \in Pages :
              \/ pageLocation'[q][w] = pageLocation[q][w]
              \/ pageLocation'[q][w] = "STACK" /\ q = p /\ w \in stack
    BY <1>1, <1>2, <1>3, ZenonT(60) DEF PagingTypeOK
  <1>5. TypesSound'
    BY <1>1, <1>2, <1>4 DEF TypesSound, PagingTypeOK, Contents
  <1>6. space \in [Threads -> Processes]
    BY <1>2, SpaceTyped
  <1>7. PagesSound'
    BY <1>1, <1>2, <1>4, <1>6 DEF PagingInv, PagesSound
  <1>8. IptLockSound' /\ OneFrame' /\ TLBSound' /\ NotInTLB' /\ FifoSound'
    BY <1>1, <1>2 DEF PagingInv, IptLockSound, OneFrame, TLBSound, TLBIsolates, NotInTLB,
       Hits, FifoSound
  <1>9. VictimSound'
    BY <1>1, <1>2 DEF PagingInv, VictimSound, EmptyFrames, FramesOf
  <1>10. SwapSound' /\ UnwrittenSound'
    BY <1>1, <1>4 DEF PagingInv, SwapSound, UnwrittenSound
  <1>11. DataSound'
    <2>1. ASSUME NEW q \in Processes, NEW w \in Pages, truth[q][w] # None
          PROVE  Saved(q, w)' <=> Saved(q, w)
      <3>1. pageLocation'[q][w] = pageLocation[q][w]
        BY <1>3, <1>4, <2>1, ZenonT(60) DEF PagingInv, UnwrittenSound
      <3> QED
        BY <1>1, <3>1 DEF Saved
    <2>2. /\ OneProcess' = OneProcess
          /\ \A f \in Frames : Changed(f)' <=> Changed(f)
          /\ \A q \in Processes, w \in Pages, f \in Frames :
                InFrame(q, w, f)' <=> InFrame(q, w, f)
      BY <1>1, <1>2 DEF OneProcess, Changed, InFrame
    <2> QED
      BY <1>1, <2>1, <2>2 DEF PagingInv, DataSound
  <1> QED
    BY <1>5, <1>7, <1>8, <1>9, <1>10, <1>11 DEF PagingInv

(* The page is there, and only the TLB did not have it. *)
LEMMA FindEntryInv ==
    ASSUME PagingInv, NEW t \in Threads, FindEntry(t)
    PROVE  PagingInv'
  <1> DEFINE f == Least(FramesOf(ipt, space[t], fault[t]))
  <1>1. /\ t = currentThread /\ faultPc[t] = "Locked"
        /\ FillTLB(t, ipt, f) /\ faultPc' = [faultPc EXCEPT ![t] = "Done"]
        /\ UNCHANGED <<mainMemory, swapFile, truth, fifo, pageLocation, swapArray, lockOwner,
                       lockQueue, fault, victim, currentThread, halted, layout, numPages,
                       policy>>
    BY DEF FindEntry, RunsAt, memory, lock, setting
  <1>2. /\ TypesSound /\ PagingTypeOK /\ TLBSound /\ IptLockSound /\ space' = space
        /\ ipt \in [Frames -> Entries]
    BY <1>1 DEF PagingInv, TypesSound, PagingTypeOK, Entries, space
  <1>3. f \in Frames /\ ipt[f].valid /\ ipt[f].process = space[t] /\ ipt[f].page = fault[t]
    <2>1. FramesOf(ipt, space[t], fault[t]) \in SUBSET Nat
      BY Sizes DEF FramesOf
    <2> QED
      BY <2>1, LeastIn DEF FramesOf, FindEntry
  <1> HIDE DEF f
  <1>4. Hits(ipt[f].page) = {}
    BY <1>1, <1>3 DEF PagingInv, NotInTLB
  <1>5. /\ tlb' \in [Slots -> TLBEntries] /\ nextTLB' \in Slots
        /\ ipt' \in [Frames -> Entries]
        /\ \A g \in Frames : /\ ipt'[g].valid = ipt[g].valid
                             /\ ipt'[g].page = ipt[g].page
                             /\ ipt'[g].process = ipt[g].process
        /\ TLBSound'
        /\ \A g \in Frames :
              \/ ipt[g].dirty
              \/ \E k \in Slots : tlb[k].valid /\ tlb[k].frame = g /\ tlb[k].dirty
              => \/ ipt'[g].dirty
                 \/ \E k \in Slots : tlb'[k].valid /\ tlb'[k].frame = g /\ tlb'[k].dirty
    BY <1>1, <1>2, <1>3, <1>4, FillTLBSound DEF PagingInv, OneFrame
  <1>6. /\ faultPc'[t] = "Done" /\ \A u \in Threads \ {t} : faultPc'[u] = faultPc[u]
        /\ \A u \in Threads : faultPc[u] # "Evicting" /\ faultPc'[u] \notin {"Locked", "Evicting"}
    BY <1>1, <1>2, AloneInHandler DEF PagingTypeOK
  <1>7. TypesSound'
    BY <1>1, <1>2, <1>5 DEF TypesSound, PagingTypeOK, Entries, TLBEntries, Contents
  <1>8. IptLockSound' /\ PagesSound' /\ OneFrame' /\ SwapSound' /\ UnwrittenSound'
    BY <1>1, <1>2, <1>5, <1>6
       DEF PagingInv, IptLockSound, PagesSound, OneFrame, SwapSound, UnwrittenSound, PagingTypeOK
  <1>9. NotInTLB' /\ VictimSound' /\ FifoSound'
    BY <1>1, <1>2, <1>5, <1>6 DEF PagingInv, NotInTLB, VictimSound, FifoSound, PagingTypeOK
  <1>10. DataSound'
    <2>1. /\ OneProcess' = OneProcess
          /\ \A g \in Frames : Changed(g) => Changed(g)'
          /\ \A q \in Processes, w \in Pages :
                /\ Saved(q, w)' <=> Saved(q, w)
                /\ \A g \in Frames : InFrame(q, w, g)' <=> InFrame(q, w, g)
      BY <1>1, <1>2, <1>5 DEF OneProcess, Changed, InFrame, Saved
    <2> QED
      BY <1>1, <2>1 DEF PagingInv, DataSound
  <1> QED
    BY <1>5, <1>7, <1>8, <1>9, <1>10 DEF PagingInv

(* A frame nobody used: nothing is saved. *)
LEMMA UseEmptyEntryInv ==
    ASSUME PagingInv, NEW t \in Threads, UseEmptyEntry(t)
    PROVE  PagingInv'
  <1>1. /\ t = currentThread /\ faultPc[t] = "Locked" /\ ~halted
        /\ FramesOf(ipt, space[t], fault[t]) = {} /\ EmptyFrames # {}
        /\ LoadInto(t, ipt, Least(EmptyFrames), fifo)
        /\ faultPc' = [faultPc EXCEPT ![t] = "Done"]
        /\ UNCHANGED <<swapFile, truth, pageLocation, swapArray, lock, fault, victim,
                       currentThread, halted, setting>>
    BY DEF UseEmptyEntry, RunsAt
  <1>2. TypesSound /\ PagingTypeOK /\ TLBSound /\ IptLockSound /\ SwapSound
    BY DEF PagingInv, TypesSound
  <1>3. PICK f \in Frames : f = Least(EmptyFrames) /\ ~ipt[f].valid
    <2>1. EmptyFrames \in SUBSET Nat
      BY Sizes DEF EmptyFrames
    <2> QED
      BY <1>1, <2>1, LeastIn DEF EmptyFrames
  <1>4. \A k \in Slots : tlb[k].valid => tlb[k].frame # f
    BY <1>2, <1>3 DEF TLBSound, TLBIsolates
  <1>5. \A u \in Threads : faultPc[u] # "Evicting"
    BY <1>1, <1>2, AloneInHandler
  <1>6. policy = "FIFO" =>
           /\ Distinct(fifo)
           /\ \A g \in Frames : Queued(fifo, g) <=> ipt[g].valid /\ g # f
    BY <1>1, <1>3, <1>5 DEF PagingInv, FifoSound
  <1>7. SwapTypesOK' /\ SwapSound'
    BY <1>1, <1>2 DEF TypesSound, PagingTypeOK, SwapTypesOK, SwapSound, Contents
  <1>8. \A p \in Processes, v \in Pages : (Saved(p, v) => Saved(p, v)') /\ ~InFrame(p, v, f)
    BY <1>1, <1>3 DEF Saved, InFrame
  <1>9. fifo \in Seq(Frames) /\ victim' \in [Threads -> Frames]
    BY <1>1, <1>2 DEF PagingTypeOK
  <1> QED
    BY <1>1, <1>3, <1>4, <1>6, <1>7, <1>8, <1>9, LoadSound

(* The frame of another page, that is saved first when it was written. *)
LEMMA ReplaceSound ==
    ASSUME PagingInv, NEW t \in Threads, t = currentThread, faultPc[t] \in {"Locked", "Evicting"},
           NEW f \in Frames, NEW queue \in Seq(Frames), ipt[f].valid,
           FramesOf(ipt, space[t], fault[t]) = {},
           \A k \in Slots : tlb[k].valid => tlb[k].frame # f,
           policy = "FIFO" =>
              /\ Distinct(queue)
              /\ \A g \in Frames : Queued(queue, g) <=> ipt[g].valid /\ g # f,
           Replace(t, f, queue),
           victim' \in [Threads -> Frames],
           UNCHANGED <<truth, lock, fault, currentThread, setting>>
    PROVE  PagingInv'
  <1>1. TypesSound /\ PagingTypeOK /\ SwapSound
    BY DEF PagingInv, TypesSound
  <1>2. CASE ipt[f].dirty /\ FreeSwap = {}
    <2>1. /\ halted' /\ fifo' = queue /\ space' = space
          /\ UNCHANGED <<mainMemory, swapFile, tlb, ipt, nextTLB, pageLocation, swapArray,
                         faultPc, truth, lockOwner, lockQueue, fault, currentThread, layout,
                         numPages, policy>>
      BY <1>2 DEF Replace, lock, setting, space
    <2>2. TypesSound'
      BY <1>1, <1>2, <2>1 DEF Replace, TypesSound, PagingTypeOK, Contents
    <2>3. /\ IptLockSound' /\ PagesSound' /\ OneFrame' /\ TLBSound' /\ NotInTLB'
          /\ VictimSound' /\ FifoSound' /\ SwapSound' /\ UnwrittenSound'
      BY <2>1 DEF PagingInv, IptLockSound, PagesSound, OneFrame, TLBSound, TLBIsolates, NotInTLB,
                  Hits, VictimSound, FifoSound, SwapSound, UnwrittenSound
    <2>4. DataSound'
      BY <2>1 DEF PagingInv, DataSound, OneProcess, InFrame, Changed, Saved
    <2> QED
      BY <2>2, <2>3, <2>4 DEF PagingInv
  <1>3. CASE ~(ipt[f].dirty /\ FreeSwap = {})
    <2>1. /\ LoadInto(t, ipt, f, queue) /\ faultPc' = [faultPc EXCEPT ![t] = "Done"]
          /\ halted' = halted
          /\ IF ipt[f].dirty THEN SwapOut(f) ELSE UNCHANGED <<swapFile, swapArray, pageLocation>>
      BY <1>3 DEF Replace
    <2>2. ipt[f].process \in Processes
      BY <1>1, SpaceTyped DEF PagingInv, PagesSound
    <2>3. OneProcess => \A p \in Processes, v \in Pages :
             InFrame(p, v, f) /\ truth[p][v] # None =>
                mainMemory[f] = truth[p][v] /\ (ipt[f].dirty \/ Saved(p, v))
      BY DEF PagingInv, DataSound, Changed
    <2>4. /\ SwapTypesOK' /\ SwapSound'
          /\ \A p \in Processes, v \in Pages :
                Saved(p, v) /\ ~InFrame(p, v, f) => Saved(p, v)'
          /\ OneProcess => \A p \in Processes, v \in Pages :
                InFrame(p, v, f) /\ truth[p][v] # None => Saved(p, v)'
      <3>1. CASE ipt[f].dirty
        BY <1>1, <1>3, <2>1, <2>2, <2>3, <3>1, SwapOutSound
      <3>2. CASE ~ipt[f].dirty
        <4>1. UNCHANGED <<swapFile, swapArray, pageLocation, truth>>
          BY <2>1, <3>2
        <4>2. SwapTypesOK' /\ SwapSound'
          BY <1>1, <4>1 DEF TypesSound, PagingTypeOK, SwapTypesOK, SwapSound, Contents
        <4>3. \A p \in Processes, v \in Pages : Saved(p, v) => Saved(p, v)'
          BY <4>1 DEF Saved
        <4> QED
          BY <2>3, <3>2, <4>2, <4>3
      <3> QED
        BY <3>1, <3>2
    <2> QED
      BY <2>1, <2>4, LoadSound
  <1> QED
    BY <1>2, <1>3

(* The choice of a victim: every frame is in use, and with FIFO the queue    *)
(* has them all.                                                             *)
LEMMA ChooseSound ==
    ASSUME PagingInv, NEW t \in Threads, NEW f \in Frames, Chooses(t, f)
    PROVE  /\ \A g \in Frames : ipt[g].valid
           /\ Unchosen \in Seq(Frames)
           /\ \A u \in Threads : faultPc[u] # "Evicting"
           /\ policy = "FIFO" =>
                 /\ Distinct(Unchosen)
                 /\ \A g \in Frames : Queued(Unchosen, g) <=> g # f
  <1>1. /\ t = currentThread /\ faultPc[t] = "Locked" /\ ~halted /\ EmptyFrames = {}
        /\ f \in Evictable
        /\ PagingTypeOK /\ IptLockSound
    BY DEF Chooses, RunsAt, PagingInv, TypesSound
  <1>2. \A g \in Frames : ipt[g].valid
    BY <1>1 DEF EmptyFrames
  <1>3. \A u \in Threads : faultPc[u] # "Evicting"
    BY <1>1, AloneInHandler
  <1>4. fifo \in Seq(Frames)
    BY <1>1 DEF PagingTypeOK
  <1>5. CASE policy = "FIFO"
    <2>1. Distinct(fifo) /\ \A g \in Frames : Queued(fifo, g)
      BY <1>1, <1>2, <1>3, <1>5 DEF PagingInv, FifoSound
    <2>2. fifo # << >>
      BY <1>4, <2>1, Sizes, QueueEmpty
    <2>3. Unchosen = Tail(fifo) /\ f = Head(fifo)
      BY <1>1, <1>5 DEF Unchosen, Evictable
    <2> QED
      BY <1>2, <1>3, <1>4, <2>1, <2>2, <2>3, QueueTail
  <1>6. CASE policy # "FIFO"
    BY <1>2, <1>3, <1>4, <1>6 DEF Unchosen
  <1> QED
    BY <1>5, <1>6

LEMMA EvictInv ==
    ASSUME PagingInv, NEW t \in Threads, Evict(t)
    PROVE  PagingInv'
  <1>1. PICK f \in Frames : Chooses(t, f) /\ InTLB(f) = {} /\ Replace(t, f, Unchosen)
    BY DEF Evict
  <1>2. /\ t = currentThread /\ faultPc[t] = "Locked" /\ FramesOf(ipt, space[t], fault[t]) = {}
        /\ UNCHANGED <<truth, lock, fault, currentThread, setting>>
        /\ victim' \in [Threads -> Frames]
    BY <1>1 DEF Evict, Chooses, RunsAt, PagingInv, TypesSound, PagingTypeOK
  <1>3. \A k \in Slots : tlb[k].valid => tlb[k].frame # f
    BY <1>1 DEF PagingInv, TLBSound, TLBIsolates, InTLB, Hits
  <1>4. /\ ipt[f].valid /\ Unchosen \in Seq(Frames)
        /\ policy = "FIFO" =>
              /\ Distinct(Unchosen)
              /\ \A g \in Frames : Queued(Unchosen, g) <=> ipt[g].valid /\ g # f
    BY <1>1, ChooseSound
  <1> QED
    BY <1>1, <1>2, <1>3, <1>4, ReplaceSound

LEMMA EvictClearedInv ==
    ASSUME PagingInv, NEW t \in Threads, EvictCleared(t)
    PROVE  PagingInv'
  <1>1. /\ t = currentThread /\ faultPc[t] = "Evicting" /\ ~halted /\ Replace(t, victim[t], fifo)
        /\ victim' = [victim EXCEPT ![t] = 0]
        /\ UNCHANGED <<truth, lock, fault, currentThread, setting>>
        /\ PagingTypeOK /\ IptLockSound
    BY DEF EvictCleared, RunsAt, PagingInv, TypesSound
  <1>2. /\ victim[t] \in Frames /\ fifo \in Seq(Frames)
        /\ victim' \in [Threads -> Frames]
    BY <1>1, Sizes DEF PagingTypeOK
  <1>3. /\ \A f \in Frames : ipt[f].valid
        /\ FramesOf(ipt, space[t], fault[t]) = {}
        /\ \A k \in Slots : tlb[k].valid => tlb[k].frame # victim[t]
    BY <1>1 DEF PagingInv, VictimSound, EmptyFrames
  <1>4. \A u \in Threads : faultPc[u] = "Evicting" => u = t
    BY <1>1, AloneInHandler
  <1>5. policy = "FIFO" =>
           /\ Distinct(fifo)
           /\ \A g \in Frames : Queued(fifo, g) <=> ipt[g].valid /\ g # victim[t]
    BY <1>1, <1>4 DEF PagingInv, FifoSound
  <1> QED
    BY <1>1, <1>2, <1>3, <1>5, ReplaceSound

(* The victim leaves the TLB; its dirty bit is then in the table. *)
LEMMA ClearVictimInv ==
    ASSUME PagingInv, NEW t \in Threads, ClearVictim(t)
    PROVE  PagingInv'
  <1>1. PICK f \in Frames :
           /\ Chooses(t, f) /\ InTLB(f) # {}
           /\ victim' = [victim EXCEPT ![t] = f]
           /\ ipt' = [ipt EXCEPT ![f].dirty = tlb[Least(InTLB(f))].dirty]
           /\ tlb' = [tlb EXCEPT ![Least(InTLB(f))] = Invalid(@)]
    BY DEF ClearVictim
  <1>2. /\ t = currentThread /\ faultPc[t] = "Locked" /\ FramesOf(ipt, space[t], fault[t]) = {}
        /\ ~halted /\ EmptyFrames = {} /\ faultPc' = [faultPc EXCEPT ![t] = "Evicting"]
        /\ fifo' = Unchosen /\ space' = space
        /\ UNCHANGED <<mainMemory, swapFile, truth, nextTLB, pageLocation, swapArray,
                       lockOwner, lockQueue, fault, currentThread, halted, layout,
                       numPages, policy>>
    BY <1>1 DEF ClearVictim, Chooses, RunsAt, memory, lock, setting, space
  <1>3. /\ TypesSound /\ PagingTypeOK /\ IptLockSound /\ TLBSound
        /\ tlb \in [Slots -> TLBEntries] /\ ipt \in [Frames -> Entries]
    BY DEF PagingInv, TypesSound, PagingTypeOK, TLBEntries, Entries
  <1>4. PICK k \in Slots : k = Least(InTLB(f)) /\ tlb[k].valid /\ tlb[k].page = ipt[f].page
    <2>1. InTLB(f) \in SUBSET Nat /\ InTLB(f) # {}
      BY <1>1, Sizes DEF InTLB, Hits
    <2> QED
      BY <2>1, LeastIn DEF InTLB, Hits
  <1>5. /\ tlb' \in [Slots -> TLBEntries] /\ ~tlb'[k].valid
        /\ \A j \in Slots \ {k} : tlb'[j] = tlb[j]
    <2>1. Invalid(tlb[k]) \in TLBEntries /\ ~Invalid(tlb[k]).valid
      BY <1>3, Sizes DEF Invalid, TLBEntries
    <2> QED
      BY <1>1, <1>3, <1>4, <2>1
  <1>6. /\ ipt' \in [Frames -> Entries]
        /\ ipt'[f].dirty = tlb[k].dirty
        /\ \A g \in Frames : /\ ipt'[g].valid = ipt[g].valid
                             /\ ipt'[g].page = ipt[g].page
                             /\ ipt'[g].process = ipt[g].process
                             /\ g # f => ipt'[g].dirty = ipt[g].dirty
    <2>1. tlb[k].dirty \in BOOLEAN
      BY <1>3 DEF TLBEntries
    <2> QED
      BY <1>1, <1>3, <1>4, <2>1 DEF Entries
  <1>7. \A j \in Slots : tlb'[j].valid => j # k /\ tlb[j].valid /\ tlb[j].frame # f
    <2>1. ASSUME NEW j \in Slots, tlb'[j].valid, tlb[j].frame = f PROVE FALSE
      <3>1. j # k /\ tlb[j].valid
        BY <1>5, <2>1
      <3>2. tlb[j].page = ipt[f].page
        BY <1>3, <2>1, <3>1 DEF TLBSound, TLBIsolates
      <3> QED
        BY <1>3, <1>4, <3>1, <3>2 DEF TLBSound
    <2> QED
      BY <1>5, <2>1
  <1>8. \A u \in Threads : faultPc[u] # "Evicting" /\ (faultPc'[u] = "Evicting" <=> u = t)
    BY <1>1, <1>2, <1>3, ChooseSound DEF PagingTypeOK
  <1>9. /\ Unchosen \in Seq(Frames)
        /\ policy = "FIFO" =>
              /\ Distinct(Unchosen)
              /\ \A g \in Frames : Queued(Unchosen, g) <=> ipt[g].valid /\ g # f
    BY <1>1, ChooseSound
  <1>10. TypesSound'
    BY <1>1, <1>2, <1>3, <1>5, <1>6, <1>9 DEF TypesSound, PagingTypeOK,
       TLBEntries, Entries, Contents
  <1>11. IptLockSound' /\ PagesSound' /\ OneFrame' /\ SwapSound' /\ UnwrittenSound'
    BY <1>2, <1>3, <1>6
       DEF PagingInv, IptLockSound, PagesSound, OneFrame, SwapSound, UnwrittenSound, PagingTypeOK
  <1>12. TLBSound'
    <2>1. TLBIsolates'
      BY <1>2, <1>3, <1>5, <1>6, <1>7 DEF TLBSound, TLBIsolates, TLBEntries
    <2>2. \A i, j \in Slots :
             tlb'[i].valid /\ tlb'[j].valid /\ tlb'[i].page = tlb'[j].page => i = j
      BY <1>3, <1>5, <1>7 DEF TLBSound
    <2>3. \A j \in Slots : tlb'[j].valid /\ ipt'[tlb'[j].frame].dirty => tlb'[j].dirty
      <3>1. \A j \in Slots : tlb[j].frame \in Frames
        BY <1>3 DEF TLBEntries
      <3> QED
        BY <1>3, <1>5, <1>6, <1>7, <3>1 DEF TLBSound
    <2> QED
      BY <2>1, <2>2, <2>3 DEF TLBSound
  <1>13. NotInTLB'
    <2>1. Hits(fault[t]) = {}
      BY <1>2 DEF PagingInv, NotInTLB
    <2> QED
      BY <1>2, <1>5, <1>7, <2>1 DEF NotInTLB, Hits
  <1>14. VictimSound'
    <2>1. victim'[t] = f
      BY <1>1, <1>3 DEF PagingTypeOK
    <2>2. EmptyFrames' = {} /\ FramesOf(ipt', space[t], fault[t]) = {}
      BY <1>2, <1>6 DEF EmptyFrames, FramesOf
    <2>3. \A j \in Slots : tlb'[j].valid => tlb'[j].frame # f
      BY <1>5, <1>7
    <2> QED
      BY <1>2, <1>8, <2>1, <2>2, <2>3 DEF VictimSound
  <1>15. FifoSound'
    <2>1. victim'[t] = f
      BY <1>1, <1>3 DEF PagingTypeOK
    <2> QED
      BY <1>2, <1>6, <1>8, <1>9, <2>1 DEF FifoSound
  <1>16. DataSound'
    <2>1. ASSUME OneProcess
          PROVE  tlb[k].frame = f
      <3>1. tlb[k].frame \in Frames
        BY <1>3 DEF TLBEntries
      <3>2. /\ ipt[tlb[k].frame].valid /\ ipt[tlb[k].frame].page = ipt[f].page
            /\ ipt[tlb[k].frame].process = space[t]
        BY <1>2, <1>3, <1>4 DEF TLBSound, TLBIsolates
      <3>3. ipt[f].valid /\ ipt[f].process = space[t]
        BY <1>1, <2>1, ChooseSound DEF PagingInv, PagesSound, OneProcess
      <3> QED
        BY <3>1, <3>2, <3>3 DEF PagingInv, OneFrame
    <2>2. ASSUME OneProcess, NEW g \in Frames, Changed(g)
          PROVE  Changed(g)'
      <3>1. CASE g = f
        <4>1. ipt[f].dirty => tlb[k].dirty
          BY <1>3, <1>4, <2>1, <2>2 DEF TLBSound
        <4>2. \A j \in Slots : tlb[j].valid /\ tlb[j].frame = f => j = k
          BY <1>5, <1>7
        <4> QED
          BY <1>6, <2>2, <3>1, <4>1, <4>2 DEF Changed
      <3>2. CASE g # f
        BY <1>5, <1>6, <2>1, <2>2, <3>2 DEF Changed
      <3> QED
        BY <3>1, <3>2
    <2>3. /\ OneProcess' = OneProcess
          /\ \A q \in Processes, w \in Pages :
                /\ Saved(q, w)' <=> Saved(q, w)
                /\ \A g \in Frames : InFrame(q, w, g)' <=> InFrame(q, w, g)
      BY <1>2, <1>6 DEF OneProcess, Saved, InFrame
    <2> QED
      BY <1>2, <2>2, <2>3 DEF PagingInv, DataSound
  <1> QED
    BY <1>10, <1>11, <1>12, <1>13, <1>14, <1>15, <1>16 DEF PagingInv

LEMMA PagingStutter ==
    ASSUME PagingInv, UNCHANGED pagingVars
    PROVE  PagingInv'
  <1>1. TypesSound' /\ IptLockSound' /\ PagesSound' /\ OneFrame' /\ TLBSound' /\ NotInTLB'
    BY DEF pagingVars, PagingInv, TypesSound, PagingTypeOK, IptLockSound, PagesSound, OneFrame,
       TLBSound, TLBIsolates, NotInTLB, Hits, space, Contents
  <1>2. VictimSound' /\ FifoSound' /\ SwapSound' /\ UnwrittenSound' /\ DataSound'
    BY DEF pagingVars, PagingInv, VictimSound, FifoSound, SwapSound, UnwrittenSound, DataSound,
           EmptyFrames, FramesOf, OneProcess, InFrame, Changed, Saved, space
  <1> QED
    BY <1>1, <1>2 DEF PagingInv

LEMMA PagingAtFirst == PagingInit => PagingInv
  <1> SUFFICES ASSUME PagingInit PROVE PagingInv
    OBVIOUS
  <1>1. /\ << >> \in Seq(Threads) /\ \A t \in Threads : ~Queued(<< >>, t)
        /\ << >> \in Seq(Frames) /\ \A f \in Frames : ~Queued(<< >>, f)
        /\ Distinct(<< >>)
    BY DEF Queued, Distinct
  <1>2. TypesSound
    <2>1. DOMAIN swapFile = {}
      BY DEF PagingInit
    <2>2. /\ ipt \in [Frames -> Entries]
          /\ tlb \in [Slots -> TLBEntries]
      BY Sizes DEF PagingInit, Empty, Entries, TLBEntries
    <2>3. numPages \in [Processes -> SUBSET Pages]
      BY DEF PagingInit, AtExec
    <2>4. truth \in [Processes -> [Pages -> Values \cup {Code, None}]]
      BY DEF PagingInit
    <2>5. mainMemory \in [Frames -> Contents]
      BY DEF PagingInit, Contents
    <2>6. PagingTypeOK
      BY <1>1, <2>1, <2>2, <2>3, <2>5, Sizes DEF PagingInit, PagingTypeOK, Entries, TLBEntries
    <2> QED
      BY <2>1, <2>4, <2>6 DEF TypesSound
  <1>3. IptLockSound /\ NotInTLB /\ VictimSound
    BY <1>1 DEF PagingInit, IptLockSound, NotInTLB, VictimSound
  <1>4. (\A f \in Frames : ~ipt[f].valid) /\ (\A k \in Slots : ~tlb[k].valid)
    BY DEF PagingInit, Empty
  <1>5. PagesSound /\ OneFrame /\ TLBSound
    BY <1>4 DEF PagingInit, PagesSound, OneFrame, TLBSound, TLBIsolates
  <1>6. FifoSound
    BY <1>1, <1>4 DEF PagingInit, FifoSound
  <1>7. SwapSound /\ UnwrittenSound
    BY DEF PagingInit, SwapSound, UnwrittenSound
  <1>8. DataSound
    BY <1>4 DEF PagingInit, DataSound, InFrame, Saved
  <1> QED
    BY <1>2, <1>3, <1>5, <1>6, <1>7, <1>8 DEF PagingInv

LEMMA PagingKept == PagingInv /\ [PagingNext]_pagingVars => PagingInv'
  <1> SUFFICES ASSUME PagingInv, [PagingNext]_pagingVars PROVE PagingInv'
    OBVIOUS
  <1>1. ASSUME NEW t \in Threads, Switch(t) \/ MakeNewPT(t) PROVE PagingInv'
    BY <1>1, SwitchInv, MakeNewPTInv
  <1>2. ASSUME NEW t \in Threads, Handler(t) PROVE PagingInv'
    BY <1>2, FindEntryInv, UseEmptyEntryInv, EvictInv, ClearVictimInv, EvictClearedInv,
       ReturnInv DEF Handler
  <1>3. ASSUME NEW t \in Threads, NEW v \in Pages,
               PageFault(t, v) \/ \E y \in Values : Write(t, v, y)
        PROVE  PagingInv'
    BY <1>3, PageFaultInv, WriteInv
  <1>4. CASE UNCHANGED pagingVars
    BY <1>4, PagingStutter
  <1> QED
    BY <1>1, <1>2, <1>3, <1>4 DEF PagingNext

-----------------------------------------------------------------------------
(* Theorems. *)

LEMMA PagingAlways == PagingSpec => []PagingInv
  BY PagingAtFirst, PagingKept, PTL DEF PagingSpec

(* No process reaches the memory of another through the TLB: the frame of a  *)
(* valid entry holds that page of the running thread's process, although the *)
(* TLB has no process numbers and a thread is preempted in the middle of an  *)
(* eviction.                                                                 *)
THEOREM Isolation == PagingSpec => []TLBIsolates
  <1>1. PagingInv => TLBIsolates
    BY DEF PagingInv, TLBSound
  <1> QED
    BY <1>1, PagingAlways, PTL

(* A page is loaded into one frame, and has a place in the swap file to      *)
(* itself.                                                                   *)
THEOREM SingleCopy == PagingSpec => []OneCopy
  <1>1. PagingInv => OneCopy
    BY DEF PagingInv, TypesSound, OneFrame, SwapSound, OneCopy
  <1> QED
    BY <1>1, PagingAlways, PTL

(* Threads of one process read back what they wrote last, through every      *)
(* eviction, reload and switch.                                              *)
THEOREM WritesSurvive == PagingSpec => []WritesKept
  <1>1. PagingInv => WritesKept
    <2> SUFFICES ASSUME PagingInv, OneProcess, NEW v \in Pages, Hits(v) # {},
                        truth[space[currentThread]][v] # None
                 PROVE  mainMemory[tlb[Least(Hits(v))].frame]
                            = truth[space[currentThread]][v]
      BY DEF WritesKept, Coherent
    <2>1. Hits(v) \in SUBSET Nat
      BY Sizes DEF Hits
    <2>2. PICK k \in Slots : k = Least(Hits(v)) /\ tlb[k].valid /\ tlb[k].page = v
      BY <2>1, LeastIn DEF Hits
    <2>3. /\ tlb[k].frame \in Frames /\ space[currentThread] \in Processes
          /\ InFrame(space[currentThread], v, tlb[k].frame)
      BY <2>2, SpaceTyped DEF PagingInv, TypesSound, PagingTypeOK, TLBSound, TLBIsolates, InFrame
    <2> QED
      BY <2>2, <2>3, ZenonT(60) DEF PagingInv, DataSound
  <1> QED
    BY <1>1, PagingAlways, PTL

=============================================================================
