------------------------------- MODULE Devices -------------------------------
(***************************************************************************)
(* The simulated hardware and the threads that use it: the interrupt       *)
(* simulation (machine/interrupt.cc), the timer, the disk and the console  *)
(* (machine/timer.cc, disk.cc, console.cc), the synchronous disk           *)
(* (filesys/synchdisk.cc) and the console test (userprog/progtest.cc).     *)
(*                                                                         *)
(* There is one processor, and time passes only when a thread enables      *)
(* interrupts (OneTick) or when no thread is ready (Idle).  A step of a    *)
(* thread is what it does from one OneTick or Sleep to the next; locks and *)
(* semaphores are those of threads/synch.cc with interrupts disabled.      *)
(*                                                                         *)
(* Times are relative: what the code does with them depends on totalTicks  *)
(* modulo a revolution of the disk, and on the age of the track buffer up  *)
(* to a revolution.  The 64-bit totalTicks is cut to an int by the disk:   *)
(* what happens after 2^31 ticks is left out.                              *)
(***************************************************************************)
EXTENDS Integers, Queues, FiniteSetsExt

CONSTANTS DiskThreads,      \* use the disk
          EchoThreads,      \* run ConsoleTest: at most one thread
          Workloads,        \* which of them a start of Nachos may have
          RequestSectors,   \* the sectors that are used
          Values, None,
          Keys, Quit,       \* what is typed; Quit ends ConsoleTest
          SystemTick, RotationTime, SeekTime, SectorsPerTrack, ConsoleTime,
          TimerIntervals    \* between two interrupts of the timer

Threads == DiskThreads \cup EchoThreads

Revolution == SectorsPerTrack * RotationTime

Calls == [sector : RequestSectors, writing : BOOLEAN, data : Values]

DevicesAssumption ==
    /\ IsFiniteSet(Threads)
    /\ DiskThreads \cap EchoThreads = {} /\ Cardinality(EchoThreads) <= 1
    /\ Workloads \subseteq SUBSET Threads /\ {} \notin Workloads
    /\ RequestSectors \subseteq Nat /\ IsFiniteSet(RequestSectors) /\ Quit \in Keys
    /\ None \notin Threads \cup Keys \cup Calls
    /\ None \notin {"disk", "readAvail", "writeDone", "lock"}
    /\ {SystemTick, RotationTime, SectorsPerTrack, ConsoleTime} \subseteq Nat \ {0}
    /\ SeekTime \in Nat /\ TimerIntervals \subseteq Nat \ {0}

ASSUME DevicesAssumption

VARIABLES
    clock,          \* the time, the age of the track buffer and the list of
                    \* pending interrupts, with the time left to each
    mode,           \* what the processor is about to do
    yieldOnReturn,
    currentThread, readyList,
    pc,             \* per thread: where it goes on
    asleep,         \* per thread: the semaphore or lock it sleeps on
    semaphore,      \* per semaphore, its value and queue
    lock,           \* the owner and the queue of the lock of the SynchDisk
    disk,           \* active, lastSector and the contents
    call,           \* per thread, the sector it reads or writes
    console,        \* putBusy and incoming
    unechoed        \* the characters that were typed and not yet echoed

vars == <<clock, mode, yieldOnReturn, currentThread, readyList, pc, asleep,
          semaphore, lock, disk, call, console, unechoed>>

processor == <<currentThread, readyList>>
devices   == <<disk, call, console, unechoed>>

-----------------------------------------------------------------------------
(* Time and pending interrupts. *)

\* In front of the first one that is later, or at the end.
SortedInsert(pending, e) ==
    LET n  == Len(pending)
        at == Min({k \in 1..(n + 1) : k <= n => e.when < pending[k].when})
    IN  SubSeq(pending, 1, at - 1) \o <<e>> \o SubSeq(pending, at, n)

SortedRemove(pending) == Tail(pending)

Schedule(c, type, fromNow) ==
    [c EXCEPT !.pending = SortedInsert(@, [type |-> type, when |-> fromNow])]

Advance(c, d) ==
    [now |-> (c.now + d) % Revolution,
     bufferAge |-> Min({c.bufferAge + d, Revolution}),
     pending |-> [i \in DOMAIN c.pending |-> [c.pending[i] EXCEPT !.when = @ - d]]]

\* SetLevel(IntOn) at the end of a step, with OneTick's progress of time.
Enable(c) == clock' = Advance(c, SystemTick) /\ mode' = "Tick"

-----------------------------------------------------------------------------
(* Threads: what they share with threads/synch.cc. *)

Running(t) == mode = "Running" /\ t = currentThread

\* t does P on s, with c the clock, and goes on at l.
P(t, s, c, l) ==
    /\ pc' = [pc EXCEPT ![t] = l]
    /\ IF semaphore[s].value > 0
       THEN /\ semaphore' = [semaphore EXCEPT ![s].value = @ - 1]
            /\ asleep' = [asleep EXCEPT ![t] = None]
            /\ Enable(c)
       ELSE /\ semaphore' = [semaphore EXCEPT ![s].queue = Append(@, t)]
            /\ asleep' = [asleep EXCEPT ![t] = s]
            /\ clock' = c /\ mode' = "Sleep"

(* Variant of V: a thread that waits takes the V, and the value stays. *)
VToWaiter(s) ==
    LET q == semaphore[s].queue IN
    /\ semaphore' = [semaphore EXCEPT ![s] =
          IF q = << >> THEN [@ EXCEPT !.value = @ + 1] ELSE [@ EXCEPT !.queue = Tail(q)]]
    /\ readyList' = readyList \o IF q = << >> THEN q ELSE <<Head(q)>>

V(s) ==
    LET q == semaphore[s].queue IN
    /\ semaphore' = [semaphore EXCEPT ![s] =
          [value |-> @.value + 1, queue |-> IF q = << >> THEN q ELSE Tail(q)]]
    /\ readyList' = readyList \o IF q = << >> THEN q ELSE <<Head(q)>>

\* Sleep: the next ready thread, or the idle machine.
Sleep ==
    /\ mode = "Sleep"
    /\ IF readyList = << >>
       THEN mode' = "Idle" /\ UNCHANGED processor
       ELSE /\ currentThread' = Head(readyList) /\ readyList' = Tail(readyList)
            /\ mode' = "Switched"
    /\ UNCHANGED <<clock, yieldOnReturn, pc, asleep, semaphore, lock, devices>>

\* The thread that runs now tries its P again, or leaves Acquire, Yield or
\* ThreadRoot.
Resume ==
    LET t == currentThread IN
    /\ mode = "Switched"
    /\ IF asleep[t] \in DOMAIN semaphore
       THEN P(t, asleep[t], clock, pc[t])
       ELSE /\ asleep' = [asleep EXCEPT ![t] = None]
            /\ Enable(clock)
            /\ UNCHANGED <<pc, semaphore>>
    /\ UNCHANGED <<yieldOnReturn, processor, lock, devices>>

-----------------------------------------------------------------------------
(* The interrupt simulation. *)

IsDue(c) == c.pending # << >> /\ Head(c.pending).when <= 0

\* Only the timer is left: an idle machine does not call it.
OnlyTimer(c) == Len(c.pending) = 1 /\ Head(c.pending).type = "Timer"

\* The handler is called in SystemMode, also when the machine was idle.
TimerInterruptHandler == yieldOnReturn' = TRUE

TimerExpired(c) ==
    /\ \E i \in TimerIntervals : clock' = Schedule(c, "Timer", i)
    /\ TimerInterruptHandler
    /\ UNCHANGED <<readyList, semaphore, devices>>

(* Variant of DiskDone: the disk stays active. *)
DiskDoneActive(c) ==
    /\ V("disk")
    /\ clock' = c
    /\ UNCHANGED <<yieldOnReturn, devices>>

DiskDone(c) ==
    /\ disk' = [disk EXCEPT !.active = FALSE]
    /\ V("disk")
    /\ clock' = c
    /\ UNCHANGED <<yieldOnReturn, call, console, unechoed>>

\* A character is read only when the last one was fetched.
MayRead == console.incoming = None

CheckCharAvail(c) ==
    /\ clock' = Schedule(c, "ConsoleRead", ConsoleTime)
    /\ \/ UNCHANGED <<console, unechoed, semaphore, readyList>>
       \/ /\ MayRead
          /\ \E k \in Keys : /\ console' = [console EXCEPT !.incoming = k]
                             /\ unechoed' = Append(unechoed, k)
          /\ V("readAvail")
    /\ UNCHANGED <<yieldOnReturn, disk, call>>

WriteDone(c) ==
    /\ console' = [console EXCEPT !.putBusy = FALSE]
    /\ V("writeDone")
    /\ clock' = c
    /\ UNCHANGED <<yieldOnReturn, disk, call, unechoed>>

\* The handler of the first of the pending interrupts.
Fire(c) ==
    LET rest == [c EXCEPT !.pending = SortedRemove(@)] IN
    /\ \/ Head(c.pending).type = "Timer"        /\ TimerExpired(rest)
       \/ Head(c.pending).type = "Disk"         /\ DiskDone(rest)
       \/ Head(c.pending).type = "ConsoleRead"  /\ CheckCharAvail(rest)
       \/ Head(c.pending).type = "ConsoleWrite" /\ WriteDone(rest)
    /\ UNCHANGED <<currentThread, pc, asleep, lock>>

\* OneTick calls the handlers that are due ...
Interrupt == mode = "Tick" /\ IsDue(clock) /\ Fire(clock) /\ UNCHANGED mode

\* ... and lets the thread go on, or yields.
AfterTick ==
    /\ mode = "Tick"
    /\ ~IsDue(clock)
    /\ yieldOnReturn' = FALSE
    /\ IF ~yieldOnReturn
       THEN mode' = "Running" /\ UNCHANGED <<clock, processor>>
       ELSE IF readyList = << >>
       THEN Enable(clock) /\ UNCHANGED processor
       ELSE /\ readyList' = Append(Tail(readyList), currentThread)
            /\ currentThread' = Head(readyList)
            /\ mode' = "Switched"
            /\ UNCHANGED clock
    /\ UNCHANGED <<pc, asleep, semaphore, lock, devices>>

(* Variant of NothingToDo: the timer first in the list is taken for the only one. *)
NothingBehindTimer(c) == \A i \in DOMAIN c.pending : i = 1 => c.pending[i].type = "Timer"

\* Nobody is ready: the clock jumps to the first interrupt.
NothingToDo(c) == c.pending = << >> \/ OnlyTimer(c)

Idle ==
    LET c == Advance(clock, Max({0, Head(clock.pending).when})) IN
    /\ mode = "Idle"
    /\ ~NothingToDo(clock)
    /\ Fire(c)
    /\ mode' = "StillIdle"

StillIdle ==
    /\ mode = "StillIdle"
    /\ IsDue(clock) /\ ~OnlyTimer(clock)
    /\ Fire(clock)
    /\ UNCHANGED mode

LeaveIdle ==
    /\ mode = "StillIdle"
    /\ ~IsDue(clock) \/ OnlyTimer(clock)
    /\ yieldOnReturn' = FALSE
    /\ mode' = "Sleep"
    /\ UNCHANGED <<clock, processor, pc, asleep, semaphore, lock, devices>>

Halt ==
    /\ mode = "Idle"
    /\ NothingToDo(clock)
    /\ mode' = "Halted"
    /\ UNCHANGED <<clock, yieldOnReturn, processor, pc, asleep, semaphore, lock, devices>>

-----------------------------------------------------------------------------
(* The disk. *)

Track(s) == s \div SectorsPerTrack

Distance(i, j) == IF i < j THEN j - i ELSE i - j

\* TimeToSeek: to the track of s, and from there to the next sector boundary.
Seek(s) == Distance(Track(s), Track(disk.lastSector)) * SeekTime

Rotation(s) == (-(clock.now + Seek(s))) % RotationTime

ModuloDiff(to, from) == (to - from) % SectorsPerTrack

TimeAfter(s) == clock.now + Seek(s) + Rotation(s)

\* The sector has passed the head since the track buffer began to be filled.
InBuffer(s) ==
    LET age   == clock.bufferAge + Rotation(s)
        start == (TimeAfter(s) - age) \div RotationTime
    IN Seek(s) = 0 /\ age \div RotationTime > ModuloDiff(s, start)

(* Variant of ComputeLatency: the sector is counted from where the seek began. *)
LatencyBeforeSeek(s, writing) ==
    IF ~writing /\ InBuffer(s) THEN RotationTime
    ELSE Seek(s) + Rotation(s)
            + ModuloDiff(s, clock.now \div RotationTime) * RotationTime + RotationTime

ComputeLatency(s, writing) ==
    IF ~writing /\ InBuffer(s) THEN RotationTime
    ELSE Seek(s) + Rotation(s)
            + ModuloDiff(s, TimeAfter(s) \div RotationTime) * RotationTime + RotationTime

UpdateLast(c, s) ==
    IF Seek(s) = 0 THEN c ELSE [c EXCEPT !.bufferAge = -(Seek(s) + Rotation(s))]

(* SynchDisk: ReadSector and WriteSector. *)

StartCall(t) ==
    /\ Running(t) /\ pc[t] = "Idle" /\ t \in DiskThreads
    /\ \E s \in RequestSectors, w \in BOOLEAN, v \in Values :
          call' = [call EXCEPT ![t] = [sector |-> s, writing |-> w, data |-> v]]
    /\ pc' = [pc EXCEPT ![t] = "Request"]
    /\ IF lock.owner = None
       THEN /\ lock' = [lock EXCEPT !.owner = t]
            /\ Enable(clock)
            /\ UNCHANGED asleep
       ELSE /\ lock' = [lock EXCEPT !.queue = Append(@, t)]
            /\ asleep' = [asleep EXCEPT ![t] = "lock"]
            /\ mode' = "Sleep" /\ UNCHANGED clock
    /\ UNCHANGED <<yieldOnReturn, processor, semaphore, disk, console, unechoed>>

\* ReadRequest or WriteRequest, and P.
Request(t) ==
    LET r == call[t] IN
    /\ Running(t) /\ pc[t] = "Request"
    /\ disk' = [active |-> TRUE, lastSector |-> r.sector,
                store |-> IF r.writing THEN [disk.store EXCEPT ![r.sector] = r.data]
                          ELSE disk.store]
    /\ call' = IF r.writing THEN call
               ELSE [call EXCEPT ![t].data = disk.store[r.sector]]
    /\ P(t, "disk", Schedule(UpdateLast(clock, r.sector), "Disk",
                             ComputeLatency(r.sector, r.writing)), "Release")
    /\ UNCHANGED <<yieldOnReturn, processor, lock, console, unechoed>>

Release(t) ==
    /\ Running(t) /\ pc[t] = "Release"
    /\ IF lock.queue = << >>
       THEN lock' = [lock EXCEPT !.owner = None] /\ UNCHANGED readyList
       ELSE /\ lock' = [owner |-> Head(lock.queue), queue |-> Tail(lock.queue)]
            /\ readyList' = Append(readyList, Head(lock.queue))
    /\ pc' = [pc EXCEPT ![t] = "Idle"]
    /\ call' = [call EXCEPT ![t] = None]
    /\ Enable(clock)
    /\ UNCHANGED <<yieldOnReturn, currentThread, asleep, semaphore, disk, console, unechoed>>

(* ConsoleTest. *)

AwaitChar(t) ==
    /\ Running(t) /\ pc[t] = "Idle" /\ t \in EchoThreads
    /\ P(t, "readAvail", clock, "Echo")
    /\ UNCHANGED <<yieldOnReturn, processor, lock, devices>>

GetChar(con) == [con EXCEPT !.incoming = None]
PutChar(con) == [con EXCEPT !.putBusy = TRUE]

\* GetChar, PutChar and the P that waits for the display.
Echo(t) ==
    /\ Running(t) /\ pc[t] = "Echo"
    /\ console' = PutChar(GetChar(console))
    /\ unechoed' = Tail(unechoed)
    /\ P(t, "writeDone", Schedule(clock, "ConsoleWrite", ConsoleTime),
         IF console.incoming = Quit THEN "Return" ELSE "Idle")
    /\ UNCHANGED <<yieldOnReturn, processor, lock, disk, call>>

\* A thread returns from its procedure: Finish.
Finish(t) ==
    /\ Running(t)
    /\ \/ pc[t] = "Return"
       \/ pc[t] = "Idle" /\ t \in DiskThreads
    /\ pc' = [pc EXCEPT ![t] = "Finished"]
    /\ mode' = "Sleep"
    /\ UNCHANGED <<clock, yieldOnReturn, processor, asleep, semaphore, lock, devices>>

-----------------------------------------------------------------------------
\* With -rs there is a timer, with -c the console and ConsoleTest.
Boot(timer, threads) ==
    LET at0 == [now |-> 0, bufferAge |-> 0, pending |-> << >>]
        c   == IF threads \cap EchoThreads = {} THEN at0 ELSE Schedule(at0, "ConsoleRead", ConsoleTime)
    IN IF timer THEN {Schedule(c, "Timer", i) : i \in TimerIntervals} ELSE {c}

NewDisk(v) ==
    [active |-> FALSE, lastSector |-> 0, store |-> [s \in RequestSectors |-> v]]

NewConsole == [putBusy |-> FALSE, incoming |-> None]

\* The threads that this start of Nachos has.
StartedWith(timer, threads) ==
    /\ clock \in Boot(timer, threads)
    /\ currentThread \in threads
    /\ readyList \in [1..(Cardinality(threads) - 1) -> threads]
    /\ {readyList[i] : i \in DOMAIN readyList} = threads \ {currentThread}
    /\ pc = [t \in Threads |-> IF t \in threads THEN "Idle" ELSE "Finished"]

Init ==
    /\ \E timer \in BOOLEAN, threads \in Workloads : StartedWith(timer, threads)
    /\ mode = "Running"
    /\ yieldOnReturn = FALSE
    /\ asleep = [t \in Threads |-> None]
    /\ semaphore = [s \in {"disk", "readAvail", "writeDone"} |-> [value |-> 0, queue |-> << >>]]
    /\ lock = [owner |-> None, queue |-> << >>]
    /\ \E v \in Values : disk = NewDisk(v)
    /\ call = [t \in Threads |-> None]
    /\ console = NewConsole
    /\ unechoed = << >>

ThreadStep(t) ==
    \/ StartCall(t) \/ Request(t) \/ Release(t)
    \/ AwaitChar(t) \/ Echo(t) \/ Finish(t)

Next ==
    \/ Sleep \/ Resume \/ Interrupt \/ AfterTick
    \/ Idle \/ StillIdle \/ LeaveIdle \/ Halt
    \/ \E t \in Threads : ThreadStep(t)

\* The simulator is one sequential program: it goes on as long as it can.
Spec == Init /\ [][Next]_vars /\ WF_vars(Next)
-----------------------------------------------------------------------------
Pending(type) == {i \in DOMAIN clock.pending : clock.pending[i].type = type}

\* The shape of the variables.
TypeOK ==
    /\ clock.now \in 0..(Revolution - 1)
    /\ \A i \in DOMAIN clock.pending : clock.pending[i].when \in Int
    /\ mode \in {"Running", "Tick", "Sleep", "Switched", "Idle", "StillIdle", "Halted"}
    /\ yieldOnReturn \in BOOLEAN
    /\ \A s \in DOMAIN semaphore : semaphore[s].value \in 0..1
    /\ disk.active \in BOOLEAN /\ disk.lastSector \in RequestSectors \cup {0}
    /\ disk.store \in [RequestSectors -> Values]
    /\ console.incoming \in Keys \cup {None}

\* Besides the types: a device that is busy has exactly one interrupt to come,
\* and nobody asks it for more: what the ASSERTs of ReadRequest, WriteRequest
\* and PutChar say.  While a request is on its way, one thread has the lock and
\* waits.
DevicesSound ==
    /\ TypeOK
    /\ Cardinality(Pending("Disk")) = IF disk.active THEN 1 ELSE 0
    /\ Cardinality(Pending("ConsoleWrite")) = IF console.putBusy THEN 1 ELSE 0
    /\ disk.active => \E t \in DiskThreads : lock.owner = t /\ asleep[t] = "disk"
    /\ \A t \in Threads : Running(t) =>
          /\ pc[t] = "Request" => ~disk.active /\ lock.owner = t
          /\ pc[t] = "Echo" => ~console.putBusy /\ console.incoming # None

\* A request that is not served from the track buffer ends when the sector
\* has just passed the head, and every request ends within the longest seek,
\* a revolution and the sector after it.
PassesTheHead ==
    \A i \in Pending("Disk") :
        LET when == clock.pending[i].when
            end  == clock.now + when
        IN /\ when > 0 => \/ when <= RotationTime
                          \/ end % Revolution = ((disk.lastSector + 1) * RotationTime) % Revolution
           /\ when < Max({Seek(s) : s \in RequestSectors \cup {0}})
                       + Revolution + RotationTime

\* What was typed and not yet echoed is what the echoing thread and the
\* console's one place for it hold: no character is lost, doubled or reordered.
CharactersKept ==
    unechoed = IF console.incoming = None THEN << >> ELSE <<console.incoming>>

\* The idle machine stops only when every thread has finished: nobody still
\* waits for the disk or the display.
HaltsAtTheEnd ==
    mode = "Halted" => \A t \in Threads : pc[t] = "Finished"

\* Neither a character nor a thread is forgotten.
NothingForgotten == CharactersKept /\ HaltsAtTheEnd

-----------------------------------------------------------------------------
\* A call as SynchDisk's caller sees it: done once the disk was asked.
CallsSeen ==
    [t \in DiskThreads |->
        IF call[t] = None THEN None
        ELSE [sector |-> call[t].sector, writing |-> call[t].writing,
              data |-> call[t].data, done |-> pc[t] # "Request"]]

Abstract == INSTANCE AtomicDisk WITH
    Threads <- DiskThreads,
    Sectors <- RequestSectors,
    store   <- disk.store,
    call    <- CallsSeen

ASSUME NoneIsNoCall == None \notin Abstract!Calls

\* ReadSector and WriteSector are atomic, and every call of them returns.
ImplementsDisk == Abstract!Spec
==============================================================================
