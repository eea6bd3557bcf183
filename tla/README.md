# Nachos kernel and lock service: a TLA+ development

The repository is a Nachos instructional operating system with four class
projects on top of it: locks and condition variables (`threads/`), system calls
and processes (`userprog/`), demand paging (`userprog/` built by `vm/`), and a
distributed lock service with several servers (`network/`). Paths below are
relative to `src/nachos-csci402/code/`. This directory holds models of the
kernel, its devices, the simulated processor, the lock service and the parking
simulation that runs on the kernel's threads, the TLC runs that check them, and
proofs.

## 1. Inventory

| component | state | operations | talks to | hard behaviours |
|---|---|---|---|---|
| threads and scheduler (`threads/thread.cc`, `scheduler.cc`) | ready list, `currentThread`, `threadToBeDestroyed`, thread status | Fork, Yield, Sleep, Finish, ReadyToRun, FindNextToRun, Run | every other part | preemption, a thread being woken while it goes to sleep, deletion of a thread that still runs on its stack |
| semaphores, locks, conditions (`threads/synch.cc`) | value, free flag, owner, queues, the condition's lock | P, V, Acquire, Release, Wait, Signal, Broadcast | scheduler | hand-over of a lock to a sleeping thread, barging, lost wake-ups, mismatched locks |
| mailboxes and post office (`threads/synchlist.cc`, `network/post.cc`, `machine/network.cc`) | one list per mailbox, one packet buffer, the socket, `sendLock`, two semaphores | Put, Get, Send, Receive, PostalDelivery, device interrupts | locks, network device, servers | interrupts against threads, order of messages, a full buffer, lost packets |
| lock servers (`network/nettest.cc`) | per machine: tables of locks, conditions, monitor variables; requests in progress | MessageHandler (relay, ask, count replies), Server (13 requests) | post office, other servers, clients | concurrent creates, replies out of order, owners that answer twice, a server blocked in the middle of a request |
| clients (`userprog/exception.cc`, NETWORK branches) | the mailbox of each thread | one request, one reply per system call | a random server | answers of earlier calls |
| lock and condition system calls (`userprog/exception.cc`) | tables with deferred deletion flags, owner address space | Create, Destroy, Acquire, Release, Wait, Signal, Broadcast | locks and conditions | deletion of an object in use |
| processes (`userprog/exception.cc`) | process table, thread counts, counters of processes | Fork, Exec, Exit, Halt | locks, address spaces | the last exit halts the machine |
| paging (`userprog/exception.cc`, `userprog/addrspace.cc`, `threads/system.cc`) | TLB, inverted page table, page locations, swap map and file | page fault, eviction, context switch, MakeNewPT | processes, file system | copies of one page's state in four places, full memory and swap |
| file system and open files (`filesys/`, `userprog/bitmap.cc`, `userprog/addrspace.cc`) | directory, headers and free map on disk; table of `OpenFile*` per process | Create, Open, Remove, Read, Write, Close | synchronous disk | a stop between two sector writes, a full disk, partial sectors |
| interrupts and devices (`machine/`, `filesys/synchdisk.cc`) | pending interrupts, level, clock; disk, console, timer | SetLevel, OneTick, Schedule, CheckIfDue, Idle, requests | everything | an interrupt before the P it answers, rotation of the disk, preemption requests, the decision to stop |
| MIPS simulator (`machine/mipssim.cc`, `machine.cc`) | registers, delayed load, program counters, memory | OneInstruction, DelayedLoad, RaiseException, Mult | page faults, system calls | restart of an instruction, delay slots, word arithmetic |
| parking simulation (`threads/p2.cc`, `p2functions.h`, `globaldata.h`) | counters, status registers, queues | drivers, visitors, valets, ticket takers, manager | locks and conditions | sleeping workers, lost wake-ups, one shared place for keys, tokens and tips |

What makes each correct: threads are in exactly one place; a lock has one
holder; no V and no signal is lost; a message sent to a mailbox comes out of it
once and in order; a call gets exactly one answer and every call is answered; a
name means one object; a condition in use is not deleted; the machine halts
exactly when the last process ended; a page's latest contents are in exactly one
place; a name in the directory has sectors of its own and its contents stay; a
disk request is atomic and returns; a program cannot see delayed loads or page
faults; the counters of the parking simulation agree with its threads and
nothing is handed over before its price is paid. `PROJECT.json` lists the
components with their status and the hazards at their source lines.

## 2. Modules

How they stand on each other: `Synch` justifies taking lock, semaphore and
condition calls as single steps in every other module (`Monitor` is what they
then are); `PostOffice` justifies the FIFO mailboxes of `LockServers`;
`Devices` shows that a disk sector is read and written atomically, which
`FileSys` assumes; `Mips` shows that a page fault may come before any
instruction, which lets `Paging` treat a read or a write as one step.

Conventions that hold for all: a call that a test of the code refuses changes
nothing and is no step; memory that was freed or never initialized is any of the
values it may hold; a failed ASSERT or a dereference of NULL ends the program
(`up`, `halted`).

### Synch, Monitor, SynchProofs

`Synch` models `threads/thread.cc`, `threads/scheduler.cc` and
`threads/synch.cc`. There is one processor and the routines of `synch.cc` run
with interrupts off, so a call is one step up to the point where it sleeps; the
rest of the call is the step that follows when the scheduler runs the thread
again (`pc`, `on` and `lk` hold where the thread is in its call). Between two
calls interrupts are on: any thread may be made to yield, and a device's
handler may V any semaphore, also while the machine idles inside `Sleep`.
`Run(next, ...)` is the tail shared by all switches, with the deletion of
`threadToBeDestroyed` by the thread that resumes. Callers are unrestricted: any
call with any lock in any order, which is what the tests in
`threads/threadtest.cc` exercise. `held` is a history variable: what the callers
may believe they hold.

`Monitor` is the abstract specification: a lock has at most one holder; Wait
gives the lock up and joins the waiters in one step; Signal removes one waiter,
which must enter again like anybody else. `MonitorSpec` states that `Synch`
implements it.

### LockServers, LockServersProofs, LockServersCalls

`LockServers` models `network/nettest.cc` and the client calls. Per server
machine there are two threads, `Server` (mailbox 0) and `MessageHandler`
(mailbox 1). A step is one turn of a thread's loop: take a message, change the
tables, post messages. The one place where a turn blocks in the middle, the
`Receive(9)` of a WAIT whose lock is on another server, is split in two
(`Wait`, `WaitResumes`, with `blocked`). Actions carry the names of the
requests: `CreateLock` for "CL", `Acquire` for "AQ", and so on; `NotHere` is the
common path of an object that is not in the table: ask the other servers, or,
when they have been asked, answer with an error.

What the model decides, and why:

- *Mailboxes are lossless FIFO queues.* Each machine has one datagram socket and
  one postal worker, and the reliability is 1 unless `-l` is given
  (`threads/system.cc`), so messages reach a mailbox in the order of sending.
  The several messages of one turn are posted together.
- *Clients keep to the write-up.* A program waits, signals and broadcasts only
  with a lock it holds (`WRITEUP:22`), and uses indexes inside the tables; the
  server reads outside its arrays for others, which has no defined outcome.
- *A crash* (`up[s] = FALSE`) is a dereference of NULL or a failed ASSERT: the
  server process ends, and nothing in its mailboxes is served any more.
- *Indexes.* `index = 100 * machine + number` is kept with `Stride` in the
  place of 100.
- *Programs.* Which calls the clients make, with which names, comes from
  `Programs`: the initial state picks one record, as a run of the repository's
  test programs does (`createlock_test`, `wait_test`, ...). `maxCalls` bounds the
  calls of all clients together.

### PostOffice, Mailboxes, PostOfficeProofs

`PostOffice` models `network/post.cc`, the lists of `threads/synchlist.cc` in
which it keeps the mail, and the device of `machine/network.cc`. Per machine
there is one postal worker and any number of user threads that call Send and
Receive; two interrupts run between their steps, `SendDone` (the last packet is
on the wire) and `CheckPktAvail` (the poll of the socket, which leaves a packet
alone while one is buffered). A step runs from one call on a lock, semaphore or
condition to the next: that those calls are atomic, hand the lock over in FIFO
order and lose no V is what `Synch` shows, so a lock is here the sequence of its
owner and the threads behind it. `lossy` is `chanceToWork < 1`; a lost packet
still schedules the interrupt. The condition's waiters are a set: which of them
a Signal wakes makes no difference to any property. Mailbox numbers are valid
and only the receiver's mailbox is kept in the header.

`Mailboxes` is the abstract specification: one FIFO queue per mailbox, from
which each message leaves once. The refinement reads the queue as the list,
then what the worker carries, then the buffer, then the socket. `LockServers`
stands on it, on the lossless side.

`Queues` and `QueueTheorems` hold what the models and the proofs say about a
kernel queue: who is in it, once, and what Append and Remove change.

### Syscalls, UserThreads, ExceptionProofs

The single-machine branches of the lock and condition system calls. A slot of
`lockTable` or `conditionTable` holds the LockX or ConditionX and the kernel
object inside it; slots are never used again. `synch.cc` turns interrupts off
and on, and the places where it turns them on are where another thread can run:
a step goes from the effect of one kernel operation to the effect of the next,
and `pc` says where a thread is (`"Acquiring"`, `"Waiting"`, after a `Signal`
and before its test for an empty queue, ...). `holds` is history: which locks
the calls told a thread it has. A deleted object is freed memory: its owner
reads as it was left or as anyone, and deleting twice may end the program.

### Processes

Fork, Exec, Exit and Halt. `threadCount` is the process table's count,
`numProcesses` and `numProcessesExited` (which starts at -1, for the process of
the command line) decide about halting. Steps go from one lock operation to the
next under `forkLock`, `execLock` and the lock of a process. The first process
is not in the table and its ID is read from memory nobody set: `FirstIDs` are
the values it may have (0, or one outside the tables, by which any call that
uses it dies). Its Fork dereferences NULL. `MaxProcesses` and `MaxThreads` bound
what programs make.

### Paging, UserThreads, ExceptionProofs

Page faults, eviction, the TLB and switches. A page's content is one value and
`truth` is what its process wrote last. The handler's steps are `PageFault`
(ask for `iptLock`), `FindEntry`, `UseEmptyEntry`, `Evict`, or `ClearVictim` and
`EvictCleared` when the victim is in the TLB, and `Return`. Inside the handler
interrupts come on only after the TLB entry was cleared, so that is where a
switch can fall. `Switch` saves the dirty bits and empties the TLB.
`MakeNewPT` gives a process its stack pages. `policy` is FIFO (what the method
named LRU does) or RAND. The FIFO queue has the loaded frames in order, and is
left out under RAND, which does not read it. An invalid TLB entry
is kept in a normal form as nothing but its page number is read. The page tables
of address spaces are only written and are left out, as is a write to
`table[-1]` that the TLB's bookkeeping makes when a replaced entry's page is in
no frame.

### FileSys, Files

`FileSys` has the disk as sectors, each a header or data, and the free map and
directory as they are on disk. An operation computes the sectors it will write
(`pending`) and `WriteSector` writes them one by one in the code's order:
header, directory, free map for Create; free map, directory for Remove.
`Reboot` may come between any two writes and starts on the disk as it is.
`Straddling` and `SecondSector` say how the directory's entries lie on its two
sectors, since one write may leave half of an entry. The process's file table
gives out ids in the order of its bit map. Callers take turns: `filesys.cc` says
that the code assumes no concurrent access; and a file is removed while nobody
has it open.

`Files` is the abstract specification: named files of a fixed length with
handles that read and write the next bytes, and a Create that fails exactly when
the name exists, the directory is full or the space is not there.

### Devices, AtomicDisk

`Devices` is the interrupt simulation with relative times: a sorted list of
pending interrupts, the clock modulo a revolution of the disk, and the age of
the track buffer. `mode` is what the processor does next: run a thread, take
the interrupts that are due after a tick (`Interrupt`, `AfterTick` with
`yieldOnReturn`), go to sleep, or idle. Interrupt handlers are part of
`Interrupt`. On the disk stand `SynchDisk::ReadSector` and `WriteSector`, on the
console `ConsoleTest` with its two semaphores. Left out: `totalTicks` beyond an
int, and timer intervals below `SystemTick`. The disk's test of
`PerformanceTest` creates its file with size 0 and writes nothing.

`AtomicDisk` is what callers may rely on: a call takes effect at one moment and
returns.

### Mips, Processor, Words

`Mips` is `Machine::OneInstruction`: one action per group of instructions of the
switch, with `registers`, the delayed load, the two program counters, and the
bit-by-bit `Mult`. Words have four bytes of `ByteBits` bits; the widths in the
code are scaled with them and int arithmetic wraps. A page fault may come before
any instruction and leaves it to be fetched again, after `RaiseException` has
finished the delayed load. `LWL`, `LWR`, `SWL` and `SWR` work on aligned
addresses only, as their ASSERT says. J keeps the segment of the address after
its delay slot, as the code does.

`Processor` is what a compiler writes code for: arithmetic on integers, loads
that take effect at once, no faults. `ImplementsProcessor` exempts the steps
whose instruction uses the register that the load before it loads
(`TouchesPendingLoad`): the MIPS leaves those open. `Words` holds the
arithmetic both use.

### Museum

`Museum` is `threads/p2.cc` with its threads in `p2functions.h`. A step starts
by acquiring a lock or waking from a condition and ends where the next Acquire
or Wait may block. The set-ups of the eleven menu entries are the initial
states (`test`). The status registers hold an enumeration or an index of a
valet as the C code's ints do, so that values may coincide as they do there.
A thread that was not yet forked is one that has not run; competition for a
released lock is among all that want it, which allows more than the kernel's
hand-over in FIFO order; `limoWaitOnValetStatus` and `carWaitOnValetStatus`,
of which each vehicle uses one, are one variable; locks around one assignment
are left out. One order of threads is excluded, by `DriversWentOn`: a valet does
not come back for the next vehicle, from the bench where it slept, before a
driver it woke earlier has asked for `waitOnValetLock`. The ready list is FIFO
(`Scheduler::ReadyToRun`, `threads/scheduler.cc:60-100`), so that driver runs
first; without the guard a valet could overwrite the keys of a driver that is
still to take its token. `accepted` and `tipped` are history.

## 3. Runs

| run | instance | what it shows |
|---|---|---|
| `synch` | 4 threads, 1 semaphore, 2 locks, 1 condition, values up to 2 | every thread is in one place; exclusion; the lock's fields agree with its queue and its callers; no V is lost and waiters and condition agree on the lock; the Mesa monitor is implemented |
| `servers` | 2 servers, 2 clients, three programs (5, 7 and 4 calls) | exclusion per lock index over relays, hand-overs and remote waits; one answer per call; queues, owners and waiting calls agree; only the owner gives a lock up |
| `three_servers` | 3 servers, 2 clients, 3 calls | looking at the head of the in-progress list is enough; one answer per call when several servers are asked; every call but Acquire and Wait is answered |
| `post_office` | 2 machines, 3 threads (two share a mailbox), 2 messages | the buffer is never overwritten or taken twice; one packet at a time per device; locks agree with the threads inside; no receiver sleeps over mail; Send returns although packets may be lost; mailboxes are FIFO queues |
| `syscalls` | 3 threads of one address space, 2 locks, 1 condition | a lock that is not deleted agrees with what its threads were told; nobody waits in a deleted condition; a marked condition is deleted once its waiters are signaled |
| `processes` | 3 processes, 5 threads, both first IDs | the counts under three locks agree with the threads; Exit halts only at the end; the last exit does halt |
| `paging` | 2 threads of one or of two processes, 3 pages (one a stack page), 2 frames, 2 TLB entries, 2 swap places, both policies | a valid TLB entry is of the running process's page; a page has one copy; with one process every write survives |
| `lost_page` (violation) | the same without stack pages | with two processes a write may be lost |
| `file_system` | 2 names, files of 3 bytes and of none, sectors of 2 bytes, 10 sectors, writes of one and two bytes, one restart | map, directory and headers agree between operations and no space is lost when Nachos stops within one; up to then the files behave as `Files` |
| `devices` | 2 threads on 2 sectors of different tracks, or one and ConsoleTest; with and without the timer | devices are asked only when idle; requests end when their sector has passed the head; no character and no thread is forgotten; SynchDisk is an atomic disk whose calls return |
| `museum` | tests 1 to 11, up to 4 vehicles, 2 passengers each, 1 valet, 1 taker | counters agree with the threads; limousines go first; tickets, keys, tokens and tips change hands in order |
| `instructions` | words of 4 bits, 4 registers: every instruction with all operands; all triples of 17 instructions | registers stay words, R0 zero; each instruction does what the Processor does, across page faults |

The bounds are the smallest at which the cases happen: four threads let two
queue behind an owner while a fourth barges; two locks allow mismatched locks;
two servers give relays and remote waits, three give the counting of replies;
two receivers of one mailbox let one barge in front of the other, and the third
thread sends from another machine; seven calls are what a create of a lock and a
condition, two acquires, a wait, a signal and a release need. In `syscalls` one
thread holds a lock, one queues and one destroys. In `processes` one process can
end while another forks and a third is being executed. In `paging` three pages do
not fit in two frames, one more than the two places in the swap file can run out
of, and two processes share page number 0. In `file_system` two of the larger
files do not fit together, a file ends inside a sector, and writes cross
sectors. In `devices` the two sectors lie on two tracks of two sectors each, so
requests seek, wait for the rotation or hit the track buffer. In `museum` there
are more vehicles than valets; a second valet makes the code fail as listed
below. In `instructions` words of four bits have every sign and carry case of
the arithmetic.

`CHECK_DEADLOCK FALSE` is set where the system really may stop: callers may all
block or end, Nachos halts, and the parking simulation ends with its workers
asleep. Symmetry is used only in runs without liveness.

Every property of a passing run has a mutant in `PROJECT.json`: an operator of
the module (marked *Variant of* in a comment) that is the code with a plausible
bug, under which TLC refutes the property. The type invariants of the newer
modules are conjuncts of their first safety invariant.

**Fairness.** `LockServers!FairSpec` assumes weak fairness of each server
thread and of a client whose answer arrived: the scheduler's ready list is FIFO
and every server loop blocks in a Receive between turns, so a thread with a
message runs. Clients need not make calls. `PostOffice!FairSpec` assumes that
the two interrupts come (both are scheduled again and again by the device), that
the worker and a thread in the middle of Send or Receive go on; nobody has to
start a call. `Syscalls!FairSpec` and `Processes!FairSpec` assume weak fairness
of `Continue(t)`, the rest of a call that was begun: the ready list is FIFO and
the thread is not asleep when it is enabled. `Devices!Spec` assumes that the
simulator, one sequential program, goes on as long as it can; that each call of
the disk returns then follows from the interrupts and the FIFO queues.

## 4. Proofs

A theorem here holds for every value of the constants that the module's ASSUME
allows; the runs show the same property on one instance. In a proof module
`IInv` is the inductive invariant (`Sound` in `MachineProofs` and for `FileSys`, `PagingInv` for
`Paging`, `Core` for the calls in `LockServersCalls`): `InitInv` and `NextInv`
(`Initially` and `Inductive` in `PostOfficeProofs`, `InitSound` and `SoundStep`
in `MachineProofs`, `PagingAtFirst` and `PagingKept` for `Paging`,
`FileSysSoundInit` and `FileSysSoundStep` for `FileSys`) say
`Init => IInv` and `IInv /\ [Next]_vars => IInv'`, with one lemma per action, or per kind
of step, and per part of `IInv` that the step can disturb; frame lemmas dispose
of the parts a step leaves alone. Each `IInv` was an invariant of the
component's run before it was proved.

`ExceptionProofs` extends the two models of `ExceptionHandler`, `Syscalls` and
`Paging`, for the same threads (`UserThreads`); so that one module can have
both, the specification of `Paging` is called `PagingSpec`, and so on.
`ProcessAndFileProofs` has in the same way two parts that share nothing, about
`FileSys` (`FileSysSpec`) and about `Processes`, and `MachineProofs` about `Mips`
(`MipsSpec`) and `Devices`, with the facts about powers of two, bits and products
that `Words` needs.
`LockServersProofs` has the pipelines and what one turn does to the mail, the
tables and the lists; `LockServersCalls` goes on with the theorems about the
clients' calls.

| module | theorem | property |
|---|---|---|
| `SynchProofs` | `TypeCorrect`, `OnePlace`, `LockState`, `Exclusion` | `TypeOK`, `EveryThreadInOnePlace`, `LockStateSound`, `MutualExclusion` |
| | `SleepersWoken` | `SleepersSound` |
| | `ImplementsMonitor` | `MonitorSpec`, the refinement of `Monitor` |
| `PostOfficeProofs` | `TypeCorrect`, `Buffer`, `OnePacket`, `Locks` | `TypeOK`, `BufferSound`, `OnePacketAtATime`, `LocksSound` |
| | `NobodySleepsOverMail` | `NoMissedWakeup` |
| | `ImplementsMailboxes` | `MailboxesSpec`, the refinement of `Mailboxes` |
| `LockServersProofs` | `RepliesCounted` | `NoReplyOverlooked`, for programs without Wait, Signal and Broadcast |
| | `EveryReplyMatches` | every reply counted is for one request in the list, which its sender had not answered; for the same programs |
| `LockServersCalls` | `AnsweredOnce` | `OneAnswer`, for the same programs, with two servers or with own names and few objects (below) |
| | `HoldersApart` | `MutualExclusion`, with few objects, no client at mailbox 9, and two servers or own names |
| | `OwnersRelease` | `OnlyOwnerReleases`, as `AnsweredOnce`, with no client at mailbox 9 |
| | `QueuesAgree` | `QueuesSound`, as `AnsweredOnce` |
| `ExceptionProofs` | `LocksAgree`, `WaitersKept` | `LiveLockSound`, `NobodyWaitsInDeleted` |
| | `OneHolder` | follows from `LiveLockSound`: two threads are never both told they hold a lock that is not deleted |
| | `Isolation`, `SingleCopy`, `WritesSurvive` | `TLBIsolates`, `OneCopy`, `WritesKept` of `Paging` |
| `ProcessAndFileProofs` | `CountsAgree`, `HaltsAtTheEnd` | `CountsSound`, `HaltsOnlyAtTheEnd` of `Processes` |
| | `DiskInOrder` | `MapInOrder` of `FileSys` |
| | `FileSysSound` | its inductive invariant, with what is left to write of a Create or Remove |
| `MachineProofs` | `DevicesInOrder`, `NobodyLeftBehind`, `SectorsPassTheHead` | `DevicesSound`, `NothingForgotten`, `PassesTheHead` |
| | `CallsAreAtomic` | the safety part of `ImplementsDisk`, the refinement of `AtomicDisk` |
| | `MachineTyped` | `RegistersSound` of `Mips` |
| | `DoesWhatTheProcessorDoes` | `ImplementsProcessor`, the refinement of `Processor`, for programs without OR, SRL and SRLV |

**Synch.** `TypeOK` and `EveryThreadInOnePlace` are inductive together: a
thread leaves a queue only in the step that puts it on the ready list, and joins
one only in the step that puts it to sleep, so `Sleep` can return without a
check. On top of that `LockStateSound` is inductive: `Release` hands the lock to
the head of the queue in the same step that makes that thread ready, hence a
thread that wakes inside Acquire owns the lock. Exclusion follows because
`held` is a function of `ownerThread`. `SleepersSound` counts: `Woken(s)`, the
threads that V took off the queue of `s` and that have not run P again, and the
value always leave a unit for each V, so no thread sleeps beside one; here
`FiniteThreads` is needed. The refinement maps the waiters of a condition to its
queue; a step of `Wait` that goes to sleep, or hands the lock over on the way, is
one step of `Monitor`, and the scheduler's steps are none. Assumptions:
`SynchAssumption` (NULL values are not objects) and `FiniteThreads`.

**PostOffice.** `IInv` adds to the properties `StepsSound` (which steps users
and workers can be at, with what in hand) and `ListsSound` (a list has mail for
its own mailbox, and who is on its condition waits for such mail). The second is
needed because a thread releases the lock of the mailbox named in the message
it took. Sending, the buffer and the lists are three independent parts.
`NoMissedWakeup` counts the threads on their way (`Coming`), hence `FiniteUsers`;
it needs `AskersSound`, that a thread about to remove mail named its own mailbox.
The refinement needs to know that what is handed to the network was never sent
before (`NewPackets`). The mail of one mailbox in the socket is a `Filter` of
it, and the lemmas of `QueueTheorems` say what appending to the socket and
taking from it do to each filter: a step moves one message from one of the four
parts of a mailbox to the next, and only Send and Receive change the whole.
Assumptions: threads have a machine, and the names of threads and machines
differ; `FiniteUsers` for `NoMissedWakeup`.

**LockServers.** The handlers are pipelines. A request that a server relays
later than another is asked later, answered later and counted later, at every
other server, since all of that goes through FIFO mailboxes. `IInv` says it for
each pair of servers: what is under way from `s` to `r` and back is exactly what
`r` has not answered, the youngest entries of the list in their order
(`Aligned`); the count of an entry is the number of servers that have got past
it (`CountsHeard`); and somebody has not answered the oldest (`HeadWaits`). So no
entry is complete when a turn ends, and a reply always finds its entry. IDs grow
(`Rising`), which is why an ID finds one entry.

The other theorems are about the calls of the clients. `Core` says that the
call of a client is in exactly one place (`Placed`): the mail of one Server, the
mail or the list of one handler, the queue of one lock, the mailbox of the
client, or nowhere. A handler's copies for the other servers are not
places of their own: a request is in a list as long as it is `Open`, that is
until another server has said that it took it over, and from then on it is at
that server (`ClosedSound`). Every copy asks for what the client asked for
(`CopiesSound`). A reply therefore always finds the client in its call, and only
one is under way. What has to be shown for that is `SingleOwner`: of the servers
that are asked about a request at most one has the object. `NamesSound` keeps it
for more than one server asked: two servers never have an object of one name,
and while a create is still open, no server that has looked for the name has it.
`HoldsSound` says that what a client holds, or was told and has not read, it
owns in a table; a Release that is under way is of a lock the client no
longer counts as held. With `LocksSound`, that an owner does not queue and
nobody queues for a free lock, these are inductive together. `QueuesAgree` adds
the types of what lies in the mail and in the tables (`SlotsTyped`,
`ClientTypes`).

What the theorems assume is what the code needs:

- `NoMonitorCalls`, all six: no program calls Wait, Signal or Broadcast. Wait
  can put a lock's owner in a queue as Nobody when the lock and the condition
  are on different servers, the request that Signal passes on for it then has no
  client, and the answer goes to a handler's mailbox, where it is not a reply.
- `OwnNames`, with three servers or more: every name is created by one client
  only. Two clients that create a name at once get two objects (section 5), and
  both servers then answer a request that a third relays. Two servers ask only
  one other, so `AnsweredOnce`, `OwnersRelease` and `QueuesAgree` need nothing
  there.
- `FewObjects`, with three servers or more, and for `HoldersApart` always: no
  table has more than `Stride` objects, since the indexes of two servers overlap
  after that (section 5). The constants imply it when `MaxObjects <= Stride`,
  as in both runs.
- `NobodyAtNine`, for who owns locks: no client's mailbox has the number 9. Its
  requests pass for those of a server, which may acquire and release for others.

Nothing else is restricted: any number of servers, clients and calls, indexes
that were never given out, destroyed locks, requests relayed from server to
server, servers that crash. In the run `servers` the first program meets all
hypotheses with two servers, the third all but `NobodyAtNine`; the programs of
`three_servers` meet those for more than two. The program with a monitor is for
TLC alone. Assumptions: `LockServersAssumption` (the kinds of threads and
mailboxes differ, NULL and no name are not objects) and `NoMsgAssumption` (the
value for "no message" is not a message).

**Syscalls.** A lock that is not deleted and a condition, deleted or not, each
have a queue of exactly the threads that sleep in it (`LocksSound`,
`CondsSound`). That needs `CallsSound`: what a call is about still exists when it
goes on, and a Release that will delete its lock finds it marked still (marks are
never taken back). Nobody waits in a deleted condition because every delete
tests, in one step with the delete, that the queue is empty. A deleted lock is
exempt, as the code deletes locks that are held (section 5); `LocksSound` of the
others survives because a deleted lock's owner is only ever read, not trusted.

**Processes.** The counts are changed under three different locks, so the
invariant says who can be at which place: who has the `execLock` or the
`forkLock` (`LockSound`), that the lock of a process is never waited for
(`ProcessLockSound`), and that each call that asked for a thread or process will
find one (`RoomSound`). The count of processes ended is then that of the
processes without a live thread, and `LastOne` is true only for the last one.
`HaltSound` keeps it so until the machine halts: a thread that decided to halt
still has to release its lock, and nobody is left who could fork meanwhile.
Assumption `ProcessesAssumption`: there is room for a process and a thread, and
the uninitialized first ID is 0 or outside the tables.

**FileSys.** Between operations the property is inductive, but an operation
writes header, directory and free map one sector at a time. `Sound` says what is
left to write at each point. `Creating`: all files but the new one are whole, the
map on the disk is that of those, the new header and its data lie in sectors it
has clear, and what is pending is the rest of the four writes that lead to the
directory and the map with the new file. `Removing`: the files but the one that
goes are whole, and the map is either still the old one or already without it.
What is open keeps the header that is on the disk, so a write of data goes to
data sectors of a file and never to a header, the directory or the map
(`Resting`). The lemmas the actions rest on say what the operators compute:
`FirstClear` gives as many different clear sectors as are asked for, `Add`
changes one free entry, and the two halves of the directory make the whole
whichever entries straddle the sectors (`BothHalves`). `NoSpaceLost` follows
since in every one of these states the map marks only what belongs to a file
with a name. After the first exit only the shape is claimed: a restart throws the
rest of the writes away, and section 5 has what a stop within Remove leaves.
Assumption `FileSysAssumption`: at least the five sectors that formatting takes
(it asserts that it gets them), a sector has a byte, the directory's entries lie
on two sectors.

**Paging.** `TLBIsolates` alone is not inductive. A victim is out of the TLB and
out of the FIFO queue while its evictor is preempted (`VictimSound`,
`FifoSound`), and the page that is looked for is not in the TLB (`NotInTLB`), so
nobody brings it back meanwhile; a valid frame has a page that exists
(`PagesSound`); `iptLock` excludes (`IptLockSound`). Places in the swap file are
never freed, which makes `SwapSound` inductive. `DataSound` says of every page:
its frame has what was written last, and without a dirty bit the backing store
has it too. It holds with one process only, as `lost_page` shows.
Assumption `PagingAssumption`: at least one frame and one TLB entry, page 0
exists, and the contents that stand for code and garbage are not values.

**Devices.** `Sound` follows each thread through its sleep. A thread is either
runnable or in one semaphore's or lock's queue, and something is still to come
that will take it off: for `SynchDisk`'s lock the call of its owner; for the
disk, while it is active, exactly one interrupt, and afterwards a V that only
the owner of the lock can use up; for the keyboard an interrupt that schedules
itself again; for the display the interrupt that clears its busy flag
(`ThreadsSound`, `LockSound`, `DiskSound`, `KeyboardSound`, `DisplaySound`). So
when only the timer is pending nobody is asleep, and the machine may halt. An
interrupt may come before the P that waits for it, which the counts allow. The
order of the pending list plays no part in these. A call takes effect for
`AtomicDisk` in the step that requests it from
the disk, and every other step is a stutter or a return. `PassesTheHead` is
inductive beside `Sound`: a request's latency is the seek, the wait for the
sector and its transfer, and what has to be shown is that the times modulo a
revolution add up (`WholeTurns`, `NextBoundary`, `LatencyTimely`), also when the
track buffer answers. Assumptions: `DevicesAssumption` (finitely many threads
and sectors, at most one thread in `ConsoleTest`, lengths of time that are not
zero, but for the seek) and `NoneIsNoCall` (the value for "nothing" is not
another value).

**Mips.** The registers stay words because every result is wrapped, and R0
stays zero because the delayed load ends every instruction and clears it last, but
for a system call, whose result goes to R2; `MipsInv` adds to `RegistersSound`
that the program is one. What the refinement needs is
arithmetic, for a word of any width:

- Every set of bits is that of exactly one word (`BitsExist`, `BitsDiffer`), so
  `And`, `Not` and the others agree with what the Processor says of bits; and the code's test of the sign bits around ADD, ADDI and SUB
  finds exactly the sums and differences that do not fit.
- `Mult` negates, adds and shifts a double word. Its loop has an invariant
  (`Going`, `Ended`): after `k` rounds the multiplier is split into its upper
  part, which is still in `a`, and its low `k` bits, whose product with the
  multiplicand is what `hi` and `lo` hold. The loop is a recursive function that
  the induction follows step by step (`LoopMultiplies`); the negations at both
  ends make it the product of signed words modulo a double word.
- The division truncates towards zero and its remainder has the sign of the
  dividend; the cases that stop the host program are those the Processor leaves
  open.
- What is loaded, merged and stored byte by byte is the number of the bytes.
- A delayed load is mapped away: the Processor's registers are the machine's
  with the load finished (`Settled`). An instruction that does not touch the
  register it loads reads the same values in both (`OperandsSeen`), and what it
  writes comes after it in both.

The hypothesis on the programs names the three instructions of section 5.
Assumptions: `ByteBitsAssumption` (a byte has a bit), and `MipsAssumption`: R0, R2
and R31 exist and R2 is not R0, the program has instructions at aligned
addresses whose fields have the width that `Decode` gives them, and the machine
starts with words in the registers, zero in R0, and bytes in the memory.

`QueueTheorems` proves what the proofs know of queues: what Append and Remove do
to membership and order, and what they do to a `Filter`. The induction that
`Filter` needs, over the length of the queue, is for one set at a time:
a set of numbers with 0 and the successor of each member has them all
(`SetInduction`), since the least number that is missing would have a predecessor
(`SmallestMember`).

Only model-checked: the lock servers with programs that use monitors; everything
about `Museum`, so the counters and orders of the parking simulation; the
refinement `ImplementsFiles`; and all liveness, also that of
`ImplementsDisk`, and `CallsAnswered` of `LockServers`. Liveness under fairness
is outside the prover.

## 5. Disagreements between the code and its documentation

One is a run: in `lost_page`, `SearchForTLBEntry` compares the page number only
where its comment promises the process as well
(`userprog/addrspace.cc:155-158`), and a page another process wrote is thrown
away.

Three more bound what the runs and theorems say. They have no run of their own;
TLC shows each within seconds when a cfg is changed as given, without its other
properties and its symmetry.

- `OneObjectPerName`, in `MCServers.cfg` with `Programs <- TwoCreators`. The
  write-up has a lock that is created again found "already" at its index
  (`WRITEUP:133-134,148`). Of two clients that create one name at two servers at
  once each gets an object, since a handler answers NO while its own server still
  asks the others (`network/nettest.cc:240`); the comparison of the two requests
  is commented out (201-237). So it is neither a run's property nor a theorem;
  where each name has one creator it is part of `NamesSound`, which the proof of
  `AnsweredOnce` needs.
- `OnlyOwnerReleases`, in `MCServers.cfg` with `Programs <- MailboxNine`. "Lock is
  owned by thread releasing" says the comment of the test
  (`network/nettest.cc:706`), which a client whose mailbox is 9 passes without
  (708).
- `LimosCounted`, in `MCMuseum.cfg` with `Tests = {1}` and `MaxValets = 2`. Valet 1
  marks a limousine with his index, which is also `WAITING_ON_VALET_TO_PARK`,
  "there's a limo waiting to park" (`threads/p2functions.h:684-696`), another
  valet takes it again, and the count becomes -1. What the model leaves out for
  two valets (section 6) comes later than that.

Modelling showed more, which the models contain:

- *Threads.* `Finish` overwrites `threadToBeDestroyed` when the thread before it
  was not deleted yet (`threads/thread.cc:152`, `scheduler.cc:120`): its stack
  leaks. `Broadcast` with another lock than the waiters' never returns
  (`threads/synch.cc:264`).
- *Lock service.* Two servers that wait in mailbox 9 for each other serve nobody
  (`network/nettest.cc:877`). Where one name has two objects, both
  servers answer what a third relays (465). SIGNAL on an empty
  queue kills the server (1037), GET and SET work on a destroyed variable (1695,
  1769), the indexes of two servers overlap after 100 objects (1271).
- *System calls.* Acquire of a lock that is marked deletes it while it may be
  held (`userprog/exception.cc:571`); Release of a marked lock hands it over and
  deletes it (656). CreateCondition on a full table keeps the table's lock
  (1239). The eleventh thread's mailbox does not exist (353). A Fork by the
  process of the command line uses a NULL entry of the process table (356).
- *Paging.* Places in the swap file are never freed (1671).
- *Files.* After a stop between the two writes of Remove a name stays whose
  sectors are free (`filesys/filesys.cc:282-283`). `Table::Put` stores its
  pointer after it released the lock (`userprog/addrspace.cc:57-59`).
- *Processor.* OR computes `rs | rs` (`machine/mipssim.cc:375`), where the
  disassembler prints `OR rd,rs,rt`; SRL and SRLV shift in the sign because
  `tmp` is an int (444-453). `MCMips` leaves these three out of
  `ImplementsProcessor`; with them it is violated. DIV of the least integer by
  -1 stops the host program.
- *Parking simulation.* A valet woken with nothing to do keeps
  `waitOnValetLock` (`threads/p2functions.h:682,722,766`). The manager signals `valetStatusCV[index]`
  and not that of the valet in the back room (863), and `valetsOnBench` is never
  reset (877). A signal to a thread that does not wait yet is lost, so tests may
  hang; `numLimosWaitingToParkLock` and `valetStatusLock` are taken in both
  orders.

## 6. Not modelled

- `PseudoSend`, `SynchList::Mapcar`, the ping demo `MailTest`; invalid mailbox
  numbers.
- The synchronous console: never constructed. Host interface, statistics,
  object file tools: pure input and output, or stand-alone programs.
- Two threads in the file system or the file table at once: the code declares
  that it does not support it.
- Formatting a disk; the debugger and the disassembler; the user test programs,
  whose calls the models' clients make in any order.
- The other copies of the parking simulation: `threads/museum.cc` does not
  compile, `threads/threadtest.cc` has an earlier version, `test/museum.c` is a
  port to system calls.
- In `Museum`, branches that one valet cannot reach (an idle valet found by the
  manager's scan, wrong keys, a missing tip).

## 7. Plan

Theorems that are left, in order:

1. `ImplementsFiles`, from `FileSysSound`.
2. `LockServers` with Wait, Signal and Broadcast, for locks and conditions that
   one client creates at one server, where no owner is queued as Nobody.
3. `CountsMatch` of `Museum` for any number of vehicles and one valet.
