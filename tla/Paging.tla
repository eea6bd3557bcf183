------------------------------- MODULE Paging -------------------------------
(***************************************************************************)
(* Demand-paged virtual memory: HandlePageFault of userprog/exception.cc,  *)
(* the inverted page table of threads/system.cc, the TLB routines of       *)
(* userprog/addrspace.cc and the translation of machine/translate.cc.      *)
(*                                                                         *)
(* A page of a process lives in a frame, in the swap file or still in the  *)
(* executable, and what is known of it is spread over the TLB, the         *)
(* inverted page table (ipt), pageLocation and swapArray.  The TLB holds   *)
(* pages of the running thread only: a switch empties it and saves its     *)
(* dirty bits.  The handler runs under iptLock; inside, it is preempted    *)
(* after it took a page out of the TLB, and at its end.                    *)
(*                                                                         *)
(* A page is one value.  truth is what the process wrote last.             *)
(***************************************************************************)
EXTENDS UserThreads, Integers, Sequences, FiniteSets

CONSTANTS Processes, Pages,           \* Pages: the virtual page numbers
          NumPhysPages, TLBSize, NumSwapPages,
          StackPages,                 \* those that MakeNewPT added
          Values,                     \* what is written
          Garbage,                    \* a frame nobody loaded anything into
          Code,                       \* what the executable holds
          Layouts,                    \* which process each thread may be of, and
                                      \* which pages the processes come to have
          Policies,                   \* page replacement: of {"FIFO", "RAND"}
          None

Frames == 0..(NumPhysPages - 1)
Slots  == 0..(TLBSize - 1)
Swap   == 0..(NumSwapPages - 1)

PagingAssumption ==
    /\ NumPhysPages \in Nat \ {0} /\ TLBSize \in Nat \ {0} /\ NumSwapPages \in Nat
    /\ Pages \subseteq Nat /\ 0 \in Pages
    /\ StackPages \subseteq Pages
    /\ Layouts \subseteq [space : [Threads -> Processes],
                          pages : [Processes -> SUBSET Pages]]
    /\ Policies \subseteq {"FIFO", "RAND"}
    /\ {Garbage, Code} \cap Values = {} /\ Garbage # Code
    /\ None \notin Threads

ASSUME PagingAssumption

VARIABLES
    mainMemory,     \* what the frames hold
    tlb, nextTLB,   \* nextTLB: the slot that is replaced next
    ipt,            \* per frame, its entry in the inverted page table
    fifo,           \* ipt->queue: the frames in the order they were loaded
    pageLocation,   \* per process and page: "EXECUTABLE", "SWAP" or "STACK"
    swapArray,      \* per process and page, its place in the swap file
    swapFile,       \* what the used places of the swap file hold: swapFileMap
                    \* has their bits set
    lockOwner, lockQueue,   \* iptLock
    faultPc,        \* per thread: "User", or where in the handler it is
    fault,          \* per thread, the page it faulted on
    victim,         \* per thread, the frame it evicts
    currentThread,
    halted,         \* the swap file is full
    layout,         \* the address space of each thread, the pages of each
                    \* process comes to have; never changes
    numPages,       \* per process, the pages it has by now
    policy,         \* pageReplacementPolicy; never changes
    truth           \* history: per process and page, the value last written

memory  == <<mainMemory, swapFile, truth>>
kernel  == <<nextTLB, fifo, pageLocation, swapArray>>
lock    == <<lockOwner, lockQueue>>
setting == <<layout, numPages, policy>>
pagingVars ==
    <<mainMemory, tlb, nextTLB, ipt, fifo, pageLocation, swapArray, swapFile, lockOwner,
      lockQueue, faultPc, fault, victim, currentThread, halted, layout, numPages, policy,
      truth>>

space == layout.space

-----------------------------------------------------------------------------
(* The TLB *)

(* The valid entries for page v; the hardware takes the first. *)
Hits(v) == {k \in Slots : tlb[k].valid /\ tlb[k].page = v}

Least(S) == CHOOSE k \in S : \A j \in S : k <= j

(* The frame's dirty bit, with that of its TLB entry when it has one. *)
SavedBits ==
    [f \in Frames |->
        LET ks == {k \in Slots : tlb[k].valid /\ tlb[k].frame = f}
        IN  IF ks = {} THEN ipt[f]
            ELSE [ipt[f] EXCEPT !.dirty = \E k \in ks : tlb[k].dirty]]

RunsAt(t, place) == ~halted /\ currentThread = t /\ faultPc[t] = place

(* Machine::Translate on a hit, and WriteMem.  A read changes nothing. *)
Write(t, v, x) ==
    /\ RunsAt(t, "User") /\ Hits(v) # {}
    /\ LET k == Least(Hits(v))
       IN  /\ tlb' = [tlb EXCEPT ![k].dirty = TRUE]
           /\ mainMemory' = [mainMemory EXCEPT ![tlb[k].frame] = x]
    /\ truth' = [truth EXCEPT ![space[t]][v] = x]
    /\ UNCHANGED <<ipt, kernel, swapFile, lock, faultPc, fault, victim, currentThread,
                   halted, setting>>

(* An entry after it was invalidated: its page is still read in FillTLB, the *)
(* rest never.                                                               *)
Invalid(e) == [valid |-> FALSE, page |-> e.page, frame |-> 0, dirty |-> FALSE]

(* Variant of InvalidateAllTLB: the dirty bits are forgotten. *)
InvalidateWithoutBits ==
    /\ tlb' = [k \in Slots |-> Invalid(tlb[k])]
    /\ UNCHANGED ipt

InvalidateAllTLB ==
    /\ tlb' = [k \in Slots |-> Invalid(tlb[k])]
    /\ ipt' = SavedBits

(* The scheduler runs another thread, whose RestoreState empties the TLB. *)
Switch(t) ==
    /\ ~halted
    /\ t # currentThread /\ faultPc[t] # "Waiting"
    /\ currentThread' = t
    /\ InvalidateAllTLB
    /\ UNCHANGED <<memory, kernel, lock, faultPc, fault, victim, halted, setting>>

-----------------------------------------------------------------------------
(* The inverted page table and the swap file *)

Empty == [valid |-> FALSE, page |-> 0, process |-> None, dirty |-> FALSE, use |-> FALSE]

(* InvertedPageTable::searchForEntry *)
FramesOf(table, p, v) ==
    {f \in Frames : table[f].valid /\ table[f].page = v /\ table[f].process = p}

EmptyFrames == {f \in Frames : ~ipt[f].valid}

(* The frames that may be evicted.  With RAND those not in use; the loop     *)
(* that looks for one does not end when there is none.                       *)
Evictable ==
    IF policy = "FIFO" THEN {Head(fifo)} ELSE {f \in Frames : ~ipt[f].use}

(* The queue without the frame that is evicted.  With RAND nobody reads it:  *)
(* it is left out.                                                           *)
Unchosen == IF policy = "FIFO" THEN Tail(fifo) ELSE fifo

-----------------------------------------------------------------------------
(* HandlePageFault *)

PageFault(t, v) ==
    /\ v \in numPages[space[t]]
    /\ RunsAt(t, "User") /\ Hits(v) = {}
    /\ fault' = [fault EXCEPT ![t] = v]
    /\ \/ /\ lockOwner = None
          /\ lockOwner' = t /\ UNCHANGED lockQueue
          /\ faultPc' = [faultPc EXCEPT ![t] = "Locked"]
       \/ /\ lockOwner # None
          /\ lockQueue' = Append(lockQueue, t) /\ UNCHANGED lockOwner
          /\ faultPc' = [faultPc EXCEPT ![t] = "Waiting"]
    /\ UNCHANGED <<memory, tlb, ipt, kernel, victim, currentThread, halted, setting>>

Following(k) == (k + 1) % TLBSize

(* t puts frame f, with the entry the table has for it, into the TLB.  The   *)
(* entry it replaces passes its dirty bit on, and its page is not in use any *)
(* more: it is looked up as one of the running process, also when it is of   *)
(* another or invalid.                                                       *)
FillTLB(t, table, f) ==
    LET old  == tlb[nextTLB]
        mine == FramesOf(table, space[t], old.page)
        kept == [g \in Frames |->
                    IF g \in mine
                    THEN [table[g] EXCEPT !.use = FALSE,
                                          !.dirty = @ \/ (old.valid /\ old.dirty)]
                    ELSE table[g]]
    IN  /\ ipt' = kept
        /\ tlb' = [tlb EXCEPT ![nextTLB] =
                      [valid |-> TRUE, page |-> kept[f].page, frame |-> f,
                       dirty |-> kept[f].dirty]]
        /\ nextTLB' = Following(nextTLB)

(* What frame f holds once page v of process p is loaded into it: a stack    *)
(* page that was never swapped finds what was there.                         *)
Loaded(p, v, f, pages) ==
    CASE pageLocation[p][v] = "EXECUTABLE" -> Code
      [] pageLocation[p][v] = "SWAP"       -> pages[swapArray[p][v]]
      [] pageLocation[p][v] = "STACK"      -> mainMemory[f]

NewEntry(p, v) ==
    [valid |-> TRUE, page |-> v, process |-> p, dirty |-> FALSE, use |-> TRUE]

(* Frame f, with nothing to save in it, is loaded with the page t faults on; *)
(* queue is what fifo is then appended to.                                   *)
LoadInto(t, table, f, queue) ==
    LET p == space[t]
        v == fault[t]
    IN  /\ mainMemory' = [mainMemory EXCEPT ![f] = Loaded(p, v, f, swapFile)]
        /\ FillTLB(t, [table EXCEPT ![f] = NewEntry(p, v)], f)
        /\ fifo' = IF policy = "FIFO" THEN Append(queue, f) ELSE queue

(* The page is in a frame: only the TLB did not have it. *)
FindEntry(t) ==
    /\ RunsAt(t, "Locked")
    /\ FramesOf(ipt, space[t], fault[t]) # {}
    /\ FillTLB(t, ipt, Least(FramesOf(ipt, space[t], fault[t])))
    /\ faultPc' = [faultPc EXCEPT ![t] = "Done"]
    /\ UNCHANGED <<memory, fifo, pageLocation, swapArray, lock, fault, victim,
                   currentThread, halted, setting>>

UseEmptyEntry(t) ==
    /\ RunsAt(t, "Locked")
    /\ FramesOf(ipt, space[t], fault[t]) = {} /\ EmptyFrames # {}
    /\ LoadInto(t, ipt, Least(EmptyFrames), fifo)
    /\ faultPc' = [faultPc EXCEPT ![t] = "Done"]
    /\ UNCHANGED <<swapFile, truth, pageLocation, swapArray, lock, fault, victim,
                   currentThread, halted, setting>>

(* Variant of InTLB: the TLB is not searched. *)
InTLBNever(f) == {}

(* SearchForTLBEntry: the eviction page is looked up by its page number      *)
(* only, although the TLB is that of the running process.                    *)
InTLB(f) == Hits(ipt[f].page)

(* Variant of FreeSwap: the bit of the place is not set when it is used. *)
FreeSwapForgets == Swap

FreeSwap == Swap \ DOMAIN swapFile

(* The page in the frame is dirty: it gets a new place in the swap file. *)
SwapOut(f) ==
    LET e == ipt[f]
        s == Least(FreeSwap)
    IN  /\ swapFile' = [i \in DOMAIN swapFile \cup {s} |->
                           IF i = s THEN mainMemory[f] ELSE swapFile[i]]
        /\ swapArray' = [swapArray EXCEPT ![e.process][e.page] = s]
        /\ pageLocation' = [pageLocation EXCEPT ![e.process][e.page] = "SWAP"]

(* The frame f is saved when it is dirty, and then loaded. *)
Replace(t, f, queue) ==
    \/ /\ ipt[f].dirty /\ FreeSwap = {}
       /\ halted' = TRUE
       /\ fifo' = queue
       /\ UNCHANGED <<mainMemory, swapFile, tlb, ipt, nextTLB, pageLocation,
                      swapArray, faultPc>>
    \/ /\ ~ipt[f].dirty \/ FreeSwap # {}
       /\ IF ipt[f].dirty THEN SwapOut(f)
          ELSE UNCHANGED <<swapFile, swapArray, pageLocation>>
       /\ LoadInto(t, ipt, f, queue)
       /\ faultPc' = [faultPc EXCEPT ![t] = "Done"]
       /\ UNCHANGED halted

(* An eviction page is chosen: FIFO takes it from the queue. *)
Chooses(t, f) ==
    /\ RunsAt(t, "Locked")
    /\ FramesOf(ipt, space[t], fault[t]) = {} /\ EmptyFrames = {}
    /\ f \in Evictable

(* The TLB does not have it. *)
Evict(t) ==
    /\ \E f \in Frames : Chooses(t, f) /\ InTLB(f) = {} /\ Replace(t, f, Unchosen)
    /\ UNCHANGED <<truth, lock, fault, victim, currentThread, setting>>

(* The TLB has it: its bit is saved, the entry invalidated, and the thread   *)
(* may be preempted before it goes on.                                       *)
ClearVictim(t) ==
    /\ \E f \in Frames :
          /\ Chooses(t, f) /\ InTLB(f) # {}
          /\ victim' = [victim EXCEPT ![t] = f]
          /\ LET k == Least(InTLB(f))
             IN  /\ ipt' = [ipt EXCEPT ![f].dirty = tlb[k].dirty]
                 /\ tlb' = [tlb EXCEPT ![k] = Invalid(@)]
    /\ fifo' = Unchosen
    /\ faultPc' = [faultPc EXCEPT ![t] = "Evicting"]
    /\ UNCHANGED <<memory, nextTLB, pageLocation, swapArray, lock, fault,
                   currentThread, halted, setting>>

EvictCleared(t) ==
    /\ RunsAt(t, "Evicting")
    /\ Replace(t, victim[t], fifo)
    /\ victim' = [victim EXCEPT ![t] = 0]
    /\ UNCHANGED <<truth, lock, fault, currentThread, setting>>

(* The end: the lock is released, to the first in its queue. *)
Return(t) ==
    /\ RunsAt(t, "Done")
    /\ \/ /\ lockQueue = << >>
          /\ lockOwner' = None
          /\ faultPc' = [faultPc EXCEPT ![t] = "User"]
          /\ UNCHANGED lockQueue
       \/ /\ lockQueue # << >>
          /\ lockOwner' = Head(lockQueue)
          /\ lockQueue' = Tail(lockQueue)
          /\ faultPc' = [faultPc EXCEPT ![t] = "User", ![Head(lockQueue)] = "Locked"]
    /\ fault' = [fault EXCEPT ![t] = 0]
    /\ UNCHANGED <<memory, tlb, ipt, kernel, victim, currentThread, halted, setting>>

-----------------------------------------------------------------------------

(* AddrSpace: the pages of code, data and the first stack, all of them read  *)
(* from the executable.                                                      *)
AtExec(p) == layout.pages[p] \ StackPages

PagingInit ==
    /\ mainMemory = [f \in Frames |-> Garbage]
    /\ tlb = [k \in Slots |-> [valid |-> FALSE, page |-> 0, frame |-> 0, dirty |-> FALSE]]
    /\ nextTLB = 0
    /\ ipt = [f \in Frames |-> Empty]
    /\ fifo = << >>
    /\ pageLocation = [p \in Processes |-> [v \in Pages |-> "EXECUTABLE"]]
    /\ swapArray = [p \in Processes |-> [v \in Pages |-> 0]]
    /\ swapFile = << >>
    /\ lockOwner = None /\ lockQueue = << >>
    /\ faultPc = [t \in Threads |-> "User"]
    /\ fault = [t \in Threads |-> 0]
    /\ victim = [t \in Threads |-> 0]
    /\ currentThread \in Threads
    /\ halted = FALSE
    /\ layout \in Layouts
    /\ numPages = [p \in Processes |-> AtExec(p)]
    /\ policy \in Policies
    /\ truth = [p \in Processes |->
                   [v \in Pages |-> IF v \in StackPages THEN None ELSE Code]]

(* The syscall Fork makes room for the stack of the new thread.  Page tables *)
(* are written only, and left out.                                           *)
MakeNewPT(t) ==
    LET p     == space[t]
        stack == (layout.pages[p] \cap StackPages) \ numPages[p]
    IN  /\ RunsAt(t, "User") /\ stack # {}
        /\ numPages' = [numPages EXCEPT ![p] = @ \cup stack]
        /\ pageLocation' = [pageLocation EXCEPT ![p] =
                               [v \in Pages |-> IF v \in stack THEN "STACK" ELSE @[v]]]
        /\ UNCHANGED <<memory, tlb, ipt, nextTLB, fifo, swapArray, lock, faultPc, fault,
                       victim, currentThread, halted, layout, policy>>

Handler(t) ==
    \/ FindEntry(t) \/ UseEmptyEntry(t) \/ Evict(t) \/ ClearVictim(t)
    \/ EvictCleared(t) \/ Return(t)

PagingNext ==
    \/ \E t \in Threads : Switch(t) \/ MakeNewPT(t) \/ Handler(t)
    \/ \E t \in Threads, v \in Pages :
          \/ PageFault(t, v)
          \/ \E x \in Values : Write(t, v, x)

PagingSpec == PagingInit /\ [][PagingNext]_pagingVars

-----------------------------------------------------------------------------
(* Properties *)

Contents == Values \cup {Garbage, Code}

(* The types of the variables. *)
PagingTypeOK ==
    /\ mainMemory \in [Frames -> Contents]
    /\ tlb \in [Slots -> [valid : BOOLEAN, page : Pages, frame : Frames, dirty : BOOLEAN]]
    /\ nextTLB \in Slots
    /\ ipt \in [Frames -> [valid : BOOLEAN, page : Pages, process : Processes \cup {None},
                           dirty : BOOLEAN, use : BOOLEAN]]
    /\ fifo \in Seq(Frames)
    /\ pageLocation \in [Processes -> [Pages -> {"EXECUTABLE", "SWAP", "STACK"}]]
    /\ swapArray \in [Processes -> [Pages -> Swap \cup {0}]]
    /\ DOMAIN swapFile \subseteq Swap
    /\ lockOwner \in Threads \cup {None} /\ lockQueue \in Seq(Threads)
    /\ faultPc \in [Threads -> {"User", "Waiting", "Locked", "Evicting", "Done"}]
    /\ fault \in [Threads -> Pages] /\ victim \in [Threads -> Frames]
    /\ currentThread \in Threads
    /\ halted \in BOOLEAN
    /\ layout \in Layouts /\ policy \in Policies
    /\ numPages \in [Processes -> SUBSET Pages]

(* Whatever the TLB says is about the running thread: a valid entry leads to *)
(* a frame that holds that page of the thread's own process.  No process     *)
(* reads or writes the memory of another, not even after its page was        *)
(* evicted while it was preempted.                                           *)
TLBIsolates ==
    \A k \in Slots : tlb[k].valid =>
        LET e == ipt[tlb[k].frame]
        IN  e.valid /\ e.page = tlb[k].page /\ e.process = space[currentThread]

(* A page is in one frame, and two pages never share a place in the swap     *)
(* file.                                                                     *)
OneCopy ==
    /\ PagingTypeOK
    /\ \A f, g \in Frames : ipt[f].valid /\ ipt[g].valid /\ f # g =>
          <<ipt[f].process, ipt[f].page>> # <<ipt[g].process, ipt[g].page>>
    /\ \A p, q \in Processes, v, w \in Pages :
          /\ pageLocation[p][v] = "SWAP" /\ pageLocation[q][w] = "SWAP"
          /\ swapArray[p][v] = swapArray[q][w]
          => p = q /\ v = w

OneProcess == \A t, u \in Threads : space[t] = space[u]

Coherent ==
    \A v \in Pages : Hits(v) # {} =>
        LET x == truth[space[currentThread]][v]
        IN  x # None => mainMemory[tlb[Least(Hits(v))].frame] = x

(* As long as all threads are of one process, a page reads as it was last    *)
(* written, through every eviction, reload and switch.                       *)
WritesKept == OneProcess => Coherent

(* The same for several processes.                                           *)
WritesKeptByAll == Coherent
=============================================================================
