----------------------------- MODULE PostOffice -----------------------------
(***************************************************************************)
(* Mailboxes on an unreliable packet network: network/post.cc, the lists   *)
(* of threads/synchlist.cc it keeps the mail in, and the device of         *)
(* machine/network.cc.                                                     *)
(*                                                                         *)
(* On each machine any number of user threads send and receive, and one    *)
(* postal worker moves packets from the device's one-packet buffer to the  *)
(* mailboxes.  Two interrupts run between their steps: one says that the   *)
(* last packet is on the wire, one polls the machine's socket.  A step is  *)
(* what a thread does between two points where interrupts are on, that is, *)
(* from one call on a lock, condition or semaphore to the next; those      *)
(* calls are atomic, as module Synch shows: Wait gives the lock up and     *)
(* joins the waiters at once, and Release hands it to the longest waiting  *)
(* thread, so a lock is the sequence of its owner and those who wait for   *)
(* it.  pc holds what a thread does next, once it owns the lock it needs.  *)
(***************************************************************************)
EXTENDS Queues, FiniteSets

CONSTANTS Machines,
          Users,      \* threads that send and receive
          Home,       \* the machine of each
          Boxes,      \* 0..(numBoxes - 1)
          Reads,      \* the mailboxes each user thread receives from
          MaxSends,   \* bound on the calls of Send
          NoPacket    \* inHdr.length = 0

Packet == [id : 1..MaxSends, to : Machines, box : Boxes]

ASSUME PostOfficeAssumption ==
    /\ Home \in [Users -> Machines]
    /\ Reads \in [Users -> SUBSET Boxes]
    /\ MaxSends \in Nat
    /\ Users \cap Machines = {}
    /\ NoPacket \notin Packet

(* Thread objects are allocated one by one from the kernel's memory. *)
ASSUME FiniteUsers == IsFiniteSet(Users)

(* The postal worker of a machine goes by the machine's name. *)
Threads == Users \cup Machines

VARIABLES
    socket,             \* per machine, the datagrams that wait in its socket
    inHdr,              \* Network::inHdr and inbox: the buffered packet
    sendDone,           \* pending NetworkSendInt interrupts
    messageAvailable, messageSent,   \* semaphore values
    sendLock,           \* per machine: owner and queue
    list, lock, listEmpty,   \* SynchList, per machine and mailbox: the mail,
                             \* the lock, the threads waiting on the condition
    lossy,              \* Network::chanceToWork is less than 1
    pc, mail,           \* per thread: next step, and the packet it handles
    calls,              \* Send calls so far, which number the packets
    sent                \* history: packets given to the network

boxVars == <<list, lock, listEmpty>>
netVars == <<socket, inHdr, sendDone, messageAvailable, messageSent>>
vars == <<socket, inHdr, sendDone, messageAvailable, messageSent, sendLock,
          list, lock, listEmpty, lossy, pc, mail, calls, sent>>

At(t, step) == pc[t] = step
Goto(t, step) == pc' = [pc EXCEPT ![t] = step]

Owns(q, t) == q # << >> /\ Head(q) = t

-----------------------------------------------------------------------------
(* PostOffice::Send *)

Send(u) ==
    /\ At(u, "idle") /\ calls < MaxSends
    /\ \E m \in Machines, b \in Boxes :
           mail' = [mail EXCEPT ![u] = [id |-> calls + 1, to |-> m, box |-> b]]
    /\ calls' = calls + 1
    /\ sendLock' = [sendLock EXCEPT ![Home[u]] = Append(@, u)]
    /\ Goto(u, "network")
    /\ UNCHANGED <<netVars, boxVars, lossy, sent>>

(* Variant of NetworkSend: a packet that is lost schedules no interrupt. *)
NetworkSendQuietLoss(u) ==
    /\ At(u, "network") /\ Owns(sendLock[Home[u]], u)
    /\ LET x == mail[u]
       IN  /\ \/ /\ socket' = [socket EXCEPT ![x.to] = Append(@, x)]
                 /\ sendDone' = [sendDone EXCEPT ![Home[u]] = @ + 1]
              \/ lossy /\ UNCHANGED <<socket, sendDone>>
           /\ sent' = sent \cup {x}
    /\ Goto(u, "messageSent")
    /\ UNCHANGED <<inHdr, messageAvailable, messageSent, sendLock, boxVars, lossy, mail, calls>>

(* Variant of NetworkSend: without the lock. *)
NetworkSendUnlocked(u) ==
    /\ At(u, "network")
    /\ sendDone' = [sendDone EXCEPT ![Home[u]] = @ + 1]
    /\ LET x == mail[u]
       IN  /\ socket' = [socket EXCEPT ![x.to] = Append(@, x)]
           /\ sent' = sent \cup {x}
    /\ Goto(u, "messageSent")
    /\ UNCHANGED <<inHdr, messageAvailable, messageSent, sendLock, boxVars, lossy, mail, calls>>

(* Network::Send: the interrupt is scheduled before the packet may be lost. *)
NetworkSend(u) ==
    /\ At(u, "network") /\ Owns(sendLock[Home[u]], u)
    /\ sendDone' = [sendDone EXCEPT ![Home[u]] = @ + 1]
    /\ LET x == mail[u]
       IN  /\ \/ socket' = [socket EXCEPT ![x.to] = Append(@, x)]
              \/ lossy /\ UNCHANGED socket
           /\ sent' = sent \cup {x}
    /\ Goto(u, "messageSent")
    /\ UNCHANGED <<inHdr, messageAvailable, messageSent, sendLock, boxVars, lossy, mail, calls>>

(* Variant of SendP: does not wait for the interrupt. *)
SendPAtOnce(u) ==
    /\ At(u, "messageSent")
    /\ messageSent' = [messageSent EXCEPT ![Home[u]] = @ - 1]
    /\ Goto(u, "sendUnlock")
    /\ UNCHANGED <<socket, inHdr, sendDone, messageAvailable, sendLock, boxVars,
                   lossy, mail, calls, sent>>

SendP(u) ==
    /\ At(u, "messageSent") /\ messageSent[Home[u]] > 0
    /\ messageSent' = [messageSent EXCEPT ![Home[u]] = @ - 1]
    /\ Goto(u, "sendUnlock")
    /\ UNCHANGED <<socket, inHdr, sendDone, messageAvailable, sendLock, boxVars,
                   lossy, mail, calls, sent>>

SendRelease(u) ==
    /\ At(u, "sendUnlock")
    /\ sendLock' = [sendLock EXCEPT ![Home[u]] = Tail(@)]
    /\ mail' = [mail EXCEPT ![u] = NoPacket]
    /\ Goto(u, "idle")
    /\ UNCHANGED <<netVars, boxVars, lossy, calls, sent>>

-----------------------------------------------------------------------------
(* Interrupts: Network::SendDone with PostOffice::PacketSent, and             *)
(* Network::CheckPktAvail with PostOffice::IncomingPacket.                    *)

SendDone(m) ==
    /\ sendDone[m] > 0
    /\ sendDone' = [sendDone EXCEPT ![m] = @ - 1]
    /\ messageSent' = [messageSent EXCEPT ![m] = @ + 1]
    /\ UNCHANGED <<socket, inHdr, messageAvailable, sendLock, boxVars,
                   lossy, pc, mail, calls, sent>>

ReadPacket(m) ==
    /\ socket[m] # << >>
    /\ inHdr' = [inHdr EXCEPT ![m] = Head(socket[m])]
    /\ socket' = [socket EXCEPT ![m] = Tail(@)]
    /\ messageAvailable' = [messageAvailable EXCEPT ![m] = @ + 1]
    /\ UNCHANGED <<sendDone, messageSent, sendLock, boxVars, lossy, pc, mail, calls, sent>>

(* Variant of CheckPktAvail: the poll overwrites a packet still buffered. *)
CheckPktAvailAnyway(m) == ReadPacket(m)

CheckPktAvail(m) == inHdr[m] = NoPacket /\ ReadPacket(m)

-----------------------------------------------------------------------------
(* PostOffice::PostalDelivery *)

WorkerP(m) ==
    /\ At(m, "messageAvailable") /\ messageAvailable[m] > 0
    /\ messageAvailable' = [messageAvailable EXCEPT ![m] = @ - 1]
    /\ Goto(m, "receive")
    /\ UNCHANGED <<socket, inHdr, sendDone, messageSent, sendLock, boxVars,
                   lossy, mail, calls, sent>>

(* Network::Receive, up to the lock of the mailbox.  An empty buffer would   *)
(* leave the worker with its copy of the packet before.                      *)
WorkerReceive(m) ==
    /\ At(m, "receive")
    /\ LET x == IF inHdr[m] = NoPacket THEN mail[m] ELSE inHdr[m]
       IN  /\ mail' = [mail EXCEPT ![m] = x]
           /\ lock' = [lock EXCEPT ![m][x.box] = Append(@, m)]
    /\ inHdr' = [inHdr EXCEPT ![m] = NoPacket]
    /\ Goto(m, "append")
    /\ UNCHANGED <<socket, sendDone, messageAvailable, messageSent, sendLock,
                   list, listEmpty, lossy, calls, sent>>

(* Variant of Woken: somebody is woken only when the list was empty. *)
WokenIfEmpty(m, b) == IF list[m][b] = << >> THEN listEmpty[m][b] ELSE {}

(* Whom a Signal on the mailbox's condition may wake. *)
Woken(m, b) == listEmpty[m][b]

(* SynchList::Append, with the lock: Signal sends one waiter, if there is    *)
(* one, to acquire the lock again.                                           *)
ListAppend(m) ==
    LET b == mail[m].box
    IN  /\ At(m, "append") /\ Owns(lock[m][b], m)
        /\ list' = [list EXCEPT ![m][b] = Append(@, mail[m])]
        /\ \/ /\ Woken(m, b) = {}
              /\ Goto(m, "unlock")
              /\ UNCHANGED listEmpty
           \/ \E w \in Woken(m, b) :
                 /\ listEmpty' = [listEmpty EXCEPT ![m][b] = @ \ {w}]
                 /\ pc' = [pc EXCEPT ![m] = "unlock", ![w] = "relock"]
        /\ UNCHANGED <<netVars, sendLock, lock, lossy, mail, calls, sent>>

(* Release, after Append: the worker goes back to wait for a packet. *)
AppendRelease(m) ==
    /\ At(m, "unlock")
    /\ lock' = [lock EXCEPT ![m][mail[m].box] = Tail(@)]
    /\ Goto(m, "messageAvailable")
    /\ UNCHANGED <<netVars, sendLock, list, listEmpty, lossy, mail, calls, sent>>

-----------------------------------------------------------------------------
(* PostOffice::Receive *)

(* What u asks for, in the place of the packet it will get. *)
Asked(u, b) == [id |-> 0, to |-> Home[u], box |-> b]

Receive(u) ==
    /\ At(u, "idle")
    /\ \E b \in Reads[u] :
          /\ mail' = [mail EXCEPT ![u] = Asked(u, b)]
          /\ lock' = [lock EXCEPT ![Home[u]][b] = Append(@, u)]
    /\ Goto(u, "remove")
    /\ UNCHANGED <<netVars, sendLock, list, listEmpty, lossy, calls, sent>>

(* SynchList::Remove, with the lock: the while loop's test, then Wait or the *)
(* removal.                                                                  *)
ListRemove(u) ==
    LET m == Home[u]
        b == mail[u].box
    IN  /\ At(u, "remove") /\ Owns(lock[m][b], u)
        /\ \/ /\ list[m][b] = << >>
              /\ listEmpty' = [listEmpty EXCEPT ![m][b] = @ \cup {u}]
              /\ lock' = [lock EXCEPT ![m][b] = Tail(@)]
              /\ Goto(u, "wait")
              /\ UNCHANGED <<list, mail>>
           \/ /\ list[m][b] # << >>
              /\ mail' = [mail EXCEPT ![u] = Head(list[m][b])]
              /\ list' = [list EXCEPT ![m][b] = Tail(@)]
              /\ Goto(u, "unlock")
              /\ UNCHANGED <<lock, listEmpty>>
        /\ UNCHANGED <<netVars, sendLock, lossy, calls, sent>>

(* The end of Wait: the woken thread acquires the lock like any other. *)
WaitAcquire(u) ==
    /\ At(u, "relock")
    /\ lock' = [lock EXCEPT ![Home[u]][mail[u].box] = Append(@, u)]
    /\ Goto(u, "remove")
    /\ UNCHANGED <<netVars, sendLock, list, listEmpty, lossy, mail, calls, sent>>

RemoveRelease(u) ==
    /\ At(u, "unlock")
    /\ lock' = [lock EXCEPT ![Home[u]][mail[u].box] = Tail(@)]
    /\ mail' = [mail EXCEPT ![u] = NoPacket]
    /\ Goto(u, "idle")
    /\ UNCHANGED <<netVars, sendLock, list, listEmpty, lossy, calls, sent>>

-----------------------------------------------------------------------------

Init ==
    /\ socket = [m \in Machines |-> << >>]
    /\ inHdr = [m \in Machines |-> NoPacket]
    /\ sendDone = [m \in Machines |-> 0]
    /\ messageAvailable = [m \in Machines |-> 0]
    /\ messageSent = [m \in Machines |-> 0]
    /\ sendLock = [m \in Machines |-> << >>]
    /\ list = [m \in Machines |-> [b \in Boxes |-> << >>]]
    /\ lock = [m \in Machines |-> [b \in Boxes |-> << >>]]
    /\ listEmpty = [m \in Machines |-> [b \in Boxes |-> {}]]
    /\ lossy \in BOOLEAN
    /\ pc = [t \in Threads |-> IF t \in Machines THEN "messageAvailable" ELSE "idle"]
    /\ mail = [t \in Threads |-> NoPacket]
    /\ calls = 0
    /\ sent = {}

Interrupt(m) == SendDone(m) \/ CheckPktAvail(m)

PostalDelivery(m) ==
    WorkerP(m) \/ WorkerReceive(m) \/ ListAppend(m) \/ AppendRelease(m)

Continue(u) ==
    \/ NetworkSend(u) \/ SendP(u) \/ SendRelease(u)
    \/ ListRemove(u) \/ WaitAcquire(u) \/ RemoveRelease(u)

Next ==
    \/ \E m \in Machines : Interrupt(m) \/ PostalDelivery(m)
    \/ \E u \in Users : Send(u) \/ Receive(u) \/ Continue(u)

Spec == Init /\ [][Next]_vars

(* Interrupts come, and the scheduler's ready list is FIFO.                  *)
Fairness ==
    /\ \A m \in Machines : WF_vars(SendDone(m)) /\ WF_vars(CheckPktAvail(m))
                           /\ WF_vars(PostalDelivery(m))
    /\ \A u \in Users : WF_vars(Continue(u))

FairSpec == Spec /\ Fairness

-----------------------------------------------------------------------------
(* Properties *)

Steps == {"idle", "network", "messageSent", "sendUnlock", "messageAvailable",
          "receive", "append", "remove", "wait", "relock", "unlock"}

Request == [id : {0}, to : Machines, box : Boxes]

TypeOK ==
    /\ socket \in [Machines -> Seq(Packet)]
    /\ inHdr \in [Machines -> Packet \cup {NoPacket}]
    /\ sendDone \in [Machines -> Nat]
    /\ messageAvailable \in [Machines -> Nat]
    /\ messageSent \in [Machines -> Nat]
    /\ sendLock \in [Machines -> Seq(Users)]
    /\ list \in [Machines -> [Boxes -> Seq(Packet)]]
    /\ lock \in [Machines -> [Boxes -> Seq(Threads)]]
    /\ listEmpty \in [Machines -> [Boxes -> SUBSET Users]]
    /\ lossy \in BOOLEAN
    /\ pc \in [Threads -> Steps]
    /\ mail \in [Threads -> Packet \cup {NoPacket} \cup Request]
    /\ calls \in 0..MaxSends
    /\ sent \subseteq Packet

(* The buffered packet and the worker's semaphore agree: the worker never    *)
(* takes an empty buffer for a packet, and no packet sits in the buffer      *)
(* without the worker being told of it.                                      *)
BufferSound ==
    \A m \in Machines :
        messageAvailable[m] + (IF pc[m] = "receive" THEN 1 ELSE 0)
            = (IF inHdr[m] = NoPacket THEN 0 ELSE 1)

(* One packet per machine is on its way to the wire: while a thread waits    *)
(* for messageSent there is one interrupt or one unit for it, and at any     *)
(* other time there is none that a later Send could take for its own: the    *)
(* device is never busy when Network::Send asserts that it is not.           *)
OnePacketAtATime ==
    \A m \in Machines :
        sendDone[m] + messageSent[m] =
            (IF \E u \in Users : Home[u] = m /\ pc[u] = "messageSent" THEN 1 ELSE 0)

(* The threads inside Send are those of the sendLock's queue, once each, and *)
(* only its owner has gone on to the network.                                *)
SendLockSound ==
    \A m \in Machines :
        /\ Distinct(sendLock[m])
        /\ \A u \in Users :
              /\ Queued(sendLock[m], u) <=>
                     Home[u] = m /\ pc[u] \in {"network", "messageSent", "sendUnlock"}
              /\ Home[u] = m /\ pc[u] \in {"messageSent", "sendUnlock"} =>
                     Owns(sendLock[m], u)

(* The machine on which a thread runs, and who is inside the routines of a   *)
(* mailbox's list.                                                           *)
Place(t) == IF t \in Machines THEN t ELSE Home[t]

Inside(t, m, b) ==
    Place(t) = m /\ pc[t] \in {"append", "remove", "unlock"} /\ mail[t].box = b

(* The threads inside a list's Append and Remove are those of its lock's     *)
(* queue, once each; who is past the access to the list is the owner still.  *)
ListLockSound ==
    \A m \in Machines, b \in Boxes :
        /\ Distinct(lock[m][b])
        /\ \A t \in Threads :
              /\ Queued(lock[m][b], t) <=> Inside(t, m, b)
              /\ Inside(t, m, b) /\ pc[t] = "unlock" => Owns(lock[m][b], t)

(* The sending lock and the mailboxes' locks are where the threads' progress *)
(* says: one thread at a time accesses the network and each list, also when  *)
(* a woken receiver comes back for the lock.                                 *)
LocksSound == SendLockSound /\ ListLockSound

(* While threads sleep in Receive, each message in the mailbox has a woken   *)
(* or entering thread on its way to take it.                                 *)
Coming(m, b) == {u \in Users : /\ Home[u] = m /\ mail[u] = Asked(u, b)
                               /\ pc[u] \in {"relock", "remove"}}

NoMissedWakeup ==
    \A m \in Machines, b \in Boxes :
        listEmpty[m][b] # {} => Len(list[m][b]) <= Cardinality(Coming(m, b))

(* A call of Send comes back, whoever else sends and whether or not the      *)
(* network loses its packet.                                                 *)
SendReturns ==
    \A u \in Users : pc[u] = "network" ~> pc[u] = "idle"

(* The mailbox that other machines see: the list, then what the postal       *)
(* worker carries, then the buffer, then the socket.                         *)
Carried(m, b) ==
    IF pc[m] = "append" /\ mail[m].box = b THEN <<mail[m]>> ELSE << >>
Buffered(m, b) ==
    IF inHdr[m] # NoPacket /\ inHdr[m].box = b THEN <<inHdr[m]>> ELSE << >>
Waiting(m, b) == Filter(socket[m], {x \in Packet : x.box = b})

Mailboxes == INSTANCE Mailboxes WITH
    Messages <- Packet,
    mailbox <- [m \in Machines |-> [b \in Boxes |->
        list[m][b] \o Carried(m, b) \o Buffered(m, b) \o Waiting(m, b)]]

(* Packets arrive once, in order, in their mailbox.                          *)
MailboxesSpec == Mailboxes!Spec

=============================================================================
