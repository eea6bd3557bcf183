---------------------------- MODULE LockServers ----------------------------
(***************************************************************************)
(* The multi-server lock service: network/nettest.cc, with the client side *)
(* of its system calls in the NETWORK branches of userprog/exception.cc.   *)
(*                                                                         *)
(* Each server machine runs two threads.  Server serves the requests in    *)
(* mailbox 0 from the machine's tables of locks, conditions and monitor    *)
(* variables; MessageHandler, on mailbox 1, asks the handlers of the other *)
(* machines about a request whose object is not in the table and counts    *)
(* their YES and NO answers.  A client thread sends a request to a random  *)
(* server and blocks until something arrives in its own mailbox.           *)
(*                                                                         *)
(* A step is one turn of a thread's loop: the message it takes, the state  *)
(* it changes, the messages it posts.  The only place where a turn blocks  *)
(* in the middle is the Server's wait for mailbox 9 in WAIT, which splits  *)
(* that turn in two.  The network (one socket per machine, nothing lost at *)
(* the default reliability of 1) keeps the order of sending per mailbox,   *)
(* so a message is put into its mailbox when it is sent.                   *)
(*                                                                         *)
(* Every array of a monitor variable is a function, an index outside the   *)
(* tables is left out, and a request whose fields a call does not use      *)
(* carries their defaults.                                                 *)
(***************************************************************************)
EXTENDS Integers, Sequences, FiniteSets

CONSTANTS NumServers,
          Stride,       \* 100 in the code: index = Stride * machine + number
          MaxObjects,   \* MAX_SERVERLOCKS, MAX_SERVERCONDITIONS, ...
          Clients,      \* client threads, each with a mailbox of its own
          Names,        \* of locks, conditions and monitor variables
          Sizes,        \* array sizes asked for in CreateMV
          Values,       \* what monitor variables hold
          Programs,     \* what the clients may be running, see ProgramType
          Nobody,       \* ThreadID (-1, -1): NO_OWNER, and a request's client
                        \* before it went through a handler
          Null,         \* NULL ThreadID*
          NoName, NoMsg

Servers == 0..(NumServers - 1)
Indexes == {Stride * s + k : s \in Servers, k \in 0..(MaxObjects - 1)}

ErrorCode   == -1
SuccessCode == 0
NoID        == -1

(* The requests of the system calls. *)
SystemCalls == {"CL", "DL", "AQ", "RL", "CC", "DC", "WT", "SG", "BC",
                "CM", "DM", "GM", "SM"}

(* A set of client programs: the system calls they make, the names each      *)
(* client creates, the clients whose mailbox number is 9, whether they pass  *)
(* only indexes that a Create returned, and a bound on the calls of all      *)
(* clients together.                                                         *)
ProgramType ==
    [calls : SUBSET SystemCalls,
     locks : [Clients -> SUBSET Names], conds : [Clients -> SUBSET Names],
     mvs : [Clients -> SUBSET Names], nine : SUBSET Clients,
     careful : BOOLEAN, maxCalls : Nat]

LockServersAssumption ==
    /\ NumServers \in Nat \ {0}
    /\ Stride \in Nat \ {0}
    /\ MaxObjects \in Nat
    /\ Sizes \subseteq Nat
    /\ Values \subseteq Nat
    /\ Programs \subseteq ProgramType
    /\ NoName \notin Names
    /\ Clients \cap (Servers \X {0, 1, 9}) = {}
    /\ {Nobody, Null} \cap (Clients \cup (Servers \X {0, 1, 9})) = {}
    /\ Nobody # Null

ASSUME LockServersAssumption

(* Mailboxes: of Server, of MessageHandler, for the answer to a pseudo       *)
(* message, and of the clients.                                              *)
Srv(s) == <<s, 0>>
Hdl(s) == <<s, 1>>
Ret(s) == <<s, 9>>
Boxes  == Clients \cup (Servers \X {0, 1, 9})

VARIABLES
    mail,                \* postOffice: the messages in each mailbox
    lockTable, condTable, mvTable,   \* per server, the slots with a name
    ider,                \* IDer, per server
    inProgress,          \* inProgressMessages, per server
    blocked,             \* the WAIT request the Server blocks in, or NoMsg
    up,                  \* the server process runs
    program,             \* the programs the clients run; never changes
    request,             \* per client, the request it waits for, or NoMsg
    calls,               \* how many calls were made
    held                 \* history: the locks a client's program may believe
                         \* it holds

tables     == <<lockTable, condTable, mvTable>>
clientVars == <<program, request, calls, held>>
vars == <<mail, lockTable, condTable, mvTable, ider, inProgress, blocked, up,
          program, request, calls, held>>

-----------------------------------------------------------------------------
(* Messages.  What a handler posts is a function from mailboxes to sequences. *)

Nothing  == [b \in Boxes |-> << >>]
To(b, x) == [Nothing EXCEPT ![b] = <<x>>]
f ++ g   == [b \in Boxes |-> f[b] \o g[b]]

(* Take the first message of the mailbox in, post out. *)
Exchange(in, out) ==
    mail' = [b \in Boxes |-> (IF b = in THEN Tail(mail[b]) ELSE mail[b]) \o out[b]]

Reply(n) == [req |-> "HI", idx |-> n]

Default == [req |-> "", name |-> NoName, idx |-> 0, idx2 |-> 0, val |-> 0,
            id |-> NoID, client |-> Nobody, from |-> Nobody]

(* Whom a server answers: the client a handler recorded, or the sender. *)
Requester(m) == IF m.client = Nobody THEN m.from ELSE m.client

InBox9(b) == b \in program.nine \/ \E s \in Servers : b = Ret(s)

With(f, i, r) == [j \in DOMAIN f \cup {i} |-> IF j = i THEN r ELSE f[j]]

FindByName(table, name) == {i \in DOMAIN table : table[i].name = name}

-----------------------------------------------------------------------------
(* MessageHandler *)

(* Variant of Relayed: the newest request comes first. *)
RelayedInFront(s) == [inProgress EXCEPT ![s] =
                         <<[msg |-> Head(mail[Hdl(s)]), yes |-> 0, no |-> 0]>> \o @]

Relayed(s) == [inProgress EXCEPT ![s] =
                  Append(@, [msg |-> Head(mail[Hdl(s)]), yes |-> 0, no |-> 0])]

(* A request from the own server is remembered and sent to every other       *)
(* handler; a server on its own gets it straight back.                       *)
Relay(s) ==
    /\ up[s] /\ mail[Hdl(s)] # << >>
    /\ LET m   == Head(mail[Hdl(s)])
           out == [m EXCEPT !.from = Hdl(s)]
       IN  /\ m.from = Srv(s)
           /\ Exchange(Hdl(s),
                  IF NumServers = 1
                  THEN To(Srv(s), [Head(Relayed(s)[s]).msg EXCEPT !.from = Hdl(s)])
                  ELSE [b \in Boxes |-> IF \E r \in Servers \ {s} : b = Hdl(r)
                                        THEN <<out>> ELSE << >>])
           /\ inProgress' = IF NumServers = 1
                            THEN [inProgress EXCEPT ![s] = Tail(Relayed(s)[s])]
                            ELSE Relayed(s)
    /\ UNCHANGED <<tables, ider, blocked, up, clientVars>>

(* The object a relayed request is about is in the table of s. *)
Owns(s, m) ==
    \/ m.req = "CL" /\ FindByName(lockTable[s], m.name) # {}
    \/ m.req \in {"DL", "RL", "AQ"} /\ m.idx \in DOMAIN lockTable[s]
    \/ m.req = "CC" /\ FindByName(condTable[s], m.name) # {}
    \/ m.req \in {"DC", "WT", "SG", "BC"} /\ m.idx \in DOMAIN condTable[s]
    \/ m.req = "CM" /\ FindByName(mvTable[s], m.name) # {}
    \/ m.req \in {"DM", "GM", "SM"} /\ m.idx \in DOMAIN mvTable[s]

(* A request from another handler: pass it to the own server if the object   *)
(* is there, and answer YES or NO.                                           *)
Ask(s) ==
    /\ up[s] /\ mail[Hdl(s)] # << >>
    /\ LET m      == Head(mail[Hdl(s)])
           yes(r) == [m EXCEPT !.req = r, !.from = Hdl(s)]
       IN  /\ m.from # Srv(s) /\ m.req \notin {"YS", "NO"}
           /\ \/ /\ Owns(s, m)
                 /\ Exchange(Hdl(s), To(Srv(s), [m EXCEPT !.from = Hdl(s)])
                                     ++ To(m.from, yes("YS")))
              \/ /\ ~Owns(s, m)
                 /\ Exchange(Hdl(s), To(m.from, yes("NO")))
    /\ UNCHANGED <<tables, ider, inProgress, blocked, up, clientVars>>

(* The list after the reply m was counted on the entry with its ID. *)
Counted(s, m) ==
    [i \in DOMAIN inProgress[s] |->
        LET e == inProgress[s][i]
        IN  IF e.msg.id # m.id THEN e
            ELSE IF m.req = "YS" THEN [e EXCEPT !.yes = @ + 1]
            ELSE [e EXCEPT !.no = @ + 1]]

(* Variants of Verdict: a YES is not looked at; a request nobody owns is     *)
(* dropped.                                                                  *)
VerdictIgnoresYes(s, e, m) == To(Srv(s), [e.msg EXCEPT !.from = Hdl(s)])
VerdictDropsNo(s, e, m)    == Nothing

(* All servers have answered for the entry e, the last with m: with a YES    *)
(* the server that said so has the request (with several the entry is thrown *)
(* away, too); with none the own Server gets it back, and a request made     *)
(* from a mailbox 9 is answered with an error.                               *)
Verdict(s, e, m) ==
    IF e.yes # 0 THEN Nothing
    ELSE IF InBox9(m.client) THEN To(m.client, Reply(ErrorCode))
    ELSE To(Srv(s), [e.msg EXCEPT !.from = Hdl(s)])

(* A reply is counted; the entry at the head of the list, and only that one, *)
(* is then looked at and, if it is complete, removed.                        *)
CountReply(s) ==
    /\ up[s] /\ mail[Hdl(s)] # << >>
    /\ LET m    == Head(mail[Hdl(s)])
           list == Counted(s, m)
           complete == /\ list # << >>
                       /\ Head(list).yes + Head(list).no = NumServers - 1
       IN  /\ m.from # Srv(s) /\ m.req \in {"YS", "NO"}
           /\ \/ /\ ~complete
                 /\ Exchange(Hdl(s), Nothing)
                 /\ inProgress' = [inProgress EXCEPT ![s] = list]
              \/ /\ complete
                 /\ Exchange(Hdl(s), Verdict(s, Head(list), m))
                 /\ inProgress' = [inProgress EXCEPT ![s] = Tail(list)]
    /\ UNCHANGED <<tables, ider, blocked, up, clientVars>>

-----------------------------------------------------------------------------
(* Server: what the turns have in common. *)

(* s takes the request m from its mailbox. *)
Takes(s, m, req) ==
    /\ up[s] /\ blocked[s] = NoMsg
    /\ mail[Srv(s)] # << >>
    /\ m = Head(mail[Srv(s)])
    /\ m.req = req

Answer(s, m, n) == Exchange(Srv(s), To(Requester(m), Reply(n)))

(* A message of s's own to its handler. *)
Pass(s, m) == To(Hdl(s), [m EXCEPT !.id = 100 * s + ider[s], !.from = Srv(s)])

PassOn(s, m) ==
    /\ Exchange(Srv(s), Pass(s, [m EXCEPT !.client = m.from]))
    /\ ider' = [ider EXCEPT ![s] = @ + 1]

(* The object is not in the table: ask the other servers, or, when they have *)
(* been asked already, answer with an error.                                 *)
NotHere(s, m) ==
    /\ \/ m.id = NoID /\ PassOn(s, m)
       \/ m.id # NoID /\ Answer(s, m, ErrorCode) /\ UNCHANGED ider
    /\ UNCHANGED <<tables, blocked, up>>

(* A turn that only answers. *)
Refuse(s, m) ==
    /\ Answer(s, m, ErrorCode)
    /\ UNCHANGED <<tables, ider, blocked, up>>

SetLock(s, i, r) ==
    /\ lockTable' = [lockTable EXCEPT ![s] = With(@, i, r)]
    /\ UNCHANGED <<condTable, mvTable>>

SetCond(s, i, r) ==
    /\ condTable' = [condTable EXCEPT ![s] = With(@, i, r)]
    /\ UNCHANGED <<lockTable, mvTable>>

SetMVar(s, i, r) ==
    /\ mvTable' = [mvTable EXCEPT ![s] = With(@, i, r)]
    /\ UNCHANGED <<lockTable, condTable>>

(* The index of the next slot of a table. *)
NextIndex(s, table) == Stride * s + Cardinality(DOMAIN table)

NoRoom(table) == Cardinality(DOMAIN table) >= MaxObjects

Unlocked(L) == L.owner = Nobody /\ L.queue = << >>

(* Variant of HandedOver: the waiter is told, the lock is free. *)
HandedOverFree(L) == [L EXCEPT !.owner = Nobody,
                               !.queue = IF @ = << >> THEN @ ELSE Tail(@)]

(* The lock after its owner let go of it: the first in its queue has it. *)
HandedOver(L) ==
    IF L.queue = << >> THEN [L EXCEPT !.owner = Nobody]
    ELSE [L EXCEPT !.owner = Head(L.queue), !.queue = Tail(L.queue)]

(* Telling the next owner: an ID that is NULL, or no machine's, kills the    *)
(* process before anything is sent.                                          *)
Grant(s, L, out) ==
    \/ /\ L.queue = << >>
       /\ Exchange(Srv(s), out) /\ UNCHANGED up
    \/ /\ L.queue # << >> /\ Head(L.queue) \in Boxes
       /\ Exchange(Srv(s), out ++ To(Head(L.queue), Reply(SuccessCode)))
       /\ UNCHANGED up
    \/ /\ L.queue # << >> /\ Head(L.queue) \notin Boxes
       /\ Exchange(Srv(s), out)
       /\ up' = [up EXCEPT ![s] = FALSE]

-----------------------------------------------------------------------------
(* Server: locks *)

CreateLock(s, m) ==
    /\ Takes(s, m, "CL")
    /\ LET found == FindByName(lockTable[s], m.name)
           i     == NextIndex(s, lockTable[s])
       IN  \/ /\ found # {}
              /\ \E j \in found : Answer(s, m, j)
              /\ UNCHANGED <<tables, ider, blocked, up>>
           \/ /\ found = {} /\ m.id = NoID
              /\ NotHere(s, m)
           \/ /\ found = {} /\ m.id # NoID /\ NoRoom(lockTable[s])
              /\ Refuse(s, m)
           \/ /\ found = {} /\ m.id # NoID /\ ~NoRoom(lockTable[s])
              /\ SetLock(s, i, [name |-> m.name, owner |-> Nobody, queue |-> << >>,
                                toBeDeleted |-> FALSE, deleted |-> FALSE])
              /\ Exchange(Srv(s), To(m.client, Reply(i)))
              /\ UNCHANGED <<ider, blocked, up>>
    /\ UNCHANGED <<inProgress, clientVars>>

DestroyLock(s, m) ==
    /\ Takes(s, m, "DL")
    /\ \/ /\ m.idx \notin DOMAIN lockTable[s]
          /\ NotHere(s, m)
       \/ /\ m.idx \in DOMAIN lockTable[s]
          /\ LET L == lockTable[s][m.idx]
             IN  SetLock(s, m.idx, [L EXCEPT !.toBeDeleted = TRUE,
                                             !.deleted = @ \/ Unlocked(L)])
          /\ Answer(s, m, SuccessCode)
          /\ UNCHANGED <<ider, blocked, up>>
    /\ UNCHANGED <<inProgress, clientVars>>

(* Acquire is answered when the lock is granted. *)
Acquire(s, m) ==
    /\ Takes(s, m, "AQ")
    /\ LET i == m.idx
           L == lockTable[s][i]
           c == Requester(m)
           mine == L.owner \in {m.from, c}
       IN  \/ i \notin DOMAIN lockTable[s] /\ NotHere(s, m)
           \/ i \in DOMAIN lockTable[s] /\ (L.deleted \/ L.toBeDeleted) /\ Refuse(s, m)
           \/ /\ i \in DOMAIN lockTable[s] /\ ~L.deleted /\ ~L.toBeDeleted
              /\ \/ /\ Unlocked(L)
                    /\ SetLock(s, i, [L EXCEPT !.owner = c])
                    /\ Answer(s, m, SuccessCode)
                    /\ UNCHANGED <<ider, blocked, up>>
                 \/ ~Unlocked(L) /\ mine /\ Refuse(s, m)
                 \/ /\ ~Unlocked(L) /\ ~mine
                    /\ SetLock(s, i, [L EXCEPT !.queue = Append(@, c)])
                    /\ Exchange(Srv(s), Nothing)
                    /\ UNCHANGED <<ider, blocked, up>>
    /\ UNCHANGED <<inProgress, clientVars>>

(* Variant of MayRelease: nobody is turned away. *)
AnyoneMayRelease(L, m) == TRUE

MayRelease(L, m) == L.owner \in {m.from, Requester(m)} \/ InBox9(Requester(m))

(* Release: by the owner, or by anyone whose mailbox number is 9. *)
Release(s, m) ==
    /\ Takes(s, m, "RL")
    /\ LET i == m.idx
           L == lockTable[s][i]
           c == Requester(m)
           may == MayRelease(L, m)
           H == HandedOver(L)
       IN  \/ i \notin DOMAIN lockTable[s] /\ NotHere(s, m)
           \/ i \in DOMAIN lockTable[s] /\ (L.deleted \/ ~may) /\ Refuse(s, m)
           \/ /\ i \in DOMAIN lockTable[s] /\ ~L.deleted /\ may
              /\ SetLock(s, i, [H EXCEPT !.deleted = L.toBeDeleted /\ L.queue = << >>])
              /\ Grant(s, L, To(c, Reply(SuccessCode)))
              /\ UNCHANGED <<ider, blocked>>
    /\ UNCHANGED <<inProgress, clientVars>>

-----------------------------------------------------------------------------
(* Server: conditions *)

CreateCondition(s, m) ==
    /\ Takes(s, m, "CC")
    /\ LET found == FindByName(condTable[s], m.name)
           i     == NextIndex(s, condTable[s])
       IN  \/ NoRoom(condTable[s]) /\ Refuse(s, m)
           \/ /\ ~NoRoom(condTable[s]) /\ found # {}
              /\ \E j \in found : Answer(s, m, j)
              /\ UNCHANGED <<tables, ider, blocked, up>>
           \/ /\ ~NoRoom(condTable[s]) /\ found = {} /\ m.id = NoID
              /\ NotHere(s, m)
           \/ /\ ~NoRoom(condTable[s]) /\ found = {} /\ m.id # NoID
              /\ SetCond(s, i, [name |-> m.name, queue |-> << >>,
                                toBeDeleted |-> FALSE, deleted |-> FALSE])
              /\ Exchange(Srv(s), To(m.client, Reply(i)))
              /\ UNCHANGED <<ider, blocked, up>>
    /\ UNCHANGED <<inProgress, clientVars>>

DestroyCondition(s, m) ==
    /\ Takes(s, m, "DC")
    /\ \/ /\ m.idx \notin DOMAIN condTable[s]
          /\ NotHere(s, m)
       \/ /\ m.idx \in DOMAIN condTable[s]
          /\ LET C == condTable[s][m.idx]
             IN  SetCond(s, m.idx, [C EXCEPT !.toBeDeleted = TRUE,
                                             !.deleted = @ \/ C.queue = << >>])
          /\ Answer(s, m, SuccessCode)
          /\ UNCHANGED <<ider, blocked, up>>
    /\ UNCHANGED <<inProgress, clientVars>>

(* What WAIT, SIGNAL and BROADCAST do first. *)
Unusable(s, m) ==
    \/ m.idx \notin DOMAIN condTable[s] /\ NotHere(s, m)
    \/ /\ m.idx \in DOMAIN condTable[s]
       /\ condTable[s][m.idx].deleted \/ condTable[s][m.idx].toBeDeleted
       /\ Refuse(s, m)

Usable(s, m) ==
    /\ m.idx \in DOMAIN condTable[s]
    /\ ~condTable[s][m.idx].deleted /\ ~condTable[s][m.idx].toBeDeleted

(* WAIT.  The lock is here: the owner of the lock, not the requester, joins  *)
(* the queue, and the lock goes to the next.  It is not: the Server sends a  *)
(* Release from mailbox 9 to its own handler and blocks for the answer.      *)
Wait(s, m) ==
    /\ Takes(s, m, "WT")
    /\ \/ Unusable(s, m)
       \/ /\ Usable(s, m) /\ m.idx2 \in DOMAIN lockTable[s]
          /\ LET L == lockTable[s][m.idx2]
             IN  /\ condTable' = [condTable EXCEPT ![s][m.idx].queue = Append(@, L.owner)]
                 /\ lockTable' = [lockTable EXCEPT ![s][m.idx2] = HandedOver(L)]
                 /\ Grant(s, L, Nothing)
          /\ UNCHANGED <<mvTable, ider, blocked>>
       \/ /\ Usable(s, m) /\ m.idx2 \notin DOMAIN lockTable[s]
          /\ Exchange(Srv(s), Pass(s, [Default EXCEPT !.req = "RL", !.idx = m.idx2,
                                                      !.client = Ret(s)]))
          /\ ider' = [ider EXCEPT ![s] = @ + 1]
          /\ blocked' = [blocked EXCEPT ![s] = m]
          /\ UNCHANGED <<tables, up>>
    /\ UNCHANGED <<inProgress, clientVars>>

(* The answer arrived in mailbox 9: only now does the client join the queue. *)
WaitResumes(s) ==
    /\ up[s] /\ blocked[s] # NoMsg /\ mail[Ret(s)] # << >>
    /\ LET m == blocked[s]
           c == Requester(m)
       IN  \/ /\ Head(mail[Ret(s)]).idx # ErrorCode
              /\ SetCond(s, m.idx, [condTable[s][m.idx] EXCEPT !.queue = Append(@, c)])
              /\ Exchange(Ret(s), Nothing)
           \/ /\ Head(mail[Ret(s)]).idx = ErrorCode
              /\ Exchange(Ret(s), To(c, Reply(ErrorCode)))
              /\ UNCHANGED tables
    /\ blocked' = [blocked EXCEPT ![s] = NoMsg]
    /\ UNCHANGED <<ider, inProgress, up, clientVars>>

(* The Acquire that s sends to its own handler for a thread that waited. *)
AcquireFor(id, m) == [Default EXCEPT !.req = "AQ", !.idx = m.idx2, !.client = id]

(* Variant of AfterSignal: the thread signalled stays in the queue. *)
KeepsWaiter(C) == C

(* The condition without its first waiter. *)
AfterSignal(C) == [C EXCEPT !.queue = IF @ = << >> THEN @ ELSE Tail(@)]

(* SIGNAL.  The lock is here: the first waiter moves to the lock's queue,    *)
(* Remove's NULL if there is none.  It is not: the Server acquires the lock  *)
(* for the first waiter, and getFirst on an empty queue kills the process.   *)
Signal(s, m) ==
    /\ Takes(s, m, "SG")
    /\ LET C == condTable[s][m.idx]
           L == lockTable[s][m.idx2]
           here == m.idx2 \in DOMAIN lockTable[s]
           id   == IF C.queue = << >> THEN Null ELSE Head(C.queue)
       IN  \/ Unusable(s, m)
           \/ /\ Usable(s, m) /\ here
              /\ condTable' = [condTable EXCEPT ![s][m.idx] = AfterSignal(C)]
              /\ lockTable' = [lockTable EXCEPT ![s][m.idx2].queue = Append(@, id)]
              /\ Answer(s, m, SuccessCode)
              /\ UNCHANGED <<mvTable, ider, blocked, up>>
           \/ /\ Usable(s, m) /\ ~here /\ C.queue # << >>
              /\ SetCond(s, m.idx, AfterSignal(C))
              /\ Exchange(Srv(s), Pass(s, AcquireFor(id, m))
                                  ++ To(Requester(m), Reply(SuccessCode)))
              /\ ider' = [ider EXCEPT ![s] = @ + 1]
              /\ UNCHANGED <<blocked, up>>
           \/ /\ Usable(s, m) /\ ~here /\ C.queue = << >>
              /\ Exchange(Srv(s), Nothing)
              /\ ider' = [ider EXCEPT ![s] = @ + 1]
              /\ up' = [up EXCEPT ![s] = FALSE]
              /\ UNCHANGED <<tables, blocked>>
    /\ UNCHANGED <<inProgress, clientVars>>

(* BROADCAST: the same for every waiter. *)
Broadcast(s, m) ==
    /\ Takes(s, m, "BC")
    /\ LET C == condTable[s][m.idx]
           here == m.idx2 \in DOMAIN lockTable[s]
           none == [C EXCEPT !.queue = << >>]
           acquires == [i \in DOMAIN C.queue |->
                           [AcquireFor(C.queue[i], m) EXCEPT
                                !.id = 100 * s + ider[s] + i - 1, !.from = Srv(s)]]
       IN  \/ Unusable(s, m)
           \/ /\ Usable(s, m) /\ here
              /\ condTable' = [condTable EXCEPT ![s][m.idx] = none]
              /\ lockTable' = [lockTable EXCEPT ![s][m.idx2].queue = @ \o C.queue]
              /\ Answer(s, m, SuccessCode)
              /\ UNCHANGED <<mvTable, ider, blocked, up>>
           \/ /\ Usable(s, m) /\ ~here
              /\ SetCond(s, m.idx, none)
              /\ Exchange(Srv(s), [Nothing EXCEPT ![Hdl(s)] = acquires]
                                  ++ To(Requester(m), Reply(SuccessCode)))
              /\ ider' = [ider EXCEPT ![s] = @ + Len(C.queue)]
              /\ UNCHANGED <<blocked, up>>
    /\ UNCHANGED <<inProgress, clientVars>>

-----------------------------------------------------------------------------
(* Server: monitor variables *)

(* CREATE MV.  A full table is answered with a message whose index was never *)
(* written; a new array holds what its memory held.                          *)
CreateMV(s, m) ==
    /\ Takes(s, m, "CM")
    /\ LET found == FindByName(mvTable[s], m.name)
           i     == NextIndex(s, mvTable[s])
           size  == m.idx2
           full  == NoRoom(mvTable[s])
       IN  \/ /\ full
              /\ \E n \in Indexes \cup {ErrorCode} : Answer(s, m, n)
              /\ UNCHANGED <<tables, ider, blocked, up>>
           \/ ~full /\ size < 1 /\ Refuse(s, m)
           \/ /\ ~full /\ size >= 1 /\ found # {}
              /\ \E j \in found : Answer(s, m, j)
              /\ UNCHANGED <<tables, ider, blocked, up>>
           \/ /\ ~full /\ size >= 1 /\ found = {} /\ m.id = NoID
              /\ NotHere(s, m)
           \/ /\ ~full /\ size >= 1 /\ found = {} /\ m.id # NoID
              /\ \E a \in [0..(size - 1) -> Values] :
                     SetMVar(s, i, [name |-> m.name, array |-> a,
                                    toBeDeleted |-> FALSE, deleted |-> FALSE])
              /\ Exchange(Srv(s), To(m.client, Reply(i)))
              /\ UNCHANGED <<ider, blocked, up>>
    /\ UNCHANGED <<inProgress, clientVars>>

DestroyMV(s, m) ==
    /\ Takes(s, m, "DM")
    /\ \/ /\ m.idx \notin DOMAIN mvTable[s]
          /\ NotHere(s, m)
       \/ /\ m.idx \in DOMAIN mvTable[s]
          /\ SetMVar(s, m.idx, [mvTable[s][m.idx] EXCEPT !.toBeDeleted = TRUE,
                                                         !.deleted = TRUE])
          /\ Answer(s, m, SuccessCode)
          /\ UNCHANGED <<ider, blocked, up>>
    /\ UNCHANGED <<inProgress, clientVars>>

(* GET and SET look at the array's bounds, not at the deleted flags. *)
GetMV(s, m) ==
    /\ Takes(s, m, "GM")
    /\ LET array == mvTable[s][m.idx].array
       IN  \/ m.idx \notin DOMAIN mvTable[s] /\ NotHere(s, m)
           \/ m.idx \in DOMAIN mvTable[s] /\ m.idx2 \notin DOMAIN array /\ Refuse(s, m)
           \/ /\ m.idx \in DOMAIN mvTable[s] /\ m.idx2 \in DOMAIN array
              /\ Answer(s, m, array[m.idx2])
              /\ UNCHANGED <<tables, ider, blocked, up>>
    /\ UNCHANGED <<inProgress, clientVars>>

SetMV(s, m) ==
    /\ Takes(s, m, "SM")
    /\ LET V == mvTable[s][m.idx]
       IN  \/ m.idx \notin DOMAIN mvTable[s] /\ NotHere(s, m)
           \/ m.idx \in DOMAIN mvTable[s] /\ m.idx2 \notin DOMAIN V.array /\ Refuse(s, m)
           \/ /\ m.idx \in DOMAIN mvTable[s] /\ m.idx2 \in DOMAIN V.array
              /\ SetMVar(s, m.idx, [V EXCEPT !.array[m.idx2] = m.val])
              /\ Answer(s, m, SuccessCode)
              /\ UNCHANGED <<ider, blocked, up>>
    /\ UNCHANGED <<inProgress, clientVars>>

-----------------------------------------------------------------------------
(* Clients *)

(* The indexes a program passes. *)
Indices(table) == IF program.careful THEN UNION {DOMAIN table[s] : s \in Servers} ELSE Indexes

(* What each system call may send.  A program waits, signals and broadcasts  *)
(* only with a lock it holds, which the write-up assumes of every program.   *)
Naming(req, c, names) ==
    {[Default EXCEPT !.req = req, !.name = n, !.from = c] : n \in names}

On(req, c, table) ==
    {[Default EXCEPT !.req = req, !.idx = i, !.from = c] : i \in Indices(table)}

Second(requests, numbers) == {[r EXCEPT !.idx2 = j] : r \in requests, j \in numbers}

Cells == UNION {0..size : size \in Sizes}

CreateLock_Syscall(c)       == Naming("CL", c, program.locks[c])
DestroyLock_Syscall(c)      == On("DL", c, lockTable)
Acquire_Syscall(c)          == On("AQ", c, lockTable)
Release_Syscall(c)          == On("RL", c, lockTable)
CreateCondition_Syscall(c)  == Naming("CC", c, program.conds[c])
DestroyCondition_Syscall(c) == On("DC", c, condTable)
Wait_Syscall(c)             == Second(On("WT", c, condTable), held[c])
Signal_Syscall(c)           == Second(On("SG", c, condTable), held[c])
Broadcast_Syscall(c)        == Second(On("BC", c, condTable), held[c])
CreateMV_Syscall(c)         == Second(Naming("CM", c, program.mvs[c]), Sizes)
DestroyMV_Syscall(c)        == On("DM", c, mvTable)
GetMV_Syscall(c)            == Second(On("GM", c, mvTable), Cells)
SetMV_Syscall(c) ==
    {[r EXCEPT !.val = v] : r \in Second(On("SM", c, mvTable), Cells), v \in Values}

Requests(c) ==
    {r \in CreateLock_Syscall(c) \cup DestroyLock_Syscall(c) \cup Acquire_Syscall(c)
            \cup Release_Syscall(c) \cup CreateCondition_Syscall(c)
            \cup DestroyCondition_Syscall(c) \cup Wait_Syscall(c) \cup Signal_Syscall(c)
            \cup Broadcast_Syscall(c) \cup CreateMV_Syscall(c) \cup DestroyMV_Syscall(c)
            \cup GetMV_Syscall(c) \cup SetMV_Syscall(c) :
        r.req \in program.calls}

(* The client's system call, up to its Receive.  The lock that a Release or  *)
(* a Wait names is given up.                                                 *)
Call(c) ==
    /\ request[c] = NoMsg /\ calls < program.maxCalls
    /\ \E s \in Servers, m \in Requests(c) :
          /\ mail' = [mail EXCEPT ![Srv(s)] = Append(@, m)]
          /\ request' = [request EXCEPT ![c] = m]
          /\ held' = [held EXCEPT ![c] =
                         IF m.req = "RL" THEN @ \ {m.idx}
                         ELSE IF m.req = "WT" THEN @ \ {m.idx2} ELSE @]
    /\ calls' = calls + 1
    /\ UNCHANGED <<tables, ider, inProgress, blocked, up, program>>

(* Whatever arrives first in the mailbox is the call's result: an index of   *)
(* ErrorCode is a failure, anything else means that the lock is held.        *)
Return(c) ==
    /\ request[c] # NoMsg /\ mail[c] # << >>
    /\ LET m    == request[c]
           lock == IF m.req = "AQ" THEN {m.idx}
                   ELSE IF m.req = "WT" THEN {m.idx2} ELSE {}
       IN  held' = [held EXCEPT ![c] =
                       IF Head(mail[c]).idx = ErrorCode THEN @ ELSE @ \cup lock]
    /\ Exchange(c, Nothing)
    /\ request' = [request EXCEPT ![c] = NoMsg]
    /\ UNCHANGED <<tables, ider, inProgress, blocked, up, program, calls>>

-----------------------------------------------------------------------------

Init ==
    /\ mail = Nothing
    /\ lockTable = [s \in Servers |-> << >>]
    /\ condTable = [s \in Servers |-> << >>]
    /\ mvTable = [s \in Servers |-> << >>]
    /\ ider = [s \in Servers |-> 0]
    /\ inProgress = [s \in Servers |-> << >>]
    /\ blocked = [s \in Servers |-> NoMsg]
    /\ up = [s \in Servers |-> TRUE]
    /\ program \in Programs
    /\ request = [c \in Clients |-> NoMsg]
    /\ calls = 0
    /\ held = [c \in Clients |-> {}]

Serve(s, m) ==
    \/ CreateLock(s, m) \/ DestroyLock(s, m) \/ Acquire(s, m) \/ Release(s, m)
    \/ CreateCondition(s, m) \/ DestroyCondition(s, m)
    \/ Wait(s, m) \/ Signal(s, m) \/ Broadcast(s, m)
    \/ CreateMV(s, m) \/ DestroyMV(s, m) \/ GetMV(s, m) \/ SetMV(s, m)

Server(s) ==
    \/ mail[Srv(s)] # << >> /\ Serve(s, Head(mail[Srv(s)]))
    \/ WaitResumes(s)

MessageHandler(s) == Relay(s) \/ Ask(s) \/ CountReply(s)

Next ==
    \/ \E s \in Servers : Server(s) \/ MessageHandler(s)
    \/ \E c \in Clients : Call(c) \/ Return(c)

Spec == Init /\ [][Next]_vars

(* Each server's two threads keep running, and so does a client whose answer *)
(* has arrived.                                                              *)
Fairness ==
    /\ \A s \in Servers : WF_vars(Server(s)) /\ WF_vars(MessageHandler(s))
    /\ \A c \in Clients : WF_vars(Return(c))

FairSpec == Spec /\ Fairness

-----------------------------------------------------------------------------
(* Properties *)

Ids   == Clients \cup (Servers \X {0, 1, 9}) \cup {Nobody, Null}

Message == [req : SystemCalls \cup {"YS", "NO"}, name : Names \cup {NoName}, idx : Int, idx2 : Int,
            val : Int, id : Int, client : Ids, from : Ids]

(* NoMsg stands for no message at all.                                       *)
ASSUME NoMsgAssumption == NoMsg \notin Message

Slots(extra) == UNION {[D -> extra] : D \in SUBSET Indexes}

LockSlot == [name : Names, owner : Ids, queue : Seq(Ids),
             toBeDeleted : BOOLEAN, deleted : BOOLEAN]
CondSlot == [name : Names, queue : Seq(Ids), toBeDeleted : BOOLEAN, deleted : BOOLEAN]

(* The types of the variables: in particular requests and answers never get  *)
(* into each other's mailboxes.                                              *)
TypeOK ==
    /\ \A b \in Boxes : mail[b] \in
          IF b \in Clients \/ InBox9(b) THEN Seq([req : {"HI"}, idx : Int])
          ELSE Seq(Message)
    /\ \A s \in Servers :
          /\ DOMAIN lockTable[s] \subseteq Indexes
          /\ \A i \in DOMAIN lockTable[s] : lockTable[s][i] \in LockSlot
          /\ DOMAIN condTable[s] \subseteq Indexes
          /\ \A i \in DOMAIN condTable[s] : condTable[s][i] \in CondSlot
          /\ DOMAIN mvTable[s] \subseteq Indexes
          /\ inProgress[s] \in Seq([msg : Message, yes : Nat, no : Nat])
    /\ ider \in [Servers -> Nat]
    /\ blocked \in [Servers -> Message \cup {NoMsg}]
    /\ up \in [Servers -> BOOLEAN]
    /\ request \in [Clients -> Message \cup {NoMsg}]
    /\ program \in Programs
    /\ calls \in 0..program.maxCalls
    /\ held \in [Clients -> SUBSET Indexes]

(* Two client programs never both hold the lock of one index, through        *)
(* relayed requests, hand-overs, and waits whose lock is on another server.  *)
MutualExclusion ==
    \A c, d \in Clients : c # d => held[c] \cap held[d] = {}

(* A client that is not in a call has nothing in its mailbox, and one in a   *)
(* call gets one answer: two servers never both answer a request, and no     *)
(* late answer is there to be taken for that of the next call.               *)
OneAnswer ==
    \A c \in Clients : mail[c] # << >> => request[c] # NoMsg /\ Len(mail[c]) = 1

(* CountReply looks at the head of the list only.  No entry behind it is     *)
(* ever complete, and none stays complete: otherwise its request would never *)
(* be passed on and its client would wait for ever.                          *)
NoReplyOverlooked ==
    \A s \in Servers : \A i \in DOMAIN inProgress[s] :
        inProgress[s][i].yes + inProgress[s][i].no < NumServers - 1

(* The objects of one name: a name that one server's table has is not given  *)
(* to a second object of another server, whoever asks whom in which order.   *)
(* It holds of names that one client creates.  Two clients that create one   *)
(* at a time get two objects, which the write-up's "already exists" excludes *)
(* (README, section 5): a part of the invariants of proofs, not of a run.    *)
OneObjectPerName ==
    \A r, s \in Servers : r # s =>
        /\ \A i \in DOMAIN lockTable[r] : FindByName(lockTable[s], lockTable[r][i].name) = {}
        /\ \A i \in DOMAIN condTable[r] : FindByName(condTable[s], condTable[r][i].name) = {}
        /\ \A i \in DOMAIN mvTable[r] : FindByName(mvTable[s], mvTable[r][i].name) = {}

RangeOf(q) == {q[i] : i \in DOMAIN q}

(* The threads in queues of locks and conditions are clients in a call of    *)
(* Acquire or Wait on that lock or condition, each in one place of one       *)
(* queue, and the owner of a lock is in none of them.                        *)
QueuedClientsWait ==
    \A s \in Servers :
        /\ \A i \in DOMAIN lockTable[s] : \A c \in RangeOf(lockTable[s][i].queue) \cap Clients :
              /\ lockTable[s][i].owner # c
              /\ request[c] # NoMsg /\ mail[c] = << >>
              /\ \/ request[c].req = "AQ" /\ request[c].idx = i
                 \/ request[c].req = "WT" /\ request[c].idx2 = i
        /\ \A i \in DOMAIN condTable[s] : \A c \in RangeOf(condTable[s][i].queue) :
              /\ c \in Clients
              /\ request[c] # NoMsg /\ mail[c] = << >>
              /\ request[c].req = "WT" /\ request[c].idx = i
              /\ \A r \in Servers : \A j \in DOMAIN lockTable[r] :
                    c \notin RangeOf(lockTable[r][j].queue) \cup {lockTable[r][j].owner}

(* Nobody queues for a free lock.                                            *)
FreeLockHasNoQueue ==
    \A s \in Servers : \A i \in DOMAIN lockTable[s] :
        lockTable[s][i].owner = Nobody => lockTable[s][i].queue = << >>

(* A WAIT that is still to be served finds its lock owned by the client that *)
(* waits, wherever the lock is: this is what makes it right that the Server  *)
(* queues the lock's owner, and that no signal comes between the release and *)
(* the queueing.                                                             *)
WaiterOwnsLock ==
    \A r, s \in Servers : \A k \in DOMAIN mail[Srv(s)] :
        LET m == mail[Srv(s)][k]
        IN  m.req = "WT" /\ m.idx2 \in DOMAIN lockTable[r] =>
                lockTable[r][m.idx2].owner = Requester(m)

(* The tables are of their types, and queues, owners and calls agree at      *)
(* every server in these three ways.                                         *)
QueuesSound == TypeOK /\ QueuedClientsWait /\ FreeLockHasNoQueue /\ WaiterOwnsLock

(* A lock is taken from a client only when that client's call of Release or  *)
(* Wait names it.  A client whose mailbox is 9 is not asked whether it owns  *)
(* what it releases, against the comment on the test (README, section 5).    *)
OnlyOwnerReleases ==
    [][\A s \in Servers : \A i \in DOMAIN lockTable[s] :
          LET c == lockTable[s][i].owner
          IN  c \in Clients /\ lockTable'[s][i].owner # c =>
                  /\ request[c] # NoMsg
                  /\ \/ request[c].req = "RL" /\ request[c].idx = i
                     \/ request[c].req = "WT" /\ request[c].idx2 = i]_vars

(* Every call but Acquire and Wait, which may have to wait for others, is    *)
(* answered.                                                                 *)
CallsAnswered ==
    \A c \in Clients :
        request[c] # NoMsg /\ request[c].req \notin {"AQ", "WT"} ~> request[c] = NoMsg

=============================================================================
