-------------------------- MODULE LockServersCalls --------------------------
(***************************************************************************)
(* Theorems about the calls of the clients of LockServers, for the         *)
(* programs of LockServersProofs.                                          *)
(*                                                                         *)
(* The call of a client is in one place at a time (Placed), and what is    *)
(* there is the client's request (CopiesSound).  A request in a list is    *)
(* there only while no other server has said that it took it over (Open),  *)
(* which at most one server can do (SingleOwner): of two servers because   *)
(* only one other is asked, of more because the indexes of their objects   *)
(* differ and no name is given twice.  The last is an invariant of its own *)
(* (NamesSound), and what clients hold, with what they were told and have  *)
(* not read, is another (HoldsSound).  The last part adds what the mail    *)
(* and the tables hold (SlotsTyped) and where the indexes of the clients   *)
(* come from (ClientTypes).                                                *)
(***************************************************************************)
EXTENDS LockServersProofs

USE LockServersAssumption

-----------------------------------------------------------------------------
(* The call of each client stays in one place. *)

AllPlaced == \A c \in Clients : Placed(c)

LEMMA OneMoves ==
    ASSUME AllPlaced, request' = request, NEW c \in Clients,
           NEW p \in Places, NEW q \in Places,
           p[1] \in PlaceKinds, q[1] \in PlaceKinds, p[1] # q[1],
           Leaves(p[1], c, p), Enters(q[1], c, q),
           \A k \in PlaceKinds \ {p[1], q[1]} : Stays(k, c),
           \A d \in Clients \ {c} : \A k \in PlaceKinds : Stays(k, d)
    PROVE  AllPlaced' /\ At(c, p)
  <1>1. Placed(c)' /\ At(c, p)
    BY PlacedMoves DEF AllPlaced
  <1>2. \A d \in Clients \ {c} : Placed(d)'
    BY PlacedKept DEF AllPlaced
  <1> QED
    BY <1>1, <1>2 DEF AllPlaced

LEMMA NoneMoves ==
    ASSUME AllPlaced, request' = request, \A d \in Clients : \A k \in PlaceKinds : Stays(k, d)
    PROVE  AllPlaced'
  BY PlacedKept DEF AllPlaced

LEMMA IndexesOf ==
    ASSUME TablesSound, NEW s \in Servers, NEW i \in DOMAIN lockTable[s]
    PROVE  i \in Indexes /\ Queue(s, i) \in Seq(Clients)
           /\ lockTable[s][i].owner \in Clients \cup {Nobody}
  BY DEF TablesSound, Keys, Slot, Queue

LEMMA QueuesKept ==
    ASSUME SameObjects, LocksKept
    PROVE  SameQueues
  BY DEF SameObjects, SameNames, LocksKept, LockKept, SameQueues, SameQueue, Queue

LEMMA QueueBecomes ==
    ASSUME TablesSound, SameObjects, NEW s \in Servers, NEW i, NEW c, NEW q,
           LockBecomes(s, i, c, q)
    PROVE  /\ i \in Indexes /\ OtherQueues(s, i) /\ Queue(s, i)' = q
           /\ q = Queue(s, i) => SameQueues
  <1>1. i \in Indexes /\ i \in DOMAIN lockTable[s] /\ i \in DOMAIN lockTable'[s]
    BY IndexesOf DEF LockBecomes, SameObjects, SameNames
  <1>2. Queue(s, i)' = q
    BY DEF LockBecomes, Queue
  <1>3. ASSUME NEW r \in Servers, NEW j \in Indexes, r # s \/ j # i
        PROVE  SameQueue(r, j)
    BY <1>3 DEF SameQueue, Queue, SameObjects, SameNames, LockBecomes, LockKept
  <1>4. OtherQueues(s, i)
    BY <1>1, <1>3 DEF OtherQueues
  <1>5. q = Queue(s, i) => SameQueue(s, i)
    BY <1>1, <1>2 DEF SameQueue
  <1> QED
    BY <1>1, <1>2, <1>3, <1>4, <1>5 DEF SameQueues

(* The next index is not in use. *)
LEMMA NewIndex ==
    ASSUME NEW s \in Servers, NEW t, Numbered(s, t), IsFiniteSet(DOMAIN t)
    PROVE  NextIndex(s, t) \notin DOMAIN t
  <1>1. PICK n \in Nat : n = Cardinality(DOMAIN t)
    BY FS_CardinalityType
  <1>2. \A k \in 0..(n - 1) : Stride * s + k # Stride * s + n
    <2>1. PICK a \in Int : a = Stride * s
      <3>1. Stride \in Int /\ s \in Int
        BY LockServersAssumption DEF LockServersAssumption, Servers
      <3> QED
        BY <3>1
    <2>2. \A k \in 0..(n - 1) : a + k # a + n
      OBVIOUS
    <2> QED
      BY <2>1, <2>2
  <1> QED
    BY <1>1, <1>2 DEF Numbered, NextIndex

LEMMA NewQueue ==
    ASSUME TablesSound, TablesNumbered, NEW s \in Servers, NEW m, NewObject(s, m)
    PROVE  SameQueues
  <1>1. CASE UNCHANGED lockTable
    BY <1>1 DEF SameQueues, SameQueue, Queue
  <1>2. ASSUME NEW x, Grows(lockTable, lockTable', s, x), x.queue = << >>
        PROVE  SameQueues
    <2>1. PICK n : n = NextIndex(s, lockTable[s])
      OBVIOUS
    <2>2. n \notin DOMAIN lockTable[s]
      BY <2>1, NewIndex DEF TablesSound, Keys, TablesNumbered
    <2>3. lockTable'[s] = With(lockTable[s], n, x)
          /\ \A r \in Servers \ {s} : lockTable'[r] = lockTable[r]
      BY <1>2, <2>1 DEF Grows
    <2>4. /\ DOMAIN lockTable'[s] = DOMAIN lockTable[s] \cup {n} /\ lockTable'[s][n] = x
          /\ \A i \in DOMAIN lockTable[s] : lockTable'[s][i] = lockTable[s][i]
      BY <2>2, <2>3 DEF With
    <2>5. ASSUME NEW i \in Indexes
          PROVE  \/ SameQueue(s, i)
                 \/ i \notin DOMAIN lockTable[s] /\ i \in DOMAIN lockTable'[s]
                    /\ Queue(s, i)' = << >>
      BY <1>2, <2>2, <2>4 DEF SameQueue, Queue
    <2>6. \A r \in Servers \ {s}, i \in Indexes : SameQueue(r, i)
      BY <2>3 DEF SameQueue, Queue
    <2> QED
      BY <2>5, <2>6 DEF SameQueues
  <1> QED
    BY <1>1, <1>2 DEF NewObject

(* The place of a request that a Server takes. *)
LEMMA TakenLeaves ==
    ASSUME Shape, NEW s, NEW m \in Message, Taken(s, m), ServerTakes(s)
    PROVE  /\ Leaves("server", Requester(m), AtServer(s))
           /\ \A c : c # Requester(m) => Stays("server", c)
           /\ s \in Servers /\ Requester(m) \in Clients
  BY ServersLose DEF Taken

LEMMA OnlyTakes ==
    ASSUME Shape, NEW s \in Servers, TakesOnly(s), inProgress' = inProgress
    PROVE  /\ ServerTakes(s) /\ HandlersQuiet
           /\ \A t \in Servers : SameFresh(t)
           /\ \A t, r \in Servers : SameReplies(t, r) /\ SameAsked(t, r)
           /\ \A c : Stays("handler", c) /\ Stays("list", c)
  <1>1. ServerTakes(s) /\ HandlersQuiet
    BY DEF TakesOnly, ServerTakes, HandlersQuiet
  <1>2. /\ \A t \in Servers : SameFresh(t)
        /\ \A t, r \in Servers : SameReplies(t, r) /\ SameAsked(t, r)
    BY <1>1, HandlersKept DEF HandlersQuiet
  <1> QED
    BY <1>1, <1>2, HandlersStay, ListsQuiet

(* An answer. *)
LEMMA PlacedAnswer ==
    ASSUME Shape, AllPlaced, NEW s, NEW m \in Message, Taken(s, m), TakesOnly(s),
           inProgress' = inProgress, request' = request, NEW x, Mailed(Requester(m), x), SameQueues
    PROVE  AllPlaced' /\ At(Requester(m), AtServer(s))
  <1>1. PICK c : c = Requester(m)
    OBVIOUS
  <1>2. s \in Servers /\ c \in Clients
    BY <1>1 DEF Taken
  <1>3. /\ ServerTakes(s) /\ \A d : Stays("handler", d) /\ Stays("list", d)
    BY <1>2, OnlyTakes
  <1>4. Leaves("server", c, AtServer(s)) /\ \A d : d # c => Stays("server", d)
    BY <1>1, <1>3, TakenLeaves
  <1>5. \A d : Stays("queue", d)
    BY QueuesStay
  <1>6. Enters("mailbox", c, InMailbox) /\ \A d \in Clients \ {c} : Stays("mailbox", d)
    BY <1>1, MailboxGets, MailboxesStay DEF Mailed
  <1>7. PICK p, q : p = AtServer(s) /\ q = InMailbox
    OBVIOUS
  <1>8. /\ p \in Places /\ q \in Places /\ p[1] = "server" /\ q[1] = "mailbox"
    BY <1>2, <1>7, PlacesAre
  <1>9. /\ p[1] \in PlaceKinds /\ q[1] \in PlaceKinds /\ p[1] # q[1]
        /\ Leaves(p[1], c, p) /\ Enters(q[1], c, q)
        /\ \A k \in PlaceKinds \ {p[1], q[1]} : Stays(k, c)
        /\ \A d \in Clients \ {c} : \A k \in PlaceKinds : Stays(k, d)
    BY <1>3, <1>4, <1>5, <1>6, <1>7, <1>8 DEF PlaceKinds
  <1>10. AllPlaced' /\ At(c, p)
    BY <1>2, <1>8, <1>9, OneMoves
  <1> QED
    BY <1>1, <1>7, <1>10

(* A hand-over: the releaser and the waiter get answers. *)
LEMMA PlacedHandOver ==
    ASSUME Shape, AllPlaced, NEW s, NEW m \in Message, Taken(s, m), HandedTurn(s, m),
           inProgress' = inProgress, request' = request
    PROVE  /\ AllPlaced' /\ At(Requester(m), AtServer(s))
           /\ Requester(m) # Head(Queue(s, m.idx))
           /\ At(Head(Queue(s, m.idx)), InQueue(s, m.idx)) /\ m.idx \in Indexes
  <1>1. PICK c, i, q, d : c = Requester(m) /\ i = m.idx /\ q = Queue(s, i) /\ d = Head(q)
    OBVIOUS
  <1>2. s \in Servers /\ c \in Clients
    BY <1>1 DEF Taken
  <1>3. /\ ServerTakes(s) /\ \A e : Stays("handler", e) /\ Stays("list", e)
    BY <1>2, OnlyTakes DEF HandedTurn
  <1>4. Leaves("server", c, AtServer(s)) /\ \A e : e # c => Stays("server", e)
    BY <1>1, <1>3, TakenLeaves
  <1>5. /\ q # << >> /\ q \in Seq(Clients) /\ d \in Clients /\ SameObjects
        /\ LockBecomes(s, i, d, Tail(q))
        /\ c # d => /\ mail[c] = << >> => mail'[c] = <<Reply(SuccessCode)>>
                    /\ mail[d] = << >> => mail'[d] = <<Reply(SuccessCode)>>
                    /\ \A e \in Clients \ {c, d} : mail'[e] = mail[e]
    BY <1>1 DEF HandedTurn, Queue
  <1>6. i \in Indexes /\ OtherQueues(s, i) /\ Queue(s, i)' = Tail(q)
    BY <1>2, <1>5, QueueBecomes DEF Shape
  <1>7. Tail(q) \in Seq(Clients) /\ q = <<d>> \o Tail(q)
    BY <1>1, <1>5, HeadAndTail
  <1>8. Leaves("queue", d, InQueue(s, i)) /\ \A e : e # d => Stays("queue", e)
    BY <1>1, <1>2, <1>5, <1>6, <1>7, QueueLoses
  <1>9. PICK p, v, o : p = AtServer(s) /\ v = InQueue(s, i) /\ o = InMailbox
    OBVIOUS
  <1>10. /\ p \in Places /\ v \in Places /\ o \in Places
         /\ p[1] = "server" /\ v[1] = "queue" /\ o[1] = "mailbox"
    BY <1>2, <1>6, <1>9, PlacesAre
  <1>11. c # d
    <2> SUFFICES ASSUME c = d PROVE FALSE
      OBVIOUS
    <2>1. PICK w \in Places : At(c, w)
      BY <1>2 DEF AllPlaced, Placed
    <2>2. Have("server", c, w) /\ Have("queue", c, w)
      BY <2>1, AllHave DEF PlaceKinds
    <2>3. w = p /\ w = v
      BY <1>4, <1>8, <1>9, <2>1, <2>2 DEF Leaves
    <2> QED
      BY <1>10, <2>3
  <1>12. /\ Enters("mailbox", c, o) /\ Enters("mailbox", d, o)
         /\ \A e \in Clients \ {c, d} : Stays("mailbox", e)
    BY <1>5, <1>9, <1>11, MailboxGets, MailboxesStay
  <1>13. Placed(c)' /\ At(c, p)
    <2>1. /\ p[1] \in PlaceKinds /\ o[1] \in PlaceKinds /\ p[1] # o[1]
          /\ Leaves(p[1], c, p) /\ Enters(o[1], c, o)
          /\ \A k \in PlaceKinds \ {p[1], o[1]} : Stays(k, c)
      BY <1>3, <1>4, <1>8, <1>9, <1>10, <1>11, <1>12 DEF PlaceKinds
    <2>2. Placed(c) /\ request'[c] = request[c]
      BY <1>2 DEF AllPlaced
    <2> QED
      BY <1>10, <2>1, <2>2, PlacedMoves
  <1>14. Placed(d)' /\ At(d, v)
    <2>1. /\ v[1] \in PlaceKinds /\ o[1] \in PlaceKinds /\ v[1] # o[1]
          /\ Leaves(v[1], d, v) /\ Enters(o[1], d, o)
          /\ \A k \in PlaceKinds \ {v[1], o[1]} : Stays(k, d)
      BY <1>3, <1>4, <1>8, <1>9, <1>10, <1>11, <1>12 DEF PlaceKinds
    <2>2. Placed(d) /\ request'[d] = request[d]
      BY <1>5 DEF AllPlaced
    <2> QED
      BY <1>10, <2>1, <2>2, PlacedMoves
  <1>15. \A e \in Clients \ {c, d} : Placed(e)'
    <2>1. \A e \in Clients \ {c, d} : \A k \in PlaceKinds : Stays(k, e)
      BY <1>3, <1>4, <1>8, <1>12 DEF PlaceKinds
    <2> QED
      BY <2>1, PlacedKept DEF AllPlaced
  <1> QED
    BY <1>1, <1>6, <1>9, <1>11, <1>13, <1>14, <1>15 DEF AllPlaced

(* An Acquire that waits. *)
LEMMA PlacedQueued ==
    ASSUME Shape, AllPlaced, NEW s, NEW m \in Message, Taken(s, m), QueuedTurn(s, m),
           inProgress' = inProgress, request' = request
    PROVE  AllPlaced' /\ At(Requester(m), AtServer(s))
  <1>1. PICK c, i : c = Requester(m) /\ i = m.idx
    OBVIOUS
  <1>2. s \in Servers /\ c \in Clients
    BY <1>1 DEF Taken
  <1>3. /\ ServerTakes(s) /\ \A d : Stays("handler", d) /\ Stays("list", d)
    BY <1>2, OnlyTakes DEF QueuedTurn
  <1>4. Leaves("server", c, AtServer(s)) /\ \A d : d # c => Stays("server", d)
    BY <1>1, <1>3, TakenLeaves
  <1>5. /\ Queue(s, i) \in Seq(Clients) /\ SameObjects
        /\ LockBecomes(s, i, lockTable[s][i].owner, Append(Queue(s, i), c))
    BY <1>1 DEF QueuedTurn, Queue
  <1>6. i \in Indexes /\ OtherQueues(s, i) /\ Queue(s, i)' = Append(Queue(s, i), c)
    <2>1. PICK o, q : o = lockTable[s][i].owner /\ q = Append(Queue(s, i), c)
      OBVIOUS
    <2> QED
      BY <1>2, <1>5, <2>1, QueueBecomes DEF Shape
  <1>7. Enters("queue", c, InQueue(s, i)) /\ \A d : d # c => Stays("queue", d)
    BY <1>2, <1>5, <1>6, QueueGets
  <1>8. \A d \in Clients : Stays("mailbox", d)
    BY MailboxesStay DEF QueuedTurn, SilentMail
  <1>9. PICK p, q : p = AtServer(s) /\ q = InQueue(s, i)
    OBVIOUS
  <1>10. /\ p \in Places /\ q \in Places /\ p[1] = "server" /\ q[1] = "queue"
    BY <1>2, <1>6, <1>9, PlacesAre
  <1>11. /\ p[1] \in PlaceKinds /\ q[1] \in PlaceKinds /\ p[1] # q[1]
         /\ Leaves(p[1], c, p) /\ Enters(q[1], c, q)
         /\ \A k \in PlaceKinds \ {p[1], q[1]} : Stays(k, c)
         /\ \A d \in Clients \ {c} : \A k \in PlaceKinds : Stays(k, d)
    BY <1>2, <1>3, <1>4, <1>7, <1>8, <1>9, <1>10 DEF PlaceKinds
  <1>12. AllPlaced' /\ At(c, p)
    BY <1>2, <1>10, <1>11, OneMoves
  <1> QED
    BY <1>1, <1>9, <1>12

(* What a Server's turn that passes a request on does to the handlers' mail. *)
LEMMA PassedMail ==
    ASSUME Shape, NEW s \in Servers, NEW x \in Message, TakesAndPasses(s, x), x.from = Srv(s)
    PROVE  /\ ServerTakes(s)
           /\ Fresh(s)' = Append(Fresh(s), x)
           /\ \A t \in Servers \ {s} : SameFresh(t)
           /\ \A t, r \in Servers : SameReplies(t, r) /\ SameAsked(t, r)
  <1>1. /\ ServerTakes(s) /\ mail'[Hdl(s)] = Append(mail[Hdl(s)], x)
        /\ \A r \in Servers \ {s} : mail'[Hdl(r)] = mail[Hdl(r)]
    BY DEF TakesAndPasses, ServerTakes
  <1> QED
    BY <1>1, PassQueues

LEMMA PlacedPassed ==
    ASSUME Shape, AllPlaced, NEW s, NEW m \in Message, Taken(s, m), PassedTurn(s, m),
           inProgress' = inProgress, request' = request
    PROVE  AllPlaced' /\ At(Requester(m), AtServer(s))
  <1>1. PICK c : c = Requester(m)
    OBVIOUS
  <1>2. s \in Servers /\ c \in Clients
    BY <1>1 DEF Taken
  <1>3. PICK x \in Message : TakesAndPasses(s, x) /\ x.from = Srv(s) /\ x.client = c
    BY <1>1 DEF PassedTurn
  <1>4. /\ ServerTakes(s) /\ Fresh(s)' = Append(Fresh(s), x)
        /\ \A t \in Servers \ {s} : SameFresh(t)
        /\ \A t, r \in Servers : SameReplies(t, r)
    BY <1>2, <1>3, PassedMail
  <1>5. Leaves("server", c, AtServer(s)) /\ \A d : d # c => Stays("server", d)
    BY <1>1, <1>4, TakenLeaves
  <1>6. Enters("handler", c, AtHandler(s)) /\ \A d : d # c => Stays("handler", d)
    BY <1>2, <1>3, <1>4, HandlersGet
  <1>7. \A d : Stays("list", d)
    BY <1>4, ListsQuiet
  <1>8. \A d : Stays("queue", d)
    BY TablesStay, QueuesKept, QueuesStay DEF PassedTurn
  <1>9. \A d \in Clients : Stays("mailbox", d)
    BY MailboxesStay DEF PassedTurn, SilentMail
  <1>10. PICK p, q : p = AtServer(s) /\ q = AtHandler(s)
    OBVIOUS
  <1>11. /\ p \in Places /\ q \in Places /\ p[1] = "server" /\ q[1] = "handler"
    BY <1>2, <1>10, PlacesAre
  <1>12. /\ p[1] \in PlaceKinds /\ q[1] \in PlaceKinds /\ p[1] # q[1]
         /\ Leaves(p[1], c, p) /\ Enters(q[1], c, q)
         /\ \A k \in PlaceKinds \ {p[1], q[1]} : Stays(k, c)
         /\ \A d \in Clients \ {c} : \A k \in PlaceKinds : Stays(k, d)
    BY <1>2, <1>5, <1>6, <1>7, <1>8, <1>9, <1>10, <1>11 DEF PlaceKinds
  <1>13. AllPlaced' /\ At(c, p)
    BY <1>2, <1>11, <1>12, OneMoves
  <1> QED
    BY <1>1, <1>10, <1>13

(* Every turn of a Server. *)
LEMMA PlacedServer ==
    ASSUME Shape, AllPlaced, TablesNumbered, NEW s, NEW m \in Message, Taken(s, m), Turn(s, m),
           inProgress' = inProgress, request' = request
    PROVE  AllPlaced' /\ At(Requester(m), AtServer(s))
  <1>1. TablesSound /\ s \in Servers
    BY DEF Shape, Taken
  <1>2. ASSUME AnsweredTurn(s, m) \/ CreatedTurn(s, m) \/ GrantedTurn(s, m) \/ FreedTurn(s, m)
        PROVE  /\ TakesOnly(s) /\ SameQueues
               /\ \E n : Mailed(Requester(m), Reply(n))
    <2>1. CASE AnsweredTurn(s, m)
      BY <2>1, QueuesKept DEF AnsweredTurn
    <2>2. CASE CreatedTurn(s, m)
      BY <1>1, <2>2, NewQueue DEF CreatedTurn
    <2>3. CASE GrantedTurn(s, m)
      <3>1. SameObjects /\ LockBecomes(s, m.idx, Requester(m), << >>) /\ Queue(s, m.idx) = << >>
        BY <2>3 DEF GrantedTurn, Unlocked, Queue
      <3>2. SameQueues
        BY <1>1, <3>1, QueueBecomes
      <3> QED
        BY <2>3, <3>2 DEF GrantedTurn
    <2>4. CASE FreedTurn(s, m)
      <3>1. SameObjects /\ LockBecomes(s, m.idx, Nobody, << >>) /\ Queue(s, m.idx) = << >>
        BY <2>4 DEF FreedTurn, Queue
      <3>2. SameQueues
        BY <1>1, <3>1, QueueBecomes
      <3> QED
        BY <2>4, <3>2 DEF FreedTurn
    <2> QED
      BY <1>2, <2>1, <2>2, <2>3, <2>4
  <1>3. CASE AnsweredTurn(s, m) \/ CreatedTurn(s, m) \/ GrantedTurn(s, m) \/ FreedTurn(s, m)
    BY <1>2, <1>3, PlacedAnswer
  <1>4. CASE HandedTurn(s, m)
    BY <1>4, PlacedHandOver
  <1>5. CASE QueuedTurn(s, m)
    BY <1>5, PlacedQueued
  <1>6. CASE PassedTurn(s, m)
    BY <1>6, PlacedPassed
  <1> QED
    BY <1>3, <1>4, <1>5, <1>6 DEF Turn

-----------------------------------------------------------------------------
(* Turns of a MessageHandler. *)

LEMMA SameTablesQueues ==
    ASSUME UNCHANGED tables
    PROVE  \A d : Stays("queue", d)
  BY TablesStay, QueuesKept, QueuesStay

LEMMA SilentMailboxes ==
    ASSUME SilentMail
    PROVE  \A d \in Clients : Stays("mailbox", d)
  BY MailboxesStay DEF SilentMail

LEMMA PlacedRelayed ==
    ASSUME IInv, Shape', AllPlaced, NEW s \in Servers, NEW m \in Passed,
           Fresh(s) = <<m>> \o Fresh(s)', \A t \in Servers \ {s} : SameFresh(t),
           \A t, r \in Servers : SameReplies(t, r),
           inProgress' = [inProgress EXCEPT ![s] = Append(@, [msg |-> m, yes |-> 0, no |-> 0])],
           ServersQuiet, SilentMail, UNCHANGED tables, request' = request
    PROVE  AllPlaced' /\ At(m.client, AtHandler(s))
  <1>1. PICK c : c = m.client
    OBVIOUS
  <1>2. c \in Clients /\ m \in Message
    BY <1>1 DEF Passed
  <1>3. Leaves("handler", c, AtHandler(s)) /\ \A d : d # c => Stays("handler", d)
    BY <1>1, <1>2, HandlersLose
  <1>4. /\ ListGets(s, c) /\ \A d : d # c => ListStays(s, d)
        /\ \A t \in Servers \ {s} : \A d : ListStays(t, d)
    BY <1>1, ListRelays
  <1>5. Enters("list", c, InList(s)) /\ \A d : d # c => Stays("list", d)
    <2>1. \A d : d # c => \A t \in Servers : ListStays(t, d)
      BY <1>4
    <2> QED
      BY <1>4, <2>1, ListsEnter, ListsStay
  <1>6. /\ \A d : Stays("queue", d) /\ Stays("server", d)
        /\ \A d \in Clients : Stays("mailbox", d)
    BY SameTablesQueues, ServersStay, SilentMailboxes
  <1>7. PICK p, q : p = AtHandler(s) /\ q = InList(s)
    OBVIOUS
  <1>8. /\ p \in Places /\ q \in Places /\ p[1] = "handler" /\ q[1] = "list"
    BY <1>7, PlacesAre
  <1>9. /\ p[1] \in PlaceKinds /\ q[1] \in PlaceKinds /\ p[1] # q[1]
        /\ Leaves(p[1], c, p) /\ Enters(q[1], c, q)
        /\ \A k \in PlaceKinds \ {p[1], q[1]} : Stays(k, c)
        /\ \A d \in Clients \ {c} : \A k \in PlaceKinds : Stays(k, d)
    BY <1>2, <1>3, <1>5, <1>6, <1>7, <1>8 DEF PlaceKinds
  <1>10. AllPlaced' /\ At(c, p)
    BY <1>2, <1>8, <1>9, OneMoves
  <1> QED
    BY <1>1, <1>7, <1>10

LEMMA PlacedBack ==
    ASSUME Shape, Shape', AllPlaced, NEW s \in Servers, NEW m \in Message, NEW y \in Message,
           Handles(s, m), Copy(y, m), Fresh(s) = <<m>> \o Fresh(s)', Others(s) = {},
           inProgress' = inProgress, ServerGets(s, y), SilentMail, UNCHANGED tables,
           request' = request
    PROVE  AllPlaced' /\ At(m.client, AtHandler(s))
  <1>1. PICK c : c = m.client
    OBVIOUS
  <1>2. c \in Clients /\ y.client = c /\ Requester(y) = c
    BY <1>1, BoxNames DEF Handles, Copy, Requester
  <1>3. \A t \in Servers \ {s} : SameFresh(t)
    BY DEF Others
  <1>4. Leaves("handler", c, AtHandler(s)) /\ \A d : d # c => Stays("handler", d)
    BY <1>1, <1>3, HandlersLose
  <1>5. Enters("server", c, AtServer(s)) /\ \A d : d # c => Stays("server", d)
    BY <1>2, ServersGet
  <1>6. \A d : Stays("list", d)
    <2>1. \A t \in Servers : \A e : Said(t, e)' <=> Said(t, e)
      BY DEF Said, Others
    <2>2. \A t \in Servers : \A d : ListStays(t, d)
      BY <2>1, ListQuiet
    <2> QED
      BY <2>2, ListsStay
  <1>7. /\ \A d : Stays("queue", d)
        /\ \A d \in Clients : Stays("mailbox", d)
    BY SameTablesQueues, SilentMailboxes
  <1>8. PICK p, q : p = AtHandler(s) /\ q = AtServer(s)
    OBVIOUS
  <1>9. /\ p \in Places /\ q \in Places /\ p[1] = "handler" /\ q[1] = "server"
    BY <1>8, PlacesAre
  <1>10. /\ p[1] \in PlaceKinds /\ q[1] \in PlaceKinds /\ p[1] # q[1]
         /\ Leaves(p[1], c, p) /\ Enters(q[1], c, q)
         /\ \A k \in PlaceKinds \ {p[1], q[1]} : Stays(k, c)
         /\ \A d \in Clients \ {c} : \A k \in PlaceKinds : Stays(k, d)
    BY <1>2, <1>4, <1>5, <1>6, <1>7, <1>8, <1>9 DEF PlaceKinds
  <1>11. AllPlaced' /\ At(c, p)
    BY <1>2, <1>9, <1>10, OneMoves
  <1> QED
    BY <1>1, <1>8, <1>11

LEMMA PlacedAskedNo ==
    ASSUME Shape, AllPlaced, NEW r \in Servers, NEW s \in Servers \ {r}, NEW y \in Message,
           y.req = "NO", Replies(s, r)' = Append(Replies(s, r), y),
           \A t \in Servers : SameFresh(t),
           \A t, u \in Servers : ~(t = s /\ u = r) => SameReplies(t, u),
           inProgress' = inProgress, ServersQuiet, SilentMail, UNCHANGED tables,
           request' = request
    PROVE  AllPlaced'
  <1>1. \A t \in Servers : \A d : Said(t, d)' <=> Said(t, d)
    <2>1. \A t \in Servers \ {s} : \A d : Said(t, d)' <=> Said(t, d)
      BY SaidSame DEF Others
    <2>2. r \in Others(s) /\ \A t \in Others(s) \ {r} : SameReplies(s, t)
      BY DEF Others
    <2>3. \A d : Said(s, d)' <=> Said(s, d) \/ (d = y.id /\ y.req = "YS")
      BY <2>2, SaidMore
    <2> QED
      BY <2>1, <2>3
  <1>2. \A t \in Servers : \A d : ListStays(t, d)
    BY <1>1, ListQuiet
  <1>3. /\ \A d : /\ Stays("list", d) /\ Stays("queue", d) /\ Stays("server", d)
                  /\ Stays("handler", d)
        /\ \A d \in Clients : Stays("mailbox", d)
    BY <1>2, ListsStay, SameTablesQueues, ServersStay, HandlersStay, SilentMailboxes
  <1> QED
    BY <1>3, NoneMoves DEF PlaceKinds

LEMMA PlacedAskedYes ==
    ASSUME IInv, Core, AllPlaced, NEW r \in Servers, NEW s \in Servers \ {r}, SingleOwner(s),
           NEW m \in Message, NEW y \in Message, NEW z \in Message,
           m \in RangeOf(Asked(s, r)), m.client \in Clients,
           y.req = "YS", y.id = m.id, Replies(s, r)' = Append(Replies(s, r), y),
           \A t \in Servers : SameFresh(t),
           \A t, u \in Servers : ~(t = s /\ u = r) => SameReplies(t, u),
           inProgress' = inProgress, Owns(r, m), Copy(z, m), ServerGets(r, z),
           SilentMail, UNCHANGED tables, request' = request
    PROVE  AllPlaced' /\ At(m.client, InList(s))
  <1>1. PICK c : c = m.client
    OBVIOUS
  <1>2. c \in Clients /\ z.client = c /\ Requester(z) = c
    BY <1>1, BoxNames DEF Copy, Requester
  <1>3. r \in Others(s) /\ \A t \in Others(s) \ {r} : SameReplies(s, t)
    BY DEF Others
  <1>4. ListLoses(s, c) /\ \A d : d # c => ListStays(s, d)
    BY <1>1, <1>3, ListTaken
  <1>5. \A t \in Servers \ {s} : \A d : ListStays(t, d)
    BY SaidSame, ListQuiet DEF Others
  <1>6. Leaves("list", c, InList(s)) /\ \A d : d # c => Stays("list", d)
    <2>1. \A d : d # c => \A t \in Servers : ListStays(t, d)
      BY <1>4, <1>5
    <2> QED
      BY <1>4, <1>5, <2>1, ListsLeave, ListsStay
  <1>7. Enters("server", c, AtServer(r)) /\ \A d : d # c => Stays("server", d)
    BY <1>2, ServersGet DEF IInv
  <1>8. /\ \A d : Stays("queue", d) /\ Stays("handler", d)
        /\ \A d \in Clients : Stays("mailbox", d)
    BY SameTablesQueues, HandlersStay, SilentMailboxes
  <1>9. PICK p, q : p = InList(s) /\ q = AtServer(r)
    OBVIOUS
  <1>10. /\ p \in Places /\ q \in Places /\ p[1] = "list" /\ q[1] = "server"
    BY <1>9, PlacesAre
  <1>11. /\ p[1] \in PlaceKinds /\ q[1] \in PlaceKinds /\ p[1] # q[1]
         /\ Leaves(p[1], c, p) /\ Enters(q[1], c, q)
         /\ \A k \in PlaceKinds \ {p[1], q[1]} : Stays(k, c)
         /\ \A d \in Clients \ {c} : \A k \in PlaceKinds : Stays(k, d)
    BY <1>2, <1>6, <1>7, <1>8, <1>9, <1>10 DEF PlaceKinds
  <1>12. AllPlaced' /\ At(c, p)
    BY <1>2, <1>10, <1>11, OneMoves
  <1> QED
    BY <1>1, <1>9, <1>12

(* The replies that a turn of CountReply leaves. *)
RepliesCount(s, r, m, P, Q) ==
    /\ CountsReply(s, r, m, P, Q)
    /\ \A t \in Servers : SameFresh(t)
    /\ \A t \in Servers \ {s}, u \in Servers : SameReplies(t, u) /\ inProgress'[t] = inProgress[t]
    /\ UNCHANGED tables /\ request' = request

LEMMA PlacedCountsOn ==
    ASSUME IInv, Shape', AllPlaced, NEW s, NEW r, NEW m, NEW P, NEW Q, RepliesCount(s, r, m, P, Q),
           \A c : ListStays(s, c), ServersQuiet, SilentMail
    PROVE  AllPlaced'
  <1>1. \A t \in Servers \ {s} : \A d : ListStays(t, d)
    BY SaidSame, ListQuiet DEF Others, RepliesCount
  <1>2. /\ \A d : /\ Stays("list", d) /\ Stays("queue", d) /\ Stays("server", d)
                  /\ Stays("handler", d)
        /\ \A d \in Clients : Stays("mailbox", d)
    BY <1>1, ListsStay, SameTablesQueues, ServersStay, HandlersStay, SilentMailboxes
       DEF RepliesCount
  <1>3. request' = request
    BY DEF RepliesCount
  <1> QED
    BY <1>2, <1>3, NoneMoves DEF PlaceKinds

(* The request of c leaves the list: it is refused, ... *)
LEMMA PlacedRefused ==
    ASSUME IInv, Shape', AllPlaced, NEW s, NEW r, NEW m, NEW P, NEW Q, RepliesCount(s, r, m, P, Q),
           NEW c \in Clients, ListLoses(s, c), \A d : d # c => ListStays(s, d), ServersQuiet,
           NEW x, Mailed(c, x)
    PROVE  AllPlaced' /\ At(c, InList(s))
  <1>1. s \in Servers /\ request' = request
    BY DEF RepliesCount, CountsReply
  <1>2. \A t \in Servers \ {s} : \A d : ListStays(t, d)
    BY SaidSame, ListQuiet DEF Others, RepliesCount
  <1>3. Leaves("list", c, InList(s)) /\ \A d : d # c => Stays("list", d)
    <2>1. \A d : d # c => \A t \in Servers : ListStays(t, d)
      BY <1>2
    <2> QED
      BY <1>1, <1>2, <2>1, ListsLeave, ListsStay
  <1>4. \A d : Stays("queue", d) /\ Stays("handler", d) /\ Stays("server", d)
    BY SameTablesQueues, HandlersStay, ServersStay DEF RepliesCount
  <1>5. Enters("mailbox", c, InMailbox) /\ \A d \in Clients \ {c} : Stays("mailbox", d)
    BY MailboxGets, MailboxesStay DEF Mailed
  <1>6. PICK p, q : p = InList(s) /\ q = InMailbox
    OBVIOUS
  <1>7. /\ p \in Places /\ q \in Places /\ p[1] = "list" /\ q[1] = "mailbox"
    BY <1>1, <1>6, PlacesAre
  <1>8. /\ p[1] \in PlaceKinds /\ q[1] \in PlaceKinds /\ p[1] # q[1]
        /\ Leaves(p[1], c, p) /\ Enters(q[1], c, q)
        /\ \A k \in PlaceKinds \ {p[1], q[1]} : Stays(k, c)
        /\ \A d \in Clients \ {c} : \A k \in PlaceKinds : Stays(k, d)
    BY <1>3, <1>4, <1>5, <1>6, <1>7 DEF PlaceKinds
  <1>9. AllPlaced' /\ At(c, p)
    BY <1>1, <1>7, <1>8, OneMoves
  <1> QED
    BY <1>6, <1>9

(* ... or goes back to the own Server. *)
LEMMA PlacedReturned ==
    ASSUME IInv, Shape', AllPlaced, NEW s, NEW r, NEW m, NEW P, NEW Q, RepliesCount(s, r, m, P, Q),
           NEW c \in Clients, ListLoses(s, c), \A d : d # c => ListStays(s, d), SilentMail,
           NEW y \in Message, y.client = c, ServerGets(s, y)
    PROVE  AllPlaced' /\ At(c, InList(s))
  <1>1. s \in Servers /\ request' = request /\ Requester(y) = c
    BY BoxNames DEF RepliesCount, CountsReply, Requester
  <1>2. \A t \in Servers \ {s} : \A d : ListStays(t, d)
    BY SaidSame, ListQuiet DEF Others, RepliesCount
  <1>3. Leaves("list", c, InList(s)) /\ \A d : d # c => Stays("list", d)
    <2>1. \A d : d # c => \A t \in Servers : ListStays(t, d)
      BY <1>2
    <2> QED
      BY <1>1, <1>2, <2>1, ListsLeave, ListsStay
  <1>4. /\ \A d : Stays("queue", d) /\ Stays("handler", d)
        /\ \A d \in Clients : Stays("mailbox", d)
    BY SameTablesQueues, HandlersStay, SilentMailboxes DEF RepliesCount
  <1>5. Enters("server", c, AtServer(s)) /\ \A d : d # c => Stays("server", d)
    BY <1>1, ServersGet DEF IInv
  <1>6. PICK p, q : p = InList(s) /\ q = AtServer(s)
    OBVIOUS
  <1>7. /\ p \in Places /\ q \in Places /\ p[1] = "list" /\ q[1] = "server"
    BY <1>1, <1>6, PlacesAre
  <1>8. /\ p[1] \in PlaceKinds /\ q[1] \in PlaceKinds /\ p[1] # q[1]
        /\ Leaves(p[1], c, p) /\ Enters(q[1], c, q)
        /\ \A k \in PlaceKinds \ {p[1], q[1]} : Stays(k, c)
        /\ \A d \in Clients \ {c} : \A k \in PlaceKinds : Stays(k, d)
    BY <1>3, <1>4, <1>5, <1>6, <1>7 DEF PlaceKinds
  <1>9. AllPlaced' /\ At(c, p)
    BY <1>1, <1>7, <1>8, OneMoves
  <1> QED
    BY <1>6, <1>9

-----------------------------------------------------------------------------
(* Calls and returns. *)

LEMMA QuietClients ==
    ASSUME HandlersQuiet, UNCHANGED <<tables, inProgress>>
    PROVE  /\ \A d : Stays("handler", d) /\ Stays("list", d) /\ Stays("queue", d)
           /\ \A t \in Servers : SameFresh(t)
           /\ \A t, r \in Servers : SameReplies(t, r) /\ SameAsked(t, r)
  <1>1. /\ \A t \in Servers : SameFresh(t)
        /\ \A t, r \in Servers : SameReplies(t, r) /\ SameAsked(t, r)
    BY HandlersKept DEF HandlersQuiet
  <1> QED
    BY <1>1, HandlersStay, ListsQuiet, SameTablesQueues

LEMMA PlacedCalled ==
    ASSUME Shape, AllPlaced, NEW c \in Clients, CalledTurn(c), HandlersQuiet,
           UNCHANGED <<tables, inProgress>>, request \in [Clients -> Message \cup {NoMsg}],
           NoMsg \notin Message
    PROVE  AllPlaced' /\ At(c, Nowhere)
  <1>1. PICK s \in Servers, m \in Message :
              /\ request[c] = NoMsg /\ request' = [request EXCEPT ![c] = m]
              /\ m.client = Nobody /\ m.from = c /\ ServerGets(s, m) /\ SilentMail
    BY DEF CalledTurn
  <1>2. Requester(m) = c
    BY <1>1 DEF Requester
  <1>3. Enters("server", c, AtServer(s)) /\ \A d : d # c => Stays("server", d)
    BY <1>1, <1>2, ServersGet
  <1>4. /\ \A d : Stays("handler", d) /\ Stays("list", d) /\ Stays("queue", d)
        /\ \A d \in Clients : Stays("mailbox", d)
    BY <1>1, QuietClients, SilentMailboxes
  <1>5. request'[c] # NoMsg /\ \A d \in Clients \ {c} : request'[d] = request[d]
    BY <1>1
  <1>6. Placed(c)' /\ At(c, Nowhere)
    BY <1>1, <1>3, <1>4, <1>5, PlacedCalls DEF AllPlaced, PlaceKinds
  <1>7. \A d \in Clients \ {c} : Placed(d)'
    BY <1>3, <1>4, <1>5, PlacedKept DEF AllPlaced, PlaceKinds
  <1> QED
    BY <1>6, <1>7 DEF AllPlaced

LEMMA PlacedReturn ==
    ASSUME Shape, AllPlaced, NEW c \in Clients, ReturnedTurn(c), HandlersQuiet,
           UNCHANGED <<tables, inProgress>>, request \in [Clients -> Message \cup {NoMsg}]
    PROVE  AllPlaced' /\ At(c, InMailbox)
  <1>1. /\ request'[c] = NoMsg /\ \A d \in Clients \ {c} : request'[d] = request[d]
    BY DEF ReturnedTurn
  <1>2. /\ \A d : /\ Stays("handler", d) /\ Stays("list", d) /\ Stays("queue", d)
                  /\ Stays("server", d)
        /\ Leaves("mailbox", c, InMailbox)
        /\ \A d \in Clients \ {c} : Stays("mailbox", d)
    BY QuietClients, ServersStay, MailboxLoses, MailboxesStay DEF ReturnedTurn
  <1>3. Placed(c)' /\ At(c, InMailbox)
    BY <1>1, <1>2, PlacedReturns DEF AllPlaced, PlaceKinds
  <1>4. \A d \in Clients \ {c} : Placed(d)'
    BY <1>1, <1>2, PlacedKept DEF AllPlaced, PlaceKinds
  <1> QED
    BY <1>3, <1>4 DEF AllPlaced

-----------------------------------------------------------------------------
(* The copies of a request are in step with it. *)

RequestsSame == request' = request

(* The Servers' mail. *)
LEMMA MailCopiesQuiet ==
    ASSUME ServersQuiet,
           \A t \in Servers : \A m \in RangeOf(mail[Srv(t)]) :
               request'[Requester(m)] = request[Requester(m)],
           \A t \in Servers : ServerCopies(t)
    PROVE  \A t \in Servers : ServerCopies(t)'
  BY DEF ServersQuiet, ServerCopies

LEMMA MailCopiesTaken ==
    ASSUME Shape, NEW s \in Servers, mail[Srv(s)] # << >>, ServerTakes(s), RequestsSame,
           \A t \in Servers : ServerCopies(t)
    PROVE  \A t \in Servers : ServerCopies(t)'
  <1>1. RangeOf(Tail(mail[Srv(s)])) \subseteq RangeOf(mail[Srv(s)])
    BY MailTyped, RangeTail
  <1>2. RangeOf(mail'[Srv(s)]) \subseteq RangeOf(mail[Srv(s)])
    BY <1>1 DEF ServerTakes
  <1>3. \A t \in Servers : RangeOf(mail'[Srv(t)]) \subseteq RangeOf(mail[Srv(t)])
    BY <1>2 DEF ServerTakes
  <1> QED
    BY <1>3 DEF ServerCopies, RequestsSame

LEMMA MailCopiesGot ==
    ASSUME Shape, NEW s \in Servers, NEW y \in Message, ServerGets(s, y),
           \A t \in Servers : \A m \in RangeOf(mail[Srv(t)]) :
               request'[Requester(m)] = request[Requester(m)],
           Key(y) = Key(request'[Requester(y)]), y.client # Nobody => y.from = Hdl(s),
           \A t \in Servers : ServerCopies(t)
    PROVE  \A t \in Servers : ServerCopies(t)'
  <1>1. RangeOf(mail'[Srv(s)]) = RangeOf(mail[Srv(s)]) \cup {y}
    <2>1. mail[Srv(s)] \in Seq(Message)
      BY MailTyped
    <2>2. RangeOf(Append(mail[Srv(s)], y)) = RangeOf(mail[Srv(s)]) \cup {y}
      BY <2>1, RangeAppend
    <2> QED
      BY <2>2 DEF ServerGets
  <1>2. ServerCopies(s)'
    BY <1>1 DEF ServerCopies
  <1>3. ASSUME NEW t \in Servers \ {s}
        PROVE  ServerCopies(t)'
    <2>1. mail'[Srv(t)] = mail[Srv(t)]
      BY DEF ServerGets
    <2> QED
      BY <2>1 DEF ServerCopies
  <1> QED
    BY <1>2, <1>3

(* The handlers' mail. *)
LEMMA FreshCopiesKept ==
    ASSUME \A t \in Servers : SameFresh(t),
           \A t \in Servers : \A m \in RangeOf(Fresh(t)) : request'[m.client] = request[m.client],
           \A t \in Servers : HandlerCopies(t)
    PROVE  \A t \in Servers : HandlerCopies(t)'
  BY DEF SameFresh, HandlerCopies, RangeOf

LEMMA FreshCopiesTaken ==
    ASSUME Shape', NEW s \in Servers, NEW m \in Message, Fresh(s) = <<m>> \o Fresh(s)',
           \A t \in Servers \ {s} : SameFresh(t), RequestsSame,
           \A t \in Servers : HandlerCopies(t)
    PROVE  \A t \in Servers : HandlerCopies(t)'
  <1>1. \A t \in Servers : RangeOf(Fresh(t)') \subseteq RangeOf(Fresh(t))
    BY FreshFirst DEF SameFresh
  <1>2. \A t \in Servers : HandlerCopies(t)' <=>
            \A x \in RangeOf(Fresh(t)') : Key(x) = Key(request'[x.client])
    BY DEF HandlerCopies, RangeOf, Key
  <1> QED
    BY <1>1, <1>2 DEF HandlerCopies, RequestsSame

LEMMA FreshCopiesGot ==
    ASSUME Shape, NEW s \in Servers, NEW x \in Message, Fresh(s)' = Append(Fresh(s), x),
           \A t \in Servers \ {s} : SameFresh(t), RequestsSame,
           Key(x) = Key(request[x.client]), \A t \in Servers : HandlerCopies(t)
    PROVE  \A t \in Servers : HandlerCopies(t)'
  <1>1. RangeOf(Fresh(s)') = RangeOf(Fresh(s)) \cup {x}
    BY QueuesTyped, RangeAppend
  <1>2. \A t \in Servers \ {s} : RangeOf(Fresh(t)') = RangeOf(Fresh(t))
    BY DEF SameFresh
  <1>3. \A t \in Servers : HandlerCopies(t)' <=>
            \A y \in RangeOf(Fresh(t)') : Key(y) = Key(request'[y.client])
    BY DEF HandlerCopies, RangeOf, Key
  <1> QED
    BY <1>1, <1>2, <1>3 DEF HandlerCopies, RequestsSame

(* The lists. *)
LEMMA ListCopiesNext ==
    \A s : ListCopies(s)' <=>
        \A e \in RangeOf(inProgress'[s]) :
            e.yes = 0 /\ ~Said(s, e.msg.id)' => Key(e.msg) = Key(request'[e.msg.client])
  BY DEF ListCopies, Open, Key, RangeOf

LEMMA ListCopiesKept ==
    ASSUME NEW s, inProgress'[s] = inProgress[s], \A d : Said(s, d) => Said(s, d)',
           \A e \in RangeOf(inProgress[s]) : Open(s, e) =>
               request'[e.msg.client] = request[e.msg.client],
           ListCopies(s)
    PROVE  ListCopies(s)'
  <1>1. \A e \in RangeOf(inProgress'[s]) :
            e.yes = 0 /\ ~Said(s, e.msg.id)' => Key(e.msg) = Key(request'[e.msg.client])
    BY DEF ListCopies, Open
  <1> QED
    BY <1>1, ListCopiesNext

LEMMA ListCopiesRelayed ==
    ASSUME NEW s, NEW e \in Entry, inProgress[s] \in Seq(Entry),
           inProgress'[s] = Append(inProgress[s], e), \A d : Said(s, d)' <=> Said(s, d),
           Key(e.msg) = Key(request[e.msg.client]), RequestsSame, ListCopies(s)
    PROVE  ListCopies(s)'
  <1>1. RangeOf(inProgress'[s]) = RangeOf(inProgress[s]) \cup {e}
    BY RangeAppend
  <1>2. \A f \in RangeOf(inProgress'[s]) :
            f.yes = 0 /\ ~Said(s, f.msg.id)' => Key(f.msg) = Key(request'[f.msg.client])
    BY <1>1 DEF ListCopies, Open, RequestsSame
  <1> QED
    BY <1>2, ListCopiesNext

(* The list T is what is left of Q. *)
Rest(Q, T) == T = Q \/ (Q # << >> /\ T = Tail(Q))

LEMMA RestRange ==
    ASSUME NEW Q \in Seq(Entry), NEW T, Rest(Q, T)
    PROVE  \A e \in RangeOf(T) : \E i \in 1..Len(Q) : Q[i] = e
  <1>1. RangeOf(T) \subseteq RangeOf(Q)
    BY RangeTail DEF Rest
  <1> QED
    BY <1>1, RangeIndex

LEMMA CountedEntry ==
    ASSUME NEW s, NEW r, NEW m, NEW P, NEW Q, CountsReply(s, r, m, P, Q), NEW i \in 1..Len(Q)
    PROVE  i \in 1..Len(P) /\ Q[i].msg = P[i].msg /\ P[i] \in RangeOf(inProgress[s])
  <1>1. P = inProgress[s] /\ P \in Seq(Entry) /\ i \in 1..Len(P) /\ Q[i].msg = P[i].msg
    BY DEF CountsReply
  <1>2. P[i] \in RangeOf(P)
    BY <1>1, RangeIndex
  <1> QED
    BY <1>1, <1>2

LEMMA ListCopiesCounted ==
    ASSUME Shape', NEW s, NEW r, NEW m, NEW P, NEW Q, CountsReply(s, r, m, P, Q),
           Rest(Q, inProgress'[s]), RequestsSame, ListCopies(s)
    PROVE  ListCopies(s)'
  <1>1. ASSUME NEW e \in RangeOf(inProgress'[s]), e.yes = 0 /\ ~Said(s, e.msg.id)'
        PROVE  Key(e.msg) = Key(request'[e.msg.client])
    <2>1. PICK i \in 1..Len(Q) : Q[i] = e
      BY <1>1, RestRange DEF CountsReply
    <2>2. i \in 1..Len(P) /\ Q[i].msg = P[i].msg /\ P[i] \in RangeOf(inProgress[s])
      BY <2>1, CountedEntry
    <2>3. (Q[i].yes = 0 /\ ~Said(s, Q[i].msg.id)') <=> Open(s, P[i])
      BY <2>2, EntriesOpen
    <2>4. Open(s, P[i])
      BY <1>1, <2>1, <2>3
    <2> QED
      BY <2>1, <2>2, <2>4 DEF ListCopies, RequestsSame
  <1> QED
    BY <1>1, ListCopiesNext

(* What the servers ask one another. *)
LEMMA LineCopiesKept ==
    ASSUME NEW s \in Servers, inProgress'[s] = inProgress[s],
           \A r \in Others(s) : SameAsked(s, r) /\ SameReplies(s, r), LineCopies(s)
    PROVE  LineCopies(s)'
  BY DEF LineCopies, AskedCopies, SameAsked, SameReplies, Others, RangeOf, Key

LEMMA LinesNext ==
    \A s : LineCopies(s)' <=>
        \A e \in RangeOf(inProgress'[s]) : \A r \in Others(s) :
            /\ \A m \in RangeOf(Asked(s, r)') :
                  m.id = e.msg.id => Key(m) = Key(e.msg) /\ m.client = e.msg.client
            /\ \A m \in RangeOf(Replies(s, r)') : m.id = e.msg.id => m.client = e.msg.client
  BY DEF LineCopies, AskedCopies, Others, RangeOf, Key

LEMMA LineCopiesRelayed ==
    ASSUME IInv, NEW s \in Servers, NEW e \in Entry, inProgress'[s] = Append(inProgress[s], e),
           e.msg \in RangeOf(Fresh(s)), NEW x \in Message, Copy(x, e.msg),
           \A r \in Others(s) : Asked(s, r)' = Append(Asked(s, r), x) /\ SameReplies(s, r),
           LineCopies(s)
    PROVE  LineCopies(s)'
  <1>1. RangeOf(inProgress'[s]) = RangeOf(inProgress[s]) \cup {e}
    BY RangeAppend, ZenonT(60) DEF IInv, Shape
  <1>2. \A r \in Others(s) : /\ RangeOf(Asked(s, r)') = RangeOf(Asked(s, r)) \cup {x}
                             /\ RangeOf(Replies(s, r)') = RangeOf(Replies(s, r))
    BY QueuesTyped, RangeAppend, ZenonT(60) DEF IInv, Others, SameReplies
  <1>3. \A f \in RangeOf(inProgress[s]) : f.msg.id # e.msg.id
    <2>1. \A i \in 1..Len(inProgress[s]) : e.msg.id # inProgress[s][i].msg.id
      BY IdsAre DEF IdsSound
    <2>2. inProgress[s] \in Seq(Entry)
      BY DEF IInv, Shape
    <2>3. ASSUME NEW f \in RangeOf(inProgress[s])
          PROVE  f.msg.id # e.msg.id
      <3>1. PICK i \in 1..Len(inProgress[s]) : inProgress[s][i] = f
        BY <2>2, RangeIndex
      <3> QED
        BY <2>1, <3>1
    <2> QED
      BY <2>3
  <1>4. \A r \in Others(s) : \A m \in RangeOf(Asked(s, r)) \cup RangeOf(Replies(s, r)) :
            m.id # e.msg.id
    <2>1. ASSUME NEW r \in Others(s), NEW m \in RangeOf(Asked(s, r)) \cup RangeOf(Replies(s, r))
          PROVE  m.id # e.msg.id
      <3>1. PICK i \in 1..Len(inProgress[s]) : m.id = inProgress[s][i].msg.id
        BY <2>1, IdsAre DEF IdsSound
      <3>2. e.msg.id # inProgress[s][i].msg.id
        BY IdsAre DEF IdsSound
      <3> QED
        BY <3>1, <3>2
    <2> QED
      BY <2>1
  <1>5. ASSUME NEW f \in RangeOf(inProgress'[s]), NEW r \in Others(s)
        PROVE  /\ \A m \in RangeOf(Asked(s, r)') :
                     m.id = f.msg.id => Key(m) = Key(f.msg) /\ m.client = f.msg.client
               /\ \A m \in RangeOf(Replies(s, r)') : m.id = f.msg.id => m.client = f.msg.client
    <2>1. CASE f = e
      BY <1>2, <1>4, <2>1 DEF Copy
    <2>2. CASE f \in RangeOf(inProgress[s])
      BY <1>2, <1>3, <2>2 DEF LineCopies, AskedCopies, Copy
    <2> QED
      BY <1>1, <1>5, <2>1, <2>2
  <1> QED
    BY <1>5, LinesNext

LEMMA LineCopiesAsked ==
    ASSUME IInv, Shape', NEW s \in Servers, NEW r \in Others(s), NEW m \in Message,
           NEW y \in Message, y.id = m.id, y.client = m.client,
           Asked(s, r) = <<m>> \o Asked(s, r)', Replies(s, r)' = Append(Replies(s, r), y),
           \A t \in Others(s) \ {r} : SameAsked(s, t) /\ SameReplies(s, t),
           inProgress'[s] = inProgress[s], LineCopies(s)
    PROVE  LineCopies(s)'
  <1>1. RangeOf(Asked(s, r)) = {m} \cup RangeOf(Asked(s, r)')
    BY AskedFirst DEF Others
  <1>2. RangeOf(Replies(s, r)') = RangeOf(Replies(s, r)) \cup {y}
    BY QueuesTyped, RangeAppend DEF IInv, Others
  <1>3. \A t \in Others(s) \ {r} : /\ RangeOf(Asked(s, t)') = RangeOf(Asked(s, t))
                                   /\ RangeOf(Replies(s, t)') = RangeOf(Replies(s, t))
    BY DEF SameAsked, SameReplies
  <1>4. ASSUME NEW f \in RangeOf(inProgress'[s]), NEW t \in Others(s)
        PROVE  /\ \A x \in RangeOf(Asked(s, t)') :
                     x.id = f.msg.id => Key(x) = Key(f.msg) /\ x.client = f.msg.client
               /\ \A x \in RangeOf(Replies(s, t)') : x.id = f.msg.id => x.client = f.msg.client
    <2>1. AskedCopies(s, t, f)
      BY <1>4 DEF LineCopies
    <2>2. CASE t = r
      BY <1>1, <1>2, <2>1, <2>2 DEF AskedCopies
    <2>3. CASE t # r
      BY <1>3, <2>1, <2>3 DEF AskedCopies
    <2> QED
      BY <2>2, <2>3
  <1> QED
    BY <1>4, LinesNext

LEMMA LineCopiesCounted ==
    ASSUME Shape', NEW s, NEW r, NEW m, NEW P, NEW Q, CountsReply(s, r, m, P, Q),
           Rest(Q, inProgress'[s]), \A t \in Others(s) : SameAsked(s, t), LineCopies(s)
    PROVE  LineCopies(s)'
  <1>1. RangeOf(Replies(s, r)') \subseteq RangeOf(Replies(s, r))
    BY RepliesFirst, ZenonT(60) DEF CountsReply, Others
  <1>2. \A t \in Others(s) : /\ RangeOf(Asked(s, t)') = RangeOf(Asked(s, t))
                             /\ RangeOf(Replies(s, t)') \subseteq RangeOf(Replies(s, t))
    BY <1>1 DEF SameAsked, SameReplies, CountsReply
  <1>3. ASSUME NEW f \in RangeOf(inProgress'[s]), NEW t \in Others(s)
        PROVE  /\ \A x \in RangeOf(Asked(s, t)') :
                     x.id = f.msg.id => Key(x) = Key(f.msg) /\ x.client = f.msg.client
               /\ \A x \in RangeOf(Replies(s, t)') : x.id = f.msg.id => x.client = f.msg.client
    <2>1. PICK i \in 1..Len(Q) : Q[i] = f
      BY <1>3, RestRange DEF CountsReply
    <2>2. f.msg = P[i].msg /\ P[i] \in RangeOf(inProgress[s])
      BY <2>1, CountedEntry
    <2>3. AskedCopies(s, t, P[i])
      BY <1>3, <2>2 DEF LineCopies
    <2> QED
      BY <1>2, <1>3, <2>2, <2>3 DEF AskedCopies
  <1> QED
    BY <1>3, LinesNext

(* The queues of the locks. *)
WaitsFor(c, i) == request[c].req = "AQ" /\ request[c].idx = i

LEMMA QueueCopiesNext ==
    \A s : QueueCopies(s)' <=>
        \A i \in DOMAIN lockTable'[s] : \A c \in Clients :
            Queued(Queue(s, i)', c) => request'[c].req = "AQ" /\ request'[c].idx = i
  BY DEF QueueCopies, Queue, Queued

LEMMA QueueCopiesKept ==
    ASSUME TablesSound', SameQueues, NEW s \in Servers,
           \A i \in DOMAIN lockTable[s] : \A c \in Clients :
               Queued(Queue(s, i), c) => request'[c] = request[c],
           QueueCopies(s)
    PROVE  QueueCopies(s)'
  <1>1. ASSUME NEW i \in DOMAIN lockTable'[s], NEW c \in Clients, Queued(Queue(s, i)', c)
        PROVE  request'[c].req = "AQ" /\ request'[c].idx = i
    <2>1. i \in Indexes
      BY DEF TablesSound, Keys
    <2>2. CASE SameQueue(s, i)
      <3>1. i \in DOMAIN lockTable[s] /\ Queued(Queue(s, i), c)
        BY <1>1, <2>2 DEF SameQueue
      <3> QED
        BY <3>1 DEF QueueCopies, Queue
    <2>3. CASE Queue(s, i)' = << >>
      BY <1>1, <2>3 DEF Queued
    <2> QED
      BY <2>1, <2>2, <2>3 DEF SameQueues
  <1> QED
    BY <1>1, QueueCopiesNext

LEMMA QueueCopiesBecome ==
    ASSUME TablesSound', NEW s \in Servers, NEW i \in Indexes, OtherQueues(s, i), RequestsSame,
           \A c \in Clients :
               Queued(Queue(s, i)', c) => Queued(Queue(s, i), c) \/ WaitsFor(c, i),
           \A t \in Servers : QueueCopies(t)
    PROVE  \A t \in Servers : QueueCopies(t)'
  <1>1. ASSUME NEW t \in Servers, NEW j \in DOMAIN lockTable'[t], NEW c \in Clients,
               Queued(Queue(t, j)', c)
        PROVE  request'[c].req = "AQ" /\ request'[c].idx = j
    <2>1. j \in Indexes
      BY DEF TablesSound, Keys
    <2>2. CASE t = s /\ j = i
      <3>1. Queued(Queue(s, i), c) \/ WaitsFor(c, i)
        BY <1>1, <2>2
      <3>2. i \in DOMAIN lockTable[s]
        BY DEF OtherQueues
      <3>3. WaitsFor(c, i)
        BY <3>1, <3>2 DEF QueueCopies, Queue, WaitsFor
      <3> QED
        BY <2>2, <3>3 DEF WaitsFor, RequestsSame
    <2>3. CASE t # s \/ j # i
      <3>1. SameQueue(t, j)
        BY <2>1, <2>3 DEF OtherQueues
      <3>2. j \in DOMAIN lockTable[t] /\ Queued(Queue(t, j), c)
        BY <1>1, <3>1 DEF SameQueue
      <3> QED
        BY <3>2 DEF QueueCopies, Queue, RequestsSame
    <2> QED
      BY <2>2, <2>3
  <1> QED
    BY <1>1, QueueCopiesNext

(* The locks' owners. *)
LockSound(s, i) ==
    /\ ~Queued(Queue(s, i), lockTable[s][i].owner)
    /\ lockTable[s][i].owner = Nobody => Queue(s, i) = << >>

LEMMA LocksAre == LocksSound <=> \A s \in Servers : \A i \in DOMAIN lockTable[s] : LockSound(s, i)
  BY DEF LocksSound, LockSound, Queue

LEMMA LocksNext ==
    LocksSound' <=> \A s \in Servers : \A i \in DOMAIN lockTable'[s] : LockSound(s, i)'
  BY DEF LocksSound, LockSound, Queue, Queued

LEMMA LockSame ==
    ASSUME NEW s, NEW i, LockKept(s, i), LockSound(s, i)
    PROVE  LockSound(s, i)'
  BY DEF LockKept, LockSound, Queue, Queued

LEMMA LocksSoundKept ==
    ASSUME SameObjects, LocksKept, LocksSound
    PROVE  LocksSound'
  BY LocksAre, LocksNext, LockSame DEF SameObjects, SameNames, LocksKept

LEMMA LocksSoundBecome ==
    ASSUME SameObjects, LocksSound, NEW s \in Servers, NEW i, NEW c, NEW q,
           LockBecomes(s, i, c, q), ~Queued(q, c), c = Nobody => q = << >>
    PROVE  LocksSound'
  <1>1. LockSound(s, i)'
    BY DEF LockBecomes, LockSound, Queue, Queued
  <1>2. ASSUME NEW r \in Servers, NEW j \in DOMAIN lockTable'[r], r # s \/ j # i
        PROVE  LockSound(r, j)'
    BY <1>2, LocksAre, LockSame DEF SameObjects, SameNames, LockBecomes
  <1> QED
    BY <1>1, <1>2, LocksNext

(* A new object. *)
LEMMA TableGrown ==
    ASSUME NEW t, NEW u, NEW s \in Servers, NEW x, Grows(t, u, s, x), Numbered(s, t[s]),
           IsFiniteSet(DOMAIN t[s])
    PROVE  /\ \A r \in Servers \ {s} : u[r] = t[r]
           /\ \E n : /\ n = NextIndex(s, t[s]) /\ n \notin DOMAIN t[s]
                     /\ DOMAIN u[s] = DOMAIN t[s] \cup {n} /\ u[s][n] = x
                     /\ \A i \in DOMAIN t[s] : u[s][i] = t[s][i]
           /\ Numbered(s, u[s])
  <1>1. PICK n : n = NextIndex(s, t[s])
    OBVIOUS
  <1>2. n \notin DOMAIN t[s]
    BY <1>1, NewIndex
  <1>3. u[s] = With(t[s], n, x) /\ \A r \in Servers \ {s} : u[r] = t[r]
    BY <1>1 DEF Grows
  <1>4. /\ DOMAIN u[s] = DOMAIN t[s] \cup {n} /\ u[s][n] = x
        /\ \A i \in DOMAIN t[s] : u[s][i] = t[s][i]
    BY <1>2, <1>3 DEF With
  <1>5. PICK k \in Nat : k = Cardinality(DOMAIN t[s])
    BY FS_CardinalityType
  <1>6. Cardinality(DOMAIN u[s]) = k + 1
    BY <1>2, <1>4, <1>5, FS_AddElement
  <1>7. DOMAIN u[s] = {Stride * s + j : j \in 0..((k + 1) - 1)}
    <2>1. DOMAIN t[s] = {Stride * s + j : j \in 0..(k - 1)} /\ n = Stride * s + k
      BY <1>1, <1>5 DEF Numbered, NextIndex
    <2>2. 0..((k + 1) - 1) = (0..(k - 1)) \cup {k}
      OBVIOUS
    <2> QED
      BY <1>4, <2>1, <2>2
  <1>8. k + 1 <= MaxObjects
    <2>1. ~(k >= MaxObjects) /\ MaxObjects \in Nat
      BY <1>5, LockServersAssumption DEF Grows, NoRoom, LockServersAssumption
    <2> QED
      BY <2>1
  <1>9. Numbered(s, u[s])
    BY <1>6, <1>7, <1>8 DEF Numbered
  <1> QED
    BY <1>1, <1>2, <1>3, <1>4, <1>9

LEMMA LocksSoundGrow ==
    ASSUME TablesSound, TablesNumbered, LocksSound, NEW s \in Servers, NEW m, NewObject(s, m)
    PROVE  LocksSound'
  <1>1. CASE UNCHANGED lockTable
    BY <1>1, LocksAre, LocksNext, LockSame DEF LockKept
  <1>2. ASSUME NEW x, Grows(lockTable, lockTable', s, x), x.owner = Nobody, x.queue = << >>
        PROVE  LocksSound'
    <2>1. Numbered(s, lockTable[s]) /\ IsFiniteSet(DOMAIN lockTable[s])
      BY DEF TablesSound, Keys, TablesNumbered
    <2>2. PICK n : DOMAIN lockTable'[s] = DOMAIN lockTable[s] \cup {n} /\ lockTable'[s][n] = x
                   /\ \A i \in DOMAIN lockTable[s] : lockTable'[s][i] = lockTable[s][i]
      <3>1. PICK t, u : t = lockTable /\ u = lockTable'
        OBVIOUS
      <3>2. Grows(t, u, s, x) /\ Numbered(s, t[s]) /\ IsFiniteSet(DOMAIN t[s])
        BY <1>2, <2>1, <3>1
      <3>3. \E n : /\ n = NextIndex(s, t[s]) /\ n \notin DOMAIN t[s]
                   /\ DOMAIN u[s] = DOMAIN t[s] \cup {n} /\ u[s][n] = x
                   /\ \A i \in DOMAIN t[s] : u[s][i] = t[s][i]
        <4>1. Grows(t, u, s, x)
          BY <3>2
        <4>2. Numbered(s, t[s])
          BY <3>2
        <4>3. IsFiniteSet(DOMAIN t[s])
          BY <3>2
        <4> QED
          BY <4>1, <4>2, <4>3, TableGrown
      <3> QED
        BY <3>1, <3>3
    <2>3. \A r \in Servers \ {s} : lockTable'[r] = lockTable[r]
      BY <1>2 DEF Grows
    <2>4. LockSound(s, n)'
      BY <1>2, <2>2 DEF LockSound, Queue, Queued
    <2>5. \A r \in Servers : \A i \in DOMAIN lockTable[r] : r # s \/ i # n => LockKept(r, i)
      BY <2>2, <2>3 DEF LockKept
    <2>6. \A r \in Servers : \A i \in DOMAIN lockTable'[r] :
              (r = s /\ i = n) \/ (i \in DOMAIN lockTable[r] /\ (r # s \/ i # n))
      BY <2>2, <2>3
    <2> QED
      BY <2>4, <2>5, <2>6, LocksAre, LocksNext, LockSame
  <1> QED
    BY <1>1, <1>2 DEF NewObject

(* The tables keep their objects. *)
HasMore(t, u) ==
    \A s \in Servers : /\ DOMAIN t[s] \subseteq DOMAIN u[s]
                       /\ \A i \in DOMAIN t[s] : u[s][i].name = t[s][i].name

LEMMA NamesMore ==
    ASSUME NEW t, NEW u, SameNames(t, u)
    PROVE  HasMore(t, u) /\ \A s \in Servers : Numbered(s, t[s]) => Numbered(s, u[s])
  BY DEF SameNames, HasMore, Numbered

LEMMA SameMore ==
    ASSUME NEW t, NEW u, u = t
    PROVE  HasMore(t, u) /\ \A s \in Servers : Numbered(s, t[s]) => Numbered(s, u[s])
  BY DEF HasMore, Numbered

LEMMA GrowsMore ==
    ASSUME NEW t, NEW u, Keys(t), \A s \in Servers : Numbered(s, t[s]), NEW s \in Servers, NEW x,
           Grows(t, u, s, x)
    PROVE  HasMore(t, u) /\ \A r \in Servers : Numbered(r, u[r])
  <1>1. Numbered(s, t[s]) /\ IsFiniteSet(DOMAIN t[s])
    BY DEF Keys
  <1>2. /\ \A r \in Servers \ {s} : u[r] = t[r]
        /\ \E n : /\ n = NextIndex(s, t[s]) /\ n \notin DOMAIN t[s]
                  /\ DOMAIN u[s] = DOMAIN t[s] \cup {n} /\ u[s][n] = x
                  /\ \A i \in DOMAIN t[s] : u[s][i] = t[s][i]
        /\ Numbered(s, u[s])
    <2>1. Numbered(s, t[s])
      BY <1>1
    <2>2. IsFiniteSet(DOMAIN t[s])
      BY <1>1
    <2> QED
      BY <2>1, <2>2, TableGrown
  <1>3. Numbered(s, u[s]) /\ (\A r \in Servers \ {s} : u[r] = t[r])
        /\ DOMAIN t[s] \subseteq DOMAIN u[s] /\ \A i \in DOMAIN t[s] : u[s][i] = t[s][i]
    BY <1>2
  <1>4. HasMore(t, u)
    BY <1>3 DEF HasMore
  <1>5. \A r \in Servers : Numbered(r, u[r])
    BY <1>3
  <1> QED
    BY <1>4, <1>5

AllMore == HasMore(lockTable, lockTable') /\ HasMore(condTable, condTable')
           /\ HasMore(mvTable, mvTable')

LEMMA NumberedAre ==
    TablesNumbered <=> /\ \A s \in Servers : Numbered(s, lockTable[s])
                       /\ \A s \in Servers : Numbered(s, condTable[s])
                       /\ \A s \in Servers : Numbered(s, mvTable[s])
  BY DEF TablesNumbered

LEMMA NumberedNext ==
    /\ \A s \in Servers : Numbered(s, lockTable'[s])
    /\ \A s \in Servers : Numbered(s, condTable'[s])
    /\ \A s \in Servers : Numbered(s, mvTable'[s])
    => TablesNumbered'
  BY DEF TablesNumbered, Numbered

LEMMA ObjectsSame ==
    ASSUME SameObjects, TablesNumbered
    PROVE  AllMore /\ TablesNumbered'
  <1>1. PICK t, u : t = lockTable /\ u = lockTable'
    OBVIOUS
  <1>2. PICK v, w : v = condTable /\ w = condTable'
    OBVIOUS
  <1>3. PICK y, z : y = mvTable /\ z = mvTable'
    OBVIOUS
  <1>4. SameNames(t, u) /\ SameNames(v, w) /\ SameNames(y, z)
    BY <1>1, <1>2, <1>3 DEF SameObjects
  <1>5. /\ HasMore(t, u) /\ \A s \in Servers : Numbered(s, t[s]) => Numbered(s, u[s])
        /\ HasMore(v, w) /\ \A s \in Servers : Numbered(s, v[s]) => Numbered(s, w[s])
        /\ HasMore(y, z) /\ \A s \in Servers : Numbered(s, y[s]) => Numbered(s, z[s])
    BY <1>4, NamesMore
  <1>6. AllMore
    BY <1>1, <1>2, <1>3, <1>5 DEF AllMore
  <1>7. /\ \A s \in Servers : Numbered(s, lockTable'[s])
        /\ \A s \in Servers : Numbered(s, condTable'[s])
        /\ \A s \in Servers : Numbered(s, mvTable'[s])
    BY <1>1, <1>2, <1>3, <1>5, NumberedAre
  <1> QED
    BY <1>6, <1>7, NumberedNext

(* One table has a new object. *)
LEMMA TableGrownOrSame ==
    ASSUME NEW t, NEW u, Keys(t), \A s \in Servers : Numbered(s, t[s]), NEW s \in Servers,
           u = t \/ \E x : Grows(t, u, s, x)
    PROVE  HasMore(t, u) /\ \A r \in Servers : Numbered(r, u[r])
  <1>1. CASE u = t
    BY <1>1, SameMore
  <1>2. CASE \E x : Grows(t, u, s, x)
    BY <1>2, GrowsMore
  <1> QED
    BY <1>1, <1>2

LEMMA ObjectsMore ==
    ASSUME TablesSound, TablesNumbered, NEW s \in Servers, NEW m, NewObject(s, m)
    PROVE  AllMore /\ TablesNumbered'
  <1>1. PICK t, u : t = lockTable /\ u = lockTable'
    OBVIOUS
  <1>2. PICK v, w : v = condTable /\ w = condTable'
    OBVIOUS
  <1>3. PICK y, z : y = mvTable /\ z = mvTable'
    OBVIOUS
  <1>4. /\ u = t \/ \E x : Grows(t, u, s, x)
        /\ w = v \/ \E x : Grows(v, w, s, x)
        /\ z = y \/ \E x : Grows(y, z, s, x)
    BY <1>1, <1>2, <1>3 DEF NewObject
  <1>5. /\ Keys(t) /\ \A r \in Servers : Numbered(r, t[r])
        /\ Keys(v) /\ \A r \in Servers : Numbered(r, v[r])
        /\ Keys(y) /\ \A r \in Servers : Numbered(r, y[r])
    BY <1>1, <1>2, <1>3, NumberedAre DEF TablesSound
  <1>6. /\ HasMore(t, u) /\ \A r \in Servers : Numbered(r, u[r])
        /\ HasMore(v, w) /\ \A r \in Servers : Numbered(r, w[r])
        /\ HasMore(y, z) /\ \A r \in Servers : Numbered(r, z[r])
    BY <1>4, <1>5, TableGrownOrSame
  <1> QED
    BY <1>1, <1>2, <1>3, <1>6, NumberedNext DEF AllMore

(* Whoever has an object keeps it. *)
LEMMA OwnsIf ==
    \A r, m : Owns(r, m) <=>
        \/ m.req = "CL" /\ \E i \in DOMAIN lockTable[r] : lockTable[r][i].name = m.name
        \/ m.req \in {"DL", "RL", "AQ"} /\ m.idx \in DOMAIN lockTable[r]
        \/ m.req = "CC" /\ \E i \in DOMAIN condTable[r] : condTable[r][i].name = m.name
        \/ m.req \in {"DC", "WT", "SG", "BC"} /\ m.idx \in DOMAIN condTable[r]
        \/ m.req = "CM" /\ \E i \in DOMAIN mvTable[r] : mvTable[r][i].name = m.name
        \/ m.req \in {"DM", "GM", "SM"} /\ m.idx \in DOMAIN mvTable[r]
  BY DEF Owns, FindByName

LEMMA OwnsNext ==
    \A r, m : Owns(r, m)' <=>
        \/ m.req = "CL" /\ \E i \in DOMAIN lockTable'[r] : lockTable'[r][i].name = m.name
        \/ m.req \in {"DL", "RL", "AQ"} /\ m.idx \in DOMAIN lockTable'[r]
        \/ m.req = "CC" /\ \E i \in DOMAIN condTable'[r] : condTable'[r][i].name = m.name
        \/ m.req \in {"DC", "WT", "SG", "BC"} /\ m.idx \in DOMAIN condTable'[r]
        \/ m.req = "CM" /\ \E i \in DOMAIN mvTable'[r] : mvTable'[r][i].name = m.name
        \/ m.req \in {"DM", "GM", "SM"} /\ m.idx \in DOMAIN mvTable'[r]
  BY DEF Owns, FindByName

LEMMA OwnsMore ==
    ASSUME AllMore
    PROVE  \A r \in Servers : \A m : Owns(r, m) => Owns(r, m)'
  <1>1. \A r \in Servers : /\ DOMAIN lockTable[r] \subseteq DOMAIN lockTable'[r]
                           /\ \A i \in DOMAIN lockTable[r] :
                                 lockTable'[r][i].name = lockTable[r][i].name
                           /\ DOMAIN condTable[r] \subseteq DOMAIN condTable'[r]
                           /\ \A i \in DOMAIN condTable[r] :
                                 condTable'[r][i].name = condTable[r][i].name
                           /\ DOMAIN mvTable[r] \subseteq DOMAIN mvTable'[r]
                           /\ \A i \in DOMAIN mvTable[r] :
                                 mvTable'[r][i].name = mvTable[r][i].name
    BY DEF AllMore, HasMore
  <1>2. ASSUME NEW r \in Servers, NEW m, Owns(r, m)
        PROVE  Owns(r, m)'
    <2>1. CASE m.req \in {"DL", "RL", "AQ"} /\ m.idx \in DOMAIN lockTable[r]
      BY <1>1, <2>1, OwnsNext
    <2>2. CASE m.req \in {"DC", "WT", "SG", "BC"} /\ m.idx \in DOMAIN condTable[r]
      BY <1>1, <2>2, OwnsNext
    <2>3. CASE m.req \in {"DM", "GM", "SM"} /\ m.idx \in DOMAIN mvTable[r]
      BY <1>1, <2>3, OwnsNext
    <2>4. CASE m.req = "CL" /\ \E i \in DOMAIN lockTable[r] : lockTable[r][i].name = m.name
      <3>1. PICK i \in DOMAIN lockTable[r] : lockTable[r][i].name = m.name
        BY <2>4
      <3>2. i \in DOMAIN lockTable'[r] /\ lockTable'[r][i].name = m.name
        BY <1>1, <3>1
      <3> QED
        BY <2>4, <3>2, OwnsNext
    <2>5. CASE m.req = "CC" /\ \E i \in DOMAIN condTable[r] : condTable[r][i].name = m.name
      <3>1. PICK i \in DOMAIN condTable[r] : condTable[r][i].name = m.name
        BY <2>5
      <3>2. i \in DOMAIN condTable'[r] /\ condTable'[r][i].name = m.name
        BY <1>1, <3>1
      <3> QED
        BY <2>5, <3>2, OwnsNext
    <2>6. CASE m.req = "CM" /\ \E i \in DOMAIN mvTable[r] : mvTable[r][i].name = m.name
      <3>1. PICK i \in DOMAIN mvTable[r] : mvTable[r][i].name = m.name
        BY <2>6
      <3>2. i \in DOMAIN mvTable'[r] /\ mvTable'[r][i].name = m.name
        BY <1>1, <3>1
      <3> QED
        BY <2>6, <3>2, OwnsNext
    <2> QED
      BY <1>2, <2>1, <2>2, <2>3, <2>4, <2>5, <2>6, OwnsIf
  <1> QED
    BY <1>2

LEMMA OwnsSame ==
    ASSUME UNCHANGED tables
    PROVE  AllMore /\ \A r \in Servers : \A m : Owns(r, m)' <=> Owns(r, m)
  BY OwnsIf, OwnsNext DEF tables, AllMore, HasMore

(* What was taken over. *)
ClosedAt(s) ==
    \A e \in RangeOf(inProgress[s]) : Open(s, e) \/ \E r \in Others(s) : Closes(s, r, e)

LEMMA ClosedAre == ClosedSound <=> \A s \in Servers : ClosedAt(s)
  BY DEF ClosedSound, ClosedAt

LEMMA ClosedNow ==
    \A s : ClosedAt(s) <=>
        \A e \in RangeOf(inProgress[s]) :
            \/ e.yes = 0 /\ ~Said(s, e.msg.id)
            \/ \E r \in Others(s) : Owns(r, e.msg) /\ ~Unheard(s, r, e.msg.id)
  BY DEF ClosedAt, Open, Closes

LEMMA ClosedNext ==
    /\ \A s : ClosedAt(s)' <=>
          \A e \in RangeOf(inProgress'[s]) :
              \/ e.yes = 0 /\ ~Said(s, e.msg.id)'
              \/ \E r \in Others(s) : Owns(r, e.msg)' /\ ~Unheard(s, r, e.msg.id)'
    /\ (\A s \in Servers : ClosedAt(s)') => ClosedSound'
  BY DEF ClosedSound, ClosedAt, Open, Closes, Others, RangeOf

LEMMA UnheardIs ==
    /\ \A s, r, d : Unheard(s, r, d) <=> \E m \in RangeOf(Asked(s, r)) : m.id = d
    /\ \A s, r, d : Unheard(s, r, d)' <=> \E m \in RangeOf(Asked(s, r)') : m.id = d
  BY DEF Unheard, RangeOf

LEMMA ClosedKept ==
    ASSUME NEW s \in Servers, AllMore, inProgress'[s] = inProgress[s],
           \A d : Said(s, d)' => Said(s, d),
           \A r \in Others(s) : RangeOf(Asked(s, r)') \subseteq RangeOf(Asked(s, r)),
           ClosedAt(s)
    PROVE  ClosedAt(s)'
  <1>1. \A r \in Others(s) : \A m : Owns(r, m) => Owns(r, m)'
    BY OwnsMore DEF Others
  <1>2. \A r \in Others(s) : \A d : Unheard(s, r, d)' => Unheard(s, r, d)
    BY UnheardIs
  <1>3. ASSUME NEW e \in RangeOf(inProgress'[s])
        PROVE  \/ e.yes = 0 /\ ~Said(s, e.msg.id)'
               \/ \E r \in Others(s) : Owns(r, e.msg)' /\ ~Unheard(s, r, e.msg.id)'
    <2>1. \/ e.yes = 0 /\ ~Said(s, e.msg.id)
          \/ \E r \in Others(s) : Owns(r, e.msg) /\ ~Unheard(s, r, e.msg.id)
      BY ClosedNow
    <2> QED
      BY <1>1, <1>2, <2>1
  <1> QED
    BY <1>3, ClosedNext

LEMMA ClosedQuiet ==
    ASSUME AllMore, inProgress' = inProgress,
           \A s, r \in Servers : SameReplies(s, r) /\ SameAsked(s, r), ClosedSound
    PROVE  ClosedSound'
  <1>1. ASSUME NEW s \in Servers
        PROVE  ClosedAt(s)'
    <2>1. \A d : Said(s, d)' <=> Said(s, d)
      BY SaidSame DEF Others
    <2>2. \A r \in Others(s) : RangeOf(Asked(s, r)') \subseteq RangeOf(Asked(s, r))
      BY DEF SameAsked, Others
    <2>3. ClosedAt(s)
      BY ClosedAre
    <2> QED
      BY <2>1, <2>2, <2>3, ClosedKept
  <1> QED
    BY <1>1, ClosedNext

(* A request is relayed. *)
LEMMA ClosedRelayed ==
    ASSUME IInv, NEW s \in Servers, NEW e \in Entry, e.yes = 0,
           inProgress'[s] = Append(inProgress[s], e), UNCHANGED tables,
           e.msg \in RangeOf(Fresh(s)), NEW x \in Message, Copy(x, e.msg),
           \A r \in Others(s) : Asked(s, r)' = Append(Asked(s, r), x) /\ SameReplies(s, r),
           ClosedAt(s)
    PROVE  ClosedAt(s)'
  <1>1. RangeOf(inProgress'[s]) = RangeOf(inProgress[s]) \cup {e}
    BY RangeAppend, ZenonT(60) DEF IInv, Shape
  <1>2. \A r \in Others(s) : RangeOf(Asked(s, r)') = RangeOf(Asked(s, r)) \cup {x}
    BY QueuesTyped, RangeAppend, ZenonT(60) DEF IInv, Others
  <1>3. \A d : Said(s, d)' <=> Said(s, d)
    BY SaidSame
  <1>4. \A i \in 1..Len(inProgress[s]) : e.msg.id # inProgress[s][i].msg.id
    BY IdsAre DEF IdsSound
  <1>5. ASSUME NEW f \in RangeOf(inProgress[s])
        PROVE  f.msg.id # e.msg.id
    <2>1. PICK i \in 1..Len(inProgress[s]) : inProgress[s][i] = f
      BY RangeIndex DEF IInv, Shape
    <2> QED
      BY <1>4, <2>1
  <1>6. ~Said(s, e.msg.id)
    <2>1. ASSUME NEW r \in Others(s), NEW m \in RangeOf(Replies(s, r))
          PROVE  m.id # e.msg.id
      <3>1. PICK i \in 1..Len(inProgress[s]) : m.id = inProgress[s][i].msg.id
        BY <2>1, IdsAre DEF IdsSound
      <3>2. e.msg.id # inProgress[s][i].msg.id
        BY <1>4
      <3> QED
        BY <3>1, <3>2
    <2> QED
      BY <2>1 DEF Said
  <1>7. \A r \in Others(s) : \A m : Owns(r, m)' <=> Owns(r, m)
    BY OwnsSame DEF Others
  <1>8. \A r \in Others(s) : \A d : d # e.msg.id => (Unheard(s, r, d)' <=> Unheard(s, r, d))
    BY <1>2, UnheardIs DEF Copy
  <1>9. ASSUME NEW f \in RangeOf(inProgress'[s])
        PROVE  \/ f.yes = 0 /\ ~Said(s, f.msg.id)'
               \/ \E r \in Others(s) : Owns(r, f.msg)' /\ ~Unheard(s, r, f.msg.id)'
    <2>1. CASE f = e
      BY <1>3, <1>6, <2>1
    <2>2. CASE f \in RangeOf(inProgress[s])
      <3>1. \/ f.yes = 0 /\ ~Said(s, f.msg.id)
            \/ \E r \in Others(s) : Owns(r, f.msg) /\ ~Unheard(s, r, f.msg.id)
        BY <2>2, ClosedNow
      <3> QED
        BY <1>3, <1>5, <1>7, <1>8, <2>2, <3>1
    <2> QED
      BY <1>1, <2>1, <2>2
  <1> QED
    BY <1>9, ClosedNext

(* A request is taken over, or not. *)
LEMMA AskedLooked ==
    ASSUME IInv, Shape', NEW s \in Servers, NEW r \in Others(s), NEW m \in Message,
           Asked(s, r) = <<m>> \o Asked(s, r)'
    PROVE  /\ m \in RangeOf(Asked(s, r)) /\ RangeOf(Asked(s, r)') \subseteq RangeOf(Asked(s, r))
           /\ ~Unheard(s, r, m.id)'
  <1>1. RangeOf(Asked(s, r)) = {m} \cup RangeOf(Asked(s, r)') /\ m \in RangeOf(Asked(s, r))
        /\ Asked(s, r)' \in Seq(Message)
    BY AskedFirst DEF Others
  <1>2. PICK d : d = Asked(s, r)'
    OBVIOUS
  <1>3. d \in Seq(Message) /\ Asked(s, r) = <<m>> \o d
    BY <1>1, <1>2
  <1>4. \A x \in RangeOf(d) : x.id # m.id
    BY <1>3, AskedOnce
  <1> QED
    BY <1>1, <1>2, <1>4, UnheardIs

LEMMA ClosedAsked ==
    ASSUME IInv, Core, Shape', NEW s \in Servers, NEW r \in Others(s), NEW m \in Message,
           NEW y \in Message, y.id = m.id, y.req = "YS" => Owns(r, m),
           m \in RangeOf(Asked(s, r)), RangeOf(Asked(s, r)') \subseteq RangeOf(Asked(s, r)),
           ~Unheard(s, r, m.id)', Replies(s, r)' = Append(Replies(s, r), y),
           \A t \in Others(s) \ {r} : SameAsked(s, t) /\ SameReplies(s, t),
           inProgress'[s] = inProgress[s], UNCHANGED tables
    PROVE  ClosedAt(s)'
  <1>2. \A d : Said(s, d)' <=> Said(s, d) \/ (d = y.id /\ y.req = "YS")
    BY SaidMore DEF IInv
  <1>3. \A t \in Others(s) \ {r} : RangeOf(Asked(s, t)') = RangeOf(Asked(s, t))
    BY DEF SameAsked
  <1>4. \A t \in Others(s) : \A d : Unheard(s, t, d)' => Unheard(s, t, d)
    <2>1. \A t \in Others(s) : RangeOf(Asked(s, t)') \subseteq RangeOf(Asked(s, t))
      BY <1>3
    <2> QED
      BY <2>1, UnheardIs
  <1>5. \A t \in Others(s) : \A k : Owns(t, k)' <=> Owns(t, k)
    BY OwnsSame DEF Others
  <1>7. PICK i \in 1..Len(inProgress[s]) :
            /\ m.id = inProgress[s][i].msg.id /\ Key(m) = Key(inProgress[s][i].msg)
            /\ \A j \in 1..Len(inProgress[s]) : inProgress[s][j].msg.id = m.id => j = i
    <2>1. \E i \in 1..Len(inProgress[s]) :
              LET e == inProgress[s][i]
              IN  /\ e \in Entry /\ e \in RangeOf(inProgress[s])
                  /\ m.id = e.msg.id /\ Key(m) = Key(e.msg) /\ m.client = e.msg.client
                  /\ \A j \in 1..Len(inProgress[s]) : inProgress[s][j].msg.id = m.id => j = i
                  /\ SingleOwner(s) /\ Owns(r, m) => Open(s, e)
      BY EntryAsked
    <2> QED
      BY <2>1
  <1>8. ASSUME NEW f \in RangeOf(inProgress'[s])
        PROVE  \/ f.yes = 0 /\ ~Said(s, f.msg.id)'
               \/ \E t \in Others(s) : Owns(t, f.msg)' /\ ~Unheard(s, t, f.msg.id)'
    <2>1. PICK j \in 1..Len(inProgress[s]) : inProgress[s][j] = f
      BY RangeIndex DEF IInv, Shape
    <2>2. \/ f.yes = 0 /\ ~Said(s, f.msg.id)
          \/ \E t \in Others(s) : Owns(t, f.msg) /\ ~Unheard(s, t, f.msg.id)
      BY ClosedNow, ClosedAre DEF Core
    <2>3. CASE f.msg.id # m.id
      BY <1>2, <1>4, <1>5, <2>2, <2>3
    <2>4. CASE f.msg.id = m.id /\ y.req = "YS"
      <3>1. Key(f.msg) = Key(m)
        BY <1>7, <2>1, <2>4
      <3>2. Owns(r, f.msg)
        BY <2>4, <3>1, OwnsKey
      <3> QED
        BY <1>5, <2>4, <3>2
    <2>5. CASE y.req # "YS"
      BY <1>2, <1>4, <1>5, <2>2, <2>5
    <2> QED
      BY <2>3, <2>4, <2>5
  <1> QED
    BY <1>8, ClosedNext

(* A reply is counted. *)
LEMMA ClosedCounted ==
    ASSUME Shape', NEW s, NEW r, NEW m, NEW P, NEW Q, CountsReply(s, r, m, P, Q),
           Rest(Q, inProgress'[s]), \A t \in Others(s) : SameAsked(s, t), UNCHANGED tables,
           ClosedAt(s)
    PROVE  ClosedAt(s)'
  <1>1. \A t \in Others(s) : \A d : Unheard(s, t, d)' <=> Unheard(s, t, d)
    BY UnheardIs DEF SameAsked
  <1>2. \A t \in Others(s) : \A k : Owns(t, k)' <=> Owns(t, k)
    BY OwnsSame DEF Others
  <1>3. ASSUME NEW f \in RangeOf(inProgress'[s])
        PROVE  \/ f.yes = 0 /\ ~Said(s, f.msg.id)'
               \/ \E t \in Others(s) : Owns(t, f.msg)' /\ ~Unheard(s, t, f.msg.id)'
    <2>1. PICK i \in 1..Len(Q) : Q[i] = f
      BY <1>3, RestRange DEF CountsReply
    <2>2. i \in 1..Len(P) /\ Q[i].msg = P[i].msg /\ P[i] \in RangeOf(inProgress[s])
      BY <2>1, CountedEntry
    <2>3. (Q[i].yes = 0 /\ ~Said(s, Q[i].msg.id)') <=> Open(s, P[i])
      BY <2>2, EntriesOpen
    <2>4. Open(s, P[i]) \/ \E t \in Others(s) : Closes(s, t, P[i])
      BY <2>2 DEF ClosedAt
    <2> QED
      BY <1>1, <1>2, <2>1, <2>2, <2>3, <2>4 DEF Closes
  <1> QED
    BY <1>3, ClosedNext

-----------------------------------------------------------------------------
(* Every step keeps Core. *)

(* A Server's turn: the tables. *)
TablesKeep ==
    /\ \A s \in Servers : QueueCopies(s)'
    /\ LocksSound' /\ TablesNumbered' /\ AllMore

LEMMA CoreParts ==
    ASSUME Core
    PROVE  /\ AllPlaced /\ SmallMail /\ request \in [Clients -> Message \cup {NoMsg}]
           /\ \A c \in Clients : CallSound(c)
           /\ \A s \in Servers : /\ ServerCopies(s) /\ HandlerCopies(s) /\ ListCopies(s)
                                 /\ LineCopies(s) /\ QueueCopies(s) /\ ClosedAt(s)
           /\ ClosedSound /\ TablesNumbered /\ LocksSound
  BY ClientMail, ClosedAre DEF Core, CopiesSound, AllPlaced

LEMMA CoreNext ==
    ASSUME AllPlaced', request' \in [Clients -> Message \cup {NoMsg}],
           \A c \in Clients : CallSound(c)',
           \A s \in Servers : ServerCopies(s)', \A s \in Servers : HandlerCopies(s)',
           \A s \in Servers : ListCopies(s)', \A s \in Servers : LineCopies(s)',
           \A s \in Servers : QueueCopies(s)', ClosedSound', TablesNumbered', LocksSound'
    PROVE  Core'
  BY DEF Core, CopiesSound, AllPlaced

LEMMA CallsSame ==
    ASSUME Core, RequestsSame, program' = program
    PROVE  /\ \A c \in Clients : CallSound(c)'
           /\ request' \in [Clients -> Message \cup {NoMsg}]
  BY DEF Core, RequestsSame, CallSound, MayCreate

LEMMA KeepsQueues ==
    ASSUME Core, TablesSound', RequestsSame, SameQueues
    PROVE  \A s \in Servers : QueueCopies(s)'
  <1>1. ASSUME NEW s \in Servers
        PROVE  QueueCopies(s)'
    <2>1. QueueCopies(s)
      BY CoreParts
    <2>2. \A i \in DOMAIN lockTable[s] : \A c \in Clients :
              Queued(Queue(s, i), c) => request'[c] = request[c]
      BY DEF RequestsSame
    <2> QED
      BY <2>1, <2>2, QueueCopiesKept
  <1> QED
    BY <1>1

LEMMA KeepsLocks ==
    ASSUME Core, TablesSound', RequestsSame, SameObjects, LocksKept
    PROVE  TablesKeep
  <1>1. SameQueues
    BY QueuesKept
  <1>2. LocksSound /\ TablesNumbered
    BY CoreParts
  <1>3. \A s \in Servers : QueueCopies(s)'
    BY <1>1, KeepsQueues
  <1>4. LocksSound'
    BY <1>2, LocksSoundKept
  <1> QED
    BY <1>2, <1>3, <1>4, ObjectsSame DEF TablesKeep

LEMMA KeepsGrown ==
    ASSUME Core, TablesSound, TablesSound', RequestsSame, NEW s \in Servers, NEW m, NewObject(s, m)
    PROVE  TablesKeep
  <1>1. LocksSound /\ TablesNumbered
    BY CoreParts
  <1>2. SameQueues
    BY <1>1, NewQueue
  <1>3. LocksSound'
    BY <1>1, LocksSoundGrow
  <1>4. TablesNumbered' /\ AllMore
    BY <1>1, ObjectsMore
  <1>5. \A t \in Servers : QueueCopies(t)'
    BY <1>2, KeepsQueues
  <1> QED
    BY <1>3, <1>4, <1>5 DEF TablesKeep

(* The lock i gets the owner c and the queue q. *)
LEMMA KeepsBecomes ==
    ASSUME Core, TablesSound, TablesSound', RequestsSame, SameObjects, NEW s \in Servers, NEW i,
           NEW c, NEW q, LockBecomes(s, i, c, q), ~Queued(q, c), c = Nobody => q = << >>,
           \A d \in Clients : Queued(q, d) => Queued(Queue(s, i), d) \/ WaitsFor(d, i)
    PROVE  TablesKeep
  <1>1. LocksSound /\ TablesNumbered /\ \A t \in Servers : QueueCopies(t)
    BY CoreParts
  <1>2. LocksSound'
    BY <1>1, LocksSoundBecome
  <1>3. TablesNumbered' /\ AllMore
    BY <1>1, ObjectsSame
  <1>4. i \in Indexes /\ OtherQueues(s, i) /\ Queue(s, i)' = q
    BY QueueBecomes
  <1>5. \A d \in Clients : Queued(Queue(s, i)', d) => Queued(Queue(s, i), d) \/ WaitsFor(d, i)
    BY <1>4
  <1>6. \A t \in Servers : QueueCopies(t)'
    BY <1>1, <1>4, <1>5, QueueCopiesBecome
  <1> QED
    BY <1>2, <1>3, <1>6 DEF TablesKeep

LEMMA EmptyQueue == \A c : ~Queued(<< >>, c)
  BY DEF Queued

LEMMA TailQueued ==
    ASSUME NEW q \in Seq(Clients), q # << >>
    PROVE  \A c : Queued(Tail(q), c) => Queued(q, c)
  BY DEF Queued

(* The request that a Server takes. *)
LEMMA TakenKey ==
    ASSUME Shape, NEW s \in Servers, ServerCopies(s), NEW m, Taken(s, m)
    PROVE  Key(m) = Key(request[Requester(m)]) /\ Requester(m) \in Clients
  <1>1. mail[Srv(s)] \in Seq(Message) /\ mail[Srv(s)] # << >> /\ m = Head(mail[Srv(s)])
    BY MailTyped DEF Taken
  <1>2. m \in RangeOf(mail[Srv(s)])
    BY <1>1, RangeTail
  <1> QED
    BY <1>2 DEF ServerCopies, Taken

LEMMA KeepsHanded ==
    ASSUME Core, Shape, Shape', NEW s, NEW m \in Message, Taken(s, m), HandedTurn(s, m),
           inProgress' = inProgress, RequestsSame
    PROVE  TablesKeep
  <1>1. s \in Servers /\ TablesSound /\ TablesSound'
    BY DEF Taken, Shape
  <1>2. PICK q, i : q = Queue(s, i) /\ i = m.idx
    OBVIOUS
  <1>3. /\ q # << >> /\ q \in Seq(Clients) /\ SameObjects
        /\ LockBecomes(s, i, Head(q), Tail(q)) /\ Head(q) \in Clients
    BY <1>2 DEF HandedTurn, Queue
  <1>4. At(Head(q), InQueue(s, i)) /\ i \in Indexes
    <2>1. AllPlaced /\ request' = request
      BY CoreParts DEF RequestsSame
    <2> QED
      BY <1>2, <2>1, PlacedHandOver
  <1>5. i \in DOMAIN lockTable[s]
    BY <1>2 DEF HandedTurn
  <1>6. Has(q, {Head(q)}, TRUE)
    <2>1. QueuesHave(Head(q), InQueue(s, i))
      BY <1>4 DEF At
    <2> QED
      BY <1>1, <1>2, <1>4, <1>5, <2>1, QueueHas
  <1>7. Has(Tail(q), {Head(q)}, FALSE)
    BY <1>3, <1>6, HasTail
  <1>8. ~Queued(Tail(q), Head(q))
    BY <1>7 DEF Has, NoneOf, Queued
  <1>9. \A d \in Clients : Queued(Tail(q), d) => Queued(Queue(s, i), d) \/ WaitsFor(d, i)
    BY <1>2, <1>3, TailQueued
  <1>10. Head(q) # Nobody
    BY <1>3, BoxNames
  <1> QED
    BY <1>1, <1>3, <1>8, <1>9, <1>10, KeepsBecomes

LEMMA KeepsQueued ==
    ASSUME Core, Shape, Shape', NEW s, NEW m \in Message, Taken(s, m), QueuedTurn(s, m),
           RequestsSame
    PROVE  TablesKeep
  <1>1. s \in Servers /\ TablesSound /\ TablesSound'
    BY DEF Taken, Shape
  <1>2. PICK q, i, o, c : q = Queue(s, i) /\ i = m.idx /\ o = lockTable[s][i].owner
                          /\ c = Requester(m)
    OBVIOUS
  <1>3. /\ i \in DOMAIN lockTable[s] /\ o # c /\ q \in Seq(Clients) /\ SameObjects
        /\ LockBecomes(s, i, o, Append(q, c)) /\ ~(o = Nobody /\ q = << >>) /\ m.req = "AQ"
    BY <1>2 DEF QueuedTurn, Queue, Unlocked
  <1>4. ~Queued(q, o) /\ (o = Nobody => q = << >>)
    <2>1. LocksSound
      BY CoreParts
    <2> QED
      BY <1>1, <1>2, <1>3, <2>1, LocksAre DEF LockSound
  <1>5. o # Nobody
    BY <1>3, <1>4
  <1>6. c \in Clients /\ Key(m) = Key(request[c])
    BY <1>1, <1>2, TakenKey, CoreParts
  <1>7. \A d : Queued(Append(q, c), d) => Queued(q, d) \/ d = c
    BY <1>3, <1>6 DEF Queued
  <1>8. ~Queued(Append(q, c), o)
    BY <1>3, <1>4, <1>7
  <1>9. WaitsFor(c, i)
    BY <1>2, <1>3, <1>6 DEF WaitsFor, Key
  <1>10. \A d \in Clients : Queued(Append(q, c), d) => Queued(Queue(s, i), d) \/ WaitsFor(d, i)
    BY <1>2, <1>7, <1>9
  <1> QED
    BY <1>1, <1>3, <1>5, <1>8, <1>10, KeepsBecomes

LEMMA KeepsFree ==
    ASSUME Core, TablesSound, TablesSound', RequestsSame, SameObjects, NEW s \in Servers, NEW i,
           NEW c, LockBecomes(s, i, c, << >>)
    PROVE  TablesKeep
  <1>1. ~Queued(<< >>, c) /\ \A d \in Clients : ~Queued(<< >>, d)
    BY EmptyQueue
  <1>2. PICK q : q = << >>
    OBVIOUS
  <1>3. /\ LockBecomes(s, i, c, q) /\ ~Queued(q, c) /\ (c = Nobody => q = << >>)
        /\ \A d \in Clients : Queued(q, d) => Queued(Queue(s, i), d) \/ WaitsFor(d, i)
    BY <1>1, <1>2
  <1> QED
    BY <1>3, KeepsBecomes

LEMMA ServerTables ==
    ASSUME Core, Shape, Shape', NEW s, NEW m \in Message, Taken(s, m), Turn(s, m),
           inProgress' = inProgress, RequestsSame
    PROVE  TablesKeep
  <1>1. s \in Servers /\ TablesSound /\ TablesSound'
    BY DEF Taken, Shape
  <1>2. CASE AnsweredTurn(s, m)
    BY <1>1, <1>2, KeepsLocks DEF AnsweredTurn
  <1>3. CASE CreatedTurn(s, m)
    BY <1>1, <1>3, KeepsGrown DEF CreatedTurn
  <1>4. CASE GrantedTurn(s, m)
    BY <1>1, <1>4, KeepsFree DEF GrantedTurn
  <1>5. CASE FreedTurn(s, m)
    BY <1>1, <1>5, KeepsFree DEF FreedTurn
  <1>6. CASE HandedTurn(s, m)
    BY <1>6, KeepsHanded
  <1>7. CASE QueuedTurn(s, m)
    BY <1>7, KeepsQueued
  <1>8. CASE PassedTurn(s, m)
    BY <1>1, <1>8, KeepsLocks, TablesStay DEF PassedTurn
  <1> QED
    BY <1>2, <1>3, <1>4, <1>5, <1>6, <1>7, <1>8 DEF Turn

(* A Server's turn: the copies. *)
LEMMA CopiesQuiet ==
    ASSUME Core, RequestsSame, inProgress' = inProgress,
           \A t, r \in Servers : SameReplies(t, r) /\ SameAsked(t, r)
    PROVE  \A t \in Servers : ListCopies(t)' /\ LineCopies(t)'
  <1>1. ASSUME NEW t \in Servers
        PROVE  ListCopies(t)' /\ LineCopies(t)'
    <2>1. \A d : Said(t, d)' <=> Said(t, d)
      BY SaidSame DEF Others
    <2>2. ListCopies(t) /\ LineCopies(t)
      BY CoreParts
    <2>3. ListCopies(t)'
      BY <2>1, <2>2, ListCopiesKept DEF RequestsSame
    <2>4. LineCopies(t)'
      BY <2>2, LineCopiesKept DEF Others
    <2> QED
      BY <2>3, <2>4
  <1> QED
    BY <1>1

LEMMA ServerCore ==
    ASSUME Core, Shape, Shape', NEW s, NEW m \in Message, Taken(s, m), Turn(s, m),
           inProgress' = inProgress, RequestsSame, program' = program
    PROVE  Core' /\ At(Requester(m), AtServer(s))
  <1>1. TablesKeep /\ s \in Servers /\ mail[Srv(s)] # << >>
    BY ServerTables DEF Taken
  <1>2. AllPlaced' /\ At(Requester(m), AtServer(s))
    <2>1. AllPlaced /\ TablesNumbered /\ request' = request
      BY CoreParts DEF RequestsSame
    <2> QED
      BY <2>1, PlacedServer
  <1>3. /\ ServerTakes(s)
        /\ \A t, r \in Servers : SameReplies(t, r) /\ SameAsked(t, r)
        /\ \A t \in Servers : HandlerCopies(t)'
    <2>1. CASE TakesOnly(s)
      <3>1. /\ ServerTakes(s) /\ \A t \in Servers : SameFresh(t)
            /\ \A t, r \in Servers : SameReplies(t, r) /\ SameAsked(t, r)
        BY <1>1, <2>1, OnlyTakes
      <3>2. \A t \in Servers : HandlerCopies(t)'
        BY <3>1, FreshCopiesKept, CoreParts DEF RequestsSame
      <3> QED
        BY <3>1, <3>2
    <2>2. CASE PassedTurn(s, m)
      <3>1. PICK x \in Message : /\ TakesAndPasses(s, x) /\ x.from = Srv(s)
                                 /\ x.client = Requester(m) /\ Key(x) = Key(m)
        BY <2>2 DEF PassedTurn
      <3>2. /\ ServerTakes(s) /\ Fresh(s)' = Append(Fresh(s), x)
            /\ \A t \in Servers \ {s} : SameFresh(t)
            /\ \A t, r \in Servers : SameReplies(t, r) /\ SameAsked(t, r)
        BY <1>1, <3>1, PassedMail
      <3>3. Key(x) = Key(request[x.client])
        BY <1>1, <3>1, TakenKey, CoreParts
      <3>4. \A t \in Servers : HandlerCopies(t)
        BY CoreParts
      <3>5. \A t \in Servers : HandlerCopies(t)'
        BY <1>1, <3>2, <3>3, <3>4, FreshCopiesGot
      <3> QED
        BY <3>2, <3>5
    <2> QED
      BY <2>1, <2>2 DEF Turn, AnsweredTurn, CreatedTurn, GrantedTurn, FreedTurn, HandedTurn,
                        QueuedTurn
  <1>4. \A t \in Servers : ServerCopies(t)'
    <2>1. \A t \in Servers : ServerCopies(t)
      BY CoreParts
    <2> QED
      BY <1>1, <1>3, <2>1, MailCopiesTaken
  <1>5. \A t \in Servers : ListCopies(t)' /\ LineCopies(t)'
    BY <1>3, CopiesQuiet
  <1>6. ClosedSound'
    BY <1>1, <1>3, ClosedQuiet, CoreParts DEF TablesKeep
  <1>7. /\ \A c \in Clients : CallSound(c)'
        /\ request' \in [Clients -> Message \cup {NoMsg}]
    BY CallsSame
  <1> QED
    BY <1>1, <1>2, <1>3, <1>4, <1>5, <1>6, <1>7, CoreNext DEF TablesKeep

(* A MessageHandler's turn: the tables stay. *)
LEMMA HandlerTables ==
    ASSUME Core, TablesSound', RequestsSame, UNCHANGED tables
    PROVE  TablesKeep
  BY TablesStay, KeepsLocks

LEMMA HandlerCore ==
    ASSUME Core, TablesSound', RequestsSame, UNCHANGED tables, program' = program, AllPlaced',
           \A s \in Servers : ServerCopies(s)', \A s \in Servers : HandlerCopies(s)',
           \A s \in Servers : ListCopies(s)', \A s \in Servers : LineCopies(s)',
           \A s \in Servers : ClosedAt(s)'
    PROVE  Core'
  <1>1. TablesKeep
    BY HandlerTables
  <1>2. /\ \A c \in Clients : CallSound(c)'
        /\ request' \in [Clients -> Message \cup {NoMsg}]
    BY CallsSame
  <1>3. ClosedSound'
    BY ClosedNext
  <1> QED
    BY <1>1, <1>2, <1>3, CoreNext DEF TablesKeep

(* What stays of a server's list and lines. *)
LEMMA CopiesSame ==
    ASSUME Core, RequestsSame, UNCHANGED tables, NEW s \in Servers, inProgress'[s] = inProgress[s],
           \A r \in Servers : SameReplies(s, r) /\ SameAsked(s, r)
    PROVE  ListCopies(s)' /\ LineCopies(s)' /\ ClosedAt(s)'
  <1>1. \A d : Said(s, d)' <=> Said(s, d)
    BY SaidSame DEF Others
  <1>2. ListCopies(s) /\ LineCopies(s) /\ ClosedAt(s)
    BY CoreParts
  <1>3. ListCopies(s)'
    BY <1>1, <1>2, ListCopiesKept DEF RequestsSame
  <1>4. LineCopies(s)'
    BY <1>2, LineCopiesKept DEF Others
  <1>5. \A r \in Others(s) : RangeOf(Asked(s, r)') \subseteq RangeOf(Asked(s, r))
    BY DEF SameAsked, Others
  <1>6. ClosedAt(s)'
    BY <1>1, <1>2, <1>5, OwnsSame, ClosedKept
  <1> QED
    BY <1>3, <1>4, <1>6

LEMMA RelayedCore ==
    ASSUME IInv, IInv', Core, NEW s \in Servers, RelayedTurn(s), UNCHANGED tables, RequestsSame,
           program' = program
    PROVE  Core'
  <1>1. PICK m \in Passed, x \in Message :
        /\ Handles(s, m) /\ Copy(x, m)
        /\ Fresh(s) = <<m>> \o Fresh(s)' /\ \A t \in Servers \ {s} : SameFresh(t)
        /\ \A t, r \in Servers : SameReplies(t, r)
        /\ \A r \in Others(s) : Asked(s, r)' = Append(Asked(s, r), x)
        /\ \A t \in Servers \ {s}, r \in Servers : SameAsked(t, r)
        /\ inProgress' = [inProgress EXCEPT ![s] = Append(@, [msg |-> m, yes |-> 0, no |-> 0])]
        /\ ServersQuiet /\ SilentMail
    BY DEF RelayedTurn
  <1>2. PICK e : e = [msg |-> m, yes |-> 0, no |-> 0]
    OBVIOUS
  <1>3. e \in Entry /\ e.msg = m /\ e.yes = 0 /\ m \in Message
    BY <1>2 DEF Entry, Passed
  <1>4. Shape /\ Shape' /\ TablesSound' /\ AllPlaced /\ request' = request
    BY CoreParts DEF IInv, Shape, RequestsSame
  <1>5. AllPlaced'
    BY <1>1, <1>4, PlacedRelayed
  <1>6. /\ m \in RangeOf(Fresh(s))
    BY <1>1, <1>3, <1>4, FreshFirst
  <1>7. Key(m) = Key(request[m.client])
    BY <1>6, CoreParts DEF HandlerCopies
  <1>8. \A t \in Servers : ServerCopies(t)'
    BY <1>1, <1>4, MailCopiesQuiet, CoreParts
  <1>9. \A t \in Servers : HandlerCopies(t)'
    <2>1. \A t \in Servers : HandlerCopies(t)
      BY CoreParts
    <2> QED
      BY <1>1, <1>3, <1>4, <2>1, FreshCopiesTaken
  <1>10. inProgress[s] \in Seq(Entry) /\ inProgress'[s] = Append(inProgress[s], e)
         /\ \A t \in Servers \ {s} : inProgress'[t] = inProgress[t]
    BY <1>1, <1>2, <1>4 DEF Shape
  <1>11. ListCopies(s)'
    <2>1. \A d : Said(s, d)' <=> Said(s, d)
      BY <1>1, SaidSame DEF Others
    <2>2. ListCopies(s)
      BY CoreParts
    <2> QED
      BY <1>3, <1>7, <1>10, <2>1, <2>2, ListCopiesRelayed
  <1>12. \A r \in Others(s) : Asked(s, r)' = Append(Asked(s, r), x) /\ SameReplies(s, r)
    BY <1>1 DEF Others
  <1>13. Copy(x, e.msg) /\ e.msg \in RangeOf(Fresh(s))
    BY <1>1, <1>3, <1>6
  <1>14. LineCopies(s)'
    <2>1. LineCopies(s)
      BY CoreParts
    <2> QED
      BY <1>3, <1>10, <1>12, <1>13, <2>1, LineCopiesRelayed
  <1>15. ClosedAt(s)'
    <2>1. ClosedAt(s)
      BY CoreParts
    <2> QED
      BY <1>3, <1>10, <1>12, <1>13, <2>1, ClosedRelayed
  <1>16. \A t \in Servers \ {s} : ListCopies(t)' /\ LineCopies(t)' /\ ClosedAt(t)'
    BY <1>1, <1>10, CopiesSame
  <1> QED
    BY <1>4, <1>5, <1>8, <1>9, <1>11, <1>14, <1>15, <1>16, HandlerCore

LEMMA BackCore ==
    ASSUME IInv, IInv', Core, NEW s \in Servers, BackTurn(s), UNCHANGED tables, RequestsSame,
           program' = program
    PROVE  Core'
  <1>1. PICK m \in Message, y \in Message :
        /\ Handles(s, m) /\ Copy(y, m) /\ y.from = Hdl(s)
        /\ Fresh(s) = <<m>> \o Fresh(s)' /\ Others(s) = {}
        /\ inProgress' = inProgress
        /\ ServerGets(s, y) /\ SilentMail
    BY DEF BackTurn
  <1>2. Shape /\ Shape' /\ TablesSound' /\ AllPlaced /\ request' = request
    BY CoreParts DEF IInv, Shape, RequestsSame
  <1>3. AllPlaced'
    BY <1>1, <1>2, PlacedBack
  <1>4. m \in RangeOf(Fresh(s))
    BY <1>1, <1>2, FreshFirst
  <1>5. Key(y) = Key(request'[Requester(y)])
    <2>1. Requester(y) = m.client
      BY <1>1, BoxNames DEF Copy, Handles, Requester
    <2>2. Key(m) = Key(request[m.client])
      BY <1>4, CoreParts DEF HandlerCopies
    <2> QED
      BY <1>1, <1>2, <2>1, <2>2 DEF Copy
  <1>6. \A t \in Servers : ServerCopies(t)'
    <2>1. \A t \in Servers : ServerCopies(t)
      BY CoreParts
    <2>2. \A t \in Servers : \A k \in RangeOf(mail[Srv(t)]) :
              request'[Requester(k)] = request[Requester(k)]
      BY <1>2
    <2> QED
      BY <1>1, <1>2, <1>5, <2>1, <2>2, MailCopiesGot
  <1>7. Servers = {s}
    BY <1>1 DEF Others
  <1>8. \A t \in Servers \ {s} : SameFresh(t)
    BY <1>7
  <1>9. \A t \in Servers : HandlerCopies(t)'
    <2>1. \A t \in Servers : HandlerCopies(t)
      BY CoreParts
    <2> QED
      BY <1>1, <1>2, <1>8, <2>1, FreshCopiesTaken
  <1>10. inProgress'[s] = inProgress[s]
    BY <1>1
  <1>11. ListCopies(s) /\ LineCopies(s) /\ ClosedAt(s)
    BY CoreParts
  <1>12. \A d : Said(s, d)' <=> Said(s, d)
    BY <1>1, SaidSame
  <1>13. ListCopies(s)'
    BY <1>2, <1>10, <1>11, <1>12, ListCopiesKept
  <1>14. LineCopies(s)'
    BY <1>1, <1>10, <1>11, LineCopiesKept
  <1>15. ClosedAt(s)'
    BY <1>1, <1>10, <1>11, <1>12, OwnsSame, ClosedKept
  <1> QED
    BY <1>2, <1>3, <1>6, <1>7, <1>9, <1>13, <1>14, <1>15, HandlerCore

(* The request that r is to take over is that of its client. *)
LEMMA AskedKey ==
    ASSUME IInv, Core, NEW s \in Servers, SingleOwner(s), NEW r \in Others(s),
           NEW m \in RangeOf(Asked(s, r)), Owns(r, m)
    PROVE  Key(m) = Key(request[m.client])
  <1>1. PICK i \in 1..Len(inProgress[s]) :
            LET e == inProgress[s][i]
            IN  /\ e \in Entry /\ e \in RangeOf(inProgress[s])
                /\ m.id = e.msg.id /\ Key(m) = Key(e.msg) /\ m.client = e.msg.client
                /\ \A j \in 1..Len(inProgress[s]) : inProgress[s][j].msg.id = m.id => j = i
                /\ SingleOwner(s) /\ Owns(r, m) => Open(s, e)
    BY EntryAsked
  <1>2. PICK e : /\ e \in RangeOf(inProgress[s]) /\ Key(m) = Key(e.msg) /\ m.client = e.msg.client
                 /\ Open(s, e)
    BY <1>1
  <1>3. Key(e.msg) = Key(request[e.msg.client])
    BY <1>2, CoreParts DEF ListCopies
  <1> QED
    BY <1>2, <1>3

LEMMA AskedCore ==
    ASSUME IInv, IInv', Core, NEW r \in Servers, NEW s \in Servers \ {r}, SingleOwner(s),
           AskedTurn(r, s), UNCHANGED tables, RequestsSame, program' = program
    PROVE  Core'
  <1>1. PICK m \in Message, y \in Message :
        /\ Handles(r, m) /\ m.req \in PlainCalls
        /\ Asked(s, r) = <<m>> \o Asked(s, r)'
        /\ Replies(s, r)' = Append(Replies(s, r), y) /\ y.id = m.id /\ y.client = m.client
        /\ \A t \in Servers : SameFresh(t)
        /\ \A t, u \in Servers : ~(t = s /\ u = r) => SameReplies(t, u) /\ SameAsked(t, u)
        /\ inProgress' = inProgress /\ SilentMail
        /\ \/ /\ Owns(r, m) /\ y.req = "YS"
              /\ \E z \in Message : Copy(z, m) /\ z.from = Hdl(r) /\ ServerGets(r, z)
           \/ ~Owns(r, m) /\ y.req = "NO" /\ ServersQuiet
    BY DEF AskedTurn
  <1>2. Shape /\ Shape' /\ TablesSound' /\ AllPlaced /\ request' = request
    BY CoreParts DEF IInv, Shape, RequestsSame
  <1>3. r \in Others(s)
    BY DEF Others
  <1>4. m \in RangeOf(Asked(s, r)) /\ RangeOf(Asked(s, r)') \subseteq RangeOf(Asked(s, r))
        /\ ~Unheard(s, r, m.id)'
    BY <1>1, <1>2, <1>3, AskedLooked
  <1>5. m.client \in Clients
    BY <1>1 DEF Handles
  <1>6. \A t \in Others(s) \ {r} : SameAsked(s, t) /\ SameReplies(s, t)
    BY <1>1 DEF Others
  <1>7. inProgress'[s] = inProgress[s]
    BY <1>1
  <1>8. (y.req = "YS" => Owns(r, m)) = TRUE
    BY <1>1
  <1>9. ClosedAt(s)'
    BY <1>1, <1>2, <1>3, <1>4, <1>6, <1>7, <1>8, ClosedAsked
  <1>10. LineCopies(s)'
    <2>1. LineCopies(s)
      BY CoreParts
    <2> QED
      BY <1>1, <1>2, <1>3, <1>6, <1>7, <2>1, LineCopiesAsked
  <1>11. ListCopies(s)'
    <2>1. ListCopies(s)
      BY CoreParts
    <2>2. \A d : Said(s, d)' <=> Said(s, d) \/ (d = y.id /\ y.req = "YS")
      BY <1>1, <1>2, <1>3, <1>6, SaidMore
    <2> QED
      BY <1>2, <1>7, <2>1, <2>2, ListCopiesKept
  <1>12. \A t \in Servers \ {s} : ListCopies(t)' /\ LineCopies(t)' /\ ClosedAt(t)'
    BY <1>1, CopiesSame
  <1>13. \A t \in Servers : HandlerCopies(t)'
    BY <1>1, <1>2, FreshCopiesKept, CoreParts
  <1>14. \A t \in Servers : ServerCopies(t)
    BY CoreParts
  <1>15. CASE Owns(r, m) /\ y.req = "YS"
    <2>1. PICK z \in Message : Copy(z, m) /\ z.from = Hdl(r) /\ ServerGets(r, z)
      BY <1>1, <1>15
    <2>2. AllPlaced'
      BY <1>1, <1>2, <1>4, <1>5, <1>15, <2>1, PlacedAskedYes
    <2>3. Key(z) = Key(request'[Requester(z)])
      <3>1. Key(m) = Key(request[m.client])
        BY <1>3, <1>4, <1>15, AskedKey
      <3>2. Requester(z) = m.client
        BY <1>5, <2>1, BoxNames DEF Copy, Requester
      <3> QED
        BY <1>2, <2>1, <3>1, <3>2 DEF Copy
    <2>4. \A t \in Servers : ServerCopies(t)'
      <3>1. \A t \in Servers : \A k \in RangeOf(mail[Srv(t)]) :
                request'[Requester(k)] = request[Requester(k)]
        BY <1>2
      <3> QED
        BY <1>2, <1>14, <2>1, <2>3, <3>1, MailCopiesGot
    <2> QED
      BY <1>2, <1>9, <1>10, <1>11, <1>12, <1>13, <2>2, <2>4, HandlerCore
  <1>16. CASE y.req = "NO" /\ ServersQuiet
    <2>1. AllPlaced'
      BY <1>1, <1>2, <1>16, PlacedAskedNo
    <2>2. \A t \in Servers : ServerCopies(t)'
      BY <1>2, <1>14, <1>16, MailCopiesQuiet
    <2> QED
      BY <1>2, <1>9, <1>10, <1>11, <1>12, <1>13, <2>1, <2>2, HandlerCore
  <1> QED
    BY <1>1, <1>15, <1>16

(* A reply is counted. *)
LEMMA CountedReply ==
    ASSUME Shape, NEW s \in Servers, NEW r \in Others(s), NEW m \in Message, NEW Q,
           Replies(s, r) = <<m>> \o Replies(s, r)',
           \A t, u \in Servers : ~(t = s /\ u = r) => SameReplies(t, u),
           Counts(inProgress[s], m.id, Q), YesCounts(inProgress[s], m, Q)
    PROVE  CountsReply(s, r, m, inProgress[s], Q)
  BY QueuesTyped DEF Counts, YesCounts, CountsReply, Others

LEMMA CountedCopies ==
    ASSUME IInv, IInv', Core, NEW s, NEW r, NEW m, NEW P, NEW Q, RepliesCount(s, r, m, P, Q),
           Rest(Q, inProgress'[s]), \A t, u \in Servers : SameAsked(t, u)
    PROVE  /\ \A t \in Servers : ListCopies(t)' /\ LineCopies(t)' /\ ClosedAt(t)'
           /\ \A t \in Servers : HandlerCopies(t)'
  <1>1. CountsReply(s, r, m, P, Q) /\ s \in Servers /\ Shape' /\ RequestsSame /\ UNCHANGED tables
    BY DEF RepliesCount, CountsReply, IInv, RequestsSame
  <1>2. ListCopies(s) /\ LineCopies(s) /\ ClosedAt(s)
    BY <1>1, CoreParts
  <1>3. \A t \in Others(s) : SameAsked(s, t)
    BY <1>1 DEF Others
  <1>4. ListCopies(s)'
    BY <1>1, <1>2, ListCopiesCounted
  <1>5. LineCopies(s)'
    BY <1>1, <1>2, <1>3, LineCopiesCounted
  <1>6. ClosedAt(s)'
    BY <1>1, <1>2, <1>3, ClosedCounted
  <1>7. \A t \in Servers \ {s} : ListCopies(t)' /\ LineCopies(t)' /\ ClosedAt(t)'
    <2>1. \A t \in Servers \ {s} : /\ inProgress'[t] = inProgress[t]
                                   /\ \A u \in Servers : SameReplies(t, u) /\ SameAsked(t, u)
      BY DEF RepliesCount
    <2> QED
      BY <1>1, <2>1, CopiesSame
  <1>8. \A t \in Servers : HandlerCopies(t)'
    BY <1>1, FreshCopiesKept, CoreParts DEF RepliesCount
  <1> QED
    BY <1>4, <1>5, <1>6, <1>7, <1>8

LEMMA CountedHeadKey ==
    ASSUME IInv, IInv', Core, NEW s, NEW r, NEW m, NEW P, NEW Q, CountsReply(s, r, m, P, Q),
           Q # << >>, Q[1].yes + Q[1].no = NumServers - 1, inProgress'[s] = Tail(Q), Q[1].yes = 0
    PROVE  /\ Key(Q[1].msg) = Key(request[m.client]) /\ Q[1].msg.client = m.client
           /\ m.client \in Clients
  <1>1. /\ m.id = Q[1].msg.id /\ m.client = Q[1].msg.client /\ Q[1].msg = P[1].msg
        /\ P[1] \in RangeOf(P) /\ P[1] \in Entry /\ 1 \in 1..Len(P)
    BY HeadCounted DEF IInv
  <1>2. ~Said(s, Q[1].msg.id)'
    BY HeadGone
  <1>3. (Q[1].yes = 0 /\ ~Said(s, Q[1].msg.id)') <=> Open(s, P[1])
    BY <1>1, EntriesOpen DEF IInv
  <1>4. Open(s, P[1]) /\ P[1] \in RangeOf(inProgress[s]) /\ s \in Servers
    BY <1>1, <1>2, <1>3 DEF CountsReply
  <1>5. Key(P[1].msg) = Key(request[P[1].msg.client])
    BY <1>4, CoreParts DEF ListCopies
  <1>6. P[1].msg.client \in Clients
    BY <1>1 DEF Entry, Passed
  <1> QED
    BY <1>1, <1>5, <1>6

LEMMA CountedCore ==
    ASSUME IInv, IInv', Core, NEW s \in Servers, CountedTurn(s), UNCHANGED tables, RequestsSame,
           program' = program
    PROVE  Core'
  <1>1. PICK r \in Others(s), m \in Message : \E Q :
        /\ Handles(s, m) /\ m.req \in Answers
        /\ Replies(s, r) = <<m>> \o Replies(s, r)'
        /\ \A t \in Servers : SameFresh(t)
        /\ \A t, u \in Servers : SameAsked(t, u) /\ (~(t = s /\ u = r) => SameReplies(t, u))
        /\ Counts(inProgress[s], m.id, Q) /\ YesCounts(inProgress[s], m, Q)
        /\ \/ /\ inProgress' = [inProgress EXCEPT ![s] = Q]
              /\ ServersQuiet /\ SilentMail
           \/ /\ inProgress' = [inProgress EXCEPT ![s] = Tail(Q)]
              /\ Q # << >> /\ Q[1].yes + Q[1].no = NumServers - 1
              /\ \/ Q[1].yes # 0 /\ ServersQuiet /\ SilentMail
                 \/ Q[1].yes = 0 /\ ServersQuiet /\ Mailed(m.client, Reply(ErrorCode))
                 \/ /\ Q[1].yes = 0 /\ SilentMail
                    /\ \E y \in Message :
                          Copy(y, Q[1].msg) /\ y.from = Hdl(s) /\ ServerGets(s, y)
    BY DEF CountedTurn
  <1>2. PICK Q :
        /\ Handles(s, m) /\ m.req \in Answers
        /\ Replies(s, r) = <<m>> \o Replies(s, r)'
        /\ \A t \in Servers : SameFresh(t)
        /\ \A t, u \in Servers : SameAsked(t, u) /\ (~(t = s /\ u = r) => SameReplies(t, u))
        /\ Counts(inProgress[s], m.id, Q) /\ YesCounts(inProgress[s], m, Q)
        /\ \/ /\ inProgress' = [inProgress EXCEPT ![s] = Q]
              /\ ServersQuiet /\ SilentMail
           \/ /\ inProgress' = [inProgress EXCEPT ![s] = Tail(Q)]
              /\ Q # << >> /\ Q[1].yes + Q[1].no = NumServers - 1
              /\ \/ Q[1].yes # 0 /\ ServersQuiet /\ SilentMail
                 \/ Q[1].yes = 0 /\ ServersQuiet /\ Mailed(m.client, Reply(ErrorCode))
                 \/ /\ Q[1].yes = 0 /\ SilentMail
                    /\ \E y \in Message :
                          Copy(y, Q[1].msg) /\ y.from = Hdl(s) /\ ServerGets(s, y)
    BY <1>1
  <1>3. PICK P : P = inProgress[s]
    OBVIOUS
  <1>4. /\ Shape /\ Shape' /\ TablesSound' /\ AllPlaced /\ request' = request
        /\ inProgress = [t \in Servers |-> inProgress[t]]
    BY CoreParts DEF IInv, Shape, RequestsSame
  <1>5. CountsReply(s, r, m, P, Q)
    BY <1>2, <1>3, <1>4, CountedReply
  <1>6. \A t \in Servers \ {s} : inProgress'[t] = inProgress[t]
    BY <1>2, <1>4
  <1>7. \A t \in Servers \ {s}, u \in Servers : SameReplies(t, u)
    BY <1>2
  <1>8. RepliesCount(s, r, m, P, Q)
    BY <1>2, <1>4, <1>5, <1>6, <1>7 DEF RepliesCount
  <1>9. Rest(Q, inProgress'[s])
    BY <1>2, <1>4 DEF Rest
  <1>10. \A t, u \in Servers : SameAsked(t, u)
    BY <1>2
  <1>11. /\ \A t \in Servers : ListCopies(t)' /\ LineCopies(t)' /\ ClosedAt(t)'
         /\ \A t \in Servers : HandlerCopies(t)'
    BY <1>8, <1>9, <1>10, CountedCopies
  <1>12. \A t \in Servers : ServerCopies(t)
    BY CoreParts
  <1>13. \A t \in Servers : \A k \in RangeOf(mail[Srv(t)]) :
             request'[Requester(k)] = request[Requester(k)]
    BY <1>4
  <1>14. CASE ServersQuiet /\ SilentMail /\ \A c : ListStays(s, c)
    <2>1. AllPlaced'
      BY <1>4, <1>8, <1>14, PlacedCountsOn
    <2>2. \A t \in Servers : ServerCopies(t)'
      BY <1>12, <1>13, <1>14, MailCopiesQuiet
    <2> QED
      BY <1>4, <1>11, <2>1, <2>2, HandlerCore
  <1>15. CASE inProgress' = [inProgress EXCEPT ![s] = Q] /\ ServersQuiet /\ SilentMail
    <2>1. inProgress'[s] = Q
      BY <1>4, <1>15
    <2>2. \A c : ListStays(s, c)
      BY <1>4, <1>5, <2>1, ListCounts
    <2> QED
      BY <1>14, <1>15, <2>2
  <1>16. ASSUME inProgress' = [inProgress EXCEPT ![s] = Tail(Q)], Q # << >>,
                Q[1].yes + Q[1].no = NumServers - 1,
                \/ Q[1].yes # 0 /\ ServersQuiet /\ SilentMail
                \/ Q[1].yes = 0 /\ ServersQuiet /\ Mailed(m.client, Reply(ErrorCode))
                \/ /\ Q[1].yes = 0 /\ SilentMail
                   /\ \E y \in Message : Copy(y, Q[1].msg) /\ y.from = Hdl(s) /\ ServerGets(s, y)
         PROVE  Core'
    <2>1. inProgress'[s] = Tail(Q)
      BY <1>4, <1>16
    <2>2. /\ Q[1].yes # 0 => \A c : ListStays(s, c)
          /\ Q[1].yes = 0 => /\ ListLoses(s, Q[1].msg.client)
                             /\ \A c : c # Q[1].msg.client => ListStays(s, c)
      BY <1>5, <1>16, <2>1, ListDone
    <2>3. CASE Q[1].yes # 0
      BY <1>14, <1>16, <2>2, <2>3
    <2>4. CASE Q[1].yes = 0
      <3>1. /\ Key(Q[1].msg) = Key(request[m.client]) /\ Q[1].msg.client = m.client
            /\ m.client \in Clients
        BY <1>5, <1>16, <2>1, <2>4, CountedHeadKey
      <3>2. ListLoses(s, m.client) /\ \A d : d # m.client => ListStays(s, d)
        BY <2>2, <2>4, <3>1
      <3>3. CASE ServersQuiet /\ Mailed(m.client, Reply(ErrorCode))
        <4>1. AllPlaced'
          BY <1>4, <1>8, <3>1, <3>2, <3>3, PlacedRefused
        <4>2. \A t \in Servers : ServerCopies(t)'
          BY <1>12, <1>13, <3>3, MailCopiesQuiet
        <4> QED
          BY <1>4, <1>11, <4>1, <4>2, HandlerCore
      <3>4. ASSUME SilentMail, NEW y \in Message, Copy(y, Q[1].msg), y.from = Hdl(s),
                   ServerGets(s, y)
            PROVE  Core'
        <4>1. y.client = m.client /\ Key(y) = Key(request[m.client])
          BY <3>1, <3>4 DEF Copy
        <4>2. AllPlaced'
          BY <1>4, <1>8, <3>1, <3>2, <3>4, <4>1, PlacedReturned
        <4>3. Key(y) = Key(request'[Requester(y)])
          BY <1>4, <3>1, <4>1, BoxNames DEF Requester
        <4>4. \A t \in Servers : ServerCopies(t)'
          BY <1>4, <1>12, <1>13, <3>4, <4>3, MailCopiesGot
        <4> QED
          BY <1>4, <1>11, <4>2, <4>4, HandlerCore
      <3> QED
        BY <1>16, <2>4, <3>3, <3>4
    <2> QED
      BY <2>3, <2>4
  <1> QED
    BY <1>2, <1>15, <1>16

(* Calls and returns.  Nothing is under way for the client.                  *)
LEMMA NothingThere ==
    ASSUME Shape, NEW c \in Clients, NEW w, w = Nowhere \/ w = InMailbox, At(c, w),
           \A d \in Clients \ {c} : request'[d] = request[d]
    PROVE  /\ \A t \in Servers : \A m \in RangeOf(mail[Srv(t)]) :
                 request'[Requester(m)] = request[Requester(m)]
           /\ \A t \in Servers : \A m \in RangeOf(Fresh(t)) :
                 request'[m.client] = request[m.client]
           /\ \A t \in Servers : \A e \in RangeOf(inProgress[t]) :
                 Open(t, e) => request'[e.msg.client] = request[e.msg.client]
           /\ \A t \in Servers : \A i \in DOMAIN lockTable[t] : \A d \in Clients :
                 Queued(Queue(t, i), d) => request'[d] = request[d]
  <1>1. \A t \in Servers : w # AtServer(t) /\ w # AtHandler(t) /\ w # InList(t)
        /\ w # <<"server", t>> /\ w # <<"handler", t>>
    BY PlaceNames DEF Nowhere, InMailbox, AtServer, AtHandler, InList
  <1>2. \A t \in Servers, i \in Indexes : w # InQueue(t, i)
    BY PlaceNames DEF Nowhere, InMailbox, InQueue
  <1>3. ASSUME NEW t \in Servers, NEW m \in RangeOf(mail[Srv(t)])
        PROVE  Requester(m) \in Clients \ {c}
    <2>1. mail[Srv(t)] \in Seq(ToServer)
      BY DEF Shape
    <2>2. m \in ToServer
      BY <2>1, RangeTyped
    <2>3. Requester(m) \in Clients /\ m \in Message
      BY <2>2, BoxNames DEF ToServer, Requester
    <2>4. Has(mail[Srv(t)], Of(c), FALSE)
      BY <1>1 DEF At, ServersHave, Family
    <2>5. PICK i \in 1..Len(mail[Srv(t)]) : mail[Srv(t)][i] = m
      BY <2>1, RangeIndex
    <2>6. m \notin Of(c)
      BY <2>4, <2>5 DEF Has, NoneOf
    <2> QED
      BY <2>3, <2>6 DEF Of
  <1>4. ASSUME NEW t \in Servers, NEW m \in RangeOf(Fresh(t))
        PROVE  m.client \in Clients \ {c}
    <2>1. mail[Hdl(t)] \in Seq(ToHandler(t))
      BY DEF Shape
    <2>2. Fresh(t) \in Seq(ToHandler(t))
      BY <2>1, FilterSeq DEF Fresh
    <2>3. m \in ToHandler(t)
      BY <2>2, RangeTyped
    <2>4. Has(Fresh(t), For(c), FALSE)
      BY <1>1 DEF At, HandlersHave, Family
    <2>5. PICK i \in 1..Len(Fresh(t)) : Fresh(t)[i] = m
      BY <2>2, RangeIndex
    <2>6. m \notin For(c)
      BY <2>4, <2>5 DEF Has, NoneOf
    <2> QED
      BY <2>3, <2>6 DEF For, ToHandler
  <1>5. ASSUME NEW t \in Servers, NEW e \in RangeOf(inProgress[t]), Open(t, e)
        PROVE  e.msg.client \in Clients \ {c}
    <2>1. inProgress[t] \in Seq(Entry)
      BY DEF Shape
    <2>2. e \in Entry
      BY <2>1, RangeTyped
    <2>3. Has(inProgress[t], OpenOf(t, c), FALSE)
      BY <1>1 DEF At, ListsHave
    <2>4. PICK i \in 1..Len(inProgress[t]) : inProgress[t][i] = e
      BY <2>1, RangeIndex
    <2>5. e \notin OpenOf(t, c)
      BY <2>3, <2>4 DEF Has, NoneOf
    <2> QED
      BY <1>5, <2>2, <2>5 DEF OpenOf, Entry, Passed
  <1>6. ASSUME NEW t \in Servers, NEW i \in DOMAIN lockTable[t], NEW d \in Clients,
               Queued(Queue(t, i), d)
        PROVE  d # c
    <2>1. i \in Indexes
      BY IndexesOf DEF Shape
    <2>2. QueuesHave(c, w)
      BY DEF At
    <2>3. Has(Queue(t, i), {c}, w = InQueue(t, i))
      BY <2>1, <2>2, QueueHas
    <2>4. NoneOf(Queue(t, i), {c})
      BY <1>2, <2>1, <2>3 DEF Has
    <2> QED
      BY <1>6, <2>4 DEF NoneOf, Queued
  <1> QED
    BY <1>3, <1>4, <1>5, <1>6

LEMMA ClientCore ==
    ASSUME IInv, IInv', Core, NEW c \in Clients, HandlersQuiet,
           UNCHANGED <<tables, inProgress, program>>,
           \A d \in Clients \ {c} : request'[d] = request[d],
           request' \in [Clients -> Message \cup {NoMsg}], CallSound(c)', AllPlaced',
           NEW w, w = Nowhere \/ w = InMailbox, At(c, w),
           \A s \in Servers : ServerCopies(s)'
    PROVE  Core'
  <1>1. /\ Shape /\ TablesSound' /\ UNCHANGED tables /\ inProgress' = inProgress
        /\ program' = program
    BY DEF IInv, Shape
  <1>2. /\ \A t \in Servers : \A m \in RangeOf(Fresh(t)) :
              request'[m.client] = request[m.client]
        /\ \A t \in Servers : \A e \in RangeOf(inProgress[t]) :
              Open(t, e) => request'[e.msg.client] = request[e.msg.client]
        /\ \A t \in Servers : \A i \in DOMAIN lockTable[t] : \A d \in Clients :
              Queued(Queue(t, i), d) => request'[d] = request[d]
    BY <1>1, NothingThere
  <1>3. /\ \A t \in Servers : SameFresh(t)
        /\ \A t, r \in Servers : SameReplies(t, r) /\ SameAsked(t, r)
    BY QuietClients
  <1>4. \A t \in Servers : HandlerCopies(t)'
    BY <1>2, <1>3, FreshCopiesKept, CoreParts
  <1>5. ASSUME NEW t \in Servers
        PROVE  ListCopies(t)' /\ LineCopies(t)' /\ QueueCopies(t)'
    <2>1. \A d : Said(t, d)' <=> Said(t, d)
      BY <1>3, SaidSame DEF Others
    <2>2. ListCopies(t) /\ LineCopies(t) /\ QueueCopies(t)
      BY CoreParts
    <2>3. inProgress'[t] = inProgress[t]
      BY <1>1
    <2>4. ListCopies(t)'
      BY <1>2, <2>1, <2>2, <2>3, ListCopiesKept
    <2>5. \A r \in Others(t) : SameAsked(t, r) /\ SameReplies(t, r)
      BY <1>3 DEF Others
    <2>6. LineCopies(t)'
      BY <2>2, <2>3, <2>5, LineCopiesKept
    <2>7. SameQueues
      BY <1>1, TablesStay, QueuesKept
    <2>8. QueueCopies(t)'
      BY <1>1, <1>2, <2>2, <2>7, QueueCopiesKept
    <2> QED
      BY <2>4, <2>6, <2>8
  <1>6. AllMore
    BY <1>1, OwnsSame
  <1>7. ClosedSound'
    BY <1>1, <1>3, <1>6, ClosedQuiet, CoreParts
  <1>8. SameObjects /\ LocksKept /\ LocksSound /\ TablesNumbered
    BY <1>1, TablesStay, CoreParts
  <1>9. LocksSound' /\ TablesNumbered'
    BY <1>8, LocksSoundKept, ObjectsSame
  <1>10. \A d \in Clients : CallSound(d)'
    <2>1. \A d \in Clients \ {c} : CallSound(d)'
      BY <1>1, CoreParts DEF CallSound, MayCreate
    <2> QED
      BY <2>1
  <1> QED
    BY <1>4, <1>5, <1>7, <1>9, <1>10, CoreNext

LEMMA CallCore ==
    ASSUME IInv, IInv', Core, NEW c \in Clients, Call(c)
    PROVE  Core'
  <1>1. /\ CalledTurn(c) /\ HandlersQuiet /\ UNCHANGED <<tables, inProgress, program>>
        /\ Shape /\ AllPlaced /\ request \in [Clients -> Message \cup {NoMsg}]
    BY CalledTurns, CoreParts DEF IInv
  <1>2. AllPlaced' /\ At(c, Nowhere)
    BY <1>1, NoMsgAssumption, PlacedCalled
  <1>3. PICK s \in Servers, m \in Message :
        /\ request[c] = NoMsg /\ request' = [request EXCEPT ![c] = m]
        /\ m.req \in PlainCalls /\ m.client = Nobody /\ m.from = c /\ MayCreate(c, m)
        /\ ServerGets(s, m)
    BY <1>1 DEF CalledTurn
  <1>4. /\ \A d \in Clients \ {c} : request'[d] = request[d]
        /\ request' \in [Clients -> Message \cup {NoMsg}] /\ request'[c] = m
    BY <1>1, <1>3
  <1>5. CallSound(c)'
    BY <1>1, <1>3, <1>4 DEF CallSound, MayCreate
  <1>6. \A t \in Servers : \A k \in RangeOf(mail[Srv(t)]) :
            request'[Requester(k)] = request[Requester(k)]
    BY <1>1, <1>2, <1>4, NothingThere
  <1>7. Key(m) = Key(request'[Requester(m)]) /\ (m.client # Nobody => m.from = Hdl(s))
    BY <1>3, <1>4 DEF Requester
  <1>8. \A t \in Servers : ServerCopies(t)'
    <2>1. \A t \in Servers : ServerCopies(t)
      BY CoreParts
    <2> QED
      BY <1>1, <1>3, <1>6, <1>7, <2>1, MailCopiesGot
  <1> QED
    BY <1>1, <1>2, <1>4, <1>5, <1>8, ClientCore

LEMMA ReturnCore ==
    ASSUME IInv, IInv', Core, NEW c \in Clients, Return(c)
    PROVE  Core'
  <1>1. /\ Shape /\ AllPlaced /\ SmallMail /\ request \in [Clients -> Message \cup {NoMsg}]
        /\ CallSound(c)
    BY CoreParts DEF IInv
  <1>2. request[c].req \in PlainCalls
    BY <1>1 DEF CallSound, Return
  <1>3. ReturnedTurn(c) /\ HandlersQuiet /\ UNCHANGED <<tables, inProgress, program>>
    BY <1>1, <1>2, ReturnedTurns
  <1>4. AllPlaced' /\ At(c, InMailbox)
    BY <1>1, <1>3, PlacedReturn
  <1>5. /\ \A d \in Clients \ {c} : request'[d] = request[d]
        /\ request' \in [Clients -> Message \cup {NoMsg}] /\ request'[c] = NoMsg
    BY <1>1, <1>3 DEF ReturnedTurn
  <1>6. CallSound(c)'
    BY <1>5 DEF CallSound
  <1>7. \A t \in Servers : \A k \in RangeOf(mail[Srv(t)]) :
            request'[Requester(k)] = request[Requester(k)]
    BY <1>1, <1>4, <1>5, NothingThere
  <1>8. \A t \in Servers : ServerCopies(t)'
    BY <1>3, <1>7, MailCopiesQuiet, CoreParts DEF ReturnedTurn
  <1> QED
    BY <1>3, <1>4, <1>5, <1>6, <1>8, ClientCore

LEMMA ServerTurnCore ==
    ASSUME IInv, IInv', Core, NEW s \in Servers, Server(s)
    PROVE  Core'
  <1>1. Shape /\ Shape' /\ SmallMail
    BY CoreParts DEF IInv
  <1>2. /\ \E m \in Message : Taken(s, m) /\ Turn(s, m)
        /\ UNCHANGED <<inProgress, blocked, program, request, calls, held>>
    BY <1>1, ServerTurns
  <1>3. PICK m \in Message : Taken(s, m) /\ Turn(s, m)
    BY <1>2
  <1>4. inProgress' = inProgress /\ RequestsSame /\ program' = program
    BY <1>2 DEF RequestsSame
  <1> QED
    BY <1>1, <1>3, <1>4, ServerCore

LEMMA HandlerTurnCore ==
    ASSUME IInv, IInv', Core, \A s \in Servers : SingleOwner(s), NEW r \in Servers,
           MessageHandler(r)
    PROVE  Core'
  <1>1. Shape /\ SmallMail
    BY CoreParts DEF IInv
  <1>2. UNCHANGED tables /\ RequestsSame /\ program' = program
    BY DEF MessageHandler, Relay, Ask, CountReply, clientVars, RequestsSame
  <1>3. CASE Relay(r) /\ NumServers # 1
    BY <1>1, <1>2, <1>3, RelayedTurns, RelayedCore
  <1>4. CASE Relay(r) /\ NumServers = 1
    BY <1>1, <1>2, <1>4, BackTurns, BackCore
  <1>5. CASE Ask(r)
    <2>1. PICK s \in Servers \ {r} : AskedTurn(r, s)
      BY <1>1, <1>5, AskedTurns
    <2>2. SingleOwner(s)
      OBVIOUS
    <2> QED
      BY <1>2, <2>1, <2>2, AskedCore
  <1>6. CASE CountReply(r)
    BY <1>1, <1>2, <1>6, CountedTurns, CountedCore
  <1> QED
    BY <1>3, <1>4, <1>5, <1>6 DEF MessageHandler

LEMMA CoreKept ==
    ASSUME IInv, Core, \A s \in Servers : SingleOwner(s), Next
    PROVE  Core'
  <1>1. IInv'
    BY NextKeeps
  <1>2. ASSUME NEW s \in Servers, Server(s)
        PROVE  Core'
    BY <1>1, <1>2, ServerTurnCore
  <1>3. ASSUME NEW s \in Servers, MessageHandler(s)
        PROVE  Core'
    BY <1>1, <1>3, HandlerTurnCore
  <1>4. ASSUME NEW c \in Clients, Call(c)
        PROVE  Core'
    BY <1>1, <1>4, CallCore
  <1>5. ASSUME NEW c \in Clients, Return(c)
        PROVE  Core'
    BY <1>1, <1>5, ReturnCore
  <1> QED
    BY <1>2, <1>3, <1>4, <1>5 DEF Next

LEMMA CoreStutters ==
    ASSUME Core, UNCHANGED vars
    PROVE  Core'
  <1>1. /\ mail' = mail /\ lockTable' = lockTable /\ condTable' = condTable /\ mvTable' = mvTable
        /\ inProgress' = inProgress /\ program' = program /\ request' = request
    BY DEF vars
  <1>2. /\ \A t \in Servers : SameFresh(t)
        /\ \A t, r \in Servers : SameReplies(t, r) /\ SameAsked(t, r)
    BY <1>1 DEF SameFresh, SameReplies, SameAsked, Fresh, Replies, Asked
  <1>3. SameObjects /\ LocksKept /\ SameQueues /\ AllMore
    <2>1. UNCHANGED tables
      BY <1>1 DEF tables
    <2> QED
      BY <2>1, TablesStay, QueuesKept, OwnsSame
  <1>4. LocksSound' /\ TablesNumbered'
    BY <1>3, CoreParts, LocksSoundKept, ObjectsSame
  <1>5. ClosedSound'
    BY <1>1, <1>2, <1>3, CoreParts, ClosedQuiet
  <1>6. RequestsSame
    BY <1>1 DEF RequestsSame
  <1>7. \A t \in Servers : ListCopies(t)' /\ LineCopies(t)'
    BY <1>1, <1>2, <1>6, CopiesQuiet
  <1>8. \A t \in Servers : HandlerCopies(t)'
    BY <1>1, <1>2, CoreParts, FreshCopiesKept
  <1>9. \A t \in Servers : ServerCopies(t)'
    BY <1>1, CoreParts DEF ServerCopies
  <1>10. \A t \in Servers : QueueCopies(t)'
    BY <1>1, CoreParts DEF QueueCopies
  <1>11. /\ \A c \in Clients : CallSound(c)'
         /\ request' \in [Clients -> Message \cup {NoMsg}]
    BY <1>1, <1>6, CallsSame
  <1>12. AllPlaced'
    <2>1. AllPlaced /\ ServersQuiet /\ SilentMail
      BY <1>1, CoreParts DEF ServersQuiet, SilentMail
    <2>2. \A c : Stays("server", c) /\ Stays("handler", c) /\ Stays("queue", c)
      BY <1>2, <1>3, <2>1, ServersStay, HandlersStay, QueuesStay
    <2>3. \A c : Stays("list", c)
      BY <1>1, <1>2, ListsQuiet
    <2>4. \A c \in Clients : Stays("mailbox", c)
      BY <2>1, SilentMailboxes
    <2> QED
      BY <1>1, <2>1, <2>2, <2>3, <2>4, NoneMoves DEF PlaceKinds
  <1> QED
    BY <1>4, <1>5, <1>7, <1>8, <1>9, <1>10, <1>11, <1>12, CoreNext

LEMMA CoreAtFirst ==
    ASSUME Init
    PROVE  Core
  <1>1. /\ \A b \in Boxes : mail[b] = << >>
        /\ \A s \in Servers : /\ lockTable[s] = << >> /\ condTable[s] = << >>
                              /\ mvTable[s] = << >> /\ inProgress[s] = << >>
        /\ request = [c \in Clients |-> NoMsg]
    BY DEF Init, Nothing
  <1>2. \A s, r \in Servers : /\ mail[Srv(s)] = << >> /\ Fresh(s) = << >>
                              /\ Asked(s, r) = << >> /\ Replies(s, r) = << >>
    BY <1>1, BoxNames, FilterEmpty DEF Fresh, Asked, Replies
  <1>3. ASSUME NEW c \in Clients
        PROVE  Placed(c) /\ CallSound(c)
    <2>1. ServersHave(c, Nowhere) /\ HandlersHave(c, Nowhere)
      BY <1>2, HasEmpty, PlaceNames DEF ServersHave, HandlersHave, Family, Nowhere
    <2>2. ListsHave(c, Nowhere)
      BY <1>1, HasEmpty, PlaceNames DEF ListsHave, Nowhere, InList
    <2>3. QueuesHave(c, Nowhere)
      <3>1. \A s \in Servers : DOMAIN lockTable[s] = {}
        BY <1>1
      <3>2. \A s, i : Nowhere # InQueue(s, i)
        BY PlaceNames DEF Nowhere, InQueue
      <3> QED
        BY <3>1, <3>2 DEF QueuesHave
    <2>4. MailboxHas(c, Nowhere)
      BY <1>1, BoxNames, PlaceNames DEF MailboxHas, Nowhere, InMailbox
    <2>5. At(c, Nowhere) /\ request[c] = NoMsg
      BY <1>1, <2>1, <2>2, <2>3, <2>4 DEF At
    <2> QED
      BY <2>5, PlacesAre DEF Placed, CallSound
  <1>4. CopiesSound
    BY <1>1, <1>2, RangeEmpty DEF CopiesSound, ServerCopies, HandlerCopies, ListCopies, LineCopies,
                                  QueueCopies
  <1>5. ClosedSound
    BY <1>1, RangeEmpty DEF ClosedSound
  <1>6. \A s \in Servers : Numbered(s, << >>)
    <2>1. DOMAIN << >> = {} /\ Cardinality({}) = 0
      BY FS_EmptySet
    <2>2. 0..(0 - 1) = {} /\ 0 <= MaxObjects
      BY LockServersAssumption DEF LockServersAssumption
    <2> QED
      BY <2>1, <2>2 DEF Numbered
  <1>7. TablesNumbered
    BY <1>1, <1>6 DEF TablesNumbered
  <1>8. LocksSound
    BY <1>1 DEF LocksSound
  <1> QED
    BY <1>1, <1>3, <1>4, <1>5, <1>7, <1>8 DEF Core

-----------------------------------------------------------------------------
(* The names of the objects. *)

(* At most one server has the object that a request to create asks for. *)
NameOnce ==
    \A r, s \in Servers : \A x : x.req \in Creates /\ Owns(r, x) /\ Owns(s, x) => r = s

LEMMA CreatesOwn ==
    \A r, x :
        /\ x.req = "CL" => (Owns(r, x) <=> \E i \in DOMAIN lockTable[r] : lockTable[r][i].name = x.name)
        /\ x.req = "CC" => (Owns(r, x) <=> \E i \in DOMAIN condTable[r] : condTable[r][i].name = x.name)
        /\ x.req = "CM" => (Owns(r, x) <=> \E i \in DOMAIN mvTable[r] : mvTable[r][i].name = x.name)
  BY OwnsIf

LEMMA NamesOnce == OneObjectPerName <=> NameOnce
  <1>1. ASSUME OneObjectPerName
        PROVE  NameOnce
    <2>1. ASSUME NEW r \in Servers, NEW s \in Servers, NEW x, x.req \in Creates, Owns(r, x),
                 Owns(s, x), r # s
          PROVE  FALSE
      <3>1. CASE x.req = "CL"
        <4>1. PICK i \in DOMAIN lockTable[r] : lockTable[r][i].name = x.name
          BY <2>1, <3>1, CreatesOwn
        <4>2. FindByName(lockTable[s], x.name) = {}
          BY <1>1, <2>1, <4>1 DEF OneObjectPerName
        <4>3. PICK j \in DOMAIN lockTable[s] : lockTable[s][j].name = x.name
          BY <2>1, <3>1, CreatesOwn
        <4> QED
          BY <4>2, <4>3 DEF FindByName
      <3>2. CASE x.req = "CC"
        <4>1. PICK i \in DOMAIN condTable[r] : condTable[r][i].name = x.name
          BY <2>1, <3>2, CreatesOwn
        <4>2. FindByName(condTable[s], x.name) = {}
          BY <1>1, <2>1, <4>1 DEF OneObjectPerName
        <4>3. PICK j \in DOMAIN condTable[s] : condTable[s][j].name = x.name
          BY <2>1, <3>2, CreatesOwn
        <4> QED
          BY <4>2, <4>3 DEF FindByName
      <3>3. CASE x.req = "CM"
        <4>1. PICK i \in DOMAIN mvTable[r] : mvTable[r][i].name = x.name
          BY <2>1, <3>3, CreatesOwn
        <4>2. FindByName(mvTable[s], x.name) = {}
          BY <1>1, <2>1, <4>1 DEF OneObjectPerName
        <4>3. PICK j \in DOMAIN mvTable[s] : mvTable[s][j].name = x.name
          BY <2>1, <3>3, CreatesOwn
        <4> QED
          BY <4>2, <4>3 DEF FindByName
      <3> QED
        BY <2>1, <3>1, <3>2, <3>3 DEF Creates
    <2> QED
      BY <2>1 DEF NameOnce
  <1>2. ASSUME NameOnce, NEW r \in Servers, NEW s \in Servers, r # s
        PROVE  /\ \A i \in DOMAIN lockTable[r] : FindByName(lockTable[s], lockTable[r][i].name) = {}
               /\ \A i \in DOMAIN condTable[r] : FindByName(condTable[s], condTable[r][i].name) = {}
               /\ \A i \in DOMAIN mvTable[r] : FindByName(mvTable[s], mvTable[r][i].name) = {}
    <2>1. ASSUME NEW q \in Creates, NEW n
          PROVE  ~(Owns(r, [req |-> q, name |-> n]) /\ Owns(s, [req |-> q, name |-> n]))
      <3>1. PICK x : x = [req |-> q, name |-> n]
        OBVIOUS
      <3>2. x.req = q
        BY <3>1
      <3>3. ~(Owns(r, x) /\ Owns(s, x))
        BY <1>2, <3>2 DEF NameOnce
      <3> QED
        BY <3>1, <3>3
    <2>2. ASSUME NEW i \in DOMAIN lockTable[r], NEW j \in DOMAIN lockTable[s],
                 lockTable[s][j].name = lockTable[r][i].name
          PROVE  FALSE
      <3>1. PICK n : n = lockTable[r][i].name
        OBVIOUS
      <3>2. PICK x : x = [req |-> "CL", name |-> n]
        OBVIOUS
      <3>3. x.req = "CL" /\ x.name = n
        BY <3>2
      <3>4. Owns(r, x) /\ Owns(s, x)
        BY <2>2, <3>1, <3>3, CreatesOwn
      <3> QED
        BY <2>1, <3>2, <3>4 DEF Creates
    <2>3. ASSUME NEW i \in DOMAIN condTable[r], NEW j \in DOMAIN condTable[s],
                 condTable[s][j].name = condTable[r][i].name
          PROVE  FALSE
      <3>1. PICK n : n = condTable[r][i].name
        OBVIOUS
      <3>2. PICK x : x = [req |-> "CC", name |-> n]
        OBVIOUS
      <3>3. x.req = "CC" /\ x.name = n
        BY <3>2
      <3>4. Owns(r, x) /\ Owns(s, x)
        BY <2>3, <3>1, <3>3, CreatesOwn
      <3> QED
        BY <2>1, <3>2, <3>4 DEF Creates
    <2>4. ASSUME NEW i \in DOMAIN mvTable[r], NEW j \in DOMAIN mvTable[s],
                 mvTable[s][j].name = mvTable[r][i].name
          PROVE  FALSE
      <3>1. PICK n : n = mvTable[r][i].name
        OBVIOUS
      <3>2. PICK x : x = [req |-> "CM", name |-> n]
        OBVIOUS
      <3>3. x.req = "CM" /\ x.name = n
        BY <3>2
      <3>4. Owns(r, x) /\ Owns(s, x)
        BY <2>4, <3>1, <3>3, CreatesOwn
      <3> QED
        BY <2>1, <3>2, <3>4 DEF Creates
    <2> QED
      BY <2>2, <2>3, <2>4 DEF FindByName
  <1> QED
    BY <1>1, <1>2 DEF OneObjectPerName

LEMMA NamesOnceNext == (OneObjectPerName <=> NameOnce)'
  BY NamesOnce, PTL

(* The indexes of two servers differ. *)
Small(s, t) == Numbered(s, t) /\ Cardinality(DOMAIN t) <= Stride

LEMMA IndexApart ==
    ASSUME NEW r \in Servers, NEW s \in Servers, NEW t, NEW u, Small(r, t), Small(s, u),
           IsFiniteSet(DOMAIN t), IsFiniteSet(DOMAIN u), NEW i, i \in DOMAIN t, i \in DOMAIN u
    PROVE  r = s
  <1>1. Stride \in Nat \ {0} /\ NumServers \in Nat
    BY LockServersAssumption DEF LockServersAssumption
  <1>2. r \in Nat /\ s \in Nat
    BY <1>1 DEF Servers
  <1>3. Cardinality(DOMAIN t) \in Nat /\ Cardinality(DOMAIN u) \in Nat
    BY FS_CardinalityType
  <1>4. PICK k \in 0..(Cardinality(DOMAIN t) - 1) : i = Stride * r + k
    BY DEF Small, Numbered
  <1>5. PICK l \in 0..(Cardinality(DOMAIN u) - 1) : i = Stride * s + l
    BY DEF Small, Numbered
  <1>6. k \in Nat /\ l \in Nat /\ k < Stride /\ l < Stride
    BY <1>1, <1>3, <1>4, <1>5 DEF Small
  <1>7. ASSUME NEW x \in Nat, NEW y \in Nat, NEW a \in Nat, NEW b \in Nat, a < Stride,
               Stride * x + a = Stride * y + b, x < y
        PROVE  FALSE
    <2>1. PICK d \in Nat \ {0} : y = x + d
      <3>1. y - x \in Nat \ {0} /\ y = x + (y - x)
        BY <1>7
      <3> QED
        BY <3>1
    <2>2. Stride * y = Stride * x + Stride * d
      BY <1>1, <2>1
    <2>3. Stride * d >= Stride
      <3>1. PICK e \in Nat : d = e + 1
        <4>1. d - 1 \in Nat /\ d = (d - 1) + 1
          BY <2>1
        <4> QED
          BY <4>1
      <3>2. Stride * d = Stride * e + Stride /\ Stride * e \in Nat
        BY <1>1, <3>1
      <3> QED
        BY <1>1, <3>2
    <2>4. Stride * x \in Nat /\ Stride * d \in Nat /\ Stride * y \in Nat
      BY <1>1, <1>7, <2>1
    <2> QED
      BY <1>1, <1>7, <2>2, <2>3, <2>4
  <1>8. ~(r < s)
    BY <1>2, <1>4, <1>5, <1>6, <1>7
  <1>9. ~(s < r)
    BY <1>2, <1>4, <1>5, <1>6, <1>7
  <1> QED
    BY <1>2, <1>8, <1>9

LEMMA IndexOnce ==
    ASSUME TablesSound, TablesNumbered, FewObjects, NEW r \in Servers, NEW s \in Servers, NEW i
    PROVE  /\ i \in DOMAIN lockTable[r] /\ i \in DOMAIN lockTable[s] => r = s
           /\ i \in DOMAIN condTable[r] /\ i \in DOMAIN condTable[s] => r = s
           /\ i \in DOMAIN mvTable[r] /\ i \in DOMAIN mvTable[s] => r = s
  <1>1. \A t \in Servers : /\ Small(t, lockTable[t]) /\ IsFiniteSet(DOMAIN lockTable[t])
                           /\ Small(t, condTable[t]) /\ IsFiniteSet(DOMAIN condTable[t])
                           /\ Small(t, mvTable[t]) /\ IsFiniteSet(DOMAIN mvTable[t])
    BY DEF TablesSound, Keys, TablesNumbered, FewObjects, Small
  <1> QED
    BY <1>1, IndexApart

(* Who can take over a request. *)
LEMMA FewServers ==
    ASSUME NumServers <= 2, NEW s \in Servers
    PROVE  SingleOwner(s)
  <1>1. NumServers \in Nat
    BY LockServersAssumption DEF LockServersAssumption
  <1>2. \A r, t \in Others(s) : r = t
    BY <1>1 DEF Others, Servers
  <1> QED
    BY <1>2 DEF SingleOwner

LEMMA NamedServers ==
    ASSUME TablesSound, TablesNumbered, FewObjects, OneObjectPerName, NEW s \in Servers
    PROVE  SingleOwner(s)
  <1>1. ASSUME NEW m \in Message, m.req \in PlainCalls, NEW r \in Others(s), NEW t \in Others(s),
               Owns(r, m), Owns(t, m)
        PROVE  r = t
    <2>1. r \in Servers /\ t \in Servers
      BY DEF Others
    <2>2. CASE m.req \in Creates
      BY <1>1, <2>1, <2>2, NamesOnce DEF NameOnce
    <2>3. CASE m.req \notin Creates
      <3>1. \/ m.idx \in DOMAIN lockTable[r] /\ m.idx \in DOMAIN lockTable[t]
            \/ m.idx \in DOMAIN condTable[r] /\ m.idx \in DOMAIN condTable[t]
            \/ m.idx \in DOMAIN mvTable[r] /\ m.idx \in DOMAIN mvTable[t]
        BY <1>1, <2>3, OwnsIf DEF Creates
      <3> QED
        BY <2>1, <3>1, IndexOnce
    <2> QED
      BY <2>2, <2>3
  <1> QED
    BY <1>1 DEF SingleOwner

(* What the names are known of, place by place.                              *)
MailNames(s) ==
    \A m \in RangeOf(mail[Srv(s)]) :
        m.id # NoID /\ m.req \in Creates => Owns(s, m) \/ \A r \in Servers : ~Owns(r, m)

FreshNames(s) == \A m \in RangeOf(Fresh(s)) : m.req \in Creates => ~Owns(s, m)

(* r has not looked at e, or does not have its object. *)
Passes(s, r, e) == Unheard(s, r, e.msg.id) \/ ~Owns(r, e.msg)

ListNames(s) ==
    \A e \in RangeOf(inProgress[s]) :
        Open(s, e) /\ e.msg.req \in Creates =>
            ~Owns(s, e.msg) /\ \A r \in Others(s) : Passes(s, r, e)

LEMMA NamesAre ==
    NamesSound <=> NameOnce /\ \A s \in Servers : MailNames(s) /\ FreshNames(s) /\ ListNames(s)
  <1>1. NamesSound <=>
          /\ OneObjectPerName
          /\ \A s \in Servers : MailNames(s) /\ FreshNames(s) /\ ListNames(s)
    BY DEF NamesSound, MailNames, FreshNames, ListNames, Passes
  <1> QED
    BY <1>1, NamesOnce

LEMMA NamesNext ==
    NameOnce' /\ (\A s \in Servers : MailNames(s)') /\ (\A s \in Servers : FreshNames(s)')
    /\ (\A s \in Servers : ListNames(s)') => NamesSound'
  <1>1. (NamesSound <=> NameOnce /\ \A s \in Servers :
             MailNames(s) /\ FreshNames(s) /\ ListNames(s))'
    BY NamesAre, PTL
  <1> QED
    BY <1>1

LEMMA MailNamesNext ==
    \A s : MailNames(s)' <=>
        \A m \in RangeOf(mail'[Srv(s)]) :
            m.id # NoID /\ m.req \in Creates =>
                Owns(s, m)' \/ \A r \in Servers : ~Owns(r, m)'
  BY DEF MailNames, RangeOf, Srv

LEMMA FreshNamesNext ==
    \A s : FreshNames(s)' <=> \A m \in RangeOf(Fresh(s)') : m.req \in Creates => ~Owns(s, m)'
  BY DEF FreshNames, RangeOf

LEMMA ListNamesNext ==
    \A s : ListNames(s)' <=>
        \A e \in RangeOf(inProgress'[s]) :
            e.yes = 0 /\ ~Said(s, e.msg.id)' /\ e.msg.req \in Creates =>
                ~Owns(s, e.msg)' /\ \A r \in Others(s) : Passes(s, r, e)'
  BY DEF ListNames, Open, RangeOf, Others

(* Every server has what it had. *)
OwnsKept == \A r \in Servers : \A x : Owns(r, x)' <=> Owns(r, x)

LEMMA TablesOwn ==
    ASSUME UNCHANGED tables
    PROVE  OwnsKept
  BY OwnsSame DEF OwnsKept

LEMMA ObjectsOwn ==
    ASSUME SameObjects
    PROVE  OwnsKept
  <1>1. ASSUME NEW r \in Servers
        PROVE  /\ DOMAIN lockTable'[r] = DOMAIN lockTable[r]
               /\ \A i \in DOMAIN lockTable[r] : lockTable'[r][i].name = lockTable[r][i].name
               /\ DOMAIN condTable'[r] = DOMAIN condTable[r]
               /\ \A i \in DOMAIN condTable[r] : condTable'[r][i].name = condTable[r][i].name
               /\ DOMAIN mvTable'[r] = DOMAIN mvTable[r]
               /\ \A i \in DOMAIN mvTable[r] : mvTable'[r][i].name = mvTable[r][i].name
    BY DEF SameObjects, SameNames
  <1>2. ASSUME NEW r \in Servers, NEW x
        PROVE  Owns(r, x)' <=> Owns(r, x)
    BY <1>1, OwnsIf, OwnsNext
  <1> QED
    BY <1>2 DEF OwnsKept

LEMMA NameOnceKept ==
    ASSUME OwnsKept, NameOnce
    PROVE  NameOnce'
  <1>1. NameOnce' <=> \A r, s \in Servers : \A x :
            x.req \in Creates /\ Owns(r, x)' /\ Owns(s, x)' => r = s
    BY DEF NameOnce
  <1> QED
    BY <1>1 DEF NameOnce, OwnsKept

(* The Servers' mail. *)
LEMMA MailNamesKept ==
    ASSUME OwnsKept, NEW s \in Servers,
           RangeOf(mail'[Srv(s)]) \subseteq RangeOf(mail[Srv(s)]), MailNames(s)
    PROVE  MailNames(s)'
  <1>1. ASSUME NEW m \in RangeOf(mail'[Srv(s)]), m.id # NoID, m.req \in Creates
        PROVE  Owns(s, m)' \/ \A r \in Servers : ~Owns(r, m)'
    BY <1>1 DEF MailNames, OwnsKept
  <1> QED
    BY <1>1, MailNamesNext

LEMMA MailNamesQuiet ==
    ASSUME OwnsKept, ServersQuiet, \A s \in Servers : MailNames(s)
    PROVE  \A s \in Servers : MailNames(s)'
  <1>1. \A s \in Servers : RangeOf(mail'[Srv(s)]) \subseteq RangeOf(mail[Srv(s)])
    BY DEF ServersQuiet
  <1> QED
    BY <1>1, MailNamesKept

LEMMA MailNamesTaken ==
    ASSUME Shape, OwnsKept, NEW s \in Servers, mail[Srv(s)] # << >>, ServerTakes(s),
           \A t \in Servers : MailNames(t)
    PROVE  \A t \in Servers : MailNames(t)'
  <1>1. ASSUME NEW t \in Servers
        PROVE  RangeOf(mail'[Srv(t)]) \subseteq RangeOf(mail[Srv(t)])
    <2>1. CASE t = s
      <3>1. PICK q \in Seq(Message) : q = mail[Srv(s)]
        BY MailTyped
      <3>2. RangeOf(q) = {Head(q)} \cup RangeOf(Tail(q))
        BY <3>1, RangeTail
      <3> QED
        BY <2>1, <3>1, <3>2 DEF ServerTakes
    <2>2. CASE t # s
      BY <2>2 DEF ServerTakes
    <2> QED
      BY <2>1, <2>2
  <1> QED
    BY <1>1, MailNamesKept

LEMMA MailNamesGot ==
    ASSUME Shape, OwnsKept, NEW s \in Servers, NEW y \in Message, ServerGets(s, y),
           y.id # NoID /\ y.req \in Creates => Owns(s, y) \/ \A r \in Servers : ~Owns(r, y),
           \A t \in Servers : MailNames(t)
    PROVE  \A t \in Servers : MailNames(t)'
  <1>1. ASSUME NEW t \in Servers \ {s}
        PROVE  MailNames(t)'
    <2>1. RangeOf(mail'[Srv(t)]) \subseteq RangeOf(mail[Srv(t)])
      BY DEF ServerGets
    <2> QED
      BY <2>1, MailNamesKept
  <1>2. MailNames(s)'
    <2>1. PICK q \in Seq(Message) : q = mail[Srv(s)]
      BY MailTyped
    <2>2. RangeOf(mail'[Srv(s)]) = RangeOf(mail[Srv(s)]) \cup {y}
      BY <2>1, RangeAppend DEF ServerGets
    <2>3. ASSUME NEW m \in RangeOf(mail'[Srv(s)]), m.id # NoID, m.req \in Creates
          PROVE  Owns(s, m)' \/ \A r \in Servers : ~Owns(r, m)'
      <3>1. CASE m = y
        BY <2>3, <3>1 DEF OwnsKept
      <3>2. CASE m \in RangeOf(mail[Srv(s)])
        BY <2>3, <3>2 DEF MailNames, OwnsKept
      <3> QED
        BY <2>2, <3>1, <3>2
    <2> QED
      BY <2>3, MailNamesNext
  <1> QED
    BY <1>1, <1>2

(* The handlers' mail. *)
LEMMA FreshNamesKept ==
    ASSUME OwnsKept, NEW s \in Servers, RangeOf(Fresh(s)') \subseteq RangeOf(Fresh(s)), FreshNames(s)
    PROVE  FreshNames(s)'
  <1>1. ASSUME NEW m \in RangeOf(Fresh(s)'), m.req \in Creates
        PROVE  ~Owns(s, m)'
    BY <1>1 DEF FreshNames, OwnsKept
  <1> QED
    BY <1>1, FreshNamesNext

LEMMA FreshNamesSame ==
    ASSUME OwnsKept, \A t \in Servers : SameFresh(t), \A t \in Servers : FreshNames(t)
    PROVE  \A t \in Servers : FreshNames(t)'
  <1>1. \A t \in Servers : RangeOf(Fresh(t)') \subseteq RangeOf(Fresh(t))
    BY DEF SameFresh
  <1> QED
    BY <1>1, FreshNamesKept

LEMMA FreshNamesTaken ==
    ASSUME OwnsKept, Shape', NEW s \in Servers, NEW m \in Message, Fresh(s) = <<m>> \o Fresh(s)',
           \A t \in Servers \ {s} : SameFresh(t), \A t \in Servers : FreshNames(t)
    PROVE  \A t \in Servers : FreshNames(t)'
  <1>1. ASSUME NEW t \in Servers
        PROVE  RangeOf(Fresh(t)') \subseteq RangeOf(Fresh(t))
    <2>1. RangeOf(Fresh(s)) = {m} \cup RangeOf(Fresh(s)')
      BY FreshFirst
    <2>2. t # s => RangeOf(Fresh(t)') = RangeOf(Fresh(t))
      BY DEF SameFresh
    <2> QED
      BY <2>1, <2>2
  <1> QED
    BY <1>1, FreshNamesKept

LEMMA FreshNamesGot ==
    ASSUME Shape, OwnsKept, NEW s \in Servers, NEW x \in Message, Fresh(s)' = Append(Fresh(s), x),
           \A t \in Servers \ {s} : SameFresh(t), x.req \in Creates => ~Owns(s, x),
           \A t \in Servers : FreshNames(t)
    PROVE  \A t \in Servers : FreshNames(t)'
  <1>1. ASSUME NEW t \in Servers \ {s}
        PROVE  FreshNames(t)'
    <2>1. RangeOf(Fresh(t)') \subseteq RangeOf(Fresh(t))
      BY DEF SameFresh
    <2> QED
      BY <2>1, FreshNamesKept
  <1>2. FreshNames(s)'
    <2>1. Fresh(s) \in Seq(Message)
      BY QueuesTyped
    <2>2. RangeOf(Fresh(s)') = RangeOf(Fresh(s)) \cup {x}
      BY <2>1, RangeAppend
    <2>3. ASSUME NEW m \in RangeOf(Fresh(s)'), m.req \in Creates
          PROVE  ~Owns(s, m)'
      BY <2>2, <2>3 DEF FreshNames, OwnsKept
    <2> QED
      BY <2>3, FreshNamesNext
  <1> QED
    BY <1>1, <1>2

(* The lists. *)
LEMMA PassesNext ==
    \A s, r, e : Passes(s, r, e)' <=> Unheard(s, r, e.msg.id)' \/ ~Owns(r, e.msg)'
  BY DEF Passes

LEMMA ListNamesSame ==
    ASSUME OwnsKept, NEW s \in Servers, inProgress'[s] = inProgress[s],
           \A r \in Servers : SameReplies(s, r) /\ SameAsked(s, r), ListNames(s)
    PROVE  ListNames(s)'
  <1>1. \A d : Said(s, d)' <=> Said(s, d)
    BY SaidSame DEF Others
  <1>2. \A r \in Servers : \A d : Unheard(s, r, d)' <=> Unheard(s, r, d)
    BY UnheardIs DEF SameAsked
  <1>3. ASSUME NEW e \in RangeOf(inProgress'[s]), e.yes = 0, ~Said(s, e.msg.id)',
               e.msg.req \in Creates
        PROVE  ~Owns(s, e.msg)' /\ \A r \in Others(s) : Passes(s, r, e)'
    <2>1. Open(s, e) /\ e \in RangeOf(inProgress[s])
      BY <1>1, <1>3 DEF Open
    <2>2. ~Owns(s, e.msg) /\ \A r \in Others(s) : Passes(s, r, e)
      BY <1>3, <2>1 DEF ListNames
    <2>3. ASSUME NEW r \in Others(s)
          PROVE  Passes(s, r, e)'
      <3>1. Unheard(s, r, e.msg.id) \/ ~Owns(r, e.msg)
        BY <2>2 DEF Passes
      <3>2. r \in Servers
        BY DEF Others
      <3> QED
        BY <1>2, <3>1, <3>2, PassesNext DEF OwnsKept
    <2> QED
      BY <2>2, <2>3 DEF OwnsKept
  <1> QED
    BY <1>3, ListNamesNext

LEMMA ListNamesRelayed ==
    ASSUME IInv, OwnsKept, NEW s \in Servers, NEW e \in Entry, NEW x \in Message,
           inProgress'[s] = Append(inProgress[s], e), ~Owns(s, e.msg), x.id = e.msg.id,
           \A r \in Others(s) : Asked(s, r)' = Append(Asked(s, r), x) /\ SameReplies(s, r),
           ListNames(s)
    PROVE  ListNames(s)'
  <1>1. Shape /\ inProgress[s] \in Seq(Entry)
    BY QueuesTyped DEF IInv
  <1>2. \A d : Said(s, d)' <=> Said(s, d)
    BY SaidSame
  <1>3. ASSUME NEW r \in Others(s)
        PROVE  RangeOf(Asked(s, r)') = RangeOf(Asked(s, r)) \cup {x}
    <2>1. Asked(s, r) \in Seq(Message)
      BY <1>1, QueuesTyped DEF Others
    <2> QED
      BY <2>1, RangeAppend, ZenonT(60)
  <1>4. RangeOf(inProgress'[s]) = RangeOf(inProgress[s]) \cup {e}
    BY <1>1, RangeAppend
  <1>5. ASSUME NEW f \in RangeOf(inProgress'[s]), f.yes = 0, ~Said(s, f.msg.id)',
               f.msg.req \in Creates
        PROVE  ~Owns(s, f.msg)' /\ \A r \in Others(s) : Passes(s, r, f)'
    <2>1. CASE f = e
      <3>1. \A r \in Others(s) : Unheard(s, r, f.msg.id)'
        BY <1>3, <2>1, UnheardIs
      <3> QED
        BY <2>1, <3>1, PassesNext DEF OwnsKept
    <2>2. CASE f \in RangeOf(inProgress[s])
      <3>1. Open(s, f)
        BY <1>2, <1>5 DEF Open
      <3>2. ~Owns(s, f.msg) /\ \A r \in Others(s) : Passes(s, r, f)
        BY <1>5, <2>2, <3>1 DEF ListNames
      <3>3. ASSUME NEW r \in Others(s)
            PROVE  Passes(s, r, f)'
        <4>1. Unheard(s, r, f.msg.id) \/ ~Owns(r, f.msg)
          BY <3>2 DEF Passes
        <4>2. Unheard(s, r, f.msg.id) => Unheard(s, r, f.msg.id)'
          BY <1>3, UnheardIs
        <4>3. r \in Servers
          BY DEF Others
        <4> QED
          BY <4>1, <4>2, <4>3, PassesNext DEF OwnsKept
      <3> QED
        BY <3>2, <3>3 DEF OwnsKept
    <2> QED
      BY <1>4, <2>1, <2>2
  <1> QED
    BY <1>5, ListNamesNext

LEMMA ListNamesAsked ==
    ASSUME IInv, Shape', Core, OwnsKept, NEW s \in Servers, NEW r \in Others(s), NEW m \in Message,
           NEW y \in Message, y.id = m.id, y.req = "YS" \/ ~Owns(r, m),
           m \in RangeOf(Asked(s, r)), RangeOf(Asked(s, r)) = {m} \cup RangeOf(Asked(s, r)'),
           Replies(s, r)' = Append(Replies(s, r), y),
           \A t \in Others(s) \ {r} : SameAsked(s, t) /\ SameReplies(s, t),
           inProgress'[s] = inProgress[s], ListNames(s)
    PROVE  ListNames(s)'
  <1>1. \A d : Said(s, d)' <=> Said(s, d) \/ (d = y.id /\ y.req = "YS")
    BY SaidMore DEF IInv
  <1>2. ASSUME NEW e \in RangeOf(inProgress'[s]), e.yes = 0, ~Said(s, e.msg.id)',
               e.msg.req \in Creates
        PROVE  ~Owns(s, e.msg)' /\ \A t \in Others(s) : Passes(s, t, e)'
    <2>1. Open(s, e) /\ e \in RangeOf(inProgress[s])
      BY <1>1, <1>2 DEF Open
    <2>2. ~Owns(s, e.msg) /\ \A t \in Others(s) : Passes(s, t, e)
      BY <1>2, <2>1 DEF ListNames
    <2>3. ASSUME NEW t \in Others(s) \ {r}
          PROVE  Passes(s, t, e)'
      <3>1. Unheard(s, t, e.msg.id) \/ ~Owns(t, e.msg)
        BY <2>2 DEF Passes
      <3>2. Unheard(s, t, e.msg.id)' <=> Unheard(s, t, e.msg.id)
        BY UnheardIs DEF SameAsked
      <3>3. t \in Servers
        BY DEF Others
      <3> QED
        BY <3>1, <3>2, <3>3, PassesNext DEF OwnsKept
    <2>4. Passes(s, r, e)'
      <3>1. Unheard(s, r, e.msg.id) \/ ~Owns(r, e.msg)
        BY <2>2 DEF Passes
      <3>2. r \in Servers
        BY DEF Others
      <3>3. CASE e.msg.id = m.id
        <4>1. y.req # "YS"
          BY <1>1, <1>2, <3>3
        <4>2. ~Owns(r, m)
          BY <4>1
        <4>3. LineCopies(s)
          BY CoreParts
        <4>4. Key(m) = Key(e.msg)
          BY <2>1, <3>3, <4>3 DEF LineCopies, AskedCopies
        <4>5. ~Owns(r, e.msg)
          BY <4>2, <4>4, OwnsKey
        <4> QED
          BY <3>2, <4>5, PassesNext DEF OwnsKept
      <3>4. CASE e.msg.id # m.id
        <4>1. Unheard(s, r, e.msg.id) => Unheard(s, r, e.msg.id)'
          BY <3>4, UnheardIs
        <4> QED
          BY <3>1, <3>2, <4>1, PassesNext DEF OwnsKept
      <3> QED
        BY <3>3, <3>4
    <2> QED
      BY <2>2, <2>3, <2>4 DEF OwnsKept
  <1> QED
    BY <1>2, ListNamesNext

LEMMA ListNamesCounted ==
    ASSUME Shape', OwnsKept, NEW s, NEW r, NEW m, NEW P, NEW Q, CountsReply(s, r, m, P, Q),
           Rest(Q, inProgress'[s]), \A t \in Others(s) : SameAsked(s, t), ListNames(s)
    PROVE  ListNames(s)'
  <1>1. ASSUME NEW e \in RangeOf(inProgress'[s]), e.yes = 0, ~Said(s, e.msg.id)',
               e.msg.req \in Creates
        PROVE  ~Owns(s, e.msg)' /\ \A t \in Others(s) : Passes(s, t, e)'
    <2>1. PICK i \in 1..Len(Q) : Q[i] = e
      BY <1>1, RestRange DEF CountsReply
    <2>2. i \in 1..Len(P) /\ Q[i].msg = P[i].msg /\ P[i] \in RangeOf(inProgress[s])
      BY <2>1, CountedEntry
    <2>3. (Q[i].yes = 0 /\ ~Said(s, Q[i].msg.id)') <=> Open(s, P[i])
      BY <2>2, EntriesOpen
    <2>4. Open(s, P[i]) /\ P[i].msg = e.msg
      BY <1>1, <2>1, <2>2, <2>3
    <2>5. ~Owns(s, e.msg) /\ \A t \in Others(s) : Passes(s, t, P[i])
      BY <1>1, <2>2, <2>4 DEF ListNames
    <2>6. ASSUME NEW t \in Others(s)
          PROVE  Passes(s, t, e)'
      <3>1. Unheard(s, t, e.msg.id) \/ ~Owns(t, e.msg)
        BY <2>4, <2>5 DEF Passes
      <3>2. Unheard(s, t, e.msg.id)' <=> Unheard(s, t, e.msg.id)
        BY UnheardIs DEF SameAsked
      <3>3. t \in Servers
        BY DEF Others
      <3> QED
        BY <3>1, <3>2, <3>3, PassesNext DEF OwnsKept
    <2>7. s \in Servers
      BY DEF CountsReply
    <2> QED
      BY <2>5, <2>6, <2>7 DEF OwnsKept
  <1> QED
    BY <1>1, ListNamesNext

(* Nobody is still asked about a request that leaves the list, ... *)
LEMMA HeadHeard ==
    ASSUME IInv, IInv', NEW s, NEW r, NEW m, NEW P, NEW Q, CountsReply(s, r, m, P, Q),
           Q # << >>, inProgress'[s] = Tail(Q), \A t \in Others(s) : SameAsked(s, t)
    PROVE  \A t \in Others(s) : ~Unheard(s, t, Q[1].msg.id)
  <1>1. IdsSound(s) /\ IdsSound(s)' /\ s \in Servers
    BY IdsAre, IdsNext DEF CountsReply
  <1>2. PICK T, n : T = Tail(Q) /\ n = Len(Q)
    OBVIOUS
  <1>3. n \in Nat /\ n # 0 /\ Len(T) = n - 1 /\ \A i \in 1..(n - 1) : T[i] = Q[i + 1]
    BY <1>2 DEF CountsReply
  <1>4. \A i, j \in 1..n : Q[i].msg.id = Q[j].msg.id => i = j
    <2>1. /\ n = Len(P) /\ \A i \in 1..n : Q[i].msg = P[i].msg
          /\ P = inProgress[s]
      BY <1>2 DEF CountsReply
    <2>2. \A i, j \in 1..n : P[i].msg.id = P[j].msg.id => i = j
      BY <1>1, <2>1 DEF IdsSound
    <2> QED
      BY <2>1, <2>2, SMTT(30)
  <1>5. ASSUME NEW i \in 1..(n - 1)
        PROVE  Q[1].msg.id # T[i].msg.id
    <2>1. 1 \in 1..n /\ i + 1 \in 1..n /\ i + 1 # 1
      BY <1>3
    <2> QED
      BY <1>3, <1>4, <2>1
  <1>6. ASSUME NEW t \in Others(s), NEW x \in RangeOf(Asked(s, t)')
        PROVE  x.id # Q[1].msg.id
    <2>1. \A u \in Others(s) : \A y \in RangeOf(Asked(s, u))' \cup RangeOf(Replies(s, u))' :
              \E i \in 1..Len(inProgress'[s]) : y.id = inProgress'[s][i].msg.id
      BY <1>1 DEF IdsSound, Others
    <2>2. x \in RangeOf(Asked(s, t))'
      BY <1>6 DEF RangeOf
    <2>3. PICK i \in 1..Len(inProgress'[s]) : x.id = inProgress'[s][i].msg.id
      BY <2>1, <2>2
    <2> QED
      BY <1>2, <1>3, <1>5, <2>3
  <1>7. ASSUME NEW t \in Others(s)
        PROVE  ~Unheard(s, t, Q[1].msg.id)
    <2>1. Asked(s, t)' = Asked(s, t)
      BY DEF SameAsked
    <2>2. \A x \in RangeOf(Asked(s, t)) : x.id # Q[1].msg.id
      BY <1>6, <2>1
    <2> QED
      BY <2>2, UnheardIs
  <1> QED
    BY <1>7

(* ... and nobody has its object, if nobody has taken it over. *)
LEMMA HeadUnnamed ==
    ASSUME IInv, IInv', NEW s, NEW r, NEW m, NEW P, NEW Q, CountsReply(s, r, m, P, Q),
           Q # << >>, inProgress'[s] = Tail(Q), \A t \in Others(s) : SameAsked(s, t), Q[1].yes = 0,
           ListNames(s)
    PROVE  Q[1].msg.req \in Creates => \A t \in Servers : ~Owns(t, Q[1].msg)
  <1>1. \A t \in Others(s) : ~Unheard(s, t, Q[1].msg.id)
    BY HeadHeard
  <1>2. ~Said(s, Q[1].msg.id)'
    BY HeadGone
  <1>3. 1 \in 1..Len(Q)
    BY DEF CountsReply
  <1>4. 1 \in 1..Len(P) /\ Q[1].msg = P[1].msg /\ P[1] \in RangeOf(inProgress[s])
    BY <1>3, CountedEntry
  <1>5. Shape'
    BY DEF IInv
  <1>6. (Q[1].yes = 0 /\ ~Said(s, Q[1].msg.id)') <=> Open(s, P[1])
    BY <1>4, <1>5, EntriesOpen
  <1>7. Open(s, P[1])
    BY <1>2, <1>6
  <1>8. Q[1].msg.req \in Creates => ~Owns(s, Q[1].msg) /\ \A t \in Others(s) : Passes(s, t, P[1])
    BY <1>4, <1>7 DEF ListNames
  <1> QED
    BY <1>1, <1>4, <1>8 DEF Passes, Others

(* Where the call of c is not, there is no request of c. *)
LEMMA Elsewhere ==
    ASSUME Shape, NEW c \in Clients, NEW w, At(c, w), NEW t \in Servers
    PROVE  /\ w # AtServer(t) => \A m \in RangeOf(mail[Srv(t)]) : Requester(m) # c
           /\ w # AtHandler(t) => \A m \in RangeOf(Fresh(t)) : m.client # c
           /\ w # InList(t) => \A e \in RangeOf(inProgress[t]) : Open(t, e) => e.msg.client # c
           /\ \A i \in DOMAIN lockTable[t] : w # InQueue(t, i) => ~Queued(Queue(t, i), c)
  <1>1. ASSUME w # AtServer(t), NEW m \in RangeOf(mail[Srv(t)])
        PROVE  Requester(m) # c
    <2>1. mail[Srv(t)] \in Seq(Message)
      BY MailTyped
    <2>2. m \in Message
      BY <2>1, RangeTyped
    <2>3. Has(mail[Srv(t)], Of(c), FALSE)
      BY <1>1 DEF At, ServersHave, Family, AtServer
    <2>4. PICK i \in 1..Len(mail[Srv(t)]) : mail[Srv(t)][i] = m
      BY <2>1, RangeIndex
    <2>5. m \notin Of(c)
      BY <2>3, <2>4 DEF Has, NoneOf
    <2> QED
      BY <2>2, <2>5 DEF Of
  <1>2. ASSUME w # AtHandler(t), NEW m \in RangeOf(Fresh(t))
        PROVE  m.client # c
    <2>1. Fresh(t) \in Seq(Message)
      BY QueuesTyped
    <2>2. m \in Message
      BY <2>1, RangeTyped
    <2>3. Has(Fresh(t), For(c), FALSE)
      BY <1>2 DEF At, HandlersHave, Family, AtHandler
    <2>4. PICK i \in 1..Len(Fresh(t)) : Fresh(t)[i] = m
      BY <2>1, RangeIndex
    <2>5. m \notin For(c)
      BY <2>3, <2>4 DEF Has, NoneOf
    <2> QED
      BY <2>2, <2>5 DEF For
  <1>3. ASSUME w # InList(t), NEW e \in RangeOf(inProgress[t]), Open(t, e)
        PROVE  e.msg.client # c
    <2>1. inProgress[t] \in Seq(Entry)
      BY QueuesTyped
    <2>2. e \in Entry
      BY <2>1, RangeTyped
    <2>3. Has(inProgress[t], OpenOf(t, c), FALSE)
      BY <1>3 DEF At, ListsHave
    <2>4. PICK i \in 1..Len(inProgress[t]) : inProgress[t][i] = e
      BY <2>1, RangeIndex
    <2>5. e \notin OpenOf(t, c)
      BY <2>3, <2>4 DEF Has, NoneOf
    <2> QED
      BY <1>3, <2>2, <2>5 DEF OpenOf
  <1>4. ASSUME NEW i \in DOMAIN lockTable[t], w # InQueue(t, i)
        PROVE  ~Queued(Queue(t, i), c)
    <2>1. i \in Indexes
      BY IndexesOf DEF Shape
    <2>2. Has(Queue(t, i), {c}, FALSE)
      BY <1>4, <2>1, QueueHas DEF At
    <2> QED
      BY <2>2 DEF Has, NoneOf, Queued
  <1> QED
    BY <1>1, <1>2, <1>3, <1>4

(* A client whose request is somewhere is in a call. *)
LEMMA InCall ==
    ASSUME Shape, AllPlaced, NEW c \in Clients, NEW t \in Servers
    PROVE  /\ \A m \in RangeOf(mail[Srv(t)]) : Requester(m) = c => request[c] # NoMsg
           /\ \A m \in RangeOf(Fresh(t)) : m.client = c => request[c] # NoMsg
           /\ \A e \in RangeOf(inProgress[t]) :
                 Open(t, e) /\ e.msg.client = c => request[c] # NoMsg
  <1>1. PICK w \in Places : At(c, w) /\ (w = Nowhere <=> request[c] = NoMsg)
    BY DEF AllPlaced, Placed
  <1>2. Nowhere # AtServer(t) /\ Nowhere # AtHandler(t) /\ Nowhere # InList(t)
    BY PlaceNames DEF Nowhere, AtServer, AtHandler, InList
  <1> QED
    BY <1>1, <1>2, Elsewhere

(* The requests to create an object of the kind and the name that m asks for. *)
AlsoCreates(x, m) == x.req = m.req /\ x.name = m.name

LEMMA CreatedBy ==
    ASSUME OwnNames, NEW c \in Clients, NEW d \in Clients, NEW x, NEW m, m.req \in Creates,
           AlsoCreates(x, m), MayCreate(c, x), MayCreate(d, m)
    PROVE  c = d
  <1>1. m.req = "CL" \/ m.req = "CC" \/ m.req = "CM"
    BY DEF Creates
  <1> QED
    BY <1>1 DEF OwnNames, AlsoCreates, MayCreate

LEMMA KeyCreates ==
    ASSUME Core, NEW c \in Clients, request[c] # NoMsg, NEW m, Key(m) = Key(request[c])
    PROVE  MayCreate(c, m)
  <1>1. MayCreate(c, request[c])
    BY CoreParts DEF CallSound
  <1>2. m.req = request[c].req /\ m.name = request[c].name
    BY DEF Key
  <1> QED
    BY <1>1, <1>2 DEF MayCreate

(* While a Server is to create an object for c, nobody else asks for it. *)
LEMMA OnlyPending ==
    ASSUME Core, Shape, OwnNames, NEW s, NEW m \in Message, Taken(s, m), m.req \in Creates,
           At(Requester(m), AtServer(s)), ServerTakes(s), NEW t \in Servers
    PROVE  /\ \A x \in RangeOf(mail'[Srv(t)]) : ~AlsoCreates(x, m)
           /\ \A x \in RangeOf(Fresh(t)) : ~AlsoCreates(x, m)
           /\ \A e \in RangeOf(inProgress[t]) : Open(t, e) => ~AlsoCreates(e.msg, m)
  <1>1. PICK c \in Clients : c = Requester(m)
    BY DEF Taken
  <1>2. s \in Servers /\ mail[Srv(s)] # << >> /\ m = Head(mail[Srv(s)])
    BY DEF Taken
  <1>3. AllPlaced /\ ServerCopies(s) /\ ServerCopies(t) /\ HandlerCopies(t) /\ ListCopies(t)
    BY <1>2, CoreParts
  <1>4. mail[Srv(t)] \in Seq(ToServer) /\ mail[Srv(t)] \in Seq(Message)
    BY MailTyped DEF Shape
  <1>5. At(c, AtServer(s))
    BY <1>1
  <1>6. MayCreate(c, m)
    <2>1. PICK q \in Seq(Message) : q = mail[Srv(s)]
      BY <1>2, MailTyped
    <2>2. RangeOf(q) = {Head(q)} \cup RangeOf(Tail(q))
      BY <1>2, <2>1, RangeTail
    <2>3. m \in RangeOf(mail[Srv(s)])
      BY <1>2, <2>1, <2>2
    <2>4. request[c] # NoMsg
      BY <1>1, <1>2, <1>3, <2>3, InCall
    <2>5. Key(m) = Key(request[c])
      BY <1>1, <1>2, <1>3, TakenKey
    <2> QED
      BY <2>4, <2>5, KeyCreates
  <1>7. ASSUME NEW x \in RangeOf(mail'[Srv(t)]), AlsoCreates(x, m)
        PROVE  FALSE
    <2>1. PICK q \in Seq(Message) : q = mail[Srv(t)]
      BY <1>4
    <2>2. RangeOf(mail'[Srv(t)]) \subseteq RangeOf(mail[Srv(t)])
      <3>1. CASE t = s
        <4>1. RangeOf(q) = {Head(q)} \cup RangeOf(Tail(q))
          BY <1>2, <2>1, <3>1, RangeTail
        <4> QED
          BY <2>1, <3>1, <4>1 DEF ServerTakes
      <3>2. CASE t # s
        BY <3>2 DEF ServerTakes
      <3> QED
        BY <3>1, <3>2
    <2>3. x \in RangeOf(mail[Srv(t)]) /\ x \in ToServer
      BY <1>4, <1>7, <2>2, RangeTyped
    <2>4. PICK d \in Clients : d = Requester(x)
      BY <2>3, BoxNames DEF ToServer, Requester
    <2>5. request[d] # NoMsg
      BY <1>3, <2>3, <2>4, InCall
    <2>6. Key(x) = Key(request[d])
      BY <1>3, <2>3, <2>4 DEF ServerCopies
    <2>7. MayCreate(d, x)
      BY <2>5, <2>6, KeyCreates
    <2>8. d = c
      BY <1>6, <1>7, <2>7, CreatedBy
    <2>9. CASE t # s
      <3>1. AtServer(s) # AtServer(t)
        BY <2>9, PlaceNames DEF AtServer
      <3> QED
        BY <1>5, <2>3, <2>4, <2>8, <3>1, Elsewhere
    <2>10. CASE t = s
      <3>1. Has(mail[Srv(s)], Of(c), TRUE)
        BY <1>2, <1>5 DEF At, ServersHave, Family, AtServer
      <3>2. q \in Seq(Message) /\ q # << >> /\ Has(q, Of(c), TRUE) /\ Head(q) \in Of(c)
        BY <1>1, <1>2, <2>1, <2>10, <3>1 DEF Of
      <3>3. Has(Tail(q), Of(c), FALSE)
        BY <3>2, HasTail
      <3>4. Tail(q) \in Seq(Message) /\ x \in RangeOf(Tail(q))
        BY <1>7, <2>1, <2>10, <3>2 DEF ServerTakes
      <3>5. PICK i \in 1..Len(Tail(q)) : Tail(q)[i] = x
        BY <3>4, RangeIndex
      <3>6. x \notin Of(c)
        BY <3>3, <3>5 DEF Has, NoneOf
      <3> QED
        BY <2>3, <2>4, <2>8, <3>6 DEF Of, ToServer
    <2> QED
      BY <2>9, <2>10
  <1>8. ASSUME NEW x \in RangeOf(Fresh(t)), AlsoCreates(x, m)
        PROVE  FALSE
    <2>1. mail[Hdl(t)] \in Seq(ToHandler(t))
      BY DEF Shape
    <2>2. Fresh(t) \in Seq(ToHandler(t))
      BY <2>1, FilterSeq DEF Fresh
    <2>3. x \in ToHandler(t)
      BY <1>8, <2>2, RangeTyped
    <2>4. PICK d \in Clients : d = x.client
      BY <2>3 DEF ToHandler
    <2>5. request[d] # NoMsg
      BY <1>3, <1>8, <2>4, InCall
    <2>6. Key(x) = Key(request[d])
      BY <1>3, <1>8, <2>4 DEF HandlerCopies
    <2>7. MayCreate(d, x)
      BY <2>5, <2>6, KeyCreates
    <2>8. d = c
      BY <1>6, <1>8, <2>7, CreatedBy
    <2>9. AtServer(s) # AtHandler(t)
      BY PlaceNames DEF AtServer, AtHandler
    <2> QED
      BY <1>5, <1>8, <2>4, <2>8, <2>9, Elsewhere
  <1>9. ASSUME NEW e \in RangeOf(inProgress[t]), Open(t, e), AlsoCreates(e.msg, m)
        PROVE  FALSE
    <2>1. inProgress[t] \in Seq(Entry)
      BY QueuesTyped
    <2>2. e \in Entry
      BY <1>9, <2>1, RangeTyped
    <2>4. PICK d \in Clients : d = e.msg.client
      BY <2>2 DEF Entry, Passed
    <2>5. request[d] # NoMsg
      BY <1>3, <1>9, <2>4, InCall
    <2>6. Key(e.msg) = Key(request[d])
      BY <1>3, <1>9, <2>4 DEF ListCopies
    <2>7. MayCreate(d, e.msg)
      BY <2>5, <2>6, KeyCreates
    <2>8. d = c
      BY <1>6, <1>9, <2>7, CreatedBy
    <2>9. AtServer(s) # InList(t)
      BY PlaceNames DEF AtServer, InList
    <2> QED
      BY <1>5, <1>9, <2>4, <2>8, <2>9, Elsewhere
  <1> QED
    BY <1>7, <1>8, <1>9

(* A new object: who has what. *)
LEMMA NewOwner ==
    ASSUME TablesSound, TablesNumbered, NEW s \in Servers, NEW m, NewObject(s, m)
    PROVE  /\ m.req \in Creates
           /\ \A r \in Servers : \A x :
                 x.req \in Creates /\ Owns(r, x)' => Owns(r, x) \/ (r = s /\ AlsoCreates(x, m))
           /\ ~Owns(s, m)
           /\ \A r \in Servers : \A x : Owns(r, x) => Owns(r, x)'
  <1>1. AllMore
    BY ObjectsMore
  <1>2. \A r \in Servers : \A x : Owns(r, x) => Owns(r, x)'
    BY <1>1, OwnsMore
  <1>3. m.req \in Creates /\ ~Owns(s, m)
    BY DEF NewObject, Creates, Owns
  <1>4. ASSUME NEW t, NEW u, NEW y, Keys(t), \A r \in Servers : Numbered(r, t[r]),
               Grows(t, u, s, y), y.name = m.name, NEW r \in Servers, NEW n,
               NEW i \in DOMAIN u[r], u[r][i].name = n
        PROVE  (\E j \in DOMAIN t[r] : t[r][j].name = n) \/ (r = s /\ n = m.name)
    <2>1. IsFiniteSet(DOMAIN t[s]) /\ Numbered(s, t[s])
      BY <1>4 DEF Keys
    <2>2. PICK k : /\ k = NextIndex(s, t[s]) /\ k \notin DOMAIN t[s]
                   /\ DOMAIN u[s] = DOMAIN t[s] \cup {k} /\ u[s][k] = y
                   /\ \A j \in DOMAIN t[s] : u[s][j] = t[s][j]
      BY <1>4, <2>1, TableGrown
    <2>3. CASE r # s
      <3>1. u[r] = t[r]
        BY <1>4, <2>3 DEF Grows
      <3> QED
        BY <1>4, <3>1
    <2>4. CASE r = s
      BY <1>4, <2>2, <2>4
    <2> QED
      BY <2>3, <2>4
  <1>5. /\ Keys(lockTable) /\ Keys(condTable) /\ Keys(mvTable)
        /\ \A r \in Servers : Numbered(r, lockTable[r])
        /\ \A r \in Servers : Numbered(r, condTable[r])
        /\ \A r \in Servers : Numbered(r, mvTable[r])
    BY NumberedAre DEF TablesSound
  <1>6. PICK lt, lu, ct, cu, vt, vu :
            /\ lt = lockTable /\ lu = lockTable' /\ ct = condTable /\ cu = condTable'
            /\ vt = mvTable /\ vu = mvTable'
    OBVIOUS
  <1>7. ASSUME NEW r \in Servers, NEW x, x.req \in Creates, Owns(r, x)', ~Owns(r, x)
        PROVE  r = s /\ AlsoCreates(x, m)
    <2>1. CASE x.req = "CL"
      <3>1. PICK i \in DOMAIN lu[r] : lu[r][i].name = x.name
        BY <1>6, <1>7, <2>1, OwnsNext
      <3>2. ~\E j \in DOMAIN lt[r] : lt[r][j].name = x.name
        BY <1>6, <1>7, <2>1, OwnsIf
      <3>3. lu # lt
        BY <3>1, <3>2
      <3>4. m.req = "CL" /\ \E y : Grows(lt, lu, s, y) /\ y.name = m.name
        BY <1>6, <3>3 DEF NewObject
      <3>5. PICK y : Grows(lt, lu, s, y) /\ y.name = m.name
        BY <3>4
      <3>6. Keys(lt) /\ \A q \in Servers : Numbered(q, lt[q])
        BY <1>5, <1>6
      <3>7. r = s /\ x.name = m.name
        BY <1>4, <3>1, <3>2, <3>5, <3>6
      <3> QED
        BY <2>1, <3>4, <3>7 DEF AlsoCreates
    <2>2. CASE x.req = "CC"
      <3>1. PICK i \in DOMAIN cu[r] : cu[r][i].name = x.name
        BY <1>6, <1>7, <2>2, OwnsNext
      <3>2. ~\E j \in DOMAIN ct[r] : ct[r][j].name = x.name
        BY <1>6, <1>7, <2>2, OwnsIf
      <3>3. cu # ct
        BY <3>1, <3>2
      <3>4. m.req = "CC" /\ \E y : Grows(ct, cu, s, y) /\ y.name = m.name
        BY <1>6, <3>3 DEF NewObject
      <3>5. PICK y : Grows(ct, cu, s, y) /\ y.name = m.name
        BY <3>4
      <3>6. Keys(ct) /\ \A q \in Servers : Numbered(q, ct[q])
        BY <1>5, <1>6
      <3>7. r = s /\ x.name = m.name
        BY <1>4, <3>1, <3>2, <3>5, <3>6
      <3> QED
        BY <2>2, <3>4, <3>7 DEF AlsoCreates
    <2>3. CASE x.req = "CM"
      <3>1. PICK i \in DOMAIN vu[r] : vu[r][i].name = x.name
        BY <1>6, <1>7, <2>3, OwnsNext
      <3>2. ~\E j \in DOMAIN vt[r] : vt[r][j].name = x.name
        BY <1>6, <1>7, <2>3, OwnsIf
      <3>3. vu # vt
        BY <3>1, <3>2
      <3>4. m.req = "CM" /\ \E y : Grows(vt, vu, s, y) /\ y.name = m.name
        BY <1>6, <3>3 DEF NewObject
      <3>5. PICK y : Grows(vt, vu, s, y) /\ y.name = m.name
        BY <3>4
      <3>6. Keys(vt) /\ \A q \in Servers : Numbered(q, vt[q])
        BY <1>5, <1>6
      <3>7. r = s /\ x.name = m.name
        BY <1>4, <3>1, <3>2, <3>5, <3>6
      <3> QED
        BY <2>3, <3>4, <3>7 DEF AlsoCreates
    <2> QED
      BY <1>7, <2>1, <2>2, <2>3 DEF Creates
  <1> QED
    BY <1>2, <1>3, <1>7

LEMMA OwnsAlso ==
    ASSUME NEW x, NEW m, AlsoCreates(x, m), m.req \in Creates
    PROVE  \A r : Owns(r, x) <=> Owns(r, m)
  <1>1. m.req = "CL" \/ m.req = "CC" \/ m.req = "CM"
    BY DEF Creates
  <1>2. x.req = m.req /\ x.name = m.name
    BY DEF AlsoCreates
  <1> QED
    BY <1>1, <1>2, OwnsIf

LEMMA CreatedNames ==
    ASSUME IInv, IInv', Core, OwnNames, NamesSound, NEW s, NEW m \in Message, Taken(s, m),
           At(Requester(m), AtServer(s)), CreatedTurn(s, m), inProgress' = inProgress
    PROVE  NamesSound'
  <1>1. /\ Shape /\ Shape' /\ TablesSound /\ TablesNumbered /\ s \in Servers
        /\ TakesOnly(s) /\ m.id # NoID /\ NewObject(s, m)
    BY CoreParts DEF IInv, Shape, CreatedTurn, Taken
  <1>2. /\ NameOnce
        /\ \A t \in Servers : MailNames(t) /\ FreshNames(t) /\ ListNames(t)
    BY NamesAre
  <1>3. /\ m.req \in Creates
        /\ \A r \in Servers : \A x :
              x.req \in Creates /\ Owns(r, x)' => Owns(r, x) \/ (r = s /\ AlsoCreates(x, m))
        /\ ~Owns(s, m)
        /\ \A r \in Servers : \A x : Owns(r, x) => Owns(r, x)'
    BY <1>1, NewOwner
  <1>4. /\ ServerTakes(s) /\ \A t \in Servers : SameFresh(t)
        /\ \A t, r \in Servers : SameReplies(t, r) /\ SameAsked(t, r)
    BY <1>1, OnlyTakes
  <1>5. m \in RangeOf(mail[Srv(s)])
        /\ \A t \in Servers : RangeOf(mail'[Srv(t)]) \subseteq RangeOf(mail[Srv(t)])
    <2>1. PICK q \in Seq(Message) : q = mail[Srv(s)]
      BY <1>1, MailTyped
    <2>2. RangeOf(q) = {Head(q)} \cup RangeOf(Tail(q)) /\ m = Head(q)
      BY <2>1, RangeTail DEF Taken
    <2>3. ASSUME NEW t \in Servers
          PROVE  RangeOf(mail'[Srv(t)]) \subseteq RangeOf(mail[Srv(t)])
      <3>1. CASE t = s
        BY <1>4, <2>1, <2>2, <3>1 DEF ServerTakes
      <3>2. CASE t # s
        BY <1>4, <3>2 DEF ServerTakes
      <3> QED
        BY <3>1, <3>2
    <2> QED
      BY <2>1, <2>2, <2>3
  <1>6. \A r \in Servers : ~Owns(r, m)
    BY <1>1, <1>2, <1>3, <1>5 DEF MailNames
  <1>7. \A r \in Servers : \A x : AlsoCreates(x, m) => ~Owns(r, x)
    BY <1>3, <1>6, OwnsAlso
  <1>8. \A r \in Servers : \A x :
            x.req \in Creates /\ ~AlsoCreates(x, m) => (Owns(r, x)' <=> Owns(r, x))
    BY <1>3
  <1>9. NameOnce'
    <2>1. ASSUME NEW r \in Servers, NEW t \in Servers, NEW x, x.req \in Creates, Owns(r, x)',
                 Owns(t, x)'
          PROVE  r = t
      <3>1. CASE AlsoCreates(x, m)
        BY <1>3, <1>7, <2>1, <3>1
      <3>2. CASE ~AlsoCreates(x, m)
        <4>1. Owns(r, x) /\ Owns(t, x)
          BY <1>8, <2>1, <3>2
        <4> QED
          BY <1>2, <2>1, <4>1 DEF NameOnce
      <3> QED
        BY <3>1, <3>2
    <2>2. NameOnce' <=> \A r, t \in Servers : \A x :
              x.req \in Creates /\ Owns(r, x)' /\ Owns(t, x)' => r = t
      BY DEF NameOnce
    <2> QED
      BY <2>1, <2>2
  <1>10. ASSUME NEW t \in Servers
         PROVE  /\ \A x \in RangeOf(mail'[Srv(t)]) : ~AlsoCreates(x, m)
                /\ \A x \in RangeOf(Fresh(t)) : ~AlsoCreates(x, m)
                /\ \A e \in RangeOf(inProgress[t]) : Open(t, e) => ~AlsoCreates(e.msg, m)
    BY <1>1, <1>3, <1>4, OnlyPending
  <1>11. ASSUME NEW t \in Servers
         PROVE  MailNames(t)'
    <2>1. ASSUME NEW x \in RangeOf(mail'[Srv(t)]), x.id # NoID, x.req \in Creates
          PROVE  Owns(t, x)' \/ \A r \in Servers : ~Owns(r, x)'
      <3>1. Owns(t, x) \/ \A r \in Servers : ~Owns(r, x)
        BY <1>2, <1>5, <2>1 DEF MailNames
      <3>2. \A r \in Servers : Owns(r, x)' <=> Owns(r, x)
        BY <1>8, <1>10, <2>1
      <3> QED
        BY <3>1, <3>2
    <2> QED
      BY <2>1, MailNamesNext
  <1>12. ASSUME NEW t \in Servers
         PROVE  FreshNames(t)'
    <2>1. ASSUME NEW x \in RangeOf(Fresh(t)'), x.req \in Creates
          PROVE  ~Owns(t, x)'
      <3>1. x \in RangeOf(Fresh(t))
        BY <1>4, <2>1 DEF SameFresh
      <3>2. Owns(t, x)' <=> Owns(t, x)
        BY <1>8, <1>10, <2>1, <3>1
      <3> QED
        BY <1>2, <2>1, <3>1, <3>2 DEF FreshNames
    <2> QED
      BY <2>1, FreshNamesNext
  <1>13. ASSUME NEW t \in Servers
         PROVE  ListNames(t)'
    <2>1. \A d : Said(t, d)' <=> Said(t, d)
      BY <1>4, SaidSame DEF Others
    <2>2. ASSUME NEW e \in RangeOf(inProgress'[t]), e.yes = 0, ~Said(t, e.msg.id)',
                 e.msg.req \in Creates
          PROVE  ~Owns(t, e.msg)' /\ \A r \in Others(t) : Passes(t, r, e)'
      <3>1. e \in RangeOf(inProgress[t])
        BY <2>2
      <3>2. Open(t, e)
        BY <2>1, <2>2 DEF Open
      <3>3. ~AlsoCreates(e.msg, m)
        BY <1>10, <3>1, <3>2
      <3>4. ~Owns(t, e.msg) /\ \A r \in Others(t) : Passes(t, r, e)
        BY <1>2, <2>2, <3>1, <3>2 DEF ListNames
      <3>5. ASSUME NEW r \in Others(t)
            PROVE  Passes(t, r, e)'
        <4>1. r \in Servers
          BY DEF Others
        <4>2. Unheard(t, r, e.msg.id) \/ ~Owns(r, e.msg)
          BY <3>4 DEF Passes
        <4>3. Unheard(t, r, e.msg.id)' <=> Unheard(t, r, e.msg.id)
          BY <1>4, <4>1, UnheardIs DEF SameAsked
        <4>4. Owns(r, e.msg)' <=> Owns(r, e.msg)
          BY <1>8, <2>2, <3>3, <4>1
        <4> QED
          BY <4>2, <4>3, <4>4, PassesNext
      <3>6. Owns(t, e.msg)' <=> Owns(t, e.msg)
        BY <1>8, <2>2, <3>3
      <3> QED
        BY <3>4, <3>5, <3>6
    <2> QED
      BY <2>2, ListNamesNext
  <1> QED
    BY <1>9, <1>11, <1>12, <1>13, NamesNext

(* A Server's other turns. *)
LEMMA TakenNames ==
    ASSUME IInv, NamesSound, NEW s, NEW m \in Message, Taken(s, m), TakesOnly(s), SameObjects,
           inProgress' = inProgress
    PROVE  NamesSound'
  <1>1. Shape /\ s \in Servers /\ mail[Srv(s)] # << >>
    BY DEF IInv, Taken
  <1>2. /\ NameOnce
        /\ \A t \in Servers : MailNames(t) /\ FreshNames(t) /\ ListNames(t)
    BY NamesAre
  <1>3. /\ ServerTakes(s) /\ \A t \in Servers : SameFresh(t)
        /\ \A t, r \in Servers : SameReplies(t, r) /\ SameAsked(t, r)
    BY <1>1, OnlyTakes
  <1>4. OwnsKept /\ NameOnce'
    BY <1>2, ObjectsOwn, NameOnceKept
  <1>5. \A t \in Servers : MailNames(t)'
    BY <1>1, <1>2, <1>3, <1>4, MailNamesTaken
  <1>6. \A t \in Servers : FreshNames(t)'
    BY <1>2, <1>3, <1>4, FreshNamesSame
  <1>7. \A t \in Servers : ListNames(t)'
    BY <1>2, <1>3, <1>4, ListNamesSame
  <1> QED
    BY <1>4, <1>5, <1>6, <1>7, NamesNext

LEMMA PassedNames ==
    ASSUME IInv, NamesSound, NEW s, NEW m \in Message, Taken(s, m), PassedTurn(s, m),
           inProgress' = inProgress
    PROVE  NamesSound'
  <1>1. Shape /\ s \in Servers /\ mail[Srv(s)] # << >>
    BY DEF IInv, Taken
  <1>2. /\ NameOnce
        /\ \A t \in Servers : MailNames(t) /\ FreshNames(t) /\ ListNames(t)
    BY NamesAre
  <1>3. OwnsKept /\ NameOnce' /\ (m.req \in Creates => ~Owns(s, m))
    BY <1>2, TablesOwn, NameOnceKept DEF PassedTurn
  <1>4. PICK x \in Message : /\ TakesAndPasses(s, x) /\ x.from = Srv(s) /\ Key(x) = Key(m)
    BY DEF PassedTurn
  <1>5. /\ ServerTakes(s) /\ Fresh(s)' = Append(Fresh(s), x)
        /\ \A t \in Servers \ {s} : SameFresh(t)
        /\ \A t, r \in Servers : SameReplies(t, r) /\ SameAsked(t, r)
    BY <1>1, <1>4, PassedMail
  <1>6. x.req \in Creates => ~Owns(s, x)
    <2>1. x.req = m.req
      BY <1>4 DEF Key
    <2> QED
      BY <1>3, <1>4, <2>1, OwnsKey
  <1>7. \A t \in Servers : MailNames(t)'
    BY <1>1, <1>2, <1>3, <1>5, MailNamesTaken
  <1>8. \A t \in Servers : FreshNames(t)'
    BY <1>1, <1>2, <1>3, <1>5, <1>6, FreshNamesGot
  <1>9. \A t \in Servers : ListNames(t)'
    BY <1>2, <1>3, <1>5, ListNamesSame
  <1> QED
    BY <1>3, <1>7, <1>8, <1>9, NamesNext

LEMMA ServerTurnNames ==
    ASSUME IInv, IInv', Core, OwnNames, NamesSound, NEW s \in Servers, Server(s)
    PROVE  NamesSound'
  <1>1. Shape /\ Shape' /\ SmallMail
    BY CoreParts DEF IInv
  <1>2. /\ \E m \in Message : Taken(s, m) /\ Turn(s, m)
        /\ UNCHANGED <<inProgress, blocked, program, request, calls, held>>
    BY <1>1, ServerTurns
  <1>3. PICK m \in Message : Taken(s, m) /\ Turn(s, m)
    BY <1>2
  <1>4. inProgress' = inProgress /\ RequestsSame /\ program' = program
    BY <1>2 DEF RequestsSame
  <1>5. At(Requester(m), AtServer(s))
    BY <1>1, <1>3, <1>4, ServerCore
  <1>6. CASE CreatedTurn(s, m)
    BY <1>3, <1>4, <1>5, <1>6, CreatedNames
  <1>7. CASE PassedTurn(s, m)
    BY <1>3, <1>4, <1>7, PassedNames
  <1>8. CASE ~CreatedTurn(s, m) /\ ~PassedTurn(s, m)
    <2>1. TakesOnly(s) /\ SameObjects
      BY <1>3, <1>8 DEF Turn, AnsweredTurn, GrantedTurn, FreedTurn, HandedTurn, QueuedTurn
    <2> QED
      BY <1>3, <1>4, <2>1, TakenNames
  <1> QED
    BY <1>6, <1>7, <1>8

LEMMA RelayedNames ==
    ASSUME IInv, IInv', NamesSound, NEW s \in Servers, RelayedTurn(s), UNCHANGED tables
    PROVE  NamesSound'
  <1>1. PICK m \in Passed, x \in Message :
        /\ Handles(s, m) /\ Copy(x, m)
        /\ Fresh(s) = <<m>> \o Fresh(s)' /\ \A t \in Servers \ {s} : SameFresh(t)
        /\ \A t, r \in Servers : SameReplies(t, r)
        /\ \A r \in Others(s) : Asked(s, r)' = Append(Asked(s, r), x)
        /\ \A t \in Servers \ {s}, r \in Servers : SameAsked(t, r)
        /\ inProgress' = [inProgress EXCEPT ![s] = Append(@, [msg |-> m, yes |-> 0, no |-> 0])]
        /\ ServersQuiet
    BY DEF RelayedTurn
  <1>2. /\ Shape /\ Shape' /\ inProgress = [t \in Servers |-> inProgress[t]] /\ m \in Message
    BY DEF IInv, Shape, Passed
  <1>3. /\ NameOnce
        /\ \A t \in Servers : MailNames(t) /\ FreshNames(t) /\ ListNames(t)
    BY NamesAre
  <1>4. OwnsKept /\ NameOnce'
    BY <1>3, TablesOwn, NameOnceKept
  <1>5. \A t \in Servers : MailNames(t)'
    BY <1>1, <1>3, <1>4, MailNamesQuiet
  <1>6. \A t \in Servers : FreshNames(t)'
    BY <1>1, <1>2, <1>3, <1>4, FreshNamesTaken
  <1>7. PICK e : e = [msg |-> m, yes |-> 0, no |-> 0]
    OBVIOUS
  <1>8. e \in Entry /\ e.msg = m
    BY <1>7 DEF Entry
  <1>9. inProgress'[s] = Append(inProgress[s], e)
        /\ \A t \in Servers \ {s} : inProgress'[t] = inProgress[t]
    BY <1>1, <1>2, <1>7
  <1>10. CASE m.req \in Creates
    <2>1. ~Owns(s, e.msg) /\ x.id = e.msg.id
      <3>1. m \in RangeOf(Fresh(s))
        BY <1>1, <1>2, FreshFirst
      <3> QED
        BY <1>1, <1>3, <1>8, <1>10, <3>1 DEF FreshNames, Copy
    <2>2. \A r \in Others(s) : Asked(s, r)' = Append(Asked(s, r), x) /\ SameReplies(s, r)
      BY <1>1 DEF Others
    <2>3. ListNames(s)'
      BY <1>3, <1>4, <1>8, <1>9, <2>1, <2>2, ListNamesRelayed
    <2>4. \A t \in Servers \ {s} : ListNames(t)'
      BY <1>1, <1>3, <1>4, <1>9, ListNamesSame
    <2> QED
      BY <1>4, <1>5, <1>6, <2>3, <2>4, NamesNext
  <1>11. CASE m.req \notin Creates
    <2>1. ListNames(s)'
      <3>1. inProgress[s] \in Seq(Entry)
        BY <1>2, QueuesTyped
      <3>2. RangeOf(inProgress'[s]) = RangeOf(inProgress[s]) \cup {e}
        BY <1>8, <1>9, <3>1, RangeAppend
      <3>3. \A d : Said(s, d)' <=> Said(s, d)
        BY <1>1, SaidSame DEF Others
      <3>4. ASSUME NEW f \in RangeOf(inProgress'[s]), f.yes = 0, ~Said(s, f.msg.id)',
                   f.msg.req \in Creates
            PROVE  ~Owns(s, f.msg)' /\ \A r \in Others(s) : Passes(s, r, f)'
        <4>1. f # e
          BY <1>8, <1>11, <3>4
        <4>2. f \in RangeOf(inProgress[s]) /\ Open(s, f)
          BY <3>2, <3>3, <3>4, <4>1 DEF Open
        <4>3. ~Owns(s, f.msg) /\ \A r \in Others(s) : Passes(s, r, f)
          BY <1>3, <3>4, <4>2 DEF ListNames
        <4>4. ASSUME NEW r \in Others(s)
              PROVE  Passes(s, r, f)'
          <5>1. r \in Servers /\ (Unheard(s, r, f.msg.id) \/ ~Owns(r, f.msg))
            BY <4>3 DEF Passes, Others
          <5>2. Unheard(s, r, f.msg.id) => Unheard(s, r, f.msg.id)'
            <6>1. Asked(s, r) \in Seq(Message)
              BY <1>2, <5>1, QueuesTyped
            <6>2. RangeOf(Asked(s, r)') = RangeOf(Asked(s, r)) \cup {x}
              BY <1>1, <6>1, RangeAppend, ZenonT(60)
            <6> QED
              BY <6>2, UnheardIs
          <5> QED
            BY <1>4, <5>1, <5>2, PassesNext DEF OwnsKept
        <4> QED
          BY <1>4, <4>3, <4>4 DEF OwnsKept
      <3> QED
        BY <3>4, ListNamesNext
    <2>2. \A t \in Servers \ {s} : ListNames(t)'
      BY <1>1, <1>3, <1>4, <1>9, ListNamesSame
    <2> QED
      BY <1>4, <1>5, <1>6, <2>1, <2>2, NamesNext
  <1> QED
    BY <1>10, <1>11

LEMMA BackNames ==
    ASSUME IInv, IInv', NamesSound, NEW s \in Servers, BackTurn(s), UNCHANGED tables
    PROVE  NamesSound'
  <1>1. PICK m \in Message, y \in Message :
        /\ Handles(s, m) /\ Copy(y, m)
        /\ Fresh(s) = <<m>> \o Fresh(s)' /\ Others(s) = {}
        /\ inProgress' = inProgress
        /\ ServerGets(s, y)
    BY DEF BackTurn
  <1>2. Shape /\ Shape' /\ \A t \in Servers : t = s
    BY <1>1 DEF IInv, Others
  <1>3. /\ NameOnce
        /\ \A t \in Servers : MailNames(t) /\ FreshNames(t) /\ ListNames(t)
    BY NamesAre
  <1>4. OwnsKept /\ NameOnce'
    BY <1>3, TablesOwn, NameOnceKept
  <1>5. \A t \in Servers : FreshNames(t)'
    BY <1>1, <1>2, <1>3, <1>4, FreshNamesTaken
  <1>6. m \in RangeOf(Fresh(s))
    BY <1>1, <1>2, FreshFirst
  <1>7. y.req \in Creates => \A t \in Servers : ~Owns(t, y)
    <2>1. y.req = m.req
      BY <1>1 DEF Copy, Key
    <2>2. m.req \in Creates => ~Owns(s, m)
      BY <1>3, <1>6 DEF FreshNames
    <2>3. y.req \in Creates => ~Owns(s, y)
      BY <1>1, <2>1, <2>2, OwnsKey DEF Copy
    <2> QED
      BY <1>2, <2>3
  <1>8. \A t \in Servers : MailNames(t)'
    BY <1>1, <1>2, <1>3, <1>4, <1>7, MailNamesGot
  <1>9. \A t \in Servers : ListNames(t)'
    <2>1. \A d : ~Said(s, d)
      BY <1>1 DEF Said
    <2>2. ASSUME NEW e \in RangeOf(inProgress'[s]), e.yes = 0, ~Said(s, e.msg.id)',
                 e.msg.req \in Creates
          PROVE  ~Owns(s, e.msg)' /\ \A r \in Others(s) : Passes(s, r, e)'
      <3>1. e \in RangeOf(inProgress[s]) /\ Open(s, e)
        BY <1>1, <2>1, <2>2 DEF Open
      <3>2. ~Owns(s, e.msg)
        BY <1>3, <2>2, <3>1 DEF ListNames
      <3> QED
        BY <1>1, <1>4, <3>2 DEF OwnsKept
    <2>3. ListNames(s)'
      BY <2>2, ListNamesNext
    <2> QED
      BY <1>2, <2>3
  <1> QED
    BY <1>4, <1>5, <1>8, <1>9, NamesNext

LEMMA AskedNames ==
    ASSUME IInv, IInv', Core, NamesSound, NEW r \in Servers, NEW s \in Servers \ {r},
           AskedTurn(r, s), UNCHANGED tables
    PROVE  NamesSound'
  <1>1. PICK m \in Message, y \in Message :
        /\ Asked(s, r) = <<m>> \o Asked(s, r)'
        /\ Replies(s, r)' = Append(Replies(s, r), y) /\ y.id = m.id /\ y.client = m.client
        /\ \A t \in Servers : SameFresh(t)
        /\ \A t, u \in Servers : ~(t = s /\ u = r) => SameReplies(t, u) /\ SameAsked(t, u)
        /\ inProgress' = inProgress /\ SilentMail
        /\ \/ /\ Owns(r, m) /\ y.req = "YS"
              /\ \E z \in Message : Copy(z, m) /\ z.from = Hdl(r) /\ ServerGets(r, z)
           \/ ~Owns(r, m) /\ y.req = "NO" /\ ServersQuiet
    BY DEF AskedTurn
  <1>2. /\ Shape /\ Shape' /\ r \in Others(s)
    BY DEF IInv, Others
  <1>3. /\ NameOnce
        /\ \A t \in Servers : MailNames(t) /\ FreshNames(t) /\ ListNames(t)
    BY NamesAre
  <1>4. OwnsKept /\ NameOnce'
    BY <1>3, TablesOwn, NameOnceKept
  <1>5. \A t \in Servers : FreshNames(t)'
    BY <1>1, <1>3, <1>4, FreshNamesSame
  <1>6. /\ m \in RangeOf(Asked(s, r)) /\ RangeOf(Asked(s, r)) = {m} \cup RangeOf(Asked(s, r)')
    BY <1>1, <1>2, AskedFirst
  <1>7. \A t \in Others(s) \ {r} : SameAsked(s, t) /\ SameReplies(s, t)
    BY <1>1 DEF Others
  <1>8. y.req = "YS" \/ ~Owns(r, m)
    BY <1>1
  <1>9. ListNames(s)'
    <2>1. inProgress'[s] = inProgress[s] /\ ListNames(s)
      BY <1>1, <1>3
    <2>2. Replies(s, r)' = Append(Replies(s, r), y) /\ y.id = m.id
      BY <1>1
    <2> QED
      BY <1>2, <1>4, <1>6, <1>7, <1>8, <2>1, <2>2, ListNamesAsked
  <1>10. \A t \in Servers \ {s} : ListNames(t)'
    BY <1>1, <1>3, <1>4, ListNamesSame
  <1>11. \A t \in Servers : MailNames(t)'
    <2>1. CASE ServersQuiet
      BY <1>3, <1>4, <2>1, MailNamesQuiet
    <2>2. ASSUME NEW z \in Message, Owns(r, m), Copy(z, m), ServerGets(r, z)
          PROVE  \A t \in Servers : MailNames(t)'
      <3>1. Owns(r, z)
        BY <2>2, OwnsKey DEF Copy
      <3> QED
        BY <1>2, <1>3, <1>4, <2>2, <3>1, MailNamesGot
    <2> QED
      BY <1>1, <2>1, <2>2
  <1> QED
    BY <1>4, <1>5, <1>9, <1>10, <1>11, NamesNext

LEMMA CountedNames ==
    ASSUME IInv, IInv', Core, NamesSound, NEW s \in Servers, CountedTurn(s), UNCHANGED tables
    PROVE  NamesSound'
  <1>1. PICK r \in Others(s), m \in Message : \E Q :
        /\ Replies(s, r) = <<m>> \o Replies(s, r)'
        /\ \A t \in Servers : SameFresh(t)
        /\ \A t, u \in Servers : SameAsked(t, u) /\ (~(t = s /\ u = r) => SameReplies(t, u))
        /\ Counts(inProgress[s], m.id, Q) /\ YesCounts(inProgress[s], m, Q)
        /\ \/ inProgress' = [inProgress EXCEPT ![s] = Q] /\ ServersQuiet
           \/ /\ inProgress' = [inProgress EXCEPT ![s] = Tail(Q)] /\ Q # << >>
              /\ \/ ServersQuiet
                 \/ /\ Q[1].yes = 0
                    /\ \E y \in Message : Copy(y, Q[1].msg) /\ ServerGets(s, y)
    BY SMTT(30) DEF CountedTurn
  <1>2. PICK Q :
        /\ Replies(s, r) = <<m>> \o Replies(s, r)'
        /\ \A t \in Servers : SameFresh(t)
        /\ \A t, u \in Servers : SameAsked(t, u) /\ (~(t = s /\ u = r) => SameReplies(t, u))
        /\ Counts(inProgress[s], m.id, Q) /\ YesCounts(inProgress[s], m, Q)
        /\ \/ inProgress' = [inProgress EXCEPT ![s] = Q] /\ ServersQuiet
           \/ /\ inProgress' = [inProgress EXCEPT ![s] = Tail(Q)] /\ Q # << >>
              /\ \/ ServersQuiet
                 \/ /\ Q[1].yes = 0
                    /\ \E y \in Message : Copy(y, Q[1].msg) /\ ServerGets(s, y)
    BY <1>1
  <1>3. PICK P : P = inProgress[s]
    OBVIOUS
  <1>4. Shape /\ Shape' /\ inProgress = [t \in Servers |-> inProgress[t]]
    BY DEF IInv, Shape
  <1>5. CountsReply(s, r, m, P, Q)
    BY <1>2, <1>3, <1>4, CountedReply
  <1>6. \A t \in Servers \ {s} : inProgress'[t] = inProgress[t]
    BY <1>2, <1>4
  <1>7. Rest(Q, inProgress'[s])
    BY <1>2, <1>4 DEF Rest
  <1>8. \A t \in Others(s) : SameAsked(s, t)
    BY <1>2 DEF Others
  <1>9. /\ NameOnce
        /\ \A t \in Servers : MailNames(t) /\ FreshNames(t) /\ ListNames(t)
    BY NamesAre
  <1>10. OwnsKept /\ NameOnce'
    BY <1>9, TablesOwn, NameOnceKept
  <1>11. \A t \in Servers : FreshNames(t)'
    BY <1>2, <1>9, <1>10, FreshNamesSame
  <1>12. ListNames(s) /\ ListNames(s)'
    BY <1>4, <1>5, <1>7, <1>8, <1>9, <1>10, ListNamesCounted
  <1>13. \A t \in Servers \ {s} : ListNames(t)'
    <2>1. \A t \in Servers \ {s}, u \in Servers : SameReplies(t, u) /\ SameAsked(t, u)
      BY <1>2
    <2> QED
      BY <1>6, <1>9, <1>10, <2>1, ListNamesSame
  <1>14. \A t \in Servers : MailNames(t)'
    <2>1. CASE ServersQuiet
      BY <1>9, <1>10, <2>1, MailNamesQuiet
    <2>2. ASSUME inProgress' = [inProgress EXCEPT ![s] = Tail(Q)], Q # << >>, Q[1].yes = 0,
                 NEW y \in Message, Copy(y, Q[1].msg), ServerGets(s, y)
          PROVE  \A t \in Servers : MailNames(t)'
      <3>1. inProgress'[s] = Tail(Q)
        BY <1>4, <2>2
      <3>2. Q[1].msg.req \in Creates => \A t \in Servers : ~Owns(t, Q[1].msg)
        BY <1>5, <1>8, <1>12, <2>2, <3>1, HeadUnnamed
      <3>3. y.req \in Creates => \A t \in Servers : ~Owns(t, y)
        <4>1. y.req = Q[1].msg.req
          BY <2>2 DEF Copy, Key
        <4> QED
          BY <2>2, <3>2, <4>1, OwnsKey DEF Copy
      <3> QED
        BY <1>4, <1>9, <1>10, <2>2, <3>3, MailNamesGot
    <2> QED
      BY <1>2, <2>1, <2>2
  <1> QED
    BY <1>10, <1>11, <1>12, <1>13, <1>14, NamesNext

LEMMA HandlerTurnNames ==
    ASSUME IInv, IInv', Core, NamesSound, NEW r \in Servers, MessageHandler(r)
    PROVE  NamesSound'
  <1>1. Shape /\ SmallMail
    BY CoreParts DEF IInv
  <1>2. UNCHANGED tables
    BY DEF MessageHandler, Relay, Ask, CountReply
  <1>3. CASE Relay(r) /\ NumServers # 1
    BY <1>1, <1>2, <1>3, RelayedTurns, RelayedNames
  <1>4. CASE Relay(r) /\ NumServers = 1
    BY <1>1, <1>2, <1>4, BackTurns, BackNames
  <1>5. CASE Ask(r)
    <2>1. PICK s \in Servers \ {r} : AskedTurn(r, s)
      BY <1>1, <1>5, AskedTurns
    <2> QED
      BY <1>2, <2>1, AskedNames
  <1>6. CASE CountReply(r)
    BY <1>1, <1>2, <1>6, CountedTurns, CountedNames
  <1> QED
    BY <1>3, <1>4, <1>5, <1>6 DEF MessageHandler

(* Calls and returns change neither the handlers' mail nor the tables. *)
LEMMA ClientNames ==
    ASSUME NamesSound, HandlersQuiet, UNCHANGED <<tables, inProgress>>,
           OwnsKept => \A t \in Servers : MailNames(t)'
    PROVE  NamesSound'
  <1>1. /\ NameOnce
        /\ \A t \in Servers : MailNames(t) /\ FreshNames(t) /\ ListNames(t)
    BY NamesAre
  <1>2. UNCHANGED tables /\ inProgress' = inProgress
    OBVIOUS
  <1>3. OwnsKept /\ NameOnce'
    BY <1>1, <1>2, TablesOwn, NameOnceKept
  <1>4. /\ \A t \in Servers : SameFresh(t)
        /\ \A t, r \in Servers : SameReplies(t, r) /\ SameAsked(t, r)
    BY QuietClients
  <1>5. \A t \in Servers : FreshNames(t)'
    BY <1>1, <1>3, <1>4, FreshNamesSame
  <1>6. \A t \in Servers : ListNames(t)'
    BY <1>1, <1>2, <1>3, <1>4, ListNamesSame
  <1> QED
    BY <1>3, <1>5, <1>6, NamesNext

LEMMA CallNames ==
    ASSUME IInv, IInv', NamesSound, NEW c \in Clients, Call(c)
    PROVE  NamesSound'
  <1>1. /\ CalledTurn(c) /\ HandlersQuiet /\ UNCHANGED <<tables, inProgress>>
        /\ Shape /\ Shape'
    BY CalledTurns DEF IInv
  <1>2. PICK s \in Servers, m \in Message : m.client = Nobody /\ ServerGets(s, m)
    BY <1>1 DEF CalledTurn
  <1>3. m.id = NoID
    <2>1. mail'[Srv(s)] \in Seq(ToServer)
      BY <1>1 DEF Shape
    <2>2. mail[Srv(s)] \in Seq(Message)
      BY <1>1, MailTyped
    <2>3. RangeOf(mail'[Srv(s)]) = RangeOf(mail[Srv(s)]) \cup {m}
      BY <1>2, <2>2, RangeAppend DEF ServerGets
    <2>4. m \in ToServer
      BY <2>1, <2>3, RangeTyped
    <2> QED
      BY <1>2, <2>4, BoxNames DEF ToServer
  <1>4. ASSUME OwnsKept
        PROVE  \A t \in Servers : MailNames(t)'
    <2>1. \A t \in Servers : MailNames(t)
      BY NamesAre
    <2> QED
      BY <1>1, <1>2, <1>3, <1>4, <2>1, MailNamesGot
  <1> QED
    BY <1>1, <1>4, ClientNames

LEMMA ReturnNames ==
    ASSUME IInv, Core, NamesSound, NEW c \in Clients, Return(c)
    PROVE  NamesSound'
  <1>1. Shape /\ SmallMail /\ CallSound(c)
    BY CoreParts DEF IInv
  <1>2. request[c].req \in PlainCalls
    BY <1>1 DEF Return, CallSound
  <1>3. ReturnedTurn(c) /\ HandlersQuiet /\ UNCHANGED <<tables, inProgress>>
    BY <1>1, <1>2, ReturnedTurns
  <1>4. ASSUME OwnsKept
        PROVE  \A t \in Servers : MailNames(t)'
    <2>1. ServersQuiet /\ \A t \in Servers : MailNames(t)
      BY <1>3, NamesAre DEF ReturnedTurn
    <2> QED
      BY <1>4, <2>1, MailNamesQuiet
  <1> QED
    BY <1>3, <1>4, ClientNames

LEMMA NamesKept ==
    ASSUME IInv, Core, OwnNames, NamesSound, Next
    PROVE  NamesSound'
  <1>1. IInv'
    BY NextKeeps
  <1>2. ASSUME NEW s \in Servers, Server(s)
        PROVE  NamesSound'
    BY <1>1, <1>2, ServerTurnNames
  <1>3. ASSUME NEW s \in Servers, MessageHandler(s)
        PROVE  NamesSound'
    BY <1>1, <1>3, HandlerTurnNames
  <1>4. ASSUME NEW c \in Clients, Call(c)
        PROVE  NamesSound'
    BY <1>1, <1>4, CallNames
  <1>5. ASSUME NEW c \in Clients, Return(c)
        PROVE  NamesSound'
    BY <1>1, <1>5, ReturnNames
  <1> QED
    BY <1>2, <1>3, <1>4, <1>5 DEF Next

LEMMA NamesStutter ==
    ASSUME NamesSound, UNCHANGED vars
    PROVE  NamesSound'
  <1>1. mail' = mail /\ UNCHANGED tables /\ inProgress' = inProgress
    BY DEF vars, tables
  <1>2. HandlersQuiet /\ ServersQuiet /\ UNCHANGED <<tables, inProgress>>
    BY <1>1 DEF HandlersQuiet, ServersQuiet
  <1>3. ASSUME OwnsKept
        PROVE  \A t \in Servers : MailNames(t)'
    <2>1. \A t \in Servers : MailNames(t)
      BY NamesAre
    <2> QED
      BY <1>2, <1>3, <2>1, MailNamesQuiet
  <1> QED
    BY <1>2, <1>3, ClientNames

LEMMA NamesAtFirst ==
    ASSUME Init
    PROVE  NamesSound
  <1>1. /\ \A b \in Boxes : mail[b] = << >>
        /\ \A s \in Servers : /\ lockTable[s] = << >> /\ condTable[s] = << >>
                              /\ mvTable[s] = << >> /\ inProgress[s] = << >>
    BY DEF Init, Nothing
  <1>2. \A s \in Servers : mail[Srv(s)] = << >> /\ Fresh(s) = << >>
    BY <1>1, BoxNames, FilterEmpty DEF Fresh
  <1>3. \A t \in Servers : MailNames(t) /\ FreshNames(t) /\ ListNames(t)
    BY <1>1, <1>2, RangeEmpty DEF MailNames, FreshNames, ListNames
  <1>4. OneObjectPerName
    BY <1>1 DEF OneObjectPerName
  <1> QED
    BY <1>3, <1>4, NamesOnce, NamesAre

(* The program never changes. *)
LEMMA ProgramKept ==
    ASSUME [Next]_vars
    PROVE  program' = program
  <1>1. ASSUME NEW s \in Servers, Server(s)
        PROVE  program' = program
    BY <1>1 DEF Server, Serve, CreateLock, DestroyLock, Acquire, Release, CreateCondition,
                DestroyCondition, Wait, Signal, Broadcast, CreateMV, DestroyMV, GetMV, SetMV,
                WaitResumes, clientVars
  <1>2. ASSUME NEW s \in Servers, MessageHandler(s)
        PROVE  program' = program
    BY <1>2 DEF MessageHandler, Relay, Ask, CountReply, clientVars
  <1>3. ASSUME NEW c \in Clients, Call(c) \/ Return(c)
        PROVE  program' = program
    BY <1>3 DEF Call, Return
  <1> QED
    BY <1>1, <1>2, <1>3 DEF Next, vars

-----------------------------------------------------------------------------
(* Who owns the locks. *)

(* Nobody's mailbox has the number 9, whose requests any Server would serve. *)
NobodyAtNine == program.nine = {}

(* After the step, c owns the lock i. *)
WillOwn(c, i) == \E s \in Servers : i \in DOMAIN lockTable'[s] /\ lockTable'[s][i].owner = c

OwnersKept == \A c \in Clients : \A i : Owned(c, i) => WillOwn(c, i)

LEMMA OwnersSame ==
    ASSUME SameObjects, LocksKept
    PROVE  OwnersKept
  <1>1. ASSUME NEW c \in Clients, NEW i, Owned(c, i)
        PROVE  WillOwn(c, i)
    <2>1. PICK s \in Servers : i \in DOMAIN lockTable[s] /\ lockTable[s][i].owner = c
      BY <1>1 DEF Owned
    <2>2. i \in DOMAIN lockTable'[s] /\ lockTable'[s][i].owner = c
      BY <2>1 DEF SameObjects, SameNames, LocksKept, LockKept
    <2> QED
      BY <2>2, Zenon DEF WillOwn
  <1> QED
    BY <1>1 DEF OwnersKept

LEMMA OwnersGrow ==
    ASSUME TablesSound, TablesNumbered, NEW s \in Servers, NEW m, NewObject(s, m)
    PROVE  OwnersKept
  <1>1. PICK t, u : t = lockTable /\ u = lockTable'
    OBVIOUS
  <1>2. CASE u = t
    <2>1. \A c, i : WillOwn(c, i) <=> Owned(c, i)
      BY <1>1, <1>2, Zenon DEF WillOwn, Owned
    <2> QED
      BY <2>1 DEF OwnersKept
  <1>3. CASE u # t
    <2>1. \E x : Grows(t, u, s, x)
      BY <1>1, <1>3 DEF NewObject
    <2>2. PICK x : Grows(t, u, s, x)
      BY <2>1
    <2>3. IsFiniteSet(DOMAIN t[s]) /\ Numbered(s, t[s])
      BY <1>1 DEF TablesSound, Keys, TablesNumbered
    <2>4. PICK n : /\ n = NextIndex(s, t[s]) /\ n \notin DOMAIN t[s]
                   /\ DOMAIN u[s] = DOMAIN t[s] \cup {n} /\ u[s][n] = x
                   /\ \A i \in DOMAIN t[s] : u[s][i] = t[s][i]
      BY <2>2, <2>3, TableGrown
    <2>5. \A r \in Servers \ {s} : u[r] = t[r]
      BY <2>2 DEF Grows
    <2>6. ASSUME NEW c \in Clients, NEW i, Owned(c, i)
          PROVE  WillOwn(c, i)
      <3>1. PICK r \in Servers : i \in DOMAIN t[r] /\ t[r][i].owner = c
        BY <1>1, <2>6 DEF Owned
      <3>2. i \in DOMAIN u[r] /\ u[r][i].owner = c
        <4>1. CASE r = s
          BY <2>4, <3>1, <4>1
        <4>2. CASE r # s
          BY <2>5, <3>1, <4>2
        <4> QED
          BY <4>1, <4>2
      <3> QED
        BY <1>1, <3>2, Zenon DEF WillOwn
    <2> QED
      BY <2>6 DEF OwnersKept
  <1> QED
    BY <1>2, <1>3

LEMMA OwnerBecomes ==
    ASSUME SameObjects, NEW s \in Servers, NEW i, NEW c, NEW q, LockBecomes(s, i, c, q)
    PROVE  /\ WillOwn(c, i)
           /\ \A d, j : Owned(d, j) /\ ~(d = lockTable[s][i].owner /\ j = i) => WillOwn(d, j)
  <1>1. i \in DOMAIN lockTable[s] /\ lockTable'[s][i].owner = c /\ i \in DOMAIN lockTable'[s]
    BY DEF SameObjects, SameNames, LockBecomes
  <1>2. ASSUME NEW d, NEW j, Owned(d, j), ~(d = lockTable[s][i].owner /\ j = i)
        PROVE  WillOwn(d, j)
    <2>1. PICK r \in Servers : j \in DOMAIN lockTable[r] /\ lockTable[r][j].owner = d
      BY <1>2 DEF Owned
    <2>2. r # s \/ j # i
      BY <1>2, <2>1
    <2>3. j \in DOMAIN lockTable'[r] /\ lockTable'[r][j].owner = d
      BY <2>1, <2>2 DEF SameObjects, SameNames, LockBecomes, LockKept
    <2> QED
      BY <2>3, Zenon DEF WillOwn
  <1> QED
    BY <1>1, <1>2, Zenon DEF WillOwn

LEMMA TakenInMail ==
    ASSUME Shape, NEW s \in Servers, NEW m \in Message, Taken(s, m)
    PROVE  m \in RangeOf(mail[Srv(s)])
  <1>1. PICK q \in Seq(Message) : q = mail[Srv(s)]
    BY MailTyped
  <1>2. q # << >> /\ m = Head(q)
    BY <1>1 DEF Taken
  <1>3. RangeOf(q) = {Head(q)} \cup RangeOf(Tail(q))
    BY <1>1, <1>2, RangeTail
  <1> QED
    BY <1>1, <1>2, <1>3

(* Who releases a lock owns it. *)
LEMMA ReleaserOwns ==
    ASSUME Shape, NobodyAtNine, NEW s \in Servers, ServerCopies(s), NEW m \in Message,
           Taken(s, m), m.idx \in DOMAIN lockTable[s], MayRelease(lockTable[s][m.idx], m)
    PROVE  lockTable[s][m.idx].owner = Requester(m)
  <1>1. PICK c \in Clients : c = Requester(m)
    BY DEF Taken
  <1>2. ~InBox9(c)
    <2>1. \A r \in Servers : Ret(r) \notin Clients
      BY LockServersAssumption DEF LockServersAssumption, Ret
    <2> QED
      BY <2>1 DEF InBox9, NobodyAtNine
  <1>3. lockTable[s][m.idx].owner \in {m.from, c}
    BY <1>1, <1>2 DEF MayRelease
  <1>4. lockTable[s][m.idx].owner \in Clients \cup {Nobody}
    BY IndexesOf DEF Shape
  <1>5. CASE m.client = Nobody
    BY <1>1, <1>3, <1>5 DEF Requester
  <1>6. CASE m.client # Nobody
    <2>1. m \in RangeOf(mail[Srv(s)])
      BY TakenInMail
    <2>2. m.from = Hdl(s)
      BY <1>6, <2>1 DEF ServerCopies
    <2>3. Hdl(s) \notin Clients /\ Hdl(s) # Nobody
      BY LockServersAssumption DEF LockServersAssumption, Hdl
    <2> QED
      BY <1>1, <1>3, <1>4, <2>2, <2>3
  <1> QED
    BY <1>5, <1>6

(* What clients hold, and what they are told. *)
Told(c) ==
    request[c] # NoMsg /\ request[c].req = "AQ" /\ mail[c] # << >> /\ Head(mail[c]).idx # ErrorCode

LEMMA ToldNext ==
    \A c : Told(c)' <=> /\ request'[c] # NoMsg /\ request'[c].req = "AQ" /\ mail'[c] # << >>
                        /\ Head(mail'[c]).idx # ErrorCode
  BY DEF Told

(* What is known of the locks of c. *)
Holds(c) ==
    /\ \A i \in held[c] : Owned(c, i)
    /\ request[c] # NoMsg /\ request[c].req = "RL" => request[c].idx \notin held[c]
    /\ Told(c) => Owned(c, request[c].idx)

LEMMA HoldsAre == HoldsSound <=> \A c \in Clients : Holds(c)
  <1>1. \A c : Told(c) <=> /\ request[c] # NoMsg /\ request[c].req = "AQ" /\ mail[c] # << >>
                           /\ Head(mail[c]).idx # ErrorCode
    BY DEF Told
  <1>2. \A c : Holds(c) <=>
            /\ \A i \in held[c] : Owned(c, i)
            /\ request[c] # NoMsg /\ request[c].req = "RL" => request[c].idx \notin held[c]
            /\ Told(c) => Owned(c, request[c].idx)
    BY DEF Holds
  <1> QED
    BY <1>1, <1>2, Zenon DEF HoldsSound

LEMMA HoldsAreNext == (HoldsSound <=> \A c \in Clients : Holds(c))'
  BY HoldsAre, PTL

LEMMA HoldsNext ==
    \A c : Holds(c)' <=>
        /\ \A i \in held'[c] : WillOwn(c, i)
        /\ request'[c] # NoMsg /\ request'[c].req = "RL" => request'[c].idx \notin held'[c]
        /\ Told(c)' => WillOwn(c, request'[c].idx)
  BY Zenon DEF Holds, Owned, WillOwn

(* A step that is no call or return. *)
LEMMA HoldsServed ==
    ASSUME HoldsSound, RequestsSame, held' = held,
           \A c \in Clients : /\ \A i \in held[c] : WillOwn(c, i)
                              /\ Told(c)' => WillOwn(c, request[c].idx)
    PROVE  HoldsSound'
  <1>1. ASSUME NEW c \in Clients
        PROVE  Holds(c)'
    <2>1. Holds(c)
      BY HoldsAre
    <2>2. request'[c] # NoMsg /\ request'[c].req = "RL" => request'[c].idx \notin held'[c]
      BY <2>1 DEF Holds, RequestsSame
    <2>3. /\ \A i \in held'[c] : WillOwn(c, i)
          /\ Told(c)' => WillOwn(c, request'[c].idx)
      <3>1. request' = request
        BY DEF RequestsSame
      <3>2. PICK x : x = request[c].idx
        OBVIOUS
      <3>3. request'[c].idx = x /\ (Told(c)' => WillOwn(c, x))
        BY <3>1, <3>2
      <3> QED
        BY <3>3
    <2> QED
      BY <2>2, <2>3, HoldsNext
  <1> QED
    BY <1>1, HoldsAreNext

(* What a client is told is in its mail. *)
LEMMA EmptyMailbox ==
    ASSUME NEW c, NEW w, At(c, w), w # InMailbox
    PROVE  mail[c] = << >>
  BY DEF At, MailboxHas

LEMMA ToldSame ==
    ASSUME RequestsSame, NEW c, mail'[c] = mail[c]
    PROVE  Told(c)' => Told(c)
  BY ToldNext DEF Told, RequestsSame

LEMMA ToldBy ==
    ASSUME RequestsSame, NEW c, NEW n, mail'[c] = <<Reply(n)>>, Told(c)'
    PROVE  request[c].req = "AQ" /\ n # ErrorCode
  <1>1. Head(<<Reply(n)>>) = Reply(n)
    OBVIOUS
  <1>2. Head(mail'[c]).idx = n
    BY <1>1 DEF Reply
  <1> QED
    BY <1>2, ToldNext DEF RequestsSame

LEMMA HoldsSilent ==
    ASSUME HoldsSound, RequestsSame, held' = held, OwnersKept, SilentMail
    PROVE  HoldsSound'
  <1>1. ASSUME NEW c \in Clients
        PROVE  /\ \A i \in held[c] : WillOwn(c, i)
               /\ Told(c)' => WillOwn(c, request[c].idx)
    <2>1. Holds(c)
      BY HoldsAre
    <2>2. Told(c)' => Told(c)
      BY ToldSame DEF SilentMail
    <2>3. \A i : Owned(c, i) => WillOwn(c, i)
      BY DEF OwnersKept
    <2> QED
      BY <2>1, <2>2, <2>3 DEF Holds
  <1> QED
    BY <1>1, HoldsServed

(* One client gets an answer, and with it the lock if it asked for one. *)
LEMMA HoldsTold ==
    ASSUME HoldsSound, RequestsSame, held' = held, OwnersKept, NEW c \in Clients, mail[c] = << >>,
           NEW n, Mailed(c, Reply(n)),
           request[c].req = "AQ" /\ n # ErrorCode => WillOwn(c, request[c].idx)
    PROVE  HoldsSound'
  <1>1. ASSUME NEW d \in Clients
        PROVE  /\ \A i \in held[d] : WillOwn(d, i)
               /\ Told(d)' => WillOwn(d, request[d].idx)
    <2>1. Holds(d)
      BY HoldsAre
    <2>2. \A i : Owned(d, i) => WillOwn(d, i)
      BY DEF OwnersKept
    <2>3. CASE d = c
      <3>1. mail'[d] = <<Reply(n)>>
        BY <2>3 DEF Mailed
      <3>2. Told(d)' => request[d].req = "AQ" /\ n # ErrorCode
        BY <3>1, ToldBy
      <3> QED
        BY <2>1, <2>2, <2>3, <3>2 DEF Holds
    <2>4. CASE d # c
      <3>1. mail'[d] = mail[d]
        BY <2>4 DEF Mailed
      <3>2. Told(d)' => Told(d)
        BY <3>1, ToldSame
      <3> QED
        BY <2>1, <2>2, <3>2 DEF Holds
    <2> QED
      BY <2>3, <2>4
  <1> QED
    BY <1>1, HoldsServed

(* The client c releases the lock i. *)
LEMMA HoldsReleased ==
    ASSUME HoldsSound, RequestsSame, held' = held, NEW c \in Clients, NEW i,
           request[c] # NoMsg, request[c].req = "RL", request[c].idx = i,
           \A d, j : Owned(d, j) /\ ~(d = c /\ j = i) => WillOwn(d, j),
           \A d \in Clients \ {c} : mail'[d] = mail[d] \/ WillOwn(d, request[d].idx)
    PROVE  HoldsSound'
  <1>1. ASSUME NEW d \in Clients
        PROVE  /\ \A j \in held[d] : WillOwn(d, j)
               /\ Told(d)' => WillOwn(d, request[d].idx)
    <2>1. Holds(d)
      BY HoldsAre
    <2>2. CASE d = c
      <3>1. i \notin held[c]
        BY <2>1, <2>2 DEF Holds
      <3>2. ~Told(d)'
        BY <2>2, ToldNext DEF RequestsSame
      <3> QED
        BY <2>1, <2>2, <3>1, <3>2 DEF Holds
    <2>3. CASE d # c
      <3>1. Told(d)' => Told(d) \/ WillOwn(d, request[d].idx)
        <4>1. CASE mail'[d] = mail[d]
          BY <4>1, ToldSame
        <4>2. CASE WillOwn(d, request[d].idx)
          BY <4>2
        <4> QED
          BY <2>3, <4>1, <4>2
      <3> QED
        BY <2>1, <2>3, <3>1 DEF Holds
    <2> QED
      BY <2>2, <2>3
  <1> QED
    BY <1>1, HoldsServed

-----------------------------------------------------------------------------
(* The turns. *)

LEMMA AnsweredHolds ==
    ASSUME HoldsSound, RequestsSame, held' = held, NEW s, NEW m, AnsweredTurn(s, m),
           Key(m) = Key(request[Requester(m)]), Requester(m) \in Clients,
           mail[Requester(m)] = << >>
    PROVE  HoldsSound'
  <1>1. PICK c \in Clients : c = Requester(m)
    OBVIOUS
  <1>2. PICK n : Mailed(c, Reply(n)) /\ (m.req = "AQ" => n = ErrorCode)
    BY <1>1 DEF AnsweredTurn
  <1>3. OwnersKept
    BY OwnersSame DEF AnsweredTurn
  <1>4. request[c].req = m.req
    BY <1>1 DEF Key
  <1>5. request[c].req = "AQ" /\ n # ErrorCode => WillOwn(c, request[c].idx)
    BY <1>2, <1>4
  <1>6. mail[c] = << >> /\ Mailed(c, Reply(n))
    BY <1>1, <1>2
  <1> QED
    BY <1>3, <1>5, <1>6, HoldsTold

LEMMA CreatedHolds ==
    ASSUME HoldsSound, RequestsSame, held' = held, TablesSound, TablesNumbered, NEW s \in Servers,
           NEW m, CreatedTurn(s, m), Key(m) = Key(request[Requester(m)]), Requester(m) \in Clients,
           mail[Requester(m)] = << >>
    PROVE  HoldsSound'
  <1>1. PICK c \in Clients : c = Requester(m)
    OBVIOUS
  <1>2. PICK n : Mailed(c, Reply(n))
    BY <1>1 DEF CreatedTurn
  <1>3. NewObject(s, m)
    BY DEF CreatedTurn
  <1>4. OwnersKept
    BY <1>3, OwnersGrow
  <1>5. request[c].req = m.req /\ m.req # "AQ"
    BY <1>1, <1>3 DEF Key, NewObject
  <1>6. mail[c] = << >>
    BY <1>1
  <1> QED
    BY <1>2, <1>4, <1>5, <1>6, HoldsTold

(* A lock that nobody owned gets an owner. *)
LEMMA OwnersGranted ==
    ASSUME SameObjects, NEW s \in Servers, NEW i, NEW c, NEW q, LockBecomes(s, i, c, q),
           lockTable[s][i].owner \in {Nobody, c}
    PROVE  OwnersKept /\ WillOwn(c, i)
  <1>1. /\ WillOwn(c, i)
        /\ \A d, j : Owned(d, j) /\ ~(d = lockTable[s][i].owner /\ j = i) => WillOwn(d, j)
    BY OwnerBecomes
  <1>2. Nobody \notin Clients
    BY LockServersAssumption DEF LockServersAssumption
  <1>3. ASSUME NEW d \in Clients, NEW j, Owned(d, j)
        PROVE  WillOwn(d, j)
    BY <1>1, <1>2, <1>3
  <1> QED
    BY <1>1, <1>3 DEF OwnersKept

LEMMA GrantedHolds ==
    ASSUME HoldsSound, RequestsSame, held' = held, NEW s \in Servers,
           NEW m, GrantedTurn(s, m), Key(m) = Key(request[Requester(m)]), Requester(m) \in Clients,
           mail[Requester(m)] = << >>
    PROVE  HoldsSound'
  <1>1. PICK c \in Clients : c = Requester(m)
    OBVIOUS
  <1>2. PICK n : Mailed(c, Reply(n))
    BY <1>1 DEF GrantedTurn
  <1>3. SameObjects /\ LockBecomes(s, m.idx, c, << >>) /\ lockTable[s][m.idx].owner = Nobody
    BY <1>1 DEF GrantedTurn, Unlocked
  <1>4. OwnersKept /\ WillOwn(c, m.idx)
    BY <1>3, OwnersGranted
  <1>5. request[c].idx = m.idx
    BY <1>1 DEF Key
  <1>6. mail[c] = << >> /\ WillOwn(c, request[c].idx)
    BY <1>1, <1>4, <1>5
  <1> QED
    BY <1>2, <1>4, <1>6, HoldsTold

LEMMA FreedHolds ==
    ASSUME HoldsSound, RequestsSame, held' = held, NEW s \in Servers,
           NEW m, FreedTurn(s, m), Key(m) = Key(request[Requester(m)]), Requester(m) \in Clients,
           request[Requester(m)] # NoMsg, lockTable[s][m.idx].owner = Requester(m)
    PROVE  HoldsSound'
  <1>1. PICK c \in Clients : c = Requester(m)
    OBVIOUS
  <1>2. PICK n : Mailed(c, Reply(n))
    BY <1>1 DEF FreedTurn
  <1>3. SameObjects /\ LockBecomes(s, m.idx, Nobody, << >>) /\ m.req = "RL"
    BY DEF FreedTurn
  <1>4. \A d, j : Owned(d, j) /\ ~(d = lockTable[s][m.idx].owner /\ j = m.idx) => WillOwn(d, j)
    BY <1>3, OwnerBecomes
  <1>5. \A d, j : Owned(d, j) /\ ~(d = c /\ j = m.idx) => WillOwn(d, j)
    BY <1>1, <1>4
  <1>6. request[c] # NoMsg /\ request[c].req = "RL" /\ request[c].idx = m.idx
    BY <1>1, <1>3 DEF Key
  <1>7. \A d \in Clients \ {c} : mail'[d] = mail[d] \/ WillOwn(d, request[d].idx)
    BY <1>2 DEF Mailed
  <1> QED
    BY <1>5, <1>6, <1>7, HoldsReleased

LEMMA HandedHolds ==
    ASSUME HoldsSound, RequestsSame, held' = held, NEW s \in Servers, QueueCopies(s),
           NEW m, HandedTurn(s, m), Key(m) = Key(request[Requester(m)]), Requester(m) \in Clients,
           request[Requester(m)] # NoMsg, lockTable[s][m.idx].owner = Requester(m),
           Requester(m) # Head(Queue(s, m.idx))
    PROVE  HoldsSound'
  <1>1. PICK c \in Clients : c = Requester(m)
    OBVIOUS
  <1>2. PICK q : q = Queue(s, m.idx)
    OBVIOUS
  <1>3. /\ m.req = "RL" /\ m.idx \in DOMAIN lockTable[s]
        /\ q # << >> /\ q \in Seq(Clients) /\ Head(q) \in Clients
        /\ SameObjects /\ LockBecomes(s, m.idx, Head(q), Tail(q))
        /\ \A e \in Clients \ {c, Head(q)} : mail'[e] = mail[e]
    BY <1>1, <1>2 DEF HandedTurn, Queue
  <1>4. PICK d \in Clients : d = Head(q)
    BY <1>3
  <1>5. /\ WillOwn(d, m.idx)
        /\ \A e, j : Owned(e, j) /\ ~(e = lockTable[s][m.idx].owner /\ j = m.idx) => WillOwn(e, j)
    BY <1>3, <1>4, OwnerBecomes
  <1>6. \A e, j : Owned(e, j) /\ ~(e = c /\ j = m.idx) => WillOwn(e, j)
    BY <1>1, <1>5
  <1>7. request[c] # NoMsg /\ request[c].req = "RL" /\ request[c].idx = m.idx
    BY <1>1, <1>3 DEF Key
  <1>8. request[d].idx = m.idx
    <2>1. Queued(q, d)
      <3>1. 1 \in 1..Len(q) /\ q[1] = Head(q)
        BY <1>3
      <3> QED
        BY <1>4, <3>1 DEF Queued
    <2> QED
      BY <1>2, <1>3, <2>1 DEF QueueCopies, Queue
  <1>9. \A e \in Clients \ {c} : mail'[e] = mail[e] \/ WillOwn(e, request[e].idx)
    <2>1. WillOwn(d, request[d].idx)
      BY <1>5, <1>8
    <2>2. \A e \in Clients : e = c \/ e = d \/ mail'[e] = mail[e]
      BY <1>3, <1>4
    <2> QED
      BY <2>1, <2>2
  <1> QED
    BY <1>6, <1>7, <1>9, HoldsReleased

LEMMA QueuedHolds ==
    ASSUME HoldsSound, RequestsSame, held' = held, NEW s \in Servers, NEW m, QueuedTurn(s, m)
    PROVE  HoldsSound'
  <1>1. PICK c, q : LockBecomes(s, m.idx, c, q) /\ c = lockTable[s][m.idx].owner
    BY DEF QueuedTurn
  <1>2. SameObjects /\ SilentMail
    BY DEF QueuedTurn
  <1>3. OwnersKept
    BY <1>1, <1>2, OwnersGranted
  <1> QED
    BY <1>2, <1>3, HoldsSilent

LEMMA OwnersStay ==
    ASSUME UNCHANGED tables
    PROVE  OwnersKept
  BY TablesStay, OwnersSame

LEMMA ServerHolds ==
    ASSUME IInv, Core, NobodyAtNine, HoldsSound, NEW s, NEW m \in Message, Taken(s, m), Turn(s, m),
           At(Requester(m), AtServer(s)), RequestsSame, held' = held, inProgress' = inProgress
    PROVE  HoldsSound'
  <1>1. Shape /\ TablesSound /\ s \in Servers
    BY DEF IInv, Shape, Taken
  <1>2. AllPlaced /\ ServerCopies(s) /\ QueueCopies(s) /\ TablesNumbered
    BY <1>1, CoreParts
  <1>3. Key(m) = Key(request[Requester(m)]) /\ Requester(m) \in Clients
    BY <1>1, <1>2, TakenKey
  <1>4. mail[Requester(m)] = << >>
    BY EmptyMailbox, PlaceNames DEF AtServer, InMailbox
  <1>5. request[Requester(m)] # NoMsg
    <2>1. m \in RangeOf(mail[Srv(s)])
      BY <1>1, TakenInMail
    <2> QED
      BY <1>1, <1>2, <1>3, <2>1, InCall
  <1>6. ASSUME m.idx \in DOMAIN lockTable[s], MayRelease(lockTable[s][m.idx], m)
        PROVE  lockTable[s][m.idx].owner = Requester(m)
    BY <1>1, <1>2, <1>6, ReleaserOwns
  <1>7. CASE AnsweredTurn(s, m)
    BY <1>3, <1>4, <1>7, AnsweredHolds
  <1>8. CASE CreatedTurn(s, m)
    BY <1>1, <1>2, <1>3, <1>4, <1>8, CreatedHolds
  <1>9. CASE GrantedTurn(s, m)
    BY <1>1, <1>3, <1>4, <1>9, GrantedHolds
  <1>10. CASE FreedTurn(s, m)
    <2>1. lockTable[s][m.idx].owner = Requester(m)
      BY <1>6, <1>10 DEF FreedTurn
    <2> QED
      BY <1>1, <1>3, <1>5, <1>10, <2>1, FreedHolds
  <1>11. CASE HandedTurn(s, m)
    <2>1. lockTable[s][m.idx].owner = Requester(m)
      BY <1>6, <1>11 DEF HandedTurn
    <2>2. Requester(m) # Head(Queue(s, m.idx))
      BY <1>1, <1>2, <1>11, PlacedHandOver DEF RequestsSame
    <2> QED
      BY <1>1, <1>2, <1>3, <1>5, <1>11, <2>1, <2>2, HandedHolds
  <1>12. CASE QueuedTurn(s, m)
    BY <1>1, <1>12, QueuedHolds
  <1>13. CASE PassedTurn(s, m)
    BY <1>13, OwnersStay, HoldsSilent DEF PassedTurn
  <1> QED
    BY <1>7, <1>8, <1>9, <1>10, <1>11, <1>12, <1>13 DEF Turn

(* A MessageHandler's turn refuses a request at most. *)
LEMMA CountedHolds ==
    ASSUME IInv, IInv', Core, HoldsSound, NEW s \in Servers, CountedTurn(s), UNCHANGED tables,
           RequestsSame, held' = held
    PROVE  HoldsSound'
  <1>1. PICK r \in Others(s), m \in Message : \E Q :
        /\ Replies(s, r) = <<m>> \o Replies(s, r)'
        /\ \A t, u \in Servers : SameAsked(t, u) /\ (~(t = s /\ u = r) => SameReplies(t, u))
        /\ Counts(inProgress[s], m.id, Q) /\ YesCounts(inProgress[s], m, Q)
        /\ \/ SilentMail
           \/ /\ inProgress' = [inProgress EXCEPT ![s] = Tail(Q)]
              /\ Q # << >> /\ Q[1].yes + Q[1].no = NumServers - 1 /\ Q[1].yes = 0
              /\ Mailed(m.client, Reply(ErrorCode))
    BY DEF CountedTurn
  <1>2. PICK Q :
        /\ Replies(s, r) = <<m>> \o Replies(s, r)'
        /\ \A t, u \in Servers : SameAsked(t, u) /\ (~(t = s /\ u = r) => SameReplies(t, u))
        /\ Counts(inProgress[s], m.id, Q) /\ YesCounts(inProgress[s], m, Q)
        /\ \/ SilentMail
           \/ /\ inProgress' = [inProgress EXCEPT ![s] = Tail(Q)]
              /\ Q # << >> /\ Q[1].yes + Q[1].no = NumServers - 1 /\ Q[1].yes = 0
              /\ Mailed(m.client, Reply(ErrorCode))
    BY <1>1
  <1>3. PICK P : P = inProgress[s]
    OBVIOUS
  <1>4. Shape /\ Shape' /\ inProgress = [t \in Servers |-> inProgress[t]]
    BY DEF IInv, Shape
  <1>5. CountsReply(s, r, m, P, Q)
    BY <1>2, <1>3, <1>4, CountedReply
  <1>6. OwnersKept
    BY OwnersStay
  <1>7. CASE SilentMail
    BY <1>6, <1>7, HoldsSilent
  <1>8. ASSUME inProgress' = [inProgress EXCEPT ![s] = Tail(Q)],
               Q # << >>, Q[1].yes + Q[1].no = NumServers - 1, Q[1].yes = 0,
               Mailed(m.client, Reply(ErrorCode))
        PROVE  HoldsSound'
    <2>1. inProgress'[s] = Tail(Q)
      BY <1>4, <1>8
    <2>2. /\ m.id = Q[1].msg.id /\ m.client = Q[1].msg.client /\ Q[1].msg = P[1].msg
          /\ P[1] \in RangeOf(P) /\ P[1] \in Entry /\ 1 \in 1..Len(P)
      BY <1>4, <1>5, <1>8, HeadCounted
    <2>3. ~Said(s, Q[1].msg.id)'
      BY <1>5, <1>8, <2>1, HeadGone
    <2>4. (Q[1].yes = 0 /\ ~Said(s, Q[1].msg.id)') <=> Open(s, P[1])
      BY <1>4, <1>5, <2>2, EntriesOpen
    <2>5. Open(s, P[1])
      BY <1>8, <2>3, <2>4
    <2>6. PICK c \in Clients : c = P[1].msg.client
      BY <2>2 DEF Entry, Passed
    <2>7. mail[c] = << >>
      <3>1. PICK w : At(c, w)
        BY CoreParts DEF AllPlaced, Placed
      <3>2. w = InList(s)
        BY <1>3, <1>4, <2>2, <2>5, <2>6, <3>1, Elsewhere
      <3> QED
        BY <3>1, <3>2, EmptyMailbox, PlaceNames DEF InList, InMailbox
    <2>8. c = m.client /\ Mailed(c, Reply(ErrorCode))
      BY <1>8, <2>2, <2>6
    <2> QED
      BY <1>6, <2>7, <2>8, HoldsTold
  <1> QED
    BY <1>2, <1>7, <1>8

LEMMA HandlerTurnHolds ==
    ASSUME IInv, IInv', Core, HoldsSound, NEW r \in Servers, MessageHandler(r)
    PROVE  HoldsSound'
  <1>1. Shape /\ SmallMail
    BY CoreParts DEF IInv
  <1>2. UNCHANGED tables /\ RequestsSame /\ held' = held
    BY DEF MessageHandler, Relay, Ask, CountReply, clientVars, RequestsSame
  <1>3. CASE SilentMail
    BY <1>2, <1>3, OwnersStay, HoldsSilent
  <1>4. CASE Relay(r) /\ NumServers # 1
    <2>1. RelayedTurn(r)
      BY <1>1, <1>4, RelayedTurns
    <2> QED
      BY <1>3, <2>1 DEF RelayedTurn
  <1>5. CASE Relay(r) /\ NumServers = 1
    <2>1. BackTurn(r)
      BY <1>1, <1>5, BackTurns
    <2> QED
      BY <1>3, <2>1 DEF BackTurn
  <1>6. CASE Ask(r)
    <2>1. PICK s \in Servers \ {r} : AskedTurn(r, s)
      BY <1>1, <1>6, AskedTurns
    <2> QED
      BY <1>3, <2>1 DEF AskedTurn
  <1>7. CASE CountReply(r)
    BY <1>1, <1>2, <1>7, CountedTurns, CountedHolds
  <1> QED
    BY <1>4, <1>5, <1>6, <1>7 DEF MessageHandler

LEMMA ServerTurnHolds ==
    ASSUME IInv, IInv', Core, NobodyAtNine, HoldsSound, NEW s \in Servers, Server(s)
    PROVE  HoldsSound'
  <1>1. Shape /\ Shape' /\ SmallMail
    BY CoreParts DEF IInv
  <1>2. /\ \E m \in Message : Taken(s, m) /\ Turn(s, m)
        /\ UNCHANGED <<inProgress, blocked, program, request, calls, held>>
    BY <1>1, ServerTurns
  <1>3. PICK m \in Message : Taken(s, m) /\ Turn(s, m)
    BY <1>2
  <1>4. inProgress' = inProgress /\ RequestsSame /\ program' = program /\ held' = held
    BY <1>2 DEF RequestsSame
  <1>5. At(Requester(m), AtServer(s))
    BY <1>1, <1>3, <1>4, ServerCore
  <1> QED
    BY <1>3, <1>4, <1>5, ServerHolds

(* A call or a return changes what is known of its client only. *)
HeldShape == held = [c \in Clients |-> held[c]]

LEMMA HoldsMoved ==
    ASSUME HoldsSound, UNCHANGED tables, NEW c \in Clients, Holds(c)',
           \A d \in Clients \ {c} : /\ request'[d] = request[d] /\ mail'[d] = mail[d]
                                    /\ held'[d] = held[d]
    PROVE  HoldsSound'
  <1>1. ASSUME NEW d \in Clients, d # c
        PROVE  Holds(d)'
    <2>1. Holds(d)
      BY HoldsAre
    <2>2. request'[d] = request[d] /\ mail'[d] = mail[d] /\ held'[d] = held[d]
      BY <1>1
    <2>3. \A i : Owned(d, i) => WillOwn(d, i)
      BY OwnersStay DEF OwnersKept
    <2>4. Told(d)' => Told(d)
      BY <2>2, ToldNext DEF Told
    <2>5. \A i \in held'[d] : WillOwn(d, i)
      BY <2>1, <2>2, <2>3 DEF Holds
    <2>6. request'[d] # NoMsg /\ request'[d].req = "RL" => request'[d].idx \notin held'[d]
      BY <2>1, <2>2 DEF Holds
    <2>7. Told(d)' => WillOwn(d, request'[d].idx)
      BY <2>1, <2>2, <2>3, <2>4 DEF Holds
    <2> QED
      BY <2>5, <2>6, <2>7, HoldsNext
  <1> QED
    BY <1>1, HoldsAreNext

LEMMA CallHolds ==
    ASSUME IInv, Core, HeldShape, HoldsSound, NEW c \in Clients, Call(c)
    PROVE  HoldsSound' /\ HeldShape'
  <1>1. /\ CalledTurn(c) /\ HandlersQuiet /\ UNCHANGED <<tables, inProgress>>
        /\ Shape /\ AllPlaced /\ request \in [Clients -> Message \cup {NoMsg}]
    BY CalledTurns, CoreParts DEF IInv
  <1>2. At(c, Nowhere)
    BY <1>1, NoMsgAssumption, PlacedCalled
  <1>3. PICK m \in Message :
        /\ request' = [request EXCEPT ![c] = m] /\ SilentMail
        /\ held' = [held EXCEPT ![c] = IF m.req = "RL" THEN @ \ {m.idx} ELSE @]
    BY <1>1 DEF CalledTurn
  <1>4. PICK H : H = IF m.req = "RL" THEN held[c] \ {m.idx} ELSE held[c]
    OBVIOUS
  <1>5. held' = [held EXCEPT ![c] = H]
    BY <1>3, <1>4
  <1>6. held'[c] = H /\ \A d \in Clients \ {c} : held'[d] = held[d]
    BY <1>5 DEF HeldShape
  <1>7. request'[c] = m /\ \A d \in Clients \ {c} : request'[d] = request[d]
    BY <1>1, <1>3
  <1>8. mail'[c] = << >>
    <2>1. mail[c] = << >>
      BY <1>2, EmptyMailbox, PlaceNames DEF Nowhere, InMailbox
    <2> QED
      BY <1>3, <2>1 DEF SilentMail
  <1>9. Holds(c)'
    <2>1. \A i : Owned(c, i) => WillOwn(c, i)
      BY <1>1, OwnersStay DEF OwnersKept
    <2>2. \A i \in held[c] : Owned(c, i)
      BY HoldsAre DEF Holds
    <2>3. \A i \in held'[c] : WillOwn(c, i)
      BY <1>4, <1>6, <2>1, <2>2
    <2>4. request'[c].req = "RL" => request'[c].idx \notin held'[c]
      BY <1>4, <1>6, <1>7
    <2>5. ~Told(c)'
      BY <1>8, ToldNext
    <2> QED
      BY <2>3, <2>4, <2>5, HoldsNext
  <1>10. HoldsSound'
    BY <1>1, <1>3, <1>6, <1>7, <1>9, HoldsMoved DEF SilentMail
  <1> QED
    BY <1>5, <1>10 DEF HeldShape

LEMMA ReturnHolds ==
    ASSUME IInv, Core, HeldShape, HoldsSound, NEW c \in Clients, Return(c)
    PROVE  HoldsSound' /\ HeldShape'
  <1>1. /\ Shape /\ SmallMail /\ request \in [Clients -> Message \cup {NoMsg}] /\ CallSound(c)
    BY CoreParts DEF IInv
  <1>2. request[c].req \in PlainCalls
    BY <1>1 DEF CallSound, Return
  <1>3. ReturnedTurn(c) /\ UNCHANGED tables
    BY <1>1, <1>2, ReturnedTurns
  <1>4. PICK H : H = IF Head(mail[c]).idx = ErrorCode \/ request[c].req # "AQ" THEN held[c]
                     ELSE held[c] \cup {request[c].idx}
    OBVIOUS
  <1>5. held' = [held EXCEPT ![c] = H]
    BY <1>3, <1>4 DEF ReturnedTurn
  <1>6. held'[c] = H /\ \A d \in Clients \ {c} : held'[d] = held[d]
    BY <1>5 DEF HeldShape
  <1>7. request'[c] = NoMsg /\ \A d \in Clients \ {c} : request'[d] = request[d]
    BY <1>1, <1>3 DEF ReturnedTurn
  <1>8. \A d \in Clients \ {c} : mail'[d] = mail[d]
    BY <1>3 DEF ReturnedTurn
  <1>9. Holds(c)'
    <2>1. \A i : Owned(c, i) => WillOwn(c, i)
      BY <1>3, OwnersStay DEF OwnersKept
    <2>2. Holds(c)
      BY HoldsAre
    <2>3. ~(Head(mail[c]).idx = ErrorCode \/ request[c].req # "AQ") => Owned(c, request[c].idx)
      BY <1>3, <2>2 DEF Holds, Told, ReturnedTurn
    <2>4. \A i \in H : Owned(c, i)
      BY <1>4, <2>2, <2>3 DEF Holds
    <2>5. \A i \in held'[c] : WillOwn(c, i)
      BY <1>6, <2>1, <2>4
    <2>6. ~Told(c)'
      BY <1>7, ToldNext
    <2> QED
      BY <1>7, <2>5, <2>6, HoldsNext
  <1>10. HoldsSound'
    BY <1>3, <1>6, <1>7, <1>8, <1>9, HoldsMoved
  <1> QED
    BY <1>5, <1>10 DEF HeldShape

LEMMA HoldsKept ==
    ASSUME IInv, Core, NobodyAtNine, HeldShape, HoldsSound, Next
    PROVE  HoldsSound' /\ HeldShape'
  <1>1. IInv'
    BY NextKeeps
  <1>2. ASSUME NEW s \in Servers, Server(s)
        PROVE  HoldsSound' /\ HeldShape'
    <2>1. held' = held
      BY <1>2, CoreParts, ServerTurns DEF IInv
    <2> QED
      BY <1>1, <1>2, <2>1, ServerTurnHolds DEF HeldShape
  <1>3. ASSUME NEW s \in Servers, MessageHandler(s)
        PROVE  HoldsSound' /\ HeldShape'
    <2>1. held' = held
      BY <1>3 DEF MessageHandler, Relay, Ask, CountReply, clientVars
    <2> QED
      BY <1>1, <1>3, <2>1, HandlerTurnHolds DEF HeldShape
  <1>4. ASSUME NEW c \in Clients, Call(c)
        PROVE  HoldsSound' /\ HeldShape'
    BY <1>4, CallHolds
  <1>5. ASSUME NEW c \in Clients, Return(c)
        PROVE  HoldsSound' /\ HeldShape'
    BY <1>5, ReturnHolds
  <1> QED
    BY <1>2, <1>3, <1>4, <1>5 DEF Next

LEMMA HoldsStutter ==
    ASSUME HoldsSound, HeldShape, UNCHANGED vars
    PROVE  HoldsSound' /\ HeldShape'
  <1>1. mail' = mail /\ UNCHANGED tables /\ RequestsSame /\ held' = held
    BY DEF vars, tables, RequestsSame
  <1>2. SilentMail
    BY <1>1 DEF SilentMail
  <1> QED
    BY <1>1, <1>2, OwnersStay, HoldsSilent DEF HeldShape

LEMMA HoldsAtFirst ==
    ASSUME Init
    PROVE  HoldsSound /\ HeldShape
  <1>1. \A c \in Clients : request[c] = NoMsg /\ held[c] = {}
    BY DEF Init
  <1>2. held = [c \in Clients |-> {}]
    BY DEF Init
  <1> QED
    BY <1>1, <1>2 DEF HoldsSound, HeldShape

-----------------------------------------------------------------------------
(* Who lets go of a lock. *)

LetsGo(c, i) == request[c] # NoMsg /\ request[c].req = "RL" /\ request[c].idx = i

(* Where a lock of a client has another owner after the step, the client let *)
(* go of it.                                                                 *)
Released ==
    \A s \in Servers : \A i \in DOMAIN lockTable[s] :
        lockTable[s][i].owner \in Clients /\ lockTable'[s][i].owner # lockTable[s][i].owner =>
            LetsGo(lockTable[s][i].owner, i)

LEMMA ReleasedSame ==
    ASSUME \A s \in Servers : \A i \in DOMAIN lockTable[s] :
               lockTable'[s][i].owner = lockTable[s][i].owner
    PROVE  Released
  BY DEF Released

(* The old locks are as they were when an object is created. *)
LEMMA OldLocks ==
    ASSUME TablesSound, TablesNumbered, NEW s \in Servers, NEW m, NewObject(s, m)
    PROVE  \A r \in Servers : \A i \in DOMAIN lockTable[r] : lockTable'[r][i] = lockTable[r][i]
  <1>1. PICK t, u : t = lockTable /\ u = lockTable'
    OBVIOUS
  <1>2. CASE u = t
    BY <1>1, <1>2
  <1>3. CASE u # t
    <2>1. \E x : Grows(t, u, s, x)
      BY <1>1, <1>3 DEF NewObject
    <2>2. PICK x : Grows(t, u, s, x)
      BY <2>1
    <2>3. IsFiniteSet(DOMAIN t[s]) /\ Numbered(s, t[s])
      BY <1>1 DEF TablesSound, Keys, TablesNumbered
    <2>4. PICK n : /\ n = NextIndex(s, t[s]) /\ n \notin DOMAIN t[s]
                   /\ DOMAIN u[s] = DOMAIN t[s] \cup {n} /\ u[s][n] = x
                   /\ \A i \in DOMAIN t[s] : u[s][i] = t[s][i]
      BY <2>2, <2>3, TableGrown
    <2>5. \A r \in Servers \ {s} : u[r] = t[r]
      BY <2>2 DEF Grows
    <2> QED
      BY <1>1, <2>4, <2>5
  <1> QED
    BY <1>2, <1>3

LEMMA ReleasedBecomes ==
    ASSUME NEW s \in Servers, NEW i, NEW c, NEW q, LockBecomes(s, i, c, q),
           \/ lockTable[s][i].owner \in {Nobody, c}
           \/ LetsGo(lockTable[s][i].owner, i)
    PROVE  Released
  <1>1. Nobody \notin Clients
    BY LockServersAssumption DEF LockServersAssumption
  <1>2. ASSUME NEW r \in Servers, NEW j \in DOMAIN lockTable[r],
               lockTable[r][j].owner \in Clients, lockTable'[r][j].owner # lockTable[r][j].owner
        PROVE  LetsGo(lockTable[r][j].owner, j)
    <2>1. r = s /\ j = i
      BY <1>2 DEF LockBecomes, LockKept
    <2>2. lockTable[s][i].owner \notin {Nobody, c}
      BY <1>1, <1>2, <2>1 DEF LockBecomes
    <2> QED
      BY <2>1, <2>2
  <1> QED
    BY <1>2 DEF Released

LEMMA ServerReleases ==
    ASSUME IInv, Core, NobodyAtNine, NEW s, NEW m \in Message, Taken(s, m), Turn(s, m)
    PROVE  Released
  <1>1. Shape /\ TablesSound /\ s \in Servers
    BY DEF IInv, Shape, Taken
  <1>2. AllPlaced /\ ServerCopies(s) /\ TablesNumbered
    BY <1>1, CoreParts
  <1>3. Key(m) = Key(request[Requester(m)]) /\ Requester(m) \in Clients
    BY <1>1, <1>2, TakenKey
  <1>4. request[Requester(m)] # NoMsg
    <2>1. m \in RangeOf(mail[Srv(s)])
      BY <1>1, TakenInMail
    <2> QED
      BY <1>1, <1>2, <1>3, <2>1, InCall
  <1>5. ASSUME m.idx \in DOMAIN lockTable[s], MayRelease(lockTable[s][m.idx], m), m.req = "RL"
        PROVE  LetsGo(lockTable[s][m.idx].owner, m.idx)
    <2>1. lockTable[s][m.idx].owner = Requester(m)
      BY <1>1, <1>2, <1>5, ReleaserOwns
    <2>2. LetsGo(Requester(m), m.idx)
      BY <1>3, <1>4, <1>5 DEF LetsGo, Key
    <2> QED
      BY <2>1, <2>2
  <1>6. CASE SameObjects /\ LocksKept
    BY <1>6, ReleasedSame DEF LocksKept, LockKept
  <1>7. CASE AnsweredTurn(s, m)
    BY <1>6, <1>7 DEF AnsweredTurn
  <1>8. CASE CreatedTurn(s, m)
    <2>1. NewObject(s, m)
      BY <1>8 DEF CreatedTurn
    <2> QED
      BY <1>1, <1>2, <2>1, OldLocks, ReleasedSame
  <1>9. CASE GrantedTurn(s, m)
    <2>1. LockBecomes(s, m.idx, Requester(m), << >>) /\ lockTable[s][m.idx].owner = Nobody
      BY <1>9 DEF GrantedTurn, Unlocked
    <2> QED
      BY <1>1, <2>1, ReleasedBecomes
  <1>10. CASE FreedTurn(s, m)
    <2>1. LockBecomes(s, m.idx, Nobody, << >>) /\ LetsGo(lockTable[s][m.idx].owner, m.idx)
      BY <1>5, <1>10 DEF FreedTurn
    <2> QED
      BY <1>1, <2>1, ReleasedBecomes
  <1>11. CASE HandedTurn(s, m)
    <2>1. PICK c, q : LockBecomes(s, m.idx, c, q)
      BY <1>11 DEF HandedTurn
    <2>2. LetsGo(lockTable[s][m.idx].owner, m.idx)
      BY <1>5, <1>11 DEF HandedTurn
    <2> QED
      BY <1>1, <2>1, <2>2, ReleasedBecomes
  <1>12. CASE QueuedTurn(s, m)
    <2>1. PICK c, q : LockBecomes(s, m.idx, c, q) /\ c = lockTable[s][m.idx].owner
      BY <1>12 DEF QueuedTurn
    <2> QED
      BY <1>1, <2>1, ReleasedBecomes
  <1>13. CASE PassedTurn(s, m)
    BY <1>6, <1>13, TablesStay DEF PassedTurn
  <1> QED
    BY <1>7, <1>8, <1>9, <1>10, <1>11, <1>12, <1>13 DEF Turn

LEMMA StepReleases ==
    ASSUME IInv, Core, NobodyAtNine, Next
    PROVE  Released
  <1>1. CASE lockTable' = lockTable
    BY <1>1, ReleasedSame
  <1>2. ASSUME NEW s \in Servers, Server(s)
        PROVE  Released
    <2>1. PICK m \in Message : Taken(s, m) /\ Turn(s, m)
      BY <1>2, CoreParts, ServerTurns DEF IInv
    <2> QED
      BY <2>1, ServerReleases
  <1>3. ASSUME NEW s \in Servers, MessageHandler(s)
        PROVE  lockTable' = lockTable
    BY <1>3 DEF MessageHandler, Relay, Ask, CountReply, tables
  <1>4. ASSUME NEW c \in Clients, Call(c) \/ Return(c)
        PROVE  lockTable' = lockTable
    BY <1>4 DEF Call, Return, tables
  <1> QED
    BY <1>1, <1>2, <1>3, <1>4 DEF Next

-----------------------------------------------------------------------------

(* At most one server takes over a request, whoever asks.                    *)
SingleOwners == \A s \in Servers : SingleOwner(s)

LEMMA OwnNamesKept == (OwnNames /\ [Next]_vars) => OwnNames'
  BY ProgramKept DEF OwnNames

LEMMA CoreAlways == Spec /\ NoMonitorCalls /\ []SingleOwners => [](IInv /\ Core)
  <1>1. Init => Core
    BY CoreAtFirst
  <1>2. IInv /\ Core /\ SingleOwners /\ [Next]_vars => Core'
    BY CoreKept, CoreStutters DEF SingleOwners
  <1> QED
    BY <1>1, <1>2, Invariance, PTL DEF Spec

LEMMA NamesAlways ==
    Spec /\ NoMonitorCalls /\ OwnNames /\ []FewObjects => [](NamesSound /\ SingleOwners)
  <1>1. Init => Core /\ NamesSound
    BY CoreAtFirst, NamesAtFirst
  <1>2. IInv /\ Core /\ NamesSound /\ FewObjects => SingleOwners
    BY NamedServers DEF IInv, Shape, Core, NamesSound, SingleOwners
  <1>3. IInv /\ Core /\ SingleOwners /\ [Next]_vars => Core'
    BY CoreKept, CoreStutters DEF SingleOwners
  <1>4. IInv /\ Core /\ OwnNames /\ NamesSound /\ [Next]_vars => NamesSound'
    BY NamesKept, NamesStutter
  <1> QED
    BY <1>1, <1>2, <1>3, <1>4, OwnNamesKept, Invariance, PTL DEF Spec

(* A request that several servers could take over does not come up with two  *)
(* servers, and not with names of their own and few objects.                 *)
LEMMA OwnersSingle ==
    Spec /\ NoMonitorCalls /\ (NumServers <= 2 \/ (OwnNames /\ []FewObjects)) => []SingleOwners
  <1>1. NumServers <= 2 => SingleOwners
    BY FewServers DEF SingleOwners
  <1>2. CASE NumServers <= 2
    <2>1. SingleOwners
      BY <1>1, <1>2
    <2> QED
      BY <2>1, PTL
  <1>3. CASE ~(NumServers <= 2)
    BY <1>3, NamesAlways, PTL
  <1> QED
    BY <1>2, <1>3

(* One answer for one call: with programs that do not use Wait, Signal and   *)
(* Broadcast, two servers never both answer a request, no request is         *)
(* answered again, and no answer is left over for the next call, through     *)
(* every relaying, hand-over and refusal.                                    *)
THEOREM AnsweredOnce ==
    Spec /\ NoMonitorCalls /\ (NumServers <= 2 \/ (OwnNames /\ []FewObjects)) => []OneAnswer
  <1>1. Core => OneAnswer
    <2> SUFFICES ASSUME Core, NEW c \in Clients, mail[c] # << >>
                 PROVE  request[c] # NoMsg /\ Len(mail[c]) = 1
      BY DEF OneAnswer
    <2>1. PICK w \in Places : At(c, w) /\ (w = Nowhere <=> request[c] = NoMsg)
      BY DEF Core, Placed
    <2>2. w = InMailbox
      BY <2>1, EmptyMailbox
    <2>3. request[c] # NoMsg
      BY <2>1, <2>2, PlaceNames DEF Nowhere, InMailbox
    <2>4. PICK x : mail[c] = <<x>>
      BY <2>1, <2>2 DEF At, MailboxHas
    <2> QED
      BY <2>3, <2>4
  <1> QED
    BY <1>1, OwnersSingle, CoreAlways, PTL

LEMMA HoldsAlways ==
    Spec /\ NoMonitorCalls /\ NobodyAtNine /\ (NumServers <= 2 \/ (OwnNames /\ []FewObjects))
        => [](IInv /\ Core /\ NobodyAtNine /\ HoldsSound)
  <1>1. Init => HoldsSound /\ HeldShape
    BY HoldsAtFirst
  <1>2. IInv /\ Core /\ NobodyAtNine /\ HoldsSound /\ HeldShape /\ [Next]_vars
            => HoldsSound' /\ HeldShape'
    BY HoldsKept, HoldsStutter
  <1>3. NobodyAtNine /\ [Next]_vars => NobodyAtNine'
    BY ProgramKept DEF NobodyAtNine
  <1> QED
    BY <1>1, <1>2, <1>3, OwnersSingle, CoreAlways, PTL DEF Spec

(* Two client programs never both hold a lock, on whatever server it is and  *)
(* whatever server they ask: an owner is replaced only after it gave up the  *)
(* lock, and a client is told that it has a lock only when it is the owner.  *)
THEOREM HoldersApart ==
    Spec /\ NoMonitorCalls /\ NobodyAtNine /\ []FewObjects /\ (NumServers <= 2 \/ OwnNames)
        => []MutualExclusion
  <1>1. IInv /\ Core /\ HoldsSound /\ FewObjects => MutualExclusion
    <2> SUFFICES ASSUME IInv, Core, HoldsSound, FewObjects, NEW c \in Clients, NEW d \in Clients,
                        NEW i, i \in held[c], i \in held[d]
                 PROVE  c = d
      BY DEF MutualExclusion
    <2>1. Owned(c, i) /\ Owned(d, i)
      BY HoldsAre DEF Holds
    <2>2. PICK r \in Servers : i \in DOMAIN lockTable[r] /\ lockTable[r][i].owner = c
      BY <2>1 DEF Owned
    <2>3. PICK s \in Servers : i \in DOMAIN lockTable[s] /\ lockTable[s][i].owner = d
      BY <2>1 DEF Owned
    <2>4. r = s
      BY <2>2, <2>3, IndexOnce, CoreParts DEF IInv, Shape
    <2> QED
      BY <2>2, <2>3, <2>4
  <1> QED
    BY <1>1, HoldsAlways, PTL

(* A lock is taken from a client only while the client's own call of Release *)
(* of that lock is served: no request of another client, and none that comes *)
(* late or by another server, makes it free.                                 *)
THEOREM OwnersRelease ==
    Spec /\ NoMonitorCalls /\ NobodyAtNine /\ (NumServers <= 2 \/ (OwnNames /\ []FewObjects))
        => OnlyOwnerReleases
  <1>1. IInv /\ Core /\ NobodyAtNine /\ [Next]_vars =>
          [\A s \in Servers : \A i \in DOMAIN lockTable[s] :
              LET c == lockTable[s][i].owner
              IN  c \in Clients /\ lockTable'[s][i].owner # c =>
                      /\ request[c] # NoMsg
                      /\ \/ request[c].req = "RL" /\ request[c].idx = i
                         \/ request[c].req = "WT" /\ request[c].idx2 = i]_vars
    BY StepReleases DEF Released, LetsGo
  <1> QED
    BY <1>1, HoldsAlways, PTL DEF Spec, OnlyOwnerReleases

-----------------------------------------------------------------------------
(* The types, which the queues of QueuesSound are stated with.               *)

(* What clients and the mailboxes 9 get. *)
Result == [req : {"HI"}, idx : Int]
ResultBoxes == Clients \cup {Ret(s) : s \in Servers}

MailTypes == \A b \in ResultBoxes : mail[b] \in Seq(Result)

(* Nobody waits on a condition, and arrays hold numbers.                     *)
CondType == {C \in CondSlot : C.queue = << >>}

Arrays == UNION {[D -> Int] : D \in SUBSET Int}

MVarType == [name : Names \cup {NoName}, array : Arrays, toBeDeleted : BOOLEAN, deleted : BOOLEAN]

SlotsOf(table, T) == \A s \in Servers : \A i \in DOMAIN table[s] : table[s][i] \in T

(* Every lock has one of the program's names.                                *)
LocksNamed == \A s \in Servers : \A i \in DOMAIN lockTable[s] : lockTable[s][i].name \in Names

(* A client that acquires a lock named one of the indexes there are.         *)
ClientTypes ==
    /\ calls \in 0..program.maxCalls
    /\ held \in [Clients -> SUBSET Indexes]
    /\ \A c \in Clients :
          request[c] # NoMsg /\ request[c].req = "AQ" => request[c].idx \in Indexes

(* What is posted to clients are results.                                    *)
Posts(out) == \A d \in ResultBoxes : out[d] \in Seq(Result)

LEMMA ResultBoxNames ==
    /\ ResultBoxes \subseteq Boxes
    /\ \A s \in Servers : Srv(s) \notin ResultBoxes /\ Hdl(s) \notin ResultBoxes
    /\ \A c \in Clients, s \in Servers : Ret(s) # c
  BY LockServersAssumption DEF LockServersAssumption, ResultBoxes, Boxes, Srv, Hdl, Ret

LEMMA MailTypesPosted ==
    ASSUME MailTypes, NEW b, b \notin ResultBoxes, NEW out, Posts(out), Exchange(b, out)
    PROVE  MailTypes'
  <1>1. ASSUME NEW d \in ResultBoxes
        PROVE  mail'[d] \in Seq(Result)
    <2>1. mail[d] \in Seq(Result) /\ out[d] \in Seq(Result) /\ d \in Boxes /\ d # b
      BY ResultBoxNames DEF MailTypes, Posts
    <2>2. mail'[d] = mail[d] \o out[d]
      BY <2>1 DEF Exchange
    <2> QED
      BY <2>1, <2>2
  <1> QED
    BY <1>1 DEF MailTypes

LEMMA PostsReply ==
    ASSUME NEW c \in Boxes, NEW n \in Int
    PROVE  Posts(To(c, Reply(n)))
  <1>1. Reply(n) \in Result
    BY DEF Reply, Result
  <1>2. <<Reply(n)>> \in Seq(Result) /\ << >> \in Seq(Result)
    BY <1>1
  <1> QED
    BY <1>2, Posted, ResultBoxNames DEF Posts

LEMMA PostsElsewhere ==
    ASSUME NEW b \in Boxes, b \notin ResultBoxes, NEW x
    PROVE  Posts(To(b, x))
  <1>1. << >> \in Seq(Result)
    OBVIOUS
  <1>2. \A d \in ResultBoxes : To(b, x)[d] = << >>
    BY Posted, ResultBoxNames
  <1> QED
    BY <1>1, <1>2 DEF Posts

LEMMA PostsNothing == Posts(Nothing)
  BY ResultBoxNames DEF Posts, Nothing

LEMMA PostsBoth ==
    ASSUME NEW f, NEW g, Posts(f), Posts(g)
    PROVE  Posts(f ++ g)
  <1>1. ASSUME NEW d \in ResultBoxes
        PROVE  (f ++ g)[d] \in Seq(Result)
    <2>1. (f ++ g)[d] = f[d] \o g[d]
      BY ResultBoxNames DEF ++
    <2>2. f[d] \in Seq(Result) /\ g[d] \in Seq(Result)
      BY DEF Posts
    <2> QED
      BY <2>1, <2>2
  <1> QED
    BY <1>1 DEF Posts

(* The Server runs, or not. *)
UpTyped == up \in [Servers -> BOOLEAN]

(* The mail after a turn of a Server. *)
Sends(s) == \E out : Exchange(Srv(s), out) /\ Posts(out)

LEMMA SendsIt ==
    ASSUME NEW s, NEW out, Exchange(Srv(s), out), Posts(out)
    PROVE  Sends(s)
  BY Zenon DEF Sends

LEMMA SentTypes ==
    ASSUME MailTypes, NEW s \in Servers, Sends(s)
    PROVE  MailTypes'
  BY MailTypesPosted, ResultBoxNames DEF Sends

LEMMA AnswerSends ==
    ASSUME NEW s, NEW m, Taken(s, m), NEW n \in Int, Answer(s, m, n)
    PROVE  Sends(s)
  <1>1. PICK c \in Clients : c = Requester(m)
    BY DEF Taken
  <1>2. Posts(To(c, Reply(n)))
    BY BoxNames, PostsReply
  <1> QED
    BY <1>1, <1>2 DEF Answer, Sends

LEMMA CreateSends ==
    ASSUME NEW s, NEW m, Taken(s, m), m.id # NoID, NEW n \in Int,
           Exchange(Srv(s), To(m.client, Reply(n)))
    PROVE  Sends(s)
  <1>1. PICK c \in Clients : c = m.client
    BY DEF Taken
  <1>2. Posts(To(c, Reply(n)))
    BY BoxNames, PostsReply
  <1> QED
    BY <1>1, <1>2 DEF Sends

LEMMA Codes == ErrorCode \in Int /\ SuccessCode \in Int
  BY DEF ErrorCode, SuccessCode

LEMMA NotHereSends ==
    ASSUME NEW s, NEW m, Taken(s, m), NotHere(s, m)
    PROVE  Sends(s)
  <1>1. CASE PassOn(s, m)
    <2>1. PICK x : Exchange(Srv(s), To(Hdl(s), x))
      BY <1>1 DEF PassOn, Pass
    <2>2. Posts(To(Hdl(s), x))
      BY PostsElsewhere, BoxNames, ResultBoxNames DEF Taken
    <2> QED
      BY <2>1, <2>2 DEF Sends
  <1>2. CASE Answer(s, m, ErrorCode)
    BY <1>2, AnswerSends, Codes
  <1> QED
    BY <1>1, <1>2 DEF NotHere

LEMMA RefuseSends ==
    ASSUME NEW s, NEW m, Taken(s, m), Refuse(s, m)
    PROVE  Sends(s)
  BY AnswerSends, Codes DEF Refuse

LEMMA NothingSends ==
    ASSUME NEW s, Exchange(Srv(s), Nothing)
    PROVE  Sends(s)
  BY PostsNothing DEF Sends

LEMMA GrantSends ==
    ASSUME UpTyped, NEW s, NEW m, Taken(s, m), NEW L,
           Grant(s, L, To(Requester(m), Reply(SuccessCode)))
    PROVE  Sends(s) /\ UpTyped'
  <1>1. PICK out : out = To(Requester(m), Reply(SuccessCode))
    OBVIOUS
  <1>2. Posts(out)
    <2>1. PICK c \in Clients : c = Requester(m)
      BY DEF Taken
    <2> QED
      BY <1>1, <2>1, BoxNames, PostsReply, Codes
  <1>3. ASSUME Exchange(Srv(s), out)
        PROVE  Sends(s)
    BY <1>2, <1>3, SendsIt
  <1>4. ASSUME Head(L.queue) \in Boxes, Exchange(Srv(s), out ++ To(Head(L.queue), Reply(SuccessCode)))
        PROVE  Sends(s)
    <2>1. PICK d \in Boxes : d = Head(L.queue)
      BY <1>4
    <2>2. Posts(To(d, Reply(SuccessCode)))
      BY PostsReply, Codes
    <2>3. Posts(out ++ To(d, Reply(SuccessCode)))
      BY <1>2, <2>2, PostsBoth
    <2>4. Exchange(Srv(s), out ++ To(d, Reply(SuccessCode)))
      BY <1>4, <2>1
    <2> QED
      BY <2>3, <2>4, SendsIt
  <1>5. UpTyped'
    BY DEF Grant, UpTyped
  <1>6. Exchange(Srv(s), out) \/
        (Head(L.queue) \in Boxes /\ Exchange(Srv(s), out ++ To(Head(L.queue), Reply(SuccessCode))))
    BY <1>1, Zenon DEF Grant
  <1> QED
    BY <1>3, <1>4, <1>5, <1>6

(* The tables of conditions and monitor variables. *)
ObjectTypes == SlotsOf(condTable, CondType) /\ SlotsOf(mvTable, MVarType)

TypedTurn(s) == Sends(s) /\ ObjectTypes' /\ UpTyped'

LEMMA ObjectsStay ==
    ASSUME ObjectTypes, UpTyped, UNCHANGED <<condTable, mvTable, up>>, NEW s, Sends(s)
    PROVE  TypedTurn(s)
  BY DEF TypedTurn, ObjectTypes, UpTyped

LEMMA SlotSet ==
    ASSUME NEW t, NEW T, SlotsOf(t, T), t = [r \in Servers |-> t[r]], NEW s \in Servers,
           NEW i, NEW x \in T, NEW u, u = [t EXCEPT ![s] = With(@, i, x)]
    PROVE  SlotsOf(u, T)
  <1> SUFFICES ASSUME NEW r \in Servers, NEW j \in DOMAIN u[r]
               PROVE  u[r][j] \in T
    BY DEF SlotsOf
  <1>1. CASE r # s
    <2>1. u[r] = t[r]
      BY <1>1
    <2> QED
      BY <2>1 DEF SlotsOf
  <1>2. CASE r = s
    <2>1. u[r] = With(t[s], i, x)
      BY <1>2
    <2>2. DOMAIN u[r] = DOMAIN t[s] \cup {i}
      BY <2>1 DEF With
    <2>3. u[r][j] = IF j = i THEN x ELSE t[s][j]
      BY <2>1, <2>2 DEF With
    <2> QED
      BY <2>2, <2>3 DEF SlotsOf
  <1> QED
    BY <1>1, <1>2

LEMMA CondSet ==
    ASSUME Shape, ObjectTypes, UpTyped, NEW s \in Servers, Sends(s), UNCHANGED up,
           NEW i, NEW C \in CondType, SetCond(s, i, C)
    PROVE  TypedTurn(s)
  <1>1. condTable = [r \in Servers |-> condTable[r]]
    BY DEF Shape, TablesSound, Keys
  <1>2. SlotsOf(condTable, CondType)
    BY DEF ObjectTypes
  <1>3. condTable' = [condTable EXCEPT ![s] = With(@, i, C)] /\ mvTable' = mvTable
    BY DEF SetCond
  <1>4. SlotsOf(condTable', CondType)
    BY <1>1, <1>2, <1>3, SlotSet
  <1>5. SlotsOf(condTable, CondType)'
    BY <1>4 DEF SlotsOf
  <1>6. SlotsOf(mvTable, MVarType)'
    BY <1>3 DEF ObjectTypes, SlotsOf
  <1> QED
    BY <1>5, <1>6 DEF TypedTurn, ObjectTypes, UpTyped

LEMMA MVarSet ==
    ASSUME Shape, ObjectTypes, UpTyped, NEW s \in Servers, Sends(s), UNCHANGED up,
           NEW i, NEW V \in MVarType, SetMVar(s, i, V)
    PROVE  TypedTurn(s)
  <1>1. mvTable = [r \in Servers |-> mvTable[r]]
    BY DEF Shape, TablesSound, Keys
  <1>2. SlotsOf(mvTable, MVarType)
    BY DEF ObjectTypes
  <1>3. mvTable' = [mvTable EXCEPT ![s] = With(@, i, V)] /\ condTable' = condTable
    BY DEF SetMVar
  <1>4. SlotsOf(mvTable', MVarType)
    BY <1>1, <1>2, <1>3, SlotSet
  <1>5. SlotsOf(mvTable, MVarType)'
    BY <1>4 DEF SlotsOf
  <1>6. SlotsOf(condTable, CondType)'
    BY <1>3 DEF ObjectTypes, SlotsOf
  <1> QED
    BY <1>5, <1>6 DEF TypedTurn, ObjectTypes, UpTyped

LEMMA NotHereTypes ==
    ASSUME ObjectTypes, UpTyped, NEW s, NEW m, Taken(s, m), NotHere(s, m)
    PROVE  TypedTurn(s)
  <1>1. Sends(s)
    BY NotHereSends
  <1>2. UNCHANGED <<condTable, mvTable, up>>
    BY DEF NotHere, tables
  <1> QED
    BY <1>1, <1>2, ObjectsStay

LEMMA RefuseTypes ==
    ASSUME ObjectTypes, UpTyped, NEW s, NEW m, Taken(s, m), Refuse(s, m)
    PROVE  TypedTurn(s)
  <1>1. Sends(s)
    BY RefuseSends
  <1>2. UNCHANGED <<condTable, mvTable, up>>
    BY DEF Refuse, tables
  <1> QED
    BY <1>1, <1>2, ObjectsStay

(* Numbers that are answered. *)
LEMMA IndexNumbers ==
    ASSUME NEW table, Keys(table), NEW s \in Servers
    PROVE  /\ DOMAIN table[s] \subseteq Int /\ NextIndex(s, table[s]) \in Int
           /\ \A name : FindByName(table[s], name) \subseteq Int
  <1>1. DOMAIN table[s] \subseteq Indexes /\ IsFiniteSet(DOMAIN table[s])
    BY DEF Keys
  <1>2. Indexes \subseteq Int
    BY LockServersAssumption DEF Indexes, Servers, LockServersAssumption
  <1>3. Cardinality(DOMAIN table[s]) \in Nat
    BY <1>1, FS_CardinalityType
  <1>4. NextIndex(s, table[s]) \in Int
    BY <1>3, LockServersAssumption DEF NextIndex, Servers, LockServersAssumption
  <1> QED
    BY <1>1, <1>2, <1>4 DEF FindByName

LEMMA AnswerTypes ==
    ASSUME ObjectTypes, UpTyped, NEW s, NEW m, Taken(s, m), NEW n \in Int, Answer(s, m, n),
           UNCHANGED <<tables, up>>
    PROVE  TypedTurn(s)
  <1>1. Sends(s)
    BY AnswerSends
  <1>2. UNCHANGED <<condTable, mvTable, up>>
    BY DEF tables
  <1> QED
    BY <1>1, <1>2, ObjectsStay

-----------------------------------------------------------------------------

LEMMA CreateLockTypes ==
    ASSUME Shape, ObjectTypes, UpTyped, NEW s, NEW m, Taken(s, m), CreateLock(s, m)
    PROVE  TypedTurn(s)
  <1>1. s \in Servers /\ Keys(lockTable)
    BY DEF Taken, Shape, TablesSound
  <1>2. PICK i : i = NextIndex(s, lockTable[s])
    OBVIOUS
  <1>3. PICK F : F = FindByName(lockTable[s], m.name)
    OBVIOUS
  <1>4. i \in Int /\ F \subseteq Int
    BY <1>1, <1>2, <1>3, IndexNumbers
  <1>5. ASSUME NEW j \in F, Answer(s, m, j), UNCHANGED <<tables, ider, blocked, up>>
        PROVE  TypedTurn(s)
    BY <1>4, <1>5, AnswerTypes
  <1>6. ASSUME m.id # NoID, NEW L, SetLock(s, i, L), Exchange(Srv(s), To(m.client, Reply(i))),
               UNCHANGED <<ider, blocked, up>>
        PROVE  TypedTurn(s)
    <2>1. Sends(s)
      BY <1>4, <1>6, CreateSends
    <2>2. UNCHANGED <<condTable, mvTable, up>>
      BY <1>6 DEF SetLock
    <2> QED
      BY <2>1, <2>2, ObjectsStay
  <1>7. \/ \E j \in F : Answer(s, m, j) /\ UNCHANGED <<tables, ider, blocked, up>>
        \/ NotHere(s, m) \/ Refuse(s, m)
        \/ /\ m.id # NoID
           /\ \E L : SetLock(s, i, L)
           /\ Exchange(Srv(s), To(m.client, Reply(i))) /\ UNCHANGED <<ider, blocked, up>>
    BY <1>2, <1>3, Zenon DEF CreateLock
  <1> QED
    BY <1>5, <1>6, <1>7, NotHereTypes, RefuseTypes

LEMMA DestroyLockTypes ==
    ASSUME Shape, ObjectTypes, UpTyped, NEW s, NEW m, Taken(s, m), DestroyLock(s, m)
    PROVE  TypedTurn(s)
  <1>1. ASSUME NEW L, SetLock(s, m.idx, L), Answer(s, m, SuccessCode), UNCHANGED up
        PROVE  TypedTurn(s)
    <2>1. Sends(s)
      BY <1>1, AnswerSends, Codes
    <2>2. UNCHANGED <<condTable, mvTable, up>>
      BY <1>1 DEF SetLock
    <2> QED
      BY <2>1, <2>2, ObjectsStay
  <1>2. \/ NotHere(s, m)
        \/ (\E L : SetLock(s, m.idx, L)) /\ Answer(s, m, SuccessCode) /\ UNCHANGED <<ider, blocked, up>>
    BY Zenon DEF DestroyLock
  <1> QED
    BY <1>1, <1>2, NotHereTypes

LEMMA AcquireTypes ==
    ASSUME Shape, ObjectTypes, UpTyped, NEW s, NEW m, Taken(s, m), Acquire(s, m)
    PROVE  TypedTurn(s)
  <1>1. ASSUME NEW L, SetLock(s, m.idx, L), Sends(s), UNCHANGED up
        PROVE  TypedTurn(s)
    <2>1. UNCHANGED <<condTable, mvTable, up>>
      BY <1>1 DEF SetLock
    <2> QED
      BY <1>1, <2>1, ObjectsStay
  <1>2. \/ NotHere(s, m) \/ Refuse(s, m)
        \/ /\ \E L : SetLock(s, m.idx, L)
           /\ Answer(s, m, SuccessCode) \/ Exchange(Srv(s), Nothing)
           /\ UNCHANGED <<ider, blocked, up>>
    BY Zenon DEF Acquire
  <1>3. Answer(s, m, SuccessCode) \/ Exchange(Srv(s), Nothing) => Sends(s)
    BY AnswerSends, Codes, NothingSends
  <1> QED
    BY <1>1, <1>2, <1>3, NotHereTypes, RefuseTypes

LEMMA ReleaseTypes ==
    ASSUME Shape, ObjectTypes, UpTyped, NEW s, NEW m, Taken(s, m), Release(s, m)
    PROVE  TypedTurn(s)
  <1>1. ASSUME NEW L, SetLock(s, m.idx, L), NEW K, Grant(s, K, To(Requester(m), Reply(SuccessCode)))
        PROVE  TypedTurn(s)
    <2>1. Sends(s) /\ UpTyped'
      BY <1>1, GrantSends
    <2>2. UNCHANGED <<condTable, mvTable>>
      BY <1>1 DEF SetLock
    <2> QED
      BY <2>1, <2>2 DEF TypedTurn, ObjectTypes, SlotsOf
  <1>2. \/ NotHere(s, m) \/ Refuse(s, m)
        \/ /\ \E L : SetLock(s, m.idx, L)
           /\ \E K : Grant(s, K, To(Requester(m), Reply(SuccessCode)))
    BY Zenon DEF Release
  <1> QED
    BY <1>1, <1>2, NotHereTypes, RefuseTypes

LEMMA CreateConditionTypes ==
    ASSUME Shape, ObjectTypes, UpTyped, NEW s, NEW m, Taken(s, m), m.name \in Names,
           CreateCondition(s, m)
    PROVE  TypedTurn(s)
  <1>1. s \in Servers /\ Keys(condTable)
    BY DEF Taken, Shape, TablesSound
  <1>2. PICK i : i = NextIndex(s, condTable[s])
    OBVIOUS
  <1>3. PICK F : F = FindByName(condTable[s], m.name)
    OBVIOUS
  <1>4. i \in Int /\ F \subseteq Int
    BY <1>1, <1>2, <1>3, IndexNumbers
  <1>5. ASSUME NEW j \in F, Answer(s, m, j), UNCHANGED <<tables, ider, blocked, up>>
        PROVE  TypedTurn(s)
    BY <1>4, <1>5, AnswerTypes
  <1> DEFINE C == [name |-> m.name, queue |-> << >>, toBeDeleted |-> FALSE, deleted |-> FALSE]
  <1>6. ASSUME m.id # NoID, SetCond(s, i, C), Exchange(Srv(s), To(m.client, Reply(i))),
               UNCHANGED <<ider, blocked, up>>
        PROVE  TypedTurn(s)
    <2>1. Sends(s)
      BY <1>4, <1>6, CreateSends
    <2>2. << >> \in Seq(Ids)
      OBVIOUS
    <2>3. C \in CondType
      BY <2>2 DEF CondType, CondSlot
    <2> HIDE DEF C
    <2> QED
      BY <1>1, <1>6, <2>1, <2>3, CondSet
  <1>7. \/ \E j \in F : Answer(s, m, j) /\ UNCHANGED <<tables, ider, blocked, up>>
        \/ NotHere(s, m) \/ Refuse(s, m)
        \/ /\ m.id # NoID /\ SetCond(s, i, C)
           /\ Exchange(Srv(s), To(m.client, Reply(i))) /\ UNCHANGED <<ider, blocked, up>>
    BY <1>2, <1>3, Zenon DEF CreateCondition
  <1> HIDE DEF C
  <1> QED
    BY <1>5, <1>6, <1>7, NotHereTypes, RefuseTypes

LEMMA DestroyConditionTypes ==
    ASSUME Shape, ObjectTypes, UpTyped, NEW s, NEW m, Taken(s, m), DestroyCondition(s, m)
    PROVE  TypedTurn(s)
  <1>1. s \in Servers
    BY DEF Taken
  <1>2. ASSUME NEW K, K = condTable[s][m.idx], m.idx \in DOMAIN condTable[s], NEW C,
               C = [K EXCEPT !.toBeDeleted = TRUE, !.deleted = @ \/ K.queue = << >>],
               SetCond(s, m.idx, C),
               Answer(s, m, SuccessCode), UNCHANGED <<ider, blocked, up>>
        PROVE  TypedTurn(s)
    <2>1. K \in CondType
      BY <1>1, <1>2 DEF ObjectTypes, SlotsOf
    <2>2. C \in CondType
      BY <2>1, <1>2 DEF CondType, CondSlot
    <2>3. Sends(s)
      BY <1>2, AnswerSends, Codes
    <2> QED
      BY <1>1, <1>2, <2>2, <2>3, CondSet
  <1>3. \/ NotHere(s, m)
        \/ /\ m.idx \in DOMAIN condTable[s]
           /\ \E K, C : /\ K = condTable[s][m.idx]
                        /\ C = [K EXCEPT !.toBeDeleted = TRUE, !.deleted = @ \/ K.queue = << >>]
                        /\ SetCond(s, m.idx, C)
           /\ Answer(s, m, SuccessCode) /\ UNCHANGED <<ider, blocked, up>>
    BY Zenon DEF DestroyCondition
  <1> QED
    BY <1>2, <1>3, NotHereTypes

LEMMA CreateMVTypes ==
    ASSUME Shape, ObjectTypes, UpTyped, NEW s, NEW m, Taken(s, m), CreateMV(s, m)
    PROVE  TypedTurn(s)
  <1>1. s \in Servers /\ Keys(mvTable)
    BY DEF Taken, Shape, TablesSound
  <1>2. PICK i : i = NextIndex(s, mvTable[s])
    OBVIOUS
  <1>3. PICK F : F = FindByName(mvTable[s], m.name)
    OBVIOUS
  <1>4. i \in Int /\ F \subseteq Int
    BY <1>1, <1>2, <1>3, IndexNumbers
  <1>5. Indexes \cup {ErrorCode} \subseteq Int
    BY Codes, LockServersAssumption DEF Indexes, Servers, LockServersAssumption
  <1>6. ASSUME NEW j \in Int, Answer(s, m, j), UNCHANGED <<tables, ider, blocked, up>>
        PROVE  TypedTurn(s)
    BY <1>6, AnswerTypes
  <1>7. ASSUME m.id # NoID, NEW a \in [0..(m.idx2 - 1) -> Values], NEW V,
               V = [name |-> m.name, array |-> a, toBeDeleted |-> FALSE, deleted |-> FALSE],
               SetMVar(s, i, V), Exchange(Srv(s), To(m.client, Reply(i))),
               UNCHANGED <<ider, blocked, up>>
        PROVE  TypedTurn(s)
    <2>1. Sends(s)
      BY <1>4, <1>7, CreateSends
    <2>2. m.idx2 \in Int /\ m.name \in Names \cup {NoName}
      BY DEF Taken, Message
    <2>3. PICK D : D = 0..(m.idx2 - 1)
      OBVIOUS
    <2>4. D \in SUBSET Int /\ a \in [D -> Values] /\ Values \subseteq Int
      BY <1>7, <2>2, <2>3, LockServersAssumption DEF LockServersAssumption
    <2>5. a \in Arrays
      <3>1. a \in [D -> Int]
        BY <2>4
      <3> QED
        BY <2>4, <3>1 DEF Arrays
    <2>6. V \in MVarType
      BY <1>7, <2>2, <2>5 DEF MVarType
    <2> QED
      BY <1>1, <1>7, <2>1, <2>6, MVarSet
  <1>8. \/ \E j \in F \cup Indexes \cup {ErrorCode} :
              Answer(s, m, j) /\ UNCHANGED <<tables, ider, blocked, up>>
        \/ NotHere(s, m) \/ Refuse(s, m)
        \/ /\ m.id # NoID
           /\ \E a \in [0..(m.idx2 - 1) -> Values] : \E V :
                /\ V = [name |-> m.name, array |-> a, toBeDeleted |-> FALSE, deleted |-> FALSE]
                /\ SetMVar(s, i, V)
           /\ Exchange(Srv(s), To(m.client, Reply(i))) /\ UNCHANGED <<ider, blocked, up>>
    BY <1>2, <1>3, Zenon DEF CreateMV
  <1> QED
    BY <1>4, <1>5, <1>6, <1>7, <1>8, NotHereTypes, RefuseTypes

LEMMA MVarTurnTypes ==
    ASSUME Shape, ObjectTypes, UpTyped, NEW s, NEW m, Taken(s, m),
           DestroyMV(s, m) \/ GetMV(s, m) \/ SetMV(s, m)
    PROVE  TypedTurn(s)
  <1>1. s \in Servers
    BY DEF Taken
  <1>2. ASSUME NEW V, V = mvTable[s][m.idx], m.idx \in DOMAIN mvTable[s], NEW W,
               \/ W = [V EXCEPT !.toBeDeleted = TRUE, !.deleted = TRUE]
               \/ W = [V EXCEPT !.array[m.idx2] = m.val],
               SetMVar(s, m.idx, W), Answer(s, m, SuccessCode), UNCHANGED <<ider, blocked, up>>
        PROVE  TypedTurn(s)
    <2>1. V \in MVarType
      BY <1>1, <1>2 DEF ObjectTypes, SlotsOf
    <2>2. W \in MVarType
      <3>1. CASE W = [V EXCEPT !.toBeDeleted = TRUE, !.deleted = TRUE]
        BY <2>1, <3>1 DEF MVarType
      <3>2. CASE W = [V EXCEPT !.array[m.idx2] = m.val]
        <4>1. m.val \in Int
          BY DEF Taken, Message
        <4>2. PICK D \in SUBSET Int : V.array \in [D -> Int]
          BY <2>1 DEF MVarType, Arrays
        <4>3. [V.array EXCEPT ![m.idx2] = m.val] \in [D -> Int]
          BY <4>1, <4>2
        <4>4. [V.array EXCEPT ![m.idx2] = m.val] \in Arrays
          BY <4>3 DEF Arrays
        <4>5. PICK a : a = [V.array EXCEPT ![m.idx2] = m.val]
          OBVIOUS
        <4>6. W = [V EXCEPT !.array = a]
          BY <3>2, <4>5
        <4> QED
          BY <2>1, <4>4, <4>5, <4>6 DEF MVarType
      <3> QED
        BY <1>2, <3>1, <3>2
    <2>3. Sends(s)
      BY <1>2, AnswerSends, Codes
    <2> QED
      BY <1>1, <1>2, <2>2, <2>3, MVarSet
  <1>3. ASSUME NEW a, a = mvTable[s][m.idx].array, m.idx \in DOMAIN mvTable[s], m.idx2 \in DOMAIN a,
               Answer(s, m, a[m.idx2]), UNCHANGED <<tables, ider, blocked, up>>
        PROVE  TypedTurn(s)
    <2>1. a \in Arrays
      BY <1>1, <1>3 DEF ObjectTypes, SlotsOf, MVarType
    <2>2. PICK D \in SUBSET Int : a \in [D -> Int]
      BY <2>1 DEF Arrays
    <2>4. a[m.idx2] \in Int
      BY <1>3, <2>2
    <2>3. PICK n \in Int : n = a[m.idx2]
      BY <2>4
    <2> QED
      BY <1>3, <2>3, AnswerTypes
  <1>4. \/ NotHere(s, m) \/ Refuse(s, m)
        \/ \E V, W : /\ V = mvTable[s][m.idx] /\ m.idx \in DOMAIN mvTable[s]
                     /\ \/ W = [V EXCEPT !.toBeDeleted = TRUE, !.deleted = TRUE]
                        \/ W = [V EXCEPT !.array[m.idx2] = m.val]
                     /\ SetMVar(s, m.idx, W) /\ Answer(s, m, SuccessCode)
                     /\ UNCHANGED <<ider, blocked, up>>
        \/ \E a : /\ a = mvTable[s][m.idx].array /\ m.idx \in DOMAIN mvTable[s]
                  /\ m.idx2 \in DOMAIN a /\ Answer(s, m, a[m.idx2])
                  /\ UNCHANGED <<tables, ider, blocked, up>>
    <2>1. CASE DestroyMV(s, m)
      BY <2>1, Zenon DEF DestroyMV
    <2>2. CASE GetMV(s, m)
      BY <2>2, Zenon DEF GetMV
    <2>3. CASE SetMV(s, m)
      BY <2>3, Zenon DEF SetMV
    <2> QED
      BY <2>1, <2>2, <2>3
  <1> QED
    BY <1>2, <1>3, <1>4, NotHereTypes, RefuseTypes

(* The name that a request to create gives is one of the program's. *)
LEMMA TakenName ==
    ASSUME IInv, Core, NEW s \in Servers, NEW m \in Message, Taken(s, m), m.req \in {"CL", "CC"}
    PROVE  m.name \in Names
  <1>1. Shape /\ AllPlaced /\ ServerCopies(s)
    BY DEF IInv, Core, AllPlaced, CopiesSound
  <1>2. PICK c \in Clients : c = Requester(m)
    BY DEF Taken
  <1>3. m \in RangeOf(mail[Srv(s)])
    BY <1>1, TakenInMail
  <1>4. request[c] # NoMsg
    BY <1>1, <1>2, <1>3, InCall
  <1>5. Key(m) = Key(request[c])
    BY <1>1, <1>2, <1>3 DEF ServerCopies
  <1>6. MayCreate(c, m)
    BY <1>4, <1>5, KeyCreates
  <1>7. program \in ProgramType
    BY <1>1, LockServersAssumption DEF Shape, LockServersAssumption
  <1>8. program.locks[c] \subseteq Names /\ program.conds[c] \subseteq Names
    BY <1>7 DEF ProgramType
  <1> QED
    BY <1>6, <1>8 DEF MayCreate

LEMMA ServeTypes ==
    ASSUME IInv, Core, ObjectTypes, UpTyped, NEW s \in Servers, NEW m \in Message, Taken(s, m),
           Server(s)
    PROVE  TypedTurn(s)
  <1>1. Shape
    BY DEF IInv
  <1>2. ~WaitResumes(s)
    BY <1>1 DEF WaitResumes, Shape
  <1>3. Serve(s, m)
    BY <1>2 DEF Server, Taken
  <1>4. m.req \notin MonitorCalls
    BY DEF Taken, PlainCalls
  <1>5. ~Wait(s, m) /\ ~Signal(s, m) /\ ~Broadcast(s, m)
    BY <1>4 DEF Wait, Signal, Broadcast, Takes, MonitorCalls
  <1>6. CASE CreateCondition(s, m)
    <2>1. m.name \in Names
      BY <1>6, TakenName DEF CreateCondition, Takes
    <2> QED
      BY <1>1, <1>6, <2>1, CreateConditionTypes
  <1>7. CASE CreateLock(s, m) \/ DestroyLock(s, m) \/ Acquire(s, m) \/ Release(s, m)
    BY <1>1, <1>7, CreateLockTypes, DestroyLockTypes, AcquireTypes, ReleaseTypes
  <1>8. CASE \/ DestroyCondition(s, m) \/ CreateMV(s, m) \/ DestroyMV(s, m) \/ GetMV(s, m)
             \/ SetMV(s, m)
    BY <1>1, <1>8, DestroyConditionTypes, CreateMVTypes, MVarTurnTypes
  <1> QED
    BY <1>3, <1>5, <1>6, <1>7, <1>8 DEF Serve

(* The names of the locks. *)
LEMMA TurnObjects ==
    ASSUME NEW s, NEW m, Turn(s, m)
    PROVE  SameObjects \/ NewObject(s, m)
  <1>1. UNCHANGED tables => SameObjects
    BY TablesStay
  <1> QED
    BY <1>1 DEF Turn, AnsweredTurn, CreatedTurn, GrantedTurn, FreedTurn, HandedTurn, QueuedTurn,
                PassedTurn

LEMMA LocksNamedSame ==
    ASSUME LocksNamed, SameObjects
    PROVE  LocksNamed'
  BY DEF LocksNamed, SameObjects, SameNames

LEMMA LocksNamedMore ==
    ASSUME LocksNamed, NEW s \in Servers, NEW m, NewObject(s, m), m.req = "CL" => m.name \in Names
    PROVE  LocksNamed'
  <1>1. CASE lockTable' = lockTable
    BY <1>1 DEF LocksNamed
  <1>2. ASSUME NEW x, Grows(lockTable, lockTable', s, x), x.name \in Names
        PROVE  LocksNamed'
    <2>1. PICK k : k = NextIndex(s, lockTable[s])
      OBVIOUS
    <2>2. lockTable'[s] = With(lockTable[s], k, x) /\ \A r \in Servers \ {s} : lockTable'[r] = lockTable[r]
      BY <1>2, <2>1 DEF Grows
    <2>3. \A i \in DOMAIN lockTable'[s] : lockTable'[s][i].name \in Names
      BY <1>2, <2>2 DEF With, LocksNamed
    <2> QED
      BY <2>2, <2>3 DEF LocksNamed
  <1> QED
    BY <1>1, <1>2 DEF NewObject

(* A turn of a Server. *)
SlotsTyped == LocksNamed /\ ObjectTypes /\ UpTyped /\ MailTypes

LEMMA ServerTurnTypes ==
    ASSUME IInv, Core, SlotsTyped, NEW s \in Servers, Server(s)
    PROVE  SlotsTyped'
  <1>1. Shape /\ SmallMail
    BY CoreParts DEF IInv
  <1>2. PICK m \in Message : Taken(s, m) /\ Turn(s, m)
    BY <1>1, ServerTurns
  <1>3. LocksNamed /\ ObjectTypes /\ UpTyped /\ MailTypes
    BY DEF SlotsTyped
  <1>4. TypedTurn(s)
    BY <1>2, <1>3, ServeTypes
  <1>5. MailTypes'
    BY <1>3, <1>4, SentTypes DEF TypedTurn
  <1>6. m.req = "CL" => m.name \in Names
    BY <1>2, TakenName
  <1>7. LocksNamed'
    BY <1>2, <1>3, <1>6, TurnObjects, LocksNamedSame, LocksNamedMore
  <1> QED
    BY <1>4, <1>5, <1>7 DEF SlotsTyped, TypedTurn

(* A turn of a MessageHandler. *)
HandlerSends(s) == \E out : Exchange(Hdl(s), out) /\ Posts(out)

LEMMA HandlerSendsIt ==
    ASSUME NEW s, NEW out, Exchange(Hdl(s), out), Posts(out)
    PROVE  HandlerSends(s)
  BY Zenon DEF HandlerSends

LEMMA RelaySends ==
    ASSUME NEW s \in Servers, Relay(s)
    PROVE  HandlerSends(s)
  <1>1. CASE NumServers = 1
    <2>1. PICK x : Exchange(Hdl(s), To(Srv(s), x))
      BY <1>1, Zenon DEF Relay
    <2>2. Posts(To(Srv(s), x))
      BY PostsElsewhere, BoxNames, ResultBoxNames
    <2> QED
      BY <2>1, <2>2, HandlerSendsIt
  <1>2. CASE NumServers # 1
    <2>1. PICK out, x :
              /\ out = [b \in Boxes |-> IF \E r \in Servers \ {s} : b = Hdl(r) THEN <<x>> ELSE << >>]
              /\ Exchange(Hdl(s), out)
      BY <1>2, Zenon DEF Relay
    <2>2. ASSUME NEW d \in ResultBoxes
          PROVE  out[d] \in Seq(Result)
      <3>1. d \in Boxes /\ \A r \in Servers : d # Hdl(r)
        BY ResultBoxNames
      <3>2. out[d] = << >>
        BY <2>1, <3>1
      <3> QED
        BY <3>2
    <2>3. Posts(out)
      BY <2>2 DEF Posts
    <2> QED
      BY <2>1, <2>3, HandlerSendsIt
  <1> QED
    BY <1>1, <1>2

LEMMA AskSends ==
    ASSUME Shape, NEW s \in Servers, Ask(s)
    PROVE  HandlerSends(s)
  <1>1. PICK m \in Message : Handles(s, m)
    BY HeadHandled DEF Ask
  <1>2. m = Head(mail[Hdl(s)])
    BY <1>1 DEF Handles
  <1>3. PICK r \in Servers : m.from = Hdl(r)
    <2>1. m.from # Srv(s) /\ m \in ToHandler(s)
      BY <1>1, <1>2 DEF Ask, Handles
    <2> QED
      BY <2>1 DEF ToHandler
  <1>4. \A x : Posts(To(m.from, x)) /\ Posts(To(Srv(s), x))
    BY <1>3, PostsElsewhere, BoxNames, ResultBoxNames
  <1>5. \A x, y : Posts(To(Srv(s), x) ++ To(m.from, y))
    BY <1>4, PostsBoth
  <1>6. \/ \E x, y : Exchange(Hdl(s), To(Srv(s), x) ++ To(m.from, y))
        \/ \E x : Exchange(Hdl(s), To(m.from, x))
    BY <1>2, Zenon DEF Ask
  <1>7. CASE \E x, y : Exchange(Hdl(s), To(Srv(s), x) ++ To(m.from, y))
    BY <1>5, <1>7, HandlerSendsIt
  <1>8. CASE \E x : Exchange(Hdl(s), To(m.from, x))
    BY <1>4, <1>8, HandlerSendsIt
  <1> QED
    BY <1>6, <1>7, <1>8

LEMMA CountSends ==
    ASSUME Shape, NEW s \in Servers, CountReply(s)
    PROVE  HandlerSends(s)
  <1>1. PICK m \in Message : Handles(s, m)
    BY HeadHandled DEF CountReply
  <1>2. m = Head(mail[Hdl(s)]) /\ m.client \in Boxes
    BY <1>1, BoxNames DEF Handles
  <1>3. \/ Exchange(Hdl(s), Nothing)
        \/ \E e : Exchange(Hdl(s), Verdict(s, e, m))
    BY <1>2, Zenon DEF CountReply
  <1>4. ASSUME NEW e
        PROVE  Posts(Verdict(s, e, m))
    <2>1. Posts(Nothing) /\ Posts(To(m.client, Reply(ErrorCode)))
      BY <1>2, PostsNothing, PostsReply, Codes
    <2>2. \A x : Posts(To(Srv(s), x))
      BY PostsElsewhere, BoxNames, ResultBoxNames
    <2> QED
      BY <2>1, <2>2 DEF Verdict
  <1>5. CASE Exchange(Hdl(s), Nothing)
    BY <1>5, PostsNothing, HandlerSendsIt
  <1>6. CASE \E e : Exchange(Hdl(s), Verdict(s, e, m))
    BY <1>4, <1>6, HandlerSendsIt
  <1> QED
    BY <1>3, <1>5, <1>6

LEMMA SlotsTypedSame ==
    ASSUME SlotsTyped, UNCHANGED <<tables, up>>, MailTypes'
    PROVE  SlotsTyped'
  <1>1. lockTable' = lockTable /\ condTable' = condTable /\ mvTable' = mvTable
    BY DEF tables
  <1> QED
    BY <1>1 DEF SlotsTyped, LocksNamed, ObjectTypes, SlotsOf, UpTyped

LEMMA HandlerTurnTypes ==
    ASSUME IInv, SlotsTyped, NEW s \in Servers, MessageHandler(s)
    PROVE  SlotsTyped'
  <1>1. Shape /\ MailTypes
    BY DEF IInv, SlotsTyped
  <1>2. HandlerSends(s)
    BY <1>1, RelaySends, AskSends, CountSends DEF MessageHandler
  <1>3. MailTypes'
    BY <1>1, <1>2, MailTypesPosted, ResultBoxNames DEF HandlerSends
  <1>4. UNCHANGED <<tables, up>>
    BY DEF MessageHandler, Relay, Ask, CountReply
  <1> QED
    BY <1>3, <1>4, SlotsTypedSame

(* What a client asks for when it acquires a lock. *)
Asking(r, q) == "req" \in DOMAIN r /\ r.req = q

LEMMA AskingSecond ==
    ASSUME NEW R, NEW q, \A r \in R : Asking(r, q), NEW numbers
    PROVE  \A x \in Second(R, numbers) : Asking(x, q)
  <1> SUFFICES ASSUME NEW x \in Second(R, numbers)
               PROVE  Asking(x, q)
    OBVIOUS
  <1>1. PICK r \in R, k \in numbers : x = [r EXCEPT !.idx2 = k]
    BY DEF Second
  <1>2. "req" \in DOMAIN r /\ r.req = q
    BY <1>1 DEF Asking
  <1>3. "req" \in DOMAIN x /\ x.req = r.req
    BY <1>1, <1>2
  <1> QED
    BY <1>2, <1>3 DEF Asking

LEMMA AcquiresIndex ==
    ASSUME Shape, NEW c \in Clients, NEW m \in Requests(c), m.req = "AQ"
    PROVE  m.idx \in Indexes
  <1>1. \A q, names : \A r \in Naming(q, c, names) : Asking(r, q)
    BY DEF Naming, Default, Asking
  <1>2. \A q, table : \A r \in On(q, c, table) : Asking(r, q)
    BY DEF On, Default, Asking
  <1>3. m \notin CreateLock_Syscall(c) \cup CreateCondition_Syscall(c)
    BY <1>1 DEF CreateLock_Syscall, CreateCondition_Syscall, Asking
  <1>4. m \notin DestroyLock_Syscall(c) \cup Release_Syscall(c) \cup DestroyCondition_Syscall(c)
                     \cup DestroyMV_Syscall(c)
    BY <1>2 DEF DestroyLock_Syscall, Release_Syscall, DestroyCondition_Syscall,
                DestroyMV_Syscall, Asking
  <1>5. m \notin Wait_Syscall(c) \cup Signal_Syscall(c) \cup Broadcast_Syscall(c)
    <2>1. /\ \A x \in Wait_Syscall(c) : Asking(x, "WT")
          /\ \A x \in Signal_Syscall(c) : Asking(x, "SG")
          /\ \A x \in Broadcast_Syscall(c) : Asking(x, "BC")
      BY <1>2, AskingSecond DEF Wait_Syscall, Signal_Syscall, Broadcast_Syscall
    <2> QED
      BY <2>1 DEF Asking
  <1>6. m \notin CreateMV_Syscall(c) \cup GetMV_Syscall(c)
    <2>1. \A x \in CreateMV_Syscall(c) : Asking(x, "CM")
      BY <1>1, AskingSecond DEF CreateMV_Syscall
    <2>2. \A x \in GetMV_Syscall(c) : Asking(x, "GM")
      BY <1>2, AskingSecond DEF GetMV_Syscall
    <2> QED
      BY <2>1, <2>2 DEF Asking
  <1>7. m \notin SetMV_Syscall(c)
    <2> SUFFICES ASSUME m \in SetMV_Syscall(c)
                 PROVE  FALSE
      OBVIOUS
    <2>1. PICK r \in Second(On("SM", c, mvTable), Cells), v \in Values : m = [r EXCEPT !.val = v]
      BY DEF SetMV_Syscall
    <2>2. Asking(r, "SM")
      BY <1>2, <2>1, AskingSecond
    <2>3. "req" \in DOMAIN r /\ r.req = "SM"
      BY <2>2 DEF Asking
    <2>4. m.req = r.req
      BY <2>1, <2>3
    <2> QED
      BY <2>3, <2>4
  <1>8. m \in On("AQ", c, lockTable)
    BY <1>3, <1>4, <1>5, <1>6, <1>7 DEF Requests, Acquire_Syscall
  <1>9. PICK i \in Indices(lockTable) : m = [Default EXCEPT !.req = "AQ", !.idx = i, !.from = c]
    BY <1>8 DEF On
  <1>10. m.idx = i
    BY <1>9 DEF Default
  <1>11. Indices(lockTable) \subseteq Indexes
    BY DEF Indices, Shape, TablesSound, Keys
  <1> QED
    BY <1>9, <1>10, <1>11

(* Calls and returns. *)
LEMMA MailTypesSame ==
    ASSUME MailTypes, \A d \in ResultBoxes : mail'[d] = mail[d]
    PROVE  MailTypes'
  BY DEF MailTypes

LEMMA CallTypes ==
    ASSUME IInv, SlotsTyped, ClientTypes, NEW c \in Clients, Call(c)
    PROVE  SlotsTyped' /\ ClientTypes'
  <1>1. Shape /\ MailTypes /\ program \in ProgramType
    BY LockServersAssumption DEF IInv, SlotsTyped, Shape, LockServersAssumption
  <1>2. PICK s \in Servers, m \in Requests(c) :
              /\ mail' = [mail EXCEPT ![Srv(s)] = Append(@, m)]
              /\ request' = [request EXCEPT ![c] = m]
              /\ held' = [held EXCEPT ![c] = IF m.req = "RL" THEN @ \ {m.idx}
                                             ELSE IF m.req = "WT" THEN @ \ {m.idx2} ELSE @]
    BY DEF Call
  <1>3. ASSUME NEW d \in ResultBoxes
        PROVE  mail'[d] = mail[d]
    <2>1. d \in Boxes /\ d # Srv(s)
      BY ResultBoxNames
    <2>2. mail = [b \in Boxes |-> mail[b]]
      BY <1>1 DEF Shape
    <2> QED
      BY <1>2, <2>1, <2>2
  <1>4. MailTypes'
    BY <1>1, <1>3, MailTypesSame
  <1>5. UNCHANGED <<tables, up>>
    BY DEF Call
  <1>6. SlotsTyped'
    BY <1>4, <1>5, SlotsTypedSame
  <1>7. PICK H : H = IF m.req = "RL" THEN held[c] \ {m.idx}
                     ELSE IF m.req = "WT" THEN held[c] \ {m.idx2} ELSE held[c]
    OBVIOUS
  <1>8. held' = [held EXCEPT ![c] = H]
    BY <1>2, <1>7
  <1>9. held \in [Clients -> SUBSET Indexes]
    BY DEF ClientTypes
  <1>10. H \in SUBSET Indexes
    BY <1>7, <1>9
  <1>11. held' \in [Clients -> SUBSET Indexes]
    BY <1>8, <1>9, <1>10
  <1>12. calls' \in 0..program'.maxCalls
    <2>1. program' = program /\ calls' = calls + 1 /\ calls < program.maxCalls
      BY DEF Call
    <2>2. calls \in 0..program.maxCalls /\ program.maxCalls \in Nat
      BY <1>1 DEF ClientTypes, ProgramType
    <2> QED
      BY <2>1, <2>2
  <1>13. ASSUME NEW d \in Clients, request'[d] # NoMsg, request'[d].req = "AQ"
         PROVE  request'[d].idx \in Indexes
    <2>1. CASE d = c /\ request'[d] = m
      BY <1>1, <1>13, <2>1, AcquiresIndex
    <2>2. CASE request'[d] = request[d]
      BY <1>13, <2>2 DEF ClientTypes
    <2>3. (d = c /\ request'[d] = m) \/ request'[d] = request[d] \/ c \notin DOMAIN request
      BY <1>2
    <2>4. c \in DOMAIN request \/ request'[d] = request[d]
      BY <1>2
    <2> QED
      BY <2>1, <2>2, <2>3, <2>4
  <1> QED
    BY <1>6, <1>11, <1>12, <1>13 DEF ClientTypes

LEMMA ReturnTypes ==
    ASSUME IInv, Core, SlotsTyped, ClientTypes, NEW c \in Clients, Return(c)
    PROVE  SlotsTyped' /\ ClientTypes'
  <1>1. /\ Shape /\ SmallMail /\ request \in [Clients -> Message \cup {NoMsg}] /\ CallSound(c)
        /\ MailTypes
    BY CoreParts DEF IInv, SlotsTyped
  <1>2. request[c].req \in PlainCalls /\ request[c] # NoMsg /\ mail[c] # << >>
    BY <1>1 DEF CallSound, Return
  <1>3. ReturnedTurn(c)
    BY <1>1, <1>2, ReturnedTurns
  <1>4. ASSUME NEW d \in ResultBoxes
        PROVE  mail'[d] \in Seq(Result)
    <2>1. d \in Boxes /\ mail[d] \in Seq(Result)
      BY <1>1, ResultBoxNames DEF MailTypes
    <2>2. Nothing[d] = << >>
      BY <2>1 DEF Nothing
    <2>3. mail'[d] = (IF d = c THEN Tail(mail[d]) ELSE mail[d]) \o << >>
      BY <2>1, <2>2 DEF Return, Exchange
    <2>4. d = c => Tail(mail[d]) \in Seq(Result)
      BY <1>2, <2>1
    <2> QED
      BY <2>1, <2>3, <2>4
  <1>5. MailTypes'
    BY <1>4 DEF MailTypes
  <1>6. UNCHANGED <<tables, up>> /\ calls' = calls /\ program' = program
    BY DEF Return
  <1>7. SlotsTyped'
    BY <1>5, <1>6, SlotsTypedSame
  <1>8. PICK H : H = IF Head(mail[c]).idx = ErrorCode \/ request[c].req # "AQ" THEN held[c]
                     ELSE held[c] \cup {request[c].idx}
    OBVIOUS
  <1>9. held' = [held EXCEPT ![c] = H]
    BY <1>3, <1>8 DEF ReturnedTurn
  <1>10. held \in [Clients -> SUBSET Indexes]
    BY DEF ClientTypes
  <1>11. H \in SUBSET Indexes
    BY <1>2, <1>8, <1>10 DEF ClientTypes
  <1>12. held' \in [Clients -> SUBSET Indexes]
    BY <1>9, <1>10, <1>11
  <1>13. ASSUME NEW d \in Clients, request'[d] # NoMsg
         PROVE  request'[d] = request[d]
    <2>1. request' = [request EXCEPT ![c] = NoMsg]
      BY DEF Return
    <2> QED
      BY <1>1, <1>13, <2>1
  <1> QED
    BY <1>6, <1>7, <1>12, <1>13 DEF ClientTypes

-----------------------------------------------------------------------------

LEMMA ClientTypesSame ==
    ASSUME ClientTypes, UNCHANGED clientVars
    PROVE  ClientTypes'
  BY DEF ClientTypes, clientVars

LEMMA TypesKept ==
    ASSUME IInv, Core, SlotsTyped, ClientTypes, Next
    PROVE  SlotsTyped' /\ ClientTypes'
  <1>1. ASSUME NEW s \in Servers, Server(s)
        PROVE  SlotsTyped' /\ ClientTypes'
    <2>1. SlotsTyped'
      BY <1>1, ServerTurnTypes
    <2>2. UNCHANGED <<program, request, calls, held>>
      BY <1>1, ServerTurn DEF IInv
    <2>3. ClientTypes'
      BY <2>2, ClientTypesSame DEF clientVars
    <2> QED
      BY <2>1, <2>3
  <1>2. ASSUME NEW s \in Servers, MessageHandler(s)
        PROVE  SlotsTyped' /\ ClientTypes'
    <2>1. SlotsTyped'
      BY <1>2, HandlerTurnTypes
    <2>2. UNCHANGED clientVars
      BY <1>2 DEF MessageHandler, Relay, Ask, CountReply
    <2> QED
      BY <2>1, <2>2, ClientTypesSame
  <1>3. ASSUME NEW c \in Clients, Call(c) \/ Return(c)
        PROVE  SlotsTyped' /\ ClientTypes'
    BY <1>3, CallTypes, ReturnTypes
  <1> QED
    BY <1>1, <1>2, <1>3 DEF Next

LEMMA TypesStutter ==
    ASSUME SlotsTyped, ClientTypes, UNCHANGED vars
    PROVE  SlotsTyped' /\ ClientTypes'
  <1>1. UNCHANGED <<tables, up>> /\ UNCHANGED clientVars /\ mail' = mail
    BY DEF vars, tables, clientVars
  <1>2. MailTypes'
    BY <1>1 DEF SlotsTyped, MailTypes
  <1> QED
    BY <1>1, <1>2, SlotsTypedSame, ClientTypesSame

LEMMA TypesAtFirst ==
    ASSUME Init
    PROVE  SlotsTyped /\ ClientTypes
  <1>1. MailTypes
    <2>1. ASSUME NEW d \in ResultBoxes
          PROVE  mail[d] \in Seq(Result)
      <3>1. mail[d] = << >>
        BY ResultBoxNames DEF Init, Nothing
      <3> QED
        BY <3>1
    <2> QED
      BY <2>1 DEF MailTypes
  <1>2. \A s \in Servers : /\ DOMAIN lockTable[s] = {} /\ DOMAIN condTable[s] = {}
                           /\ DOMAIN mvTable[s] = {}
    BY DEF Init
  <1>3. LocksNamed /\ ObjectTypes
    BY <1>2 DEF LocksNamed, ObjectTypes, SlotsOf
  <1>4. UpTyped
    BY DEF Init, UpTyped
  <1>5. ClientTypes
    <2>1. program \in ProgramType
      BY LockServersAssumption DEF Init, LockServersAssumption
    <2>2. program.maxCalls \in Nat
      BY <2>1 DEF ProgramType
    <2>3. calls = 0 /\ held = [c \in Clients |-> {}] /\ request = [c \in Clients |-> NoMsg]
      BY DEF Init
    <2> QED
      BY <2>2, <2>3 DEF ClientTypes
  <1> QED
    BY <1>1, <1>3, <1>4, <1>5 DEF SlotsTyped

LEMMA TypesHold ==
    ASSUME IInv, Core, SlotsTyped, ClientTypes
    PROVE  TypeOK
  <1>1. /\ Shape /\ LocksNamed /\ ObjectTypes /\ UpTyped /\ MailTypes
        /\ request \in [Clients -> Message \cup {NoMsg}]
    BY DEF IInv, Core, SlotsTyped
  <1>2. ASSUME NEW b \in Boxes
        PROVE  mail[b] \in IF b \in Clients \/ InBox9(b) THEN Seq([req : {"HI"}, idx : Int])
                           ELSE Seq(Message)
    <2>1. CASE b \in Clients \/ InBox9(b)
      <3>1. program.nine \subseteq Clients
        BY <1>1, LockServersAssumption DEF Shape, LockServersAssumption, ProgramType
      <3>2. b \in ResultBoxes
        BY <2>1, <3>1 DEF InBox9, ResultBoxes
      <3>3. mail[b] \in Seq(Result)
        BY <1>1, <3>2 DEF MailTypes
      <3> QED
        BY <2>1, <3>3 DEF Result
    <2>2. CASE ~(b \in Clients \/ InBox9(b))
      <3>1. PICK s \in Servers, n \in {0, 1, 9} : b = <<s, n>>
        BY <2>2 DEF Boxes
      <3>2. n # 9
        BY <2>2, <3>1 DEF InBox9, Ret
      <3>3. b = Srv(s) \/ b = Hdl(s)
        BY <3>1, <3>2 DEF Srv, Hdl
      <3>4. mail[b] \in Seq(Message)
        BY <1>1, <3>3, MailTyped
      <3> QED
        BY <2>2, <3>4
    <2> QED
      BY <2>1, <2>2
  <1>3. ASSUME NEW s \in Servers
        PROVE  /\ DOMAIN lockTable[s] \subseteq Indexes
               /\ \A i \in DOMAIN lockTable[s] : lockTable[s][i] \in LockSlot
               /\ DOMAIN condTable[s] \subseteq Indexes
               /\ \A i \in DOMAIN condTable[s] : condTable[s][i] \in CondSlot
               /\ DOMAIN mvTable[s] \subseteq Indexes
    <2>1. /\ DOMAIN lockTable[s] \subseteq Indexes /\ DOMAIN condTable[s] \subseteq Indexes
          /\ DOMAIN mvTable[s] \subseteq Indexes
      BY <1>1 DEF Shape, TablesSound, Keys
    <2>2. ASSUME NEW i \in DOMAIN lockTable[s]
          PROVE  lockTable[s][i] \in LockSlot
      <3>1. PICK L : L = lockTable[s][i]
        OBVIOUS
      <3>2. L \in Slot /\ L.name \in Names
        BY <1>1, <3>1 DEF Shape, TablesSound, LocksNamed
      <3>3. L.queue \in Seq(Ids)
        <4>1. L.queue \in Seq(Clients) /\ Clients \subseteq Ids
          BY <3>2, BoxNames DEF Slot
        <4> QED
          BY <4>1, SeqWider
      <3>4. L.owner \in Ids
        BY <3>2 DEF Slot, Ids
      <3>5. L \in LockSlot
        BY <3>2, <3>3, <3>4 DEF Slot, LockSlot
      <3> QED
        BY <3>1, <3>5
    <2>3. \A i \in DOMAIN condTable[s] : condTable[s][i] \in CondSlot
      BY <1>1 DEF ObjectTypes, SlotsOf, CondType
    <2> QED
      BY <2>1, <2>2, <2>3
  <1>4. ASSUME NEW s \in Servers
        PROVE  inProgress[s] \in Seq([msg : Message, yes : Nat, no : Nat])
    <2>1. inProgress[s] \in Seq(Entry)
      BY <1>1 DEF Shape
    <2>2. Entry \subseteq [msg : Message, yes : Nat, no : Nat]
      BY DEF Entry, Passed
    <2> QED
      BY <2>1, <2>2, SeqWider
  <1>5. /\ ider \in [Servers -> Nat] /\ program \in Programs
        /\ blocked \in [Servers -> Message \cup {NoMsg}]
    BY <1>1 DEF Shape
  <1>6. up \in [Servers -> BOOLEAN]
    BY <1>1 DEF UpTyped
  <1>7. calls \in 0..program.maxCalls /\ held \in [Clients -> SUBSET Indexes]
    BY DEF ClientTypes
  <1> QED
    BY <1>1, <1>2, <1>3, <1>4, <1>5, <1>6, <1>7 DEF TypeOK

LEMMA WaitersWait ==
    ASSUME IInv, Core, SlotsTyped
    PROVE  QueuedClientsWait /\ FreeLockHasNoQueue /\ WaiterOwnsLock
  <1>1. Shape /\ AllPlaced /\ CopiesSound /\ LocksSound /\ ObjectTypes
    BY DEF IInv, Core, AllPlaced, SlotsTyped
  <1>2. ASSUME NEW s \in Servers, NEW i \in DOMAIN lockTable[s], NEW c \in Clients,
               c \in RangeOf(lockTable[s][i].queue)
        PROVE  /\ lockTable[s][i].owner # c
               /\ request[c] # NoMsg /\ mail[c] = << >>
               /\ request[c].req = "AQ" /\ request[c].idx = i
    <2>1. Queued(lockTable[s][i].queue, c)
      BY <1>2 DEF Queued, RangeOf
    <2>2. PICK w \in Places : At(c, w) /\ (w = Nowhere <=> request[c] = NoMsg)
      BY <1>1 DEF AllPlaced, Placed
    <2>3. Queued(Queue(s, i), c)
      BY <1>2, <2>1 DEF Queue
    <2>4. w = InQueue(s, i)
      BY <1>1, <2>2, <2>3, Elsewhere
    <2>5. w # Nowhere /\ w # InMailbox
      BY <2>4, PlaceNames DEF InQueue, Nowhere, InMailbox
    <2>6. mail[c] = << >>
      BY <2>2, <2>5, EmptyMailbox
    <2>7. request[c].req = "AQ" /\ request[c].idx = i
      BY <1>1, <2>1 DEF CopiesSound, QueueCopies
    <2>8. lockTable[s][i].owner # c
      BY <1>1, <2>1 DEF LocksSound
    <2> QED
      BY <2>2, <2>5, <2>6, <2>7, <2>8
  <1>3. ASSUME NEW s \in Servers, NEW i \in DOMAIN condTable[s]
        PROVE  RangeOf(condTable[s][i].queue) = {}
    BY <1>1, RangeEmpty DEF ObjectTypes, SlotsOf, CondType
  <1>4. QueuedClientsWait
    <2>1. ASSUME NEW s \in Servers, NEW i \in DOMAIN lockTable[s],
                 NEW c \in RangeOf(lockTable[s][i].queue) \cap Clients
          PROVE  /\ lockTable[s][i].owner # c
                 /\ request[c] # NoMsg /\ mail[c] = << >>
                 /\ \/ request[c].req = "AQ" /\ request[c].idx = i
                    \/ request[c].req = "WT" /\ request[c].idx2 = i
      BY <1>2
    <2>2. ASSUME NEW s \in Servers, NEW i \in DOMAIN condTable[s],
                 NEW c \in RangeOf(condTable[s][i].queue)
          PROVE  FALSE
      BY <1>3
    <2> QED
      BY <2>1, <2>2 DEF QueuedClientsWait
  <1>5. FreeLockHasNoQueue
    BY <1>1 DEF LocksSound, FreeLockHasNoQueue
  <1>6. ASSUME NEW s \in Servers, NEW k \in DOMAIN mail[Srv(s)]
        PROVE  mail[Srv(s)][k].req # "WT"
    <2>1. mail[Srv(s)] \in Seq(ToServer)
      BY <1>1 DEF Shape
    <2>2. mail[Srv(s)][k] \in ToServer
      BY <1>6, <2>1
    <2> QED
      BY <2>2 DEF ToServer, PlainCalls, MonitorCalls
  <1>7. WaiterOwnsLock
    BY <1>6 DEF WaiterOwnsLock
  <1> QED
    BY <1>4, <1>5, <1>7

(* Each client in a lock's queue is in its call of Acquire of that lock, in  *)
(* no other place, with nothing in its mailbox, and does not own it; nobody  *)
(* queues for a free lock; and requests and answers never get into each      *)
(* other's mailboxes.                                                        *)
THEOREM QueuesAgree ==
    Spec /\ NoMonitorCalls /\ (NumServers <= 2 \/ (OwnNames /\ []FewObjects)) => []QueuesSound
  <1>1. Init => SlotsTyped /\ ClientTypes
    BY TypesAtFirst
  <1>2. IInv /\ Core /\ SlotsTyped /\ ClientTypes /\ [Next]_vars => SlotsTyped' /\ ClientTypes'
    BY TypesKept, TypesStutter
  <1>3. IInv /\ Core /\ SlotsTyped /\ ClientTypes => QueuesSound
    BY TypesHold, WaitersWait DEF QueuesSound
  <1> QED
    BY <1>1, <1>2, <1>3, OwnersSingle, CoreAlways, PTL DEF Spec

=============================================================================
