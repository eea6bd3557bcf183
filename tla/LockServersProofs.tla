------------------------- MODULE LockServersProofs -------------------------
(***************************************************************************)
(* Theorems about LockServers, for any number of servers and clients, with *)
(* relayed requests, mailboxes 9 and shared names, and programs that call  *)
(* neither Wait, Signal nor Broadcast.                                     *)
(*                                                                         *)
(* CountReply looks at the head of its list only.  That is enough because  *)
(* the handlers are pipelines: a request relayed later is asked, answered  *)
(* and counted later, at every other server.  So at each other server the  *)
(* requests it has not answered are the youngest in the list, in the order *)
(* of the list (Aligned), the count of an entry is the number of servers   *)
(* that have got past it (CountsHeard), and at least one server still has  *)
(* to answer the oldest entry (HeadWaits).  Replies find their entry by    *)
(* the ID, so the IDs of a server have to grow (Rising).                   *)
(*                                                                         *)
(* The last part is about the places that the call of a client passes: a   *)
(* Server's mail, the mail or the list of its handler, the queue of a      *)
(* lock, the client's own mailbox; and what one turn of a thread does to   *)
(* what is there.  LockServersCalls builds on it.                          *)
(***************************************************************************)
EXTENDS LockServers, QueueTheorems, FiniteSetTheorems

USE LockServersAssumption

MonitorCalls == {"WT", "SG", "BC"}
PlainCalls == SystemCalls \ MonitorCalls
Answers == {"YS", "NO"}

(* The clients' programs use no condition's Wait, Signal or Broadcast. *)
NoMonitorCalls == program.calls \cap MonitorCalls = {}

(* What is sent to a Server: requests of clients, and of its handler.        *)
ToServer ==
    {m \in Message :
        /\ m.req \in PlainCalls
        /\ \/ m.client = Nobody /\ m.from \in Clients /\ m.id = NoID
           \/ m.client \in Clients /\ m.id # NoID}

(* Requests for the other servers. *)
Passed == {m \in Message : m.req \in PlainCalls /\ m.client \in Clients /\ m.id # NoID}

(* What is sent to the handler of s. *)
ToHandler(s) ==
    {m \in Message :
        /\ m.client \in Clients /\ m.id # NoID
        /\ \/ m.from = Srv(s) /\ m.req \in PlainCalls
           \/ /\ \E r \in Servers \ {s} : m.from = Hdl(r)
              /\ m.req \in PlainCalls \cup Answers}

Entry == [msg : Passed, yes : Nat, no : Nat]

Slot == [name : Names \cup {NoName}, owner : Clients \cup {Nobody}, queue : Seq(Clients),
         toBeDeleted : BOOLEAN, deleted : BOOLEAN]

(* The indexes of a server's objects. *)
Keys(table) ==
    /\ table = [s \in Servers |-> table[s]]
    /\ \A s \in Servers : DOMAIN table[s] \subseteq Indexes /\ IsFiniteSet(DOMAIN table[s])

TablesSound ==
    /\ Keys(lockTable) /\ Keys(condTable) /\ Keys(mvTable)
    /\ \A s \in Servers : \A i \in DOMAIN lockTable[s] : lockTable[s][i] \in Slot

Shape ==
    /\ NoMonitorCalls
    /\ mail = [b \in Boxes |-> mail[b]]
    /\ ider \in [Servers -> Nat]
    /\ blocked = [s \in Servers |-> NoMsg]
    /\ inProgress = [s \in Servers |-> inProgress[s]]
    /\ program \in Programs
    /\ TablesSound
    /\ \A s \in Servers : /\ mail[Srv(s)] \in Seq(ToServer)
                          /\ mail[Hdl(s)] \in Seq(ToHandler(s))
                          /\ inProgress[s] \in Seq(Entry)

(* The requests of s that its handler has not relayed yet; what s asked r    *)
(* and r has not looked at; the answers of r that s has not counted.         *)
OwnMail(s)    == {m \in Message : m.from = Srv(s)}
AskedBy(s)    == {m \in Message : m.from = Hdl(s) /\ m.req \notin Answers}
AnsweredBy(r) == {m \in Message : m.from = Hdl(r) /\ m.req \in Answers}

Fresh(s)      == Filter(mail[Hdl(s)], OwnMail(s))
Replies(s, r) == Filter(mail[Hdl(s)], AnsweredBy(r))
Asked(s, r)   == Filter(mail[Hdl(r)], AskedBy(s))
Line(s, r)    == Replies(s, r) \o Asked(s, r)

Others(s) == Servers \ {s}
Lines(s)  == [r \in Others(s) |-> Line(s, r)]

(* The operators up to Pipe speak of R, the other servers; P, the list of a  *)
(* server's requests in progress; F, the fresh ones; L, the lines; and the   *)
(* server's next ID n.                                                       *)

Msgs(P) == [i \in 1..Len(P) |-> P[i].msg]

(* The IDs a server gives grow: each is in use once. *)
Rising(q, n) ==
    /\ \A i, j \in 1..Len(q) : i < j => q[i].id < q[j].id
    /\ \A i \in 1..Len(q) : q[i].id < n

(* What is under way to a server and back are the requests it has not        *)
(* answered: the youngest, in their order.                                   *)
Aligned(P, l) ==
    /\ Len(l) <= Len(P)
    /\ \A i \in 1..Len(l) : l[i].id = P[Len(P) - Len(l) + i].msg.id

(* Who has answered the request at position i. *)
Heard(R, P, L, i) == {r \in R : i <= Len(P) - Len(L[r])}

CountsHeard(R, P, L) ==
    \A i \in 1..Len(P) : P[i].yes + P[i].no = Cardinality(Heard(R, P, L, i))

(* Somebody has not answered the oldest request. *)
HeadWaits(R, P, L) == P # << >> => \E r \in R : Len(L[r]) = Len(P)

Pipe(R, P, F, n, L) ==
    /\ Rising(Msgs(P) \o F, n)
    /\ \A r \in R : Aligned(P, L[r])
    /\ CountsHeard(R, P, L)
    /\ HeadWaits(R, P, L)

Pipeline(s) == Pipe(Others(s), inProgress[s], Fresh(s), 100 * s + ider[s], Lines(s))

IInv == Shape /\ \A s \in Servers : Pipeline(s)

-----------------------------------------------------------------------------
(* Lemmas *)

LEMMA BoxNames ==
    /\ \A s \in Servers : Srv(s) \in Boxes /\ Hdl(s) \in Boxes
    /\ \A r, s \in Servers : Srv(s) # Hdl(r)
    /\ \A r, s \in Servers : r # s => Srv(s) # Srv(r) /\ Hdl(s) # Hdl(r)
    /\ \A s \in Servers : Srv(s) \notin Clients /\ Hdl(s) \notin Clients
    /\ \A s \in Servers : Srv(s) \in Ids /\ Hdl(s) \in Ids
    /\ Clients \subseteq Boxes /\ Clients \subseteq Ids
    /\ Nobody \notin Clients /\ Null \notin Clients
  BY DEF Srv, Hdl, Boxes, Ids, LockServersAssumption

(* Messages, and messages with other fields. *)
LEMMA Fields ==
    /\ \A m \in Message : /\ m.id \in Int /\ m.from \in Ids /\ m.client \in Ids
                          /\ m.req \in SystemCalls \cup Answers
    /\ \A m \in Message, c \in Ids :
          LET x == [m EXCEPT !.client = c]
          IN  x \in Message /\ x.client = c /\ x.req = m.req /\ x.id = m.id /\ x.from = m.from
    /\ \A m \in Message, b \in Ids :
          LET x == [m EXCEPT !.from = b]
          IN  x \in Message /\ x.client = m.client /\ x.req = m.req /\ x.id = m.id /\ x.from = b
    /\ \A m \in Message, q \in SystemCalls \cup Answers, b \in Ids :
          LET x == [m EXCEPT !.req = q, !.from = b]
          IN  x \in Message /\ x.client = m.client /\ x.req = q /\ x.id = m.id /\ x.from = b
  BY DEF Message, Answers

LEMMA PassFields ==
    ASSUME NEW m \in Message, NEW n \in Int, NEW b \in Ids
    PROVE  LET x == [m EXCEPT !.id = n, !.from = b]
           IN  x \in Message /\ x.client = m.client /\ x.req = m.req /\ x.id = n /\ x.from = b
  BY DEF Message

LEMMA ExchangeAt ==
    ASSUME NEW in, NEW out, Exchange(in, out)
    PROVE  /\ mail' = [b \in Boxes |-> mail'[b]]
           /\ \A b \in Boxes :
                 mail'[b] = (IF b = in THEN Tail(mail[b]) ELSE mail[b]) \o out[b]
  BY DEF Exchange

(* What is posted to clients only. *)
Quiet(out) == \A r \in Servers : out[Srv(r)] = << >> /\ out[Hdl(r)] = << >>

LEMMA QuietNothing == Quiet(Nothing)
  BY BoxNames DEF Quiet, Nothing

LEMMA QuietTo ==
    ASSUME NEW c \in Clients, NEW x
    PROVE  Quiet(To(c, x))
  BY BoxNames DEF Quiet, Nothing, To

LEMMA QuietBoth ==
    ASSUME NEW f, NEW g, Quiet(f), Quiet(g)
    PROVE  Quiet(f ++ g)
  BY BoxNames DEF Quiet, ++

(* A turn of s's Server changes the Servers' and handlers' mail so ... *)
TakesOnly(s) ==
    /\ mail' = [b \in Boxes |-> mail'[b]]
    /\ mail'[Srv(s)] = Tail(mail[Srv(s)])
    /\ \A r \in Servers : /\ r # s => mail'[Srv(r)] = mail[Srv(r)]
                          /\ mail'[Hdl(r)] = mail[Hdl(r)]

(* ... or so. *)
TakesAndPasses(s, x) ==
    /\ mail' = [b \in Boxes |-> mail'[b]]
    /\ mail'[Srv(s)] = Tail(mail[Srv(s)])
    /\ mail'[Hdl(s)] = Append(mail[Hdl(s)], x)
    /\ \A r \in Servers \ {s} : mail'[Srv(r)] = mail[Srv(r)] /\ mail'[Hdl(r)] = mail[Hdl(r)]

LEMMA SeqWider ==
    ASSUME NEW S, NEW T, S \subseteq T, NEW q \in Seq(S)
    PROVE  q \in Seq(T)
  <1>1. \A i \in 1..Len(q) : q[i] \in T
    OBVIOUS
  <1> QED
    BY <1>1

LEMMA MailTyped ==
    ASSUME Shape
    PROVE  \A s \in Servers : mail[Srv(s)] \in Seq(Message) /\ mail[Hdl(s)] \in Seq(Message)
  <1>1. ToServer \subseteq Message /\ \A s \in Servers : ToHandler(s) \subseteq Message
    BY DEF ToServer, ToHandler
  <1> QED
    BY <1>1, SeqWider DEF Shape

LEMMA QuietExchange ==
    ASSUME Shape, NEW s \in Servers, mail[Srv(s)] # << >>,
           NEW out, Quiet(out), Exchange(Srv(s), out)
    PROVE  TakesOnly(s)
  <1>1. /\ mail' = [b \in Boxes |-> mail'[b]]
        /\ \A b \in Boxes : mail'[b] = (IF b = Srv(s) THEN Tail(mail[b]) ELSE mail[b]) \o out[b]
    BY ExchangeAt
  <1>2. \A r \in Servers : mail[Srv(r)] \in Seq(Message) /\ mail[Hdl(r)] \in Seq(Message)
    BY MailTyped
  <1>3. Tail(mail[Srv(s)]) \in Seq(Message)
    BY <1>2
  <1>4. \A q \in Seq(Message) : q \o << >> = q
    OBVIOUS
  <1>5. mail'[Srv(s)] = Tail(mail[Srv(s)])
    BY <1>1, <1>3, <1>4, BoxNames DEF Quiet
  <1>6. ASSUME NEW r \in Servers
        PROVE  mail'[Hdl(r)] = mail[Hdl(r)] /\ (r # s => mail'[Srv(r)] = mail[Srv(r)])
    BY <1>1, <1>2, <1>4, BoxNames DEF Quiet
  <1> QED
    BY <1>1, <1>5, <1>6 DEF TakesOnly

LEMMA PassExchange ==
    ASSUME Shape, NEW s \in Servers, mail[Srv(s)] # << >>,
           NEW x \in Message, Exchange(Srv(s), To(Hdl(s), x))
    PROVE  TakesAndPasses(s, x)
  <1> DEFINE out == To(Hdl(s), x)
  <1>1. /\ mail' = [b \in Boxes |-> mail'[b]]
        /\ \A b \in Boxes : mail'[b] = (IF b = Srv(s) THEN Tail(mail[b]) ELSE mail[b]) \o out[b]
    BY ExchangeAt
  <1>2. \A r \in Servers : mail[Srv(r)] \in Seq(Message) /\ mail[Hdl(r)] \in Seq(Message)
    BY MailTyped
  <1>3. Tail(mail[Srv(s)]) \in Seq(Message)
    BY <1>2
  <1>4. \A q \in Seq(Message) : q \o << >> = q /\ q \o <<x>> = Append(q, x)
    OBVIOUS
  <1>5. out[Hdl(s)] = <<x>> /\ \A b \in Boxes : b # Hdl(s) => out[b] = << >>
    BY BoxNames DEF To, Nothing
  <1> HIDE DEF out
  <1>6. mail'[Srv(s)] = Tail(mail[Srv(s)]) /\ mail'[Hdl(s)] = Append(mail[Hdl(s)], x)
    BY <1>1, <1>2, <1>3, <1>4, <1>5, BoxNames
  <1>7. ASSUME NEW r \in Servers \ {s}
        PROVE  mail'[Hdl(r)] = mail[Hdl(r)] /\ mail'[Srv(r)] = mail[Srv(r)]
    BY <1>1, <1>2, <1>4, <1>5, BoxNames
  <1> QED
    BY <1>1, <1>6, <1>7 DEF TakesAndPasses

-----------------------------------------------------------------------------
(* A turn of a Server. *)

(* The request that s's Server takes. *)
Taken(s, m) ==
    /\ s \in Servers /\ mail[Srv(s)] # << >> /\ m = Head(mail[Srv(s)])
    /\ m \in Message /\ m.req \in PlainCalls /\ Requester(m) \in Clients
    /\ m.id = NoID => m.from \in Clients
    /\ m.id # NoID => m.client \in Clients

ServesMail(s) ==
    \/ TakesOnly(s) /\ UNCHANGED ider
    \/ \E x \in Message :
          /\ TakesAndPasses(s, x) /\ ider' = [ider EXCEPT ![s] = @ + 1]
          /\ x.from = Srv(s) /\ x.id = 100 * s + ider[s]
          /\ x.client \in Clients /\ x.req \in PlainCalls

LEMMA HeadTaken ==
    ASSUME Shape, NEW s \in Servers, mail[Srv(s)] # << >>
    PROVE  \E m \in Message : Taken(s, m)
  <1> DEFINE q == mail[Srv(s)]
             m == Head(q)
  <1>1. q \in Seq(ToServer) /\ q # << >>
    BY DEF Shape
  <1>2. m \in ToServer
    BY <1>1
  <1>3. m \in Message /\ m.req \in PlainCalls
    BY <1>2 DEF ToServer
  <1>4. \/ m.client \in Clients /\ m.id # NoID
        \/ m.client = Nobody /\ m.from \in Clients /\ m.id = NoID
    BY <1>2 DEF ToServer
  <1>5. Requester(m) \in Clients
    BY <1>4, BoxNames DEF Requester
  <1> QED
    BY <1>1, <1>3, <1>4, <1>5 DEF Taken

LEMMA AnswerEffect ==
    ASSUME Shape, NEW s, NEW m, Taken(s, m), NEW n, Answer(s, m, n)
    PROVE  TakesOnly(s)
  <1>1. PICK c \in Clients : c = Requester(m)
    BY DEF Taken
  <1>2. Exchange(Srv(s), To(c, Reply(n))) /\ Quiet(To(c, Reply(n)))
    BY <1>1, QuietTo DEF Answer
  <1> QED
    BY <1>2, QuietExchange DEF Taken

LEMMA NotHereEffect ==
    ASSUME Shape, NEW s, NEW m, Taken(s, m), NotHere(s, m)
    PROVE  ServesMail(s) /\ UNCHANGED <<tables, blocked>>
  <1>1. CASE m.id = NoID /\ PassOn(s, m)
    <2> DEFINE y == [m EXCEPT !.client = m.from]
               n == 100 * s + ider[s]
               b == Srv(s)
               x == [y EXCEPT !.id = n, !.from = b]
    <2>1. m \in Message /\ m.from \in Clients /\ m.from \in Ids /\ m.req \in PlainCalls
      BY <1>1, BoxNames DEF Taken
    <2>2. y \in Message /\ y.client = m.from /\ y.req = m.req
      BY <2>1, Fields
    <2>3. n \in Int /\ b \in Ids
      BY BoxNames DEF Taken, Shape, Servers
    <2>4. Exchange(Srv(s), To(Hdl(s), x)) /\ ider' = [ider EXCEPT ![s] = @ + 1]
      BY <1>1 DEF PassOn, Pass
    <2> HIDE DEF y, n, b
    <2>5. x \in Message /\ x.client = y.client /\ x.req = y.req /\ x.id = n /\ x.from = b
      BY <2>2, <2>3, PassFields, ZenonT(60)
    <2> HIDE DEF x
    <2>6. TakesAndPasses(s, x)
      BY <2>4, <2>5, PassExchange DEF Taken
    <2> QED
      BY <2>1, <2>2, <2>4, <2>5, <2>6 DEF ServesMail, NotHere, tables, n, b
  <1>2. CASE m.id # NoID /\ Answer(s, m, ErrorCode) /\ UNCHANGED ider
    BY <1>2, AnswerEffect DEF ServesMail, NotHere, tables
  <1> QED
    BY <1>1, <1>2 DEF NotHere

LEMMA RefuseEffect ==
    ASSUME Shape, NEW s, NEW m, Taken(s, m), Refuse(s, m)
    PROVE  ServesMail(s) /\ UNCHANGED <<tables, blocked>>
  BY AnswerEffect DEF Refuse, ServesMail, tables

(* A slot of the table, or the next one if there is room. *)
Fits(s, i, f) == i \in DOMAIN f \/ (i = NextIndex(s, f) /\ ~NoRoom(f))

LEMMA KeysUpdate ==
    ASSUME NEW t, Keys(t), NEW s \in Servers, NEW i, Fits(s, i, t[s]),
           NEW r, NEW u, u = [t EXCEPT ![s] = With(@, i, r)]
    PROVE  Keys(u)
  <1> DEFINE D == DOMAIN t[s]
  <1>1. D \subseteq Indexes /\ IsFiniteSet(D) /\ t = [n \in Servers |-> t[n]]
    BY DEF Keys
  <1>2. IsFiniteSet(D \cup {i})
    BY <1>1, FS_AddElement
  <1>3. i \in Indexes
    <2>1. CASE i \in D
      BY <1>1, <2>1
    <2>2. CASE i = Stride * s + Cardinality(D) /\ ~(Cardinality(D) >= MaxObjects)
      <3>1. Cardinality(D) \in Nat
        BY <1>1, FS_CardinalityType
      <3>2. Cardinality(D) \in 0..(MaxObjects - 1)
        BY <2>2, <3>1 DEF LockServersAssumption
      <3> QED
        BY <2>2, <3>2 DEF Indexes
    <2> QED
      BY <2>1, <2>2 DEF Fits, NextIndex, NoRoom
  <1>4. /\ u[s] = With(t[s], i, r) /\ u = [n \in Servers |-> u[n]]
        /\ \A n \in Servers : n # s => u[n] = t[n]
    BY <1>1
  <1>5. DOMAIN u[s] = D \cup {i}
    BY <1>4 DEF With
  <1> QED
    BY <1>1, <1>2, <1>3, <1>4, <1>5 DEF Keys

LEMMA SetLockSound ==
    ASSUME TablesSound, NEW s \in Servers, NEW i, Fits(s, i, lockTable[s]), NEW L,
           L \in Slot, SetLock(s, i, L)
    PROVE  TablesSound'
  <1>1. Keys(lockTable') /\ Keys(condTable') /\ Keys(mvTable')
    BY KeysUpdate DEF SetLock, TablesSound
  <1>2. lockTable = [r \in Servers |-> lockTable[r]]
    BY DEF TablesSound, Keys
  <1>3. /\ lockTable'[s] = With(lockTable[s], i, L)
        /\ \A r \in Servers : r # s => lockTable'[r] = lockTable[r]
    BY <1>2 DEF SetLock
  <1>4. \A j \in DOMAIN lockTable'[s] : lockTable'[s][j] \in Slot
    BY <1>3 DEF With, TablesSound
  <1> QED
    BY <1>1, <1>3, <1>4 DEF TablesSound, Keys

LEMMA SetCondSound ==
    ASSUME TablesSound, NEW s \in Servers, NEW i, Fits(s, i, condTable[s]), NEW C,
           SetCond(s, i, C)
    PROVE  TablesSound'
  <1>1. Keys(condTable')
    BY KeysUpdate DEF SetCond, TablesSound
  <1> QED
    BY <1>1 DEF SetCond, TablesSound, Keys

LEMMA SetMVarSound ==
    ASSUME TablesSound, NEW s \in Servers, NEW i, Fits(s, i, mvTable[s]), NEW V,
           SetMVar(s, i, V)
    PROVE  TablesSound'
  <1>1. Keys(mvTable')
    BY KeysUpdate DEF SetMVar, TablesSound
  <1> QED
    BY <1>1 DEF SetMVar, TablesSound, Keys

(* The answers that CreateLock and its like send themselves. *)
LEMMA CreatedEffect ==
    ASSUME Shape, NEW s, NEW m, Taken(s, m), m.id # NoID, NEW n,
           Exchange(Srv(s), To(m.client, Reply(n)))
    PROVE  TakesOnly(s)
  <1>1. PICK c \in Clients : c = m.client
    BY DEF Taken
  <1>2. Exchange(Srv(s), To(c, Reply(n))) /\ Quiet(To(c, Reply(n)))
    BY <1>1, QuietTo
  <1> QED
    BY <1>2, QuietExchange DEF Taken

LEMMA GrantEffect ==
    ASSUME Shape, NEW s, NEW m, Taken(s, m), NEW L, L.queue \in Seq(Clients),
           NEW out, Quiet(out), Grant(s, L, out)
    PROVE  TakesOnly(s)
  <1>1. CASE L.queue = << >> /\ Exchange(Srv(s), out)
    BY <1>1, QuietExchange DEF Taken
  <1>2. CASE L.queue # << >>
    <2>1. PICK c \in Clients : c = Head(L.queue)
      BY <1>2
    <2> DEFINE o == out ++ To(c, Reply(SuccessCode))
    <2>2. Quiet(o)
      BY QuietTo, QuietBoth
    <2>3. Exchange(Srv(s), o)
      BY <1>2, <2>1, BoxNames DEF Grant
    <2> QED
      BY <2>2, <2>3, QuietExchange DEF Taken
  <1> QED
    BY <1>1, <1>2 DEF Grant

(* What every turn of a Server does. *)
Served(s) ==
    /\ ServesMail(s) /\ UNCHANGED <<blocked, inProgress, program>>
    /\ TablesSound'

LEMMA LockTurns ==
    ASSUME Shape, NEW s, NEW m, Taken(s, m),
           CreateLock(s, m) \/ DestroyLock(s, m) \/ Acquire(s, m) \/ Release(s, m)
    PROVE  Served(s)
  <1>0. /\ s \in Servers /\ TablesSound
        /\ UNCHANGED <<inProgress, program>>
    BY DEF Taken, Shape, CreateLock, DestroyLock, Acquire, Release, clientVars
  <1>1. ASSUME ServesMail(s), UNCHANGED <<tables, blocked>>
        PROVE  Served(s)
    BY <1>0, <1>1 DEF Served, TablesSound, Keys, tables
  <1>2. ASSUME NEW i, NEW L, Fits(s, i, lockTable[s]), SetLock(s, i, L), L \in Slot,
               TakesOnly(s), UNCHANGED <<ider, blocked>>
        PROVE  Served(s)
    <2>1. TablesSound'
      BY <1>0, <1>2, SetLockSound
    <2> QED
      BY <1>0, <1>2, <2>1 DEF Served, ServesMail
  <1>3. \A i \in DOMAIN lockTable[s] : lockTable[s][i] \in Slot
    BY <1>0 DEF TablesSound
  <1>4. CASE CreateLock(s, m)
    <2> DEFINE found == FindByName(lockTable[s], m.name)
               i     == NextIndex(s, lockTable[s])
               L     == [name |-> m.name, owner |-> Nobody, queue |-> << >>,
                         toBeDeleted |-> FALSE, deleted |-> FALSE]
    <2>1. CASE \E j \in found : Answer(s, m, j) /\ UNCHANGED <<tables, ider, blocked, up>>
      BY <1>1, <2>1, AnswerEffect DEF ServesMail, tables
    <2>2. CASE NotHere(s, m)
      BY <1>1, <2>2, NotHereEffect
    <2>3. CASE Refuse(s, m)
      BY <1>1, <2>3, RefuseEffect
    <2>4. CASE /\ m.id # NoID /\ ~NoRoom(lockTable[s]) /\ SetLock(s, i, L)
               /\ Exchange(Srv(s), To(m.client, Reply(i)))
               /\ UNCHANGED <<ider, blocked, up>>
      <3>1. L \in Slot
        <4>1. m.name \in Names \cup {NoName} /\ << >> \in Seq(Clients)
          BY DEF Taken, Message
        <4> QED
          BY <4>1 DEF Slot
      <3>2. TakesOnly(s) /\ SetLock(s, i, L) /\ UNCHANGED <<ider, blocked>>
        BY <2>4, CreatedEffect
      <3>3. Fits(s, i, lockTable[s])
        BY <2>4 DEF Fits
      <3> HIDE DEF L
      <3> QED
        BY <1>2, <3>1, <3>2, <3>3
    <2> QED
      BY <1>4, <2>1, <2>2, <2>3, <2>4 DEF CreateLock
  <1>5. CASE DestroyLock(s, m)
    <2>1. CASE NotHere(s, m)
      BY <1>1, <2>1, NotHereEffect
    <2>2. CASE m.idx \in DOMAIN lockTable[s] /\ ~NotHere(s, m)
      <3> DEFINE L == lockTable[s][m.idx]
                 K == [L EXCEPT !.toBeDeleted = TRUE, !.deleted = @ \/ Unlocked(L)]
      <3>1. K \in Slot
        BY <1>3, <2>2 DEF Slot
      <3>2. SetLock(s, m.idx, K) /\ TakesOnly(s) /\ UNCHANGED <<ider, blocked>>
        BY <1>5, <2>2, AnswerEffect DEF DestroyLock
      <3> HIDE DEF K
      <3> QED
        BY <1>2, <2>2, <3>1, <3>2 DEF Fits
    <2> QED
      BY <1>5, <2>1, <2>2 DEF DestroyLock
  <1>6. CASE Acquire(s, m)
    <2> DEFINE i == m.idx
               L == lockTable[s][i]
               c == Requester(m)
    <2>1. CASE NotHere(s, m)
      BY <1>1, <2>1, NotHereEffect
    <2>2. CASE Refuse(s, m)
      BY <1>1, <2>2, RefuseEffect
    <2>3. CASE /\ i \in DOMAIN lockTable[s] /\ SetLock(s, i, [L EXCEPT !.owner = c])
               /\ Answer(s, m, SuccessCode) /\ UNCHANGED <<ider, blocked, up>>
      <3> DEFINE K == [L EXCEPT !.owner = c]
      <3>1. K \in Slot
        BY <1>3, <2>3 DEF Slot, Taken
      <3>2. SetLock(s, i, K) /\ TakesOnly(s) /\ UNCHANGED <<ider, blocked>>
        BY <2>3, AnswerEffect
      <3> HIDE DEF K
      <3> QED
        BY <1>2, <2>3, <3>1, <3>2 DEF Fits
    <2>4. CASE /\ i \in DOMAIN lockTable[s] /\ SetLock(s, i, [L EXCEPT !.queue = Append(@, c)])
               /\ Exchange(Srv(s), Nothing) /\ UNCHANGED <<ider, blocked, up>>
      <3> DEFINE K == [L EXCEPT !.queue = Append(@, c)]
      <3>1. K \in Slot
        <4>1. L \in Slot /\ L.queue \in Seq(Clients) /\ c \in Clients
          BY <1>3, <2>4 DEF Taken, Slot
        <4>2. Append(L.queue, c) \in Seq(Clients)
          BY <4>1
        <4> QED
          BY <4>1, <4>2 DEF Slot
      <3>2. SetLock(s, i, K) /\ UNCHANGED <<ider, blocked>>
        BY <2>4
      <3>3. TakesOnly(s)
        BY <2>4, QuietNothing, QuietExchange DEF Taken
      <3> HIDE DEF K
      <3> QED
        BY <1>2, <2>4, <3>1, <3>2, <3>3 DEF Fits
    <2> QED
      BY <1>6, <2>1, <2>2, <2>3, <2>4 DEF Acquire
  <1>7. CASE Release(s, m)
    <2> DEFINE i == m.idx
               L == lockTable[s][i]
               c == Requester(m)
               H == HandedOver(L)
               K == [H EXCEPT !.deleted = L.toBeDeleted /\ L.queue = << >>]
    <2>1. CASE NotHere(s, m)
      BY <1>1, <2>1, NotHereEffect
    <2>2. CASE Refuse(s, m)
      BY <1>1, <2>2, RefuseEffect
    <2>3. CASE /\ i \in DOMAIN lockTable[s] /\ SetLock(s, i, K)
               /\ Grant(s, L, To(c, Reply(SuccessCode))) /\ UNCHANGED <<ider, blocked>>
      <3>1. L \in Slot /\ L.queue \in Seq(Clients)
        BY <1>3, <2>3 DEF Slot
      <3>2. K \in Slot
        <4>1. CASE L.queue = << >>
          BY <3>1, <4>1 DEF HandedOver, Slot
        <4>2. CASE L.queue # << >>
          <5>1. Head(L.queue) \in Clients /\ Tail(L.queue) \in Seq(Clients)
            BY <3>1, <4>2
          <5> QED
            BY <3>1, <4>2, <5>1 DEF HandedOver, Slot
        <4> QED
          BY <4>1, <4>2
      <3>3. TakesOnly(s)
        <4>1. c \in Clients
          BY DEF Taken
        <4>2. Quiet(To(c, Reply(SuccessCode)))
          BY <4>1, QuietTo
        <4> QED
          BY <2>3, <3>1, <4>2, GrantEffect
      <3>4. SetLock(s, i, K) /\ UNCHANGED <<ider, blocked>>
        BY <2>3
      <3> HIDE DEF K
      <3> QED
        BY <1>2, <2>3, <3>2, <3>3, <3>4 DEF Fits
    <2> QED
      BY <1>7, <2>1, <2>2, <2>3 DEF Release
  <1> QED
    BY <1>4, <1>5, <1>6, <1>7

LEMMA OtherTurns ==
    ASSUME Shape, NEW s, NEW m, Taken(s, m),
           \/ CreateCondition(s, m) \/ DestroyCondition(s, m)
           \/ CreateMV(s, m) \/ DestroyMV(s, m) \/ GetMV(s, m) \/ SetMV(s, m)
    PROVE  Served(s)
  <1>0. /\ s \in Servers /\ TablesSound
        /\ UNCHANGED <<inProgress, program>>
    BY DEF Taken, Shape, CreateCondition, DestroyCondition, CreateMV, DestroyMV, GetMV,
           SetMV, clientVars
  <1>1. ASSUME ServesMail(s), UNCHANGED <<tables, blocked>>
        PROVE  Served(s)
    BY <1>0, <1>1 DEF Served, TablesSound, Keys, tables
  <1>2. ASSUME TakesOnly(s), UNCHANGED <<tables, ider, blocked>>
        PROVE  Served(s)
    BY <1>1, <1>2 DEF ServesMail
  <1>3. CASE CreateCondition(s, m)
    <2>1. ASSUME NEW i, NEW C, SetCond(s, i, C), i = NextIndex(s, condTable[s]),
                 ~NoRoom(condTable[s]), TakesOnly(s), UNCHANGED <<ider, blocked>>
          PROVE  Served(s)
      BY <1>0, <2>1, SetCondSound DEF Served, ServesMail, Fits
    <2> QED
      BY <1>1, <1>2, <1>3, <2>1, NotHereEffect, RefuseEffect, AnswerEffect, CreatedEffect
         DEF CreateCondition
  <1>4. CASE DestroyCondition(s, m)
    <2>1. ASSUME NEW C, SetCond(s, m.idx, C), m.idx \in DOMAIN condTable[s],
                 TakesOnly(s), UNCHANGED <<ider, blocked>>
          PROVE  Served(s)
      BY <1>0, <2>1, SetCondSound DEF Served, ServesMail, Fits
    <2> QED
      BY <1>1, <1>4, <2>1, NotHereEffect, AnswerEffect DEF DestroyCondition
  <1>5. CASE CreateMV(s, m)
    <2>1. ASSUME NEW i, NEW V, SetMVar(s, i, V), i = NextIndex(s, mvTable[s]),
                 ~NoRoom(mvTable[s]), TakesOnly(s), UNCHANGED <<ider, blocked>>
          PROVE  Served(s)
      BY <1>0, <2>1, SetMVarSound DEF Served, ServesMail, Fits
    <2> QED
      BY <1>1, <1>2, <1>5, <2>1, NotHereEffect, RefuseEffect, AnswerEffect, CreatedEffect
         DEF CreateMV
  <1>6. ASSUME NEW V, SetMVar(s, m.idx, V), m.idx \in DOMAIN mvTable[s],
               TakesOnly(s), UNCHANGED <<ider, blocked>>
        PROVE  Served(s)
    BY <1>0, <1>6, SetMVarSound DEF Served, ServesMail, Fits
  <1>7. CASE DestroyMV(s, m) \/ SetMV(s, m)
    BY <1>1, <1>6, <1>7, NotHereEffect, RefuseEffect, AnswerEffect DEF DestroyMV, SetMV
  <1>8. CASE GetMV(s, m)
    BY <1>1, <1>2, <1>8, NotHereEffect, RefuseEffect, AnswerEffect DEF GetMV
  <1> QED
    BY <1>3, <1>4, <1>5, <1>7, <1>8

LEMMA ServerTurn ==
    ASSUME Shape, NEW s \in Servers, Server(s)
    PROVE  /\ Served(s) /\ mail[Srv(s)] # << >>
           /\ UNCHANGED <<program, request, calls, held>>
  <1>1. ~WaitResumes(s)
    BY DEF WaitResumes, Shape
  <1>2. mail[Srv(s)] # << >> /\ Serve(s, Head(mail[Srv(s)]))
    BY <1>1 DEF Server
  <1>3. PICK m \in Message : Taken(s, m)
    BY <1>2, HeadTaken
  <1>4. m = Head(mail[Srv(s)]) /\ m.req \notin MonitorCalls /\ Serve(s, m)
    BY <1>2, <1>3 DEF Taken, PlainCalls
  <1>5. ~Wait(s, m) /\ ~Signal(s, m) /\ ~Broadcast(s, m)
    BY <1>4 DEF Wait, Signal, Broadcast, Takes, MonitorCalls
  <1>6. \/ CreateLock(s, m) \/ DestroyLock(s, m) \/ Acquire(s, m) \/ Release(s, m)
        \/ CreateCondition(s, m) \/ DestroyCondition(s, m)
        \/ CreateMV(s, m) \/ DestroyMV(s, m) \/ GetMV(s, m) \/ SetMV(s, m)
    BY <1>4, <1>5 DEF Serve
  <1>7. UNCHANGED <<program, request, calls, held>>
    BY <1>6 DEF CreateLock, DestroyLock, Acquire, Release, CreateCondition, DestroyCondition,
                CreateMV, DestroyMV, GetMV, SetMV, clientVars
  <1> QED
    BY <1>2, <1>3, <1>6, <1>7, LockTurns, OtherTurns

-----------------------------------------------------------------------------
(* Clients. *)

LEMMA IndexesAreInts ==
    ASSUME NEW table, Keys(table)
    PROVE  Indices(table) \subseteq Int
  <1>1. Indexes \subseteq Int
    BY DEF Indexes, Servers, LockServersAssumption
  <1>2. \A s \in Servers : DOMAIN table[s] \subseteq Indexes
    BY DEF Keys
  <1> QED
    BY <1>1, <1>2 DEF Indices

Asks(m, c) == m \in Message /\ m.client = Nobody /\ m.from = c /\ m.id = NoID

LEMMA RequestsTyped ==
    ASSUME Shape, NEW c \in Clients, NEW m \in Requests(c)
    PROVE  Asks(m, c) /\ m.req \in PlainCalls
  <1>0. /\ c \in Ids /\ Nobody \in Ids /\ NoName \in Names \cup {NoName}
        /\ \A n \in Sizes \cup Values \cup Cells : n \in Int
        /\ Keys(lockTable) /\ Keys(condTable) /\ Keys(mvTable)
        /\ program \in ProgramType
    BY BoxNames DEF Ids, Cells, LockServersAssumption, Shape, TablesSound
  <1>2. ASSUME NEW req \in SystemCalls, NEW names \in SUBSET Names, NEW r \in Naming(req, c, names)
        PROVE  Asks(r, c) /\ r.req = req
    <2>1. PICK n \in names : r = [Default EXCEPT !.req = req, !.name = n, !.from = c]
      BY <1>2 DEF Naming
    <2>2. r = [req |-> req, name |-> n, idx |-> 0, idx2 |-> 0, val |-> 0,
               id |-> NoID, client |-> Nobody, from |-> c]
      BY <2>1 DEF Default
    <2> QED
      BY <1>0, <1>2, <2>2 DEF Message, Asks, NoID
  <1>3. ASSUME NEW req \in SystemCalls, NEW table, Keys(table), NEW r \in On(req, c, table)
        PROVE  Asks(r, c) /\ r.req = req
    <2>1. PICK i \in Indices(table) : r = [Default EXCEPT !.req = req, !.idx = i, !.from = c]
      BY <1>3 DEF On
    <2>2. i \in Int
      BY <1>3, IndexesAreInts
    <2>3. r = [req |-> req, name |-> NoName, idx |-> i, idx2 |-> 0, val |-> 0,
               id |-> NoID, client |-> Nobody, from |-> c]
      BY <2>1 DEF Default
    <2> QED
      BY <1>0, <1>3, <2>2, <2>3 DEF Message, Asks, NoID
  <1>4. ASSUME NEW R, NEW numbers, NEW req, \A r \in R : Asks(r, c) /\ r.req = req,
               NEW q \in Second(R, numbers)
        PROVE  /\ q.req = req
               /\ numbers \subseteq Int => Asks(q, c)
    <2>1. PICK r \in R, k \in numbers : q = [r EXCEPT !.idx2 = k]
      BY <1>4 DEF Second
    <2> QED
      BY <1>4, <2>1 DEF Asks, Message
  <1>5. m.req \in program.calls /\ program.calls \cap MonitorCalls = {}
    BY DEF Requests, Shape, NoMonitorCalls
  <1>6. m.req \in PlainCalls
    BY <1>0, <1>5 DEF ProgramType, PlainCalls
  <1>1. {"CL", "DL", "AQ", "RL", "CC", "DC", "WT", "SG", "BC", "CM", "DM", "GM", "SM"}
            \subseteq SystemCalls
    BY DEF SystemCalls
  <1>7. \A r \in On("GM", c, mvTable) : Asks(r, c) /\ r.req = "GM"
    BY <1>0, <1>1, <1>3
  <1>8. \A r \in On("SM", c, mvTable) : Asks(r, c) /\ r.req = "SM"
    BY <1>0, <1>1, <1>3
  <1>9. Cells \subseteq Int /\ Sizes \subseteq Int /\ Values \subseteq Int
    BY <1>0
  <1>10. CASE m \in CreateLock_Syscall(c) \cup CreateCondition_Syscall(c)
    <2>1. program.locks[c] \in SUBSET Names /\ program.conds[c] \in SUBSET Names
      BY <1>0 DEF ProgramType
    <2> QED
      BY <1>1, <1>2, <1>6, <1>10, <2>1 DEF CreateLock_Syscall, CreateCondition_Syscall
  <1>11. CASE m \in DestroyLock_Syscall(c) \cup Acquire_Syscall(c) \cup Release_Syscall(c)
                    \cup DestroyCondition_Syscall(c) \cup DestroyMV_Syscall(c)
    BY <1>0, <1>1, <1>3, <1>6, <1>11 DEF DestroyLock_Syscall, Acquire_Syscall, Release_Syscall,
                                   DestroyCondition_Syscall, DestroyMV_Syscall
  <1>12. CASE m \in CreateMV_Syscall(c)
    <2>1. program.mvs[c] \in SUBSET Names
      BY <1>0 DEF ProgramType
    <2>2. \A r \in Naming("CM", c, program.mvs[c]) : Asks(r, c) /\ r.req = "CM"
      BY <1>1, <1>2, <2>1
    <2> QED
      BY <1>4, <1>6, <1>9, <1>12, <2>2 DEF CreateMV_Syscall
  <1>13. CASE m \in GetMV_Syscall(c)
    BY <1>4, <1>6, <1>7, <1>9, <1>13 DEF GetMV_Syscall
  <1>14. CASE m \in SetMV_Syscall(c)
    <2>1. PICK r \in Second(On("SM", c, mvTable), Cells), v \in Values :
              m = [r EXCEPT !.val = v]
      BY <1>14 DEF SetMV_Syscall
    <2>2. Asks(r, c) /\ v \in Int
      BY <1>4, <1>8, <1>9, <2>1
    <2> QED
      BY <1>6, <2>1, <2>2 DEF Asks, Message
  <1>15. CASE m \in Wait_Syscall(c) \cup Signal_Syscall(c) \cup Broadcast_Syscall(c)
    <2>1. ASSUME NEW req \in MonitorCalls, NEW numbers,
                 m \in Second(On(req, c, condTable), numbers)
          PROVE  FALSE
      <3>1. \A r \in On(req, c, condTable) : Asks(r, c) /\ r.req = req
        BY <1>0, <1>1, <1>3, <2>1 DEF MonitorCalls
      <3>2. m.req = req
        BY <1>4, <2>1, <3>1, ZenonT(60)
      <3> QED
        BY <1>5, <2>1, <3>2
    <2>2. {"WT", "SG", "BC"} \subseteq MonitorCalls
      BY DEF MonitorCalls
    <2> QED
      BY <1>15, <2>1, <2>2 DEF Wait_Syscall, Signal_Syscall, Broadcast_Syscall
  <1> QED
    BY <1>10, <1>11, <1>12, <1>13, <1>14, <1>15 DEF Requests

(* A Call puts a request into the mailbox of a Server. *)
LEMMA CallEffect ==
    ASSUME Shape, NEW c \in Clients, Call(c)
    PROVE  \E s \in Servers, m \in ToServer :
              /\ mail' = [mail EXCEPT ![Srv(s)] = Append(@, m)]
              /\ UNCHANGED <<tables, ider, inProgress, blocked, program>>
  <1>1. PICK s \in Servers, m \in Requests(c) : mail' = [mail EXCEPT ![Srv(s)] = Append(@, m)]
    BY DEF Call
  <1>2. m \in ToServer
    BY RequestsTyped DEF Asks, ToServer
  <1> QED
    BY <1>1, <1>2 DEF Call

-----------------------------------------------------------------------------
(* The types of the mail. *)

(* Each mailbox of the servers stays as it is, loses its first message or    *)
(* gets one of its kind.                                                     *)
Moves(q, r, S) == r = q \/ (q # << >> /\ r = Tail(q)) \/ \E x \in S : r = Append(q, x)

LEMMA MovesTyped ==
    ASSUME NEW S, NEW q \in Seq(S), NEW r, Moves(q, r, S)
    PROVE  r \in Seq(S)
  BY DEF Moves

LEMMA ShapeMoves ==
    ASSUME Shape, TablesSound', mail' = [b \in Boxes |-> mail'[b]],
           ider' \in [Servers -> Nat],
           inProgress' = [s \in Servers |-> inProgress'[s]],
           UNCHANGED <<blocked, program>>,
           \A s \in Servers : /\ Moves(mail[Srv(s)], mail'[Srv(s)], ToServer)
                              /\ Moves(mail[Hdl(s)], mail'[Hdl(s)], ToHandler(s))
                              /\ inProgress'[s] \in Seq(Entry)
    PROVE  Shape'
  <1>1. ASSUME NEW s \in Servers
        PROVE  mail'[Srv(s)] \in Seq(ToServer) /\ mail'[Hdl(s)] \in Seq(ToHandler(s))
    BY MovesTyped DEF Shape
  <1> QED
    BY <1>1 DEF Shape, NoMonitorCalls

-----------------------------------------------------------------------------
(* A turn of a MessageHandler. *)

(* The message that the handler of s takes. *)
Handles(s, m) ==
    /\ mail[Hdl(s)] # << >> /\ m = Head(mail[Hdl(s)]) /\ m \in ToHandler(s)
    /\ m \in Message /\ m.client \in Clients /\ m.id # NoID

LEMMA HeadHandled ==
    ASSUME Shape, NEW s \in Servers, mail[Hdl(s)] # << >>
    PROVE  \E m \in Message : Handles(s, m)
  <1>1. mail[Hdl(s)] \in Seq(ToHandler(s))
    BY DEF Shape
  <1>2. Head(mail[Hdl(s)]) \in ToHandler(s)
    BY <1>1
  <1> QED
    BY <1>2 DEF Handles, ToHandler

(* It goes, and what is posted comes. *)
LEMMA HandlerExchange ==
    ASSUME Shape, NEW s \in Servers, NEW out, Exchange(Hdl(s), out)
    PROVE  /\ mail' = [b \in Boxes |-> mail'[b]]
           /\ mail'[Hdl(s)] = Tail(mail[Hdl(s)]) \o out[Hdl(s)]
           /\ \A r \in Servers \ {s} : mail'[Hdl(r)] = mail[Hdl(r)] \o out[Hdl(r)]
           /\ \A r \in Servers : mail'[Srv(r)] = mail[Srv(r)] \o out[Srv(r)]
  <1>1. /\ mail' = [b \in Boxes |-> mail'[b]]
        /\ \A b \in Boxes :
              mail'[b] = (IF b = Hdl(s) THEN Tail(mail[b]) ELSE mail[b]) \o out[b]
    BY ExchangeAt
  <1>2. mail'[Hdl(s)] = Tail(mail[Hdl(s)]) \o out[Hdl(s)]
    BY <1>1, BoxNames
  <1>3. \A r \in Servers \ {s} : mail'[Hdl(r)] = mail[Hdl(r)] \o out[Hdl(r)]
    BY <1>1, BoxNames
  <1>4. \A r \in Servers : mail'[Srv(r)] = mail[Srv(r)] \o out[Srv(r)]
    BY <1>1, BoxNames
  <1> QED
    BY <1>1, <1>2, <1>3, <1>4

LEMMA Concat ==
    ASSUME NEW S, NEW q \in Seq(S)
    PROVE  /\ q \o << >> = q /\ << >> \o q = q
           /\ \A x : << >> \o <<x>> = <<x>> /\ <<x>> \o << >> = <<x>>
           /\ \A x : q \o <<x>> = Append(q, x)
  OBVIOUS

RelayEffect(s, m, x) ==
    /\ mail' = [b \in Boxes |-> mail'[b]]
    /\ mail'[Hdl(s)] = Tail(mail[Hdl(s)])
    /\ \A r \in Servers \ {s} : mail'[Hdl(r)] = Append(mail[Hdl(r)], x)
    /\ \A r \in Servers : mail'[Srv(r)] = mail[Srv(r)]
    /\ inProgress' = [inProgress EXCEPT ![s] = Append(@, [msg |-> m, yes |-> 0, no |-> 0])]

LEMMA RelayMany ==
    ASSUME Shape, NEW s \in Servers, Relay(s), NumServers # 1
    PROVE  \E m \in Passed, x \in Message :
              /\ Handles(s, m) /\ m \in OwnMail(s)
              /\ x.from = Hdl(s) /\ x.client = m.client /\ x.id = m.id /\ x.req = m.req
              /\ RelayEffect(s, m, x)
  <1>1. PICK m \in Message : Handles(s, m)
    BY HeadHandled DEF Relay
  <1>2. m.from = Srv(s) /\ m \in Passed /\ m \in OwnMail(s)
    BY <1>1, BoxNames DEF Relay, Handles, ToHandler, Passed, OwnMail
  <1> DEFINE x == [m EXCEPT !.from = Hdl(s)]
             out == [b \in Boxes |-> IF \E r \in Servers \ {s} : b = Hdl(r) THEN <<x>> ELSE << >>]
  <1>3. x \in Message /\ x.from = Hdl(s) /\ x.client = m.client /\ x.id = m.id /\ x.req = m.req
    <2>1. m \in Message /\ Hdl(s) \in Ids
      BY BoxNames
    <2> QED
      BY <2>1 DEF Message
  <1>4. Exchange(Hdl(s), out)
    BY <1>1 DEF Relay, Handles
  <1>5. Relayed(s) = [inProgress EXCEPT ![s] = Append(@, [msg |-> m, yes |-> 0, no |-> 0])]
    BY <1>1 DEF Relayed, Handles
  <1> HIDE DEF x
  <1>6. /\ out[Hdl(s)] = << >>
        /\ \A r \in Servers \ {s} : out[Hdl(r)] = <<x>>
        /\ \A r \in Servers : out[Srv(r)] = << >>
    BY BoxNames
  <1> HIDE DEF out
  <1>7. /\ mail' = [b \in Boxes |-> mail'[b]]
        /\ mail'[Hdl(s)] = Tail(mail[Hdl(s)]) \o << >>
        /\ \A r \in Servers \ {s} : mail'[Hdl(r)] = mail[Hdl(r)] \o <<x>>
        /\ \A r \in Servers : mail'[Srv(r)] = mail[Srv(r)] \o << >>
    <2>1. /\ mail' = [b \in Boxes |-> mail'[b]]
          /\ mail'[Hdl(s)] = Tail(mail[Hdl(s)]) \o out[Hdl(s)]
          /\ \A r \in Servers \ {s} : mail'[Hdl(r)] = mail[Hdl(r)] \o out[Hdl(r)]
          /\ \A r \in Servers : mail'[Srv(r)] = mail[Srv(r)] \o out[Srv(r)]
      BY <1>4, HandlerExchange, Zenon
    <2> QED
      BY <1>6, <2>1, Zenon
  <1>8. \A r \in Servers : mail[Srv(r)] \in Seq(Message) /\ mail[Hdl(r)] \in Seq(Message)
    BY MailTyped
  <1>9. Tail(mail[Hdl(s)]) \in Seq(Message)
    BY <1>1, <1>8 DEF Handles
  <1>10. /\ mail'[Hdl(s)] = Tail(mail[Hdl(s)])
         /\ \A r \in Servers \ {s} : mail'[Hdl(r)] = Append(mail[Hdl(r)], x)
         /\ \A r \in Servers : mail'[Srv(r)] = mail[Srv(r)]
    BY <1>7, <1>8, <1>9, Concat
  <1>11. RelayEffect(s, m, x)
    BY <1>5, <1>7, <1>10 DEF RelayEffect, Relay
  <1> QED
    BY <1>1, <1>2, <1>3, <1>11

(* The handler's mail loses its first message and, in the other steps, one   *)
(* message or none is posted to the Server s, and one or none to a handler.  *)
Hands(s) ==
    /\ mail' = [b \in Boxes |-> mail'[b]]
    /\ mail'[Hdl(s)] = Tail(mail[Hdl(s)])
    /\ \/ mail'[Srv(s)] = mail[Srv(s)]
       \/ \E y \in ToServer : mail'[Srv(s)] = Append(mail[Srv(s)], y)
    /\ \A r \in Servers \ {s} : mail'[Srv(r)] = mail[Srv(r)]

HandsBack(s) == Hands(s) /\ \A r \in Servers \ {s} : mail'[Hdl(r)] = mail[Hdl(r)]

LEMMA HandsTo ==
    ASSUME Shape, NEW s \in Servers, mail[Hdl(s)] # << >>, NEW out, Exchange(Hdl(s), out),
           \A r \in Servers : out[Hdl(r)] = << >>,
           \A r \in Servers \ {s} : out[Srv(r)] = << >>,
           out[Srv(s)] = << >> \/ \E y \in ToServer : out[Srv(s)] = <<y>>
    PROVE  HandsBack(s)
  <1>1. \A r \in Servers : mail[Srv(r)] \in Seq(Message) /\ mail[Hdl(r)] \in Seq(Message)
    BY MailTyped
  <1>2. Tail(mail[Hdl(s)]) \in Seq(Message)
    BY <1>1
  <1>3. /\ mail' = [b \in Boxes |-> mail'[b]]
        /\ mail'[Hdl(s)] = Tail(mail[Hdl(s)]) \o << >>
        /\ \A r \in Servers \ {s} : mail'[Hdl(r)] = mail[Hdl(r)] \o << >>
        /\ \A r \in Servers : mail'[Srv(r)] = mail[Srv(r)] \o out[Srv(r)]
    <2>1. /\ mail' = [b \in Boxes |-> mail'[b]]
          /\ mail'[Hdl(s)] = Tail(mail[Hdl(s)]) \o out[Hdl(s)]
          /\ \A r \in Servers \ {s} : mail'[Hdl(r)] = mail[Hdl(r)] \o out[Hdl(r)]
          /\ \A r \in Servers : mail'[Srv(r)] = mail[Srv(r)] \o out[Srv(r)]
      BY HandlerExchange, Zenon
    <2> QED
      BY <2>1, Zenon
  <1>4. /\ mail'[Hdl(s)] = Tail(mail[Hdl(s)])
        /\ \A r \in Servers \ {s} : mail'[Hdl(r)] = mail[Hdl(r)] /\ mail'[Srv(r)] = mail[Srv(r)]
    BY <1>1, <1>2, <1>3, Concat, ZenonT(60)
  <1>5. CASE out[Srv(s)] = << >>
    <2>1. mail'[Srv(s)] = mail[Srv(s)]
      BY <1>1, <1>3, <1>5, Concat
    <2> QED
      BY <1>3, <1>4, <2>1 DEF HandsBack, Hands
  <1>6. CASE \E y \in ToServer : out[Srv(s)] = <<y>>
    <2>1. PICK y \in ToServer : out[Srv(s)] = <<y>>
      BY <1>6
    <2>2. mail'[Srv(s)] = Append(mail[Srv(s)], y)
      <3>1. mail'[Srv(s)] = mail[Srv(s)] \o <<y>> /\ mail[Srv(s)] \in Seq(Message)
        BY <1>1, <1>3, <2>1, Zenon
      <3> QED
        BY <3>1, Concat
    <2> QED
      BY <1>3, <1>4, <2>2 DEF HandsBack, Hands
  <1> QED
    BY <1>5, <1>6

(* A message of the handler to its own Server. *)
LEMMA ToOwnServer ==
    ASSUME Shape, NEW s \in Servers, mail[Hdl(s)] # << >>, NEW m \in Passed,
           Exchange(Hdl(s), To(Srv(s), [m EXCEPT !.from = Hdl(s)]))
    PROVE  HandsBack(s)
  <1> DEFINE y == [m EXCEPT !.from = Hdl(s)]
             out == To(Srv(s), y)
  <1>1. m \in Message
    BY DEF Passed
  <1>2. y \in Message /\ y.client = m.client /\ y.id = m.id /\ y.req = m.req
    BY <1>1, Fields, BoxNames, ZenonT(60)
  <1> HIDE DEF y
  <1>3. y \in ToServer
    BY <1>2 DEF ToServer, Passed
  <1>4. /\ \A r \in Servers : out[Hdl(r)] = << >>
        /\ \A r \in Servers \ {s} : out[Srv(r)] = << >>
        /\ out[Srv(s)] = <<y>>
    BY BoxNames DEF To, Nothing
  <1>5. Exchange(Hdl(s), out)
    BY DEF y
  <1> HIDE DEF out
  <1> QED
    BY <1>3, <1>4, <1>5, HandsTo

LEMMA RelayOne ==
    ASSUME Shape, NEW s \in Servers, Relay(s), NumServers = 1, inProgress[s] = << >>
    PROVE  /\ HandsBack(s) /\ inProgress' = inProgress
           /\ \E m \in Message : Handles(s, m) /\ m \in OwnMail(s)
  <1>1. PICK m \in Message : Handles(s, m)
    BY HeadHandled DEF Relay
  <1>2. m.from = Srv(s) /\ m \in Passed /\ m \in OwnMail(s)
    BY <1>1, BoxNames DEF Relay, Handles, ToHandler, Passed, OwnMail
  <1>3. inProgress = [r \in Servers |-> inProgress[r]]
    BY DEF Shape
  <1>4. Relayed(s)[s] = <<[msg |-> m, yes |-> 0, no |-> 0]>>
    BY <1>1, <1>3 DEF Relayed, Handles
  <1>5. Head(Relayed(s)[s]).msg = m /\ Tail(Relayed(s)[s]) = << >>
    BY <1>4
  <1>6. Exchange(Hdl(s), To(Srv(s), [m EXCEPT !.from = Hdl(s)]))
    BY <1>5 DEF Relay
  <1>7. inProgress' = inProgress
    BY <1>3, <1>5 DEF Relay
  <1> QED
    BY <1>1, <1>2, <1>6, <1>7, ToOwnServer DEF Handles
-----------------------------------------------------------------------------
(* The requests of a server that are in progress, and the replies to them. *)

(* The queues of Pipe. *)
Pipes(R, P, F, n, L) ==
    /\ IsFiniteSet(R) /\ P \in Seq(Entry) /\ F \in Seq(Message) /\ n \in Int
    /\ L \in [R -> Seq(Message)]

LEMMA EntryFields ==
    \A e \in Entry : e.yes \in Nat /\ e.no \in Nat /\ e.msg \in Message /\ e.msg.id \in Int
  BY Fields DEF Entry, Passed

LEMMA MsgsOf ==
    ASSUME NEW P \in Seq(Entry)
    PROVE  /\ Msgs(P) \in Seq(Message) /\ Len(Msgs(P)) = Len(P)
           /\ \A i \in 1..Len(P) : Msgs(P)[i] = P[i].msg
  <1>1. Len(P) \in Nat /\ \A i \in 1..Len(P) : P[i] \in Entry
    OBVIOUS
  <1>2. \A i \in 1..Len(P) : P[i].msg \in Message
    BY <1>1, EntryFields
  <1>3. Msgs(P) \in [1..Len(P) -> Message]
    BY <1>2 DEF Msgs
  <1>4. Msgs(P) \in Seq(Message) /\ Len(Msgs(P)) = Len(P)
    BY <1>1, <1>3, IsASeq
  <1> QED
    BY <1>4 DEF Msgs

LEMMA Longer ==
    ASSUME NEW S, NEW q \in Seq(S), NEW x \in S
    PROVE  /\ Append(q, x) \in Seq(S) /\ Len(Append(q, x)) = Len(q) + 1 /\ Len(q) \in Nat
           /\ Append(q, x)[Len(q) + 1] = x
           /\ \A i \in 1..Len(q) : Append(q, x)[i] = q[i]
  OBVIOUS

LEMMA Shorter ==
    ASSUME NEW S, NEW q \in Seq(S), q # << >>
    PROVE  /\ Tail(q) \in Seq(S) /\ Len(Tail(q)) = Len(q) - 1 /\ Len(q) \in Nat /\ Len(q) >= 1
           /\ \A i \in 1..(Len(q) - 1) : Tail(q)[i] = q[i + 1]
           /\ Head(q) = q[1]
  OBVIOUS

LEMMA HeardFinite ==
    ASSUME NEW R, IsFiniteSet(R), NEW P, NEW L, NEW i
    PROVE  IsFiniteSet(Heard(R, P, L, i)) /\ Cardinality(Heard(R, P, L, i)) \in Nat
  <1>1. Heard(R, P, L, i) \subseteq R
    BY DEF Heard
  <1> QED
    BY <1>1, FS_Subset, FS_CardinalityType

(* A request with the next ID becomes the youngest. *)
LEMMA RisingAppend ==
    ASSUME NEW q \in Seq(Message), NEW n \in Int, Rising(q, n), NEW x \in Message, x.id = n
    PROVE  Rising(Append(q, x), n + 1)
  <1>1. /\ Len(Append(q, x)) = Len(q) + 1 /\ Len(q) \in Nat /\ Append(q, x)[Len(q) + 1] = x
        /\ \A i \in 1..Len(q) : Append(q, x)[i] = q[i] /\ q[i] \in Message
    BY Longer
  <1>2. \A i \in 1..Len(q) : q[i].id \in Int
    BY <1>1, Fields
  <1> QED
    BY <1>1, <1>2 DEF Rising

LEMMA PipePass ==
    ASSUME NEW R, NEW P, NEW F, NEW n, NEW L, Pipes(R, P, F, n, L), Pipe(R, P, F, n, L),
           NEW x \in Message, x.id = n
    PROVE  Pipe(R, P, Append(F, x), n + 1, L)
  <1> DEFINE q == Msgs(P)
  <1>1. q \in Seq(Message) /\ F \in Seq(Message) /\ n \in Int
    BY MsgsOf DEF Pipes
  <1> HIDE DEF q
  <1>2. q \o Append(F, x) = Append(q \o F, x) /\ q \o F \in Seq(Message)
    BY <1>1
  <1>3. Rising(Append(q \o F, x), n + 1)
    BY <1>1, <1>2, RisingAppend DEF Pipe, q
  <1> QED
    BY <1>2, <1>3 DEF Pipe, q

(* The oldest fresh request is put at the end of the list and sent to all.   *)
LEMMA PipeRelay ==
    ASSUME NEW R, NEW P, NEW F, NEW n, NEW L, Pipes(R, P, F, n, L),
           NEW m \in Passed, Pipe(R, P, <<m>> \o F, n, L), R # {},
           NEW K \in [R -> Seq(Message)], NEW x \in Message, x.id = m.id,
           \A r \in R : K[r] = Append(L[r], x)
    PROVE  Pipe(R, Append(P, [msg |-> m, yes |-> 0, no |-> 0]), F, n, K)
  <1> DEFINE e == [msg |-> m, yes |-> 0, no |-> 0]
             Q == Append(P, e)
  <1>1. e \in Entry /\ e.msg = m /\ e.yes = 0 /\ e.no = 0 /\ m \in Message
    BY DEF Entry, Passed
  <1> HIDE DEF e
  <1>2. /\ Q \in Seq(Entry) /\ Len(Q) = Len(P) + 1 /\ Len(P) \in Nat /\ Q[Len(P) + 1] = e
        /\ \A i \in 1..Len(P) : Q[i] = P[i]
    BY <1>1 DEF Pipes
  <1> HIDE DEF Q
  <1>3. \A r \in R : /\ Len(L[r]) \in Nat /\ Len(K[r]) = Len(L[r]) + 1
                     /\ \A i \in 1..Len(L[r]) : K[r][i] = L[r][i]
                     /\ K[r][Len(L[r]) + 1] = x
                     /\ L[r] \in Seq(Message)
    <2> SUFFICES ASSUME NEW r \in R
                 PROVE  /\ Len(L[r]) \in Nat /\ Len(K[r]) = Len(L[r]) + 1
                        /\ \A i \in 1..Len(L[r]) : K[r][i] = L[r][i]
                        /\ K[r][Len(L[r]) + 1] = x
                        /\ L[r] \in Seq(Message)
      OBVIOUS
    <2>1. L[r] \in Seq(Message) /\ K[r] = Append(L[r], x)
      BY DEF Pipes
    <2> QED
      BY <2>1, Longer
  <1>4. Rising(Msgs(Q) \o F, n)
    <2>1. Msgs(Q) = Append(Msgs(P), m)
      <3>1. Msgs(P) \in Seq(Message) /\ Msgs(Q) \in Seq(Message)
        BY <1>2, MsgsOf DEF Pipes
      <3>2. Len(Append(Msgs(P), m)) = Len(P) + 1 /\ Len(Msgs(Q)) = Len(P) + 1
        BY <1>1, <1>2, <3>1, MsgsOf DEF Pipes
      <3>3. \A i \in 1..(Len(P) + 1) : Append(Msgs(P), m)[i] = Msgs(Q)[i]
        <4>0. /\ Len(Msgs(P)) = Len(P) /\ \A i \in 1..Len(P) : Msgs(P)[i] = P[i].msg
              /\ \A i \in 1..(Len(P) + 1) : Msgs(Q)[i] = Q[i].msg
          BY <1>2, MsgsOf DEF Pipes
        <4>1. ASSUME NEW i \in 1..Len(P) PROVE Append(Msgs(P), m)[i] = Msgs(Q)[i]
          <5>1. Append(Msgs(P), m)[i] = Msgs(P)[i]
            BY <1>1, <3>1, <4>0, Longer
          <5>2. i \in 1..(Len(P) + 1)
            BY <1>2
          <5> QED
            BY <1>2, <4>0, <5>1, <5>2
        <4>2. Append(Msgs(P), m)[Len(P) + 1] = Msgs(Q)[Len(P) + 1]
          <5>1. Append(Msgs(P), m)[Len(P) + 1] = m
            BY <1>1, <3>1, <4>0, Longer
          <5>2. Len(P) + 1 \in 1..(Len(P) + 1)
            BY <1>2
          <5> QED
            BY <1>1, <1>2, <4>0, <5>1, <5>2
        <4>3. \A i \in 1..(Len(P) + 1) : i \in 1..Len(P) \/ i = Len(P) + 1
          BY <1>2
        <4> QED
          BY <4>1, <4>2, <4>3
      <3>4. Append(Msgs(P), m) \in Seq(Message)
        BY <1>1, <3>1
      <3> QED
        BY <3>1, <3>2, <3>3, <3>4, SeqEqual
    <2>2. Msgs(P) \in Seq(Message) /\ F \in Seq(Message) /\ m \in Message
      BY <1>1, MsgsOf DEF Pipes
    <2>3. \A q \in Seq(Message) : Append(q, m) \o F = q \o (<<m>> \o F)
      BY <2>2
    <2> QED
      BY <2>1, <2>2, <2>3 DEF Pipe
  <1>5. \A r \in R : Aligned(Q, K[r])
    <2> SUFFICES ASSUME NEW r \in R PROVE Aligned(Q, K[r])
      OBVIOUS
    <2>1. Aligned(P, L[r])
      BY DEF Pipe
    <2>2. PICK k, p \in Nat : k = Len(L[r]) /\ p = Len(P)
      BY <1>2, <1>3
    <2>3. k <= p /\ Len(K[r]) = k + 1 /\ Len(Q) = p + 1
      BY <1>2, <1>3, <2>1, <2>2 DEF Aligned
    <2>4. ASSUME NEW i \in 1..(k + 1)
          PROVE  K[r][i].id = Q[(p - k) + i].msg.id
      <3>1. CASE i \in 1..k
        <4>1. (p - k) + i \in 1..p
          BY <2>3, <3>1
        <4>2. L[r][i].id = P[(p - k) + i].msg.id
          BY <2>1, <2>2, <3>1 DEF Aligned
        <4> QED
          BY <1>2, <1>3, <2>2, <3>1, <4>1, <4>2
      <3>2. CASE i = k + 1
        <4>1. (p - k) + i = p + 1
          BY <2>3, <3>2
        <4>2. K[r][k + 1] = x /\ Q[p + 1] = e
          BY <1>2, <1>3, <2>2
        <4> QED
          BY <1>1, <3>2, <4>1, <4>2
      <3> QED
        BY <3>1, <3>2
    <2>5. Len(Q) - Len(K[r]) = p - k
      BY <2>3
    <2>6. Len(K[r]) <= Len(Q)
      BY <2>3
    <2> QED
      BY <2>3, <2>4, <2>5, <2>6 DEF Aligned
  <1>6. CountsHeard(R, Q, K)
    <2>1. \A i : Heard(R, Q, K, i) = Heard(R, P, L, i)
      <3>1. ASSUME NEW r \in R
            PROVE  Len(Q) - Len(K[r]) = Len(P) - Len(L[r])
        <4>1. PICK k, p \in Nat : k = Len(L[r]) /\ p = Len(P)
          BY <1>2, <1>3
        <4>2. Len(K[r]) = k + 1 /\ Len(Q) = p + 1
          BY <1>2, <1>3, <4>1
        <4>3. (p + 1) - (k + 1) = p - k
          OBVIOUS
        <4> QED
          BY <4>1, <4>2, <4>3, Zenon
      <3> QED
        BY <3>1 DEF Heard
    <2>2. ASSUME NEW i \in 1..Len(P)
          PROVE  Q[i].yes + Q[i].no = Cardinality(Heard(R, Q, K, i))
      BY <1>2, <2>1 DEF Pipe, CountsHeard
    <2>3. Heard(R, P, L, Len(P) + 1) = {}
      <3>1. ASSUME NEW r \in R
            PROVE  ~(Len(P) + 1 <= Len(P) - Len(L[r]))
        <4>1. PICK k, p \in Nat : k = Len(L[r]) /\ p = Len(P)
          BY <1>2, <1>3
        <4>2. ~(p + 1 <= p - k)
          OBVIOUS
        <4> QED
          BY <4>1, <4>2, Zenon
      <3> QED
        BY <3>1 DEF Heard
    <2>4. Q[Len(P) + 1].yes + Q[Len(P) + 1].no = Cardinality(Heard(R, Q, K, Len(P) + 1))
      <3>1. Cardinality(Heard(R, Q, K, Len(P) + 1)) = 0
        BY <2>1, <2>3, FS_EmptySet
      <3> QED
        BY <1>1, <1>2, <3>1
    <2>5. \A i \in 1..Len(Q) : i \in 1..Len(P) \/ i = Len(P) + 1
      BY <1>2
    <2> QED
      BY <2>2, <2>4, <2>5 DEF CountsHeard
  <1>7. HeadWaits(R, Q, K)
    <2>1. CASE P # << >>
      <3>1. PICK r \in R : Len(L[r]) = Len(P)
        BY <2>1 DEF Pipe, HeadWaits
      <3> QED
        BY <1>2, <1>3, <3>1 DEF HeadWaits
    <2>2. CASE P = << >>
      <3>1. PICK r \in R : TRUE
        OBVIOUS
      <3>2. Len(L[r]) <= Len(P) /\ Len(P) = 0
        BY <2>2 DEF Pipe, Aligned
      <3> QED
        BY <1>2, <1>3, <3>2 DEF HeadWaits
    <2> QED
      BY <2>1, <2>2
  <1> QED
    BY <1>4, <1>5, <1>6, <1>7 DEF Pipe, Q, e

(* With nobody to ask, it just goes. *)
LEMMA PipeAlone ==
    ASSUME NEW R, NEW P, NEW F, NEW n, NEW L, Pipes(R, P, F, n, L),
           NEW m \in Message, Pipe(R, P, <<m>> \o F, n, L), P = << >>
    PROVE  Pipe(R, P, F, n, L)
  <1>1. Msgs(P) = << >>
    BY DEF Msgs
  <1>2. F \in Seq(Message) /\ n \in Int
    BY DEF Pipes
  <1>3. << >> \o (<<m>> \o F) = <<m>> \o F /\ << >> \o F = F
    BY <1>2
  <1>4. Rising(<<m>> \o F, n)
    BY <1>1, <1>3 DEF Pipe
  <1>5. /\ Len(<<m>> \o F) = Len(F) + 1 /\ Len(F) \in Nat
        /\ \A i \in 1..Len(F) : (<<m>> \o F)[i + 1] = F[i]
    BY <1>2
  <1>6. Rising(F, n)
    <2>1. \A i \in 1..Len(F) : i + 1 \in 1..Len(<<m>> \o F)
      BY <1>5
    <2> DEFINE q == <<m>> \o F
    <2> HIDE DEF q
    <2>4. /\ \A i, j \in 1..Len(q) : i < j => q[i].id < q[j].id
          /\ \A i \in 1..Len(F) : i + 1 \in 1..Len(q)
      BY <1>4, <2>1 DEF Rising, q
    <2>5. \A i, j \in 1..Len(F) : i < j => i + 1 < j + 1
      BY <1>5
    <2>2. \A i, j \in 1..Len(F) : i < j => q[i + 1].id < q[j + 1].id
      BY <2>4, <2>5
    <2>3. \A i \in 1..Len(F) : q[i + 1].id < n
      BY <1>4, <2>1 DEF Rising, q
    <2> QED
      BY <1>5, <2>2, <2>3 DEF Rising, q
  <1> QED
    BY <1>1, <1>3, <1>6 DEF Pipe
(* An answer in place of the question keeps the line. *)
Alike(k, l) == Len(k) = Len(l) /\ \A i \in 1..Len(l) : k[i].id = l[i].id

LEMMA PipeAsk ==
    ASSUME NEW R, NEW P, NEW F, NEW n, NEW L, Pipe(R, P, F, n, L),
           NEW K, \A r \in R : Alike(K[r], L[r])
    PROVE  Pipe(R, P, F, n, K)
  <1>1. \A r \in R : Len(K[r]) = Len(L[r])
    BY DEF Alike
  <1>2. \A r \in R : Aligned(P, K[r])
    BY <1>1, ZenonT(60) DEF Pipe, Aligned, Alike
  <1>3. \A i : Heard(R, P, K, i) = Heard(R, P, L, i)
    BY <1>1 DEF Heard
  <1> QED
    BY <1>1, <1>2, <1>3 DEF Pipe, CountsHeard, HeadWaits

(* The answer y to the question m, put behind the answers before it. *)
LEMMA AlikeTurn ==
    ASSUME NEW a \in Seq(Message), NEW d \in Seq(Message), NEW m \in Message, NEW y \in Message,
           y.id = m.id, NEW k, NEW l, l = a \o (<<m>> \o d), k = Append(a, y) \o d
    PROVE  Alike(k, l)
  <1> DEFINE n == Len(a)
             z == Len(d)
  <1>1. n \in Nat /\ z \in Nat
    OBVIOUS
  <1>2. /\ Len(<<m>> \o d) = 1 + z /\ <<m>> \o d \in Seq(Message)
        /\ (<<m>> \o d)[1] = m /\ \A i \in 1..z : (<<m>> \o d)[i + 1] = d[i]
    OBVIOUS
  <1>3. /\ Append(a, y) \in Seq(Message) /\ Len(Append(a, y)) = n + 1
        /\ Append(a, y)[n + 1] = y /\ \A i \in 1..n : Append(a, y)[i] = a[i]
    BY Longer
  <1> DEFINE f == <<m>> \o d
             g == Append(a, y)
  <1> HIDE DEF f, g
  <1>4. /\ Len(l) = n + (1 + z)
        /\ \A i \in 1..(n + (1 + z)) : l[i] = IF i <= n THEN a[i] ELSE f[i - n]
    BY <1>2, ConcatProperties DEF f
  <1>5. /\ Len(k) = (n + 1) + z
        /\ \A i \in 1..((n + 1) + z) : k[i] = IF i <= n + 1 THEN g[i] ELSE d[i - (n + 1)]
    BY <1>3, ConcatProperties DEF g
  <1> HIDE DEF n, z
  <1>6. ASSUME NEW i \in 1..Len(l)
        PROVE  k[i].id = l[i].id
    <2>1. i \in 1..(n + (1 + z)) /\ i \in 1..((n + 1) + z)
      BY <1>1, <1>4
    <2>2. CASE i <= n
      <3>1. i \in 1..n /\ i <= n + 1
        BY <1>1, <2>1, <2>2
      <3> QED
        BY <1>3, <1>4, <1>5, <2>1, <2>2, <3>1 DEF g
    <2>3. CASE i = n + 1
      <3>1. i - n = 1 /\ ~(i <= n) /\ i <= n + 1
        BY <1>1, <2>3
      <3>2. l[i] = m /\ k[i] = y
        BY <1>2, <1>3, <1>4, <1>5, <2>1, <2>3, <3>1 DEF f, g
      <3> QED
        BY <3>2
    <2>4. CASE i > n + 1
      <3>1. PICK j \in 1..z : j = i - (n + 1) /\ i - n = j + 1 /\ ~(i <= n) /\ ~(i <= n + 1)
        BY <1>1, <2>1, <2>4
      <3>2. l[i] = d[j] /\ k[i] = d[j]
        BY <1>2, <1>4, <1>5, <2>1, <3>1 DEF f
      <3> QED
        BY <3>2
    <2> QED
      BY <1>1, <2>1, <2>2, <2>3, <2>4
  <1>7. Len(k) = Len(l)
    BY <1>1, <1>4, <1>5
  <1> QED
    BY <1>6, <1>7 DEF Alike

(* Q is P with a reply counted on the request with the ID d. *)
Counts(P, d, Q) ==
    /\ Q \in Seq(Entry) /\ Len(Q) = Len(P)
    /\ \A i \in 1..Len(P) :
          /\ Q[i].msg = P[i].msg
          /\ Q[i].yes + Q[i].no = (P[i].yes + P[i].no) + (IF P[i].msg.id = d THEN 1 ELSE 0)

(* What the reply m of r leaves of the lines. *)
Answered(R, L, K, r, m) ==
    /\ r \in R /\ m \in Message
    /\ K \in [R -> Seq(Message)]
    /\ L[r] = <<m>> \o K[r]
    /\ \A u \in R : u # r => K[u] = L[u]

LEMMA LinesAnswered ==
    ASSUME NEW R, NEW L \in [R -> Seq(Message)], NEW K, NEW r, NEW m, Answered(R, L, K, r, m)
    PROVE  /\ \A u \in R : Len(L[u]) \in Nat /\ Len(K[u]) \in Nat
           /\ Len(L[r]) = Len(K[r]) + 1 /\ L[r][1] = m
           /\ \A i \in 1..Len(K[r]) : K[r][i] = L[r][i + 1]
  <1>1. \A u \in R : Len(L[u]) \in Nat /\ Len(K[u]) \in Nat
    BY DEF Answered
  <1>2. K[r] \in Seq(Message) /\ L[r] = <<m>> \o K[r]
    BY DEF Answered
  <1>3. \A q \in Seq(Message) : /\ Len(<<m>> \o q) = Len(q) + 1 /\ (<<m>> \o q)[1] = m
                                /\ \A i \in 1..Len(q) : q[i] = (<<m>> \o q)[i + 1]
    BY DEF Answered
  <1> QED
    BY <1>1, <1>2, <1>3

(* The reply is about the oldest request that r has not answered, and about  *)
(* no other.                                                                 *)
LEMMA ReplyMatches ==
    ASSUME NEW R, NEW P, NEW F, NEW n, NEW L, Pipes(R, P, F, n, L), Pipe(R, P, F, n, L),
           NEW K, NEW r, NEW m, Answered(R, L, K, r, m)
    PROVE  \E j \in 1..Len(P) :
              /\ j = Len(P) - Len(L[r]) + 1
              /\ \A i \in 1..Len(P) : P[i].msg.id = m.id <=> i = j
  <1>1. PICK k, p \in Nat : k = Len(K[r]) /\ p = Len(P) /\ Len(L[r]) = k + 1
    BY LinesAnswered DEF Pipes, Answered
  <1>2. Aligned(P, L[r]) /\ L[r][1] = m
    <2>1. L \in [R -> Seq(Message)] /\ r \in R
      BY DEF Pipes, Answered
    <2>2. L[r][1] = m
      BY <2>1, LinesAnswered
    <2> QED
      BY <2>1, <2>2 DEF Pipe
  <1>3. k + 1 <= p /\ m.id = P[p - (k + 1) + 1].msg.id
    <2>1. 1 \in 1..(k + 1)
      OBVIOUS
    <2> QED
      BY <1>1, <1>2, <2>1 DEF Aligned
  <1> DEFINE j == p - (k + 1) + 1
  <1>4. j \in 1..p
    BY <1>3
  <1>5. \A a, b \in 1..p : a < b => P[a].msg.id < P[b].msg.id
    <2>1. Msgs(P) \in Seq(Message) /\ Len(Msgs(P)) = p /\ \A i \in 1..p : Msgs(P)[i] = P[i].msg
      BY <1>1, MsgsOf DEF Pipes
    <2>2. F \in Seq(Message) /\ Rising(Msgs(P) \o F, n)
      BY DEF Pipes, Pipe
    <2> DEFINE q == Msgs(P)
    <2> HIDE DEF q
    <2>3. Len(q \o F) = p + Len(F) /\ Len(F) \in Nat /\ \A i \in 1..p : (q \o F)[i] = q[i]
      BY <2>1, <2>2 DEF q
    <2>4. \A a, b \in 1..p : a < b => q[a].id < q[b].id
      <3>1. \A i \in 1..p : i \in 1..Len(q \o F)
        BY <2>3
      <3> QED
        BY <2>2, <2>3, <3>1 DEF Rising, q
    <2> QED
      BY <2>1, <2>4 DEF q
  <1>6. \A i \in 1..p : P[i].msg.id \in Int
    BY <1>1, EntryFields DEF Pipes
  <1>7. \A i \in 1..p : P[i].msg.id = m.id <=> i = j
    <2> SUFFICES ASSUME NEW i \in 1..p PROVE P[i].msg.id = m.id <=> i = j
      OBVIOUS
    <2>1. P[j].msg.id = m.id
      BY <1>3
    <2> HIDE DEF j
    <2>2. i = j \/ i < j \/ j < i
      BY <1>4
    <2> QED
      BY <1>4, <1>5, <1>6, <2>1, <2>2
  <1> QED
    BY <1>1, <1>4, <1>7

(* With the reply counted, all but HeadWaits holds. *)
LEMMA PipeCounted ==
    ASSUME NEW R, NEW P, NEW F, NEW n, NEW L, Pipes(R, P, F, n, L), Pipe(R, P, F, n, L),
           NEW K, NEW r, NEW m, Answered(R, L, K, r, m), NEW Q, Counts(P, m.id, Q)
    PROVE  /\ Rising(Msgs(Q) \o F, n)
           /\ \A u \in R : Aligned(Q, K[u])
           /\ CountsHeard(R, Q, K)
           /\ Q # << >>
  <1>1. PICK k, p \in Nat : k = Len(K[r]) /\ p = Len(P) /\ Len(L[r]) = k + 1 /\ Len(Q) = p
    BY LinesAnswered DEF Pipes, Answered, Counts
  <1>2. PICK j \in 1..p : /\ j = p - (k + 1) + 1
                          /\ \A i \in 1..p : P[i].msg.id = m.id <=> i = j
    <2>1. PICK j \in 1..Len(P) : /\ j = Len(P) - Len(L[r]) + 1
                                /\ \A i \in 1..Len(P) : P[i].msg.id = m.id <=> i = j
      BY ReplyMatches
    <2>2. j \in 1..p /\ j = p - (k + 1) + 1
      BY <1>1, <2>1
    <2>3. \A i \in 1..p : P[i].msg.id = m.id <=> i = j
      BY <1>1, <2>1
    <2> QED
      BY <2>2, <2>3
  <1>3. \A i \in 1..p : Q[i].msg = P[i].msg
    BY <1>1 DEF Counts
  <1>4. Msgs(Q) = Msgs(P)
    BY <1>1, <1>3 DEF Msgs
  <1>5. ASSUME NEW u \in R
        PROVE  Aligned(Q, K[u])
    <2>1. CASE u = r
      <3>1. Aligned(P, L[r]) /\ \A i \in 1..k : K[r][i] = L[r][i + 1]
        <4>1. L \in [R -> Seq(Message)] /\ r \in R
          BY DEF Pipes, Answered
        <4>2. \A i \in 1..k : K[r][i] = L[r][i + 1]
          <5>1. \A i \in 1..Len(K[r]) : K[r][i] = L[r][i + 1]
            BY <4>1, LinesAnswered
          <5> QED
            BY <1>1, <5>1, Zenon
        <4> QED
          BY <4>1, <4>2 DEF Pipe
      <3>2. k <= p /\ \A i \in 1..(k + 1) : L[r][i].id = P[p - (k + 1) + i].msg.id
        <4>1. \A i \in 1..(k + 1) : L[r][i].id = P[p - (k + 1) + i].msg.id
          BY <1>1, <3>1, Zenon DEF Aligned
        <4>2. k + 1 <= p
          BY <1>1, <3>1, Zenon DEF Aligned
        <4> QED
          BY <4>1, <4>2
      <3>3. ASSUME NEW i \in 1..k
            PROVE  K[r][i].id = Q[p - k + i].msg.id
        <4>1. /\ i + 1 \in 1..(k + 1) /\ p - (k + 1) + (i + 1) = p - k + i
              /\ p - k + i \in 1..p
          BY <3>2
        <4>2. L[r][i + 1].id = P[p - k + i].msg.id
          BY <3>2, <4>1
        <4> QED
          BY <1>3, <3>1, <4>1, <4>2
      <3> QED
        BY <1>1, <2>1, <3>2, <3>3 DEF Aligned
    <2>2. CASE u # r
      <3>1. K[u] = L[u] /\ Aligned(P, L[u]) /\ Len(L[u]) \in Nat
        BY <2>2, LinesAnswered DEF Pipe, Pipes, Answered
      <3>2. PICK h \in Nat : h = Len(L[u])
        BY <3>1
      <3>3. \A i \in 1..h : p - h + i \in 1..p
        BY <1>1, <3>1, <3>2 DEF Aligned
      <3> QED
        BY <1>1, <1>3, <3>1, <3>2, <3>3 DEF Aligned
    <2> QED
      BY <2>1, <2>2
  <1>6. CountsHeard(R, Q, K)
    <2>1. ASSUME NEW i \in 1..p, i # j
          PROVE  Heard(R, Q, K, i) = Heard(R, P, L, i)
      <3>1. i <= p - k <=> i <= p - (k + 1)
        BY <1>2, <2>1
      <3>2. \A u \in R : i <= Len(Q) - Len(K[u]) <=> i <= Len(P) - Len(L[u])
        BY <1>1, <3>1 DEF Answered
      <3> QED
        BY <3>2 DEF Heard
    <2>2. Heard(R, Q, K, j) = Heard(R, P, L, j) \cup {r} /\ r \notin Heard(R, P, L, j)
      <3>1. j <= p - k /\ ~(j <= p - (k + 1))
        BY <1>2
      <3>2. \A u \in R \ {r} : j <= Len(Q) - Len(K[u]) <=> j <= Len(P) - Len(L[u])
        BY <1>1 DEF Answered
      <3>3. r \in R /\ j <= Len(Q) - Len(K[r]) /\ ~(j <= Len(P) - Len(L[r]))
        BY <1>1, <3>1 DEF Answered
      <3> QED
        BY <3>2, <3>3 DEF Heard
    <2>3. Cardinality(Heard(R, Q, K, j)) = Cardinality(Heard(R, P, L, j)) + 1
      <3>1. IsFiniteSet(Heard(R, P, L, j))
        BY HeardFinite DEF Pipes
      <3> QED
        BY <2>2, <3>1, FS_AddElement
    <2>4. \A i \in 1..p : P[i].yes + P[i].no = Cardinality(Heard(R, P, L, i))
      BY <1>1 DEF Pipe, CountsHeard
    <2>5. \A i \in 1..p : P[i].yes + P[i].no \in Nat
      BY <1>1, EntryFields DEF Pipes
    <2>6. ASSUME NEW i \in 1..p
          PROVE  Q[i].yes + Q[i].no = Cardinality(Heard(R, Q, K, i))
      <3>1. Q[i].yes + Q[i].no = (P[i].yes + P[i].no) + (IF P[i].msg.id = m.id THEN 1 ELSE 0)
        BY <1>1 DEF Counts
      <3>2. CASE i = j
        <4>1. Q[i].yes + Q[i].no = (P[i].yes + P[i].no) + 1
          BY <1>2, <3>1, <3>2
        <4> QED
          BY <2>3, <2>4, <3>2, <4>1
      <3>3. CASE i # j
        <4>1. Q[i].yes + Q[i].no = P[i].yes + P[i].no
          BY <1>2, <2>5, <3>1, <3>3
        <4> QED
          BY <2>1, <2>4, <3>3, <4>1
      <3> QED
        BY <3>2, <3>3
    <2> QED
      BY <1>1, <2>6 DEF CountsHeard
  <1>7. Q # << >>
    BY <1>1, <1>2 DEF Counts
  <1>8. Rising(Msgs(Q) \o F, n)
    BY <1>4 DEF Pipe
  <1> QED
    BY <1>5, <1>6, <1>7, <1>8
(* Not complete: somebody has not answered the oldest request. *)
LEMMA PipeWaits ==
    ASSUME NEW R, NEW P, NEW F, NEW n, NEW L, Pipes(R, P, F, n, L), Pipe(R, P, F, n, L),
           NEW K, NEW r, NEW m, Answered(R, L, K, r, m), NEW Q, Counts(P, m.id, Q),
           Q[1].yes + Q[1].no # Cardinality(R)
    PROVE  Pipe(R, Q, F, n, K)
  <1>1. /\ Rising(Msgs(Q) \o F, n) /\ \A u \in R : Aligned(Q, K[u])
        /\ CountsHeard(R, Q, K) /\ Q # << >>
    BY PipeCounted
  <1>2. PICK p \in Nat : p = Len(Q) /\ p >= 1
    BY <1>1 DEF Counts
  <1>3. Heard(R, Q, K, 1) # R
    BY <1>1, <1>2 DEF CountsHeard
  <1>4. PICK u \in R : ~(1 <= p - Len(K[u]))
    BY <1>2, <1>3 DEF Heard
  <1>5. Len(K[u]) \in Nat /\ Len(K[u]) <= p
    BY <1>1, <1>2 DEF Aligned, Answered
  <1>6. Len(K[u]) = Len(Q)
    BY <1>2, <1>4, <1>5
  <1> QED
    BY <1>1, <1>6 DEF Pipe, HeadWaits

(* Complete: the oldest request goes. *)
LEMMA PipeDone ==
    ASSUME NEW R, NEW P, NEW F, NEW n, NEW L, Pipes(R, P, F, n, L), Pipe(R, P, F, n, L),
           NEW K, NEW r, NEW m, Answered(R, L, K, r, m), NEW Q, Counts(P, m.id, Q),
           Q[1].yes + Q[1].no = Cardinality(R)
    PROVE  Pipe(R, Tail(Q), F, n, K)
  <1> DEFINE T == Tail(Q)
  <1>1. /\ Rising(Msgs(Q) \o F, n) /\ \A u \in R : Aligned(Q, K[u])
        /\ CountsHeard(R, Q, K) /\ Q # << >>
    BY PipeCounted
  <1>2. PICK p \in Nat : p = Len(Q) /\ p >= 1 /\ p = Len(P)
    BY <1>1 DEF Counts
  <1>3. T \in Seq(Entry) /\ Len(T) = p - 1 /\ \A i \in 1..(p - 1) : T[i] = Q[i + 1]
    BY <1>1, <1>2, Shorter DEF Counts
  <1> HIDE DEF T
  <1>4. Heard(R, Q, K, 1) = R
    <2>1. Heard(R, Q, K, 1) \subseteq R /\ IsFiniteSet(R)
      BY DEF Heard, Pipes
    <2>2. Cardinality(Heard(R, Q, K, 1)) = Cardinality(R)
      BY <1>1, <1>2 DEF CountsHeard
    <2> QED
      BY <2>1, <2>2, FS_Subset
  <1>5. \A u \in R : Len(K[u]) \in Nat /\ Len(K[u]) <= p - 1
    <2> SUFFICES ASSUME NEW u \in R PROVE Len(K[u]) \in Nat /\ Len(K[u]) <= p - 1
      OBVIOUS
    <2>1. Len(K[u]) \in Nat
      BY DEF Answered
    <2>2. 1 <= p - Len(K[u])
      BY <1>2, <1>4 DEF Heard
    <2> QED
      BY <2>1, <2>2
  <1>6. ASSUME NEW u \in R
        PROVE  Aligned(T, K[u])
    <2>1. PICK k \in Nat : k = Len(K[u]) /\ k <= p - 1
      BY <1>5
    <2>2. \A i \in 1..k : K[u][i].id = Q[p - k + i].msg.id
      BY <1>1, <1>2, <2>1, Zenon DEF Aligned
    <2>3. ASSUME NEW i \in 1..k
          PROVE  K[u][i].id = T[(p - 1) - k + i].msg.id
      <3>1. (p - 1) - k + i \in 1..(p - 1) /\ ((p - 1) - k + i) + 1 = p - k + i
        BY <2>1
      <3>2. T[(p - 1) - k + i] = Q[p - k + i]
        BY <1>3, <3>1
      <3> QED
        BY <2>2, <3>2
    <2> QED
      BY <1>3, <2>1, <2>3, Zenon DEF Aligned
  <1>7. CountsHeard(R, T, K)
    <2> SUFFICES ASSUME NEW i \in 1..(p - 1)
                 PROVE  T[i].yes + T[i].no = Cardinality(Heard(R, T, K, i))
      BY <1>3 DEF CountsHeard
    <2>1. i + 1 \in 1..p /\ T[i] = Q[i + 1]
      BY <1>3
    <2>2. \A k \in Nat : i <= (p - 1) - k <=> i + 1 <= p - k
      OBVIOUS
    <2>3. \A u \in R : i <= Len(T) - Len(K[u]) <=> i + 1 <= Len(Q) - Len(K[u])
      BY <1>2, <1>3, <1>5, <2>2
    <2>4. Heard(R, T, K, i) = Heard(R, Q, K, i + 1)
      BY <2>3 DEF Heard
    <2> QED
      BY <1>1, <1>2, <2>1, <2>4 DEF CountsHeard
  <1>8. HeadWaits(R, T, K)
    <2>1. PICK u \in R : Len(L[u]) = p
      <3>1. P # << >>
        BY <1>2
      <3> QED
        BY <1>2, <3>1 DEF Pipe, HeadWaits
    <2>2. u = r
      <3>1. u # r => K[u] = L[u]
        BY DEF Answered
      <3> QED
        BY <1>2, <1>5, <2>1, <3>1
    <2>3. Len(L[r]) = Len(K[r]) + 1 /\ Len(K[r]) \in Nat
      BY LinesAnswered DEF Pipes, Answered
    <2>4. r \in R /\ Len(K[r]) = Len(T)
      BY <1>2, <1>3, <2>1, <2>2, <2>3
    <2> QED
      BY <2>4 DEF HeadWaits
  <1>9. Rising(Msgs(T) \o F, n)
    <2>1. /\ Msgs(Q) \in Seq(Message) /\ Len(Msgs(Q)) = p /\ \A i \in 1..p : Msgs(Q)[i] = Q[i].msg
          /\ Msgs(T) \in Seq(Message) /\ Len(Msgs(T)) = p - 1
          /\ \A i \in 1..(p - 1) : Msgs(T)[i] = T[i].msg
      BY <1>2, <1>3, MsgsOf DEF Counts
    <2>2. F \in Seq(Message) /\ n \in Int
      BY DEF Pipes
    <2> DEFINE f == Msgs(Q)
               g == Msgs(T)
    <2>3. \A i \in 1..(p - 1) : g[i] = f[i + 1]
      <3>1. \A i \in 1..(p - 1) : i + 1 \in 1..p
        OBVIOUS
      <3> QED
        BY <1>3, <2>1, <3>1
    <2> HIDE DEF f, g
    <2>4. PICK l \in Nat : /\ Len(f \o F) = p + l /\ Len(g \o F) = (p - 1) + l
                           /\ \A i \in 1..(p - 1) + l : (g \o F)[i] = (f \o F)[i + 1]
      <3>1. f \in Seq(Message) /\ g \in Seq(Message) /\ Len(f) = p /\ Len(g) = p - 1
        BY <2>1 DEF f, g
      <3>2. /\ Len(f \o F) = p + Len(F) /\ Len(g \o F) = (p - 1) + Len(F) /\ Len(F) \in Nat
            /\ \A i \in 1..(p + Len(F)) : (f \o F)[i] = IF i <= p THEN f[i] ELSE F[i - p]
            /\ \A i \in 1..((p - 1) + Len(F)) :
                  (g \o F)[i] = IF i <= p - 1 THEN g[i] ELSE F[i - (p - 1)]
        <4>1. /\ Len(f \o F) = Len(f) + Len(F)
              /\ \A i \in 1..(Len(f) + Len(F)) :
                    (f \o F)[i] = IF i <= Len(f) THEN f[i] ELSE F[i - Len(f)]
          BY <2>2, <3>1, ConcatProperties, Zenon
        <4>2. /\ Len(g \o F) = Len(g) + Len(F)
              /\ \A i \in 1..(Len(g) + Len(F)) :
                    (g \o F)[i] = IF i <= Len(g) THEN g[i] ELSE F[i - Len(g)]
          BY <2>2, <3>1, ConcatProperties, Zenon
        <4>3. Len(F) \in Nat
          BY <2>2
        <4> QED
          BY <3>1, <4>1, <4>2, <4>3, Zenon
      <3>3. ASSUME NEW i \in 1..((p - 1) + Len(F))
            PROVE  (g \o F)[i] = (f \o F)[i + 1]
        <4>1. i + 1 \in 1..(p + Len(F)) /\ (i <= p - 1 <=> i + 1 <= p) /\ i - (p - 1) = (i + 1) - p
          BY <1>2, <3>2
        <4> QED
          BY <2>3, <3>2, <4>1
      <3> QED
        BY <3>2, <3>3
    <2>5. \A i \in 1..((p - 1) + l) : i + 1 \in 1..(p + l)
      BY <1>2
    <2>6. \A i \in 1..((p - 1) + l) : (g \o F)[i].id < n
      BY <1>1, <2>4, <2>5 DEF Rising, f
    <2>7. \A i, j \in 1..((p - 1) + l) : i < j => (g \o F)[i].id < (g \o F)[j].id
      <3>1. \A i, j \in 1..((p - 1) + l) : i < j => i + 1 < j + 1
        OBVIOUS
      <3>2. \A i, j \in 1..(p + l) : i < j => (f \o F)[i].id < (f \o F)[j].id
        BY <1>1, <2>4 DEF Rising, f
      <3> QED
        BY <2>4, <2>5, <3>1, <3>2
    <2> QED
      BY <2>4, <2>6, <2>7 DEF Rising, g
  <1> QED
    BY <1>6, <1>7, <1>8, <1>9 DEF Pipe, T

(* No entry of the list is complete. *)
LEMMA PipeNotComplete ==
    ASSUME NEW R, NEW P, NEW F, NEW n, NEW L, Pipes(R, P, F, n, L), Pipe(R, P, F, n, L),
           NEW i \in 1..Len(P)
    PROVE  P[i].yes + P[i].no < Cardinality(R)
  <1>1. P # << >>
    BY DEF Pipes
  <1>2. PICK r \in R : Len(L[r]) = Len(P)
    BY <1>1 DEF Pipe, HeadWaits
  <1> DEFINE H == Heard(R, P, L, i)
  <1>3. Len(P) \in Nat
    BY DEF Pipes
  <1>4. H \subseteq R /\ r \notin H
    BY <1>2, <1>3 DEF Heard
  <1>5. P[i].yes + P[i].no = Cardinality(H) /\ IsFiniteSet(R)
    BY DEF Pipe, CountsHeard, Pipes
  <1> HIDE DEF H
  <1>6. Cardinality(H) <= Cardinality(R) /\ Cardinality(H) # Cardinality(R)
    BY <1>4, <1>5, FS_Subset
  <1>7. Cardinality(H) \in Nat /\ Cardinality(R) \in Nat
    BY <1>4, <1>5, FS_Subset, FS_CardinalityType
  <1> QED
    BY <1>5, <1>6, <1>7
-----------------------------------------------------------------------------
(* The other turns of a MessageHandler. *)

(* The message y is posted to the handler of s. *)
AskEffect(r, s, y) ==
    /\ Hands(r)
    /\ mail'[Hdl(s)] = Append(mail[Hdl(s)], y)
    /\ \A t \in Servers \ {r, s} : mail'[Hdl(t)] = mail[Hdl(t)]
    /\ inProgress' = inProgress

LEMMA HandsOver ==
    ASSUME Shape, NEW r \in Servers, NEW s \in Servers \ {r}, mail[Hdl(r)] # << >>,
           NEW y \in Message, NEW out, Exchange(Hdl(r), out),
           \A t \in Servers : out[Hdl(t)] = IF t = s THEN <<y>> ELSE << >>,
           \A t \in Servers \ {r} : out[Srv(t)] = << >>,
           out[Srv(r)] = << >> \/ \E z \in ToServer : out[Srv(r)] = <<z>>,
           inProgress' = inProgress
    PROVE  AskEffect(r, s, y)
  <1>1. \A t \in Servers : mail[Srv(t)] \in Seq(Message) /\ mail[Hdl(t)] \in Seq(Message)
    BY MailTyped
  <1>2. Tail(mail[Hdl(r)]) \in Seq(Message)
    BY <1>1
  <1>3. /\ mail' = [b \in Boxes |-> mail'[b]]
        /\ mail'[Hdl(r)] = Tail(mail[Hdl(r)]) \o << >>
        /\ mail'[Hdl(s)] = mail[Hdl(s)] \o <<y>>
        /\ \A t \in Servers \ {r, s} : mail'[Hdl(t)] = mail[Hdl(t)] \o << >>
        /\ \A t \in Servers : mail'[Srv(t)] = mail[Srv(t)] \o out[Srv(t)]
    <2>1. /\ mail' = [b \in Boxes |-> mail'[b]]
          /\ mail'[Hdl(r)] = Tail(mail[Hdl(r)]) \o out[Hdl(r)]
          /\ \A t \in Servers \ {r} : mail'[Hdl(t)] = mail[Hdl(t)] \o out[Hdl(t)]
          /\ \A t \in Servers : mail'[Srv(t)] = mail[Srv(t)] \o out[Srv(t)]
      BY HandlerExchange, Zenon
    <2>2. /\ out[Hdl(r)] = << >> /\ out[Hdl(s)] = <<y>>
          /\ \A t \in Servers \ {r, s} : out[Hdl(t)] = << >>
      BY Zenon
    <2> QED
      BY <2>1, <2>2, Zenon
  <1>4. /\ mail'[Hdl(r)] = Tail(mail[Hdl(r)])
        /\ mail'[Hdl(s)] = Append(mail[Hdl(s)], y)
        /\ \A t \in Servers \ {r, s} : mail'[Hdl(t)] = mail[Hdl(t)]
    BY <1>1, <1>2, <1>3, Concat
  <1>5. \A t \in Servers \ {r} : mail'[Srv(t)] = mail[Srv(t)]
    BY <1>1, <1>3, Concat, ZenonT(60)
  <1>6. CASE out[Srv(r)] = << >>
    <2>1. mail'[Srv(r)] = mail[Srv(r)]
      BY <1>1, <1>3, <1>6, Concat
    <2> QED
      BY <1>3, <1>4, <1>5, <2>1 DEF AskEffect, Hands
  <1>7. CASE \E z \in ToServer : out[Srv(r)] = <<z>>
    <2>1. PICK z \in ToServer : out[Srv(r)] = <<z>>
      BY <1>7
    <2>2. mail'[Srv(r)] = Append(mail[Srv(r)], z)
      <3>1. mail'[Srv(r)] = mail[Srv(r)] \o <<z>> /\ mail[Srv(r)] \in Seq(Message)
        BY <1>1, <1>3, <2>1, Zenon
      <3> QED
        BY <3>1, Concat
    <2> QED
      BY <1>3, <1>4, <1>5, <2>2 DEF AskEffect, Hands
  <1> QED
    BY <1>6, <1>7

LEMMA AskTurn ==
    ASSUME Shape, NEW r \in Servers, Ask(r)
    PROVE  \E s \in Servers \ {r}, m \in Message, y \in Message :
              /\ Handles(r, m) /\ m.from = Hdl(s) /\ m.req \notin Answers
              /\ y.from = Hdl(r) /\ y.req \in Answers /\ y.id = m.id /\ y.client = m.client
              /\ AskEffect(r, s, y)
  <1>1. PICK m \in Message : Handles(r, m)
    BY HeadHandled DEF Ask
  <1>2. m.from # Srv(r) /\ m.req \notin Answers
    BY <1>1 DEF Ask, Handles, Answers
  <1>3. PICK s \in Servers \ {r} : m.from = Hdl(s)
    BY <1>1, <1>2 DEF Handles, ToHandler
  <1>4. m.req \in PlainCalls
    BY <1>1, <1>2 DEF Handles, ToHandler
  <1> DEFINE Y(q) == [m EXCEPT !.req = q, !.from = Hdl(r)]
             z == [m EXCEPT !.from = Hdl(r)]
  <1>5. z \in ToServer
    <2>1. z \in Message /\ z.client = m.client /\ z.id = m.id /\ z.req = m.req
      BY Fields, BoxNames
    <2> HIDE DEF z
    <2> QED
      BY <1>1, <1>4, <2>1 DEF ToServer, Handles
  <1>6. \A q \in Answers : /\ Y(q) \in Message /\ Y(q).from = Hdl(r) /\ Y(q).req = q
                           /\ Y(q).id = m.id /\ Y(q).client = m.client
    <2>1. \A q \in Answers : q \in SystemCalls \cup Answers
      OBVIOUS
    <2>2. Hdl(r) \in Ids
      BY BoxNames
    <2>3. ASSUME NEW q \in Answers
          PROVE  /\ Y(q) \in Message /\ Y(q).from = Hdl(r) /\ Y(q).req = q
                 /\ Y(q).id = m.id /\ Y(q).client = m.client
      BY <2>2 DEF Message, Answers
    <2> QED
      BY <2>3
  <1>7. /\ "YS" \in Answers /\ "NO" \in Answers
        /\ \/ Exchange(Hdl(r), To(Srv(r), z) ++ To(Hdl(s), Y("YS")))
           \/ Exchange(Hdl(r), To(Hdl(s), Y("NO")))
        /\ inProgress' = inProgress
    BY <1>1, <1>3 DEF Ask, Handles, Answers
  <1> HIDE DEF Y, z
  <1>8. ASSUME NEW y \in Message, Exchange(Hdl(r), To(Srv(r), z) ++ To(Hdl(s), y))
        PROVE  AskEffect(r, s, y)
    <2> DEFINE out == To(Srv(r), z) ++ To(Hdl(s), y)
    <2>1. /\ \A t \in Servers : /\ To(Srv(r), z)[Hdl(t)] = << >>
                                /\ To(Hdl(s), y)[Srv(t)] = << >>
          /\ \A t \in Servers : To(Hdl(s), y)[Hdl(t)] = IF t = s THEN <<y>> ELSE << >>
          /\ \A t \in Servers \ {r} : To(Srv(r), z)[Srv(t)] = << >>
          /\ To(Srv(r), z)[Srv(r)] = <<z>>
      BY BoxNames DEF To, Nothing
    <2>2. \A b \in Boxes : out[b] = To(Srv(r), z)[b] \o To(Hdl(s), y)[b]
      BY DEF ++
    <2> HIDE DEF out
    <2>3. << >> \o << >> = << >> /\ << >> \o <<y>> = <<y>> /\ <<z>> \o << >> = <<z>>
      OBVIOUS
    <2>4. \A t \in Servers : out[Hdl(t)] = IF t = s THEN <<y>> ELSE << >>
      BY <2>1, <2>2, <2>3, BoxNames, Zenon
    <2>5. /\ \A t \in Servers \ {r} : out[Srv(t)] = << >>
          /\ out[Srv(r)] = <<z>>
      BY <2>1, <2>2, <2>3, BoxNames, Zenon
    <2>6. Exchange(Hdl(r), out)
      BY <1>8 DEF out
    <2> QED
      BY <1>1, <1>5, <1>7, <2>4, <2>5, <2>6, HandsOver DEF Handles
  <1>9. ASSUME NEW y \in Message, Exchange(Hdl(r), To(Hdl(s), y))
        PROVE  AskEffect(r, s, y)
    <2> DEFINE out == To(Hdl(s), y)
    <2>1. /\ \A t \in Servers : out[Hdl(t)] = IF t = s THEN <<y>> ELSE << >>
          /\ \A t \in Servers : out[Srv(t)] = << >>
      BY BoxNames DEF To, Nothing
    <2>2. Exchange(Hdl(r), out)
      BY <1>9
    <2> HIDE DEF out
    <2> QED
      BY <1>1, <1>7, <2>1, <2>2, HandsOver DEF Handles
  <1> QED
    BY <1>1, <1>2, <1>3, <1>6, <1>7, <1>8, <1>9

(* A reply to a relayed request of s. *)
CountEffect(s, m) ==
    /\ HandsBack(s)
    /\ \E Q : /\ Counts(inProgress[s], m.id, Q)
              /\ \/ /\ Q = << >> \/ Q[1].yes + Q[1].no # NumServers - 1
                    /\ inProgress' = [inProgress EXCEPT ![s] = Q]
                 \/ /\ Q # << >> /\ Q[1].yes + Q[1].no = NumServers - 1
                    /\ inProgress' = [inProgress EXCEPT ![s] = Tail(Q)]

LEMMA EntryCounts ==
    /\ \A e \in Entry : LET f == [e EXCEPT !.yes = @ + 1]
                        IN  f \in Entry /\ f.msg = e.msg /\ f.yes = e.yes + 1 /\ f.no = e.no
    /\ \A e \in Entry : LET f == [e EXCEPT !.no = @ + 1]
                        IN  f \in Entry /\ f.msg = e.msg /\ f.yes = e.yes /\ f.no = e.no + 1
  BY DEF Entry

LEMMA CountedCounts ==
    ASSUME NEW P \in Seq(Entry), NEW m \in Message, m.req \in Answers, NEW Q,
           Q = [i \in DOMAIN P |->
                   LET e == P[i]
                   IN  IF e.msg.id # m.id THEN e
                       ELSE IF m.req = "YS" THEN [e EXCEPT !.yes = @ + 1]
                       ELSE [e EXCEPT !.no = @ + 1]]
    PROVE  Counts(P, m.id, Q)
  <1>1. DOMAIN P = 1..Len(P) /\ Len(P) \in Nat /\ \A i \in 1..Len(P) : P[i] \in Entry
    OBVIOUS
  <1>3. ASSUME NEW i \in 1..Len(P)
        PROVE  /\ Q[i] \in Entry /\ Q[i].msg = P[i].msg
               /\ Q[i].yes + Q[i].no = (P[i].yes + P[i].no)
                                        + (IF P[i].msg.id = m.id THEN 1 ELSE 0)
    <2> DEFINE e == P[i]
    <2>1. e \in Entry /\ e.yes \in Nat /\ e.no \in Nat
      BY <1>1, EntryFields
    <2>2. Q[i] = IF e.msg.id # m.id THEN e
                 ELSE IF m.req = "YS" THEN [e EXCEPT !.yes = @ + 1]
                 ELSE [e EXCEPT !.no = @ + 1]
      BY <1>1
    <2> HIDE DEF e
    <2>3. CASE e.msg.id # m.id
      BY <2>1, <2>2, <2>3 DEF e
    <2>4. CASE e.msg.id = m.id /\ m.req = "YS"
      <3>2. Q[i] = [e EXCEPT !.yes = @ + 1]
        BY <2>2, <2>4
      <3>1. /\ Q[i] \in Entry /\ Q[i].msg = e.msg /\ Q[i].yes = e.yes + 1 /\ Q[i].no = e.no
        BY <2>1, <3>2, EntryCounts, ZenonT(60)
      <3> QED
        BY <2>1, <2>4, <3>1, SMTT(30) DEF e
    <2>5. CASE e.msg.id = m.id /\ m.req # "YS"
      <3>2. Q[i] = [e EXCEPT !.no = @ + 1]
        BY <2>2, <2>5
      <3>1. /\ Q[i] \in Entry /\ Q[i].msg = e.msg /\ Q[i].yes = e.yes /\ Q[i].no = e.no + 1
        BY <2>1, <3>2, EntryCounts
      <3> QED
        BY <2>1, <2>5, <3>1 DEF e
    <2> QED
      BY <2>3, <2>4, <2>5
  <1>4. Q \in [1..Len(P) -> Entry]
    BY <1>1, <1>3
  <1>5. Q \in Seq(Entry) /\ Len(Q) = Len(P)
    BY <1>1, <1>4, IsASeq
  <1> QED
    BY <1>3, <1>5 DEF Counts

(* The message that s counts is an answer of r. *)
LEMMA CountTurn ==
    ASSUME Shape, NEW s \in Servers, CountReply(s)
    PROVE  \E r \in Servers \ {s}, m \in Message :
              /\ Handles(s, m) /\ m.from = Hdl(r) /\ m.req \in Answers
              /\ CountEffect(s, m)
  <1>1. PICK m \in Message : Handles(s, m)
    BY HeadHandled DEF CountReply
  <1>2. m.from # Srv(s) /\ m.req \in Answers
    BY <1>1 DEF CountReply, Handles, Answers
  <1>3. PICK r \in Servers \ {s} : m.from = Hdl(r)
    BY <1>1, <1>2 DEF Handles, ToHandler
  <1> DEFINE P == inProgress[s]
             Q == Counted(s, m)
  <1>4. P \in Seq(Entry)
    BY DEF Shape
  <1>5. Counts(P, m.id, Q)
    BY <1>2, <1>4, CountedCounts DEF Counted
  <1>6. Q \in Seq(Entry)
    BY <1>5 DEF Counts
  <1> HIDE DEF Q
  <1>7. Q # << >> => Head(Q) = Q[1] /\ Head(Q) \in Entry
    BY <1>6
  <1>8. \/ /\ ~(Q # << >> /\ Head(Q).yes + Head(Q).no = NumServers - 1)
           /\ Exchange(Hdl(s), Nothing)
           /\ inProgress' = [inProgress EXCEPT ![s] = Q]
        \/ /\ Q # << >> /\ Head(Q).yes + Head(Q).no = NumServers - 1
           /\ Exchange(Hdl(s), Verdict(s, Head(Q), m))
           /\ inProgress' = [inProgress EXCEPT ![s] = Tail(Q)]
    BY <1>1 DEF CountReply, Handles, Q
  <1>9. ASSUME NEW out, Quiet(out), Exchange(Hdl(s), out)
        PROVE  HandsBack(s)
    BY <1>1, <1>9, HandsTo DEF Quiet, Handles
  <1>10. CASE /\ ~(Q # << >> /\ Head(Q).yes + Head(Q).no = NumServers - 1)
              /\ Exchange(Hdl(s), Nothing)
              /\ inProgress' = [inProgress EXCEPT ![s] = Q]
    <2>1. HandsBack(s)
      BY <1>9, <1>10, QuietNothing
    <2>2. Q = << >> \/ Q[1].yes + Q[1].no # NumServers - 1
      BY <1>7, <1>10
    <2>3. CountEffect(s, m)
      BY <1>5, <1>10, <2>1, <2>2 DEF CountEffect
    <2> QED
      BY <1>1, <1>2, <1>3, <2>3
  <1>11. CASE /\ Q # << >> /\ Head(Q).yes + Head(Q).no = NumServers - 1
              /\ Exchange(Hdl(s), Verdict(s, Head(Q), m))
              /\ inProgress' = [inProgress EXCEPT ![s] = Tail(Q)]
    <2>1. PICK e \in Entry : e = Head(Q)
      BY <1>7, <1>11
    <2>2. e.msg \in Passed /\ m.client \in Clients
      BY <1>1 DEF Entry, Handles
    <2>3. HandsBack(s)
      <3>1. \/ Exchange(Hdl(s), Nothing)
            \/ Exchange(Hdl(s), To(m.client, Reply(ErrorCode)))
            \/ Exchange(Hdl(s), To(Srv(s), [e.msg EXCEPT !.from = Hdl(s)]))
        BY <1>11, <2>1 DEF Verdict
      <3>2. CASE Exchange(Hdl(s), Nothing)
        BY <1>9, <3>2, QuietNothing
      <3>3. CASE Exchange(Hdl(s), To(m.client, Reply(ErrorCode)))
        BY <1>9, <2>2, <3>3, QuietTo
      <3>4. CASE Exchange(Hdl(s), To(Srv(s), [e.msg EXCEPT !.from = Hdl(s)]))
        BY <1>1, <2>2, <3>4, ToOwnServer DEF Handles
      <3> QED
        BY <3>1, <3>2, <3>3, <3>4
    <2>4. Q # << >> /\ Q[1].yes + Q[1].no = NumServers - 1
      BY <1>7, <1>11
    <2>5. CountEffect(s, m)
      BY <1>5, <1>11, <2>3, <2>4 DEF CountEffect
    <2> QED
      BY <1>1, <1>2, <1>3, <2>5
  <1> QED
    BY <1>8, <1>10, <1>11

-----------------------------------------------------------------------------
(* What the turns do to the queues of Pipe. *)

LEMMA Kinds ==
    ASSUME NEW x \in Message, NEW s \in Servers
    PROVE  /\ x.from = Srv(s) => /\ \A t \in Servers : x \in OwnMail(t) <=> t = s
                                 /\ \A t \in Servers : x \notin AskedBy(t) /\ x \notin AnsweredBy(t)
           /\ x.from = Hdl(s) =>
                 \A t \in Servers : /\ x \notin OwnMail(t)
                                    /\ x \in AskedBy(t) <=> t = s /\ x.req \notin Answers
                                    /\ x \in AnsweredBy(t) <=> t = s /\ x.req \in Answers
  BY BoxNames DEF OwnMail, AskedBy, AnsweredBy

LEMMA FilterSkips ==
    ASSUME NEW q \in Seq(Message), NEW S
    PROVE  /\ \A x \in Message : Filter(Append(q, x), S) = IF x \in S THEN Append(Filter(q, S), x)
                                                           ELSE Filter(q, S)
           /\ q # << >> /\ Head(q) \notin S => Filter(Tail(q), S) = Filter(q, S)
           /\ q # << >> /\ Head(q) \in S => Filter(q, S) = <<Head(q)>> \o Filter(Tail(q), S)
           /\ Filter(q, S) \in Seq(Message)
  <1>1. Filter(q, S) \in Seq(Message)
    BY FilterSeq
  <1>2. \A x \in Message : Filter(Append(q, x), S) = IF x \in S THEN Append(Filter(q, S), x)
                                                     ELSE Filter(q, S)
    BY FilterAppend
  <1>3. ASSUME q # << >>
        PROVE  /\ Head(q) \notin S => Filter(Tail(q), S) = Filter(q, S)
               /\ Head(q) \in S => Filter(q, S) = <<Head(q)>> \o Filter(Tail(q), S)
    <2>1. Filter(q, S) = (IF Head(q) \in S THEN <<Head(q)>> ELSE << >>) \o Filter(Tail(q), S)
      BY <1>3, FilterHead
    <2>2. Tail(q) \in Seq(Message)
      BY <1>3
    <2>3. Filter(Tail(q), S) \in Seq(Message)
      BY <2>2, FilterSeq
    <2>4. << >> \o Filter(Tail(q), S) = Filter(Tail(q), S)
      BY <2>3, Concat
    <2> QED
      BY <2>1, <2>4, Zenon
  <1> QED
    BY <1>1, <1>2, <1>3

(* The mail q gets the message x, or loses m, and is then r.  *)
Gets(q, x, r)  == q \in Seq(Message) /\ x \in Message /\ r = Append(q, x)
Loses(q, m, r) == q \in Seq(Message) /\ q # << >> /\ m = Head(q) /\ r = Tail(q)

LEMMA FilterGets ==
    ASSUME NEW q, NEW x, NEW r, Gets(q, x, r), NEW S
    PROVE  Filter(r, S) = IF x \in S THEN Append(Filter(q, S), x) ELSE Filter(q, S)
  <1>1. q \in Seq(Message) /\ x \in Message /\ r = Append(q, x)
    BY DEF Gets
  <1>2. Filter(Append(q, x), S) = IF x \in S THEN Append(Filter(q, S), x) ELSE Filter(q, S)
    BY <1>1, FilterAppend
  <1> QED
    BY <1>1, <1>2, Zenon

LEMMA FilterLoses ==
    ASSUME NEW q, NEW m, NEW r, Loses(q, m, r), NEW S
    PROVE  /\ m \notin S => Filter(r, S) = Filter(q, S)
           /\ m \in S => Filter(q, S) = <<m>> \o Filter(r, S)
  BY FilterSkips DEF Loses

LEMMA HandlerGets ==
    ASSUME NEW s \in Servers, mail[Hdl(s)] \in Seq(Message), NEW x \in Message,
           mail'[Hdl(s)] = Append(mail[Hdl(s)], x)
    PROVE  \A S : Filter(mail'[Hdl(s)], S) = IF x \in S THEN Append(Filter(mail[Hdl(s)], S), x)
                                             ELSE Filter(mail[Hdl(s)], S)
  <1>1. PICK q, r : q = mail[Hdl(s)] /\ r = mail'[Hdl(s)]
    OBVIOUS
  <1>2. Gets(q, x, r)
    BY <1>1 DEF Gets
  <1>3. \A S : Filter(r, S) = IF x \in S THEN Append(Filter(q, S), x) ELSE Filter(q, S)
    BY <1>2, FilterGets
  <1> QED
    BY <1>1, <1>3

LEMMA HandlerLoses ==
    ASSUME NEW s \in Servers, mail[Hdl(s)] \in Seq(Message), mail[Hdl(s)] # << >>,
           NEW m, m = Head(mail[Hdl(s)]), mail'[Hdl(s)] = Tail(mail[Hdl(s)])
    PROVE  \A S : /\ m \notin S => Filter(mail'[Hdl(s)], S) = Filter(mail[Hdl(s)], S)
                  /\ m \in S => Filter(mail[Hdl(s)], S) = <<m>> \o Filter(mail'[Hdl(s)], S)
  <1>1. PICK q, r : q = mail[Hdl(s)] /\ r = mail'[Hdl(s)]
    OBVIOUS
  <1>2. Loses(q, m, r)
    BY <1>1 DEF Loses
  <1>3. \A S : /\ m \notin S => Filter(r, S) = Filter(q, S)
               /\ m \in S => Filter(q, S) = <<m>> \o Filter(r, S)
    BY <1>2, FilterLoses
  <1> QED
    BY <1>1, <1>3

(* What stays of the queues. *)
SameFresh(s)      == Fresh(s)' = Fresh(s)
SameReplies(s, r) == Replies(s, r)' = Replies(s, r)
SameAsked(s, r)   == Asked(s, r)' = Asked(s, r)

LEMMA HandlersKept ==
    ASSUME NEW s \in Servers, mail'[Hdl(s)] = mail[Hdl(s)]
    PROVE  SameFresh(s) /\ \A r \in Servers : SameReplies(s, r) /\ SameAsked(r, s)
  BY DEF SameFresh, SameReplies, SameAsked, Fresh, Replies, Asked

LEMMA PassQueues ==
    ASSUME Shape, NEW s \in Servers, NEW x \in Message, x.from = Srv(s),
           mail'[Hdl(s)] = Append(mail[Hdl(s)], x),
           \A r \in Servers \ {s} : mail'[Hdl(r)] = mail[Hdl(r)]
    PROVE  /\ Fresh(s)' = Append(Fresh(s), x)
           /\ \A t \in Servers \ {s} : SameFresh(t)
           /\ \A t, r \in Servers : SameReplies(t, r) /\ SameAsked(t, r)
  <1>1. mail[Hdl(s)] \in Seq(Message)
    BY MailTyped
  <1>2. /\ x \in OwnMail(s) /\ \A t \in Servers : x \notin AskedBy(t) /\ x \notin AnsweredBy(t)
    BY Kinds
  <1>3. \A S : Filter(mail'[Hdl(s)], S) = IF x \in S THEN Append(Filter(mail[Hdl(s)], S), x)
                                          ELSE Filter(mail[Hdl(s)], S)
    BY <1>1, HandlerGets
  <1>4. Fresh(s)' = Append(Fresh(s), x)
    BY <1>2, <1>3 DEF Fresh
  <1>5. \A t \in Servers : SameReplies(s, t) /\ SameAsked(t, s)
    BY <1>2, <1>3 DEF SameReplies, SameAsked, Replies, Asked
  <1>6. ASSUME NEW r \in Servers \ {s}
        PROVE  SameFresh(r) /\ \A t \in Servers : SameReplies(r, t) /\ SameAsked(t, r)
    BY HandlersKept
  <1> QED
    BY <1>4, <1>5, <1>6

LEMMA RelayQueues ==
    ASSUME Shape, NEW s \in Servers, NEW m \in Passed, NEW x \in Message,
           Handles(s, m), m \in OwnMail(s), x.from = Hdl(s), x.req = m.req,
           mail'[Hdl(s)] = Tail(mail[Hdl(s)]),
           \A r \in Servers \ {s} : mail'[Hdl(r)] = Append(mail[Hdl(r)], x)
    PROVE  /\ Fresh(s) = <<m>> \o Fresh(s)'
           /\ \A t \in Servers \ {s} : SameFresh(t)
           /\ \A t, r \in Servers : SameReplies(t, r)
           /\ \A r \in Servers \ {s} : Asked(s, r)' = Append(Asked(s, r), x)
           /\ \A t \in Servers \ {s}, r \in Servers : SameAsked(t, r)
  <1>1. \A r \in Servers : mail[Hdl(r)] \in Seq(Message)
    BY MailTyped
  <1>2. m \in Message /\ m.from = Srv(s) /\ x.req \notin Answers
    BY DEF Passed, OwnMail, PlainCalls, Answers, SystemCalls
  <1>3. \A t \in Servers : /\ m \notin AskedBy(t) /\ m \notin AnsweredBy(t)
                           /\ t # s => m \notin OwnMail(t)
    BY <1>2, Kinds
  <1>4. x \in AskedBy(s) /\ \A t \in Servers : x \notin AnsweredBy(t) /\ x \notin OwnMail(t)
    BY <1>2, Kinds
  <1>5. \A t \in Servers \ {s} : x \notin AskedBy(t)
    BY <1>2, Kinds
  <1>6. mail[Hdl(s)] # << >> /\ m = Head(mail[Hdl(s)])
    BY DEF Handles
  <1>7. \A S : /\ m \notin S => Filter(mail'[Hdl(s)], S) = Filter(mail[Hdl(s)], S)
               /\ m \in S => Filter(mail[Hdl(s)], S) = <<m>> \o Filter(mail'[Hdl(s)], S)
    BY <1>1, <1>6, HandlerLoses
  <1>8. ASSUME NEW r \in Servers \ {s}
        PROVE  \A S : Filter(mail'[Hdl(r)], S) = IF x \in S THEN Append(Filter(mail[Hdl(r)], S), x)
                                                 ELSE Filter(mail[Hdl(r)], S)
    BY <1>1, HandlerGets
  <1>9. Fresh(s) = <<m>> \o Fresh(s)'
    BY <1>7 DEF Fresh
  <1>10. \A t \in Servers \ {s} : SameFresh(t)
    BY <1>4, <1>8 DEF Fresh, SameFresh
  <1>11. ASSUME NEW t \in Servers, NEW r \in Servers
         PROVE  SameReplies(t, r)
    <2>1. CASE t = s
      BY <1>3, <1>7, <2>1 DEF SameReplies, Replies
    <2>2. CASE t # s
      BY <1>4, <1>8, <2>2 DEF SameReplies, Replies
    <2> QED
      BY <2>1, <2>2
  <1>12. \A r \in Servers \ {s} : Asked(s, r)' = Append(Asked(s, r), x)
    BY <1>4, <1>8 DEF Asked
  <1>13. ASSUME NEW t \in Servers \ {s}, NEW r \in Servers
         PROVE  SameAsked(t, r)
    <2>1. CASE r = s
      BY <1>3, <1>7, <2>1 DEF SameAsked, Asked
    <2>2. CASE r # s
      BY <1>5, <1>8, <2>2 DEF SameAsked, Asked
    <2> QED
      BY <2>1, <2>2
  <1> QED
    BY <1>9, <1>10, <1>11, <1>12, <1>13

LEMMA AskQueues ==
    ASSUME Shape, NEW r \in Servers, NEW s \in Servers \ {r}, NEW m \in Message, NEW y \in Message,
           Handles(r, m), m.from = Hdl(s), m.req \notin Answers,
           y.from = Hdl(r), y.req \in Answers,
           mail'[Hdl(r)] = Tail(mail[Hdl(r)]),
           mail'[Hdl(s)] = Append(mail[Hdl(s)], y),
           \A t \in Servers \ {r, s} : mail'[Hdl(t)] = mail[Hdl(t)]
    PROVE  /\ \A t \in Servers : SameFresh(t)
           /\ Asked(s, r) = <<m>> \o Asked(s, r)'
           /\ Replies(s, r)' = Append(Replies(s, r), y)
           /\ \A t, u \in Servers : ~(t = s /\ u = r) => SameReplies(t, u) /\ SameAsked(t, u)
  <1>1. \A t \in Servers : mail[Hdl(t)] \in Seq(Message)
    BY MailTyped
  <1>2. /\ m \in AskedBy(s) /\ \A t \in Servers : m \notin AnsweredBy(t) /\ m \notin OwnMail(t)
        /\ \A t \in Servers \ {s} : m \notin AskedBy(t)
    BY Kinds
  <1>3. /\ y \in AnsweredBy(r) /\ \A t \in Servers : y \notin AskedBy(t) /\ y \notin OwnMail(t)
        /\ \A t \in Servers \ {r} : y \notin AnsweredBy(t)
    BY Kinds
  <1>4. mail[Hdl(r)] # << >> /\ m = Head(mail[Hdl(r)])
    BY DEF Handles
  <1>5. \A S : /\ m \notin S => Filter(mail'[Hdl(r)], S) = Filter(mail[Hdl(r)], S)
               /\ m \in S => Filter(mail[Hdl(r)], S) = <<m>> \o Filter(mail'[Hdl(r)], S)
    BY <1>1, <1>4, HandlerLoses
  <1>6. \A S : Filter(mail'[Hdl(s)], S) = IF y \in S THEN Append(Filter(mail[Hdl(s)], S), y)
                                          ELSE Filter(mail[Hdl(s)], S)
    BY <1>1, HandlerGets
  <1>7. ASSUME NEW t \in Servers \ {r, s}
        PROVE  SameFresh(t) /\ \A u \in Servers : SameReplies(t, u) /\ SameAsked(u, t)
    BY HandlersKept
  <1>8. /\ SameFresh(r) /\ \A u \in Servers : SameReplies(r, u)
        /\ \A u \in Servers \ {s} : SameAsked(u, r)
        /\ Asked(s, r) = <<m>> \o Asked(s, r)'
    BY <1>2, <1>5 DEF SameFresh, SameReplies, SameAsked, Fresh, Replies, Asked
  <1>9. /\ SameFresh(s) /\ \A u \in Servers : SameAsked(u, s)
        /\ \A u \in Servers \ {r} : SameReplies(s, u)
        /\ Replies(s, r)' = Append(Replies(s, r), y)
    BY <1>3, <1>6 DEF SameFresh, SameReplies, SameAsked, Fresh, Replies, Asked
  <1>10. \A t \in Servers : t = r \/ t = s \/ t \in Servers \ {r, s}
    OBVIOUS
  <1>11. \A t \in Servers : SameFresh(t)
    BY <1>7, <1>8, <1>9, <1>10
  <1>12. ASSUME NEW t \in Servers, NEW u \in Servers, ~(t = s /\ u = r)
         PROVE  SameReplies(t, u) /\ SameAsked(t, u)
    <2>1. SameReplies(t, u)
      BY <1>7, <1>8, <1>9, <1>10, <1>12
    <2>2. SameAsked(t, u)
      BY <1>7, <1>8, <1>9, <1>10, <1>12
    <2> QED
      BY <2>1, <2>2
  <1> QED
    BY <1>8, <1>9, <1>11, <1>12

LEMMA CountQueues ==
    ASSUME Shape, NEW s \in Servers, NEW r \in Servers \ {s}, NEW m \in Message,
           Handles(s, m), m.from = Hdl(r), m.req \in Answers,
           mail'[Hdl(s)] = Tail(mail[Hdl(s)]),
           \A t \in Servers \ {s} : mail'[Hdl(t)] = mail[Hdl(t)]
    PROVE  /\ \A t \in Servers : SameFresh(t)
           /\ Replies(s, r) = <<m>> \o Replies(s, r)'
           /\ \A t, u \in Servers : SameAsked(t, u) /\ (~(t = s /\ u = r) => SameReplies(t, u))
  <1>1. \A t \in Servers : mail[Hdl(t)] \in Seq(Message)
    BY MailTyped
  <1>2. /\ m \in AnsweredBy(r) /\ \A t \in Servers : m \notin AskedBy(t) /\ m \notin OwnMail(t)
        /\ \A t \in Servers \ {r} : m \notin AnsweredBy(t)
    BY Kinds
  <1>3. mail[Hdl(s)] # << >> /\ m = Head(mail[Hdl(s)])
    BY DEF Handles
  <1>4. \A S : /\ m \notin S => Filter(mail'[Hdl(s)], S) = Filter(mail[Hdl(s)], S)
               /\ m \in S => Filter(mail[Hdl(s)], S) = <<m>> \o Filter(mail'[Hdl(s)], S)
    BY <1>1, <1>3, HandlerLoses
  <1>5. ASSUME NEW t \in Servers \ {s}
        PROVE  SameFresh(t) /\ \A u \in Servers : SameReplies(t, u) /\ SameAsked(u, t)
    BY HandlersKept
  <1>6. /\ SameFresh(s) /\ \A u \in Servers : SameAsked(u, s)
        /\ \A u \in Servers \ {r} : SameReplies(s, u)
        /\ Replies(s, r) = <<m>> \o Replies(s, r)'
    BY <1>2, <1>4 DEF SameFresh, SameReplies, SameAsked, Fresh, Replies, Asked
  <1> QED
    BY <1>5, <1>6

-----------------------------------------------------------------------------
(* Every step keeps the invariant. *)

LEMMA PipesOf ==
    Shape => \A s \in Servers :
        Pipes(Others(s), inProgress[s], Fresh(s), 100 * s + ider[s], Lines(s))
  <1> SUFFICES ASSUME Shape, NEW s \in Servers
               PROVE  Pipes(Others(s), inProgress[s], Fresh(s), 100 * s + ider[s], Lines(s))
    OBVIOUS
  <1>1. IsFiniteSet(Others(s))
    <2>1. IsFiniteSet(Servers)
      BY FS_Interval DEF Servers, LockServersAssumption
    <2> QED
      BY <2>1, FS_Subset DEF Others
  <1>2. \A t \in Servers : mail[Hdl(t)] \in Seq(Message)
    BY MailTyped
  <1>3. Fresh(s) \in Seq(Message)
    BY <1>2, FilterSeq DEF Fresh
  <1>4. \A r \in Others(s) : Replies(s, r) \in Seq(Message) /\ Asked(s, r) \in Seq(Message)
    BY <1>2, FilterSeq DEF Replies, Asked, Others
  <1>5. \A r \in Others(s) : Line(s, r) \in Seq(Message)
    BY <1>4 DEF Line
  <1>6. Lines(s) \in [Others(s) -> Seq(Message)]
    BY <1>5 DEF Lines
  <1>7. 100 * s + ider[s] \in Int
    BY DEF Shape, Servers
  <1>8. inProgress[s] \in Seq(Entry)
    BY DEF Shape
  <1> QED
    BY <1>1, <1>3, <1>6, <1>7, <1>8 DEF Pipes

LEMMA PipesNext ==
    (Shape => \A s \in Servers :
        Pipes(Others(s), inProgress[s], Fresh(s), 100 * s + ider[s], Lines(s)))'
  BY PipesOf, PTL

LEMMA OthersCount ==
    ASSUME NEW s \in Servers
    PROVE  /\ Cardinality(Others(s)) = NumServers - 1
           /\ Others(s) = {} <=> NumServers = 1
  <1>1. IsFiniteSet(Servers) /\ Cardinality(Servers) = NumServers
    BY FS_Interval DEF Servers, LockServersAssumption
  <1>2. Cardinality(Others(s)) = NumServers - 1
    BY <1>1, FS_RemoveElement DEF Others
  <1>3. IsFiniteSet(Others(s)) /\ (Cardinality(Others(s)) = 0 <=> Others(s) = {})
    BY <1>1, FS_Subset, FS_EmptySet DEF Others
  <1> QED
    BY <1>2, <1>3 DEF LockServersAssumption

SameLines(s) == \A r \in Others(s) : SameReplies(s, r) /\ SameAsked(s, r)

LEMMA LinesSame ==
    ASSUME NEW s \in Servers, SameLines(s)
    PROVE  Lines(s)' = Lines(s)
  BY DEF SameLines, SameReplies, SameAsked, Lines, Line, Others

LEMMA PipelineKept ==
    ASSUME NEW s \in Servers, Pipeline(s), SameFresh(s), SameLines(s),
           inProgress'[s] = inProgress[s], ider'[s] = ider[s]
    PROVE  Pipeline(s)'
  <1>1. Lines(s)' = Lines(s) /\ Fresh(s)' = Fresh(s)
    BY LinesSame DEF SameFresh
  <1> QED
    BY <1>1 DEF Pipeline

(* The mail of the handlers stays: a turn of a client, and of a Server that  *)
(* answers.                                                                  *)
LEMMA MailKept ==
    ASSUME IInv, \A s \in Servers : mail'[Hdl(s)] = mail[Hdl(s)], UNCHANGED <<inProgress, ider>>
    PROVE  \A s \in Servers : Pipeline(s)'
  <1> SUFFICES ASSUME NEW s \in Servers PROVE Pipeline(s)'
    OBVIOUS
  <1>1. SameFresh(s)
    BY HandlersKept
  <1>2. \A r \in Servers : SameReplies(s, r) /\ SameAsked(s, r)
    BY HandlersKept
  <1> QED
    BY <1>1, <1>2, PipelineKept DEF IInv, SameLines, Others

LEMMA ServerKeeps ==
    ASSUME IInv, NEW s \in Servers, Server(s)
    PROVE  IInv'
  <1>1. Shape /\ Served(s) /\ mail[Srv(s)] # << >>
    BY ServerTurn DEF IInv
  <1>2. UNCHANGED <<blocked, inProgress, program>> /\ TablesSound'
    BY <1>1 DEF Served
  <1>3. CASE TakesOnly(s) /\ UNCHANGED ider
    <2>1. Shape'
      <3>1. \A r \in Servers : /\ Moves(mail[Srv(r)], mail'[Srv(r)], ToServer)
                               /\ Moves(mail[Hdl(r)], mail'[Hdl(r)], ToHandler(r))
        BY <1>1, <1>3 DEF Moves, TakesOnly
      <3> QED
        BY <1>1, <1>2, <1>3, <3>1, ShapeMoves DEF Shape, TakesOnly
    <2>2. \A r \in Servers : Pipeline(r)'
      BY <1>2, <1>3, MailKept DEF TakesOnly
    <2> QED
      BY <2>1, <2>2 DEF IInv
  <1>4. CASE ~(TakesOnly(s) /\ UNCHANGED ider)
    <2>1. PICK x \in Message :
              /\ TakesAndPasses(s, x) /\ ider' = [ider EXCEPT ![s] = @ + 1]
              /\ x.from = Srv(s) /\ x.id = 100 * s + ider[s]
              /\ x.client \in Clients /\ x.req \in PlainCalls
      BY <1>1, <1>4 DEF Served, ServesMail
    <2>2. /\ ider \in [Servers -> Nat] /\ ider' \in [Servers -> Nat] /\ ider'[s] = ider[s] + 1
          /\ \A r \in Servers \ {s} : ider'[r] = ider[r]
      BY <1>1, <2>1 DEF Shape
    <2>3. x.id # NoID
      BY <2>1, <2>2 DEF Servers, NoID
    <2>4. Shape'
      <3>1. x \in ToHandler(s)
        BY <2>1, <2>3 DEF ToHandler
      <3>2. \A r \in Servers : /\ Moves(mail[Srv(r)], mail'[Srv(r)], ToServer)
                               /\ Moves(mail[Hdl(r)], mail'[Hdl(r)], ToHandler(r))
        BY <1>1, <2>1, <3>1 DEF Moves, TakesAndPasses
      <3> QED
        BY <1>1, <1>2, <2>1, <2>2, <3>2, ShapeMoves DEF Shape, TakesAndPasses
    <2>5. /\ Fresh(s)' = Append(Fresh(s), x)
          /\ \A t \in Servers \ {s} : SameFresh(t)
          /\ \A t, r \in Servers : SameReplies(t, r) /\ SameAsked(t, r)
      BY <1>1, <2>1, PassQueues DEF TakesAndPasses
    <2>6. \A t \in Servers : SameLines(t)
      BY <2>5 DEF SameLines, Others
    <2>7. \A t \in Servers \ {s} : Pipeline(t)'
      BY <1>2, <2>2, <2>5, <2>6, PipelineKept DEF IInv
    <2>8. Pipeline(s)'
      <3> DEFINE n == 100 * s + ider[s]
      <3>1. Pipes(Others(s), inProgress[s], Fresh(s), n, Lines(s))
        BY <1>1, PipesOf
      <3>2. Pipe(Others(s), inProgress[s], Fresh(s), n, Lines(s))
        BY DEF IInv, Pipeline
      <3>3. x.id = n
        BY <2>1
      <3>4. 100 * s + ider'[s] = n + 1
        BY <2>2 DEF Servers
      <3> HIDE DEF n
      <3>5. Pipe(Others(s), inProgress[s], Append(Fresh(s), x), n + 1, Lines(s))
        BY <3>1, <3>2, <3>3, PipePass
      <3>6. Lines(s)' = Lines(s)
        BY <2>6, LinesSame
      <3> QED
        BY <1>2, <2>5, <3>4, <3>5, <3>6 DEF Pipeline
    <2> QED
      BY <2>4, <2>7, <2>8 DEF IInv
  <1> QED
    BY <1>3, <1>4

LEMMA ClientKeeps ==
    ASSUME IInv, NEW c \in Clients, Call(c) \/ Return(c)
    PROVE  IInv'
  <1>1. Shape
    BY DEF IInv
  <1>2. CASE Call(c)
    <2>1. PICK s \in Servers, m \in ToServer :
              /\ mail' = [mail EXCEPT ![Srv(s)] = Append(@, m)]
              /\ UNCHANGED <<tables, ider, inProgress, blocked, program>>
      BY <1>1, <1>2, CallEffect
    <2>2. /\ mail' = [b \in Boxes |-> mail'[b]]
          /\ mail'[Srv(s)] = Append(mail[Srv(s)], m)
          /\ \A r \in Servers \ {s} : mail'[Srv(r)] = mail[Srv(r)]
          /\ \A r \in Servers : mail'[Hdl(r)] = mail[Hdl(r)]
      BY <1>1, <2>1, BoxNames DEF Shape
    <2>3. \A r \in Servers : /\ Moves(mail[Srv(r)], mail'[Srv(r)], ToServer)
                             /\ Moves(mail[Hdl(r)], mail'[Hdl(r)], ToHandler(r))
      BY <2>2 DEF Moves
    <2>4. TablesSound'
      BY <1>1, <2>1 DEF Shape, TablesSound, Keys, tables
    <2>5. Shape'
      BY <1>1, <2>1, <2>2, <2>3, <2>4, ShapeMoves DEF Shape
    <2> QED
      BY <2>1, <2>2, <2>5, MailKept DEF IInv
  <1>3. CASE Return(c)
    <2>1. Exchange(c, Nothing) /\ UNCHANGED <<tables, ider, inProgress, blocked, program>>
      BY <1>3 DEF Return
    <2>2. /\ mail' = [b \in Boxes |-> mail'[b]]
          /\ \A b \in Boxes : mail'[b] = (IF b = c THEN Tail(mail[b]) ELSE mail[b]) \o Nothing[b]
      BY <2>1, ExchangeAt
    <2>3. \A r \in Servers : /\ mail'[Srv(r)] = mail[Srv(r)] \o << >>
                             /\ mail'[Hdl(r)] = mail[Hdl(r)] \o << >>
      BY <2>2, BoxNames DEF Nothing
    <2>4. \A r \in Servers : mail'[Srv(r)] = mail[Srv(r)] /\ mail'[Hdl(r)] = mail[Hdl(r)]
      BY <1>1, <2>3, MailTyped, Concat
    <2>5. \A r \in Servers : /\ Moves(mail[Srv(r)], mail'[Srv(r)], ToServer)
                             /\ Moves(mail[Hdl(r)], mail'[Hdl(r)], ToHandler(r))
      BY <2>4 DEF Moves
    <2>6. TablesSound'
      BY <1>1, <2>1 DEF Shape, TablesSound, Keys, tables
    <2>7. Shape'
      BY <1>1, <2>1, <2>2, <2>5, <2>6, ShapeMoves DEF Shape
    <2> QED
      BY <2>1, <2>4, <2>7, MailKept DEF IInv
  <1> QED
    BY <1>2, <1>3

LEMMA HandsMoves ==
    ASSUME Shape, NEW s \in Servers, Hands(s), mail[Hdl(s)] # << >>
    PROVE  /\ \A r \in Servers : Moves(mail[Srv(r)], mail'[Srv(r)], ToServer)
           /\ Moves(mail[Hdl(s)], mail'[Hdl(s)], ToHandler(s))
  <1>1. \A r \in Servers \ {s} : Moves(mail[Srv(r)], mail'[Srv(r)], ToServer)
    BY DEF Hands, Moves
  <1>2. Moves(mail[Srv(s)], mail'[Srv(s)], ToServer)
    BY DEF Hands, Moves
  <1> QED
    BY <1>1, <1>2 DEF Hands, Moves

LEMMA TablesKept ==
    ASSUME TablesSound, UNCHANGED tables
    PROVE  TablesSound'
  BY DEF TablesSound, Keys, tables

LEMMA RelayManyKeeps ==
    ASSUME IInv, NEW s \in Servers, Relay(s), NumServers # 1
    PROVE  IInv'
  <1>1. Shape /\ TablesSound /\ UNCHANGED <<tables, ider, blocked, program>>
    BY DEF IInv, Shape, Relay, clientVars
  <1>2. PICK m \in Passed, x \in Message :
            /\ Handles(s, m) /\ m \in OwnMail(s)
            /\ x.from = Hdl(s) /\ x.client = m.client /\ x.id = m.id /\ x.req = m.req
            /\ RelayEffect(s, m, x)
    BY <1>1, RelayMany
  <1> DEFINE e == [msg |-> m, yes |-> 0, no |-> 0]
  <1>3. /\ mail'[Hdl(s)] = Tail(mail[Hdl(s)])
        /\ \A r \in Servers \ {s} : mail'[Hdl(r)] = Append(mail[Hdl(r)], x)
        /\ \A r \in Servers : mail'[Srv(r)] = mail[Srv(r)]
        /\ mail' = [b \in Boxes |-> mail'[b]]
        /\ inProgress' = [inProgress EXCEPT ![s] = Append(@, e)]
    BY <1>2 DEF RelayEffect
  <1>4. /\ inProgress'[s] = Append(inProgress[s], e)
        /\ \A r \in Servers \ {s} : inProgress'[r] = inProgress[r]
        /\ inProgress' = [r \in Servers |-> inProgress'[r]]
    BY <1>1, <1>3 DEF Shape
  <1>5. Shape'
    <2>1. \A r \in Servers \ {s} : x \in ToHandler(r)
      BY <1>2 DEF ToHandler, Passed
    <2>2. \A r \in Servers : /\ Moves(mail[Srv(r)], mail'[Srv(r)], ToServer)
                             /\ Moves(mail[Hdl(r)], mail'[Hdl(r)], ToHandler(r))
      BY <1>2, <1>3, <2>1 DEF Moves, Handles
    <2>3. e \in Entry
      BY DEF Entry
    <2>4. \A r \in Servers : inProgress'[r] \in Seq(Entry)
      <3>1. \A r \in Servers : inProgress[r] \in Seq(Entry)
        BY <1>1 DEF Shape
      <3>2. Append(inProgress[s], e) \in Seq(Entry)
        BY <2>3, <3>1, Longer
      <3> QED
        BY <1>4, <3>1, <3>2
    <2> QED
      BY <1>1, <1>3, <1>4, <2>2, <2>4, TablesKept, ShapeMoves DEF Shape
  <1>6. /\ Fresh(s) = <<m>> \o Fresh(s)'
        /\ \A t \in Servers \ {s} : SameFresh(t)
        /\ \A t, r \in Servers : SameReplies(t, r)
        /\ \A r \in Servers \ {s} : Asked(s, r)' = Append(Asked(s, r), x)
        /\ \A t \in Servers \ {s}, r \in Servers : SameAsked(t, r)
    BY <1>1, <1>2, <1>3, RelayQueues
  <1>7. ASSUME NEW t \in Servers \ {s}
        PROVE  Pipeline(t)'
    <2>1. SameLines(t)
      BY <1>6 DEF SameLines, Others
    <2>2. ider'[t] = ider[t]
      BY <1>1
    <2> QED
      BY <1>4, <1>6, <2>1, <2>2, PipelineKept DEF IInv
  <1>8. Pipeline(s)'
    <2>1. PICK R, P, F, L, K, n, G :
              /\ R = Others(s) /\ P = inProgress[s] /\ F = Fresh(s)' /\ L = Lines(s)
              /\ K = Lines(s)' /\ n = 100 * s + ider[s] /\ G = Fresh(s)
      OBVIOUS
    <2>2. Pipes(R, P, G, n, L)
      BY <1>1, <2>1, PipesOf
    <2>3. Pipes(R, inProgress'[s], F, 100 * s + ider'[s], K)
      BY <1>5, <2>1, PipesNext DEF Others, Servers
    <2>4. Pipes(R, P, F, n, L) /\ K \in [R -> Seq(Message)]
      BY <2>2, <2>3 DEF Pipes
    <2>5. Pipe(R, P, <<m>> \o F, n, L)
      <3>1. Pipe(R, P, G, n, L)
        BY <2>1 DEF IInv, Pipeline
      <3> QED
        BY <1>6, <2>1, <3>1
    <2>6. ASSUME NEW r \in R
          PROVE  K[r] = Append(L[r], x)
      <3>1. PICK a, b : a = Replies(s, r) /\ b = Asked(s, r)
        OBVIOUS
      <3>2. r \in Servers \ {s}
        BY <2>1 DEF Others
      <3>3. a \in Seq(Message) /\ b \in Seq(Message)
        BY <1>1, <3>1, <3>2, MailTyped, FilterSeq DEF Replies, Asked
      <3>4. a \o Append(b, x) = Append(a \o b, x)
        BY <3>3
      <3>5. K[r] = a \o Append(b, x)
        BY <1>6, <2>1, <3>1, <3>2 DEF Lines, Line, SameReplies, Others
      <3>6. L[r] = a \o b
        BY <2>1, <3>1 DEF Lines, Line
      <3> QED
        BY <3>4, <3>5, <3>6
    <2>7. R # {}
      BY <2>1, OthersCount
    <2>8. Pipe(R, Append(P, e), F, n, K)
      BY <1>2, <2>4, <2>5, <2>6, <2>7, PipeRelay
    <2>9. 100 * s + ider'[s] = n
      BY <1>1, <2>1
    <2> QED
      BY <1>4, <2>1, <2>8, <2>9 DEF Pipeline
  <1> QED
    BY <1>5, <1>7, <1>8 DEF IInv

LEMMA RelayOneKeeps ==
    ASSUME IInv, NEW s \in Servers, Relay(s), NumServers = 1
    PROVE  IInv'
  <1>1. Shape /\ TablesSound /\ UNCHANGED <<tables, ider, blocked, program>>
    BY DEF IInv, Shape, Relay, clientVars
  <1>2. Others(s) = {} /\ \A t \in Servers : t = s
    BY OthersCount DEF Others
  <1>3. inProgress[s] = << >>
    BY <1>2 DEF IInv, Pipeline, Pipe, HeadWaits
  <1>4. PICK m \in Message : Handles(s, m) /\ m \in OwnMail(s)
    BY <1>1, <1>3, RelayOne
  <1>5. HandsBack(s) /\ inProgress' = inProgress
    BY <1>1, <1>3, RelayOne
  <1>6. mail[Hdl(s)] # << >> /\ m = Head(mail[Hdl(s)]) /\ mail'[Hdl(s)] = Tail(mail[Hdl(s)])
    BY <1>4, <1>5 DEF Handles, HandsBack, Hands
  <1>7. Shape'
    <2>1. \A r \in Servers : /\ Moves(mail[Srv(r)], mail'[Srv(r)], ToServer)
                             /\ Moves(mail[Hdl(r)], mail'[Hdl(r)], ToHandler(r))
      BY <1>1, <1>2, <1>5, <1>6, HandsMoves DEF HandsBack
    <2> QED
      BY <1>1, <1>5, <2>1, TablesKept, ShapeMoves DEF Shape, HandsBack, Hands
  <1>8. Fresh(s) = <<m>> \o Fresh(s)'
    <2>1. mail[Hdl(s)] \in Seq(Message)
      BY <1>1, MailTyped
    <2>2. m \in OwnMail(s) =>
              Filter(mail[Hdl(s)], OwnMail(s)) = <<m>> \o Filter(mail'[Hdl(s)], OwnMail(s))
      BY <1>6, <2>1, HandlerLoses
    <2> QED
      BY <1>4, <2>2 DEF Fresh
  <1>9. Pipeline(s)'
    <2>1. PICK R, P, F, L, K, n, G :
              /\ R = Others(s) /\ P = inProgress[s] /\ F = Fresh(s)' /\ L = Lines(s)
              /\ K = Lines(s)' /\ n = 100 * s + ider[s] /\ G = Fresh(s)
      OBVIOUS
    <2>2. Pipes(R, P, F, n, L)
      <3>1. Pipes(R, P, G, n, L)
        BY <1>1, <2>1, PipesOf
      <3>2. Pipes(R, inProgress'[s], F, 100 * s + ider'[s], K)
        BY <1>7, <2>1, PipesNext DEF Others, Servers
      <3> QED
        BY <3>1, <3>2 DEF Pipes
    <2>3. Pipe(R, P, G, n, L)
      BY <2>1 DEF IInv, Pipeline
    <2>4. Pipe(R, P, F, n, L)
      BY <1>3, <1>8, <2>1, <2>2, <2>3, PipeAlone
    <2>5. K = L
      BY <1>2, <2>1 DEF Lines
    <2>6. inProgress'[s] = P /\ 100 * s + ider'[s] = n
      BY <1>1, <1>5, <2>1
    <2> QED
      BY <2>1, <2>4, <2>5, <2>6 DEF Pipeline
  <1> QED
    BY <1>2, <1>7, <1>9 DEF IInv

LEMMA AskKeeps ==
    ASSUME IInv, NEW r \in Servers, Ask(r)
    PROVE  IInv'
  <1>1. Shape /\ TablesSound /\ UNCHANGED <<tables, ider, blocked, program>>
    BY DEF IInv, Shape, Ask, clientVars
  <1>2. PICK s \in Servers \ {r}, m \in Message, y \in Message :
            /\ Handles(r, m) /\ m.from = Hdl(s) /\ m.req \notin Answers
            /\ y.from = Hdl(r) /\ y.req \in Answers /\ y.id = m.id /\ y.client = m.client
            /\ AskEffect(r, s, y)
    BY <1>1, AskTurn
  <1>3. /\ mail'[Hdl(r)] = Tail(mail[Hdl(r)])
        /\ mail'[Hdl(s)] = Append(mail[Hdl(s)], y)
        /\ \A t \in Servers \ {r, s} : mail'[Hdl(t)] = mail[Hdl(t)]
        /\ inProgress' = inProgress
        /\ Hands(r) /\ mail[Hdl(r)] # << >>
    BY <1>2 DEF AskEffect, Hands, Handles
  <1>4. Shape'
    <2>1. y \in ToHandler(s)
      <3>1. r \in Servers \ {s} /\ y.req \in PlainCalls \cup Answers
        BY <1>2
      <3> QED
        BY <1>2, <3>1 DEF ToHandler, Handles
    <2>2. /\ \A t \in Servers : Moves(mail[Srv(t)], mail'[Srv(t)], ToServer)
          /\ Moves(mail[Hdl(r)], mail'[Hdl(r)], ToHandler(r))
      BY <1>1, <1>3, HandsMoves
    <2>3. Moves(mail[Hdl(s)], mail'[Hdl(s)], ToHandler(s))
      BY <1>3, <2>1 DEF Moves
    <2>4. \A t \in Servers \ {r, s} : Moves(mail[Hdl(t)], mail'[Hdl(t)], ToHandler(t))
      BY <1>3 DEF Moves
    <2>5. \A t \in Servers : t = r \/ t = s \/ t \in Servers \ {r, s}
      OBVIOUS
    <2>6. \A t \in Servers : /\ Moves(mail[Srv(t)], mail'[Srv(t)], ToServer)
                             /\ Moves(mail[Hdl(t)], mail'[Hdl(t)], ToHandler(t))
      BY <2>2, <2>3, <2>4, <2>5
    <2>7. mail' = [b \in Boxes |-> mail'[b]]
      BY <1>3 DEF Hands
    <2> QED
      BY <1>1, <1>3, <2>6, <2>7, TablesKept, ShapeMoves DEF Shape
  <1>5. /\ \A t \in Servers : SameFresh(t)
        /\ Asked(s, r) = <<m>> \o Asked(s, r)'
        /\ Replies(s, r)' = Append(Replies(s, r), y)
        /\ \A t, u \in Servers : ~(t = s /\ u = r) => SameReplies(t, u) /\ SameAsked(t, u)
    BY <1>1, <1>2, <1>3, AskQueues
  <1>6. ASSUME NEW t \in Servers \ {s}
        PROVE  Pipeline(t)'
    <2>1. SameLines(t)
      BY <1>5 DEF SameLines, Others
    <2> QED
      BY <1>1, <1>3, <1>5, <2>1, PipelineKept DEF IInv
  <1>7. Pipeline(s)'
    <2>1. PICK R, P, F, L, K, n :
              /\ R = Others(s) /\ P = inProgress[s] /\ F = Fresh(s) /\ L = Lines(s)
              /\ K = Lines(s)' /\ n = 100 * s + ider[s]
      OBVIOUS
    <2>2. Pipe(R, P, F, n, L)
      BY <2>1 DEF IInv, Pipeline
    <2>3. Alike(K[r], L[r])
      <3>1. PICK a, b, c, d : /\ a = Replies(s, r) /\ b = Asked(s, r)
                              /\ c = Replies(s, r)' /\ d = Asked(s, r)'
        OBVIOUS
      <3>2. mail[Hdl(s)] \in Seq(Message) /\ mail[Hdl(r)] \in Seq(Message)
        BY <1>1, MailTyped
      <3>3. a \in Seq(Message)
        BY <3>1, <3>2, FilterSeq DEF Replies
      <3>4. d \in Seq(Message)
        <4>1. mail'[Hdl(r)] \in Seq(Message)
          BY <1>3, <3>2
        <4> QED
          BY <3>1, <4>1, FilterSeq DEF Asked
      <3>5. L[r] = a \o (<<m>> \o d) /\ K[r] = Append(a, y) \o d
        BY <1>5, <2>1, <3>1 DEF Lines, Line, Others
      <3>6. m \in Message /\ y \in Message /\ y.id = m.id
        BY <1>2
      <3> QED
        BY <3>3, <3>4, <3>5, <3>6, AlikeTurn
    <2>4. ASSUME NEW u \in R, u # r
          PROVE  Alike(K[u], L[u])
      <3>1. u \in Others(s) /\ SameReplies(s, u) /\ SameAsked(s, u)
        BY <1>5, <2>1, <2>4 DEF Others
      <3>2. K[u] = L[u]
        BY <2>1, <3>1 DEF Lines, Line, SameReplies, SameAsked
      <3> QED
        BY <3>2 DEF Alike
    <2>5. \A u \in R : Alike(K[u], L[u])
      BY <2>3, <2>4
    <2>6. Pipe(R, P, F, n, K)
      BY <2>2, <2>5, PipeAsk
    <2>7. Fresh(s)' = F /\ inProgress'[s] = P /\ 100 * s + ider'[s] = n
      BY <1>1, <1>3, <1>5, <2>1 DEF SameFresh
    <2> QED
      BY <2>1, <2>6, <2>7 DEF Pipeline
  <1> QED
    BY <1>4, <1>6, <1>7 DEF IInv

LEMMA CountKeeps ==
    ASSUME IInv, NEW s \in Servers, CountReply(s)
    PROVE  IInv'
  <1>1. Shape /\ TablesSound /\ UNCHANGED <<tables, ider, blocked, program>>
    BY DEF IInv, Shape, CountReply, clientVars
  <1>2. PICK r \in Servers \ {s}, m \in Message :
            /\ Handles(s, m) /\ m.from = Hdl(r) /\ m.req \in Answers
            /\ CountEffect(s, m)
    BY <1>1, CountTurn
  <1>3. PICK Q : /\ Counts(inProgress[s], m.id, Q)
                 /\ \/ /\ Q = << >> \/ Q[1].yes + Q[1].no # NumServers - 1
                       /\ inProgress' = [inProgress EXCEPT ![s] = Q]
                    \/ /\ Q # << >> /\ Q[1].yes + Q[1].no = NumServers - 1
                       /\ inProgress' = [inProgress EXCEPT ![s] = Tail(Q)]
    BY <1>2 DEF CountEffect
  <1>4. /\ mail'[Hdl(s)] = Tail(mail[Hdl(s)])
        /\ \A t \in Servers \ {s} : mail'[Hdl(t)] = mail[Hdl(t)]
        /\ Hands(s) /\ mail[Hdl(s)] # << >>
    BY <1>2 DEF CountEffect, HandsBack, Hands, Handles
  <1>5. PICK T : /\ inProgress' = [inProgress EXCEPT ![s] = T]
                 /\ \/ (Q = << >> \/ Q[1].yes + Q[1].no # NumServers - 1) /\ T = Q
                    \/ Q # << >> /\ Q[1].yes + Q[1].no = NumServers - 1 /\ T = Tail(Q)
    BY <1>3
  <1>6. T \in Seq(Entry)
    <2>1. Q \in Seq(Entry)
      BY <1>3 DEF Counts
    <2>2. Q # << >> => Tail(Q) \in Seq(Entry)
      BY <2>1, Shorter
    <2> QED
      BY <1>5, <2>1, <2>2
  <1>7. /\ inProgress'[s] = T /\ \A t \in Servers \ {s} : inProgress'[t] = inProgress[t]
        /\ inProgress' = [t \in Servers |-> inProgress'[t]]
    BY <1>1, <1>5 DEF Shape
  <1>8. Shape'
    <2>1. /\ \A t \in Servers : Moves(mail[Srv(t)], mail'[Srv(t)], ToServer)
          /\ Moves(mail[Hdl(s)], mail'[Hdl(s)], ToHandler(s))
      BY <1>1, <1>4, HandsMoves
    <2>2. \A t \in Servers \ {s} : Moves(mail[Hdl(t)], mail'[Hdl(t)], ToHandler(t))
      BY <1>4 DEF Moves
    <2>3. \A t \in Servers : /\ Moves(mail[Srv(t)], mail'[Srv(t)], ToServer)
                             /\ Moves(mail[Hdl(t)], mail'[Hdl(t)], ToHandler(t))
      BY <2>1, <2>2
    <2>4. \A t \in Servers : inProgress'[t] \in Seq(Entry)
      BY <1>1, <1>6, <1>7 DEF Shape
    <2>5. mail' = [b \in Boxes |-> mail'[b]]
      BY <1>4 DEF Hands
    <2> QED
      BY <1>1, <1>7, <2>3, <2>4, <2>5, TablesKept, ShapeMoves DEF Shape
  <1>9. /\ \A t \in Servers : SameFresh(t)
        /\ Replies(s, r) = <<m>> \o Replies(s, r)'
        /\ \A t, u \in Servers : SameAsked(t, u) /\ (~(t = s /\ u = r) => SameReplies(t, u))
    BY <1>1, <1>2, <1>4, CountQueues
  <1>10. ASSUME NEW t \in Servers \ {s}
         PROVE  Pipeline(t)'
    <2>1. SameLines(t)
      BY <1>9 DEF SameLines, Others
    <2>2. ider'[t] = ider[t]
      BY <1>1
    <2> QED
      BY <1>7, <1>9, <2>1, <2>2, PipelineKept DEF IInv
  <1>11. Pipeline(s)'
    <2>1. PICK R, P, F, L, K, n :
              /\ R = Others(s) /\ P = inProgress[s] /\ F = Fresh(s) /\ L = Lines(s)
              /\ K = Lines(s)' /\ n = 100 * s + ider[s]
      OBVIOUS
    <2>2. Pipes(R, P, F, n, L) /\ Pipe(R, P, F, n, L)
      BY <1>1, <2>1, PipesOf DEF IInv, Pipeline
    <2>3. Pipes(R, inProgress'[s], Fresh(s)', 100 * s + ider'[s], K)
      BY <1>8, <2>1, PipesNext DEF Others, Servers
    <2>4. K \in [R -> Seq(Message)]
      BY <2>3 DEF Pipes
    <2>5. L[r] = <<m>> \o K[r]
      <3>1. PICK a, b : a = Replies(s, r)' /\ b = Asked(s, r)
        OBVIOUS
      <3>2. b \in Seq(Message)
        BY <1>1, <3>1, MailTyped, FilterSeq DEF Asked
      <3>3. a \in Seq(Message)
        <4>1. mail[Hdl(s)] \in Seq(Message)
          BY <1>1, MailTyped
        <4>2. mail'[Hdl(s)] \in Seq(Message)
          BY <1>4, <4>1
        <4> QED
          BY <3>1, <4>2, FilterSeq DEF Replies
      <3>4. L[r] = (<<m>> \o a) \o b /\ K[r] = a \o b
        BY <1>9, <2>1, <3>1 DEF Lines, Line, Others, SameAsked
      <3>5. (<<m>> \o a) \o b = <<m>> \o (a \o b)
        BY <1>2, <3>2, <3>3
      <3> QED
        BY <3>4, <3>5
    <2>6. ASSUME NEW u \in R, u # r
          PROVE  K[u] = L[u]
      <3>1. u \in Others(s) /\ SameReplies(s, u) /\ SameAsked(s, u)
        BY <1>9, <2>1, <2>6 DEF Others
      <3> QED
        BY <2>1, <3>1 DEF Lines, Line, SameReplies, SameAsked
    <2>7. Answered(R, L, K, r, m)
      BY <2>1, <2>4, <2>5, <2>6 DEF Answered, Others
    <2>8. Counts(P, m.id, Q) /\ Cardinality(R) = NumServers - 1
      BY <1>3, <2>1, OthersCount
    <2>9. Q # << >>
      BY <2>2, <2>7, <2>8, PipeCounted
    <2>10. Pipe(R, T, F, n, K)
      <3>1. CASE Q[1].yes + Q[1].no # NumServers - 1
        BY <1>5, <2>2, <2>7, <2>8, <3>1, PipeWaits
      <3>2. CASE Q[1].yes + Q[1].no = NumServers - 1
        BY <1>5, <2>2, <2>7, <2>8, <2>9, <3>2, PipeDone
      <3> QED
        BY <3>1, <3>2
    <2>11. Fresh(s)' = F /\ inProgress'[s] = T /\ 100 * s + ider'[s] = n
      BY <1>1, <1>7, <1>9, <2>1 DEF SameFresh
    <2> QED
      BY <2>1, <2>10, <2>11 DEF Pipeline
  <1> QED
    BY <1>8, <1>10, <1>11 DEF IInv

LEMMA NextKeeps ==
    ASSUME IInv, Next
    PROVE  IInv'
  <1>1. ASSUME NEW s \in Servers, MessageHandler(s)
        PROVE  IInv'
    BY <1>1, RelayManyKeeps, RelayOneKeeps, AskKeeps, CountKeeps DEF MessageHandler
  <1> QED
    BY <1>1, ServerKeeps, ClientKeeps DEF Next

-----------------------------------------------------------------------------
(* The theorems. *)

LEMMA InitHolds ==
    ASSUME Init, NoMonitorCalls
    PROVE  IInv
  <1>1. mail = [b \in Boxes |-> << >>]
    BY DEF Init, Nothing
  <1>2. \A s \in Servers : mail[Srv(s)] = << >> /\ mail[Hdl(s)] = << >>
    BY <1>1, BoxNames
  <1>3. \A s \in Servers : inProgress[s] = << >> /\ ider[s] = 0
    BY DEF Init
  <1>4. TablesSound
    <2>1. DOMAIN << >> = {} /\ IsFiniteSet({})
      BY FS_EmptySet
    <2> QED
      BY <2>1 DEF Init, TablesSound, Keys
  <1>5. Shape
    <2>1. mail = [b \in Boxes |-> mail[b]]
      BY <1>1, Zenon
    <2>2. inProgress = [s \in Servers |-> inProgress[s]] /\ ider \in [Servers -> Nat]
      BY DEF Init
    <2>3. ASSUME NEW s \in Servers
          PROVE  /\ mail[Srv(s)] \in Seq(ToServer) /\ mail[Hdl(s)] \in Seq(ToHandler(s))
                 /\ inProgress[s] \in Seq(Entry)
      <3>1. /\ << >> \in Seq(ToServer) /\ << >> \in Seq(ToHandler(s)) /\ << >> \in Seq(Entry)
        BY EmptySeq
      <3> QED
        BY <1>2, <1>3, <3>1, Zenon
    <2> QED
      BY <1>4, <2>1, <2>2, <2>3 DEF Init, Shape
  <1>6. ASSUME NEW s \in Servers
        PROVE  Pipeline(s)
    <2>1. Fresh(s) = << >>
      BY <1>2, FilterEmpty DEF Fresh
    <2>2. \A r \in Others(s) : Lines(s)[r] = << >>
      <3>1. \A r \in Others(s) : Replies(s, r) = << >> /\ Asked(s, r) = << >>
        BY <1>2, FilterEmpty DEF Replies, Asked, Others
      <3>2. << >> \o << >> = << >>
        OBVIOUS
      <3> QED
        BY <3>1, <3>2 DEF Lines, Line
    <2>3. Msgs(inProgress[s]) \o Fresh(s) = << >> /\ Len(<< >>) = 0
      <3>1. Msgs(<< >>) = << >> /\ << >> \o << >> = << >>
        BY DEF Msgs
      <3> QED
        BY <1>3, <2>1, <3>1
    <2>4. Rising(Msgs(inProgress[s]) \o Fresh(s), 100 * s + ider[s])
      BY <2>3 DEF Rising
    <2>5. \A r \in Others(s) : Aligned(inProgress[s], Lines(s)[r])
      <3>1. ASSUME NEW r \in Others(s)
            PROVE  Aligned(inProgress[s], Lines(s)[r])
        <4>1. PICK P, l : P = inProgress[s] /\ l = Lines(s)[r] /\ P = << >> /\ l = << >>
          BY <1>3, <2>2
        <4>2. Len(l) = 0 /\ Len(P) = 0
          BY <4>1
        <4> QED
          BY <4>1, <4>2 DEF Aligned
      <3> QED
        BY <3>1
    <2>6. CountsHeard(Others(s), inProgress[s], Lines(s))
      BY <1>3 DEF CountsHeard
    <2>7. HeadWaits(Others(s), inProgress[s], Lines(s))
      BY <1>3 DEF HeadWaits
    <2> QED
      BY <2>4, <2>5, <2>6, <2>7 DEF Pipeline, Pipe
  <1> QED
    BY <1>5, <1>6 DEF IInv

LEMMA StutterKeeps ==
    ASSUME IInv, UNCHANGED vars
    PROVE  IInv'
  <1>1. Shape /\ UNCHANGED <<tables, ider, inProgress, blocked, program, mail>>
    BY DEF IInv, vars, tables
  <1>2. TablesSound'
    BY <1>1, TablesKept DEF Shape
  <1>3. Shape'
    BY <1>1, <1>2 DEF Shape, NoMonitorCalls
  <1> QED
    BY <1>1, <1>3, MailKept DEF IInv

LEMMA Invariance == Spec /\ NoMonitorCalls => []IInv
  <1>1. Init /\ NoMonitorCalls => IInv
    BY InitHolds
  <1>2. IInv /\ [Next]_vars => IInv'
    BY NextKeeps, StutterKeeps
  <1> QED
    BY <1>1, <1>2, PTL DEF Spec

(* Counting only the head of the list overlooks no reply: no request whose   *)
(* replies are all there stays in the list, however many requests of however *)
(* many servers are under way, in programs that do not use Wait, Signal and  *)
(* Broadcast.                                                                *)
THEOREM RepliesCounted == Spec /\ NoMonitorCalls => []NoReplyOverlooked
  <1>1. IInv => NoReplyOverlooked
    <2> SUFFICES ASSUME IInv, NEW s \in Servers, NEW i \in DOMAIN inProgress[s]
                 PROVE  inProgress[s][i].yes + inProgress[s][i].no < NumServers - 1
      BY DEF NoReplyOverlooked
    <2>1. Pipes(Others(s), inProgress[s], Fresh(s), 100 * s + ider[s], Lines(s))
      BY PipesOf DEF IInv
    <2>2. Pipe(Others(s), inProgress[s], Fresh(s), 100 * s + ider[s], Lines(s))
      BY DEF IInv, Pipeline
    <2>3. i \in 1..Len(inProgress[s])
      BY DEF IInv, Shape
    <2>4. inProgress[s][i].yes + inProgress[s][i].no < Cardinality(Others(s))
      BY <2>1, <2>2, <2>3, PipeNotComplete
    <2> QED
      BY <2>4, OthersCount
  <1> QED
    BY <1>1, Invariance, PTL

(* A handler counts each reply on exactly one request: the one that the      *)
(* reply is about is in the list, once, and was not answered by this server  *)
(* before.                                                                   *)
RepliesMatch ==
    \A s, r \in Servers :
        LET m == Head(mail[Hdl(s)])
        IN  mail[Hdl(s)] # << >> /\ m.from = Hdl(r) /\ m.req \in Answers =>
            \E j \in 1..Len(inProgress[s]) :
                /\ r \notin Heard(Others(s), inProgress[s], Lines(s), j)
                /\ \A i \in 1..Len(inProgress[s]) : inProgress[s][i].msg.id = m.id <=> i = j

(* A reply never comes for a request that is no longer in the list, or that  *)
(* the same server has answered: what the handler counts is never counted    *)
(* twice and never lost, with the programs of RepliesCounted.                *)
THEOREM EveryReplyMatches == Spec /\ NoMonitorCalls => []RepliesMatch
  <1>1. IInv => RepliesMatch
    <2> SUFFICES ASSUME IInv, NEW s \in Servers, NEW r \in Servers, NEW m,
                        mail[Hdl(s)] # << >>, m = Head(mail[Hdl(s)]),
                        m.from = Hdl(r), m.req \in Answers
                 PROVE  \E j \in 1..Len(inProgress[s]) :
                           /\ r \notin Heard(Others(s), inProgress[s], Lines(s), j)
                           /\ \A i \in 1..Len(inProgress[s]) :
                                 inProgress[s][i].msg.id = m.id <=> i = j
      BY DEF RepliesMatch
    <2>1. Shape /\ mail[Hdl(s)] \in Seq(ToHandler(s)) /\ mail[Hdl(s)] \in Seq(Message)
      BY MailTyped DEF IInv, Shape
    <2>2. m \in ToHandler(s) /\ m \in Message
      BY <2>1
    <2>3. r \in Others(s)
      <3>1. m.from # Hdl(s)
        BY <2>2, BoxNames DEF ToHandler
      <3> QED
        BY <3>1 DEF Others
    <2>4. PICK R, P, F, L, n :
              /\ R = Others(s) /\ P = inProgress[s] /\ F = Fresh(s) /\ L = Lines(s)
              /\ n = 100 * s + ider[s]
      OBVIOUS
    <2>5. Pipes(R, P, F, n, L) /\ Pipe(R, P, F, n, L)
      BY <2>1, <2>4, PipesOf DEF IInv, Pipeline
    <2>6. PICK a : a \in Seq(Message) /\ Replies(s, r) = <<m>> \o a
      <3>1. PICK q \in Seq(Message) : q = mail[Hdl(s)]
        BY <2>1
      <3>2. m \in AnsweredBy(r) /\ q # << >> /\ m = Head(q)
        BY <2>2, <3>1 DEF AnsweredBy
      <3>3. Tail(q) \in Seq(Message)
        BY <3>2
      <3>4. Filter(q, AnsweredBy(r)) = <<m>> \o Filter(Tail(q), AnsweredBy(r))
        BY <3>2, FilterSkips
      <3>5. Filter(Tail(q), AnsweredBy(r)) \in Seq(Message)
        BY <3>3, FilterSeq
      <3> QED
        BY <3>1, <3>4, <3>5 DEF Replies
    <2>7. PICK b \in Seq(Message) : b = Asked(s, r)
      BY <2>1, MailTyped, FilterSeq DEF Asked
    <2>8. L[r] = <<m>> \o (a \o b) /\ a \o b \in Seq(Message)
      <3>1. L[r] = (<<m>> \o a) \o b
        BY <2>3, <2>4, <2>6, <2>7 DEF Lines, Line
      <3>2. (<<m>> \o a) \o b = <<m>> \o (a \o b) /\ a \o b \in Seq(Message)
        BY <2>6
      <3> QED
        BY <3>1, <3>2
    <2> DEFINE K == [u \in R |-> IF u = r THEN a \o b ELSE L[u]]
    <2>9. Answered(R, L, K, r, m)
      BY <2>3, <2>4, <2>5, <2>8 DEF Answered, Pipes
    <2> HIDE DEF K
    <2>10. PICK j \in 1..Len(P) : /\ j = Len(P) - Len(L[r]) + 1
                                  /\ \A i \in 1..Len(P) : P[i].msg.id = m.id <=> i = j
      BY <2>5, <2>9, ReplyMatches
    <2>11. r \notin Heard(R, P, L, j)
      <3>1. PICK p, k \in Nat : p = Len(P) /\ k = Len(L[r])
        BY <2>3, <2>4, <2>5 DEF Pipes
      <3>2. ~(j <= p - k)
        BY <2>10, <3>1
      <3> QED
        BY <3>1, <3>2 DEF Heard
    <2> QED
      BY <2>4, <2>10, <2>11
  <1> QED
    BY <1>1, Invariance, PTL

-----------------------------------------------------------------------------
(* S has one element of q, if b, and otherwise none. *)
NoneOf(q, S) == \A i \in 1..Len(q) : q[i] \notin S
One(q, S)    == \E i \in 1..Len(q) : \A j \in 1..Len(q) : q[j] \in S <=> j = i
Has(q, S, b) == IF b THEN One(q, S) ELSE NoneOf(q, S)

(* The requests that are answered to c. *)
Of(c)  == {m \in Message : Requester(m) = c}
For(c) == {m \in Message : m.client = c}

(* Somebody has said YES to the request with the ID d, and s has not counted *)
(* it; r has not looked at that request.                                     *)
Said(s, d) == \E r \in Others(s) : \E m \in RangeOf(Replies(s, r)) : m.id = d /\ m.req = "YS"
Unheard(s, r, d) == \E m \in RangeOf(Asked(s, r)) : m.id = d

(* Nobody has taken over the request of the entry e of s's list. *)
Open(s, e) == e.yes = 0 /\ ~Said(s, e.msg.id)

OpenOf(s, c) == {e \in Entry : e.msg.client = c /\ Open(s, e)}

AtServer(s)   == <<"server", s>>
AtHandler(s)  == <<"handler", s>>
InList(s)     == <<"list", s>>
InQueue(s, i) == <<"queue", <<s, i>>>>
InMailbox     == <<"mailbox", 0>>
Nowhere       == <<"nowhere", 0>>

(* The queue of f[s] has an element in S, one, if w is the place s of the    *)
(* kind k; the others have none.                                             *)
Family(f, S, k, w) == \A s \in Servers : Has(f[s], S, w = <<k, s>>)

(* What each place has of the call of c when the call is at w. *)
ServersHave(c, w)  == Family([s \in Servers |-> mail[Srv(s)]], Of(c), "server", w)
HandlersHave(c, w) == Family([s \in Servers |-> Fresh(s)], For(c), "handler", w)
ListsHave(c, w)    == \A s \in Servers : Has(inProgress[s], OpenOf(s, c), w = InList(s))
QueuesHave(c, w) ==
    \A s \in Servers, i \in Indexes :
        IF i \in DOMAIN lockTable[s] THEN Has(lockTable[s][i].queue, {c}, w = InQueue(s, i))
        ELSE w # InQueue(s, i)
MailboxHas(c, w)   == IF w = InMailbox THEN \E x : mail[c] = <<x>> ELSE mail[c] = << >>

At(c, w) ==
    /\ ServersHave(c, w) /\ HandlersHave(c, w) /\ ListsHave(c, w) /\ QueuesHave(c, w)
    /\ MailboxHas(c, w)

Places ==
    {AtServer(s) : s \in Servers} \cup {AtHandler(s) : s \in Servers}
    \cup {InList(s) : s \in Servers} \cup {InQueue(s, i) : s \in Servers, i \in Indexes}
    \cup {InMailbox, Nowhere}

(* The call of c is in one place, and in that place once.  *)
Placed(c) == \E w \in Places : At(c, w) /\ (w = Nowhere <=> request[c] = NoMsg)

(* What a request asks for. *)
Key(m) == <<m.req, m.name, m.idx>>

Creates == {"CL", "CC", "CM"}

(* The names a program creates objects with are those of the program. *)
MayCreate(c, m) ==
    /\ m.req = "CL" => m.name \in program.locks[c]
    /\ m.req = "CC" => m.name \in program.conds[c]
    /\ m.req = "CM" => m.name \in program.mvs[c]

CallSound(c) ==
    request[c] # NoMsg =>
        request[c] \in Message /\ request[c].req \in PlainCalls /\ MayCreate(c, request[c])

ServerCopies(s) ==
    \A m \in RangeOf(mail[Srv(s)]) : /\ Key(m) = Key(request[Requester(m)])
                                     /\ m.client # Nobody => m.from = Hdl(s)

HandlerCopies(s) == \A m \in RangeOf(Fresh(s)) : Key(m) = Key(request[m.client])

ListCopies(s) ==
    \A e \in RangeOf(inProgress[s]) : Open(s, e) => Key(e.msg) = Key(request[e.msg.client])

(* What is asked about the entry e, and the answers to it. *)
AskedCopies(s, r, e) ==
    /\ \A m \in RangeOf(Asked(s, r)) :
          m.id = e.msg.id => Key(m) = Key(e.msg) /\ m.client = e.msg.client
    /\ \A m \in RangeOf(Replies(s, r)) : m.id = e.msg.id => m.client = e.msg.client

LineCopies(s) == \A e \in RangeOf(inProgress[s]) : \A r \in Others(s) : AskedCopies(s, r, e)

QueueCopies(s) ==
    \A i \in DOMAIN lockTable[s] : \A c \in Clients :
        Queued(lockTable[s][i].queue, c) => request[c].req = "AQ" /\ request[c].idx = i

CopiesSound ==
    \A s \in Servers : /\ ServerCopies(s) /\ HandlerCopies(s) /\ ListCopies(s)
                       /\ LineCopies(s) /\ QueueCopies(s)

(* A server that has taken over the request of e has its object. *)
Closes(s, r, e) == Owns(r, e.msg) /\ ~Unheard(s, r, e.msg.id)

ClosedSound ==
    \A s \in Servers : \A e \in RangeOf(inProgress[s]) :
        Open(s, e) \/ \E r \in Others(s) : Closes(s, r, e)

(* The objects of a table have the first indexes of the server. *)
Numbered(s, t) ==
    /\ DOMAIN t = {Stride * s + k : k \in 0..(Cardinality(DOMAIN t) - 1)}
    /\ Cardinality(DOMAIN t) <= MaxObjects

TablesNumbered ==
    \A s \in Servers : Numbered(s, lockTable[s]) /\ Numbered(s, condTable[s])
                       /\ Numbered(s, mvTable[s])

(* The owner of a lock does not queue for it, and nobody queues for a free   *)
(* lock.                                                                     *)
LocksSound ==
    \A s \in Servers : \A i \in DOMAIN lockTable[s] :
        LET L == lockTable[s][i]
        IN  ~Queued(L.queue, L.owner) /\ (L.owner = Nobody => L.queue = << >>)

Core ==
    /\ request \in [Clients -> Message \cup {NoMsg}]
    /\ \A c \in Clients : Placed(c) /\ CallSound(c)
    /\ CopiesSound /\ ClosedSound /\ TablesNumbered /\ LocksSound

(* At most one server that s asks about a request can take it over. *)
SingleOwner(s) ==
    \A m \in Message : m.req \in PlainCalls =>
        \A r, t \in Others(s) : Owns(r, m) /\ Owns(t, m) => r = t

(* Programs that create objects with different names.                        *)
OwnNames ==
    \A c, d \in Clients : c # d => /\ program.locks[c] \cap program.locks[d] = {}
                                   /\ program.conds[c] \cap program.conds[d] = {}
                                   /\ program.mvs[c] \cap program.mvs[d] = {}

(* No server has more objects of a kind than there are indexes up to those   *)
(* of the next server.                                                       *)
FewObjects ==
    \A s \in Servers : /\ Cardinality(DOMAIN lockTable[s]) <= Stride
                       /\ Cardinality(DOMAIN condTable[s]) <= Stride
                       /\ Cardinality(DOMAIN mvTable[s]) <= Stride

(* Nobody has the object that a request to create asks for, but where the    *)
(* request may still be answered with it.                                    *)
NamesSound ==
    /\ OneObjectPerName
    /\ \A s \in Servers :
        /\ \A m \in RangeOf(mail[Srv(s)]) :
              m.id # NoID /\ m.req \in Creates =>
                  Owns(s, m) \/ \A r \in Servers : ~Owns(r, m)
        /\ \A m \in RangeOf(Fresh(s)) : m.req \in Creates => ~Owns(s, m)
        /\ \A e \in RangeOf(inProgress[s]) :
              Open(s, e) /\ e.msg.req \in Creates =>
                  /\ ~Owns(s, e.msg)
                  /\ \A r \in Others(s) : Unheard(s, r, e.msg.id) \/ ~Owns(r, e.msg)

(* The client c is the owner of the lock i. *)
Owned(c, i) == \E s \in Servers : i \in DOMAIN lockTable[s] /\ lockTable[s][i].owner = c

HoldsSound ==
    \A c \in Clients :
        /\ \A i \in held[c] : Owned(c, i)
        /\ request[c] # NoMsg =>
              /\ request[c].req = "RL" => request[c].idx \notin held[c]
              /\ request[c].req = "AQ" /\ mail[c] # << >> /\ Head(mail[c]).idx # ErrorCode =>
                    Owned(c, request[c].idx)

LEMMA PlaceNames ==
    /\ \A r, s, k, l : <<k, r>> = <<l, s>> => k = l /\ r = s
    /\ \A r, s, i, j : InQueue(r, i) = InQueue(s, j) => r = s /\ i = j
    /\ "server" # "handler" /\ "server" # "list" /\ "server" # "queue" /\ "server" # "mailbox"
    /\ "server" # "nowhere" /\ "handler" # "list" /\ "handler" # "queue"
    /\ "handler" # "mailbox" /\ "handler" # "nowhere" /\ "list" # "queue"
    /\ "list" # "mailbox" /\ "list" # "nowhere" /\ "queue" # "mailbox"
    /\ "queue" # "nowhere" /\ "mailbox" # "nowhere"
  BY DEF InQueue

-----------------------------------------------------------------------------
(* What sequences have. *)

LEMMA AppendedParts ==
    ASSUME NEW T, NEW q \in Seq(T), NEW x \in T, NEW r, r = Append(q, x)
    PROVE  \E n \in Nat :
              /\ n = Len(q) /\ Len(r) = n + 1 /\ r[n + 1] = x
              /\ \A i \in 1..n : r[i] = q[i] /\ i \in 1..(n + 1)
              /\ n + 1 \in 1..(n + 1)
              /\ \A i \in 1..(n + 1) : i = n + 1 \/ (i \in 1..n /\ i # n + 1)
              /\ \A i \in 1..n : i # n + 1
              /\ DOMAIN q = 1..n /\ DOMAIN r = 1..(n + 1)
  <1>1. /\ Len(q) \in Nat /\ Len(r) = Len(q) + 1 /\ r[Len(q) + 1] = x
        /\ \A i \in 1..Len(q) : r[i] = q[i]
        /\ DOMAIN q = 1..Len(q) /\ DOMAIN r = 1..(Len(q) + 1)
    OBVIOUS
  <1>2. PICK n \in Nat : n = Len(q)
    BY <1>1
  <1>3. /\ n + 1 \in 1..(n + 1) /\ \A i \in 1..n : i # n + 1 /\ i \in 1..(n + 1)
        /\ \A i \in 1..(n + 1) : i = n + 1 \/ (i \in 1..n /\ i # n + 1)
    BY <1>2
  <1>4. /\ n = Len(q) /\ Len(r) = n + 1 /\ r[n + 1] = x /\ \A i \in 1..n : r[i] = q[i]
        /\ DOMAIN q = 1..n /\ DOMAIN r = 1..(n + 1)
    BY <1>1, <1>2
  <1> QED
    BY <1>3, <1>4, Zenon

LEMMA PrefixedParts ==
    ASSUME NEW T, NEW q \in Seq(T), NEW x \in T, NEW r, r = <<x>> \o q
    PROVE  \E n \in Nat :
              /\ n = Len(q) /\ Len(r) = n + 1 /\ r[1] = x
              /\ \A i \in 1..n : r[i + 1] = q[i] /\ i + 1 \in 1..(n + 1) /\ i + 1 # 1
              /\ 1 \in 1..(n + 1)
              /\ \A i \in 1..(n + 1) : i = 1 \/ \E j \in 1..n : i = j + 1
              /\ DOMAIN q = 1..n /\ DOMAIN r = 1..(n + 1)
  <1>1. /\ Len(q) \in Nat /\ Len(r) = Len(q) + 1 /\ r[1] = x
        /\ \A i \in 1..Len(q) : r[i + 1] = q[i]
        /\ DOMAIN q = 1..Len(q) /\ DOMAIN r = 1..(Len(q) + 1)
    OBVIOUS
  <1>2. PICK n \in Nat : n = Len(q)
    BY <1>1
  <1>3. ASSUME NEW i \in 1..(n + 1), i # 1
        PROVE  \E j \in 1..n : i = j + 1
    <2>1. i - 1 \in 1..n /\ i = (i - 1) + 1
      BY <1>3
    <2> QED
      BY <2>1
  <1>4. 1 \in 1..(n + 1) /\ \A i \in 1..n : i + 1 \in 1..(n + 1) /\ i + 1 # 1
    BY <1>2
  <1>5. /\ n = Len(q) /\ Len(r) = n + 1 /\ r[1] = x /\ \A i \in 1..n : r[i + 1] = q[i]
        /\ DOMAIN q = 1..n /\ DOMAIN r = 1..(n + 1)
    BY <1>1, <1>2
  <1> QED
    BY <1>3, <1>4, <1>5, Zenon

LEMMA RangeAppend ==
    ASSUME NEW T, NEW q \in Seq(T), NEW x \in T
    PROVE  RangeOf(Append(q, x)) = RangeOf(q) \cup {x}
  <1>1. PICK r : r = Append(q, x)
    OBVIOUS
  <1>2. PICK n \in Nat :
              /\ r[n + 1] = x
              /\ \A i \in 1..n : r[i] = q[i] /\ i \in 1..(n + 1)
              /\ n + 1 \in 1..(n + 1)
              /\ \A i \in 1..(n + 1) : i = n + 1 \/ i \in 1..n
              /\ DOMAIN q = 1..n /\ DOMAIN r = 1..(n + 1)
    BY <1>1, AppendedParts
  <1>3. ASSUME NEW y
        PROVE  y \in RangeOf(r) <=> y \in RangeOf(q) \/ y = x
    <2>1. y \in RangeOf(r) <=> \E i \in 1..(n + 1) : y = r[i]
      BY <1>2 DEF RangeOf
    <2>2. y \in RangeOf(q) <=> \E i \in 1..n : y = q[i]
      BY <1>2 DEF RangeOf
    <2> QED
      BY <1>2, <2>1, <2>2
  <1> QED
    BY <1>1, <1>3

LEMMA RangeFirst ==
    ASSUME NEW T, NEW q \in Seq(T), NEW x \in T
    PROVE  RangeOf(<<x>> \o q) = {x} \cup RangeOf(q)
  <1>1. PICK r : r = <<x>> \o q
    OBVIOUS
  <1>2. PICK n \in Nat :
              /\ r[1] = x
              /\ \A i \in 1..n : r[i + 1] = q[i] /\ i + 1 \in 1..(n + 1)
              /\ 1 \in 1..(n + 1)
              /\ \A i \in 1..(n + 1) : i = 1 \/ \E j \in 1..n : i = j + 1
              /\ DOMAIN q = 1..n /\ DOMAIN r = 1..(n + 1)
    BY <1>1, PrefixedParts
  <1>3. ASSUME NEW y
        PROVE  y \in RangeOf(r) <=> y = x \/ y \in RangeOf(q)
    <2>1. y \in RangeOf(r) <=> \E i \in 1..(n + 1) : y = r[i]
      BY <1>2 DEF RangeOf
    <2>2. y \in RangeOf(q) <=> \E i \in 1..n : y = q[i]
      BY <1>2 DEF RangeOf
    <2> QED
      BY <1>2, <2>1, <2>2
  <1> QED
    BY <1>1, <1>3

LEMMA HeadAndTail ==
    ASSUME NEW T, NEW q \in Seq(T), q # << >>
    PROVE  q = <<Head(q)>> \o Tail(q) /\ Head(q) \in T /\ Tail(q) \in Seq(T)
  OBVIOUS

LEMMA RangeTail ==
    ASSUME NEW T, NEW q \in Seq(T), q # << >>
    PROVE  RangeOf(q) = {Head(q)} \cup RangeOf(Tail(q))
  <1>1. PICK x, r : x = Head(q) /\ r = Tail(q)
    OBVIOUS
  <1>2. q = <<x>> \o r /\ x \in T /\ r \in Seq(T)
    BY <1>1, HeadAndTail
  <1> QED
    BY <1>1, <1>2, RangeFirst

LEMMA RangeEmpty == RangeOf(<< >>) = {}
  BY DEF RangeOf

LEMMA RangeTyped ==
    ASSUME NEW T, NEW q \in Seq(T)
    PROVE  RangeOf(q) \subseteq T
  BY DEF RangeOf

LEMMA RangeIndex ==
    ASSUME NEW T, NEW q \in Seq(T)
    PROVE  \A x : x \in RangeOf(q) <=> \E i \in 1..Len(q) : q[i] = x
  BY DEF RangeOf

(* Sequences that get an element, or lose their first. *)
LEMMA HasAppend ==
    ASSUME NEW T, NEW q \in Seq(T), NEW x \in T, NEW S, NEW b \in BOOLEAN, Has(q, S, b)
    PROVE  /\ x \notin S => Has(Append(q, x), S, b)
           /\ x \in S /\ ~b => Has(Append(q, x), S, TRUE)
  <1>1. PICK r : r = Append(q, x)
    OBVIOUS
  <1>2. PICK n \in Nat :
              /\ n = Len(q) /\ Len(r) = n + 1 /\ r[n + 1] = x
              /\ \A i \in 1..n : r[i] = q[i] /\ i \in 1..(n + 1)
              /\ n + 1 \in 1..(n + 1)
              /\ \A i \in 1..(n + 1) : i = n + 1 \/ (i \in 1..n /\ i # n + 1)
              /\ \A i \in 1..n : i # n + 1
    BY <1>1, AppendedParts
  <1>3. CASE b
    <2>1. PICK i \in 1..n : \A j \in 1..n : q[j] \in S <=> j = i
      BY <1>2, <1>3 DEF Has, One
    <2>2. x \notin S => \A j \in 1..(n + 1) : r[j] \in S <=> j = i
      BY <1>2, <2>1
    <2> QED
      BY <1>1, <1>2, <1>3, <2>1, <2>2, SMTT(30) DEF Has, One
  <1>4. CASE ~b
    <2>1. \A i \in 1..n : q[i] \notin S
      BY <1>2, <1>4 DEF Has, NoneOf
    <2>2. x \notin S => NoneOf(r, S)
      BY <1>2, <2>1 DEF NoneOf
    <2>3. x \in S => \A j \in 1..(n + 1) : r[j] \in S <=> j = n + 1
      BY <1>2, <2>1
    <2>4. x \in S => One(r, S)
      BY <1>2, <2>3 DEF One
    <2> QED
      BY <1>1, <1>4, <2>2, <2>4 DEF Has
  <1> QED
    BY <1>3, <1>4

LEMMA HasFirst ==
    ASSUME NEW T, NEW q \in Seq(T), NEW x \in T, NEW S, NEW b \in BOOLEAN,
           Has(<<x>> \o q, S, b)
    PROVE  /\ x \notin S => Has(q, S, b)
           /\ x \in S => b = TRUE /\ Has(q, S, FALSE)
  <1>1. PICK r : r = <<x>> \o q
    OBVIOUS
  <1>2. PICK n \in Nat :
              /\ n = Len(q) /\ Len(r) = n + 1 /\ r[1] = x
              /\ \A i \in 1..n : r[i + 1] = q[i] /\ i + 1 \in 1..(n + 1) /\ i + 1 # 1
              /\ 1 \in 1..(n + 1)
              /\ \A i \in 1..(n + 1) : i = 1 \/ \E j \in 1..n : i = j + 1
    BY <1>1, PrefixedParts
  <1>3. Has(r, S, b)
    BY <1>1
  <1>4. CASE b
    <2>1. PICK i \in 1..(n + 1) : \A j \in 1..(n + 1) : r[j] \in S <=> j = i
      BY <1>2, <1>3, <1>4, SMTT(30) DEF Has, One
    <2>2. CASE i = 1
      <3>1. x \in S /\ \A j \in 1..n : q[j] \notin S
        BY <1>2, <2>1, <2>2
      <3> QED
        BY <1>2, <1>4, <3>1 DEF Has, NoneOf
    <2>3. CASE i # 1
      <3>1. PICK k \in 1..n : i = k + 1
        BY <1>2, <2>3
      <3>2. ASSUME NEW j \in 1..n
            PROVE  q[j] \in S <=> j = k
        <4>1. q[j] \in S <=> j + 1 = k + 1
          BY <1>2, <2>1, <3>1
        <4> QED
          BY <4>1
      <3>3. x \notin S
        BY <1>2, <2>1, <2>3
      <3>4. One(q, S)
        BY <1>2, <3>2 DEF One
      <3> QED
        BY <1>4, <3>3, <3>4 DEF Has
    <2> QED
      BY <2>2, <2>3
  <1>5. CASE ~b
    <2>1. \A j \in 1..(n + 1) : r[j] \notin S
      BY <1>2, <1>3, <1>5 DEF Has, NoneOf
    <2>2. x \notin S /\ \A j \in 1..n : q[j] \notin S
      BY <1>2, <2>1
    <2> QED
      BY <1>2, <1>5, <2>2 DEF Has, NoneOf
  <1> QED
    BY <1>4, <1>5

LEMMA HasEmpty == \A S : Has(<< >>, S, FALSE)
  <1>1. Len(<< >>) = 0
    OBVIOUS
  <1> QED
    BY <1>1 DEF Has, NoneOf

(* Whether S has it depends only on which elements of q are in S. *)
LEMMA HasAlike ==
    ASSUME NEW q, NEW r, Len(r) = Len(q), NEW S, NEW R, NEW b \in BOOLEAN,
           \A i \in 1..Len(q) : r[i] \in R <=> q[i] \in S, Has(q, S, b)
    PROVE  Has(r, R, b)
  BY DEF Has, NoneOf, One

(* The one of q that is in S is in R. *)
LEMMA HasOther ==
    ASSUME NEW q, NEW S, NEW b \in BOOLEAN, Has(q, S, b), NEW i \in 1..Len(q), q[i] \in S
    PROVE  b /\ \A j \in 1..Len(q) : q[j] \in S => j = i
  BY DEF Has, NoneOf, One

LEMMA HasTail ==
    ASSUME NEW T, NEW q \in Seq(T), q # << >>, NEW S, NEW b \in BOOLEAN, Has(q, S, b)
    PROVE  /\ Head(q) \notin S => Has(Tail(q), S, b)
           /\ Head(q) \in S => b = TRUE /\ Has(Tail(q), S, FALSE)
  <1>1. PICK x, r : x = Head(q) /\ r = Tail(q)
    OBVIOUS
  <1>2. q = <<x>> \o r /\ x \in T /\ r \in Seq(T)
    BY <1>1, HeadAndTail
  <1>3. Has(<<x>> \o r, S, b)
    BY <1>2
  <1> QED
    BY <1>1, <1>2, <1>3, HasFirst, ZenonT(60)

-----------------------------------------------------------------------------
(* Families of queues, one for each server. *)

(* w is no place of the kind k. *)
Not(k, w) == \A s \in Servers : w # <<k, s>>

LEMMA FamilySame ==
    ASSUME NEW f, NEW g, \A s \in Servers : g[s] = f[s], NEW S, NEW k, NEW w, Family(f, S, k, w)
    PROVE  Family(g, S, k, w) /\ \A v : Not(k, w) /\ Not(k, v) => Family(g, S, k, v)
  <1>1. Family(g, S, k, w)
    BY DEF Family
  <1>2. ASSUME NEW v, Not(k, w), Not(k, v)
        PROVE  Family(g, S, k, v)
    <2>1. \A s \in Servers : (w = <<k, s>>) = FALSE /\ (v = <<k, s>>) = FALSE
      BY <1>2 DEF Not
    <2> QED
      BY <2>1 DEF Family
  <1> QED
    BY <1>1, <1>2

LEMMA FamilyGets ==
    ASSUME NEW f, NEW g, NEW s \in Servers, NEW T, f[s] \in Seq(T), NEW x \in T,
           g[s] = Append(f[s], x), \A r \in Servers \ {s} : g[r] = f[r],
           NEW S, NEW k, NEW w, Family(f, S, k, w)
    PROVE  /\ x \notin S => Family(g, S, k, w)
           /\ x \in S /\ Not(k, w) => Family(g, S, k, <<k, s>>)
  <1>1. PICK p, q, b : p = f[s] /\ q = g[s] /\ b = (w = <<k, s>>)
    OBVIOUS
  <1>2. Has(p, S, b) /\ p \in Seq(T) /\ q = Append(p, x) /\ b \in BOOLEAN
    BY <1>1 DEF Family
  <1>3. (x \notin S => Has(q, S, b)) /\ (x \in S /\ ~b => Has(q, S, TRUE))
    BY <1>2, HasAppend
  <1>4. x \notin S => Family(g, S, k, w)
    BY <1>1, <1>3 DEF Family
  <1>5. ASSUME x \in S, Not(k, w)
        PROVE  Family(g, S, k, <<k, s>>)
    <2>1. ~b /\ \A r \in Servers : (w = <<k, r>>) = FALSE
      BY <1>1, <1>5 DEF Not
    <2>2. \A r \in Servers \ {s} : (<<k, s>> = <<k, r>>) = FALSE
      BY PlaceNames
    <2>3. (<<k, s>> = <<k, s>>) = TRUE
      OBVIOUS
    <2> QED
      BY <1>1, <1>3, <1>5, <2>1, <2>2, <2>3 DEF Family
  <1> QED
    BY <1>4, <1>5

LEMMA FamilyLoses ==
    ASSUME NEW f, NEW g, NEW s \in Servers, NEW T, g[s] \in Seq(T), NEW x \in T,
           f[s] = <<x>> \o g[s], \A r \in Servers \ {s} : g[r] = f[r],
           NEW S, NEW k, NEW w, Family(f, S, k, w)
    PROVE  /\ x \notin S => Family(g, S, k, w)
           /\ x \in S => w = <<k, s>> /\ \A v : Not(k, v) => Family(g, S, k, v)
  <1>1. PICK p, q, b : p = f[s] /\ q = g[s] /\ b = (w = <<k, s>>)
    OBVIOUS
  <1>2. Has(p, S, b) /\ q \in Seq(T) /\ p = <<x>> \o q /\ b \in BOOLEAN
    BY <1>1 DEF Family
  <1>3. (x \notin S => Has(q, S, b)) /\ (x \in S => b = TRUE /\ Has(q, S, FALSE))
    <2>1. Has(<<x>> \o q, S, b)
      BY <1>2
    <2>2. q \in Seq(T) /\ x \in T /\ b \in BOOLEAN
      BY <1>2
    <2> QED
      BY <2>1, <2>2, HasFirst, ZenonT(60)
  <1>4. x \notin S => Family(g, S, k, w)
    BY <1>1, <1>3 DEF Family
  <1>5. ASSUME x \in S, NEW v, Not(k, v)
        PROVE  Family(g, S, k, v)
    <2>1. w = <<k, s>>
      BY <1>1, <1>3, <1>5
    <2>2. \A r \in Servers \ {s} : (w = <<k, r>>) = FALSE
      BY <2>1, PlaceNames
    <2>3. \A r \in Servers : (v = <<k, r>>) = FALSE
      BY <1>5 DEF Not
    <2> QED
      BY <1>1, <1>3, <1>5, <2>2, <2>3 DEF Family
  <1> QED
    BY <1>1, <1>3, <1>4, <1>5

-----------------------------------------------------------------------------
(* A turn of a Server: what it does to the clients' mail and to the tables. *)

(* A client has at most one message. *)
SmallMail == \A d \in Clients : mail[d] = << >> \/ \E x : mail[d] = <<x>>

(* Only c gets a message; nobody does. *)
Mailed(c, x) == /\ mail[c] = << >> => mail'[c] = <<x>>
                /\ \A d \in Clients \ {c} : mail'[d] = mail[d]
SilentMail == \A d \in Clients : mail'[d] = mail[d]

LEMMA ClientMail ==
    ASSUME \A c \in Clients : Placed(c)
    PROVE  SmallMail
  BY DEF Placed, At, MailboxHas, SmallMail

LEMMA ClientsGet ==
    ASSUME SmallMail, NEW b, b \notin Clients, NEW out, Exchange(b, out), NEW d \in Clients
    PROVE  /\ out[d] = << >> => mail'[d] = mail[d]
           /\ \A x : out[d] = <<x>> /\ mail[d] = << >> => mail'[d] = <<x>>
  <1>1. mail'[d] = mail[d] \o out[d]
    BY ExchangeAt, BoxNames
  <1>2. /\ << >> \o << >> = << >>
        /\ \A x : << >> \o <<x>> = <<x>> /\ <<x>> \o << >> = <<x>>
    OBVIOUS
  <1>3. mail[d] = << >> \/ \E x : mail[d] = <<x>>
    BY DEF SmallMail
  <1>4. mail[d] \o << >> = mail[d]
    BY <1>2, <1>3, Zenon
  <1>5. out[d] = << >> => mail'[d] = mail[d]
    BY <1>1, <1>4, Zenon
  <1>6. \A x : out[d] = <<x>> /\ mail[d] = << >> => mail'[d] = <<x>>
    BY <1>1, <1>2, Zenon
  <1> QED
    BY <1>5, <1>6

LEMMA Posted ==
    ASSUME NEW c \in Boxes, NEW x
    PROVE  \A d \in Boxes : To(c, x)[d] = IF d = c THEN <<x>> ELSE << >>
  BY DEF To, Nothing

LEMMA PostMail ==
    ASSUME SmallMail, NEW b, b \notin Clients, NEW c \in Boxes, NEW x, Exchange(b, To(c, x))
    PROVE  /\ c \in Clients => Mailed(c, x)
           /\ c \notin Clients => SilentMail
  <1> DEFINE out == To(c, x)
  <1>1. \A d \in Clients : out[d] = IF d = c THEN <<x>> ELSE << >>
    BY Posted, BoxNames
  <1>2. Exchange(b, out)
    OBVIOUS
  <1> HIDE DEF out
  <1>3. \A d \in Clients : /\ out[d] = << >> => mail'[d] = mail[d]
                           /\ \A y : out[d] = <<y>> /\ mail[d] = << >> => mail'[d] = <<y>>
    BY <1>2, ClientsGet
  <1>4. \A d \in Clients : d # c => mail'[d] = mail[d]
    BY <1>1, <1>3, Zenon
  <1>5. c \in Clients => (mail[c] = << >> => mail'[c] = <<x>>)
    BY <1>1, <1>3, Zenon
  <1> QED
    BY <1>4, <1>5 DEF Mailed, SilentMail

LEMMA NothingMail ==
    ASSUME SmallMail, NEW b, b \notin Clients, Exchange(b, Nothing)
    PROVE  SilentMail
  <1>1. \A d \in Clients : Nothing[d] = << >>
    BY BoxNames DEF Nothing
  <1> QED
    BY <1>1, ClientsGet DEF SilentMail

LEMMA BothMail ==
    ASSUME SmallMail, NEW b, b \notin Clients, NEW c \in Clients, NEW d \in Clients, c # d,
           NEW x, NEW y, Exchange(b, To(c, x) ++ To(d, y))
    PROVE  /\ mail[c] = << >> => mail'[c] = <<x>>
           /\ mail[d] = << >> => mail'[d] = <<y>>
           /\ \A e \in Clients \ {c, d} : mail'[e] = mail[e]
  <1> DEFINE out == To(c, x) ++ To(d, y)
  <1>1. \A e \in Clients : /\ To(c, x)[e] = IF e = c THEN <<x>> ELSE << >>
                           /\ To(d, y)[e] = IF e = d THEN <<y>> ELSE << >>
    BY Posted, BoxNames
  <1>2. \A e \in Clients : out[e] = To(c, x)[e] \o To(d, y)[e]
    BY BoxNames DEF ++
  <1>3. /\ << >> \o << >> = << >>
        /\ << >> \o <<y>> = <<y>> /\ <<x>> \o << >> = <<x>>
    OBVIOUS
  <1>4. Exchange(b, out)
    OBVIOUS
  <1> HIDE DEF out
  <1>5. out[c] = <<x>> /\ out[d] = <<y>> /\ \A e \in Clients \ {c, d} : out[e] = << >>
    BY <1>1, <1>2, <1>3, Zenon
  <1>6. \A e \in Clients : /\ out[e] = << >> => mail'[e] = mail[e]
                           /\ \A z : out[e] = <<z>> /\ mail[e] = << >> => mail'[e] = <<z>>
    BY <1>4, ClientsGet
  <1> QED
    BY <1>5, <1>6, Zenon

LEMMA AnswerMail ==
    ASSUME SmallMail, NEW s, NEW m, Taken(s, m), NEW n, Answer(s, m, n)
    PROVE  Mailed(Requester(m), Reply(n))
  <1>1. Requester(m) \in Clients /\ Srv(s) \notin Clients /\ Requester(m) \in Boxes
    BY BoxNames DEF Taken
  <1>2. Exchange(Srv(s), To(Requester(m), Reply(n)))
    BY DEF Answer
  <1> QED
    BY <1>1, <1>2, PostMail

(* The tables have the same objects; the lock i of s, or no lock, may have   *)
(* another owner or queue.                                                   *)
SameNames(t, u) ==
    \A s \in Servers : /\ DOMAIN u[s] = DOMAIN t[s]
                       /\ \A i \in DOMAIN t[s] : u[s][i].name = t[s][i].name

SameObjects ==
    SameNames(lockTable, lockTable') /\ SameNames(condTable, condTable')
    /\ SameNames(mvTable, mvTable')

LockKept(s, i) ==
    lockTable'[s][i].owner = lockTable[s][i].owner /\ lockTable'[s][i].queue = lockTable[s][i].queue

LocksKept == \A s \in Servers : \A i \in DOMAIN lockTable[s] : LockKept(s, i)

LockBecomes(s, i, c, q) ==
    /\ i \in DOMAIN lockTable[s] /\ lockTable'[s][i].owner = c /\ lockTable'[s][i].queue = q
    /\ \A r \in Servers : \A j \in DOMAIN lockTable[r] : (r # s \/ j # i) => LockKept(r, j)

(* An object with the name n, and x otherwise, is added to the table of s. *)
Grows(t, u, s, x) ==
    /\ u[s] = With(t[s], NextIndex(s, t[s]), x)
    /\ \A r \in Servers \ {s} : u[r] = t[r]
    /\ ~NoRoom(t[s])

NewObject(s, m) ==
    \/ /\ m.req = "CL" /\ FindByName(lockTable[s], m.name) = {}
       /\ \E x : /\ Grows(lockTable, lockTable', s, x)
                 /\ x.name = m.name /\ x.owner = Nobody /\ x.queue = << >>
       /\ UNCHANGED <<condTable, mvTable>>
    \/ /\ m.req = "CC" /\ FindByName(condTable[s], m.name) = {}
       /\ \E x : Grows(condTable, condTable', s, x) /\ x.name = m.name
       /\ UNCHANGED <<lockTable, mvTable>>
    \/ /\ m.req = "CM" /\ FindByName(mvTable[s], m.name) = {}
       /\ \E x : Grows(mvTable, mvTable', s, x) /\ x.name = m.name
       /\ UNCHANGED <<lockTable, condTable>>

(* The turns: an answer, ... *)
AnsweredTurn(s, m) ==
    /\ TakesOnly(s) /\ UNCHANGED ider
    /\ \E n : /\ Mailed(Requester(m), Reply(n))
              /\ m.req = "AQ" => n = ErrorCode
    /\ SameObjects /\ LocksKept

(* ... to a request to create, with a new object, ... *)
CreatedTurn(s, m) ==
    /\ TakesOnly(s) /\ UNCHANGED ider
    /\ \E n : Mailed(Requester(m), Reply(n))
    /\ m.id # NoID /\ NewObject(s, m)

(* ... to an Acquire, with the lock, ... *)
GrantedTurn(s, m) ==
    /\ TakesOnly(s) /\ UNCHANGED ider
    /\ \E n : Mailed(Requester(m), Reply(n))
    /\ m.req = "AQ" /\ m.idx \in DOMAIN lockTable[s] /\ Unlocked(lockTable[s][m.idx])
    /\ SameObjects /\ LockBecomes(s, m.idx, Requester(m), << >>)

(* ... or to a Release, that frees the lock, ... *)
FreedTurn(s, m) ==
    /\ TakesOnly(s) /\ UNCHANGED ider
    /\ \E n : Mailed(Requester(m), Reply(n))
    /\ m.req = "RL" /\ m.idx \in DOMAIN lockTable[s] /\ MayRelease(lockTable[s][m.idx], m)
    /\ SameObjects /\ LockBecomes(s, m.idx, Nobody, << >>)
    /\ lockTable[s][m.idx].queue = << >>

(* ... or gives it to the first that waits for it; ... *)
HandedTurn(s, m) ==
    /\ TakesOnly(s) /\ UNCHANGED ider
    /\ m.req = "RL" /\ m.idx \in DOMAIN lockTable[s] /\ MayRelease(lockTable[s][m.idx], m)
    /\ LET q == lockTable[s][m.idx].queue
           c == Requester(m)
           d == Head(q)
       IN  /\ q # << >> /\ q \in Seq(Clients) /\ d \in Clients
           /\ SameObjects /\ LockBecomes(s, m.idx, d, Tail(q))
           /\ c # d => /\ mail[c] = << >> => mail'[c] = <<Reply(SuccessCode)>>
                       /\ mail[d] = << >> => mail'[d] = <<Reply(SuccessCode)>>
                       /\ \A e \in Clients \ {c, d} : mail'[e] = mail[e]

(* ... an Acquire that waits; ... *)
QueuedTurn(s, m) ==
    /\ TakesOnly(s) /\ UNCHANGED ider /\ SilentMail
    /\ m.req = "AQ" /\ m.idx \in DOMAIN lockTable[s]
    /\ LET L == lockTable[s][m.idx]
       IN  /\ ~Unlocked(L) /\ L.owner # Requester(m) /\ L.queue \in Seq(Clients)
           /\ SameObjects /\ LockBecomes(s, m.idx, L.owner, Append(L.queue, Requester(m)))

(* ... and a request that the Server passes to its handler. *)
PassedTurn(s, m) ==
    /\ SilentMail /\ UNCHANGED tables
    /\ m.id = NoID /\ (m.req \in Creates => ~Owns(s, m))
    /\ \E x \in Message :
          /\ TakesAndPasses(s, x) /\ ider' = [ider EXCEPT ![s] = @ + 1]
          /\ x.from = Srv(s) /\ x.id = 100 * s + ider[s]
          /\ x.client = Requester(m) /\ Key(x) = Key(m)

Turn(s, m) ==
    \/ AnsweredTurn(s, m) \/ CreatedTurn(s, m) \/ GrantedTurn(s, m) \/ FreedTurn(s, m)
    \/ HandedTurn(s, m) \/ QueuedTurn(s, m) \/ PassedTurn(s, m)

LEMMA TablesStay ==
    ASSUME UNCHANGED tables
    PROVE  SameObjects /\ LocksKept
  BY DEF tables, SameObjects, SameNames, LocksKept, LockKept

(* A slot is written again. *)
LEMMA LockWritten ==
    ASSUME TablesSound, NEW s \in Servers, NEW i \in DOMAIN lockTable[s], NEW L,
           L.name = lockTable[s][i].name, SetLock(s, i, L)
    PROVE  SameObjects /\ LockBecomes(s, i, L.owner, L.queue)
  <1>1. Keys(lockTable)
    BY DEF TablesSound
  <1>2. lockTable' = [lockTable EXCEPT ![s] = With(@, i, L)] /\ UNCHANGED <<condTable, mvTable>>
    BY DEF SetLock
  <1>3. /\ SameNames(lockTable, lockTable') /\ lockTable'[s][i] = L
        /\ \A r \in Servers : \A j \in DOMAIN lockTable[r] :
              (r # s \/ j # i) => lockTable'[r][j] = lockTable[r][j]
    <2>1. PICK t, u : t = lockTable /\ u = lockTable'
      OBVIOUS
    <2>2. /\ u[s] = With(t[s], i, L) /\ \A r \in Servers \ {s} : u[r] = t[r]
          /\ i \in DOMAIN t[s] /\ L.name = t[s][i].name
      BY <1>1, <1>2, <2>1 DEF Keys
    <2>3. /\ SameNames(t, u) /\ u[s][i] = L
          /\ \A r \in Servers : \A j \in DOMAIN t[r] : (r # s \/ j # i) => u[r][j] = t[r][j]
      <3>1. /\ DOMAIN u[s] = DOMAIN t[s] /\ u[s][i] = L
            /\ \A j \in DOMAIN t[s] : j # i => u[s][j] = t[s][j]
        BY <2>2 DEF With
      <3> QED
        BY <2>2, <3>1 DEF SameNames
    <2> QED
      BY <2>1, <2>3
  <1> QED
    BY <1>2, <1>3 DEF SameObjects, SameNames, LockBecomes, LockKept

LEMMA CondWritten ==
    ASSUME TablesSound, NEW s \in Servers, NEW i \in DOMAIN condTable[s], NEW C,
           C.name = condTable[s][i].name, SetCond(s, i, C)
    PROVE  SameObjects /\ LocksKept
  <1>1. Keys(condTable)
    BY DEF TablesSound
  <1>2. condTable' = [condTable EXCEPT ![s] = With(@, i, C)] /\ UNCHANGED <<lockTable, mvTable>>
    BY DEF SetCond
  <1>3. SameNames(condTable, condTable')
    <2>1. PICK t, u : t = condTable /\ u = condTable'
      OBVIOUS
    <2>2. /\ u[s] = With(t[s], i, C) /\ \A r \in Servers \ {s} : u[r] = t[r]
          /\ i \in DOMAIN t[s] /\ C.name = t[s][i].name
      BY <1>1, <1>2, <2>1 DEF Keys
    <2>3. SameNames(t, u)
      <3>1. DOMAIN u[s] = DOMAIN t[s] /\ \A j \in DOMAIN t[s] : u[s][j].name = t[s][j].name
        BY <2>2 DEF With
      <3> QED
        BY <2>2, <3>1 DEF SameNames
    <2> QED
      BY <2>1, <2>3
  <1> QED
    BY <1>2, <1>3 DEF SameObjects, SameNames, LocksKept, LockKept

LEMMA MVarWritten ==
    ASSUME TablesSound, NEW s \in Servers, NEW i \in DOMAIN mvTable[s], NEW V,
           V.name = mvTable[s][i].name, SetMVar(s, i, V)
    PROVE  SameObjects /\ LocksKept
  <1>1. Keys(mvTable)
    BY DEF TablesSound
  <1>2. mvTable' = [mvTable EXCEPT ![s] = With(@, i, V)] /\ UNCHANGED <<lockTable, condTable>>
    BY DEF SetMVar
  <1>3. SameNames(mvTable, mvTable')
    <2>1. PICK t, u : t = mvTable /\ u = mvTable'
      OBVIOUS
    <2>2. /\ u[s] = With(t[s], i, V) /\ \A r \in Servers \ {s} : u[r] = t[r]
          /\ i \in DOMAIN t[s] /\ V.name = t[s][i].name
      BY <1>1, <1>2, <2>1 DEF Keys
    <2>3. SameNames(t, u)
      <3>1. DOMAIN u[s] = DOMAIN t[s] /\ \A j \in DOMAIN t[s] : u[s][j].name = t[s][j].name
        BY <2>2 DEF With
      <3> QED
        BY <2>2, <3>1 DEF SameNames
    <2> QED
      BY <2>1, <2>3
  <1> QED
    BY <1>2, <1>3 DEF SameObjects, SameNames, LocksKept, LockKept

LEMMA TableGrows ==
    ASSUME NEW t, Keys(t), NEW s \in Servers, NEW x, NEW u,
           u = [t EXCEPT ![s] = With(@, NextIndex(s, t[s]), x)], ~NoRoom(t[s])
    PROVE  Grows(t, u, s, x)
  <1>1. t = [n \in Servers |-> t[n]]
    BY DEF Keys
  <1> QED
    BY <1>1 DEF Grows

LEMMA RefusedTurn ==
    ASSUME Shape, SmallMail, NEW s, NEW m, Taken(s, m), Refuse(s, m)
    PROVE  AnsweredTurn(s, m)
  <1>1. Answer(s, m, ErrorCode) /\ UNCHANGED <<tables, ider>>
    BY DEF Refuse
  <1>2. TakesOnly(s) /\ Mailed(Requester(m), Reply(ErrorCode))
    BY <1>1, AnswerEffect, AnswerMail
  <1> QED
    BY <1>1, <1>2, TablesStay DEF AnsweredTurn

LEMMA NotHereTurn ==
    ASSUME Shape, SmallMail, NEW s, NEW m, Taken(s, m), NotHere(s, m),
           m.req \in Creates => ~Owns(s, m)
    PROVE  Turn(s, m)
  <1>1. CASE m.id # NoID /\ Answer(s, m, ErrorCode) /\ UNCHANGED ider
    BY <1>1, AnswerEffect, AnswerMail, TablesStay DEF AnsweredTurn, Turn, NotHere
  <1>2. CASE m.id = NoID /\ PassOn(s, m)
    <2> DEFINE y == [m EXCEPT !.client = m.from]
               n == 100 * s + ider[s]
               b == Srv(s)
               x == [y EXCEPT !.id = n, !.from = b]
    <2>1. m \in Message /\ m.from \in Clients /\ m.from \in Ids
      BY <1>2, BoxNames DEF Taken
    <2>2. y \in Message /\ y.client = m.from /\ Key(y) = Key(m)
      BY <2>1 DEF Message, Key
    <2>3. n \in Int /\ b \in Ids
      BY BoxNames DEF Taken, Shape, Servers
    <2>4. Exchange(Srv(s), To(Hdl(s), x)) /\ ider' = [ider EXCEPT ![s] = @ + 1]
      BY <1>2 DEF PassOn, Pass
    <2> HIDE DEF y, n, b
    <2>5. x \in Message /\ x.client = y.client /\ Key(x) = Key(y) /\ x.id = n /\ x.from = b
      BY <2>2, <2>3 DEF Message, Key
    <2> HIDE DEF x
    <2>6. TakesAndPasses(s, x)
      BY <2>4, <2>5, PassExchange DEF Taken
    <2>7. SilentMail
      BY <2>4, PostMail, BoxNames DEF Taken
    <2>8. m.from = Requester(m)
      <3>1. m \in ToServer
        BY DEF Taken, Shape
      <3> QED
        BY <1>2, <3>1 DEF ToServer, Requester
    <2> QED
      BY <1>2, <2>2, <2>4, <2>5, <2>6, <2>7, <2>8 DEF PassedTurn, Turn, NotHere, n, b
  <1> QED
    BY <1>1, <1>2 DEF NotHere

LEMMA AnswersTurn ==
    ASSUME Shape, SmallMail, NEW s, NEW m, Taken(s, m), NEW n, Answer(s, m, n), UNCHANGED ider,
           m.req # "AQ", SameObjects, LocksKept
    PROVE  AnsweredTurn(s, m)
  BY AnswerEffect, AnswerMail DEF AnsweredTurn

LEMMA CreatesTurn ==
    ASSUME Shape, SmallMail, NEW s, NEW m, Taken(s, m), m.id # NoID, NEW n,
           Exchange(Srv(s), To(m.client, Reply(n))), UNCHANGED ider, NewObject(s, m)
    PROVE  CreatedTurn(s, m)
  <1>1. TakesOnly(s)
    BY CreatedEffect
  <1>2. m.client \in Clients /\ Requester(m) = m.client
    BY BoxNames DEF Taken, Requester
  <1>3. Mailed(m.client, Reply(n))
    BY <1>2, PostMail, BoxNames DEF Taken
  <1> QED
    BY <1>1, <1>2, <1>3 DEF CreatedTurn

LEMMA CreateLockTurn ==
    ASSUME Shape, SmallMail, NEW s, NEW m, Taken(s, m), CreateLock(s, m)
    PROVE  Turn(s, m)
  <1> DEFINE found == FindByName(lockTable[s], m.name)
             i     == NextIndex(s, lockTable[s])
             L     == [name |-> m.name, owner |-> Nobody, queue |-> << >>,
                       toBeDeleted |-> FALSE, deleted |-> FALSE]
  <1>0. m.req = "CL" /\ s \in Servers /\ Keys(lockTable)
    BY DEF CreateLock, Takes, Taken, Shape, TablesSound
  <1>1. CASE \E j \in found : Answer(s, m, j) /\ UNCHANGED <<tables, ider, blocked, up>>
    BY <1>0, <1>1, AnswersTurn, TablesStay DEF Turn
  <1>2. CASE found = {} /\ NotHere(s, m)
    BY <1>0, <1>2, NotHereTurn DEF Owns, Creates
  <1>3. CASE Refuse(s, m)
    BY <1>3, RefusedTurn DEF Turn
  <1>4. CASE /\ found = {} /\ m.id # NoID /\ ~NoRoom(lockTable[s]) /\ SetLock(s, i, L)
             /\ Exchange(Srv(s), To(m.client, Reply(i)))
             /\ UNCHANGED <<ider, blocked, up>>
    <2>1. L.name = m.name /\ L.owner = Nobody /\ L.queue = << >>
      OBVIOUS
    <2> HIDE DEF L
    <2>2. Grows(lockTable, lockTable', s, L)
      BY <1>0, <1>4, TableGrows DEF SetLock
    <2>3. NewObject(s, m)
      BY <1>0, <1>4, <2>1, <2>2 DEF NewObject, SetLock
    <2> HIDE DEF i
    <2> QED
      BY <1>4, <2>3, CreatesTurn DEF Turn
  <1> QED
    BY <1>1, <1>2, <1>3, <1>4 DEF CreateLock

LEMMA DestroyLockTurn ==
    ASSUME Shape, SmallMail, NEW s, NEW m, Taken(s, m), DestroyLock(s, m)
    PROVE  Turn(s, m)
  <1>0. m.req = "DL" /\ s \in Servers /\ TablesSound
    BY DEF DestroyLock, Takes, Taken, Shape
  <1>1. CASE NotHere(s, m)
    BY <1>0, <1>1, NotHereTurn DEF Creates
  <1>2. CASE m.idx \in DOMAIN lockTable[s] /\ ~NotHere(s, m)
    <2> DEFINE L == lockTable[s][m.idx]
               K == [L EXCEPT !.toBeDeleted = TRUE, !.deleted = @ \/ Unlocked(L)]
    <2>1. L \in Slot
      BY <1>0, <1>2 DEF TablesSound
    <2>2. K.name = L.name /\ K.owner = L.owner /\ K.queue = L.queue
      BY <2>1 DEF Slot
    <2>3. SetLock(s, m.idx, K) /\ Answer(s, m, SuccessCode) /\ UNCHANGED ider
      BY <1>2 DEF DestroyLock
    <2> HIDE DEF K
    <2>4. SameObjects /\ LockBecomes(s, m.idx, K.owner, K.queue)
      BY <1>0, <1>2, <2>2, <2>3, LockWritten
    <2>5. LocksKept
      BY <2>2, <2>4 DEF LocksKept, LockBecomes, LockKept
    <2> QED
      BY <1>0, <2>3, <2>4, <2>5, AnswersTurn DEF Turn
  <1> QED
    BY <1>1, <1>2 DEF DestroyLock

LEMMA AcquireTurn ==
    ASSUME Shape, SmallMail, NEW s, NEW m, Taken(s, m), Acquire(s, m)
    PROVE  Turn(s, m)
  <1> DEFINE i == m.idx
             L == lockTable[s][i]
             c == Requester(m)
  <1>0. m.req = "AQ" /\ s \in Servers /\ TablesSound /\ c \in Clients
    BY DEF Acquire, Takes, Taken, Shape
  <1>1. CASE NotHere(s, m)
    BY <1>0, <1>1, NotHereTurn DEF Creates
  <1>2. CASE Refuse(s, m)
    BY <1>2, RefusedTurn DEF Turn
  <1>3. CASE /\ i \in DOMAIN lockTable[s] /\ Unlocked(L) /\ SetLock(s, i, [L EXCEPT !.owner = c])
             /\ Answer(s, m, SuccessCode) /\ UNCHANGED <<ider, blocked, up>>
    <2> DEFINE K == [L EXCEPT !.owner = c]
    <2>1. L \in Slot
      BY <1>0, <1>3 DEF TablesSound
    <2>2. K.name = L.name /\ K.owner = c /\ K.queue = << >>
      BY <1>3, <2>1 DEF Slot, Unlocked
    <2>3. SetLock(s, i, K)
      BY <1>3
    <2> HIDE DEF K
    <2>4. SameObjects /\ LockBecomes(s, i, c, << >>)
      BY <1>0, <1>3, <2>2, <2>3, LockWritten
    <2>5. TakesOnly(s) /\ Mailed(c, Reply(SuccessCode))
      BY <1>3, AnswerEffect, AnswerMail
    <2> QED
      BY <1>0, <1>3, <2>4, <2>5 DEF GrantedTurn, Turn
  <1>4. CASE /\ i \in DOMAIN lockTable[s] /\ ~Unlocked(L) /\ L.owner # c
             /\ SetLock(s, i, [L EXCEPT !.queue = Append(@, c)])
             /\ Exchange(Srv(s), Nothing) /\ UNCHANGED <<ider, blocked, up>>
    <2> DEFINE K == [L EXCEPT !.queue = Append(@, c)]
    <2>1. L \in Slot
      BY <1>0, <1>4 DEF TablesSound
    <2>2. /\ K.name = L.name /\ K.owner = L.owner /\ K.queue = Append(L.queue, c)
          /\ L.queue \in Seq(Clients)
      BY <2>1 DEF Slot
    <2>3. SetLock(s, i, K)
      BY <1>4
    <2> HIDE DEF K
    <2>4. SameObjects /\ LockBecomes(s, i, L.owner, Append(L.queue, c))
      BY <1>0, <1>4, <2>2, <2>3, LockWritten
    <2>5. TakesOnly(s) /\ SilentMail
      BY <1>0, <1>4, QuietNothing, QuietExchange, NothingMail, BoxNames DEF Taken
    <2> QED
      BY <1>0, <1>4, <2>2, <2>4, <2>5 DEF QueuedTurn, Turn
  <1> QED
    BY <1>1, <1>2, <1>3, <1>4 DEF Acquire

LEMMA ReleaseTurn ==
    ASSUME Shape, SmallMail, NEW s, NEW m, Taken(s, m), Release(s, m)
    PROVE  Turn(s, m)
  <1> DEFINE i == m.idx
             L == lockTable[s][i]
             c == Requester(m)
             H == HandedOver(L)
             K == [H EXCEPT !.deleted = L.toBeDeleted /\ L.queue = << >>]
  <1>0. m.req = "RL" /\ s \in Servers /\ TablesSound /\ c \in Clients
    BY DEF Release, Takes, Taken, Shape
  <1>1. CASE NotHere(s, m)
    BY <1>0, <1>1, NotHereTurn DEF Creates
  <1>2. CASE Refuse(s, m)
    BY <1>2, RefusedTurn DEF Turn
  <1>3. CASE /\ i \in DOMAIN lockTable[s] /\ MayRelease(L, m) /\ SetLock(s, i, K)
             /\ Grant(s, L, To(c, Reply(SuccessCode))) /\ UNCHANGED <<ider, blocked>>
    <2>1. L \in Slot /\ L.queue \in Seq(Clients)
      BY <1>0, <1>3 DEF TablesSound, Slot
    <2>2. /\ K.name = L.name
          /\ L.queue = << >> => K.owner = Nobody /\ K.queue = << >>
          /\ L.queue # << >> => K.owner = Head(L.queue) /\ K.queue = Tail(L.queue)
      BY <2>1 DEF HandedOver, Slot
    <2>3. SetLock(s, i, K)
      BY <1>3
    <2> HIDE DEF K
    <2>4. SameObjects /\ LockBecomes(s, i, K.owner, K.queue)
      BY <1>0, <1>3, <2>2, <2>3, LockWritten
    <2>5. TakesOnly(s)
      BY <1>0, <1>3, <2>1, GrantEffect, QuietTo
    <2>6. CASE L.queue = << >>
      <3>1. Exchange(Srv(s), To(c, Reply(SuccessCode)))
        BY <1>3, <2>6 DEF Grant
      <3>2. Mailed(c, Reply(SuccessCode))
        BY <1>0, <3>1, PostMail, BoxNames
      <3> QED
        BY <1>0, <1>3, <2>2, <2>4, <2>5, <2>6, <3>2 DEF FreedTurn, Turn
    <2>7. CASE L.queue # << >>
      <3>1. PICK d \in Clients : d = Head(L.queue)
        BY <2>1, <2>7
      <3>2. Exchange(Srv(s), To(c, Reply(SuccessCode)) ++ To(d, Reply(SuccessCode)))
        BY <1>3, <2>7, <3>1, BoxNames DEF Grant
      <3>3. c # d => /\ mail[c] = << >> => mail'[c] = <<Reply(SuccessCode)>>
                     /\ mail[d] = << >> => mail'[d] = <<Reply(SuccessCode)>>
                     /\ \A e \in Clients \ {c, d} : mail'[e] = mail[e]
        BY <1>0, <3>2, BothMail, BoxNames
      <3> QED
        BY <1>0, <1>3, <2>1, <2>2, <2>4, <2>5, <2>7, <3>1, <3>3 DEF HandedTurn, Turn
    <2> QED
      BY <2>6, <2>7
  <1> QED
    BY <1>1, <1>2, <1>3 DEF Release

LEMMA CondTurns ==
    ASSUME Shape, SmallMail, NEW s, NEW m, Taken(s, m),
           CreateCondition(s, m) \/ DestroyCondition(s, m)
    PROVE  Turn(s, m)
  <1>0. m.req \in {"CC", "DC"} /\ s \in Servers /\ TablesSound /\ Keys(condTable)
    BY DEF CreateCondition, DestroyCondition, Takes, Taken, Shape, TablesSound
  <1>1. CASE Refuse(s, m)
    BY <1>1, RefusedTurn DEF Turn
  <1>2. CASE CreateCondition(s, m) /\ ~Refuse(s, m)
    <2> DEFINE found == FindByName(condTable[s], m.name)
               i     == NextIndex(s, condTable[s])
               C     == [name |-> m.name, queue |-> << >>, toBeDeleted |-> FALSE,
                         deleted |-> FALSE]
    <2>0. m.req = "CC"
      BY <1>2 DEF CreateCondition, Takes
    <2>1. CASE \E j \in found : Answer(s, m, j) /\ UNCHANGED <<tables, ider, blocked, up>>
      BY <2>0, <2>1, AnswersTurn, TablesStay DEF Turn
    <2>2. CASE found = {} /\ NotHere(s, m)
      BY <2>0, <2>2, NotHereTurn DEF Owns, Creates
    <2>3. CASE /\ found = {} /\ m.id # NoID /\ ~NoRoom(condTable[s]) /\ SetCond(s, i, C)
               /\ Exchange(Srv(s), To(m.client, Reply(i)))
               /\ UNCHANGED <<ider, blocked, up>>
      <3>1. C.name = m.name
        OBVIOUS
      <3> HIDE DEF C
      <3>2. Grows(condTable, condTable', s, C)
        BY <1>0, <2>3, TableGrows DEF SetCond
      <3>3. NewObject(s, m)
        BY <2>0, <2>3, <3>1, <3>2 DEF NewObject, SetCond
      <3> HIDE DEF i
      <3> QED
        BY <2>3, <3>3, CreatesTurn DEF Turn
    <2> QED
      BY <1>2, <2>1, <2>2, <2>3 DEF CreateCondition
  <1>3. CASE DestroyCondition(s, m)
    <2>0. m.req = "DC"
      BY <1>3 DEF DestroyCondition, Takes
    <2>1. CASE NotHere(s, m)
      BY <2>0, <2>1, NotHereTurn DEF Creates
    <2>2. CASE m.idx \in DOMAIN condTable[s] /\ ~NotHere(s, m)
      <3> DEFINE C == condTable[s][m.idx]
                 D == [C EXCEPT !.toBeDeleted = TRUE, !.deleted = @ \/ C.queue = << >>]
      <3>1. D.name = C.name
        OBVIOUS
      <3>2. SetCond(s, m.idx, D) /\ Answer(s, m, SuccessCode) /\ UNCHANGED ider
        BY <1>3, <2>2 DEF DestroyCondition
      <3> HIDE DEF D
      <3>3. SameObjects /\ LocksKept
        BY <1>0, <2>2, <3>1, <3>2, CondWritten
      <3> QED
        BY <2>0, <3>2, <3>3, AnswersTurn DEF Turn
    <2> QED
      BY <1>3, <2>1, <2>2 DEF DestroyCondition
  <1> QED
    BY <1>0, <1>1, <1>2, <1>3

LEMMA CreateMVTurn ==
    ASSUME Shape, SmallMail, NEW s, NEW m, Taken(s, m), CreateMV(s, m)
    PROVE  Turn(s, m)
  <1> DEFINE found == FindByName(mvTable[s], m.name)
             i     == NextIndex(s, mvTable[s])
             V(a)  == [name |-> m.name, array |-> a, toBeDeleted |-> FALSE, deleted |-> FALSE]
  <1>0. m.req = "CM" /\ s \in Servers /\ Keys(mvTable)
    BY DEF CreateMV, Takes, Taken, Shape, TablesSound
  <1>1. CASE \E n : Answer(s, m, n) /\ UNCHANGED <<tables, ider, blocked, up>>
    BY <1>0, <1>1, AnswersTurn, TablesStay DEF Turn
  <1>2. CASE found = {} /\ NotHere(s, m)
    BY <1>0, <1>2, NotHereTurn DEF Owns, Creates
  <1>3. CASE Refuse(s, m)
    BY <1>3, RefusedTurn DEF Turn
  <1>4. CASE /\ found = {} /\ m.id # NoID /\ ~NoRoom(mvTable[s])
             /\ \E a : SetMVar(s, i, V(a))
             /\ Exchange(Srv(s), To(m.client, Reply(i)))
             /\ UNCHANGED <<ider, blocked, up>>
    <2>1. PICK x : SetMVar(s, i, x) /\ x.name = m.name
      BY <1>4
    <2>2. Grows(mvTable, mvTable', s, x)
      BY <1>0, <1>4, <2>1, TableGrows DEF SetMVar
    <2>3. NewObject(s, m)
      BY <1>0, <1>4, <2>1, <2>2 DEF NewObject, SetMVar
    <2> HIDE DEF i
    <2> QED
      BY <1>4, <2>3, CreatesTurn DEF Turn
  <1> QED
    BY <1>1, <1>2, <1>3, <1>4 DEF CreateMV

LEMMA MVTurns ==
    ASSUME Shape, SmallMail, NEW s, NEW m, Taken(s, m),
           DestroyMV(s, m) \/ GetMV(s, m) \/ SetMV(s, m)
    PROVE  Turn(s, m)
  <1>0. m.req \in {"DM", "GM", "SM"} /\ s \in Servers /\ TablesSound
    BY DEF DestroyMV, GetMV, SetMV, Takes, Taken, Shape
  <1>1. CASE NotHere(s, m)
    BY <1>0, <1>1, NotHereTurn DEF Creates
  <1>2. CASE Refuse(s, m)
    BY <1>2, RefusedTurn DEF Turn
  <1>3. ASSUME NEW n, Answer(s, m, n), UNCHANGED <<tables, ider>>
        PROVE  Turn(s, m)
    BY <1>0, <1>3, AnswersTurn, TablesStay DEF Turn
  <1>4. ASSUME NEW V, SetMVar(s, m.idx, V), m.idx \in DOMAIN mvTable[s],
               V.name = mvTable[s][m.idx].name, NEW n, Answer(s, m, n), UNCHANGED ider
        PROVE  Turn(s, m)
    BY <1>0, <1>4, MVarWritten, AnswersTurn DEF Turn
  <1>5. CASE DestroyMV(s, m) /\ ~NotHere(s, m)
    <2> DEFINE V == mvTable[s][m.idx]
               W == [V EXCEPT !.toBeDeleted = TRUE, !.deleted = TRUE]
    <2>1. W.name = V.name
      OBVIOUS
    <2>2. /\ SetMVar(s, m.idx, W) /\ Answer(s, m, SuccessCode) /\ UNCHANGED ider
          /\ m.idx \in DOMAIN mvTable[s]
      BY <1>5 DEF DestroyMV
    <2> HIDE DEF W
    <2> QED
      BY <1>4, <2>1, <2>2
  <1>6. CASE GetMV(s, m) /\ ~NotHere(s, m) /\ ~Refuse(s, m)
    <2> DEFINE n == mvTable[s][m.idx].array[m.idx2]
    <2>1. Answer(s, m, n) /\ UNCHANGED <<tables, ider>>
      BY <1>6 DEF GetMV
    <2> HIDE DEF n
    <2> QED
      BY <1>3, <2>1
  <1>7. CASE SetMV(s, m) /\ ~NotHere(s, m) /\ ~Refuse(s, m)
    <2> DEFINE V == mvTable[s][m.idx]
               W == [V EXCEPT !.array[m.idx2] = m.val]
    <2>1. W.name = V.name
      OBVIOUS
    <2>2. /\ SetMVar(s, m.idx, W) /\ Answer(s, m, SuccessCode) /\ UNCHANGED ider
          /\ m.idx \in DOMAIN mvTable[s]
      BY <1>7 DEF SetMV
    <2> HIDE DEF W
    <2> QED
      BY <1>4, <2>1, <2>2
  <1> QED
    BY <1>1, <1>2, <1>5, <1>6, <1>7

(* Every turn of a Server is one of these. *)
LEMMA ServerTurns ==
    ASSUME Shape, SmallMail, NEW s \in Servers, Server(s)
    PROVE  /\ \E m \in Message : Taken(s, m) /\ Turn(s, m)
           /\ UNCHANGED <<inProgress, blocked, program, request, calls, held>>
  <1>1. ~WaitResumes(s)
    BY DEF WaitResumes, Shape
  <1>2. mail[Srv(s)] # << >> /\ Serve(s, Head(mail[Srv(s)]))
    BY <1>1 DEF Server
  <1>3. PICK m \in Message : Taken(s, m)
    BY <1>2, HeadTaken
  <1>4. m = Head(mail[Srv(s)]) /\ m.req \notin MonitorCalls /\ Serve(s, m)
    BY <1>2, <1>3 DEF Taken, PlainCalls
  <1>5. ~Wait(s, m) /\ ~Signal(s, m) /\ ~Broadcast(s, m)
    BY <1>4 DEF Wait, Signal, Broadcast, Takes, MonitorCalls
  <1>6. Turn(s, m)
    BY <1>3, <1>4, <1>5, CreateLockTurn, DestroyLockTurn, AcquireTurn, ReleaseTurn, CondTurns,
       CreateMVTurn, MVTurns DEF Serve
  <1> QED
    BY <1>3, <1>6, ServerTurn DEF Served

-----------------------------------------------------------------------------
(* A turn of a MessageHandler: what it does to the places. *)

Copy(x, m) == x \in Message /\ x.id = m.id /\ x.client = m.client /\ Key(x) = Key(m)

(* What happens to the mail of the Servers. *)
ServersQuiet     == \A r \in Servers : mail'[Srv(r)] = mail[Srv(r)]
ServerGets(s, y) == /\ mail'[Srv(s)] = Append(mail[Srv(s)], y)
                    /\ \A r \in Servers \ {s} : mail'[Srv(r)] = mail[Srv(r)]
ServerTakes(s)   == /\ mail'[Srv(s)] = Tail(mail[Srv(s)])
                    /\ \A r \in Servers \ {s} : mail'[Srv(r)] = mail[Srv(r)]

(* A request from the own Server: it goes to the list, or straight back. *)
RelayedTurn(s) ==
    \E m \in Passed, x \in Message :
        /\ Handles(s, m) /\ Copy(x, m)
        /\ Fresh(s) = <<m>> \o Fresh(s)' /\ \A t \in Servers \ {s} : SameFresh(t)
        /\ \A t, r \in Servers : SameReplies(t, r)
        /\ \A r \in Others(s) : Asked(s, r)' = Append(Asked(s, r), x)
        /\ \A t \in Servers \ {s}, r \in Servers : SameAsked(t, r)
        /\ inProgress' = [inProgress EXCEPT ![s] = Append(@, [msg |-> m, yes |-> 0, no |-> 0])]
        /\ ServersQuiet /\ SilentMail

BackTurn(s) ==
    \E m \in Message, y \in Message :
        /\ Handles(s, m) /\ Copy(y, m) /\ y.from = Hdl(s)
        /\ Fresh(s) = <<m>> \o Fresh(s)' /\ Others(s) = {}
        /\ inProgress' = inProgress
        /\ ServerGets(s, y) /\ SilentMail

(* A request of s: r takes it over, or not. *)
AskedTurn(r, s) ==
    \E m \in Message, y \in Message :
        /\ Handles(r, m) /\ m.req \in PlainCalls
        /\ Asked(s, r) = <<m>> \o Asked(s, r)'
        /\ Replies(s, r)' = Append(Replies(s, r), y) /\ y.id = m.id /\ y.client = m.client
        /\ \A t \in Servers : SameFresh(t)
        /\ \A t, u \in Servers : ~(t = s /\ u = r) => SameReplies(t, u) /\ SameAsked(t, u)
        /\ inProgress' = inProgress /\ SilentMail
        /\ \/ /\ Owns(r, m) /\ y.req = "YS"
              /\ \E z \in Message : Copy(z, m) /\ z.from = Hdl(r) /\ ServerGets(r, z)
           \/ ~Owns(r, m) /\ y.req = "NO" /\ ServersQuiet

(* A reply to s: it is counted, and the first request of the list, when all  *)
(* the others have answered, was taken over, or goes back.                   *)
YesCounts(P, m, Q) ==
    \A i \in 1..Len(P) :
        Q[i].yes = P[i].yes + (IF P[i].msg.id = m.id /\ m.req = "YS" THEN 1 ELSE 0)

CountedTurn(s) ==
    \E r \in Others(s), m \in Message : \E Q :
        /\ Handles(s, m) /\ m.req \in Answers
        /\ Replies(s, r) = <<m>> \o Replies(s, r)'
        /\ \A t \in Servers : SameFresh(t)
        /\ \A t, u \in Servers : SameAsked(t, u) /\ (~(t = s /\ u = r) => SameReplies(t, u))
        /\ Counts(inProgress[s], m.id, Q) /\ YesCounts(inProgress[s], m, Q)
        /\ \/ /\ inProgress' = [inProgress EXCEPT ![s] = Q]
              /\ ServersQuiet /\ SilentMail
           \/ /\ inProgress' = [inProgress EXCEPT ![s] = Tail(Q)]
              /\ Q # << >> /\ Q[1].yes + Q[1].no = NumServers - 1
              /\ \/ Q[1].yes # 0 /\ ServersQuiet /\ SilentMail
                 \/ Q[1].yes = 0 /\ ServersQuiet /\ Mailed(m.client, Reply(ErrorCode))
                 \/ /\ Q[1].yes = 0 /\ SilentMail
                    /\ \E y \in Message :
                          Copy(y, Q[1].msg) /\ y.from = Hdl(s) /\ ServerGets(s, y)

LEMMA Copies ==
    ASSUME NEW m \in Message, NEW b \in Ids
    PROVE  /\ Copy([m EXCEPT !.from = b], m) /\ [m EXCEPT !.from = b].from = b
           /\ [m EXCEPT !.from = b].req = m.req
  BY DEF Message, Copy, Key

LEMMA HandlerPosts ==
    ASSUME Shape, NEW s \in Servers, mail[Hdl(s)] # << >>, NEW out, Exchange(Hdl(s), out),
           out[Hdl(s)] = << >>
    PROVE  /\ mail'[Hdl(s)] = Tail(mail[Hdl(s)])
           /\ \A r \in Servers \ {s} :
                 /\ out[Hdl(r)] = << >> => mail'[Hdl(r)] = mail[Hdl(r)]
                 /\ \A y : out[Hdl(r)] = <<y>> => mail'[Hdl(r)] = Append(mail[Hdl(r)], y)
           /\ \A r \in Servers :
                 /\ out[Srv(r)] = << >> => mail'[Srv(r)] = mail[Srv(r)]
                 /\ \A y : out[Srv(r)] = <<y>> => mail'[Srv(r)] = Append(mail[Srv(r)], y)
  <1>1. \A r \in Servers : mail[Srv(r)] \in Seq(Message) /\ mail[Hdl(r)] \in Seq(Message)
    BY MailTyped
  <1>2. Tail(mail[Hdl(s)]) \in Seq(Message)
    BY <1>1
  <1>3. /\ mail'[Hdl(s)] = Tail(mail[Hdl(s)]) \o out[Hdl(s)]
        /\ \A r \in Servers \ {s} : mail'[Hdl(r)] = mail[Hdl(r)] \o out[Hdl(r)]
        /\ \A r \in Servers : mail'[Srv(r)] = mail[Srv(r)] \o out[Srv(r)]
    BY HandlerExchange
  <1>4. \A q \in Seq(Message) : q \o << >> = q /\ \A y : q \o <<y>> = Append(q, y)
    BY Concat
  <1>5. mail'[Hdl(s)] = Tail(mail[Hdl(s)])
    BY <1>2, <1>3, <1>4
  <1>6. ASSUME NEW r \in Servers \ {s}
        PROVE  /\ out[Hdl(r)] = << >> => mail'[Hdl(r)] = mail[Hdl(r)]
               /\ \A y : out[Hdl(r)] = <<y>> => mail'[Hdl(r)] = Append(mail[Hdl(r)], y)
    <2>1. mail'[Hdl(r)] = mail[Hdl(r)] \o out[Hdl(r)] /\ mail[Hdl(r)] \in Seq(Message)
      BY <1>1, <1>3
    <2> QED
      BY <1>4, <2>1, Zenon
  <1>7. ASSUME NEW r \in Servers
        PROVE  /\ out[Srv(r)] = << >> => mail'[Srv(r)] = mail[Srv(r)]
               /\ \A y : out[Srv(r)] = <<y>> => mail'[Srv(r)] = Append(mail[Srv(r)], y)
    <2>1. mail'[Srv(r)] = mail[Srv(r)] \o out[Srv(r)] /\ mail[Srv(r)] \in Seq(Message)
      BY <1>1, <1>3
    <2> QED
      BY <1>4, <2>1, Zenon
  <1> QED
    BY <1>5, <1>6, <1>7

LEMMA RelayedTurns ==
    ASSUME Shape, SmallMail, NEW s \in Servers, Relay(s), NumServers # 1
    PROVE  RelayedTurn(s)
  <1>1. PICK m \in Message : Handles(s, m)
    BY HeadHandled DEF Relay
  <1>2. m.from = Srv(s) /\ m \in Passed /\ m \in OwnMail(s) /\ mail[Hdl(s)] # << >>
    BY <1>1, BoxNames DEF Relay, Handles, ToHandler, Passed, OwnMail
  <1> DEFINE x == [m EXCEPT !.from = Hdl(s)]
             out == [b \in Boxes |-> IF \E r \in Servers \ {s} : b = Hdl(r) THEN <<x>> ELSE << >>]
  <1>3. Copy(x, m) /\ x.from = Hdl(s) /\ x.req = m.req
    BY Copies, BoxNames
  <1>4. Exchange(Hdl(s), out)
    BY <1>1 DEF Relay, Handles
  <1>5. inProgress' = [inProgress EXCEPT ![s] = Append(@, [msg |-> m, yes |-> 0, no |-> 0])]
    BY <1>1 DEF Relay, Relayed, Handles
  <1> HIDE DEF x
  <1>6. /\ out[Hdl(s)] = << >> /\ \A r \in Servers \ {s} : out[Hdl(r)] = <<x>>
        /\ \A r \in Servers : out[Srv(r)] = << >>
        /\ \A d \in Clients : out[d] = << >>
    BY BoxNames
  <1> HIDE DEF out
  <1>7. /\ mail'[Hdl(s)] = Tail(mail[Hdl(s)])
        /\ \A r \in Servers \ {s} : mail'[Hdl(r)] = Append(mail[Hdl(r)], x)
        /\ ServersQuiet
    BY <1>2, <1>4, <1>6, HandlerPosts DEF ServersQuiet
  <1>8. SilentMail
    BY <1>4, <1>6, ClientsGet, BoxNames DEF SilentMail
  <1>9. /\ Fresh(s) = <<m>> \o Fresh(s)'
        /\ \A t \in Servers \ {s} : SameFresh(t)
        /\ \A t, r \in Servers : SameReplies(t, r)
        /\ \A r \in Servers \ {s} : Asked(s, r)' = Append(Asked(s, r), x)
        /\ \A t \in Servers \ {s}, r \in Servers : SameAsked(t, r)
    BY <1>1, <1>2, <1>3, <1>7, RelayQueues DEF Copy
  <1> QED
    BY <1>1, <1>2, <1>3, <1>5, <1>7, <1>8, <1>9 DEF RelayedTurn, Others, Copy

LEMMA BackTurns ==
    ASSUME IInv, SmallMail, NEW s \in Servers, Relay(s), NumServers = 1
    PROVE  BackTurn(s)
  <1>1. PICK m \in Message : Handles(s, m)
    BY HeadHandled DEF Relay, IInv
  <1>2. m.from = Srv(s) /\ m \in Passed /\ m \in OwnMail(s) /\ mail[Hdl(s)] # << >> /\ Shape
    BY <1>1, BoxNames DEF Relay, Handles, ToHandler, Passed, OwnMail, IInv
  <1>3. Others(s) = {} /\ inProgress = [r \in Servers |-> inProgress[r]]
    BY OthersCount DEF IInv, Shape
  <1>4. inProgress[s] = << >>
    BY <1>3 DEF IInv, Pipeline, Pipe, HeadWaits
  <1>5. Relayed(s)[s] = <<[msg |-> m, yes |-> 0, no |-> 0]>>
    BY <1>1, <1>3, <1>4 DEF Relayed, Handles
  <1>6. Head(Relayed(s)[s]).msg = m /\ Tail(Relayed(s)[s]) = << >>
    BY <1>5
  <1>7. inProgress' = inProgress
    BY <1>3, <1>4, <1>6 DEF Relay
  <1> DEFINE y == [m EXCEPT !.from = Hdl(s)]
             out == To(Srv(s), y)
  <1>8. Copy(y, m) /\ y.from = Hdl(s)
    BY Copies, BoxNames
  <1>9. Exchange(Hdl(s), out)
    BY <1>6 DEF Relay
  <1> HIDE DEF y
  <1>10. /\ \A r \in Servers : out[Hdl(r)] = << >> /\ (r # s => out[Srv(r)] = << >>)
         /\ out[Srv(s)] = <<y>> /\ \A d \in Clients : out[d] = << >>
    BY BoxNames DEF To, Nothing
  <1> HIDE DEF out
  <1>11. mail'[Hdl(s)] = Tail(mail[Hdl(s)]) /\ ServerGets(s, y)
    BY <1>2, <1>9, <1>10, HandlerPosts DEF ServerGets
  <1>12. SilentMail
    BY <1>9, <1>10, ClientsGet, BoxNames DEF SilentMail
  <1>13. Fresh(s) = <<m>> \o Fresh(s)'
    <2>1. mail[Hdl(s)] \in Seq(Message) /\ m = Head(mail[Hdl(s)])
      BY <1>1, <1>2, MailTyped DEF Handles
    <2>2. m \in OwnMail(s) =>
              Filter(mail[Hdl(s)], OwnMail(s)) = <<m>> \o Filter(mail'[Hdl(s)], OwnMail(s))
      BY <1>2, <1>11, <2>1, HandlerLoses
    <2> QED
      BY <1>2, <2>2 DEF Fresh
  <1> QED
    BY <1>1, <1>3, <1>7, <1>8, <1>11, <1>12, <1>13 DEF BackTurn, Copy

LEMMA AskedTurns ==
    ASSUME Shape, SmallMail, NEW r \in Servers, Ask(r)
    PROVE  \E s \in Servers \ {r} : AskedTurn(r, s)
  <1>1. PICK m \in Message : Handles(r, m)
    BY HeadHandled DEF Ask
  <1>2. m.from # Srv(r) /\ m.req \notin Answers /\ mail[Hdl(r)] # << >>
    BY <1>1 DEF Ask, Handles, Answers
  <1>3. PICK s \in Servers \ {r} : m.from = Hdl(s)
    BY <1>1, <1>2 DEF Handles, ToHandler
  <1>4. m.req \in PlainCalls
    BY <1>1, <1>2 DEF Handles, ToHandler
  <1> DEFINE Y(q) == [m EXCEPT !.req = q, !.from = Hdl(r)]
             z == [m EXCEPT !.from = Hdl(r)]
  <1>5. Copy(z, m) /\ z.from = Hdl(r)
    BY Copies, BoxNames
  <1>6. ASSUME NEW q \in Answers
        PROVE  /\ Y(q) \in Message /\ Y(q).from = Hdl(r) /\ Y(q).req = q
               /\ Y(q).id = m.id /\ Y(q).client = m.client
    <2>1. Hdl(r) \in Ids
      BY BoxNames
    <2> QED
      BY <2>1 DEF Message, Answers
  <1>7. /\ "YS" \in Answers /\ "NO" \in Answers
        /\ \/ Owns(r, m) /\ Exchange(Hdl(r), To(Srv(r), z) ++ To(Hdl(s), Y("YS")))
           \/ ~Owns(r, m) /\ Exchange(Hdl(r), To(Hdl(s), Y("NO")))
        /\ inProgress' = inProgress
    BY <1>1, <1>3 DEF Ask, Handles, Answers
  <1> HIDE DEF Y, z
  <1>8. ASSUME NEW y \in Message, y.from = Hdl(r), y.req \in Answers,
               mail'[Hdl(r)] = Tail(mail[Hdl(r)]), mail'[Hdl(s)] = Append(mail[Hdl(s)], y),
               \A t \in Servers \ {r, s} : mail'[Hdl(t)] = mail[Hdl(t)]
        PROVE  /\ Asked(s, r) = <<m>> \o Asked(s, r)'
               /\ Replies(s, r)' = Append(Replies(s, r), y)
               /\ \A t \in Servers : SameFresh(t)
               /\ \A t, u \in Servers : ~(t = s /\ u = r) => SameReplies(t, u) /\ SameAsked(t, u)
    BY <1>1, <1>2, <1>3, <1>8, AskQueues
  <1>9. CASE Owns(r, m) /\ Exchange(Hdl(r), To(Srv(r), z) ++ To(Hdl(s), Y("YS")))
    <2> DEFINE y == Y("YS")
    <2>0. y \in Message /\ y.from = Hdl(r) /\ y.req = "YS" /\ y.id = m.id /\ y.client = m.client
      BY <1>6, <1>7
    <2> DEFINE out == To(Srv(r), z) ++ To(Hdl(s), y)
    <2>6. Exchange(Hdl(r), out)
      BY <1>9
    <2> HIDE DEF y
    <2>1. /\ \A t \in Servers : /\ To(Srv(r), z)[Hdl(t)] = << >>
                                /\ To(Hdl(s), y)[Srv(t)] = << >>
                                /\ To(Hdl(s), y)[Hdl(t)] = IF t = s THEN <<y>> ELSE << >>
                                /\ t # r => To(Srv(r), z)[Srv(t)] = << >>
          /\ To(Srv(r), z)[Srv(r)] = <<z>>
          /\ \A d \in Clients : To(Srv(r), z)[d] = << >> /\ To(Hdl(s), y)[d] = << >>
      BY BoxNames DEF To, Nothing
    <2>2. \A b \in Boxes : out[b] = To(Srv(r), z)[b] \o To(Hdl(s), y)[b]
      BY DEF ++
    <2> HIDE DEF out
    <2>3. << >> \o << >> = << >> /\ << >> \o <<y>> = <<y>> /\ <<z>> \o << >> = <<z>>
      OBVIOUS
    <2>4. \A t \in Servers : out[Hdl(t)] = IF t = s THEN <<y>> ELSE << >>
      BY <2>1, <2>2, <2>3, BoxNames, Zenon
    <2>5. /\ \A t \in Servers \ {r} : out[Srv(t)] = << >>
          /\ out[Srv(r)] = <<z>> /\ \A d \in Clients : out[d] = << >>
      BY <2>1, <2>2, <2>3, BoxNames, Zenon
    <2>7. /\ mail'[Hdl(r)] = Tail(mail[Hdl(r)]) /\ mail'[Hdl(s)] = Append(mail[Hdl(s)], y)
          /\ \A t \in Servers \ {r, s} : mail'[Hdl(t)] = mail[Hdl(t)]
          /\ ServerGets(r, z)
      <3>1. out[Hdl(r)] = << >> /\ out[Hdl(s)] = <<y>>
            /\ \A t \in Servers \ {r, s} : out[Hdl(t)] = << >>
        BY <2>4
      <3>2. /\ mail'[Hdl(r)] = Tail(mail[Hdl(r)])
            /\ \A t \in Servers \ {r} :
                  /\ out[Hdl(t)] = << >> => mail'[Hdl(t)] = mail[Hdl(t)]
                  /\ \A x : out[Hdl(t)] = <<x>> => mail'[Hdl(t)] = Append(mail[Hdl(t)], x)
            /\ \A t \in Servers :
                  /\ out[Srv(t)] = << >> => mail'[Srv(t)] = mail[Srv(t)]
                  /\ \A x : out[Srv(t)] = <<x>> => mail'[Srv(t)] = Append(mail[Srv(t)], x)
        BY <1>2, <2>6, <3>1, HandlerPosts
      <3> QED
        BY <2>5, <3>1, <3>2 DEF ServerGets
    <2>8. SilentMail
      BY <2>5, <2>6, ClientsGet, BoxNames DEF SilentMail
    <2>9. AskedTurn(r, s)
      BY <1>1, <1>4, <1>5, <1>7, <1>8, <1>9, <2>0, <2>7, <2>8 DEF AskedTurn, Copy
    <2> QED
      BY <2>9
  <1>10. CASE ~Owns(r, m) /\ Exchange(Hdl(r), To(Hdl(s), Y("NO")))
    <2> DEFINE y == Y("NO")
               out == To(Hdl(s), y)
    <2>0. y \in Message /\ y.from = Hdl(r) /\ y.req = "NO" /\ y.id = m.id /\ y.client = m.client
      BY <1>6, <1>7
    <2>1. Exchange(Hdl(r), out)
      BY <1>10
    <2> HIDE DEF y
    <2>2. /\ \A t \in Servers : /\ out[Hdl(t)] = IF t = s THEN <<y>> ELSE << >>
                                /\ out[Srv(t)] = << >>
          /\ \A d \in Clients : out[d] = << >>
      BY BoxNames DEF To, Nothing
    <2> HIDE DEF out
    <2>3. /\ mail'[Hdl(r)] = Tail(mail[Hdl(r)]) /\ mail'[Hdl(s)] = Append(mail[Hdl(s)], y)
          /\ \A t \in Servers \ {r, s} : mail'[Hdl(t)] = mail[Hdl(t)]
          /\ ServersQuiet
      BY <1>2, <2>1, <2>2, HandlerPosts DEF ServersQuiet
    <2>4. SilentMail
      BY <2>1, <2>2, ClientsGet, BoxNames DEF SilentMail
    <2>5. AskedTurn(r, s)
      BY <1>1, <1>4, <1>7, <1>8, <1>10, <2>0, <2>3, <2>4 DEF AskedTurn
    <2> QED
      BY <2>5
  <1> QED
    BY <1>7, <1>9, <1>10

LEMMA YesCounted ==
    ASSUME NEW P \in Seq(Entry), NEW m \in Message, NEW Q,
           Q = [i \in DOMAIN P |->
                   LET e == P[i]
                   IN  IF e.msg.id # m.id THEN e
                       ELSE IF m.req = "YS" THEN [e EXCEPT !.yes = @ + 1]
                       ELSE [e EXCEPT !.no = @ + 1]]
    PROVE  YesCounts(P, m, Q)
  <1>1. DOMAIN P = 1..Len(P) /\ Len(P) \in Nat /\ \A i \in 1..Len(P) : P[i] \in Entry
    OBVIOUS
  <1>2. ASSUME NEW i \in 1..Len(P)
        PROVE  Q[i].yes = P[i].yes + (IF P[i].msg.id = m.id /\ m.req = "YS" THEN 1 ELSE 0)
    <2> DEFINE e == P[i]
    <2>1. e \in Entry /\ e.yes \in Nat /\ e.yes + 0 = e.yes
      BY <1>1, EntryFields
    <2>2. Q[i] = IF e.msg.id # m.id THEN e
                 ELSE IF m.req = "YS" THEN [e EXCEPT !.yes = @ + 1]
                 ELSE [e EXCEPT !.no = @ + 1]
      BY <1>1
    <2> HIDE DEF e
    <2>3. CASE e.msg.id # m.id
      BY <2>1, <2>2, <2>3 DEF e
    <2>4. CASE e.msg.id = m.id /\ m.req = "YS"
      <3>1. Q[i] = [e EXCEPT !.yes = @ + 1]
        BY <2>2, <2>4
      <3>2. Q[i].yes = e.yes + 1
        BY <2>1, <3>1, EntryCounts
      <3> QED
        BY <2>4, <3>2 DEF e
    <2>5. CASE e.msg.id = m.id /\ m.req # "YS"
      <3>1. Q[i] = [e EXCEPT !.no = @ + 1]
        BY <2>2, <2>5
      <3>2. Q[i].yes = e.yes
        BY <2>1, <3>1, EntryCounts
      <3> QED
        BY <2>1, <2>5, <3>2 DEF e
    <2> QED
      BY <2>3, <2>4, <2>5
  <1> QED
    BY <1>2 DEF YesCounts

LEMMA CountedTurns ==
    ASSUME Shape, SmallMail, NEW s \in Servers, CountReply(s)
    PROVE  CountedTurn(s)
  <1>1. PICK m \in Message : Handles(s, m)
    BY HeadHandled DEF CountReply
  <1>2. m.from # Srv(s) /\ m.req \in Answers /\ mail[Hdl(s)] # << >> /\ m.client \in Clients
    BY <1>1 DEF CountReply, Handles, Answers
  <1>3. PICK r \in Servers \ {s} : m.from = Hdl(r)
    BY <1>1, <1>2 DEF Handles, ToHandler
  <1> DEFINE P == inProgress[s]
             Q == Counted(s, m)
  <1>4. P \in Seq(Entry)
    BY DEF Shape
  <1>5. Counts(P, m.id, Q) /\ YesCounts(P, m, Q)
    BY <1>2, <1>4, CountedCounts, YesCounted DEF Counted
  <1>6. Q \in Seq(Entry)
    BY <1>5 DEF Counts
  <1> HIDE DEF Q
  <1>7. Q # << >> => Head(Q) = Q[1] /\ Head(Q) \in Entry
    BY <1>6
  <1>8. \/ /\ Exchange(Hdl(s), Nothing)
           /\ inProgress' = [inProgress EXCEPT ![s] = Q]
        \/ /\ Q # << >> /\ Head(Q).yes + Head(Q).no = NumServers - 1
           /\ Exchange(Hdl(s), Verdict(s, Head(Q), m))
           /\ inProgress' = [inProgress EXCEPT ![s] = Tail(Q)]
    BY <1>1 DEF CountReply, Handles, Q
  <1>9. ASSUME mail'[Hdl(s)] = Tail(mail[Hdl(s)]),
               \A t \in Servers \ {s} : mail'[Hdl(t)] = mail[Hdl(t)]
        PROVE  /\ Replies(s, r) = <<m>> \o Replies(s, r)'
               /\ \A t \in Servers : SameFresh(t)
               /\ \A t, u \in Servers :
                     SameAsked(t, u) /\ (~(t = s /\ u = r) => SameReplies(t, u))
    BY <1>1, <1>2, <1>3, <1>9, CountQueues
  <1>10. ASSUME NEW out, Exchange(Hdl(s), out),
                \A t \in Servers : out[Hdl(t)] = << >>, \A t \in Servers : out[Srv(t)] = << >>
         PROVE  /\ mail'[Hdl(s)] = Tail(mail[Hdl(s)]) /\ ServersQuiet
                /\ \A t \in Servers \ {s} : mail'[Hdl(t)] = mail[Hdl(t)]
    BY <1>2, <1>10, HandlerPosts DEF ServersQuiet
  <1>11. ASSUME Exchange(Hdl(s), Nothing)
         PROVE  /\ mail'[Hdl(s)] = Tail(mail[Hdl(s)]) /\ ServersQuiet /\ SilentMail
                /\ \A t \in Servers \ {s} : mail'[Hdl(t)] = mail[Hdl(t)]
    <2>1. \A t \in Servers : Nothing[Hdl(t)] = << >> /\ Nothing[Srv(t)] = << >>
      BY BoxNames DEF Nothing
    <2> QED
      BY <1>10, <1>11, <2>1, NothingMail, BoxNames
  <1>12. CASE Exchange(Hdl(s), Nothing) /\ inProgress' = [inProgress EXCEPT ![s] = Q]
    BY <1>1, <1>2, <1>3, <1>5, <1>9, <1>11, <1>12 DEF CountedTurn, Others
  <1>13. CASE /\ Q # << >> /\ Head(Q).yes + Head(Q).no = NumServers - 1
              /\ Exchange(Hdl(s), Verdict(s, Head(Q), m))
              /\ inProgress' = [inProgress EXCEPT ![s] = Tail(Q)]
    <2>1. PICK e \in Entry : e = Q[1] /\ e = Head(Q)
      BY <1>7, <1>13
    <2>2. e.msg \in Message
      BY EntryFields
    <2>3. CASE e.yes # 0
      <3>1. Exchange(Hdl(s), Nothing)
        BY <1>13, <2>1, <2>3 DEF Verdict
      <3>2. /\ mail'[Hdl(s)] = Tail(mail[Hdl(s)]) /\ ServersQuiet /\ SilentMail
            /\ \A t \in Servers \ {s} : mail'[Hdl(t)] = mail[Hdl(t)]
        BY <1>11, <3>1
      <3>3. /\ Replies(s, r) = <<m>> \o Replies(s, r)'
            /\ \A t \in Servers : SameFresh(t)
            /\ \A t, u \in Servers :
                  SameAsked(t, u) /\ (~(t = s /\ u = r) => SameReplies(t, u))
        BY <1>9, <3>2
      <3>4. r \in Others(s) /\ Q # << >> /\ Q[1].yes + Q[1].no = NumServers - 1 /\ Q[1].yes # 0
        BY <1>3, <1>13, <2>1, <2>3 DEF Others
      <3> QED
        BY <1>1, <1>2, <1>5, <1>13, <3>2, <3>3, <3>4, Zenon DEF CountedTurn
    <2>4. CASE e.yes = 0 /\ InBox9(m.client)
      <3> DEFINE out == To(m.client, Reply(ErrorCode))
      <3>1. Exchange(Hdl(s), out)
        BY <1>13, <2>1, <2>4 DEF Verdict
      <3>2. \A t \in Servers : out[Hdl(t)] = << >> /\ out[Srv(t)] = << >>
        BY <1>2, BoxNames DEF To, Nothing
      <3>3. Mailed(m.client, Reply(ErrorCode))
        BY <1>2, <3>1, PostMail, BoxNames
      <3> HIDE DEF out
      <3>4. /\ mail'[Hdl(s)] = Tail(mail[Hdl(s)]) /\ ServersQuiet
            /\ \A t \in Servers \ {s} : mail'[Hdl(t)] = mail[Hdl(t)]
        BY <1>10, <3>1, <3>2
      <3> QED
        BY <1>1, <1>2, <1>3, <1>5, <1>9, <1>13, <2>1, <2>4, <3>3, <3>4 DEF CountedTurn, Others
    <2>5. CASE e.yes = 0 /\ ~InBox9(m.client)
      <3> DEFINE y == [e.msg EXCEPT !.from = Hdl(s)]
                 out == To(Srv(s), y)
      <3>1. Exchange(Hdl(s), out)
        BY <1>13, <2>1, <2>5 DEF Verdict
      <3>2. Copy(y, e.msg) /\ y.from = Hdl(s)
        BY <2>2, Copies, BoxNames
      <3> HIDE DEF y
      <3>3. /\ \A t \in Servers : out[Hdl(t)] = << >> /\ (t # s => out[Srv(t)] = << >>)
            /\ out[Srv(s)] = <<y>> /\ \A d \in Clients : out[d] = << >>
        BY BoxNames DEF To, Nothing
      <3> HIDE DEF out
      <3>4. /\ mail'[Hdl(s)] = Tail(mail[Hdl(s)]) /\ ServerGets(s, y)
            /\ \A t \in Servers \ {s} : mail'[Hdl(t)] = mail[Hdl(t)]
        BY <1>2, <3>1, <3>3, HandlerPosts DEF ServerGets
      <3>5. SilentMail
        BY <3>1, <3>3, ClientsGet, BoxNames DEF SilentMail
      <3>6. y \in Message
        BY <3>2 DEF Copy
      <3> QED
        BY <1>1, <1>2, <1>3, <1>5, <1>9, <1>13, <2>1, <2>5, <3>2, <3>4, <3>5, <3>6
           DEF CountedTurn, Others
    <2> QED
      BY <2>3, <2>4, <2>5
  <1> QED
    BY <1>8, <1>12, <1>13

(* Calls and returns. *)
CalledTurn(c) ==
    \E s \in Servers, m \in Message :
        /\ request[c] = NoMsg /\ request' = [request EXCEPT ![c] = m]
        /\ m.req \in PlainCalls /\ m.client = Nobody /\ m.from = c /\ MayCreate(c, m)
        /\ ServerGets(s, m) /\ SilentMail
        /\ held' = [held EXCEPT ![c] = IF m.req = "RL" THEN @ \ {m.idx} ELSE @]

ReturnedTurn(c) ==
    /\ request[c] # NoMsg /\ mail[c] # << >> /\ request' = [request EXCEPT ![c] = NoMsg]
    /\ ServersQuiet
    /\ \A x : mail[c] = <<x>> => mail'[c] = << >>
    /\ \A d \in Clients \ {c} : mail'[d] = mail[d]
    /\ held' = [held EXCEPT ![c] =
                   IF Head(mail[c]).idx = ErrorCode \/ request[c].req # "AQ" THEN @
                   ELSE @ \cup {request[c].idx}]

HandlersQuiet == \A r \in Servers : mail'[Hdl(r)] = mail[Hdl(r)]

LEMMA RequestNames ==
    ASSUME NEW c, NEW m \in Requests(c)
    PROVE  MayCreate(c, m)
  <1>1. \A req, table : \A r \in On(req, c, table) : r.req = req
    BY DEF On, Default
  <1>2. \A req, names : \A r \in Naming(req, c, names) : r.req = req /\ r.name \in names
    BY DEF Naming, Default
  <1>3. ASSUME NEW R, NEW numbers, NEW req, \A r \in R : r.req = req, NEW q \in Second(R, numbers)
        PROVE  q.req = req
    <2>1. PICK r \in R, k \in numbers : q = [r EXCEPT !.idx2 = k]
      BY <1>3 DEF Second
    <2> QED
      BY <1>3, <2>1
  <1>4. CASE m \in CreateLock_Syscall(c) \cup CreateCondition_Syscall(c)
    BY <1>2, <1>4 DEF CreateLock_Syscall, CreateCondition_Syscall, MayCreate
  <1>5. CASE m \in DestroyLock_Syscall(c) \cup Acquire_Syscall(c) \cup Release_Syscall(c)
                   \cup DestroyCondition_Syscall(c) \cup DestroyMV_Syscall(c)
    <2>1. m.req \in {"DL", "AQ", "RL", "DC", "DM"}
      BY <1>1, <1>5 DEF DestroyLock_Syscall, Acquire_Syscall, Release_Syscall,
                        DestroyCondition_Syscall, DestroyMV_Syscall
    <2> QED
      BY <2>1 DEF MayCreate
  <1>6. CASE m \in CreateMV_Syscall(c)
    <2>1. PICK r \in Naming("CM", c, program.mvs[c]), k \in Sizes : m = [r EXCEPT !.idx2 = k]
      BY <1>6 DEF CreateMV_Syscall, Second
    <2>2. PICK n \in program.mvs[c] :
              r = [Default EXCEPT !.req = "CM", !.name = n, !.from = c]
      BY <2>1 DEF Naming
    <2>3. m.req = "CM" /\ m.name = n
      BY <2>1, <2>2 DEF Default
    <2> QED
      BY <2>2, <2>3 DEF MayCreate
  <1>7. CASE m \in GetMV_Syscall(c)
    <2>1. m.req = "GM"
      BY <1>1, <1>3, <1>7 DEF GetMV_Syscall
    <2> QED
      BY <2>1 DEF MayCreate
  <1>8. CASE m \in SetMV_Syscall(c)
    <2>1. PICK r \in Second(On("SM", c, mvTable), Cells), v \in Values : m = [r EXCEPT !.val = v]
      BY <1>8 DEF SetMV_Syscall
    <2>2. r.req = "SM"
      BY <1>1, <1>3, <2>1
    <2>3. m.req = "SM"
      BY <2>1, <2>2
    <2> QED
      BY <2>3 DEF MayCreate
  <1>9. CASE m \in Wait_Syscall(c)
    <2>1. m.req = "WT"
      BY <1>1, <1>3, <1>9 DEF Wait_Syscall
    <2> QED
      BY <2>1 DEF MayCreate
  <1>10. CASE m \in Signal_Syscall(c)
    <2>1. m.req = "SG"
      BY <1>1, <1>3, <1>10 DEF Signal_Syscall
    <2> QED
      BY <2>1 DEF MayCreate
  <1>11. CASE m \in Broadcast_Syscall(c)
    <2>1. m.req = "BC"
      BY <1>1, <1>3, <1>11 DEF Broadcast_Syscall
    <2> QED
      BY <2>1 DEF MayCreate
  <1> QED
    BY <1>4, <1>5, <1>6, <1>7, <1>8, <1>9, <1>10, <1>11 DEF Requests

LEMMA CalledTurns ==
    ASSUME Shape, NEW c \in Clients, Call(c)
    PROVE  CalledTurn(c) /\ HandlersQuiet /\ UNCHANGED <<tables, inProgress, program>>
  <1>1. PICK s \in Servers, m \in Requests(c) :
            /\ mail' = [mail EXCEPT ![Srv(s)] = Append(@, m)]
            /\ request' = [request EXCEPT ![c] = m]
            /\ held' = [held EXCEPT ![c] = IF m.req = "RL" THEN @ \ {m.idx}
                                           ELSE IF m.req = "WT" THEN @ \ {m.idx2} ELSE @]
    BY DEF Call
  <1>2. m \in Message /\ m.client = Nobody /\ m.from = c /\ m.req \in PlainCalls /\ MayCreate(c, m)
    BY RequestsTyped, RequestNames DEF Asks
  <1>3. m.req # "WT"
    BY <1>2 DEF PlainCalls, MonitorCalls
  <1>4. held' = [held EXCEPT ![c] = IF m.req = "RL" THEN @ \ {m.idx} ELSE @]
    BY <1>1, <1>3
  <1>5. mail = [b \in Boxes |-> mail[b]]
    BY DEF Shape
  <1>6. ServerGets(s, m) /\ SilentMail /\ HandlersQuiet
    BY <1>1, <1>5, BoxNames DEF ServerGets, SilentMail, HandlersQuiet
  <1> QED
    BY <1>1, <1>2, <1>4, <1>6 DEF CalledTurn, Call

LEMMA ReturnedTurns ==
    ASSUME Shape, SmallMail, NEW c \in Clients, Return(c), request[c].req \in PlainCalls
    PROVE  ReturnedTurn(c) /\ HandlersQuiet /\ UNCHANGED <<tables, inProgress, program>>
  <1>1. Exchange(c, Nothing)
    BY DEF Return
  <1>2. \A b \in Boxes : mail'[b] = (IF b = c THEN Tail(mail[b]) ELSE mail[b]) \o << >>
    <2>1. \A b \in Boxes : Nothing[b] = << >>
      BY DEF Nothing
    <2>2. \A b \in Boxes : mail'[b] = (IF b = c THEN Tail(mail[b]) ELSE mail[b]) \o Nothing[b]
      BY <1>1, ExchangeAt
    <2> QED
      BY <2>1, <2>2, Zenon
  <1>3. ServersQuiet /\ HandlersQuiet
    <2>1. \A r \in Servers : /\ mail'[Srv(r)] = mail[Srv(r)] \o << >>
                             /\ mail'[Hdl(r)] = mail[Hdl(r)] \o << >>
      BY <1>2, BoxNames
    <2> QED
      BY <2>1, MailTyped, Concat DEF ServersQuiet, HandlersQuiet
  <1>4. \A x : Tail(<<x>>) \o << >> = << >> /\ <<x>> \o << >> = <<x>> /\ << >> \o << >> = << >>
    OBVIOUS
  <1>5. \A d \in Clients \ {c} : mail'[d] = mail[d]
    <2>1. \A d \in Clients \ {c} : mail'[d] = mail[d] \o << >>
      BY <1>2, BoxNames
    <2> QED
      BY <1>4, <2>1 DEF SmallMail
  <1>6. \A x : mail[c] = <<x>> => mail'[c] = << >>
    BY <1>2, <1>4, BoxNames, Zenon
  <1>7. request[c].req # "WT" /\ request[c] # NoMsg /\ mail[c] # << >>
    BY DEF PlainCalls, MonitorCalls, Return
  <1>8. held' = [held EXCEPT ![c] =
                   IF Head(mail[c]).idx = ErrorCode THEN @
                   ELSE @ \cup (IF request[c].req = "AQ" THEN {request[c].idx} ELSE {})]
    BY <1>7 DEF Return
  <1>9. held' = [held EXCEPT ![c] =
                   IF Head(mail[c]).idx = ErrorCode \/ request[c].req # "AQ" THEN @
                   ELSE @ \cup {request[c].idx}]
    BY <1>8
  <1> QED
    BY <1>3, <1>5, <1>6, <1>7, <1>9 DEF ReturnedTurn, Return

-----------------------------------------------------------------------------
(* The IDs of what is under way. *)

(* What is asked and answered about are entries of the list, which have IDs  *)
(* of their own, and other IDs than the fresh requests.                      *)
IdsSound(s) ==
    /\ \A r \in Others(s) : \A x \in RangeOf(Asked(s, r)) \cup RangeOf(Replies(s, r)) :
          \E i \in 1..Len(inProgress[s]) : x.id = inProgress[s][i].msg.id
    /\ \A i, j \in 1..Len(inProgress[s]) :
          inProgress[s][i].msg.id = inProgress[s][j].msg.id => i = j
    /\ \A x \in RangeOf(Fresh(s)) : \A i \in 1..Len(inProgress[s]) : x.id # inProgress[s][i].msg.id

LEMMA RisingIds ==
    ASSUME NEW q \in Seq(Message), NEW n, Rising(q, n)
    PROVE  \A i, j \in 1..Len(q) : q[i].id = q[j].id => i = j
  <1> SUFFICES ASSUME NEW i \in 1..Len(q), NEW j \in 1..Len(q), q[i].id = q[j].id, i # j
               PROVE  FALSE
    OBVIOUS
  <1>1. q[i].id \in Int /\ q[j].id \in Int
    <2>1. q[i] \in Message /\ q[j] \in Message
      OBVIOUS
    <2> QED
      BY <2>1, Fields
  <1>2. i < j \/ j < i
    OBVIOUS
  <1>3. q[i].id < q[j].id \/ q[j].id < q[i].id
    BY <1>2 DEF Rising
  <1> QED
    BY <1>1, <1>3

LEMMA AlignedIds ==
    ASSUME NEW P \in Seq(Entry), NEW l \in Seq(Message), Aligned(P, l)
    PROVE  /\ \A i \in 1..Len(l) : \E j \in 1..Len(P) : l[i].id = P[j].msg.id
           /\ (\A i, j \in 1..Len(P) : P[i].msg.id = P[j].msg.id => i = j) =>
                 \A i, j \in 1..Len(l) : l[i].id = l[j].id => i = j
  <1>1. PICK k, p \in Nat : k = Len(l) /\ p = Len(P)
    OBVIOUS
  <1>2. k <= p /\ \A i \in 1..k : l[i].id = P[p - k + i].msg.id
    BY <1>1 DEF Aligned
  <1>3. \A i \in 1..k : p - k + i \in 1..p
    BY <1>1, <1>2
  <1>4. \A i \in 1..k : \E j \in 1..p : l[i].id = P[j].msg.id
    BY <1>2, <1>3
  <1>5. ASSUME \A i, j \in 1..p : P[i].msg.id = P[j].msg.id => i = j,
               NEW i \in 1..k, NEW j \in 1..k, l[i].id = l[j].id
        PROVE  i = j
    <2>1. p - k + i = p - k + j
      BY <1>2, <1>3, <1>5
    <2> QED
      BY <1>1, <2>1
  <1> QED
    BY <1>1, <1>4, <1>5

LEMMA ConcatRange ==
    ASSUME NEW q \in Seq(Message), NEW r \in Seq(Message)
    PROVE  /\ \A x \in RangeOf(q) \cup RangeOf(r) : \E i \in 1..Len(q \o r) : (q \o r)[i] = x
           /\ \A i \in 1..Len(q), j \in 1..Len(r) : \E k, l \in 1..Len(q \o r) :
                 k # l /\ (q \o r)[k] = q[i] /\ (q \o r)[l] = r[j]
  <1> DEFINE z == q \o r
             n == Len(q)
             k == Len(r)
  <1>1. n \in Nat /\ k \in Nat
    OBVIOUS
  <1>2. Len(z) = n + k /\ \A i \in 1..(n + k) : z[i] = IF i <= n THEN q[i] ELSE r[i - n]
    BY ConcatProperties
  <1> HIDE DEF z, n, k
  <1>3. \A i \in 1..n : i \in 1..(n + k) /\ z[i] = q[i]
    BY <1>1, <1>2
  <1>4. ASSUME NEW i \in 1..k
        PROVE  n + i \in 1..(n + k) /\ z[n + i] = r[i]
    <2>1. n + i \in 1..(n + k) /\ ~(n + i <= n) /\ (n + i) - n = i
      BY <1>1
    <2> QED
      BY <1>2, <2>1
  <1>5. \A x \in RangeOf(q) : \E i \in 1..n : q[i] = x
    BY RangeIndex DEF n
  <1>6. \A x \in RangeOf(r) : \E i \in 1..k : r[i] = x
    BY RangeIndex DEF k
  <1>7. \A x \in RangeOf(q) \cup RangeOf(r) : \E i \in 1..Len(z) : z[i] = x
    BY <1>2, <1>3, <1>4, <1>5, <1>6
  <1>8. \A i \in 1..n, j \in 1..k : i # n + j
    BY <1>1
  <1>9. \A i \in 1..n, j \in 1..k : \E a, b \in 1..Len(z) : a # b /\ z[a] = q[i] /\ z[b] = r[j]
    BY <1>2, <1>3, <1>4, <1>8
  <1> QED
    BY <1>7, <1>9 DEF z, n, k

LEMMA QueuesTyped ==
    ASSUME Shape, NEW s \in Servers
    PROVE  /\ Fresh(s) \in Seq(Message) /\ inProgress[s] \in Seq(Entry)
           /\ \A r \in Servers : /\ Asked(s, r) \in Seq(Message)
                                 /\ Replies(s, r) \in Seq(Message)
  BY MailTyped, FilterSeq DEF Fresh, Asked, Replies, Shape

LEMMA IdsAre ==
    ASSUME IInv, NEW s \in Servers
    PROVE  IdsSound(s)
  <1>1. PICK R, P, F, L, n :
            /\ R = Others(s) /\ P = inProgress[s] /\ F = Fresh(s) /\ L = Lines(s)
            /\ n = 100 * s + ider[s]
    OBVIOUS
  <1>2. Pipes(R, P, F, n, L) /\ Pipe(R, P, F, n, L) /\ Shape
    BY <1>1, PipesOf DEF IInv, Pipeline
  <1>3. P \in Seq(Entry) /\ F \in Seq(Message) /\ Msgs(P) \in Seq(Message)
        /\ Len(Msgs(P)) = Len(P) /\ \A i \in 1..Len(P) : Msgs(P)[i] = P[i].msg
    BY <1>2, MsgsOf DEF Pipes
  <1>4. Rising(Msgs(P) \o F, n) /\ Msgs(P) \o F \in Seq(Message)
    BY <1>2, <1>3 DEF Pipe
  <1>5. PICK q \in Seq(Message) : q = Msgs(P)
    BY <1>3
  <1>6. PICK z \in Seq(Message) : z = q \o F
    BY <1>4, <1>5
  <1>7. \A i, j \in 1..Len(z) : z[i].id = z[j].id => i = j
    BY <1>4, <1>5, <1>6, RisingIds
  <1>8. Rising(q, n)
    <2>1. Rising(q \o F, n) /\ q \in Seq(Message) /\ F \in Seq(Message)
      BY <1>3, <1>4, <1>5
    <2>2. \A i \in 1..Len(q) : i \in 1..Len(q \o F) /\ (q \o F)[i] = q[i]
      BY <2>1
    <2> QED
      BY <2>1, <2>2 DEF Rising
  <1>9. \A i, j \in 1..Len(P) : P[i].msg.id = P[j].msg.id => i = j
    BY <1>3, <1>5, <1>8, RisingIds
  <1>10. ASSUME NEW x \in RangeOf(F), NEW i \in 1..Len(P), x.id = P[i].msg.id
         PROVE  FALSE
    <2>1. PICK j \in 1..Len(F) : F[j] = x
      BY <1>3, RangeIndex
    <2>2. i \in 1..Len(q) /\ q[i] = P[i].msg
      BY <1>3, <1>5
    <2>3. PICK a, b \in 1..Len(z) : a # b /\ z[a] = q[i] /\ z[b] = F[j]
      <3>1. \A k \in 1..Len(q), l \in 1..Len(F) : \E a, b \in 1..Len(q \o F) :
                a # b /\ (q \o F)[a] = q[k] /\ (q \o F)[b] = F[l]
        BY <1>3, ConcatRange
      <3> QED
        BY <1>6, <2>1, <2>2, <3>1
    <2> QED
      BY <1>7, <1>10, <2>1, <2>2, <2>3
  <1>11. ASSUME NEW r \in Others(s), NEW x \in RangeOf(Asked(s, r)) \cup RangeOf(Replies(s, r))
         PROVE  \E i \in 1..Len(P) : x.id = P[i].msg.id
    <2>1. PICK a, b \in Seq(Message) : a = Replies(s, r) /\ b = Asked(s, r)
      BY <1>2, QueuesTyped DEF Others
    <2>2. L[r] = a \o b /\ a \o b \in Seq(Message)
      BY <1>1, <2>1 DEF Lines, Line
    <2>3. \A y \in RangeOf(a) \cup RangeOf(b) : \E i \in 1..Len(a \o b) : (a \o b)[i] = y
      <3>1. a \in Seq(Message) /\ b \in Seq(Message)
        BY <2>1
      <3> QED
        BY <3>1, ConcatRange
    <2>4. PICK l \in Seq(Message) : l = a \o b
      BY <2>2
    <2>5. PICK i \in 1..Len(l) : l[i] = x
      BY <1>11, <2>1, <2>3, <2>4
    <2>6. Aligned(P, l)
      BY <1>1, <1>2, <2>2, <2>4 DEF Pipe
    <2>7. \A j \in 1..Len(l) : \E k \in 1..Len(P) : l[j].id = P[k].msg.id
      BY <1>3, <2>6, AlignedIds
    <2> QED
      BY <2>5, <2>7
  <1> QED
    BY <1>1, <1>9, <1>10, <1>11 DEF IdsSound

(* Nothing else under way to r and back has the ID of what r looks at.       *)
LEMMA AskedOnce ==
    ASSUME IInv, NEW s \in Servers, NEW r \in Others(s), NEW m, NEW d \in Seq(Message),
           Asked(s, r) = <<m>> \o d, m \in Message
    PROVE  \A x \in RangeOf(d) : x.id # m.id
  <1>1. PICK P, L, F, n, a, b :
            /\ P = inProgress[s] /\ L = Lines(s) /\ F = Fresh(s) /\ n = 100 * s + ider[s]
            /\ a = Replies(s, r) /\ b = Asked(s, r)
    OBVIOUS
  <1>2. Pipes(Others(s), P, F, n, L) /\ Pipe(Others(s), P, F, n, L) /\ Shape
    BY <1>1, PipesOf DEF IInv, Pipeline
  <1>3. /\ \A i, j \in 1..Len(P) : P[i].msg.id = P[j].msg.id => i = j
        /\ P \in Seq(Entry)
    BY <1>1, <1>2, IdsAre DEF IdsSound, Pipes
  <1>4. a \in Seq(Message) /\ b \in Seq(Message)
    BY <1>1, <1>2, QueuesTyped DEF Others
  <1>5. L[r] = a \o b /\ Aligned(P, L[r])
    BY <1>1, <1>2 DEF Lines, Line, Pipe
  <1>6. PICK z \in Seq(Message) : z = a \o b /\ Aligned(P, z)
    <2>1. a \o b \in Seq(Message)
      BY <1>4
    <2> QED
      BY <1>5, <2>1
  <1>7. \A i, j \in 1..Len(z) : z[i].id = z[j].id => i = j
    BY <1>3, <1>6, AlignedIds
  <1> SUFFICES ASSUME NEW x \in RangeOf(d), x.id = m.id PROVE FALSE
    OBVIOUS
  <1>8. PICK j \in 1..Len(d) : d[j] = x
    BY RangeIndex
  <1>9. /\ b = <<m>> \o d /\ 1 \in 1..Len(b) /\ b[1] = m
        /\ j + 1 \in 1..Len(b) /\ b[j + 1] = x /\ j + 1 # 1
    BY <1>1, <1>8
  <1>10. /\ Len(a) + 1 \in 1..Len(z) /\ z[Len(a) + 1] = b[1]
         /\ Len(a) + (j + 1) \in 1..Len(z) /\ z[Len(a) + (j + 1)] = b[j + 1]
    <2>1. PICK k, l, i \in Nat : k = Len(a) /\ l = Len(b) /\ i = j + 1
      BY <1>4, <1>9
    <2>2. Len(z) = k + l /\ \A h \in 1..(k + l) : z[h] = IF h <= k THEN a[h] ELSE b[h - k]
      BY <1>4, <1>6, <2>1, ConcatProperties
    <2>3. /\ k + 1 \in 1..(k + l) /\ ~(k + 1 <= k) /\ (k + 1) - k = 1
          /\ k + i \in 1..(k + l) /\ ~(k + i <= k) /\ (k + i) - k = i
      BY <1>9, <2>1
    <2> QED
      BY <2>1, <2>2, <2>3
  <1>11. Len(a) + 1 = Len(a) + (j + 1)
    BY <1>7, <1>9, <1>10
  <1> QED
    BY <1>4, <1>8, <1>11

-----------------------------------------------------------------------------
(* A call moves from one place to another. *)

PlaceKinds == {"server", "handler", "list", "queue", "mailbox"}

(* The places of the kind k have what they have of a call of c that is at w. *)
Have(k, c, w) ==
    /\ k = "server"  => ServersHave(c, w)
    /\ k = "handler" => HandlersHave(c, w)
    /\ k = "list"    => ListsHave(c, w)
    /\ k = "queue"   => QueuesHave(c, w)
    /\ k = "mailbox" => MailboxHas(c, w)

(* In a step nothing changes for c there; its call leaves p; it comes to p. *)
Stays(k, c) == \A w \in Places : Have(k, c, w) => Have(k, c, w)'
Leaves(k, c, p) ==
    \A w \in Places : Have(k, c, w) => w = p /\ \A v \in Places : v[1] # k => Have(k, c, v)'
Enters(k, c, p) == \A w \in Places : Have(k, c, w) /\ w[1] # k => Have(k, c, p)'

LEMMA AllHave == \A c, w : At(c, w) <=> \A k \in PlaceKinds : Have(k, c, w)
  BY DEF At, Have, PlaceKinds

LEMMA AllHaveNext == \A c, w : (\A k \in PlaceKinds : Have(k, c, w)') => At(c, w)'
  BY DEF At, Have, PlaceKinds

LEMMA Outside ==
    \A k, w : w[1] # k => /\ Not(k, w)
                          /\ \A s : <<k, s>> # w
  BY DEF Not

LEMMA HaveOutside ==
    ASSUME NEW k \in PlaceKinds, NEW c, NEW w, NEW v, Have(k, c, w), w[1] # k, v[1] # k
    PROVE  Have(k, c, v)
  <1>1. Not(k, w) /\ Not(k, v)
    BY Outside
  <1>2. ASSUME NEW f, NEW S, NEW h, h = k, Family(f, S, h, w)
        PROVE  Family(f, S, h, v)
    BY <1>1, <1>2, FamilySame
  <1>3. k = "server" => Have(k, c, v)
    BY <1>2 DEF Have, ServersHave
  <1>4. k = "handler" => Have(k, c, v)
    BY <1>2 DEF Have, HandlersHave
  <1>5. k = "list" => Have(k, c, v)
    <2> SUFFICES ASSUME k = "list" PROVE Have(k, c, v)
      OBVIOUS
    <2>1. \A s \in Servers : (w = InList(s)) = FALSE /\ (v = InList(s)) = FALSE
      BY DEF InList
    <2>2. ListsHave(c, v)
      BY <2>1 DEF Have, ListsHave
    <2> QED
      BY <2>2 DEF Have
  <1>6. k = "queue" => Have(k, c, v)
    <2> SUFFICES ASSUME k = "queue" PROVE Have(k, c, v)
      OBVIOUS
    <2>1. \A s \in Servers, i \in Indexes :
              (w = InQueue(s, i)) = FALSE /\ (v = InQueue(s, i)) = FALSE
      BY DEF InQueue
    <2>2. QueuesHave(c, v)
      BY <2>1 DEF Have, QueuesHave
    <2> QED
      BY <2>2 DEF Have
  <1>7. k = "mailbox" => Have(k, c, v)
    <2> SUFFICES ASSUME k = "mailbox" PROVE Have(k, c, v)
      OBVIOUS
    <2>1. w # InMailbox /\ v # InMailbox
      BY DEF InMailbox
    <2>2. MailboxHas(c, v)
      BY <2>1 DEF Have, MailboxHas
    <2> QED
      BY <2>2 DEF Have
  <1> QED
    BY <1>3, <1>4, <1>5, <1>6, <1>7 DEF PlaceKinds

LEMMA PlacesAre ==
    /\ \A s \in Servers : AtServer(s) \in Places /\ AtHandler(s) \in Places /\ InList(s) \in Places
    /\ \A s \in Servers, i \in Indexes : InQueue(s, i) \in Places
    /\ InMailbox \in Places /\ Nowhere \in Places
    /\ \A s \in Servers : /\ AtServer(s)[1] = "server" /\ AtHandler(s)[1] = "handler"
                          /\ InList(s)[1] = "list"
    /\ \A s, i : InQueue(s, i)[1] = "queue"
    /\ InMailbox[1] = "mailbox" /\ Nowhere[1] = "nowhere"
    /\ "nowhere" \notin PlaceKinds
  BY DEF Places, AtServer, AtHandler, InList, InQueue, InMailbox, Nowhere, PlaceKinds

LEMMA PlacedKept ==
    ASSUME NEW c, Placed(c), \A k \in PlaceKinds : Stays(k, c), request'[c] = request[c]
    PROVE  Placed(c)'
  <1>1. PICK w \in Places : At(c, w) /\ (w = Nowhere <=> request[c] = NoMsg)
    BY DEF Placed
  <1>2. At(c, w)'
    BY <1>1, AllHave, AllHaveNext DEF Stays
  <1> QED
    BY <1>1, <1>2 DEF Placed

(* The call of c goes from p to q. *)
LEMMA PlacedMoves ==
    ASSUME NEW c, Placed(c), request'[c] = request[c], NEW p \in Places, NEW q \in Places,
           p[1] \in PlaceKinds, q[1] \in PlaceKinds, p[1] # q[1],
           Leaves(p[1], c, p), Enters(q[1], c, q),
           \A k \in PlaceKinds \ {p[1], q[1]} : Stays(k, c)
    PROVE  Placed(c)' /\ At(c, p)
  <1>1. PICK w \in Places : At(c, w) /\ (w = Nowhere <=> request[c] = NoMsg)
    BY DEF Placed
  <1>2. w = p
    BY <1>1, AllHave DEF Leaves
  <1>3. p # Nowhere /\ q # Nowhere
    BY PlacesAre
  <1>4. Have(p[1], c, q)'
    BY <1>1, AllHave DEF Leaves
  <1>5. Have(q[1], c, q)'
    BY <1>1, <1>2, AllHave DEF Enters
  <1>6. ASSUME NEW k \in PlaceKinds \ {p[1], q[1]}
        PROVE  Have(k, c, q)'
    <2>1. Have(k, c, q)
      BY <1>1, <1>2, AllHave, HaveOutside
    <2> QED
      BY <2>1 DEF Stays
  <1>7. At(c, q)'
    BY <1>4, <1>5, <1>6, AllHaveNext
  <1> QED
    BY <1>1, <1>2, <1>3, <1>7 DEF Placed

LEMMA PlacedCalls ==
    ASSUME NEW c, Placed(c), request[c] = NoMsg, request'[c] # NoMsg, NEW s \in Servers,
           Enters("server", c, AtServer(s)), \A k \in PlaceKinds \ {"server"} : Stays(k, c)
    PROVE  Placed(c)' /\ At(c, Nowhere)
  <1>1. PICK w \in Places : At(c, w) /\ w = Nowhere
    BY DEF Placed
  <1>2. AtServer(s) \in Places /\ AtServer(s)[1] = "server" /\ w[1] = "nowhere"
        /\ AtServer(s) # Nowhere /\ "nowhere" \notin PlaceKinds
    BY <1>1, PlacesAre
  <1>3. Have("server", c, AtServer(s))'
    BY <1>1, <1>2, AllHave DEF Enters, PlaceKinds
  <1>4. ASSUME NEW k \in PlaceKinds \ {"server"}
        PROVE  Have(k, c, AtServer(s))'
    <2>1. Have(k, c, AtServer(s))
      BY <1>1, <1>2, AllHave, HaveOutside
    <2> QED
      BY <1>2, <2>1 DEF Stays
  <1>5. At(c, AtServer(s))'
    BY <1>3, <1>4, AllHaveNext
  <1> QED
    BY <1>1, <1>2, <1>5 DEF Placed

LEMMA PlacedReturns ==
    ASSUME NEW c, Placed(c), request'[c] = NoMsg, Leaves("mailbox", c, InMailbox),
           \A k \in PlaceKinds \ {"mailbox"} : Stays(k, c)
    PROVE  Placed(c)' /\ At(c, InMailbox)
  <1>1. PICK w \in Places : At(c, w)
    BY DEF Placed
  <1>2. w = InMailbox /\ Have("mailbox", c, Nowhere)'
    BY <1>1, AllHave, PlacesAre DEF Leaves, PlaceKinds
  <1>3. ASSUME NEW k \in PlaceKinds \ {"mailbox"}
        PROVE  Have(k, c, Nowhere)'
    <2>1. Have(k, c, Nowhere)
      BY <1>1, <1>2, AllHave, HaveOutside, PlacesAre
    <2> QED
      BY <2>1, PlacesAre DEF Stays
  <1>4. At(c, Nowhere)'
    BY <1>2, <1>3, AllHaveNext
  <1> QED
    BY <1>1, <1>2, <1>4, PlacesAre DEF Placed

-----------------------------------------------------------------------------
(* What happens to the places of each kind. *)

LEMMA ServersStay ==
    ASSUME ServersQuiet
    PROVE  \A c : Stays("server", c)
  <1> SUFFICES ASSUME NEW c, NEW w, ServersHave(c, w)
               PROVE  ServersHave(c, w)'
    BY DEF Stays, Have
  <1>1. PICK f, g : /\ f = [s \in Servers |-> mail[Srv(s)]]
                    /\ g = [s \in Servers |-> mail'[Srv(s)]]
    OBVIOUS
  <1>2. Family(f, Of(c), "server", w) /\ \A s \in Servers : g[s] = f[s]
    BY <1>1 DEF ServersHave, ServersQuiet
  <1>3. Family(g, Of(c), "server", w)
    BY <1>2, FamilySame
  <1> QED
    BY <1>1, <1>3 DEF ServersHave, Family

LEMMA ServersGive ==
    ASSUME NEW s \in Servers, NEW m \in Message, mail'[Srv(s)] \in Seq(Message),
           mail[Srv(s)] = <<m>> \o mail'[Srv(s)],
           \A r \in Servers \ {s} : mail'[Srv(r)] = mail[Srv(r)]
    PROVE  /\ Leaves("server", Requester(m), AtServer(s))
           /\ \A c : c # Requester(m) => Stays("server", c)
  <1>1. PICK f, g : /\ f = [r \in Servers |-> mail[Srv(r)]]
                    /\ g = [r \in Servers |-> mail'[Srv(r)]]
    OBVIOUS
  <1>2. /\ g[s] \in Seq(Message) /\ f[s] = <<m>> \o g[s]
        /\ \A r \in Servers \ {s} : g[r] = f[r]
    BY <1>1
  <1>3. ASSUME NEW c, NEW w, ServersHave(c, w)
        PROVE  /\ m \notin Of(c) => ServersHave(c, w)'
               /\ m \in Of(c) => w = AtServer(s)
                                 /\ \A v : Not("server", v) => ServersHave(c, v)'
    <2>1. Family(f, Of(c), "server", w)
      BY <1>1, <1>3 DEF ServersHave
    <2>2. /\ m \notin Of(c) => Family(g, Of(c), "server", w)
          /\ m \in Of(c) => /\ w = <<"server", s>>
                            /\ \A v : Not("server", v) => Family(g, Of(c), "server", v)
      <3>1. PICK S, k : S = Of(c) /\ k = "server"
        OBVIOUS
      <3>2. Family(f, S, k, w)
        BY <2>1, <3>1
      <3>3. /\ m \notin S => Family(g, S, k, w)
            /\ m \in S => w = <<k, s>> /\ \A v : Not(k, v) => Family(g, S, k, v)
        BY <1>2, <3>2, FamilyLoses, ZenonT(60)
      <3> QED
        BY <3>1, <3>3
    <2>3. \A v : Family(g, Of(c), "server", v) => ServersHave(c, v)'
      BY <1>1 DEF ServersHave, Family
    <2> QED
      BY <2>2, <2>3 DEF AtServer
  <1>4. \A c : m \in Of(c) <=> c = Requester(m)
    BY DEF Of
  <1> QED
    BY <1>3, <1>4, Outside DEF Leaves, Stays, Have

LEMMA ServersLose ==
    ASSUME Shape, NEW s \in Servers, NEW m \in Message, mail[Srv(s)] # << >>,
           m = Head(mail[Srv(s)]), ServerTakes(s)
    PROVE  /\ Leaves("server", Requester(m), AtServer(s))
           /\ \A c : c # Requester(m) => Stays("server", c)
  <1>1. mail[Srv(s)] \in Seq(Message)
    BY MailTyped
  <1>2. mail[Srv(s)] = <<m>> \o Tail(mail[Srv(s)]) /\ Tail(mail[Srv(s)]) \in Seq(Message)
    BY <1>1, HeadAndTail
  <1>3. /\ mail'[Srv(s)] \in Seq(Message) /\ mail[Srv(s)] = <<m>> \o mail'[Srv(s)]
        /\ \A r \in Servers \ {s} : mail'[Srv(r)] = mail[Srv(r)]
    BY <1>2 DEF ServerTakes
  <1> QED
    BY <1>3, ServersGive

LEMMA ServersGet ==
    ASSUME Shape, NEW s \in Servers, NEW y \in Message, ServerGets(s, y)
    PROVE  /\ Enters("server", Requester(y), AtServer(s))
           /\ \A c : c # Requester(y) => Stays("server", c)
  <1>1. PICK f, g : /\ f = [r \in Servers |-> mail[Srv(r)]]
                    /\ g = [r \in Servers |-> mail'[Srv(r)]]
    OBVIOUS
  <1>2. /\ f[s] \in Seq(Message) /\ g[s] = Append(f[s], y)
        /\ \A r \in Servers \ {s} : g[r] = f[r]
    BY <1>1, MailTyped DEF ServerGets
  <1>3. ASSUME NEW c, NEW w, ServersHave(c, w)
        PROVE  /\ y \notin Of(c) => ServersHave(c, w)'
               /\ y \in Of(c) /\ Not("server", w) => ServersHave(c, AtServer(s))'
    <2>1. Family(f, Of(c), "server", w)
      BY <1>1, <1>3 DEF ServersHave
    <2>2. /\ y \notin Of(c) => Family(g, Of(c), "server", w)
          /\ y \in Of(c) /\ Not("server", w) => Family(g, Of(c), "server", <<"server", s>>)
      BY <1>2, <2>1, FamilyGets
    <2>3. \A v : Family(g, Of(c), "server", v) => ServersHave(c, v)'
      BY <1>1 DEF ServersHave, Family
    <2> QED
      BY <2>2, <2>3 DEF AtServer
  <1>4. \A c : y \in Of(c) <=> c = Requester(y)
    BY DEF Of
  <1> QED
    BY <1>3, <1>4, Outside DEF Enters, Stays, Have

LEMMA HandlersStay ==
    ASSUME \A s \in Servers : SameFresh(s)
    PROVE  \A c : Stays("handler", c)
  <1> SUFFICES ASSUME NEW c, NEW w, HandlersHave(c, w)
               PROVE  HandlersHave(c, w)'
    BY DEF Stays, Have
  <1>1. PICK f, g : /\ f = [s \in Servers |-> Fresh(s)]
                    /\ g = [s \in Servers |-> Fresh(s)']
    OBVIOUS
  <1>2. Family(f, For(c), "handler", w) /\ \A s \in Servers : g[s] = f[s]
    BY <1>1 DEF HandlersHave, SameFresh
  <1>3. Family(g, For(c), "handler", w)
    BY <1>2, FamilySame
  <1> QED
    BY <1>1, <1>3 DEF HandlersHave, Family

LEMMA HandlersLose ==
    ASSUME Shape', NEW s \in Servers, NEW m \in Message, Fresh(s) = <<m>> \o Fresh(s)',
           \A t \in Servers \ {s} : SameFresh(t)
    PROVE  /\ Leaves("handler", m.client, AtHandler(s))
           /\ \A c : c # m.client => Stays("handler", c)
  <1>1. PICK f, g : /\ f = [r \in Servers |-> Fresh(r)]
                    /\ g = [r \in Servers |-> Fresh(r)']
    OBVIOUS
  <1>2. /\ g[s] \in Seq(Message) /\ f[s] = <<m>> \o g[s]
        /\ \A r \in Servers \ {s} : g[r] = f[r]
    <2>1. mail'[Hdl(s)] \in Seq(Message)
      BY SeqWider DEF Shape, ToHandler
    <2>2. Fresh(s)' \in Seq(Message)
      BY <2>1, FilterSeq DEF Fresh
    <2> QED
      BY <1>1, <2>2 DEF SameFresh
  <1>3. ASSUME NEW c, NEW w, HandlersHave(c, w)
        PROVE  /\ m \notin For(c) => HandlersHave(c, w)'
               /\ m \in For(c) => w = AtHandler(s)
                                  /\ \A v : Not("handler", v) => HandlersHave(c, v)'
    <2>1. Family(f, For(c), "handler", w)
      BY <1>1, <1>3 DEF HandlersHave
    <2>2. /\ m \notin For(c) => Family(g, For(c), "handler", w)
          /\ m \in For(c) => /\ w = <<"handler", s>>
                             /\ \A v : Not("handler", v) => Family(g, For(c), "handler", v)
      <3>1. PICK S, k : S = For(c) /\ k = "handler"
        OBVIOUS
      <3>2. Family(f, S, k, w)
        BY <2>1, <3>1
      <3>3. /\ m \notin S => Family(g, S, k, w)
            /\ m \in S => w = <<k, s>> /\ \A v : Not(k, v) => Family(g, S, k, v)
        BY <1>2, <3>2, FamilyLoses
      <3> QED
        BY <3>1, <3>3
    <2>3. \A v : Family(g, For(c), "handler", v) => HandlersHave(c, v)'
      BY <1>1 DEF HandlersHave, Family
    <2> QED
      BY <2>2, <2>3 DEF AtHandler
  <1>4. \A c : m \in For(c) <=> c = m.client
    BY DEF For
  <1> QED
    BY <1>3, <1>4, Outside DEF Leaves, Stays, Have

LEMMA HandlersGet ==
    ASSUME Shape, NEW s \in Servers, NEW x \in Message, Fresh(s)' = Append(Fresh(s), x),
           \A t \in Servers \ {s} : SameFresh(t)
    PROVE  /\ Enters("handler", x.client, AtHandler(s))
           /\ \A c : c # x.client => Stays("handler", c)
  <1>1. PICK f, g : /\ f = [r \in Servers |-> Fresh(r)]
                    /\ g = [r \in Servers |-> Fresh(r)']
    OBVIOUS
  <1>2. /\ f[s] \in Seq(Message) /\ g[s] = Append(f[s], x)
        /\ \A r \in Servers \ {s} : g[r] = f[r]
    BY <1>1, QueuesTyped DEF SameFresh
  <1>3. ASSUME NEW c, NEW w, HandlersHave(c, w)
        PROVE  /\ x \notin For(c) => HandlersHave(c, w)'
               /\ x \in For(c) /\ Not("handler", w) => HandlersHave(c, AtHandler(s))'
    <2>1. Family(f, For(c), "handler", w)
      BY <1>1, <1>3 DEF HandlersHave
    <2>2. /\ x \notin For(c) => Family(g, For(c), "handler", w)
          /\ x \in For(c) /\ Not("handler", w) => Family(g, For(c), "handler", <<"handler", s>>)
      BY <1>2, <2>1, FamilyGets
    <2>3. \A v : Family(g, For(c), "handler", v) => HandlersHave(c, v)'
      BY <1>1 DEF HandlersHave, Family
    <2> QED
      BY <2>2, <2>3 DEF AtHandler
  <1>4. \A c : x \in For(c) <=> c = x.client
    BY DEF For
  <1> QED
    BY <1>3, <1>4, Outside DEF Enters, Stays, Have

-----------------------------------------------------------------------------
(* The queues of the locks. *)

Queue(s, i) == lockTable[s][i].queue

SameQueue(r, j) ==
    /\ j \in DOMAIN lockTable'[r] <=> j \in DOMAIN lockTable[r]
    /\ j \in DOMAIN lockTable[r] => Queue(r, j)' = Queue(r, j)

(* Only new locks come, that nobody queues for. *)
SameQueues ==
    \A s \in Servers, i \in Indexes :
        \/ SameQueue(s, i)
        \/ i \notin DOMAIN lockTable[s] /\ i \in DOMAIN lockTable'[s] /\ Queue(s, i)' = << >>

OtherQueues(s, i) ==
    /\ i \in DOMAIN lockTable[s] /\ i \in DOMAIN lockTable'[s]
    /\ \A r \in Servers, j \in Indexes : (r # s \/ j # i) => SameQueue(r, j)

LEMMA QueueHas ==
    ASSUME NEW s \in Servers, NEW i \in Indexes, i \in DOMAIN lockTable[s]
    PROVE  \A c, w : QueuesHave(c, w) => Has(Queue(s, i), {c}, w = InQueue(s, i))
  BY DEF QueuesHave, Queue

(* What the queue of the lock i has after the step. *)
QueueNext(s, i, c, w) ==
    \/ i \in DOMAIN lockTable'[s] /\ Has(Queue(s, i)', {c}, w = InQueue(s, i))
    \/ i \notin DOMAIN lockTable'[s] /\ w # InQueue(s, i)

LEMMA QueueHasNext ==
    ASSUME NEW c, NEW w, \A s \in Servers, i \in Indexes : QueueNext(s, i, c, w)
    PROVE  QueuesHave(c, w)'
  BY DEF QueuesHave, Queue, QueueNext

LEMMA QueueKept ==
    ASSUME NEW r \in Servers, NEW j \in Indexes, SameQueue(r, j), NEW c, NEW w, QueuesHave(c, w)
    PROVE  QueueNext(r, j, c, w)
  BY DEF QueuesHave, Queue, SameQueue, QueueNext

LEMMA QueuesStay ==
    ASSUME SameQueues
    PROVE  \A c : Stays("queue", c)
  <1> SUFFICES ASSUME NEW c, NEW w, QueuesHave(c, w)
               PROVE  QueuesHave(c, w)'
    BY DEF Stays, Have
  <1>1. ASSUME NEW s \in Servers, NEW i \in Indexes
        PROVE  QueueNext(s, i, c, w)
    <2>1. CASE SameQueue(s, i)
      BY <2>1, QueueKept
    <2>2. CASE i \notin DOMAIN lockTable[s] /\ i \in DOMAIN lockTable'[s] /\ Queue(s, i)' = << >>
      <3>1. (w = InQueue(s, i)) = FALSE
        BY <2>2 DEF QueuesHave
      <3>2. Has(<< >>, {c}, FALSE)
        BY HasEmpty
      <3> QED
        BY <2>2, <3>1, <3>2 DEF QueueNext
    <2> QED
      BY <2>1, <2>2 DEF SameQueues
  <1> QED
    BY <1>1, QueueHasNext

(* But for the queue of the lock i of s, w and v are the same. *)
ApartFrom(s, i, w, v) ==
    \A r \in Servers, j \in Indexes :
        (r # s \/ j # i) => (w = InQueue(r, j)) = (v = InQueue(r, j))

(* Where the queue of one lock has changed only. *)
LEMMA QueueChanges ==
    ASSUME NEW s \in Servers, NEW i \in Indexes, OtherQueues(s, i), NEW c, NEW w,
           QueuesHave(c, w), NEW v, QueueNext(s, i, c, v), ApartFrom(s, i, w, v)
    PROVE  QueuesHave(c, v)'
  <1>1. ASSUME NEW r \in Servers, NEW j \in Indexes
        PROVE  QueueNext(r, j, c, v)
    <2>1. CASE r = s /\ j = i
      BY <2>1
    <2>2. CASE r # s \/ j # i
      <3>1. SameQueue(r, j) /\ (w = InQueue(r, j)) = (v = InQueue(r, j))
        BY <2>2 DEF OtherQueues, ApartFrom
      <3>2. QueueNext(r, j, c, w)
        BY <3>1, QueueKept
      <3> QED
        BY <3>1, <3>2 DEF QueueNext
    <2> QED
      BY <2>1, <2>2
  <1>2. \A r \in Servers, j \in Indexes :
           QueueNext(r, j, c, v)
    BY <1>1
  <1> QED
    BY <1>2, QueueHasNext

LEMMA QueueLoses ==
    ASSUME NEW s \in Servers, NEW i \in Indexes, OtherQueues(s, i), NEW d \in Clients,
           Queue(s, i)' \in Seq(Clients), Queue(s, i) = <<d>> \o Queue(s, i)'
    PROVE  /\ Leaves("queue", d, InQueue(s, i))
           /\ \A c : c # d => Stays("queue", c)
  <1>1. PICK q, r : q = Queue(s, i) /\ r = Queue(s, i)'
    OBVIOUS
  <1>2. r \in Seq(Clients) /\ q = <<d>> \o r
    BY <1>1
  <1>3. ASSUME NEW c, NEW w, QueuesHave(c, w)
        PROVE  /\ c # d => QueuesHave(c, w)'
               /\ c = d => w = InQueue(s, i) /\ \A v \in Places : v[1] # "queue" => QueuesHave(c, v)'
    <2>1. PICK b, S : b = (w = InQueue(s, i)) /\ S = {c}
      OBVIOUS
    <2>2. Has(<<d>> \o r, S, b) /\ b \in BOOLEAN
      <3>1. Has(q, S, b)
        BY <1>1, <1>3, <2>1, QueueHas DEF OtherQueues
      <3> QED
        BY <1>2, <2>1, <3>1
    <2>3. /\ d \notin S => Has(r, S, b)
          /\ d \in S => b = TRUE /\ Has(r, S, FALSE)
      BY <1>2, <2>2, HasFirst, ZenonT(60)
    <2>4. ASSUME c # d
          PROVE  QueuesHave(c, w)'
      <3>1. QueueNext(s, i, c, w)
        BY <1>1, <2>1, <2>3, <2>4 DEF OtherQueues, QueueNext
      <3>2. ApartFrom(s, i, w, w)
        BY DEF ApartFrom
      <3> QED
        BY <1>3, <3>1, <3>2, QueueChanges
    <2>5. ASSUME c = d
          PROVE  /\ w = InQueue(s, i)
                 /\ \A v \in Places : v[1] # "queue" => QueuesHave(c, v)'
      <3>1. w = InQueue(s, i) /\ Has(Queue(s, i)', {c}, FALSE)
        BY <1>1, <2>1, <2>3, <2>5
      <3>2. ASSUME NEW v \in Places, v[1] # "queue"
            PROVE  QueuesHave(c, v)'
        <4>1. \A t, j : (v = InQueue(t, j)) = FALSE
          BY <3>2, PlacesAre
        <4>2. \A t \in Servers, j \in Indexes : (t # s \/ j # i) => (w = InQueue(t, j)) = FALSE
          BY <3>1, PlaceNames
        <4>3. QueueNext(s, i, c, v)
          BY <3>1, <4>1 DEF OtherQueues, QueueNext
        <4>4. ApartFrom(s, i, w, v)
          BY <4>1, <4>2 DEF ApartFrom
        <4> QED
          BY <1>3, <4>3, <4>4, QueueChanges
      <3> QED
        BY <3>1, <3>2
    <2> QED
      BY <2>4, <2>5
  <1> QED
    BY <1>3 DEF Leaves, Stays, Have

LEMMA QueueGets ==
    ASSUME NEW s \in Servers, NEW i \in Indexes, OtherQueues(s, i), NEW d \in Clients,
           Queue(s, i) \in Seq(Clients), Queue(s, i)' = Append(Queue(s, i), d)
    PROVE  /\ Enters("queue", d, InQueue(s, i))
           /\ \A c : c # d => Stays("queue", c)
  <1>1. PICK q, r : q = Queue(s, i) /\ r = Queue(s, i)'
    OBVIOUS
  <1>2. q \in Seq(Clients) /\ r = Append(q, d)
    BY <1>1
  <1>3. ASSUME NEW c, NEW w, QueuesHave(c, w)
        PROVE  /\ c # d => QueuesHave(c, w)'
               /\ c = d /\ w[1] # "queue" => QueuesHave(c, InQueue(s, i))'
    <2>1. PICK b, S : b = (w = InQueue(s, i)) /\ S = {c}
      OBVIOUS
    <2>2. Has(q, S, b) /\ b \in BOOLEAN
      BY <1>1, <1>3, <2>1, QueueHas DEF OtherQueues
    <2>3. /\ d \notin S => Has(Append(q, d), S, b)
          /\ d \in S /\ ~b => Has(Append(q, d), S, TRUE)
      BY <1>2, <2>2, HasAppend
    <2>4. ASSUME c # d
          PROVE  QueuesHave(c, w)'
      <3>1. QueueNext(s, i, c, w)
        BY <1>1, <1>2, <2>1, <2>3, <2>4 DEF OtherQueues, QueueNext
      <3>2. ApartFrom(s, i, w, w)
        BY DEF ApartFrom
      <3> QED
        BY <1>3, <3>1, <3>2, QueueChanges
    <2>5. ASSUME c = d, w[1] # "queue"
          PROVE  QueuesHave(c, InQueue(s, i))'
      <3>1. \A t, j : (w = InQueue(t, j)) = FALSE
        BY <2>5, PlacesAre
      <3>2. PICK v : v = InQueue(s, i)
        OBVIOUS
      <3>3. /\ \A t \in Servers, j \in Indexes : (t # s \/ j # i) => (v = InQueue(t, j)) = FALSE
            /\ (v = InQueue(s, i)) = TRUE
        BY <3>2, PlaceNames
      <3>4. Has(r, S, TRUE)
        <4>1. d \in S /\ ~b
          BY <2>1, <2>5, <3>1
        <4> QED
          BY <1>2, <2>3, <4>1
      <3>5. QueueNext(s, i, c, v)
        <4>1. Has(Queue(s, i)', {c}, v = InQueue(s, i))
          BY <1>1, <2>1, <3>3, <3>4
        <4> QED
          BY <4>1 DEF OtherQueues, QueueNext
      <3>6. ApartFrom(s, i, w, v)
        BY <3>1, <3>3 DEF ApartFrom
      <3>7. QueuesHave(c, v)'
        BY <1>3, <3>5, <3>6, QueueChanges
      <3> QED
        BY <3>2, <3>7
    <2> QED
      BY <2>4, <2>5
  <1> QED
    BY <1>3 DEF Enters, Stays, Have

-----------------------------------------------------------------------------
(* The clients' mailboxes. *)

LEMMA MailboxesStay ==
    ASSUME NEW c, mail'[c] = mail[c]
    PROVE  Stays("mailbox", c)
  BY DEF Stays, Have, MailboxHas

LEMMA MailboxGets ==
    ASSUME NEW c, NEW x, mail[c] = << >> => mail'[c] = <<x>>
    PROVE  Enters("mailbox", c, InMailbox)
  BY DEF Enters, Have, MailboxHas, InMailbox

LEMMA MailboxLoses ==
    ASSUME NEW c, mail[c] # << >>, \A x : mail[c] = <<x>> => mail'[c] = << >>
    PROVE  Leaves("mailbox", c, InMailbox)
  <1>1. ASSUME NEW w, MailboxHas(c, w)
        PROVE  w = InMailbox /\ mail'[c] = << >>
    BY <1>1 DEF MailboxHas
  <1>2. \A v : v[1] # "mailbox" => v # InMailbox
    BY DEF InMailbox
  <1> QED
    BY <1>1, <1>2 DEF Leaves, Have, MailboxHas

-----------------------------------------------------------------------------
(* The lists. *)

(* What a step does to what the list of s has of c: nothing; the one is     *)
(* gone; one comes.                                                         *)
ListStays(s, c) ==
    \A b \in BOOLEAN :
        Has(inProgress[s], OpenOf(s, c), b) => Has(inProgress'[s], OpenOf(s, c)', b)
ListLoses(s, c) ==
    \A b \in BOOLEAN :
        Has(inProgress[s], OpenOf(s, c), b) =>
            b = TRUE /\ Has(inProgress'[s], OpenOf(s, c)', FALSE)
ListGets(s, c) ==
    Has(inProgress[s], OpenOf(s, c), FALSE) => Has(inProgress'[s], OpenOf(s, c)', TRUE)

ListNow(s, c, b)  == Has(inProgress[s], OpenOf(s, c), b)
ListNext(s, c, b) == Has(inProgress'[s], OpenOf(s, c)', b)

LEMMA ListsAre ==
    \A c, w : ListsHave(c, w) <=> \A s \in Servers : ListNow(s, c, w = InList(s))
  BY DEF ListsHave, ListNow

LEMMA ListsNext ==
    ASSUME NEW c, NEW w, \A s \in Servers : ListNext(s, c, w = InList(s))
    PROVE  ListsHave(c, w)'
  BY DEF ListsHave, ListNext

LEMMA ListEffects ==
    \A s, c :
        /\ ListStays(s, c) => \A b \in BOOLEAN : ListNow(s, c, b) => ListNext(s, c, b)
        /\ ListLoses(s, c) => \A b \in BOOLEAN :
                                  ListNow(s, c, b) => b = TRUE /\ ListNext(s, c, FALSE)
        /\ ListGets(s, c) => (ListNow(s, c, FALSE) => ListNext(s, c, TRUE))
  BY DEF ListStays, ListLoses, ListGets, ListNow, ListNext

LEMMA ListsStay ==
    ASSUME NEW c, \A s \in Servers : ListStays(s, c)
    PROVE  Stays("list", c)
  <1> SUFFICES ASSUME NEW w, ListsHave(c, w)
               PROVE  ListsHave(c, w)'
    BY DEF Stays, Have
  <1>1. ASSUME NEW s \in Servers
        PROVE  ListNext(s, c, w = InList(s))
    <2>1. PICK b : b = (w = InList(s))
      OBVIOUS
    <2>2. b \in BOOLEAN /\ ListNow(s, c, b)
      BY <2>1, ListsAre
    <2>3. ListNext(s, c, b)
      BY <2>2, ListEffects
    <2> QED
      BY <2>1, <2>3
  <1> QED
    BY <1>1, ListsNext

LEMMA ListsLeave ==
    ASSUME NEW c, NEW s \in Servers, ListLoses(s, c), \A r \in Servers \ {s} : ListStays(r, c)
    PROVE  Leaves("list", c, InList(s))
  <1> SUFFICES ASSUME NEW w, ListsHave(c, w)
               PROVE  /\ w = InList(s)
                      /\ \A v \in Places : v[1] # "list" => ListsHave(c, v)'
    BY DEF Leaves, Have
  <1>1. \A r \in Servers : ListNow(r, c, w = InList(r))
    BY ListsAre
  <1>2. w = InList(s) /\ ListNext(s, c, FALSE)
    <2>1. PICK b : b = (w = InList(s))
      OBVIOUS
    <2>2. b \in BOOLEAN /\ ListNow(s, c, b)
      BY <1>1, <2>1
    <2>3. b = TRUE /\ ListNext(s, c, FALSE)
      BY <2>2, ListEffects
    <2> QED
      BY <2>1, <2>3
  <1>3. \A r \in Servers \ {s} : ListNext(r, c, FALSE)
    <2>1. ASSUME NEW r \in Servers \ {s}
          PROVE  ListNext(r, c, FALSE)
      <3>1. (w = InList(r)) = FALSE
        BY <1>2, <2>1, PlaceNames DEF InList
      <3>2. ListNow(r, c, FALSE)
        BY <1>1, <2>1, <3>1
      <3> QED
        BY <2>1, <3>2, ListEffects
    <2> QED
      BY <2>1
  <1>4. ASSUME NEW v \in Places, v[1] # "list"
        PROVE  ListsHave(c, v)'
    <2>1. \A r \in Servers : (v = InList(r)) = FALSE
      BY <1>4, PlacesAre
    <2>2. \A r \in Servers : ListNext(r, c, v = InList(r))
      BY <1>2, <1>3, <2>1
    <2> QED
      BY <2>2, ListsNext
  <1> QED
    BY <1>2, <1>4

LEMMA ListsEnter ==
    ASSUME NEW c, NEW s \in Servers, ListGets(s, c), \A r \in Servers \ {s} : ListStays(r, c)
    PROVE  Enters("list", c, InList(s))
  <1> SUFFICES ASSUME NEW w \in Places, w[1] # "list", ListsHave(c, w)
               PROVE  ListsHave(c, InList(s))'
    BY DEF Enters, Have
  <1>1. \A r \in Servers : ListNow(r, c, FALSE)
    <2>1. \A r \in Servers : (w = InList(r)) = FALSE
      BY PlacesAre
    <2>2. \A r \in Servers : ListNow(r, c, w = InList(r))
      BY ListsAre
    <2> QED
      BY <2>1, <2>2
  <1>2. ListNext(s, c, TRUE) /\ \A r \in Servers \ {s} : ListNext(r, c, FALSE)
    BY <1>1, ListEffects
  <1>3. PICK v : v = InList(s)
    OBVIOUS
  <1>4. (v = InList(s)) = TRUE /\ \A r \in Servers \ {s} : (v = InList(r)) = FALSE
    BY <1>3, PlaceNames DEF InList
  <1>5. \A r \in Servers : ListNext(r, c, v = InList(r))
    BY <1>2, <1>4
  <1>6. ListsHave(c, v)'
    BY <1>5, ListsNext
  <1> QED
    BY <1>3, <1>6

-----------------------------------------------------------------------------
(* Which requests are open. *)

(* The answers that s has are the same; also without m; or with y. *)
LEMMA SaidSame ==
    ASSUME NEW s, \A r \in Others(s) : SameReplies(s, r)
    PROVE  \A d : Said(s, d)' <=> Said(s, d)
  BY DEF Said, SameReplies, Others

LEMMA SaidMore ==
    ASSUME Shape, NEW s \in Servers, NEW r \in Others(s), NEW y \in Message,
           Replies(s, r)' = Append(Replies(s, r), y),
           \A t \in Others(s) \ {r} : SameReplies(s, t)
    PROVE  \A d : Said(s, d)' <=> Said(s, d) \/ (d = y.id /\ y.req = "YS")
  <1>1. Replies(s, r) \in Seq(Message)
    BY QueuesTyped DEF Others
  <1>2. RangeOf(Append(Replies(s, r), y)) = RangeOf(Replies(s, r)) \cup {y}
    BY <1>1, RangeAppend
  <1>3. RangeOf(Replies(s, r))' = RangeOf(Replies(s, r)) \cup {y}
    BY <1>2 DEF RangeOf
  <1>4. \A t \in Others(s) \ {r} : RangeOf(Replies(s, t))' = RangeOf(Replies(s, t))
    BY DEF SameReplies, RangeOf
  <1>5. \A d : Said(s, d)' <=> \E t \in Others(s) : \E m \in RangeOf(Replies(s, t))' :
                                  m.id = d /\ m.req = "YS"
    BY DEF Said, Others
  <1> QED
    BY <1>3, <1>4, <1>5 DEF Said

LEMMA SaidLess ==
    ASSUME Shape', NEW s \in Servers, NEW r \in Others(s), NEW m \in Message,
           Replies(s, r) = <<m>> \o Replies(s, r)',
           \A t \in Others(s) \ {r} : SameReplies(s, t)
    PROVE  \A d : Said(s, d) <=> Said(s, d)' \/ (d = m.id /\ m.req = "YS")
  <1>1. Replies(s, r)' \in Seq(Message)
    <2>1. mail'[Hdl(s)] \in Seq(Message)
      BY SeqWider DEF Shape, ToHandler
    <2> QED
      BY <2>1, FilterSeq DEF Replies
  <1>2. RangeOf(Replies(s, r)) = {m} \cup RangeOf(Replies(s, r))'
    <2>1. PICK q \in Seq(Message) : q = Replies(s, r)'
      BY <1>1
    <2>2. RangeOf(<<m>> \o q) = {m} \cup RangeOf(q)
      BY RangeFirst
    <2> QED
      BY <2>1, <2>2, ZenonT(60) DEF RangeOf
  <1>3. \A t \in Others(s) \ {r} : RangeOf(Replies(s, t))' = RangeOf(Replies(s, t))
    BY DEF SameReplies, RangeOf
  <1>4. \A d : Said(s, d)' <=> \E t \in Others(s) : \E x \in RangeOf(Replies(s, t))' :
                                  x.id = d /\ x.req = "YS"
    BY DEF Said, Others
  <1> QED
    BY <1>2, <1>3, <1>4 DEF Said

LEMMA OpenNext ==
    \A s, c : \A e : e \in OpenOf(s, c)' <=>
        e \in Entry /\ e.msg.client = c /\ e.yes = 0 /\ ~Said(s, e.msg.id)'
  BY DEF OpenOf, Open

LEMMA ListQuiet ==
    ASSUME NEW s, inProgress'[s] = inProgress[s], \A d : Said(s, d)' <=> Said(s, d)
    PROVE  \A c : ListStays(s, c)
  <1>1. \A c : OpenOf(s, c)' = OpenOf(s, c)
    BY OpenNext DEF OpenOf, Open
  <1> QED
    BY <1>1 DEF ListStays

LEMMA ListsQuiet ==
    ASSUME inProgress' = inProgress, \A s, r \in Servers : SameReplies(s, r)
    PROVE  \A c : Stays("list", c)
  <1>1. \A s \in Servers : \A c : ListStays(s, c)
    BY SaidSame, ListQuiet DEF Others
  <1> QED
    BY <1>1, ListsStay

LEMMA FreshFirst ==
    ASSUME Shape', NEW s \in Servers, NEW m \in Message, Fresh(s) = <<m>> \o Fresh(s)'
    PROVE  m \in RangeOf(Fresh(s)) /\ Fresh(s)' \in Seq(Message)
           /\ RangeOf(Fresh(s)) = {m} \cup RangeOf(Fresh(s)')
  <1>1. Fresh(s)' \in Seq(Message)
    <2>1. mail'[Hdl(s)] \in Seq(Message)
      BY SeqWider DEF Shape, ToHandler
    <2> QED
      BY <2>1, FilterSeq DEF Fresh
  <1>2. PICK q \in Seq(Message) : q = Fresh(s)'
    BY <1>1
  <1>3. RangeOf(<<m>> \o q) = {m} \cup RangeOf(q)
    BY RangeFirst
  <1> QED
    BY <1>1, <1>2, <1>3

(* A request is relayed. *)
LEMMA ListRelays ==
    ASSUME IInv, Shape', NEW s \in Servers, NEW m \in Passed, Fresh(s) = <<m>> \o Fresh(s)',
           \A t, r \in Servers : SameReplies(t, r),
           inProgress' = [inProgress EXCEPT ![s] = Append(@, [msg |-> m, yes |-> 0, no |-> 0])]
    PROVE  /\ ListGets(s, m.client) /\ \A c : c # m.client => ListStays(s, c)
           /\ \A t \in Servers \ {s} : \A c : ListStays(t, c)
           /\ [msg |-> m, yes |-> 0, no |-> 0] \in Entry /\ m \in Message
  <1>1. PICK e : e = [msg |-> m, yes |-> 0, no |-> 0]
    OBVIOUS
  <1>2. e \in Entry /\ e.msg = m /\ e.yes = 0 /\ m \in Message
    BY <1>1 DEF Entry, Passed
  <1>3. inProgress[s] \in Seq(Entry) /\ inProgress'[s] = Append(inProgress[s], e)
        /\ \A t \in Servers \ {s} : inProgress'[t] = inProgress[t]
    BY <1>1 DEF IInv, Shape
  <1>4. \A t \in Servers : \A d : Said(t, d)' <=> Said(t, d)
    BY SaidSame DEF Others
  <1>5. \A t \in Servers : \A c : OpenOf(t, c)' = OpenOf(t, c)
    BY <1>4, OpenNext DEF OpenOf, Open
  <1>6. ~Said(s, m.id)
    <2>1. m \in RangeOf(Fresh(s))
      BY <1>2, FreshFirst
    <2>2. IdsSound(s)
      BY IdsAre
    <2>3. ASSUME NEW r \in Others(s), NEW x \in RangeOf(Replies(s, r))
          PROVE  x.id # m.id
      <3>1. PICK i \in 1..Len(inProgress[s]) : x.id = inProgress[s][i].msg.id
        BY <2>2, <2>3 DEF IdsSound
      <3>2. m.id # inProgress[s][i].msg.id
        BY <2>1, <2>2 DEF IdsSound
      <3> QED
        BY <3>1, <3>2
    <2> QED
      BY <2>3 DEF Said
  <1>7. \A c : e \in OpenOf(s, c) <=> m.client = c
    BY <1>2, <1>6 DEF OpenOf, Open
  <1>8. PICK q : q = inProgress[s]
    OBVIOUS
  <1>9. ASSUME NEW c
        PROVE  /\ c # m.client => ListStays(s, c)
               /\ c = m.client => ListGets(s, c)
    <2>1. PICK S : S = OpenOf(s, c)
      OBVIOUS
    <2>2. q \in Seq(Entry) /\ (e \in S <=> m.client = c)
      BY <1>3, <1>7, <1>8, <2>1
    <2>3. ASSUME NEW b \in BOOLEAN, Has(q, S, b)
          PROVE  /\ e \notin S => Has(Append(q, e), S, b)
                 /\ e \in S /\ ~b => Has(Append(q, e), S, TRUE)
      BY <1>2, <2>2, <2>3, HasAppend
    <2>4. c # m.client => ListStays(s, c)
      BY <1>3, <1>5, <1>8, <2>1, <2>2, <2>3 DEF ListStays
    <2>5. c = m.client => ListGets(s, c)
      BY <1>3, <1>5, <1>8, <2>1, <2>2, <2>3 DEF ListGets
    <2> QED
      BY <2>4, <2>5
  <1>10. \A t \in Servers \ {s} : \A c : ListStays(t, c)
    BY <1>3, <1>4, ListQuiet
  <1> QED
    BY <1>1, <1>2, <1>9, <1>10

(* What a server has depends only on what is asked for. *)
LEMMA OwnsKey ==
    \A r, m, x : Key(x) = Key(m) => (Owns(r, x) <=> Owns(r, m))
  BY DEF Key, Owns

LEMMA AskedFirst ==
    ASSUME Shape', NEW s \in Servers, NEW r \in Servers, NEW m \in Message,
           Asked(s, r) = <<m>> \o Asked(s, r)'
    PROVE  /\ m \in RangeOf(Asked(s, r)) /\ Asked(s, r)' \in Seq(Message)
           /\ RangeOf(Asked(s, r)) = {m} \cup RangeOf(Asked(s, r)')
  <1>1. Asked(s, r)' \in Seq(Message)
    <2>1. mail'[Hdl(r)] \in Seq(Message)
      BY SeqWider DEF Shape, ToHandler
    <2> QED
      BY <2>1, FilterSeq DEF Asked
  <1>2. PICK q \in Seq(Message) : q = Asked(s, r)'
    BY <1>1
  <1>3. RangeOf(<<m>> \o q) = {m} \cup RangeOf(q)
    BY RangeFirst
  <1> QED
    BY <1>1, <1>2, <1>3

LEMMA RepliesFirst ==
    ASSUME Shape', NEW s \in Servers, NEW r \in Servers, NEW m \in Message,
           Replies(s, r) = <<m>> \o Replies(s, r)'
    PROVE  /\ m \in RangeOf(Replies(s, r)) /\ Replies(s, r)' \in Seq(Message)
           /\ RangeOf(Replies(s, r)) = {m} \cup RangeOf(Replies(s, r)')
  <1>1. Replies(s, r)' \in Seq(Message)
    <2>1. mail'[Hdl(s)] \in Seq(Message)
      BY SeqWider DEF Shape, ToHandler
    <2> QED
      BY <2>1, FilterSeq DEF Replies
  <1>2. PICK q \in Seq(Message) : q = Replies(s, r)'
    BY <1>1
  <1>3. RangeOf(<<m>> \o q) = {m} \cup RangeOf(q)
    BY RangeFirst
  <1> QED
    BY <1>1, <1>2, <1>3

(* The entry that s asks r about; nobody has taken it over if r is to.       *)
LEMMA EntryAsked ==
    ASSUME IInv, Core, NEW s \in Servers, NEW r \in Others(s), NEW m \in RangeOf(Asked(s, r))
    PROVE  \E i \in 1..Len(inProgress[s]) :
              LET e == inProgress[s][i]
              IN  /\ e \in Entry /\ e \in RangeOf(inProgress[s])
                  /\ m.id = e.msg.id /\ Key(m) = Key(e.msg) /\ m.client = e.msg.client
                  /\ \A j \in 1..Len(inProgress[s]) : inProgress[s][j].msg.id = m.id => j = i
                  /\ SingleOwner(s) /\ Owns(r, m) => Open(s, e)
  <1>1. IdsSound(s)
    BY IdsAre
  <1>2. PICK i \in 1..Len(inProgress[s]) : m.id = inProgress[s][i].msg.id
    BY <1>1 DEF IdsSound
  <1>3. PICK P, e : P = inProgress[s] /\ e = P[i]
    OBVIOUS
  <1>4. P \in Seq(Entry)
    BY <1>3 DEF IInv, Shape
  <1>5. e \in Entry /\ e \in RangeOf(P)
    BY <1>2, <1>3, <1>4, RangeIndex
  <1>6. AskedCopies(s, r, e)
    BY <1>3, <1>5 DEF Core, CopiesSound, LineCopies
  <1>7. Key(m) = Key(e.msg) /\ m.client = e.msg.client
    BY <1>2, <1>3, <1>6 DEF AskedCopies
  <1>8. \A j \in 1..Len(P) : P[j].msg.id = m.id => j = i
    BY <1>1, <1>2, <1>3 DEF IdsSound
  <1>9. ASSUME SingleOwner(s), Owns(r, m)
        PROVE  Open(s, e)
    <2> SUFFICES ASSUME ~Open(s, e) PROVE FALSE
      OBVIOUS
    <2>1. PICK t \in Others(s) : Closes(s, t, e)
      BY <1>3, <1>5 DEF Core, ClosedSound
    <2>2. Owns(t, e.msg) /\ Owns(r, e.msg)
      BY <1>7, <1>9, <2>1, OwnsKey DEF Closes
    <2>3. e.msg \in Message /\ e.msg.req \in PlainCalls
      BY <1>5 DEF Entry, Passed
    <2>4. t = r
      BY <1>9, <2>2, <2>3 DEF SingleOwner
    <2>5. Unheard(s, r, e.msg.id)
      BY <1>2, <1>3 DEF Unheard
    <2> QED
      BY <2>1, <2>4, <2>5 DEF Closes
  <1> QED
    BY <1>2, <1>3, <1>5, <1>7, <1>8, <1>9

(* A YES: the request is taken over. *)
LEMMA ListTaken ==
    ASSUME IInv, Core, NEW s \in Servers, SingleOwner(s), NEW r \in Others(s),
           NEW m \in RangeOf(Asked(s, r)), NEW y \in Message, y.id = m.id, y.req = "YS",
           Owns(r, m), Replies(s, r)' = Append(Replies(s, r), y),
           \A t \in Others(s) \ {r} : SameReplies(s, t), inProgress'[s] = inProgress[s]
    PROVE  ListLoses(s, m.client) /\ \A c : c # m.client => ListStays(s, c)
  <1>1. PICK P : P = inProgress[s]
    OBVIOUS
  <1>2. PICK i \in 1..Len(P) :
              /\ P[i] \in Entry /\ m.id = P[i].msg.id /\ m.client = P[i].msg.client
              /\ \A j \in 1..Len(P) : P[j].msg.id = m.id => j = i
              /\ Open(s, P[i])
    BY <1>1, EntryAsked
  <1>3. \A d : Said(s, d)' <=> Said(s, d) \/ d = m.id
    <2>1. \A d : Said(s, d)' <=> Said(s, d) \/ (d = y.id /\ y.req = "YS")
      BY SaidMore DEF IInv
    <2> QED
      BY <2>1
  <1>4. P \in Seq(Entry)
    BY <1>1 DEF IInv, Shape
  <1>5. ASSUME NEW c, NEW j \in 1..Len(P)
        PROVE  /\ P[j] \in OpenOf(s, c)' <=> P[j] \in OpenOf(s, c) /\ j # i
    <2>1. P[j].msg.id = m.id <=> j = i
      BY <1>2
    <2> QED
      BY <1>3, <2>1, OpenNext DEF OpenOf, Open
  <1>6. \A c : P[i] \in OpenOf(s, c) <=> c = m.client
    BY <1>2 DEF OpenOf
  <1>7. ASSUME NEW c, NEW b \in BOOLEAN, Has(P, OpenOf(s, c), b)
        PROVE  /\ c = m.client => b = TRUE /\ Has(P, OpenOf(s, c)', FALSE)
               /\ c # m.client => Has(P, OpenOf(s, c)', b)
    <2>1. PICK S, R : S = OpenOf(s, c) /\ R = OpenOf(s, c)'
      OBVIOUS
    <2>2. CASE c = m.client
      <3>1. Has(P, S, b) /\ P[i] \in S
        BY <1>6, <1>7, <2>1, <2>2
      <3>2. b /\ \A j \in 1..Len(P) : P[j] \in S => j = i
        BY <1>2, <3>1, HasOther
      <3>3. \A j \in 1..Len(P) : P[j] \notin R
        BY <1>5, <2>1, <3>2
      <3>4. Has(P, R, FALSE)
        BY <3>3 DEF Has, NoneOf
      <3> QED
        BY <2>1, <2>2, <3>2, <3>4
    <2>3. CASE c # m.client
      <3>1. \A j \in 1..Len(P) : P[j] \in R <=> P[j] \in S
        BY <1>5, <1>6, <2>1, <2>3
      <3>2. Has(P, S, b) /\ Len(P) = Len(P)
        BY <1>7, <2>1
      <3>3. Has(P, R, b)
        BY <3>1, <3>2 DEF Has, NoneOf, One
      <3> QED
        BY <2>1, <2>3, <3>3
    <2> QED
      BY <2>2, <2>3
  <1>8. \A c : c # m.client => ListStays(s, c)
    BY <1>1, <1>7 DEF ListStays
  <1>9. ListLoses(s, m.client)
    BY <1>1, <1>7 DEF ListLoses
  <1> QED
    BY <1>8, <1>9

-----------------------------------------------------------------------------
(* A reply is counted. *)

LEMMA IdsNext == (IInv => \A s \in Servers : IdsSound(s))'
  <1>1. IInv => \A s \in Servers : IdsSound(s)
    BY IdsAre
  <1> QED
    BY <1>1, PTL

(* The reply m of r leaves the line, and P becomes Q. *)
CountsReply(s, r, m, P, Q) ==
    /\ s \in Servers /\ r \in Others(s) /\ m \in Message
    /\ Replies(s, r) = <<m>> \o Replies(s, r)'
    /\ \A t \in Others(s) \ {r} : SameReplies(s, t)
    /\ P = inProgress[s] /\ P \in Seq(Entry) /\ Q \in Seq(Entry) /\ Len(Q) = Len(P)
    /\ \A i \in 1..Len(P) :
          /\ Q[i].msg = P[i].msg
          /\ Q[i].yes + Q[i].no = (P[i].yes + P[i].no) + (IF P[i].msg.id = m.id THEN 1 ELSE 0)
          /\ Q[i].yes = P[i].yes + (IF P[i].msg.id = m.id /\ m.req = "YS" THEN 1 ELSE 0)

LEMMA EntriesOpen ==
    ASSUME Shape', NEW s, NEW r, NEW m, NEW P, NEW Q, CountsReply(s, r, m, P, Q)
    PROVE  \A i \in 1..Len(P) : (Q[i].yes = 0 /\ ~Said(s, Q[i].msg.id)') <=> Open(s, P[i])
  <1>1. \A d : Said(s, d) <=> Said(s, d)' \/ (d = m.id /\ m.req = "YS")
    BY SaidLess DEF CountsReply
  <1>2. SUFFICES ASSUME NEW i \in 1..Len(P)
                 PROVE  (Q[i].yes = 0 /\ ~Said(s, Q[i].msg.id)') <=> Open(s, P[i])
    OBVIOUS
  <1>3. /\ Q[i].msg = P[i].msg /\ P[i].yes \in Nat
        /\ Q[i].yes = P[i].yes + (IF P[i].msg.id = m.id /\ m.req = "YS" THEN 1 ELSE 0)
    <2>1. P[i] \in Entry
      BY DEF CountsReply
    <2>2. P[i].yes \in Nat
      BY <2>1, EntryFields
    <2> QED
      BY <2>2 DEF CountsReply
  <1>4. CASE P[i].msg.id = m.id /\ m.req = "YS"
    <2>1. Q[i].yes # 0
      BY <1>3, <1>4
    <2>2. Said(s, P[i].msg.id)
      BY <1>1, <1>4
    <2> QED
      BY <2>1, <2>2 DEF Open
  <1>5. CASE ~(P[i].msg.id = m.id /\ m.req = "YS")
    <2>1. Q[i].yes = P[i].yes
      BY <1>3, <1>5
    <2>2. Said(s, P[i].msg.id)' <=> Said(s, P[i].msg.id)
      BY <1>1, <1>5
    <2> QED
      BY <1>3, <2>1, <2>2 DEF Open
  <1> QED
    BY <1>4, <1>5

LEMMA CountedHas ==
    ASSUME Shape', NEW s, NEW r, NEW m, NEW P, NEW Q, CountsReply(s, r, m, P, Q),
           NEW c, NEW b \in BOOLEAN, Has(P, OpenOf(s, c), b)
    PROVE  Has(Q, OpenOf(s, c)', b)
  <1>1. \A i \in 1..Len(P) : Q[i] \in OpenOf(s, c)' <=> P[i] \in OpenOf(s, c)
    <2>1. \A i \in 1..Len(P) : P[i] \in Entry /\ Q[i] \in Entry /\ Q[i].msg = P[i].msg
      <3>1. P \in Seq(Entry) /\ Q \in Seq(Entry) /\ Len(Q) = Len(P)
        BY DEF CountsReply
      <3>2. \A i \in 1..Len(P) : Q[i].msg = P[i].msg
        BY DEF CountsReply
      <3> QED
        BY <3>1, <3>2
    <2>2. \A i \in 1..Len(P) : (Q[i].yes = 0 /\ ~Said(s, Q[i].msg.id)') <=> Open(s, P[i])
      BY EntriesOpen
    <2>3. SUFFICES ASSUME NEW i \in 1..Len(P)
                   PROVE  Q[i] \in OpenOf(s, c)' <=> P[i] \in OpenOf(s, c)
      OBVIOUS
    <2>4. Q[i] \in OpenOf(s, c)' <=>
              Q[i] \in Entry /\ Q[i].msg.client = c /\ Q[i].yes = 0 /\ ~Said(s, Q[i].msg.id)'
      BY OpenNext
    <2>5. P[i] \in OpenOf(s, c) <=> P[i] \in Entry /\ P[i].msg.client = c /\ Open(s, P[i])
      BY DEF OpenOf
    <2> QED
      BY <2>1, <2>2, <2>4, <2>5
  <1>2. PICK S, R : S = OpenOf(s, c) /\ R = OpenOf(s, c)'
    OBVIOUS
  <1>3. Len(Q) = Len(P) /\ Has(P, S, b) /\ \A i \in 1..Len(P) : Q[i] \in R <=> P[i] \in S
    BY <1>1, <1>2 DEF CountsReply
  <1>4. Has(Q, R, b)
    BY <1>3, HasAlike
  <1> QED
    BY <1>2, <1>4

LEMMA ListCounts ==
    ASSUME Shape', NEW s, NEW r, NEW m, NEW P, NEW Q, CountsReply(s, r, m, P, Q),
           inProgress'[s] = Q
    PROVE  \A c : ListStays(s, c)
  <1>1. \A c : \A b \in BOOLEAN : Has(P, OpenOf(s, c), b) => Has(Q, OpenOf(s, c)', b)
    BY CountedHas
  <1>2. P = inProgress[s]
    BY DEF CountsReply
  <1> QED
    BY <1>1, <1>2 DEF ListStays

(* A request that is complete leaves the list. *)
LEMMA HeadGone ==
    ASSUME IInv, IInv', NEW s, NEW r, NEW m, NEW P, NEW Q, CountsReply(s, r, m, P, Q),
           Q # << >>, inProgress'[s] = Tail(Q)
    PROVE  ~Said(s, Q[1].msg.id)'
  <1>1. IdsSound(s) /\ IdsSound(s)' /\ s \in Servers
    BY IdsAre, IdsNext DEF CountsReply
  <1>2. PICK T, n : T = Tail(Q) /\ n = Len(Q)
    OBVIOUS
  <1>3. n \in Nat /\ n # 0 /\ Len(T) = n - 1 /\ \A i \in 1..(n - 1) : T[i] = Q[i + 1]
    BY <1>2 DEF CountsReply
  <1>4. \A i, j \in 1..n : Q[i].msg.id = Q[j].msg.id => i = j
    <2>1. /\ n = Len(P) /\ \A i \in 1..n : Q[i].msg = P[i].msg
          /\ P = inProgress[s]
      BY <1>2 DEF CountsReply
    <2>2. \A i, j \in 1..n : P[i].msg.id = P[j].msg.id => i = j
      BY <1>1, <2>1 DEF IdsSound
    <2> QED
      BY <2>1, <2>2
  <1>5. ASSUME NEW i \in 1..(n - 1)
        PROVE  Q[1].msg.id # T[i].msg.id
    <2>1. 1 \in 1..n /\ i + 1 \in 1..n /\ i + 1 # 1
      BY <1>3
    <2> QED
      BY <1>3, <1>4, <2>1
  <1>6. ASSUME NEW t \in Others(s), NEW x \in RangeOf(Replies(s, t))'
        PROVE  x.id # Q[1].msg.id
    <2>1. \A u \in Others(s) : \A y \in RangeOf(Asked(s, u))' \cup RangeOf(Replies(s, u))' :
              \E i \in 1..Len(inProgress'[s]) : y.id = inProgress'[s][i].msg.id
      BY <1>1 DEF IdsSound, Others
    <2>2. PICK i \in 1..Len(inProgress'[s]) : x.id = inProgress'[s][i].msg.id
      BY <1>6, <2>1
    <2> QED
      BY <1>2, <1>3, <1>5, <2>2
  <1>7. \A d : Said(s, d)' <=> \E t \in Others(s) : \E x \in RangeOf(Replies(s, t))' :
                                  x.id = d /\ x.req = "YS"
    BY DEF Said, Others
  <1> QED
    BY <1>6, <1>7

LEMMA ListDone ==
    ASSUME IInv, IInv', NEW s, NEW r, NEW m, NEW P, NEW Q, CountsReply(s, r, m, P, Q),
           Q # << >>, inProgress'[s] = Tail(Q)
    PROVE  /\ Q[1].yes # 0 => \A c : ListStays(s, c)
           /\ Q[1].yes = 0 => /\ ListLoses(s, Q[1].msg.client)
                              /\ \A c : c # Q[1].msg.client => ListStays(s, c)
  <1>1. ~Said(s, Q[1].msg.id)' /\ Q \in Seq(Entry) /\ Head(Q) = Q[1] /\ Q[1] \in Entry
    <2>1. Q \in Seq(Entry)
      BY DEF CountsReply
    <2>2. Head(Q) = Q[1] /\ Q[1] \in Entry
      BY <2>1
    <2> QED
      BY <2>1, <2>2, HeadGone
  <1>2. \A c : Head(Q) \in OpenOf(s, c)' <=> Q[1].yes = 0 /\ Q[1].msg.client = c
    BY <1>1, OpenNext
  <1>3. ASSUME NEW c, NEW b \in BOOLEAN, Has(inProgress[s], OpenOf(s, c), b)
        PROVE  /\ Head(Q) \notin OpenOf(s, c)' => Has(inProgress'[s], OpenOf(s, c)', b)
               /\ Head(Q) \in OpenOf(s, c)' =>
                    b = TRUE /\ Has(inProgress'[s], OpenOf(s, c)', FALSE)
    <2>1. PICK R : R = OpenOf(s, c)'
      OBVIOUS
    <2>2. Has(Q, R, b)
      <3>1. Has(P, OpenOf(s, c), b)
        BY <1>3 DEF CountsReply
      <3>2. Has(Q, OpenOf(s, c)', b)
        BY <3>1, CountedHas DEF IInv
      <3> QED
        BY <2>1, <3>2
    <2>3. /\ Head(Q) \notin R => Has(Tail(Q), R, b)
          /\ Head(Q) \in R => b = TRUE /\ Has(Tail(Q), R, FALSE)
      BY <1>1, <2>2, HasTail
    <2> QED
      BY <2>1, <2>3
  <1>4. \A c : Head(Q) \notin OpenOf(s, c)' => ListStays(s, c)
    BY <1>3 DEF ListStays
  <1>5. \A c : Head(Q) \in OpenOf(s, c)' => ListLoses(s, c)
    BY <1>3 DEF ListLoses
  <1> QED
    BY <1>2, <1>4, <1>5

(* The reply is about the request that it completes. *)
LEMMA HeadCounted ==
    ASSUME IInv, Shape', Core, NEW s, NEW r, NEW m, NEW P, NEW Q, CountsReply(s, r, m, P, Q),
           Q # << >>, Q[1].yes + Q[1].no = NumServers - 1
    PROVE  /\ m.id = Q[1].msg.id /\ m.client = Q[1].msg.client /\ Q[1].msg = P[1].msg
           /\ P[1] \in RangeOf(P) /\ P[1] \in Entry /\ 1 \in 1..Len(P)
  <1>1. 1 \in 1..Len(P) /\ P[1] \in RangeOf(P) /\ P[1] \in Entry
    BY DEF CountsReply, RangeOf
  <1>2. P[1].yes + P[1].no < NumServers - 1
    <2>1. Pipes(Others(s), P, Fresh(s), 100 * s + ider[s], Lines(s))
      BY PipesOf DEF IInv, CountsReply
    <2>2. Pipe(Others(s), P, Fresh(s), 100 * s + ider[s], Lines(s))
      BY DEF IInv, Pipeline, CountsReply
    <2>3. P[1].yes + P[1].no < Cardinality(Others(s))
      BY <1>1, <2>1, <2>2, PipeNotComplete
    <2> QED
      BY <2>3, OthersCount DEF CountsReply
  <1>3. /\ Q[1].msg = P[1].msg
        /\ Q[1].yes + Q[1].no = (P[1].yes + P[1].no) + (IF P[1].msg.id = m.id THEN 1 ELSE 0)
    BY <1>1 DEF CountsReply
  <1>4. P[1].yes \in Nat /\ P[1].no \in Nat
    BY <1>1, EntryFields
  <1>5. m.id = P[1].msg.id
    <2> SUFFICES ASSUME m.id # P[1].msg.id PROVE FALSE
      OBVIOUS
    <2>1. Q[1].yes + Q[1].no = (P[1].yes + P[1].no) + 0
      BY <1>3
    <2> QED
      BY <1>2, <1>4, <2>1
  <1>6. m \in RangeOf(Replies(s, r))
    BY RepliesFirst DEF CountsReply, Others
  <1>7. m.client = P[1].msg.client
    <2>1. AskedCopies(s, r, P[1])
      BY <1>1 DEF Core, CopiesSound, LineCopies, CountsReply
    <2> QED
      BY <1>5, <1>6, <2>1 DEF AskedCopies
  <1> QED
    BY <1>1, <1>3, <1>5, <1>7

=============================================================================
