-------------------------- MODULE PostOfficeProofs --------------------------
(***************************************************************************)
(* Theorems about PostOffice, for any number of machines, threads,         *)
(* mailboxes and messages.  The inductive invariant IInv has three parts   *)
(* that do not disturb each other: the sending side, the device's buffer   *)
(* and the mailboxes' lists.  A step that leaves a part alone is dealt     *)
(* with by the lemma <part>Frame.                                          *)
(***************************************************************************)
EXTENDS PostOffice, QueueTheorems, FiniteSetTheorems

USE PostOfficeAssumption

Sending == {"network", "messageSent", "sendUnlock"}
Listing == {"append", "remove", "unlock", "wait", "relock"}

(* Where each thread can be, and what it carries there. *)
StepsSound ==
    /\ \A u \in Users :
          /\ pc[u] \in {"idle", "remove", "wait", "relock", "unlock"} \cup Sending
          /\ pc[u] \in Sending => mail[u] \in Packet
          /\ pc[u] \in Listing => mail[u].box \in Boxes
    /\ \A m \in Machines :
          /\ pc[m] \in {"messageAvailable", "receive", "append", "unlock"}
          /\ pc[m] \in {"append", "unlock"} => mail[m] \in Packet

(* A list has mail for its own mailbox, and the threads on its condition     *)
(* wait for such mail.                                                       *)
ListsSound ==
    \A m \in Machines, b \in Boxes :
        /\ \A i \in 1..Len(list[m][b]) : list[m][b][i].box = b
        /\ \A w \in listEmpty[m][b] : pc[w] = "wait" /\ mail[w].box = b /\ Home[w] = m

SendInv == SendLockSound /\ OnePacketAtATime
ListInv == ListLockSound /\ ListsSound

IInv == TypeOK /\ StepsSound /\ SendInv /\ BufferSound /\ ListInv

-----------------------------------------------------------------------------
(* Lemmas *)

LEMMA PacketFields ==
    /\ \A x \in Packet : x.box \in Boxes /\ x.to \in Machines
    /\ \A u \in Users, b \in Boxes : Asked(u, b) \in Request /\ Asked(u, b).box = b
  BY DEF Packet, Request, Asked

LEMMA HomeIsMachine == \A u \in Users : Home[u] \in Machines /\ Place(u) = Home[u]
  BY DEF Place

LEMMA PlaceIsMachine ==
    /\ \A m \in Machines : Place(m) = m
    /\ \A t \in Threads : Place(t) \in Machines
  BY DEF Place, Threads

(* Assignment to one mailbox's entry of a per-machine table. *)
LEMMA BoxUpdate ==
    ASSUME NEW S, NEW f \in [Machines -> [Boxes -> S]],
           NEW m \in Machines, NEW b \in Boxes, NEW v \in S,
           NEW g, g = [f EXCEPT ![m][b] = v]
    PROVE  /\ g \in [Machines -> [Boxes -> S]]
           /\ g[m][b] = v
           /\ \A n \in Machines, c \in Boxes : n # m \/ c # b => g[n][c] = f[n][c]
  <1>1. f[m] \in [Boxes -> S]
    OBVIOUS
  <1>2. [f[m] EXCEPT ![b] = v] \in [Boxes -> S]
    BY <1>1
  <1>3. g = [f EXCEPT ![m] = [f[m] EXCEPT ![b] = v]]
    OBVIOUS
  <1> QED
    BY <1>1, <1>2, <1>3

(* The head of a queue keeps its place when somebody joins. *)
LEMMA OwnerStays ==
    ASSUME NEW S, NEW q \in Seq(S), NEW t \in S, NEW u \in S, Owns(q, u)
    PROVE  Owns(Append(q, t), u)
  BY DEF Owns

(* One thread owns a lock. *)
LEMMA OneOwner ==
    ASSUME NEW q, NEW t, NEW u, Owns(q, t), Owns(q, u)
    PROVE  t = u
  BY DEF Owns

(* The mail of one mailbox stays so when mail for it comes, or leaves. *)
LEMMA MailAppend ==
    ASSUME NEW q \in Seq(Packet), NEW x \in Packet, NEW b, x.box = b,
           \A i \in 1..Len(q) : q[i].box = b
    PROVE  Append(q, x) \in Seq(Packet) /\ \A i \in 1..Len(Append(q, x)) : Append(q, x)[i].box = b
  <1>1. /\ Append(q, x) \in Seq(Packet)
        /\ Len(Append(q, x)) = Len(q) + 1 /\ Len(q) \in Nat
        /\ \A i \in 1..Len(q) : Append(q, x)[i] = q[i]
        /\ Append(q, x)[Len(q) + 1] = x
    OBVIOUS
  <1> QED
    BY <1>1

LEMMA MailTail ==
    ASSUME NEW q \in Seq(Packet), NEW b, q # << >>, \A i \in 1..Len(q) : q[i].box = b
    PROVE  /\ Head(q) \in Packet /\ Head(q).box = b
           /\ Tail(q) \in Seq(Packet) /\ \A i \in 1..Len(Tail(q)) : Tail(q)[i].box = b
  <1>1. /\ Tail(q) \in Seq(Packet)
        /\ Len(Tail(q)) = Len(q) - 1 /\ Len(q) \in Nat /\ Len(q) >= 1
        /\ \A i \in 1..Len(Tail(q)) : Tail(q)[i] = q[i + 1]
        /\ Head(q) = q[1] /\ q[1] \in Packet
    OBVIOUS
  <1> QED
    BY <1>1

LEMMA SendFrame ==
    ASSUME SendInv, UNCHANGED <<sendLock, sendDone, messageSent>>,
           \A u \in Users : pc'[u] = pc[u] \/ (pc[u] \notin Sending /\ pc'[u] \notin Sending)
    PROVE  SendInv'
  BY DEF SendInv, SendLockSound, OnePacketAtATime, Sending

LEMMA BufferFrame ==
    ASSUME BufferSound, UNCHANGED <<inHdr, messageAvailable>>,
           \A m \in Machines : pc'[m] = "receive" <=> pc[m] = "receive"
    PROVE  BufferSound'
  BY DEF BufferSound

LEMMA ListFrame ==
    ASSUME TypeOK, ListInv, UNCHANGED boxVars,
           \A t \in Threads : \/ pc'[t] = pc[t] /\ mail'[t] = mail[t]
                              \/ pc[t] \notin Listing /\ pc'[t] \notin Listing
    PROVE  ListInv'
  <1> USE DEF boxVars, Listing
  <1>1. \A t \in Threads, m \in Machines, b \in Boxes :
            /\ Inside(t, m, b)' <=> Inside(t, m, b)
            /\ Inside(t, m, b) => pc'[t] = pc[t]
    BY DEF Inside, Place
  <1>2. ListLockSound'
    BY <1>1 DEF ListInv, ListLockSound, Owns
  <1>3. ListsSound'
    BY DEF ListInv, ListsSound, TypeOK, Threads
  <1> QED
    BY <1>2, <1>3 DEF ListInv

Enters(t, m, b) == lock' = [lock EXCEPT ![m][b] = Append(@, t)]

(* A thread enters a list: it joins the queue of the lock. *)
LEMMA LockEnter ==
    ASSUME TypeOK, ListInv, NEW t \in Threads, NEW m \in Machines, NEW b \in Boxes,
           \A n \in Machines, c \in Boxes : ~Inside(t, n, c),
           Enters(t, m, b),
           \A n \in Machines, c \in Boxes : Inside(t, n, c)' <=> n = m /\ c = b,
           pc'[t] # "unlock",
           \A u \in Threads \ {t} : pc'[u] = pc[u] /\ mail'[u] = mail[u]
    PROVE  lock' \in [Machines -> [Boxes -> Seq(Threads)]] /\ ListLockSound'
  <1> DEFINE q == lock[m][b]
  <1>1. q \in Seq(Threads) /\ ~Queued(q, t) /\ Distinct(q)
    BY DEF ListInv, ListLockSound, TypeOK
  <1>2. /\ Append(q, t) \in Seq(Threads)
        /\ \A u \in Threads : Queued(Append(q, t), u) <=> Queued(q, u) \/ u = t
        /\ Distinct(Append(q, t))
    BY <1>1, QueueAppend
  <1>3. lock' = [lock EXCEPT ![m][b] = Append(q, t)]
    BY DEF Enters
  <1>4. /\ lock' \in [Machines -> [Boxes -> Seq(Threads)]]
        /\ lock'[m][b] = Append(q, t)
        /\ \A n \in Machines, c \in Boxes : n # m \/ c # b => lock'[n][c] = lock[n][c]
    <2>1. lock \in [Machines -> [Boxes -> Seq(Threads)]]
      BY DEF TypeOK
    <2> QED
      BY <2>1, <1>2, <1>3, BoxUpdate
  <1>5. \A u \in Threads \ {t}, n \in Machines, c \in Boxes :
            Inside(u, n, c)' <=> Inside(u, n, c)
    BY DEF Inside, Place
  <1>6. \A u \in Threads : Owns(q, u) => Owns(Append(q, t), u)
    BY <1>1, OwnerStays
  <1>7. ASSUME NEW n \in Machines, NEW c \in Boxes
        PROVE  /\ Distinct(lock'[n][c])
               /\ \A u \in Threads :
                     /\ Queued(lock'[n][c], u) <=> Inside(u, n, c)'
                     /\ Inside(u, n, c)' /\ pc'[u] = "unlock" => Owns(lock'[n][c], u)
    <2>1. CASE n = m /\ c = b
      <3>1. lock'[n][c] = Append(q, t)
        BY <2>1, <1>4
      <3>2. \A u \in Threads : /\ Queued(q, u) <=> Inside(u, n, c)
                               /\ Inside(u, n, c) /\ pc[u] = "unlock" => Owns(q, u)
        BY <2>1 DEF ListInv, ListLockSound
      <3>3. \A u \in Threads \ {t} : (Inside(u, n, c)' <=> Inside(u, n, c)) /\ pc'[u] = pc[u]
        BY <1>5
      <3>4. \A u \in Threads : Queued(lock'[n][c], u) <=> Inside(u, n, c)'
        BY <2>1, <1>2, <3>1, <3>2, <3>3
      <3>5. \A u \in Threads \ {t} :
                Inside(u, n, c)' /\ pc'[u] = "unlock" => Owns(lock'[n][c], u)
        BY <1>6, <3>1, <3>2, <3>3
      <3>6. Distinct(lock'[n][c])
        BY <1>2, <3>1
      <3> QED
        BY <3>4, <3>5, <3>6
    <2>2. CASE n # m \/ c # b
      <3>1. lock'[n][c] = lock[n][c]
        BY <2>2, <1>4
      <3>2. ~Inside(t, n, c) /\ ~Inside(t, n, c)'
        BY <2>2
      <3>3. \A u \in Threads : Inside(u, n, c)' <=> Inside(u, n, c)
        BY <3>2, <1>5
      <3>4. \A u \in Threads : Inside(u, n, c)' => pc'[u] = pc[u]
        BY <3>2
      <3> QED
        BY <3>1, <3>3, <3>4 DEF ListInv, ListLockSound
    <2> QED
      BY <2>1, <2>2
  <1> QED
    BY <1>4, <1>7 DEF ListLockSound

(* Who waits for mail goes on waiting. *)
LEMMA ListsFrame ==
    ASSUME TypeOK, ListsSound, UNCHANGED <<list, listEmpty>>,
           \A w \in Users : pc[w] = "wait" => pc'[w] = "wait" /\ mail'[w].box = mail[w].box
    PROVE  ListsSound'
  <1>1. \A n \in Machines, c \in Boxes : listEmpty[n][c] \subseteq Users
    BY DEF TypeOK
  <1> QED
    BY <1>1 DEF ListsSound

(* The owner leaves a list: it hands the lock over. *)
LEMMA LockLeave ==
    ASSUME TypeOK, ListInv, NEW t \in Threads, NEW m \in Machines, NEW b \in Boxes,
           Owns(lock[m][b], t), Inside(t, m, b),
           lock' = [lock EXCEPT ![m][b] = Tail(@)],
           \A n \in Machines, c \in Boxes : ~Inside(t, n, c)',
           \A u \in Threads \ {t} : pc'[u] = pc[u] /\ mail'[u] = mail[u]
    PROVE  lock' \in [Machines -> [Boxes -> Seq(Threads)]] /\ ListLockSound'
  <1> DEFINE q == lock[m][b]
  <1>1. q \in Seq(Threads) /\ q # << >> /\ Head(q) = t /\ Distinct(q)
    BY DEF ListInv, ListLockSound, TypeOK, Owns
  <1>2. /\ Tail(q) \in Seq(Threads)
        /\ \A u \in Threads : Queued(Tail(q), u) <=> Queued(q, u) /\ u # t
        /\ Distinct(Tail(q))
    BY <1>1, QueueTail
  <1>3. lock' = [lock EXCEPT ![m][b] = Tail(q)]
    OBVIOUS
  <1>4. /\ lock' \in [Machines -> [Boxes -> Seq(Threads)]]
        /\ lock'[m][b] = Tail(q)
        /\ \A n \in Machines, c \in Boxes : n # m \/ c # b => lock'[n][c] = lock[n][c]
    <2>1. lock \in [Machines -> [Boxes -> Seq(Threads)]]
      BY DEF TypeOK
    <2> QED
      BY <2>1, <1>2, <1>3, BoxUpdate
  <1>5. \A u \in Threads \ {t}, n \in Machines, c \in Boxes :
            Inside(u, n, c)' <=> Inside(u, n, c)
    BY DEF Inside, Place
  <1>6. \A u \in Threads \ {t} : ~Owns(q, u)
    BY <1>1 DEF Owns
  <1>7. \A n \in Machines, c \in Boxes : n # m \/ c # b => ~Inside(t, n, c)
    BY DEF Inside
  <1>8. ASSUME NEW n \in Machines, NEW c \in Boxes
        PROVE  /\ Distinct(lock'[n][c])
               /\ \A u \in Threads :
                     /\ Queued(lock'[n][c], u) <=> Inside(u, n, c)'
                     /\ Inside(u, n, c)' /\ pc'[u] = "unlock" => Owns(lock'[n][c], u)
    <2>0. /\ Distinct(lock[n][c])
          /\ \A u \in Threads : Queued(lock[n][c], u) <=> Inside(u, n, c)
          /\ \A u \in Threads : Inside(u, n, c) /\ pc[u] = "unlock" => Owns(lock[n][c], u)
      BY DEF ListInv, ListLockSound
    <2>1. CASE n = m /\ c = b
      <3>1. Distinct(lock'[n][c]) /\ lock'[n][c] = Tail(q) /\ lock[n][c] = q
        BY <1>2, <1>4, <2>1
      <3>2. Queued(lock'[n][c], t) <=> Inside(t, n, c)'
        BY <1>2, <3>1
      <3>3. ASSUME NEW u \in Threads \ {t}
            PROVE  /\ Queued(lock'[n][c], u) <=> Inside(u, n, c)'
                   /\ ~(Inside(u, n, c)' /\ pc'[u] = "unlock")
        BY <1>2, <1>5, <1>6, <2>0, <3>1
      <3> QED
        BY <3>1, <3>2, <3>3
    <2>2. CASE n # m \/ c # b
      <3>1. lock'[n][c] = lock[n][c] /\ ~Inside(t, n, c)
        BY <1>4, <1>7, <2>2
      <3> QED
        BY <1>5, <2>0, <3>1
    <2> QED
      BY <2>1, <2>2
  <1> QED
    BY <1>4, <1>8 DEF ListLockSound

-----------------------------------------------------------------------------
(* The steps of Send *)

LEMMA SendInd ==
    ASSUME IInv, NEW u \in Users, Send(u)
    PROVE  IInv'
  <1> DEFINE h == Home[u]
             q == sendLock[h]
  <1> USE HomeIsMachine DEF IInv, Send, At, Goto, netVars, boxVars, Sending
  <1>1. h \in Machines /\ q \in Seq(Users) /\ u \in Threads
    BY DEF TypeOK, Threads
  <1>2. PICK x \in Packet : mail' = [mail EXCEPT ![u] = x]
    <2>1. PICK m \in Machines, b \in Boxes :
              mail' = [mail EXCEPT ![u] = [id |-> calls + 1, to |-> m, box |-> b]]
      OBVIOUS
    <2>2. calls + 1 \in 1..MaxSends
      <3>1. calls < MaxSends /\ calls \in 0..MaxSends
        BY DEF TypeOK
      <3> HIDE DEF Send, IInv
      <3> QED
        BY <3>1, PostOfficeAssumption
    <2> QED
      BY <2>1, <2>2 DEF Packet
  <1>3. ~Queued(q, u) /\ Distinct(q)
    BY <1>1 DEF SendInv, SendLockSound, TypeOK
  <1>4. /\ Append(q, u) \in Seq(Users)
        /\ \A v \in Users : Queued(Append(q, u), v) <=> Queued(q, v) \/ v = u
        /\ Distinct(Append(q, u))
        /\ \A v \in Users : Owns(q, v) => Owns(Append(q, u), v)
    BY <1>1, <1>3, QueueAppend, OwnerStays
  <1>5. TypeOK'
    <2>1. mail' \in [Threads -> Packet \cup {NoPacket} \cup Request]
      <3>1. mail \in [Threads -> Packet \cup {NoPacket} \cup Request]
        BY DEF TypeOK
      <3> HIDE DEF Send, IInv
      <3> QED
        BY <1>1, <1>2, <3>1
    <2>2. sendLock' \in [Machines -> Seq(Users)]
      BY <1>1, <1>4 DEF TypeOK
    <2>3. pc' \in [Threads -> Steps]
      <3>1. pc \in [Threads -> Steps] /\ pc' = [pc EXCEPT ![u] = "network"] /\ "network" \in Steps
        BY DEF TypeOK, Steps
      <3> HIDE DEF Send, IInv
      <3> QED
        BY <3>1
    <2>4. calls' \in 0..MaxSends
      <3>1. calls < MaxSends /\ calls \in 0..MaxSends /\ calls' = calls + 1
        BY DEF TypeOK
      <3> HIDE DEF Send, IInv
      <3> QED
        BY <3>1, PostOfficeAssumption
    <2> QED
      BY <2>1, <2>2, <2>3, <2>4 DEF TypeOK
  <1>6. StepsSound'
    BY <1>1, <1>2 DEF StepsSound, TypeOK, Threads
  <1>7. SendInv'
    <2>1. ASSUME NEW m \in Machines
          PROVE  /\ Distinct(sendLock'[m])
                 /\ \A v \in Users :
                       /\ Queued(sendLock'[m], v) <=> Home[v] = m /\ pc'[v] \in Sending
                       /\ Home[v] = m /\ pc'[v] \in {"messageSent", "sendUnlock"} =>
                              Owns(sendLock'[m], v)
      <3>1. CASE m = h
        <4>1. sendLock'[m] = Append(q, u)
          BY <3>1, <1>1 DEF TypeOK
        <4>2. \A v \in Users : pc'[v] = IF v = u THEN "network" ELSE pc[v]
          BY <1>1 DEF TypeOK, Threads
        <4>3. \A v \in Users : /\ Queued(q, v) <=> Home[v] = h /\ pc[v] \in Sending
                               /\ Home[v] = h /\ pc[v] \in {"messageSent", "sendUnlock"} =>
                                      Owns(q, v)
          BY <1>1 DEF SendInv, SendLockSound
        <4> QED
          BY <3>1, <4>1, <4>2, <4>3, <1>4
      <3>2. CASE m # h
        BY <3>2, <1>1 DEF SendInv, SendLockSound, TypeOK, Threads
      <3> QED
        BY <3>1, <3>2
    <2>2. OnePacketAtATime'
      BY <1>1 DEF SendInv, OnePacketAtATime, TypeOK, Threads
    <2> QED
      BY <2>1, <2>2 DEF SendInv, SendLockSound
  <1>8. BufferSound'
    BY <1>1, BufferFrame DEF TypeOK, Threads
  <1>9. ListInv'
    BY <1>1, <1>2, ListFrame DEF TypeOK, Threads, Listing
  <1> QED
    BY <1>5, <1>6, <1>7, <1>8, <1>9

LEMMA NetworkSendInd ==
    ASSUME IInv, NEW u \in Users, NetworkSend(u)
    PROVE  IInv'
  <1> DEFINE h == Home[u]
  <1> USE HomeIsMachine DEF IInv, NetworkSend, At, Goto, netVars, boxVars, Sending
  <1>1. h \in Machines /\ u \in Threads /\ mail[u] \in Packet /\ mail[u].to \in Machines
    BY PacketFields DEF Threads, StepsSound
  <1>2. TypeOK'
    <2>1. socket' \in [Machines -> Seq(Packet)]
      <3>1. Append(socket[mail[u].to], mail[u]) \in Seq(Packet)
        BY <1>1 DEF TypeOK
      <3>2. CASE UNCHANGED socket
        BY <3>2 DEF TypeOK
      <3>3. CASE socket' = [socket EXCEPT ![mail[u].to] = Append(@, mail[u])]
        BY <3>1, <3>3, <1>1 DEF TypeOK
      <3> QED
        BY <3>2, <3>3
    <2>2. sendDone' \in [Machines -> Nat] /\ sent' \subseteq Packet
      BY <1>1 DEF TypeOK
    <2>3. pc' \in [Threads -> Steps]
      BY <1>1 DEF TypeOK, Steps
    <2> QED
      BY <2>1, <2>2, <2>3 DEF TypeOK
  <1>3. StepsSound'
    <2>1. pc'[u] = "messageSent" /\ mail'[u] \in Packet
      BY <1>1 DEF TypeOK, StepsSound
    <2>2. \A t \in Threads \ {u} : pc'[t] = pc[t] /\ mail'[t] = mail[t]
      BY <1>1 DEF TypeOK
    <2> QED
      BY <2>1, <2>2 DEF StepsSound, Threads, Listing
  <1>4. SendInv'
    <2>1. SendLockSound'
      BY <1>1 DEF SendInv, SendLockSound, TypeOK, Threads
    <2>2. \A v \in Users : Home[v] = h => pc[v] # "messageSent"
      BY <1>1, OneOwner DEF SendInv, SendLockSound
    <2>3. OnePacketAtATime'
      <3>1. ASSUME NEW m \in Machines, m = h
            PROVE  sendDone'[m] + messageSent'[m] = 1 /\ pc'[u] = "messageSent"
        <4>1. sendDone[h] + messageSent[h] = 0
          BY <1>1, <2>2 DEF SendInv, OnePacketAtATime
        <4>2. sendDone[h] \in Nat /\ messageSent[h] \in Nat
          BY <1>1 DEF TypeOK
        <4>3. sendDone'[h] = sendDone[h] + 1 /\ messageSent'[h] = messageSent[h]
          BY <1>1 DEF TypeOK
        <4> QED
          BY <3>1, <4>1, <4>2, <4>3, <1>1 DEF TypeOK
      <3>2. ASSUME NEW m \in Machines, m # h
            PROVE  /\ sendDone'[m] + messageSent'[m] = sendDone[m] + messageSent[m]
                   /\ \A v \in Users : Home[v] = m => pc'[v] = pc[v]
        BY <3>2, <1>1 DEF TypeOK
      <3> QED
        BY <3>1, <3>2 DEF SendInv, OnePacketAtATime
    <2> QED
      BY <2>1, <2>3 DEF SendInv
  <1>5. BufferSound'
    BY <1>1, BufferFrame DEF TypeOK, Threads
  <1>6. ListInv'
    BY <1>1, ListFrame DEF TypeOK, Threads, Listing
  <1> QED
    BY <1>2, <1>3, <1>4, <1>5, <1>6

LEMMA SendPInd ==
    ASSUME IInv, NEW u \in Users, SendP(u)
    PROVE  IInv'
  <1> DEFINE h == Home[u]
  <1> USE HomeIsMachine DEF IInv, SendP, At, Goto, netVars, boxVars, Sending
  <1>1. h \in Machines /\ u \in Threads
    BY DEF Threads
  <1>2. TypeOK'
    <2>1. messageSent' \in [Machines -> Nat]
      BY <1>1 DEF TypeOK
    <2>2. pc' \in [Threads -> Steps]
      BY <1>1 DEF TypeOK, Steps
    <2> QED
      BY <2>1, <2>2 DEF TypeOK
  <1>3. StepsSound'
    <2>1. pc'[u] = "sendUnlock" /\ mail'[u] \in Packet
      BY <1>1 DEF TypeOK, StepsSound
    <2>2. \A t \in Threads \ {u} : pc'[t] = pc[t] /\ mail'[t] = mail[t]
      BY <1>1 DEF TypeOK
    <2> QED
      BY <2>1, <2>2 DEF StepsSound, Threads, Listing
  <1>4. SendInv'
    <2>1. SendLockSound'
      BY <1>1 DEF SendInv, SendLockSound, TypeOK, Threads
    <2>2. \A v \in Users : Home[v] = h /\ v # u => pc[v] # "messageSent"
      BY <1>1, OneOwner DEF SendInv, SendLockSound
    <2>3. OnePacketAtATime'
      <3>1. ASSUME NEW m \in Machines, m = h
            PROVE  /\ sendDone'[m] + messageSent'[m] = 0
                   /\ \A v \in Users : Home[v] = m => pc'[v] # "messageSent"
        <4>1. sendDone[h] + messageSent[h] = 1
          BY <1>1 DEF SendInv, OnePacketAtATime
        <4>2. sendDone[h] \in Nat /\ messageSent[h] \in Nat
          BY <1>1 DEF TypeOK
        <4>3. sendDone'[h] = sendDone[h] /\ messageSent'[h] = messageSent[h] - 1
          BY <1>1 DEF TypeOK
        <4>4. \A v \in Users : Home[v] = h => pc'[v] # "messageSent"
          BY <1>1, <2>2 DEF TypeOK, Threads
        <4> QED
          BY <3>1, <4>1, <4>2, <4>3, <4>4
      <3>2. ASSUME NEW m \in Machines, m # h
            PROVE  /\ sendDone'[m] + messageSent'[m] = sendDone[m] + messageSent[m]
                   /\ \A v \in Users : Home[v] = m => pc'[v] = pc[v]
        BY <3>2, <1>1 DEF TypeOK
      <3> QED
        BY <3>1, <3>2 DEF SendInv, OnePacketAtATime
    <2> QED
      BY <2>1, <2>3 DEF SendInv
  <1>5. BufferSound'
    BY <1>1, BufferFrame DEF TypeOK, Threads
  <1>6. ListInv'
    BY <1>1, ListFrame DEF TypeOK, Threads, Listing
  <1> QED
    BY <1>2, <1>3, <1>4, <1>5, <1>6

LEMMA SendReleaseInd ==
    ASSUME IInv, NEW u \in Users, SendRelease(u)
    PROVE  IInv'
  <1> DEFINE h == Home[u]
             q == sendLock[h]
  <1> USE HomeIsMachine DEF IInv, SendRelease, At, Goto, netVars, boxVars, Sending
  <1>1. h \in Machines /\ q \in Seq(Users) /\ u \in Threads
    BY DEF TypeOK, Threads
  <1>2. q # << >> /\ Head(q) = u /\ Distinct(q)
    BY <1>1 DEF SendInv, SendLockSound, Owns
  <1>3. /\ Tail(q) \in Seq(Users)
        /\ \A v \in Users : Queued(Tail(q), v) <=> Queued(q, v) /\ v # u
        /\ Distinct(Tail(q))
    BY <1>1, <1>2, QueueTail
  <1>4. TypeOK'
    <2>1. sendLock' \in [Machines -> Seq(Users)]
      BY <1>1, <1>3 DEF TypeOK
    <2>2. mail' \in [Threads -> Packet \cup {NoPacket} \cup Request]
      BY <1>1 DEF TypeOK
    <2>3. pc' \in [Threads -> Steps]
      BY <1>1 DEF TypeOK, Steps
    <2> QED
      BY <2>1, <2>2, <2>3 DEF TypeOK
  <1>5. StepsSound'
    BY <1>1 DEF StepsSound, TypeOK, Threads, Listing
  <1>6. SendInv'
    <2>1. ASSUME NEW m \in Machines
          PROVE  /\ Distinct(sendLock'[m])
                 /\ \A v \in Users :
                       /\ Queued(sendLock'[m], v) <=> Home[v] = m /\ pc'[v] \in Sending
                       /\ Home[v] = m /\ pc'[v] \in {"messageSent", "sendUnlock"} =>
                              Owns(sendLock'[m], v)
      <3>1. CASE m = h
        <4>1. \A v \in Users : Home[v] = h /\ v # u => pc[v] \notin {"messageSent", "sendUnlock"}
          BY <1>1, <1>2 DEF SendInv, SendLockSound, Owns
        <4>2. /\ sendLock'[m] = Tail(q)
              /\ \A v \in Users : pc'[v] = IF v = u THEN "idle" ELSE pc[v]
          BY <3>1, <1>1 DEF TypeOK, Threads
        <4>3. \A v \in Users : Queued(q, v) <=> Home[v] = h /\ pc[v] \in Sending
          BY <1>1 DEF SendInv, SendLockSound
        <4>4. \A v \in Users : Queued(Tail(q), v) <=> Home[v] = h /\ pc'[v] \in Sending
          BY <1>3, <4>2, <4>3
        <4>5. \A v \in Users : Home[v] = h => pc'[v] \notin {"messageSent", "sendUnlock"}
          BY <4>1, <4>2
        <4> HIDE DEF h, q
        <4> QED
          BY <3>1, <1>3, <4>2, <4>4, <4>5
      <3>2. CASE m # h
        BY <3>2, <1>1 DEF SendInv, SendLockSound, TypeOK, Threads
      <3> QED
        BY <3>1, <3>2
    <2>2. OnePacketAtATime'
      BY <1>1 DEF SendInv, OnePacketAtATime, TypeOK, Threads
    <2> QED
      BY <2>1, <2>2 DEF SendInv, SendLockSound
  <1>7. BufferSound'
    BY <1>1, BufferFrame DEF TypeOK, Threads
  <1>8. ListInv'
    BY <1>1, ListFrame DEF TypeOK, Threads, Listing
  <1> QED
    BY <1>4, <1>5, <1>6, <1>7, <1>8

-----------------------------------------------------------------------------
(* The interrupts *)

LEMMA SendDoneInd ==
    ASSUME IInv, NEW m \in Machines, SendDone(m)
    PROVE  IInv'
  <1> USE DEF IInv, SendDone, boxVars
  <1>1. sendDone \in [Machines -> Nat] /\ messageSent \in [Machines -> Nat]
    BY DEF TypeOK
  <1>2. sendDone' \in [Machines -> Nat] /\ messageSent' \in [Machines -> Nat]
    <2>1. sendDone[m] - 1 \in Nat /\ messageSent[m] + 1 \in Nat
      BY <1>1
    <2> QED
      BY <1>1, <2>1
  <1>3. TypeOK'
    BY <1>2 DEF TypeOK
  <1>4. StepsSound'
    BY DEF StepsSound
  <1>5. SendInv'
    <2>1. \A n \in Machines : sendDone'[n] + messageSent'[n] = sendDone[n] + messageSent[n]
      BY <1>1, <1>2
    <2> QED
      BY <2>1 DEF SendInv, SendLockSound, OnePacketAtATime
  <1>6. BufferSound'
    BY BufferFrame
  <1>7. ListInv'
    BY ListFrame
  <1> QED
    BY <1>3, <1>4, <1>5, <1>6, <1>7

LEMMA CheckPktAvailInd ==
    ASSUME IInv, NEW m \in Machines, CheckPktAvail(m)
    PROVE  IInv'
  <1> USE DEF IInv, CheckPktAvail, ReadPacket, boxVars
  <1>1. Head(socket[m]) \in Packet /\ Tail(socket[m]) \in Seq(Packet)
    <2>1. socket[m] \in Seq(Packet) /\ socket[m] # << >>
      BY DEF TypeOK
    <2> QED
      BY <2>1
  <1>2. TypeOK'
    <2>1. /\ socket' \in [Machines -> Seq(Packet)]
          /\ inHdr' \in [Machines -> Packet \cup {NoPacket}]
      BY <1>1 DEF TypeOK
    <2>2. messageAvailable' \in [Machines -> Nat]
      <3>1. messageAvailable[m] + 1 \in Nat
        BY DEF TypeOK
      <3> QED
        BY <3>1 DEF TypeOK
    <2> QED
      BY <2>1, <2>2 DEF TypeOK
  <1>3. StepsSound'
    BY DEF StepsSound
  <1>4. SendInv'
    BY SendFrame
  <1>5. BufferSound'
    <2>1. inHdr'[m] # NoPacket /\ messageAvailable'[m] = messageAvailable[m] + 1
      BY <1>1 DEF TypeOK
    <2>2. \A n \in Machines \ {m} : inHdr'[n] = inHdr[n] /\ messageAvailable'[n] = messageAvailable[n]
      BY DEF TypeOK
    <2> QED
      BY <2>1, <2>2 DEF BufferSound, TypeOK
  <1>6. ListInv'
    BY ListFrame
  <1> QED
    BY <1>2, <1>3, <1>4, <1>5, <1>6

-----------------------------------------------------------------------------
(* The steps of the postal worker *)

LEMMA WorkerPInd ==
    ASSUME IInv, NEW m \in Machines, WorkerP(m)
    PROVE  IInv'
  <1> USE DEF IInv, WorkerP, At, Goto, boxVars
  <1>1. m \in Threads /\ m \notin Users
    BY DEF Threads
  <1>2. pc'[m] = "receive" /\ \A t \in Threads \ {m} : pc'[t] = pc[t]
    BY <1>1 DEF TypeOK
  <1>3. TypeOK'
    <2>1. messageAvailable' \in [Machines -> Nat]
      BY DEF TypeOK
    <2>2. pc' \in [Threads -> Steps]
      BY <1>1 DEF TypeOK, Steps
    <2> QED
      BY <2>1, <2>2 DEF TypeOK
  <1>4. StepsSound'
    BY <1>1, <1>2 DEF StepsSound, Threads
  <1>5. SendInv'
    BY <1>1, <1>2, SendFrame DEF Threads
  <1>6. BufferSound'
    <2>1. messageAvailable'[m] = messageAvailable[m] - 1
      BY DEF TypeOK
    <2>2. \A n \in Machines \ {m} : messageAvailable'[n] = messageAvailable[n]
      BY DEF TypeOK
    <2> QED
      BY <1>2, <2>1, <2>2 DEF BufferSound, TypeOK, Threads
  <1>7. ListInv'
    BY <1>1, <1>2, ListFrame DEF Listing
  <1> QED
    BY <1>3, <1>4, <1>5, <1>6, <1>7

LEMMA WorkerReceiveInd ==
    ASSUME IInv, NEW m \in Machines, WorkerReceive(m)
    PROVE  IInv'
  <1> DEFINE x == inHdr[m]
  <1> USE DEF IInv, WorkerReceive, At, Goto
  <1>1. m \in Threads /\ m \notin Users
    BY DEF Threads
  <1>2. x \in Packet /\ messageAvailable[m] = 0
    BY DEF BufferSound, TypeOK
  <1>3. x.box \in Boxes
    BY <1>2, PacketFields
  <1>4. /\ mail' = [mail EXCEPT ![m] = x]
        /\ lock' = [lock EXCEPT ![m][x.box] = Append(@, m)]
    BY <1>2
  <1>5. /\ pc'[m] = "append" /\ mail'[m] = x
        /\ \A t \in Threads \ {m} : pc'[t] = pc[t] /\ mail'[t] = mail[t]
    BY <1>1, <1>4 DEF TypeOK
  <1>6. lock' \in [Machines -> [Boxes -> Seq(Threads)]] /\ ListLockSound'
    <2>1. \A n \in Machines, c \in Boxes : ~Inside(m, n, c)
      BY DEF Inside
    <2>2. \A n \in Machines, c \in Boxes : Inside(m, n, c)' <=> n = m /\ c = x.box
      BY <1>5, PlaceIsMachine DEF Inside, Place
    <2> HIDE DEF IInv, WorkerReceive
    <2>3. TypeOK /\ ListInv
      BY DEF IInv
    <2>4. pc'[m] # "unlock"
      BY <1>5
    <2>5. \A t \in Threads \ {m} : pc'[t] = pc[t] /\ mail'[t] = mail[t]
      BY <1>5
    <2>6. Enters(m, m, x.box)
      BY <1>4 DEF Enters
    <2> HIDE DEF x
    <2> QED
      BY <1>1, <1>3, <2>1, <2>2, <2>3, <2>4, <2>5, <2>6, LockEnter
  <1>7. TypeOK'
    <2>1. mail' \in [Threads -> Packet \cup {NoPacket} \cup Request]
      BY <1>1, <1>2, <1>4 DEF TypeOK
    <2>2. inHdr' \in [Machines -> Packet \cup {NoPacket}]
      BY DEF TypeOK
    <2>3. pc' \in [Threads -> Steps]
      BY <1>1 DEF TypeOK, Steps
    <2> QED
      BY <1>6, <2>1, <2>2, <2>3 DEF TypeOK
  <1>8. StepsSound'
    BY <1>1, <1>2, <1>5 DEF StepsSound, Threads
  <1>9. SendInv'
    BY <1>1, <1>5, SendFrame DEF Threads
  <1>10. BufferSound'
    <2>1. inHdr'[m] = NoPacket /\ messageAvailable'[m] = 0 /\ pc'[m] # "receive"
      BY <1>2, <1>5 DEF TypeOK
    <2>2. \A n \in Machines \ {m} : /\ inHdr'[n] = inHdr[n] /\ pc'[n] = pc[n]
                                     /\ messageAvailable'[n] = messageAvailable[n]
      BY <1>5 DEF TypeOK, Threads
    <2> QED
      BY <2>1, <2>2 DEF BufferSound
  <1>11. ListsSound'
    BY <1>5 DEF ListInv, ListsSound, TypeOK, Threads
  <1> QED
    BY <1>6, <1>7, <1>8, <1>9, <1>10, <1>11 DEF ListInv

(* The signalled receiver, if there is one, is on its way to the lock, which  *)
(* the worker still holds.                                                   *)
LEMMA ListAppendInd ==
    ASSUME IInv, NEW m \in Machines, ListAppend(m)
    PROVE  IInv'
  <1> DEFINE b == mail[m].box
             l == Append(list[m][b], mail[m])
  <1> USE DEF IInv, ListAppend, At, Goto, Woken, netVars
  <1>1. m \in Threads /\ m \notin Users
    BY DEF Threads
  <1>2. mail[m] \in Packet /\ b \in Boxes
    BY PacketFields DEF StepsSound
  <1>3. /\ l \in Seq(Packet)
        /\ \A i \in 1..Len(l) : l[i].box = b
    <2>1. list[m][b] \in Seq(Packet) /\ \A i \in 1..Len(list[m][b]) : list[m][b][i].box = b
      BY <1>2 DEF ListInv, ListsSound, TypeOK
    <2> QED
      BY <1>2, <2>1, MailAppend
  <1>4. /\ list' \in [Machines -> [Boxes -> Seq(Packet)]]
        /\ list'[m][b] = l
        /\ \A n \in Machines, c \in Boxes : n # m \/ c # b => list'[n][c] = list[n][c]
    <2>1. list \in [Machines -> [Boxes -> Seq(Packet)]] /\ list' = [list EXCEPT ![m][b] = l]
      BY DEF TypeOK
    <2> HIDE DEF b, l, IInv, ListAppend
    <2> QED
      BY <1>2, <1>3, <2>1, BoxUpdate
  <1>5. PICK W \in SUBSET listEmpty[m][b] :
            /\ listEmpty' \in [Machines -> [Boxes -> SUBSET Users]]
            /\ listEmpty'[m][b] = listEmpty[m][b] \ W
            /\ \A n \in Machines, c \in Boxes : n # m \/ c # b => listEmpty'[n][c] = listEmpty[n][c]
            /\ pc' \in [Threads -> Steps]
            /\ \A t \in Threads : pc'[t] = IF t = m THEN "unlock"
                                       ELSE IF t \in W THEN "relock" ELSE pc[t]
    <2>1. CASE Goto(m, "unlock") /\ UNCHANGED listEmpty
      <3>1. listEmpty' \in [Machines -> [Boxes -> SUBSET Users]]
        BY <2>1 DEF TypeOK
      <3>2. pc' \in [Threads -> Steps]
        BY <2>1, <1>1 DEF TypeOK, Steps
      <3>3. \A t \in Threads : pc'[t] = IF t = m THEN "unlock" ELSE pc[t]
        BY <2>1, <1>1 DEF TypeOK
      <3>4. {} \in SUBSET listEmpty[m][b] /\ listEmpty'[m][b] = listEmpty[m][b] \ {}
        BY <2>1
      <3> QED
        BY <2>1, <3>1, <3>2, <3>3, <3>4
    <2>2. CASE \E w \in listEmpty[m][b] :
                   /\ listEmpty' = [listEmpty EXCEPT ![m][b] = @ \ {w}]
                   /\ pc' = [pc EXCEPT ![m] = "unlock", ![w] = "relock"]
      <3>1. PICK w \in listEmpty[m][b] :
                   /\ listEmpty' = [listEmpty EXCEPT ![m][b] = @ \ {w}]
                   /\ pc' = [pc EXCEPT ![m] = "unlock", ![w] = "relock"]
        BY <2>2
      <3>2. w \in Users /\ w \in Threads /\ w # m
        <4>1. listEmpty[m][b] \subseteq Users
          BY <1>2 DEF TypeOK
        <4> QED
          BY <1>1, <4>1 DEF Threads
      <3>3. /\ listEmpty' \in [Machines -> [Boxes -> SUBSET Users]]
            /\ listEmpty'[m][b] = listEmpty[m][b] \ {w}
            /\ \A n \in Machines, c \in Boxes : n # m \/ c # b => listEmpty'[n][c] = listEmpty[n][c]
        <4>1. listEmpty \in [Machines -> [Boxes -> SUBSET Users]]
          BY DEF TypeOK
        <4>2. listEmpty[m][b] \ {w} \in SUBSET Users
          BY <1>2, <4>1
        <4>3. listEmpty' = [listEmpty EXCEPT ![m][b] = listEmpty[m][b] \ {w}]
          BY <3>1
        <4> HIDE DEF b, IInv, ListAppend
        <4> QED
          BY <1>2, <4>1, <4>2, <4>3, BoxUpdate
      <3>4. /\ pc' \in [Threads -> Steps]
            /\ \A t \in Threads : pc'[t] = IF t = m THEN "unlock"
                                       ELSE IF t \in {w} THEN "relock" ELSE pc[t]
        <4>1. pc \in [Threads -> Steps] /\ "unlock" \in Steps /\ "relock" \in Steps
          BY DEF TypeOK, Steps
        <4> QED
          BY <1>1, <3>1, <3>2, <4>1
      <3>5. {w} \in SUBSET listEmpty[m][b]
        OBVIOUS
      <3> QED
        BY <3>3, <3>4, <3>5
    <2> QED
      BY <2>1, <2>2
  <1>6. /\ W \subseteq Users
        /\ \A w \in W : pc[w] = "wait" /\ Home[w] = m
        /\ \A n \in Machines, c \in Boxes : \A w \in listEmpty'[n][c] :
               w \in listEmpty[n][c] /\ w \in Threads /\ w \notin W /\ w # m
    <2>1. listEmpty \in [Machines -> [Boxes -> SUBSET Users]]
      BY DEF TypeOK
    <2>2. \A w \in W : w \in Users /\ pc[w] = "wait" /\ Home[w] = m /\ mail[w].box = b
      BY <1>2, <2>1 DEF ListInv, ListsSound
    <2>3. ASSUME NEW n \in Machines, NEW c \in Boxes, NEW w \in listEmpty'[n][c]
          PROVE  w \in listEmpty[n][c] /\ w \in Threads /\ w \notin W /\ w # m
      <3>1. w \in listEmpty[n][c] /\ (n = m /\ c = b => w \notin W)
        BY <1>5, <2>3
      <3>2. w \in Users /\ Home[w] = n /\ mail[w].box = c
        BY <2>1, <3>1 DEF ListInv, ListsSound
      <3> QED
        BY <1>1, <2>2, <3>1, <3>2 DEF Threads
    <2> QED
      BY <2>2, <2>3
  <1>7. TypeOK'
    BY <1>4, <1>5 DEF TypeOK
  <1>8. StepsSound'
    BY <1>1, <1>2, <1>5, <1>6 DEF StepsSound, Threads, Sending, Listing
  <1>9. SendInv'
    BY <1>1, <1>5, <1>6, SendFrame DEF Sending, Threads
  <1>10. BufferSound'
    BY <1>1, <1>5, <1>6, BufferFrame DEF Threads
  <1>11. ListLockSound'
    <2>1. \A t \in Threads, n \in Machines, c \in Boxes : Inside(t, n, c)' <=> Inside(t, n, c)
      BY <1>5, <1>6 DEF Inside, Place
    <2>2. Inside(m, m, b) /\ \A n \in Machines, c \in Boxes : n # m \/ c # b => ~Inside(m, n, c)
      BY PlaceIsMachine DEF Inside
    <2>3. \A t \in Threads \ {m} : pc'[t] = "unlock" => pc[t] = "unlock"
      BY <1>5
    <2>4. Owns(lock[m][b], m) /\ UNCHANGED lock
      OBVIOUS
    <2> HIDE DEF ListAppend
    <2>5. ASSUME NEW n \in Machines, NEW c \in Boxes, NEW t \in Threads,
                 Inside(t, n, c)', pc'[t] = "unlock"
          PROVE  Owns(lock'[n][c], t)
      <3>1. CASE t = m
        BY <2>1, <2>2, <2>4, <2>5, <3>1
      <3>2. CASE t # m
        BY <2>1, <2>3, <2>4, <2>5, <3>2 DEF ListInv, ListLockSound
      <3> QED
        BY <3>1, <3>2
    <2> QED
      BY <2>1, <2>4, <2>5 DEF ListInv, ListLockSound
  <1>12. ListsSound'
    <2>1. ASSUME NEW n \in Machines, NEW c \in Boxes
          PROVE  \A i \in 1..Len(list'[n][c]) : list'[n][c][i].box = c
      <3>1. CASE n = m /\ c = b
        BY <1>3, <1>4, <3>1
      <3>2. CASE n # m \/ c # b
        BY <1>4, <3>2 DEF ListInv, ListsSound
      <3> QED
        BY <3>1, <3>2
    <2>2. \A n \in Machines, c \in Boxes : \A w \in listEmpty'[n][c] :
              pc'[w] = "wait" /\ mail'[w].box = c /\ Home[w] = n
      BY <1>5, <1>6 DEF ListInv, ListsSound
    <2> HIDE DEF ListAppend, IInv
    <2> QED
      BY <2>1, <2>2 DEF ListsSound
  <1> QED
    BY <1>7, <1>8, <1>9, <1>10, <1>11, <1>12 DEF ListInv

LEMMA AppendReleaseInd ==
    ASSUME IInv, NEW m \in Machines, AppendRelease(m)
    PROVE  IInv'
  <1> DEFINE b == mail[m].box
  <1> USE DEF IInv, AppendRelease, At, Goto, netVars
  <1>1. m \in Threads /\ m \notin Users /\ b \in Boxes
    BY PacketFields DEF Threads, StepsSound
  <1>2. /\ pc'[m] = "messageAvailable"
        /\ \A t \in Threads \ {m} : pc'[t] = pc[t]
    BY <1>1 DEF TypeOK
  <1>3. lock' \in [Machines -> [Boxes -> Seq(Threads)]] /\ ListLockSound'
    <2>1. Inside(m, m, b)
      BY PlaceIsMachine DEF Inside
    <2>2. Owns(lock[m][b], m)
      BY <1>1, <2>1 DEF ListInv, ListLockSound
    <2>3. \A n \in Machines, c \in Boxes : ~Inside(m, n, c)'
      BY <1>2 DEF Inside
    <2>4. \A t \in Threads \ {m} : pc'[t] = pc[t] /\ mail'[t] = mail[t]
      BY <1>2
    <2>5. lock' = [lock EXCEPT ![m][b] = Tail(@)]
      OBVIOUS
    <2>6. TypeOK /\ ListInv
      OBVIOUS
    <2> HIDE DEF b, IInv, AppendRelease
    <2> QED
      BY <1>1, <2>1, <2>2, <2>3, <2>4, <2>5, <2>6, LockLeave
  <1>4. TypeOK'
    <2>1. pc' \in [Threads -> Steps]
      BY <1>1 DEF TypeOK, Steps
    <2> QED
      BY <1>3, <2>1 DEF TypeOK
  <1>5. StepsSound'
    BY <1>1, <1>2 DEF StepsSound, Threads
  <1>6. SendInv'
    BY <1>1, <1>2, SendFrame DEF Threads
  <1>7. BufferSound'
    BY <1>2, BufferFrame DEF Threads
  <1>8. ListsSound'
    <2>1. \A w \in Users : pc[w] = "wait" => pc'[w] = "wait" /\ mail'[w].box = mail[w].box
      BY <1>1, <1>2 DEF Threads
    <2>2. TypeOK /\ ListsSound /\ UNCHANGED <<list, listEmpty>>
      BY DEF ListInv
    <2> QED
      BY <2>1, <2>2, ListsFrame
  <1> QED
    BY <1>3, <1>4, <1>5, <1>6, <1>7, <1>8 DEF ListInv

-----------------------------------------------------------------------------
(* The steps of Receive *)

LEMMA ReceiveInd ==
    ASSUME IInv, NEW u \in Users, Receive(u)
    PROVE  IInv'
  <1> USE HomeIsMachine DEF IInv, Receive, At, Goto, netVars
  <1>1. u \in Threads /\ u \notin Machines /\ Home[u] \in Machines
    BY DEF Threads
  <1>2. PICK b \in Reads[u] : /\ mail' = [mail EXCEPT ![u] = Asked(u, b)]
                             /\ lock' = [lock EXCEPT ![Home[u]][b] = Append(@, u)]
    OBVIOUS
  <1>3. b \in Boxes /\ Asked(u, b) \in Request /\ Asked(u, b).box = b
    BY PacketFields
  <1>4. /\ pc'[u] = "remove" /\ mail'[u] = Asked(u, b)
        /\ \A t \in Threads \ {u} : pc'[t] = pc[t] /\ mail'[t] = mail[t]
    BY <1>1, <1>2 DEF TypeOK
  <1>5. lock' \in [Machines -> [Boxes -> Seq(Threads)]] /\ ListLockSound'
    <2>1. \A n \in Machines, c \in Boxes : ~Inside(u, n, c)
      BY DEF Inside
    <2>2. \A n \in Machines, c \in Boxes : Inside(u, n, c)' <=> n = Home[u] /\ c = b
      BY <1>1, <1>3, <1>4 DEF Inside, Place
    <2>3. TypeOK /\ ListInv /\ pc'[u] # "unlock"
      BY <1>4
    <2> DEFINE m == Home[u]
    <2>4. m \in Machines /\ \A n \in Machines, c \in Boxes : Inside(u, n, c)' <=> n = m /\ c = b
      BY <1>1, <2>2
    <2>5. Enters(u, m, b)
      BY <1>2 DEF Enters
    <2>6. \A t \in Threads \ {u} : pc'[t] = pc[t] /\ mail'[t] = mail[t]
      BY <1>4
    <2> HIDE DEF m, IInv, Receive
    <2> QED
      BY <1>1, <1>3, <2>1, <2>3, <2>4, <2>5, <2>6, LockEnter
  <1>6. TypeOK'
    <2>1. mail' \in [Threads -> Packet \cup {NoPacket} \cup Request]
      BY <1>1, <1>2, <1>3 DEF TypeOK
    <2>2. pc' \in [Threads -> Steps]
      BY <1>1 DEF TypeOK, Steps
    <2> QED
      BY <1>5, <2>1, <2>2 DEF TypeOK
  <1>7. StepsSound'
    BY <1>1, <1>3, <1>4 DEF StepsSound, Threads, Sending
  <1>8. SendInv'
    BY <1>4, SendFrame DEF Threads, Sending
  <1>9. BufferSound'
    BY <1>1, <1>4, BufferFrame DEF Threads
  <1>10. ListsSound'
    <2>1. \A n \in Machines, c \in Boxes : listEmpty[n][c] \subseteq Threads \ {u}
      BY DEF ListInv, ListsSound, TypeOK, Threads
    <2> QED
      BY <1>4, <2>1 DEF ListInv, ListsSound
  <1> QED
    BY <1>5, <1>6, <1>7, <1>8, <1>9, <1>10 DEF ListInv

LEMMA WaitAcquireInd ==
    ASSUME IInv, NEW u \in Users, WaitAcquire(u)
    PROVE  IInv'
  <1> DEFINE b == mail[u].box
  <1> USE HomeIsMachine DEF IInv, WaitAcquire, At, Goto, netVars
  <1>1. u \in Threads /\ u \notin Machines /\ Home[u] \in Machines /\ b \in Boxes
    BY DEF Threads, StepsSound, Listing
  <1>2. /\ pc'[u] = "remove"
        /\ \A t \in Threads \ {u} : pc'[t] = pc[t]
    BY <1>1 DEF TypeOK
  <1>3. lock' \in [Machines -> [Boxes -> Seq(Threads)]] /\ ListLockSound'
    <2>1. \A n \in Machines, c \in Boxes : ~Inside(u, n, c)
      BY DEF Inside
    <2>2. \A n \in Machines, c \in Boxes : Inside(u, n, c)' <=> n = Home[u] /\ c = b
      BY <1>1, <1>2 DEF Inside, Place
    <2>3. TypeOK /\ ListInv /\ pc'[u] # "unlock"
      BY <1>2
    <2>4. \A t \in Threads \ {u} : pc'[t] = pc[t] /\ mail'[t] = mail[t]
      BY <1>2
    <2> DEFINE m == Home[u]
    <2>5. Enters(u, m, b)
      BY DEF Enters
    <2>6. m \in Machines /\ \A n \in Machines, c \in Boxes : Inside(u, n, c)' <=> n = m /\ c = b
      BY <1>1, <2>2
    <2> HIDE DEF m, b, IInv, WaitAcquire
    <2> QED
      BY <1>1, <2>1, <2>3, <2>4, <2>5, <2>6, LockEnter
  <1>4. TypeOK'
    <2>1. pc' \in [Threads -> Steps]
      BY <1>1 DEF TypeOK, Steps
    <2> QED
      BY <1>3, <2>1 DEF TypeOK
  <1>5. StepsSound'
    BY <1>1, <1>2 DEF StepsSound, Threads, Sending
  <1>6. SendInv'
    BY <1>2, SendFrame DEF Threads, Sending
  <1>7. BufferSound'
    BY <1>1, <1>2, BufferFrame DEF Threads
  <1>8. ListsSound'
    <2>1. \A w \in Users : pc[w] = "wait" => pc'[w] = "wait" /\ mail'[w].box = mail[w].box
      BY <1>1, <1>2 DEF Threads
    <2>2. TypeOK /\ ListsSound /\ UNCHANGED <<list, listEmpty>>
      BY DEF ListInv
    <2> QED
      BY <2>1, <2>2, ListsFrame
  <1> QED
    BY <1>3, <1>4, <1>5, <1>6, <1>7, <1>8 DEF ListInv

LEMMA RemoveReleaseInd ==
    ASSUME IInv, NEW u \in Users, RemoveRelease(u)
    PROVE  IInv'
  <1> DEFINE b == mail[u].box
  <1> USE HomeIsMachine DEF IInv, RemoveRelease, At, Goto, netVars
  <1>1. u \in Threads /\ u \notin Machines /\ Home[u] \in Machines /\ b \in Boxes
    BY DEF Threads, StepsSound, Listing
  <1>2. /\ pc'[u] = "idle" /\ mail'[u] = NoPacket
        /\ \A t \in Threads \ {u} : pc'[t] = pc[t] /\ mail'[t] = mail[t]
    BY <1>1 DEF TypeOK
  <1>3. lock' \in [Machines -> [Boxes -> Seq(Threads)]] /\ ListLockSound'
    <2>1. Inside(u, Home[u], b)
      BY <1>1 DEF Inside, Place
    <2>2. Owns(lock[Home[u]][b], u)
      BY <1>1, <2>1 DEF ListInv, ListLockSound
    <2>3. \A n \in Machines, c \in Boxes : ~Inside(u, n, c)'
      BY <1>2 DEF Inside
    <2>4. TypeOK /\ ListInv
      OBVIOUS
    <2>5. lock' = [lock EXCEPT ![Home[u]][b] = Tail(@)]
      OBVIOUS
    <2> HIDE DEF b, IInv, RemoveRelease
    <2> QED
      BY <1>1, <1>2, <2>1, <2>2, <2>3, <2>4, <2>5, LockLeave
  <1>4. TypeOK'
    <2>1. mail' \in [Threads -> Packet \cup {NoPacket} \cup Request]
      BY <1>1 DEF TypeOK
    <2>2. pc' \in [Threads -> Steps]
      BY <1>1 DEF TypeOK, Steps
    <2> QED
      BY <1>3, <2>1, <2>2 DEF TypeOK
  <1>5. StepsSound'
    BY <1>1, <1>2 DEF StepsSound, Threads, Sending, Listing
  <1>6. SendInv'
    BY <1>2, SendFrame DEF Threads, Sending
  <1>7. BufferSound'
    BY <1>1, <1>2, BufferFrame DEF Threads
  <1>8. ListsSound'
    <2>1. \A w \in Users : pc[w] = "wait" => pc'[w] = "wait" /\ mail'[w].box = mail[w].box
      BY <1>1, <1>2 DEF Threads
    <2>2. TypeOK /\ ListsSound /\ UNCHANGED <<list, listEmpty>>
      BY DEF ListInv
    <2> QED
      BY <2>1, <2>2, ListsFrame
  <1> QED
    BY <1>3, <1>4, <1>5, <1>6, <1>7, <1>8 DEF ListInv

(* Wait: the lock is handed over in the step that joins the waiters. *)
LEMMA ListWaitInd ==
    ASSUME IInv, NEW u \in Users, ListRemove(u), list[Home[u]][mail[u].box] = << >>
    PROVE  IInv'
  <1> DEFINE m == Home[u]
             b == mail[u].box
             W == listEmpty[m][b] \cup {u}
  <1> USE HomeIsMachine DEF IInv, ListRemove, At, netVars
  <1>1. u \in Threads /\ u \notin Machines /\ m \in Machines /\ b \in Boxes
    BY DEF Threads, StepsSound, Listing
  <1>2. /\ listEmpty' = [listEmpty EXCEPT ![m][b] = W]
        /\ lock' = [lock EXCEPT ![m][b] = Tail(@)]
        /\ pc' = [pc EXCEPT ![u] = "wait"]
        /\ UNCHANGED <<list, mail, sendLock, socket, inHdr, sendDone, messageAvailable,
                       messageSent, lossy, calls, sent>>
    BY DEF Goto
  <1>3. Owns(lock[m][b], u) /\ pc[u] = "remove"
    OBVIOUS
  <1> HIDE DEF ListRemove
  <1>4. /\ pc'[u] = "wait"
        /\ \A t \in Threads \ {u} : pc'[t] = pc[t]
    BY <1>1, <1>2 DEF TypeOK
  <1>5. lock' \in [Machines -> [Boxes -> Seq(Threads)]] /\ ListLockSound'
    <2>1. Inside(u, m, b)
      BY <1>1, <1>3 DEF Inside, Place
    <2>2. \A n \in Machines, c \in Boxes : ~Inside(u, n, c)'
      BY <1>4 DEF Inside
    <2>3. \A t \in Threads \ {u} : pc'[t] = pc[t] /\ mail'[t] = mail[t]
      BY <1>2, <1>4
    <2>4. TypeOK /\ ListInv
      OBVIOUS
    <2> HIDE DEF m, b, IInv
    <2> QED
      BY <1>1, <1>2, <1>3, <2>1, <2>2, <2>3, <2>4, LockLeave
  <1>6. /\ listEmpty' \in [Machines -> [Boxes -> SUBSET Users]]
        /\ listEmpty'[m][b] = W
        /\ \A n \in Machines, c \in Boxes : n # m \/ c # b => listEmpty'[n][c] = listEmpty[n][c]
    <2>1. listEmpty \in [Machines -> [Boxes -> SUBSET Users]]
      BY DEF TypeOK
    <2>2. W \in SUBSET Users
      BY <1>1, <2>1
    <2> HIDE DEF m, b, W, IInv
    <2> QED
      BY <1>1, <1>2, <2>1, <2>2, BoxUpdate
  <1>7. TypeOK'
    <2>1. pc' \in [Threads -> Steps]
      BY <1>1, <1>2 DEF TypeOK, Steps
    <2> QED
      BY <1>2, <1>5, <1>6, <2>1 DEF TypeOK
  <1>8. StepsSound'
    BY <1>1, <1>2, <1>4 DEF StepsSound, Threads, Sending
  <1>9. SendInv'
    BY <1>2, <1>3, <1>4, SendFrame DEF Threads, Sending
  <1>10. BufferSound'
    BY <1>1, <1>2, <1>4, BufferFrame DEF Threads
  <1>11. ListsSound'
    <2>1. \A n \in Machines, c \in Boxes : listEmpty[n][c] \subseteq Users
      BY DEF TypeOK
    <2>2. ASSUME NEW n \in Machines, NEW c \in Boxes, NEW w \in listEmpty'[n][c]
          PROVE  pc'[w] = "wait" /\ mail'[w].box = c /\ Home[w] = n
      <3>1. CASE w = u
        <4>1. u \notin listEmpty[n][c]
          BY <1>3 DEF ListInv, ListsSound
        <4> QED
          BY <3>1, <4>1, <1>2, <1>4, <1>6, <2>2
      <3>2. CASE w # u
        <4>1. w \in listEmpty[n][c]
          BY <3>2, <1>6, <2>2
        <4> QED
          BY <3>2, <4>1, <1>2, <1>4, <2>1 DEF ListInv, ListsSound, Threads
      <3> QED
        BY <3>1, <3>2
    <2> QED
      BY <1>2, <2>2 DEF ListInv, ListsSound
  <1> QED
    BY <1>5, <1>7, <1>8, <1>9, <1>10, <1>11 DEF ListInv

LEMMA ListTakeInd ==
    ASSUME IInv, NEW u \in Users, ListRemove(u), list[Home[u]][mail[u].box] # << >>
    PROVE  IInv'
  <1> DEFINE m == Home[u]
             b == mail[u].box
             q == list[m][b]
  <1> USE HomeIsMachine DEF IInv, ListRemove, At, netVars
  <1>1. u \in Threads /\ u \notin Machines /\ m \in Machines /\ b \in Boxes
    BY DEF Threads, StepsSound, Listing
  <1>2. /\ list' = [list EXCEPT ![m][b] = Tail(q)]
        /\ mail' = [mail EXCEPT ![u] = Head(q)]
        /\ pc' = [pc EXCEPT ![u] = "unlock"]
        /\ UNCHANGED <<lock, listEmpty, sendLock, socket, inHdr, sendDone, messageAvailable,
                       messageSent, lossy, calls, sent>>
    BY DEF Goto
  <1>3. Owns(lock[m][b], u) /\ pc[u] = "remove" /\ q # << >>
    OBVIOUS
  <1> HIDE DEF ListRemove
  <1>4. /\ Head(q) \in Packet /\ Head(q).box = b
        /\ Tail(q) \in Seq(Packet) /\ \A i \in 1..Len(Tail(q)) : Tail(q)[i].box = b
    <2>1. q \in Seq(Packet) /\ \A i \in 1..Len(q) : q[i].box = b
      BY <1>1 DEF TypeOK, ListInv, ListsSound
    <2> QED
      BY <1>3, <2>1, MailTail
  <1>5. /\ pc'[u] = "unlock" /\ mail'[u] = Head(q)
        /\ \A t \in Threads \ {u} : pc'[t] = pc[t] /\ mail'[t] = mail[t]
    BY <1>1, <1>2 DEF TypeOK
  <1>6. /\ list' \in [Machines -> [Boxes -> Seq(Packet)]]
        /\ list'[m][b] = Tail(q)
        /\ \A n \in Machines, c \in Boxes : n # m \/ c # b => list'[n][c] = list[n][c]
    <2>1. list \in [Machines -> [Boxes -> Seq(Packet)]]
      BY DEF TypeOK
    <2> HIDE DEF m, b, q, IInv
    <2> QED
      BY <1>1, <1>2, <1>4, <2>1, BoxUpdate
  <1>7. TypeOK'
    <2>1. mail' \in [Threads -> Packet \cup {NoPacket} \cup Request]
      BY <1>1, <1>2, <1>4 DEF TypeOK
    <2>2. pc' \in [Threads -> Steps]
      BY <1>1, <1>2 DEF TypeOK, Steps
    <2> QED
      BY <1>2, <1>6, <2>1, <2>2 DEF TypeOK
  <1>8. StepsSound'
    BY <1>1, <1>4, <1>5 DEF StepsSound, Threads, Sending
  <1>9. SendInv'
    BY <1>2, <1>3, <1>5, SendFrame DEF Threads, Sending
  <1>10. BufferSound'
    BY <1>1, <1>2, <1>5, BufferFrame DEF Threads
  <1>11. ListLockSound'
    <2>1. \A t \in Threads, n \in Machines, c \in Boxes : Inside(t, n, c)' <=> Inside(t, n, c)
      BY <1>3, <1>4, <1>5 DEF Inside, Place
    <2>2. \A n \in Machines, c \in Boxes : n # m \/ c # b => ~Inside(u, n, c)
      BY <1>1 DEF Inside, Place
    <2> QED
      BY <1>2, <1>3, <1>5, <2>1, <2>2 DEF ListInv, ListLockSound
  <1>12. ListsSound'
    <2>1. \A n \in Machines, c \in Boxes : \A i \in 1..Len(list'[n][c]) : list'[n][c][i].box = c
      <3>1. ASSUME NEW n \in Machines, NEW c \in Boxes
            PROVE  \A i \in 1..Len(list'[n][c]) : list'[n][c][i].box = c
        <4>1. CASE n = m /\ c = b
          BY <1>4, <1>6, <4>1
        <4>2. CASE n # m \/ c # b
          <5>1. list'[n][c] = list[n][c]
            BY <1>6, <4>2
          <5>2. \A i \in 1..Len(list[n][c]) : list[n][c][i].box = c
            BY DEF ListInv, ListsSound
          <5> QED
            BY <5>1, <5>2
        <4> QED
          BY <4>1, <4>2
      <3> QED
        BY <3>1
    <2>2. \A n \in Machines, c \in Boxes : \A w \in listEmpty'[n][c] :
              pc'[w] = "wait" /\ mail'[w].box = c /\ Home[w] = n
      <3>1. ASSUME NEW n \in Machines, NEW c \in Boxes, NEW w \in listEmpty[n][c]
            PROVE  pc'[w] = "wait" /\ mail'[w].box = c /\ Home[w] = n
        <4>1. w \in Users /\ pc[w] = "wait" /\ mail[w].box = c /\ Home[w] = n
          BY DEF TypeOK, ListInv, ListsSound
        <4>2. w \in Threads \ {u}
          BY <1>3, <4>1 DEF Threads
        <4> QED
          BY <1>5, <4>1, <4>2
      <3> QED
        BY <1>2, <3>1
    <2> QED
      BY <2>1, <2>2 DEF ListsSound
  <1> QED
    BY <1>7, <1>8, <1>9, <1>10, <1>11, <1>12 DEF ListInv

-----------------------------------------------------------------------------
(* Theorems *)

LEMMA Initially == Init => IInv
  <1> SUFFICES ASSUME Init PROVE IInv
    OBVIOUS
  <1> USE DEF Init
  <1>1. TypeOK
    BY DEF TypeOK, Steps, Threads
  <1>2. StepsSound
    BY DEF StepsSound, Threads, Sending, Listing
  <1>3. SendInv
    <2>1. SendLockSound
      BY DEF SendLockSound, Distinct, Queued, Threads
    <2>2. OnePacketAtATime
      BY DEF OnePacketAtATime, Threads
    <2> QED
      BY <2>1, <2>2 DEF SendInv
  <1>4. BufferSound
    BY DEF BufferSound, Threads
  <1>5. ListInv
    <2>1. \A m \in Machines, b \in Boxes, t \in Threads : ~Inside(t, m, b)
      BY DEF Inside, Threads
    <2>2. ListLockSound
      BY <2>1 DEF ListLockSound, Distinct, Queued
    <2>3. ListsSound
      BY DEF ListsSound
    <2> QED
      BY <2>2, <2>3 DEF ListInv
  <1> QED
    BY <1>1, <1>2, <1>3, <1>4, <1>5 DEF IInv

LEMMA StutterInd ==
    ASSUME IInv, UNCHANGED vars
    PROVE  IInv'
  <1> USE DEF IInv, vars
  <1>1. TypeOK' /\ StepsSound'
    BY DEF TypeOK, StepsSound
  <1>2. SendInv'
    BY SendFrame
  <1>3. BufferSound'
    BY BufferFrame
  <1>4. ListInv'
    BY ListFrame DEF boxVars
  <1> QED
    BY <1>1, <1>2, <1>3, <1>4

LEMMA Inductive == IInv /\ [Next]_vars => IInv'
  <1> SUFFICES ASSUME IInv, [Next]_vars PROVE IInv'
    OBVIOUS
  <1>1. CASE UNCHANGED vars
    BY <1>1, StutterInd
  <1>2. ASSUME NEW m \in Machines, Interrupt(m) PROVE IInv'
    BY <1>2, SendDoneInd, CheckPktAvailInd DEF Interrupt
  <1>3. ASSUME NEW m \in Machines, PostalDelivery(m) PROVE IInv'
    BY <1>3, WorkerPInd, WorkerReceiveInd, ListAppendInd, AppendReleaseInd DEF PostalDelivery
  <1>4. ASSUME NEW u \in Users, Send(u) \/ Receive(u) \/ Continue(u) PROVE IInv'
    BY <1>4, SendInd, ReceiveInd, NetworkSendInd, SendPInd, SendReleaseInd,
       ListWaitInd, ListTakeInd, WaitAcquireInd, RemoveReleaseInd DEF Continue
  <1> QED
    BY <1>1, <1>2, <1>3, <1>4 DEF Next

LEMMA Invariant == Spec => []IInv
  BY Initially, Inductive, PTL DEF Spec

(* Every variable of the post office keeps its type. *)
THEOREM TypeCorrect == Spec => []TypeOK
  <1>1. IInv => TypeOK
    BY DEF IInv
  <1> QED
    BY <1>1, Invariant, PTL

(* The buffer holds a packet exactly while the postal worker is told of one. *)
THEOREM Buffer == Spec => []BufferSound
  <1>1. IInv => BufferSound
    BY DEF IInv
  <1> QED
    BY <1>1, Invariant, PTL

(* At most one packet of a machine is between Network::Send and the wire. *)
THEOREM OnePacket == Spec => []OnePacketAtATime
  <1>1. IInv => OnePacketAtATime
    BY DEF IInv, SendInv
  <1> QED
    BY <1>1, Invariant, PTL

(* sendLock and the locks of the mailboxes exclude. *)
THEOREM Locks == Spec => []LocksSound
  <1>1. IInv => LocksSound
    BY DEF IInv, SendInv, ListInv, LocksSound
  <1> QED
    BY <1>1, Invariant, PTL

-----------------------------------------------------------------------------
(* No receiver sleeps over mail.                                             *)

(* Whoever is in Receive and has no message yet holds what it asked for. *)
AskersSound ==
    \A u \in Users : pc[u] \in {"remove", "wait", "relock"} =>
        mail[u].box \in Boxes /\ mail[u] = Asked(u, mail[u].box)

LEMMA AskersInd ==
    ASSUME IInv, AskersSound, [Next]_vars
    PROVE  AskersSound'
  <1> USE DEF IInv, AskersSound, At, Goto, Threads
  <1>0. /\ pc \in [Threads -> Steps] /\ DOMAIN mail = Threads
        /\ mail = [t \in Threads |-> mail[t]]
        /\ Users \cap Machines = {}
    BY DEF TypeOK
  <1>1. CASE UNCHANGED vars
    BY <1>1 DEF vars
  <1>2. ASSUME NEW m \in Machines, Interrupt(m) PROVE AskersSound'
    BY <1>2 DEF Interrupt, SendDone, CheckPktAvail, ReadPacket
  <1>3. ASSUME NEW m \in Machines, PostalDelivery(m) PROVE AskersSound'
    <2>1. CASE WorkerP(m) \/ WorkerReceive(m) \/ AppendRelease(m)
      BY <1>0, <2>1 DEF WorkerP, WorkerReceive, AppendRelease
    <2>2. CASE ListAppend(m)
      <3>1. mail' = mail /\ m \notin Users
        BY <1>0, <2>2 DEF ListAppend
      <3>2. \A u \in Users : pc'[u] = pc[u] \/ (pc'[u] = "relock" /\ pc[u] = "wait")
        <4>1. mail[m].box \in Boxes
          BY <2>2, PacketFields DEF ListAppend, StepsSound
        <4>2. \A w \in listEmpty[m][mail[m].box] : pc[w] = "wait"
          BY <4>1 DEF ListInv, ListsSound
        <4> QED
          BY <1>0, <2>2, <4>2 DEF ListAppend, Woken
      <3> QED
        BY <3>1, <3>2
    <2> QED
      BY <1>3, <2>1, <2>2 DEF PostalDelivery
  <1>4. ASSUME NEW u \in Users, Send(u) \/ Receive(u) \/ Continue(u) PROVE AskersSound'
    <2>1. CASE Receive(u)
      BY <1>0, <2>1, PacketFields, PostOfficeAssumption DEF Receive
    <2>2. CASE ListRemove(u)
      BY <1>0, <2>2 DEF ListRemove
    <2>3. CASE Send(u) \/ NetworkSend(u) \/ SendP(u) \/ SendRelease(u) \/ WaitAcquire(u)
               \/ RemoveRelease(u)
      BY <1>0, <2>3 DEF Send, NetworkSend, SendP, SendRelease, WaitAcquire, RemoveRelease
    <2> QED
      BY <1>4, <2>1, <2>2, <2>3 DEF Continue
  <1> QED
    BY <1>1, <1>2, <1>3, <1>4 DEF Next

LEMMA ComingCounts ==
    ASSUME NEW m, NEW b
    PROVE  IsFiniteSet(Coming(m, b)) /\ Cardinality(Coming(m, b)) \in Nat
  <1>1. Coming(m, b) \in SUBSET Users
    BY DEF Coming
  <1> QED
    BY <1>1, FiniteUsers, FS_Subset, FS_CardinalityType

(* Where the lists are left alone and nobody leaves them, nobody who is on   *)
(* the way to a message turns away.                                          *)
LEMMA WakeupFrame ==
    ASSUME NoMissedWakeup, UNCHANGED <<list, listEmpty>>,
           \A m \in Machines, b \in Boxes : Coming(m, b) \subseteq Coming(m, b)',
           TypeOK
    PROVE  NoMissedWakeup'
  <1> SUFFICES ASSUME NEW m \in Machines, NEW b \in Boxes, listEmpty'[m][b] # {}
               PROVE  Len(list'[m][b]) <= Cardinality(Coming(m, b)')
    BY DEF NoMissedWakeup
  <1>1. Len(list[m][b]) <= Cardinality(Coming(m, b)) /\ Len(list[m][b]) \in Nat
    BY DEF NoMissedWakeup, TypeOK
  <1>2. Coming(m, b)' \in SUBSET Users
    BY DEF Coming
  <1>3. IsFiniteSet(Coming(m, b)') /\ Cardinality(Coming(m, b)') \in Nat
    BY <1>2, FiniteUsers, FS_Subset, FS_CardinalityType
  <1>4. Cardinality(Coming(m, b)) <= Cardinality(Coming(m, b)')
    BY <1>3, FS_Subset
  <1>5. Cardinality(Coming(m, b)) \in Nat
    BY ComingCounts
  <1> QED
    BY <1>1, <1>3, <1>4, <1>5

(* The worker's new mail is matched by the receiver it wakes. *)
LEMMA WakeupAppend ==
    ASSUME IInv, AskersSound, NoMissedWakeup, NEW m \in Machines, ListAppend(m)
    PROVE  NoMissedWakeup'
  <1>0. mail[m].box \in Boxes /\ mail[m] \in Packet /\ m \notin Users
    BY PacketFields DEF ListAppend, At, IInv, StepsSound
  <1> PICK b \in Boxes : b = mail[m].box
    BY <1>0
  <1>1. b \in Boxes /\ mail[m] \in Packet /\ m \notin Users /\ mail[m].box = b
    BY <1>0
  <1>2. /\ list' = [list EXCEPT ![m][b] = Append(list[m][b], mail[m])]
        /\ mail' = mail
    BY <1>1 DEF ListAppend
  <1>3. /\ list \in [Machines -> [Boxes -> Seq(Packet)]]
        /\ listEmpty \in [Machines -> [Boxes -> SUBSET Users]]
        /\ pc \in [Threads -> Steps]
    BY DEF IInv, TypeOK
  <1>4. \A n \in Machines, c \in Boxes :
            /\ n # m \/ c # b => list'[n][c] = list[n][c]
            /\ n = m /\ c = b => Len(list'[n][c]) = Len(list[n][c]) + 1
    BY <1>1, <1>2, <1>3
  <1>5. CASE Woken(m, b) = {}
    <2>1. \A u \in Users : pc'[u] = pc[u]
      BY <1>1, <1>3, <1>5 DEF ListAppend, Goto, Threads, Woken
    <2>2. \A n \in Machines, c \in Boxes : Coming(n, c)' = Coming(n, c)
      BY <1>2, <2>1 DEF Coming, Asked
    <2>3. listEmpty' = listEmpty /\ listEmpty[m][b] = {}
      BY <1>1, <1>5 DEF ListAppend, Woken
    <2> QED
      BY <1>4, <2>2, <2>3 DEF NoMissedWakeup
  <1>6. ASSUME NEW w \in Woken(m, b),
               listEmpty' = [listEmpty EXCEPT ![m][b] = @ \ {w}],
               pc' = [pc EXCEPT ![m] = "unlock", ![w] = "relock"]
        PROVE  NoMissedWakeup'
    <2>1. /\ w \in Users /\ w \in listEmpty[m][b]
          /\ pc[w] = "wait" /\ Home[w] = m /\ mail[w] = Asked(w, b)
      <3>1. w \in listEmpty[m][b] /\ w \in Users
        BY <1>1, <1>3, <1>6 DEF Woken
      <3>2. pc[w] = "wait" /\ mail[w].box = b /\ Home[w] = m
        BY <1>1, <3>1 DEF IInv, ListInv, ListsSound
      <3> QED
        BY <3>1, <3>2 DEF AskersSound
    <2>2. \A u \in Users : pc'[u] = IF u = w THEN "relock" ELSE pc[u]
      BY <1>1, <1>3, <1>6 DEF Threads
    <2>3. Coming(m, b)' = Coming(m, b) \cup {w} /\ w \notin Coming(m, b)
      BY <1>2, <2>1, <2>2 DEF Coming, Asked
    <2>4. \A n \in Machines, c \in Boxes : n # m \/ c # b => Coming(n, c)' = Coming(n, c)
      <3>1. \A c : Asked(w, c) = Asked(w, b) => c = b
        BY DEF Asked
      <3> QED
        BY <1>2, <2>1, <2>2, <3>1 DEF Coming, Asked
    <2>5. Cardinality(Coming(m, b)') = Cardinality(Coming(m, b)) + 1
      BY <2>3, ComingCounts, FS_AddElement
    <2>6. \A n \in Machines, c \in Boxes : /\ n # m \/ c # b => listEmpty'[n][c] = listEmpty[n][c]
                                           /\ listEmpty'[n][c] \subseteq listEmpty[n][c]
      BY <1>1, <1>3, <1>6
    <2>7. Len(list[m][b]) \in Nat /\ Cardinality(Coming(m, b)) \in Nat
      BY <1>1, <1>3, ComingCounts
    <2>8. Len(list[m][b]) <= Cardinality(Coming(m, b))
      BY <1>1, <2>1 DEF NoMissedWakeup
    <2>9. ASSUME NEW n \in Machines, NEW c \in Boxes, listEmpty'[n][c] # {}
          PROVE  Len(list'[n][c]) <= Cardinality(Coming(n, c)')
      <3>1. CASE n = m /\ c = b
        BY <1>4, <2>5, <2>7, <2>8, <3>1
      <3>2. CASE n # m \/ c # b
        BY <1>4, <2>4, <2>6, <2>9, <3>2 DEF NoMissedWakeup
      <3> QED
        BY <3>1, <3>2
    <2> QED
      BY <2>9 DEF NoMissedWakeup
  <1> QED
    BY <1>1, <1>5, <1>6 DEF ListAppend

(* A receiver goes to sleep when the list is empty, or takes a message with  *)
(* it and is no longer on its way to one.                                    *)
LEMMA WakeupRemove ==
    ASSUME IInv, AskersSound, NoMissedWakeup, NEW u \in Users, ListRemove(u)
    PROVE  NoMissedWakeup'
  <1>0. Home[u] \in Machines /\ mail[u].box \in Boxes /\ pc[u] = "remove"
        /\ mail[u] = Asked(u, mail[u].box)
    BY HomeIsMachine DEF ListRemove, At, AskersSound
  <1> PICK m \in Machines, b \in Boxes : m = Home[u] /\ b = mail[u].box
    BY <1>0
  <1>1. /\ m \in Machines /\ b \in Boxes /\ pc[u] = "remove" /\ mail[u] = Asked(u, b)
        /\ m = Home[u] /\ b = mail[u].box
    BY <1>0
  <1>2. /\ list \in [Machines -> [Boxes -> Seq(Packet)]]
        /\ listEmpty \in [Machines -> [Boxes -> SUBSET Users]]
        /\ pc \in [Threads -> Steps] /\ u \in Threads
        /\ mail \in [Threads -> Packet \cup {NoPacket} \cup Request]
    BY DEF IInv, TypeOK, Threads
  <1>3. \A v \in Users \ {u} : pc'[v] = pc[v] /\ mail'[v] = mail[v]
    BY <1>2 DEF ListRemove, Goto, Threads
  <1>4. pc'[u] \notin {"relock", "remove"}
    BY <1>2 DEF ListRemove, Goto
  <1>5. Coming(m, b)' = Coming(m, b) \ {u} /\ u \in Coming(m, b)
    BY <1>1, <1>3, <1>4 DEF Coming, Asked
  <1>6. \A n \in Machines, c \in Boxes : n # m \/ c # b => Coming(n, c)' = Coming(n, c)
    <2>1. \A c : Asked(u, c) = Asked(u, b) => c = b
      BY DEF Asked
    <2> QED
      BY <1>1, <1>3, <1>4, <2>1 DEF Coming, Asked
  <1>7. Cardinality(Coming(m, b)') = Cardinality(Coming(m, b)) - 1
    <2>1. IsFiniteSet(Coming(m, b))
      BY ComingCounts
    <2>2. Cardinality(Coming(m, b) \ {u}) = Cardinality(Coming(m, b)) - 1
      BY <1>5, <2>1, FS_RemoveElement
    <2> QED
      BY <1>5, <2>2
  <1>8. Cardinality(Coming(m, b)) \in Nat \ {0} /\ Len(list[m][b]) \in Nat
    BY <1>1, <1>2, <1>5, ComingCounts, FS_EmptySet
  <1>9. CASE list[m][b] = << >>
    <2>1. list' = list /\ listEmpty' = [listEmpty EXCEPT ![m][b] = @ \cup {u}]
      BY <1>1, <1>9 DEF ListRemove
    <2>2. \A n \in Machines, c \in Boxes : n # m \/ c # b => listEmpty'[n][c] = listEmpty[n][c]
      BY <1>1, <1>2, <2>1
    <2>3. Len(list'[m][b]) = 0
      BY <1>9, <2>1
    <2>4. ASSUME NEW n \in Machines, NEW c \in Boxes, listEmpty'[n][c] # {}
          PROVE  Len(list'[n][c]) <= Cardinality(Coming(n, c)')
      <3>1. CASE n = m /\ c = b
        BY <1>7, <1>8, <2>3, <3>1
      <3>2. CASE n # m \/ c # b
        BY <1>6, <2>1, <2>2, <2>4, <3>2 DEF NoMissedWakeup
      <3> QED
        BY <3>1, <3>2
    <2> QED
      BY <2>4 DEF NoMissedWakeup
  <1>10. CASE list[m][b] # << >>
    <2>1. listEmpty' = listEmpty /\ list' = [list EXCEPT ![m][b] = Tail(list[m][b])]
      BY <1>1, <1>10 DEF ListRemove
    <2>2. /\ Len(list'[m][b]) = Len(list[m][b]) - 1
          /\ \A n \in Machines, c \in Boxes : n # m \/ c # b => list'[n][c] = list[n][c]
      <3>1. /\ Tail(list[m][b]) \in Seq(Packet)
            /\ Len(Tail(list[m][b])) = Len(list[m][b]) - 1
        BY <1>1, <1>2, <1>10
      <3>2. /\ list'[m][b] = Tail(list[m][b])
            /\ \A n \in Machines, c \in Boxes : n # m \/ c # b => list'[n][c] = list[n][c]
        <4> DEFINE q == Tail(list[m][b])
        <4>1. q \in Seq(Packet) /\ list' = [list EXCEPT ![m][b] = q]
          BY <2>1, <3>1
        <4> HIDE DEF q
        <4>2. /\ list'[m][b] = q
              /\ \A n \in Machines, c \in Boxes : n # m \/ c # b => list'[n][c] = list[n][c]
          <5>1. list \in [Machines -> [Boxes -> Seq(Packet)]] /\ m \in Machines /\ b \in Boxes
            BY <1>1, <1>2
          <5> QED
            BY <4>1, <5>1, BoxUpdate
        <4> QED
          BY <4>2 DEF q
      <3> QED
        BY <3>1, <3>2
    <2>3. ASSUME NEW n \in Machines, NEW c \in Boxes, listEmpty'[n][c] # {}
          PROVE  Len(list'[n][c]) <= Cardinality(Coming(n, c)')
      <3>1. CASE n = m /\ c = b
        <4>1. Len(list[m][b]) <= Cardinality(Coming(m, b))
          BY <1>1, <2>1, <2>3, <3>1 DEF NoMissedWakeup
        <4> QED
          BY <1>7, <1>8, <2>2, <3>1, <4>1
      <3>2. CASE n # m \/ c # b
        BY <1>6, <2>1, <2>2, <2>3, <3>2 DEF NoMissedWakeup
      <3> QED
        BY <3>1, <3>2
    <2> QED
      BY <2>3 DEF NoMissedWakeup
  <1> QED
    BY <1>9, <1>10

LEMMA WakeupInd ==
    ASSUME IInv, AskersSound, NoMissedWakeup, [Next]_vars
    PROVE  NoMissedWakeup'
  <1> USE DEF At, Goto, boxVars
  <1>0. /\ TypeOK /\ pc \in [Threads -> Steps] /\ DOMAIN mail = Threads
        /\ mail = [t \in Threads |-> mail[t]]
        /\ Users \cap Machines = {}
    BY DEF TypeOK, IInv
  <1>1. CASE UNCHANGED vars
    BY <1>0, <1>1, WakeupFrame DEF vars, Coming, Asked
  <1>2. ASSUME NEW m \in Machines, Interrupt(m) PROVE NoMissedWakeup'
    <2>1. UNCHANGED <<list, listEmpty, pc, mail>>
      BY <1>2 DEF Interrupt, SendDone, CheckPktAvail, ReadPacket
    <2> QED
      BY <1>0, <2>1, WakeupFrame DEF Coming, Asked
  <1>3. ASSUME NEW m \in Machines, PostalDelivery(m) PROVE NoMissedWakeup'
    <2>1. CASE WorkerP(m) \/ WorkerReceive(m) \/ AppendRelease(m)
      <3>1. /\ UNCHANGED <<list, listEmpty>>
            /\ \A u \in Users : pc'[u] = pc[u] /\ mail'[u] = mail[u]
        BY <1>0, <2>1 DEF WorkerP, WorkerReceive, AppendRelease, Threads
      <3> QED
        BY <1>0, <3>1, WakeupFrame DEF Coming, Asked
    <2>2. CASE ListAppend(m)
      BY <2>2, WakeupAppend
    <2> QED
      BY <1>3, <2>1, <2>2 DEF PostalDelivery
  <1>4. ASSUME NEW u \in Users, Send(u) \/ Receive(u) \/ Continue(u) PROVE NoMissedWakeup'
    <2>1. CASE ListRemove(u)
      BY <2>1, WakeupRemove
    <2>2. CASE Send(u) \/ Receive(u) \/ NetworkSend(u) \/ SendP(u) \/ SendRelease(u)
               \/ WaitAcquire(u) \/ RemoveRelease(u)
      <3>1. /\ UNCHANGED <<list, listEmpty>>
            /\ \A v \in Users \ {u} : pc'[v] = pc[v] /\ mail'[v] = mail[v]
            /\ \/ pc[u] \notin {"relock", "remove"}
               \/ pc[u] = "relock" /\ pc'[u] = "remove" /\ mail'[u] = mail[u]
        BY <1>0, <2>2 DEF Send, Receive, NetworkSend, SendP, SendRelease, WaitAcquire,
                          RemoveRelease, Threads
      <3> QED
        BY <1>0, <3>1, WakeupFrame DEF Coming, Asked
    <2> QED
      BY <1>4, <2>1, <2>2 DEF Continue
  <1> QED
    BY <1>1, <1>2, <1>3, <1>4 DEF Next

(* While threads sleep in Receive on a mailbox, there are no more messages   *)
(* in it than woken or newly entered threads that will take them, whoever    *)
(* takes the mailbox's lock first.                                           *)
THEOREM NobodySleepsOverMail == Spec => []NoMissedWakeup
  <1>1. Init => AskersSound /\ NoMissedWakeup
    BY DEF Init, AskersSound, NoMissedWakeup, Threads
  <1>2. IInv /\ AskersSound /\ NoMissedWakeup /\ [Next]_vars => AskersSound' /\ NoMissedWakeup'
    BY AskersInd, WakeupInd
  <1> QED
    BY <1>1, <1>2, Invariant, PTL DEF Spec

-----------------------------------------------------------------------------
(* Mailboxes are FIFO queues.                                                *)

(* A packet that was not given to the network yet is new to it. *)
NewPackets ==
    /\ \A x \in sent : x.id <= calls
    /\ \A u \in Users : pc[u] = "network" =>
          /\ mail[u] \in Packet /\ mail[u].id <= calls /\ mail[u] \notin sent
          /\ \A v \in Users : pc[v] = "network" /\ mail[v] = mail[u] => v = u

LEMMA NewPacketsFrame ==
    ASSUME NewPackets, UNCHANGED <<calls, sent>>,
           \A u \in Users : pc'[u] = "network" => pc[u] = "network" /\ mail'[u] = mail[u]
    PROVE  NewPackets'
  BY DEF NewPackets

LEMMA NewPacketsInd ==
    ASSUME IInv, NewPackets, [Next]_vars
    PROVE  NewPackets'
  <1> USE DEF At, Goto, Threads
  <1>0. /\ pc \in [Threads -> Steps] /\ DOMAIN mail = Threads
        /\ mail = [t \in Threads |-> mail[t]]
        /\ Users \cap Machines = {} /\ calls \in Nat /\ MaxSends \in Nat
    BY DEF TypeOK, IInv
  <1>1. CASE UNCHANGED vars
    BY <1>1, NewPacketsFrame DEF vars
  <1>2. ASSUME NEW m \in Machines, Interrupt(m) PROVE NewPackets'
    BY <1>2, NewPacketsFrame DEF Interrupt, SendDone, CheckPktAvail, ReadPacket
  <1>3. ASSUME NEW m \in Machines, PostalDelivery(m) PROVE NewPackets'
    <2>1. CASE WorkerP(m) \/ WorkerReceive(m) \/ AppendRelease(m)
      BY <1>0, <2>1, NewPacketsFrame DEF WorkerP, WorkerReceive, AppendRelease
    <2>2. CASE ListAppend(m)
      <3>1. \A u \in Users : pc'[u] = pc[u] \/ pc'[u] = "relock"
        BY <1>0, <2>2 DEF ListAppend, Woken
      <3>2. UNCHANGED <<mail, calls, sent>>
        BY <2>2 DEF ListAppend
      <3> QED
        BY <3>1, <3>2, NewPacketsFrame
    <2> QED
      BY <1>3, <2>1, <2>2 DEF PostalDelivery
  <1>4. ASSUME NEW u \in Users, Send(u) \/ Receive(u) \/ Continue(u) PROVE NewPackets'
    <2>1. CASE Send(u)
      <3>1. PICK x \in Packet : mail' = [mail EXCEPT ![u] = x] /\ x.id = calls + 1
        <4>1. PICK m \in Machines, b \in Boxes :
                  mail' = [mail EXCEPT ![u] = [id |-> calls + 1, to |-> m, box |-> b]]
          BY <2>1 DEF Send
        <4>2. calls + 1 \in 1..MaxSends
          BY <1>0, <2>1 DEF Send
        <4> DEFINE x == [id |-> calls + 1, to |-> m, box |-> b]
        <4>3. x \in Packet /\ x.id = calls + 1
          BY <4>2 DEF Packet
        <4>4. mail' = [mail EXCEPT ![u] = x]
          BY <4>1
        <4> HIDE DEF x
        <4> QED
          BY <4>3, <4>4
      <3>2. calls' = calls + 1 /\ sent' = sent /\ sent \subseteq Packet
        BY <2>1 DEF Send, IInv, TypeOK
      <3>3. \A v \in Users : pc'[v] = IF v = u THEN "network" ELSE pc[v]
        BY <1>0, <2>1 DEF Send
      <3>4. \A v \in Users : mail'[v] = IF v = u THEN x ELSE mail[v]
        BY <1>0, <3>1
      <3>5. \A y \in Packet : y.id \in Nat
        BY <1>0 DEF Packet
      <3>6. \A y \in sent' : y.id <= calls'
        BY <1>0, <3>2, <3>5 DEF NewPackets
      <3>7. ASSUME NEW v \in Users, pc'[v] = "network"
            PROVE  /\ mail'[v] \in Packet /\ mail'[v].id <= calls' /\ mail'[v] \notin sent'
                   /\ \A w \in Users : pc'[w] = "network" /\ mail'[w] = mail'[v] => w = v
        <4>1. \A w \in Users : w # u /\ pc'[w] = "network" =>
                  mail'[w] = mail[w] /\ mail[w] \in Packet /\ mail[w].id <= calls
          BY <3>3, <3>4 DEF NewPackets
        <4>2. ASSUME NEW w \in Users, w # u, pc'[w] = "network" PROVE mail'[w] # x
          <5>1. mail[w] \in Packet /\ mail[w].id <= calls /\ mail'[w] = mail[w]
            BY <4>1, <4>2
          <5>2. mail[w].id \in Nat
            BY <3>5, <5>1
          <5>3. mail[w].id # x.id
            BY <1>0, <3>1, <5>1, <5>2
          <5> QED
            BY <5>1, <5>3
        <4>3. x \notin sent
          BY <1>0, <3>1 DEF NewPackets
        <4>4. CASE v = u
          BY <1>0, <3>1, <3>2, <3>4, <4>2, <4>3, <4>4
        <4>5. CASE v # u
          BY <1>0, <3>1, <3>2, <3>3, <3>4, <3>5, <3>7, <4>1, <4>2, <4>5 DEF NewPackets
        <4> QED
          BY <4>4, <4>5
      <3> QED
        BY <3>6, <3>7 DEF NewPackets
    <2>2. CASE NetworkSend(u)
      <3>1. /\ pc[u] = "network" /\ sent' = sent \cup {mail[u]} /\ mail' = mail /\ calls' = calls
            /\ \A v \in Users : pc'[v] = "network" => pc[v] = "network" /\ v # u
        BY <1>0, <2>2 DEF NetworkSend
      <3> QED
        BY <3>1 DEF NewPackets
    <2>3. CASE Receive(u) \/ SendP(u) \/ SendRelease(u)
               \/ ListRemove(u) \/ WaitAcquire(u) \/ RemoveRelease(u)
      <3>1. /\ UNCHANGED <<calls, sent>>
            /\ pc'[u] # "network"
            /\ \A v \in Users \ {u} : pc'[v] = pc[v] /\ mail'[v] = mail[v]
        BY <1>0, <2>3 DEF Receive, SendP, SendRelease, ListRemove, WaitAcquire, RemoveRelease
      <3> QED
        BY <3>1, NewPacketsFrame
    <2> QED
      BY <1>4, <2>1, <2>2, <2>3 DEF Continue
  <1> QED
    BY <1>1, <1>2, <1>3, <1>4 DEF Next

(* The mailbox that other machines see, and the packets a mailbox can hold. *)
Mapped(m, b) == list[m][b] \o Carried(m, b) \o Buffered(m, b) \o Waiting(m, b)

MailFor(b) == {x \in Packet : x.box = b}

LEMMA MapTyped ==
    ASSUME TypeOK, StepsSound, NEW m \in Machines, NEW b \in Boxes
    PROVE  /\ list[m][b] \in Seq(Packet) /\ Carried(m, b) \in Seq(Packet)
           /\ Buffered(m, b) \in Seq(Packet) /\ Waiting(m, b) \in Seq(Packet)
           /\ Mapped(m, b) \in Seq(Packet)
  <1>1. list[m][b] \in Seq(Packet)
    BY DEF TypeOK
  <1>2. Carried(m, b) \in Seq(Packet)
    BY DEF StepsSound, Carried
  <1>3. Buffered(m, b) \in Seq(Packet)
    BY DEF TypeOK, Buffered
  <1>4. Waiting(m, b) \in Seq(Packet)
    <2>1. socket[m] \in Seq(Packet)
      BY DEF TypeOK
    <2> QED
      BY <2>1, FilterSeq DEF Waiting
  <1> QED
    BY <1>1, <1>2, <1>3, <1>4 DEF Mapped

LEMMA MapFrame ==
    ASSUME NEW m, NEW b, list'[m][b] = list[m][b],
           Carried(m, b)' = Carried(m, b), Buffered(m, b)' = Buffered(m, b),
           Waiting(m, b)' = Waiting(m, b)
    PROVE  Mapped(m, b)' = Mapped(m, b)
  BY DEF Mapped

(* A table that differs from another in one mailbox at most. *)
LEMMA TableUpdate ==
    ASSUME NEW f, f = [n \in Machines |-> [c \in Boxes |-> f[n][c]]],
           NEW g, g = [n \in Machines |-> [c \in Boxes |-> g[n][c]]],
           NEW m \in Machines, NEW b \in Boxes,
           \A n \in Machines, c \in Boxes :
               g[n][c] = IF n = m /\ c = b THEN g[m][b] ELSE f[n][c]
    PROVE  /\ g = [f EXCEPT ![m][b] = g[m][b]]
           /\ g[m][b] = f[m][b] => g = f
  <1>1. ASSUME NEW n \in Machines PROVE f[n] = [c \in Boxes |-> f[n][c]]
    OBVIOUS
  <1>2. ASSUME NEW n \in Machines PROVE g[n] = [c \in Boxes |-> g[n][c]]
    OBVIOUS
  <1>3. g[m] = [f[m] EXCEPT ![b] = g[m][b]]
    BY <1>1, <1>2
  <1>4. \A n \in Machines : n # m => g[n] = f[n]
    BY <1>1, <1>2
  <1>5. g = [f EXCEPT ![m] = [f[m] EXCEPT ![b] = g[m][b]]]
    BY <1>3, <1>4
  <1>6. g[m][b] = f[m][b] => g[m] = f[m]
    BY <1>1, <1>2
  <1> QED
    BY <1>4, <1>5, <1>6

(* What a step does to the mailboxes, in the words of Mailboxes. *)
Stays == /\ \A m \in Machines, b \in Boxes : Mapped(m, b)' = Mapped(m, b)
         /\ UNCHANGED <<sent, lossy>>

Sends == \E m \in Machines, b \in Boxes, x \in Packet :
            /\ x \notin sent /\ sent' = sent \cup {x} /\ lossy' = lossy
            /\ \/ Mapped(m, b)' = Append(Mapped(m, b), x)
               \/ lossy /\ Mapped(m, b)' = Mapped(m, b)
            /\ \A n \in Machines, c \in Boxes : n # m \/ c # b => Mapped(n, c)' = Mapped(n, c)

Receives == \E m \in Machines, b \in Boxes :
            /\ Mapped(m, b) # << >> /\ Mapped(m, b)' = Tail(Mapped(m, b))
            /\ \A n \in Machines, c \in Boxes : n # m \/ c # b => Mapped(n, c)' = Mapped(n, c)
            /\ UNCHANGED <<sent, lossy>>

LEMMA MapSend ==
    ASSUME IInv, NewPackets, NEW u \in Users, NetworkSend(u)
    PROVE  Sends
  <1> USE DEF At, Goto, Threads
  <1>0. /\ TypeOK /\ StepsSound
        /\ pc \in [Threads -> Steps] /\ Users \cap Machines = {}
        /\ socket \in [Machines -> Seq(Packet)]
    BY DEF TypeOK, IInv
  <1>1. PICK x \in Packet : x = mail[u]
    BY DEF NetworkSend, NewPackets
  <1>2. x.to \in Machines /\ x.box \in Boxes
    BY PacketFields
  <1>3. x \notin sent /\ sent' = sent \cup {x} /\ lossy' = lossy
    BY <1>1 DEF NetworkSend, NewPackets
  <1>4. \A m \in Machines, b \in Boxes :
            list'[m][b] = list[m][b] /\ Carried(m, b)' = Carried(m, b)
            /\ Buffered(m, b)' = Buffered(m, b)
    <2>1. \A m \in Machines : pc'[m] = pc[m]
      BY <1>0 DEF NetworkSend
    <2>2. UNCHANGED <<list, mail, inHdr>>
      BY DEF NetworkSend, boxVars
    <2> QED
      BY <2>1, <2>2 DEF Carried, Buffered
  <1>5. CASE lossy /\ UNCHANGED socket
    <2>1. \A m \in Machines, b \in Boxes : Mapped(m, b)' = Mapped(m, b)
      BY <1>4, <1>5, MapFrame DEF Waiting
    <2> QED
      BY <1>2, <1>3, <1>5, <2>1 DEF Sends
  <1>6. CASE socket' = [socket EXCEPT ![x.to] = Append(@, x)]
    <2>1. ASSUME NEW m \in Machines, NEW b \in Boxes
          PROVE  Waiting(m, b)' = IF m = x.to /\ b = x.box THEN Append(Waiting(m, b), x)
                                                           ELSE Waiting(m, b)
      <3>1. CASE m = x.to
        <4>1. socket'[m] = Append(socket[m], x) /\ socket[m] \in Seq(Packet)
          BY <1>0, <1>6, <3>1
        <4>2. x \in MailFor(b) <=> b = x.box
          BY DEF MailFor
        <4>3. Filter(Append(socket[m], x), MailFor(b)) =
                  IF x \in MailFor(b) THEN Append(Filter(socket[m], MailFor(b)), x)
                                      ELSE Filter(socket[m], MailFor(b))
          <5> DEFINE q == socket[m]
                     S == MailFor(b)
          <5>1. q \in Seq(Packet)
            BY <4>1
          <5> HIDE DEF q, S
          <5>2. Filter(Append(q, x), S) = IF x \in S THEN Append(Filter(q, S), x) ELSE Filter(q, S)
            BY <5>1, FilterAppend
          <5> QED
            BY <5>2 DEF q, S
        <4> QED
          BY <3>1, <4>1, <4>2, <4>3 DEF Waiting, MailFor
      <3>2. CASE m # x.to
        BY <1>0, <1>6, <3>2 DEF Waiting
      <3> QED
        BY <3>1, <3>2
    <2>2. ASSUME NEW m \in Machines, NEW b \in Boxes, m # x.to \/ b # x.box
          PROVE  Mapped(m, b)' = Mapped(m, b)
      BY <1>4, <2>1, <2>2, MapFrame
    <2>3. PICK m \in Machines, b \in Boxes : m = x.to /\ b = x.box
      BY <1>2
    <2>4. Mapped(m, b)' = Append(Mapped(m, b), x)
      <3>1. Mapped(m, b)' = list[m][b] \o Carried(m, b) \o Buffered(m, b) \o Append(Waiting(m, b), x)
        BY <1>4, <2>1, <2>3 DEF Mapped
      <3> DEFINE l == list[m][b]
                 p == Carried(m, b)
                 q == Buffered(m, b)
                 w == Waiting(m, b)
      <3>2. l \in Seq(Packet) /\ p \in Seq(Packet) /\ q \in Seq(Packet) /\ w \in Seq(Packet)
        BY <1>0, MapTyped
      <3>3. Mapped(m, b) = l \o p \o q \o w /\ Mapped(m, b)' = l \o p \o q \o Append(w, x)
        BY <3>1 DEF Mapped
      <3> HIDE DEF l, p, q, w
      <3>4. l \o p \o q \in Seq(Packet)
        BY <3>2
      <3>5. \A y \in Seq(Packet) : y \o Append(w, x) = Append(y \o w, x)
        BY <3>2
      <3> QED
        BY <3>3, <3>4, <3>5
    <2>5. \A n \in Machines, c \in Boxes : n # m \/ c # b => Mapped(n, c)' = Mapped(n, c)
      BY <2>2, <2>3
    <2> QED
      BY <1>3, <2>4, <2>5 DEF Sends
  <1> QED
    BY <1>1, <1>5, <1>6 DEF NetworkSend

LEMMA MapPoll ==
    ASSUME IInv, NEW m \in Machines, CheckPktAvail(m)
    PROVE  Stays
  <1>0. /\ TypeOK /\ StepsSound
        /\ socket \in [Machines -> Seq(Packet)]
        /\ inHdr \in [Machines -> Packet \cup {NoPacket}]
    BY DEF TypeOK, IInv
  <1>1. UNCHANGED <<list, pc, mail, sent, lossy>>
    BY DEF CheckPktAvail, ReadPacket, boxVars
  <1>2. ASSUME NEW n \in Machines, NEW b \in Boxes PROVE Mapped(n, b)' = Mapped(n, b)
    <2>1. Carried(n, b)' = Carried(n, b) /\ list'[n][b] = list[n][b]
      BY <1>1 DEF Carried
    <2>2. CASE n # m
      <3>1. inHdr'[n] = inHdr[n] /\ socket'[n] = socket[n]
        BY <1>0, <2>2 DEF CheckPktAvail, ReadPacket
      <3> QED
        BY <2>1, <3>1, MapFrame DEF Buffered, Waiting
    <2>3. CASE n = m
      <3>1. PICK x \in Packet : x = Head(socket[m])
        BY <1>0 DEF CheckPktAvail, ReadPacket
      <3>2. /\ socket[m] # << >> /\ inHdr[m] = NoPacket
            /\ inHdr'[m] = x /\ socket'[m] = Tail(socket[m]) /\ x # NoPacket
        BY <1>0, <3>1 DEF CheckPktAvail, ReadPacket
      <3> DEFINE pre == IF x \in MailFor(b) THEN <<x>> ELSE << >>
                 l   == list[m][b]
                 p   == Carried(m, b)
                 w   == Waiting(m, b)'
      <3>3. Buffered(m, b) = << >> /\ Buffered(m, b)' = pre
        BY <3>2 DEF Buffered, MailFor
      <3>4. Waiting(m, b) = pre \o w
        <4>1. socket[m] \in Seq(Packet)
          BY <1>0
        <4>2. Filter(socket[m], MailFor(b)) =
                  (IF Head(socket[m]) \in MailFor(b) THEN <<Head(socket[m])>> ELSE << >>)
                      \o Filter(Tail(socket[m]), MailFor(b))
          BY <3>2, <4>1, FilterHead
        <4> QED
          BY <3>1, <3>2, <4>2 DEF Waiting, MailFor
      <3>5. l \in Seq(Packet) /\ p \in Seq(Packet) /\ pre \in Seq(Packet)
        BY <1>0, MapTyped
      <3>6. w \in Seq(Packet)
        <4>1. Tail(socket[m]) \in Seq(Packet)
          BY <1>0, <3>2
        <4> QED
          BY <3>2, <4>1, FilterSeq DEF Waiting
      <3>7. /\ Mapped(m, b) = l \o p \o << >> \o (pre \o w)
            /\ Mapped(m, b)' = l \o p \o pre \o w
        BY <2>1, <2>3, <3>3, <3>4 DEF Mapped
      <3> HIDE DEF pre, l, p, w
      <3>8. l \o p \in Seq(Packet) /\ (l \o p) \o << >> = l \o p
        BY <3>5
      <3>9. \A u, v, y \in Seq(Packet) : u \o (v \o y) = (u \o v) \o y
        BY Joined
      <3>10. (l \o p) \o (pre \o w) = ((l \o p) \o pre) \o w
        BY <3>5, <3>6, <3>8, <3>9
      <3> QED
        BY <2>3, <3>7, <3>8, <3>10
    <2> QED
      BY <2>2, <2>3
  <1> QED
    BY <1>1, <1>2 DEF Stays

LEMMA MapReceive ==
    ASSUME IInv, NEW m \in Machines, WorkerReceive(m)
    PROVE  Stays
  <1>0. /\ TypeOK /\ StepsSound /\ BufferSound
        /\ pc \in [Threads -> Steps] /\ DOMAIN mail = Threads
        /\ mail = [t \in Threads |-> mail[t]]
        /\ inHdr \in [Machines -> Packet \cup {NoPacket}]
        /\ messageAvailable[m] \in Nat
    BY DEF TypeOK, IInv
  <1>1. UNCHANGED <<list, socket, sent, lossy>>
    BY DEF WorkerReceive
  <1>2. inHdr[m] # NoPacket
    BY <1>0 DEF WorkerReceive, BufferSound, At
  <1>3. PICK x \in Packet : x = inHdr[m]
    BY <1>0, <1>2
  <1>4. /\ pc[m] = "receive" /\ pc'[m] = "append"
        /\ mail'[m] = x /\ inHdr'[m] = NoPacket
        /\ \A n \in Machines \ {m} : pc'[n] = pc[n] /\ mail'[n] = mail[n] /\ inHdr'[n] = inHdr[n]
    BY <1>0, <1>2, <1>3 DEF WorkerReceive, At, Goto, Threads
  <1>5. ASSUME NEW n \in Machines, NEW b \in Boxes PROVE Mapped(n, b)' = Mapped(n, b)
    <2>1. list'[n][b] = list[n][b] /\ Waiting(n, b)' = Waiting(n, b)
      BY <1>1 DEF Waiting
    <2>2. CASE n # m
      BY <1>4, <2>1, <2>2, MapFrame DEF Carried, Buffered
    <2>3. CASE n = m
      <3> DEFINE l == list[m][b]
                 p == Buffered(m, b)
                 w == Waiting(m, b)
      <3>1. Carried(m, b) = << >> /\ Carried(m, b)' = p /\ Buffered(m, b)' = << >>
        BY <1>2, <1>3, <1>4 DEF Carried, Buffered
      <3>2. l \in Seq(Packet) /\ p \in Seq(Packet) /\ w \in Seq(Packet)
        BY <1>0, MapTyped
      <3>3. /\ Mapped(m, b) = l \o << >> \o p \o w
            /\ Mapped(m, b)' = l \o p \o << >> \o w
        BY <2>1, <2>3, <3>1 DEF Mapped
      <3> HIDE DEF l, p, w
      <3>4. l \o << >> = l /\ l \o p \in Seq(Packet)
        BY <3>2
      <3>5. \A y \in Seq(Packet) : y \o << >> = y
        OBVIOUS
      <3> QED
        BY <2>3, <3>3, <3>4, <3>5
    <2> QED
      BY <2>2, <2>3
  <1> QED
    BY <1>1, <1>5 DEF Stays

LEMMA MapAppend ==
    ASSUME IInv, NEW m \in Machines, ListAppend(m)
    PROVE  Stays
  <1> USE DEF At, Goto
  <1>0. /\ TypeOK /\ StepsSound
        /\ pc \in [Threads -> Steps] /\ Users \cap Machines = {}
        /\ listEmpty \in [Machines -> [Boxes -> SUBSET Users]]
        /\ list \in [Machines -> [Boxes -> Seq(Packet)]]
    BY DEF TypeOK, IInv
  <1>1. UNCHANGED <<inHdr, socket, mail, sent, lossy>>
    BY DEF ListAppend, netVars
  <1>2. PICK x \in Packet : x = mail[m]
    BY <1>0 DEF ListAppend, StepsSound
  <1>3. PICK b \in Boxes : b = x.box
    BY PacketFields
  <1>4. /\ pc[m] = "append" /\ pc'[m] = "unlock"
        /\ \A n \in Machines \ {m} : pc'[n] = pc[n]
    <2>1. \A w \in Woken(m, b) : w \in Users
      BY <1>0 DEF Woken
    <2>2. mail[m].box = b
      BY <1>2, <1>3
    <2> QED
      BY <1>0, <2>1, <2>2 DEF ListAppend, Threads
  <1>5. /\ list'[m][b] = Append(list[m][b], x)
        /\ \A n \in Machines, c \in Boxes : n # m \/ c # b => list'[n][c] = list[n][c]
    <2>1. list[m][b] \in Seq(Packet)
      BY <1>0
    <2> DEFINE q == Append(list[m][b], x)
    <2>2. q \in Seq(Packet) /\ list' = [list EXCEPT ![m][b] = q]
      BY <1>2, <1>3, <2>1 DEF ListAppend
    <2> HIDE DEF q
    <2>3. /\ list'[m][b] = q
          /\ \A n \in Machines, c \in Boxes : n # m \/ c # b => list'[n][c] = list[n][c]
      BY <1>0, <2>2, BoxUpdate
    <2> QED
      BY <2>3 DEF q
  <1>6. ASSUME NEW n \in Machines, NEW c \in Boxes PROVE Mapped(n, c)' = Mapped(n, c)
    <2>1. Buffered(n, c)' = Buffered(n, c) /\ Waiting(n, c)' = Waiting(n, c)
      BY <1>1 DEF Buffered, Waiting
    <2>2. CASE n # m
      BY <1>1, <1>4, <1>5, <2>1, <2>2, MapFrame DEF Carried
    <2>3. CASE n = m /\ c # b
      BY <1>1, <1>2, <1>3, <1>4, <1>5, <2>1, <2>3, MapFrame DEF Carried
    <2>4. CASE n = m /\ c = b
      <3> DEFINE l == list[m][b]
                 p == Buffered(m, b)
                 w == Waiting(m, b)
      <3>1. Carried(m, b) = <<x>> /\ Carried(m, b)' = << >>
        BY <1>1, <1>2, <1>3, <1>4 DEF Carried
      <3>2. l \in Seq(Packet) /\ p \in Seq(Packet) /\ w \in Seq(Packet)
        BY <1>0, MapTyped
      <3>3. /\ Mapped(m, b) = l \o <<x>> \o p \o w
            /\ Mapped(m, b)' = Append(l, x) \o << >> \o p \o w
        BY <1>5, <2>1, <2>4, <3>1 DEF Mapped
      <3> HIDE DEF l, p, w
      <3>4. l \o <<x>> = Append(l, x) /\ Append(l, x) \o << >> = Append(l, x)
        BY <3>2
      <3> QED
        BY <2>4, <3>3, <3>4
    <2> QED
      BY <2>2, <2>3, <2>4
  <1> QED
    BY <1>1, <1>6 DEF Stays

LEMMA MapRemove ==
    ASSUME IInv, NEW u \in Users, ListRemove(u)
    PROVE  Stays \/ Receives
  <1> USE DEF At, Goto
  <1>0. /\ TypeOK /\ StepsSound
        /\ pc \in [Threads -> Steps] /\ Users \cap Machines = {}
        /\ mail = [t \in Threads |-> mail[t]] /\ DOMAIN mail = Threads
        /\ list \in [Machines -> [Boxes -> Seq(Packet)]]
    BY DEF TypeOK, IInv
  <1>1. UNCHANGED <<inHdr, socket, sent, lossy>>
    BY DEF ListRemove, netVars
  <1>2. \A n \in Machines : pc'[n] = pc[n] /\ mail'[n] = mail[n]
    <2>1. \E s \in Steps : pc' = [pc EXCEPT ![u] = s]
      BY DEF ListRemove, Steps
    <2>2. mail' = mail \/ \E x : mail' = [mail EXCEPT ![u] = x]
      BY DEF ListRemove
    <2> QED
      BY <1>0, <2>1, <2>2 DEF Threads
  <1>3. \A n \in Machines, c \in Boxes :
            /\ Carried(n, c)' = Carried(n, c) /\ Buffered(n, c)' = Buffered(n, c)
            /\ Waiting(n, c)' = Waiting(n, c)
    BY <1>1, <1>2 DEF Carried, Buffered, Waiting
  <1>4. PICK m \in Machines, b \in Boxes : m = Home[u] /\ b = mail[u].box
    <2>1. Home[u] \in Machines
      OBVIOUS
    <2>2. mail[u].box \in Boxes
      BY <1>0 DEF ListRemove, StepsSound, Listing
    <2> QED
      BY <2>1, <2>2
  <1>5. CASE list' = list
    <2>1. \A n \in Machines, c \in Boxes : Mapped(n, c)' = Mapped(n, c)
      BY <1>3, <1>5, MapFrame
    <2> QED
      BY <1>1, <2>1 DEF Stays
  <1>6. CASE list[m][b] # << >> /\ list' = [list EXCEPT ![m][b] = Tail(@)]
    <2> DEFINE l == list[m][b]
               r == Tail(l)
               p == Carried(m, b)
               q == Buffered(m, b)
               w == Waiting(m, b)
    <2>1. /\ l \in Seq(Packet) /\ l # << >> /\ r \in Seq(Packet)
          /\ list' = [list EXCEPT ![m][b] = r]
      BY <1>0, <1>6
    <2>2. p \in Seq(Packet) /\ q \in Seq(Packet) /\ w \in Seq(Packet)
      BY <1>0, MapTyped
    <2> HIDE DEF r
    <2>3. /\ list'[m][b] = r
          /\ \A n \in Machines, c \in Boxes : n # m \/ c # b => list'[n][c] = list[n][c]
      BY <1>0, <2>1, BoxUpdate
    <2>4. Mapped(m, b) = l \o p \o q \o w /\ Mapped(m, b)' = r \o p \o q \o w
      BY <1>3, <2>3 DEF Mapped
    <2>5. r = Tail(l)
      BY DEF r
    <2> HIDE DEF l, p, q, w
    <2>6. ASSUME NEW y \in Seq(Packet), NEW z \in Seq(Packet), y # << >>
          PROVE  /\ y \o z \in Seq(Packet) /\ y \o z # << >>
                 /\ Tail(y \o z) = Tail(y) \o z /\ Tail(y) \in Seq(Packet)
      BY <2>6
    <2> DEFINE lp == l \o p
               lpq == lp \o q
    <2>7. lp \in Seq(Packet) /\ lp # << >> /\ Tail(lp) = r \o p
      BY <2>1, <2>2, <2>5, <2>6
    <2> HIDE DEF lp
    <2>8. lpq \in Seq(Packet) /\ lpq # << >> /\ Tail(lpq) = r \o p \o q
      <3>1. Tail(lp \o q) = Tail(lp) \o q
        BY <2>2, <2>6, <2>7
      <3> QED
        BY <2>2, <2>6, <2>7, <3>1
    <2> HIDE DEF lpq
    <2>9. lpq \o w # << >> /\ Tail(lpq \o w) = r \o p \o q \o w
      <3>1. Tail(lpq \o w) = Tail(lpq) \o w
        BY <2>2, <2>6, <2>8
      <3> QED
        BY <2>2, <2>6, <2>8, <3>1
    <2>10. \A n \in Machines, c \in Boxes : n # m \/ c # b => Mapped(n, c)' = Mapped(n, c)
      BY <1>3, <2>3, MapFrame
    <2> QED
      BY <1>1, <2>4, <2>9, <2>10 DEF Receives, lp, lpq
  <1> QED
    BY <1>4, <1>5, <1>6 DEF ListRemove

LEMMA MapStays ==
    ASSUME UNCHANGED <<list, inHdr, socket, sent, lossy>>,
           \A m \in Machines : \/ pc'[m] = pc[m] /\ mail'[m] = mail[m]
                               \/ pc[m] # "append" /\ pc'[m] # "append"
    PROVE  Stays
  <1>1. \A n \in Machines, c \in Boxes :
            /\ Carried(n, c)' = Carried(n, c) /\ Buffered(n, c)' = Buffered(n, c)
            /\ Waiting(n, c)' = Waiting(n, c)
    BY DEF Carried, Buffered, Waiting
  <1>2. \A n \in Machines, c \in Boxes : Mapped(n, c)' = Mapped(n, c)
    BY <1>1, MapFrame
  <1> QED
    BY <1>2 DEF Stays

LEMMA MapStep ==
    ASSUME IInv, NewPackets, [Next]_vars
    PROVE  Stays \/ Sends \/ Receives
  <1> USE DEF At, Goto, Threads
  <1>0. /\ pc \in [Threads -> Steps] /\ DOMAIN mail = Threads
        /\ mail = [t \in Threads |-> mail[t]]
        /\ Users \cap Machines = {}
    BY DEF TypeOK, IInv
  <1>2. CASE UNCHANGED vars
    BY <1>2, MapStays DEF vars
  <1>3. ASSUME NEW m \in Machines, Interrupt(m) PROVE Stays
    <2>1. CASE SendDone(m)
      BY <2>1, MapStays DEF SendDone, boxVars
    <2> QED
      BY <1>3, <2>1, MapPoll DEF Interrupt
  <1>4. ASSUME NEW m \in Machines, PostalDelivery(m) PROVE Stays
    <2>1. CASE WorkerP(m) \/ AppendRelease(m)
      <3>1. /\ UNCHANGED <<list, inHdr, socket, sent, lossy, mail>>
            /\ \A n \in Machines : pc'[n] = pc[n] \/ (pc[n] # "append" /\ pc'[n] # "append")
        BY <1>0, <2>1 DEF WorkerP, AppendRelease, boxVars, netVars
      <3> QED
        BY <3>1, MapStays
    <2> QED
      BY <1>4, <2>1, MapReceive, MapAppend DEF PostalDelivery
  <1>5. ASSUME NEW u \in Users, Send(u) \/ Receive(u) \/ Continue(u)
        PROVE  Stays \/ Sends \/ Receives
    <2>1. CASE Send(u) \/ Receive(u) \/ SendP(u) \/ SendRelease(u)
               \/ WaitAcquire(u) \/ RemoveRelease(u)
      <3>1. UNCHANGED <<list, inHdr, socket, sent, lossy>>
        BY <2>1 DEF Send, Receive, SendP, SendRelease, WaitAcquire, RemoveRelease,
                    boxVars, netVars
      <3>2. \E s : pc' = [pc EXCEPT ![u] = s]
        BY <2>1 DEF Send, Receive, SendP, SendRelease, WaitAcquire, RemoveRelease
      <3>3. mail' = mail \/ \E x : mail' = [mail EXCEPT ![u] = x]
        BY <2>1 DEF Send, Receive, SendP, SendRelease, WaitAcquire, RemoveRelease
      <3>4. \A n \in Machines : pc'[n] = pc[n] /\ mail'[n] = mail[n]
        BY <1>0, <3>2, <3>3
      <3> QED
        BY <3>1, <3>4, MapStays
    <2> QED
      BY <1>5, <2>1, MapSend, MapRemove DEF Continue
  <1> QED
    BY <1>2, <1>3, <1>4, <1>5 DEF Next

(* Every mailbox is a FIFO queue from the Send on one machine to the Receive *)
(* on another: socket, buffer, postal worker and list lose no packet, repeat *)
(* none and do not reorder them, with any number of senders and receivers.   *)
THEOREM ImplementsMailboxes == Spec => MailboxesSpec
  <1> DEFINE mb == [m \in Machines |-> [b \in Boxes |->
                       list[m][b] \o Carried(m, b) \o Buffered(m, b) \o Waiting(m, b)]]
  <1>1. Init => NewPackets
    BY DEF Init, NewPackets, Threads
  <1>2. IInv /\ NewPackets /\ [Next]_vars => NewPackets'
    BY NewPacketsInd
  <1>3. Init => Mailboxes!Init
    <2> SUFFICES ASSUME Init PROVE Mailboxes!Init
      OBVIOUS
    <2>1. \A m \in Machines, b \in Boxes :
              list[m][b] = << >> /\ Carried(m, b) = << >> /\ Buffered(m, b) = << >>
      BY DEF Init, Carried, Buffered, Threads
    <2>2. \A m \in Machines, b \in Boxes : Waiting(m, b) = << >>
      BY FilterEmpty DEF Init, Waiting
    <2>3. \A m \in Machines, b \in Boxes :
              list[m][b] \o Carried(m, b) \o Buffered(m, b) \o Waiting(m, b) = << >>
      BY <2>1, <2>2
    <2> QED
      BY <2>3 DEF Init, Mailboxes!Init
  <1>4. IInv /\ NewPackets /\ [Next]_vars => [Mailboxes!Next]_<<mb, sent, lossy>>
    <2> SUFFICES ASSUME IInv, NewPackets, [Next]_vars
                 PROVE  [Mailboxes!Next]_<<mb, sent, lossy>>
      OBVIOUS
    <2>0. \A m \in Machines, b \in Boxes : mb[m][b] = Mapped(m, b) /\ mb'[m][b] = Mapped(m, b)'
      BY DEF Mapped
    <2>1. CASE Stays
      <3>1. mb' = mb
        BY <2>1 DEF Stays, Mapped
      <3> QED
        BY <2>1, <3>1 DEF Stays
    <2>4. /\ mb = [n \in Machines |-> [c \in Boxes |-> mb[n][c]]]
          /\ mb' = [n \in Machines |-> [c \in Boxes |-> mb'[n][c]]]
      OBVIOUS
    <2> HIDE DEF mb
    <2>2. CASE Sends
      <3>1. PICK m \in Machines, b \in Boxes, x \in Packet :
                /\ x \notin sent /\ sent' = sent \cup {x} /\ lossy' = lossy
                /\ \/ Mapped(m, b)' = Append(Mapped(m, b), x)
                   \/ lossy /\ Mapped(m, b)' = Mapped(m, b)
                /\ \A n \in Machines, c \in Boxes :
                      n # m \/ c # b => Mapped(n, c)' = Mapped(n, c)
        BY <2>2 DEF Sends
      <3>2. \/ mb' = [mb EXCEPT ![m][b] = Append(@, x)]
            \/ lossy /\ mb' = mb
        <4>1. /\ \A n \in Machines, c \in Boxes :
                    mb'[n][c] = IF n = m /\ c = b THEN mb'[m][b] ELSE mb[n][c]
              /\ mb'[m][b] = Append(mb[m][b], x) \/ (lossy /\ mb'[m][b] = mb[m][b])
          BY <2>0, <3>1
        <4> QED
          BY <2>4, <4>1, TableUpdate
      <3>3. Mailboxes!Send(m, b, x)
        BY <3>1, <3>2 DEF Mailboxes!Send, mb
      <3> QED
        BY <3>1, <3>3 DEF Mailboxes!Next, mb
    <2>3. CASE Receives
      <3>1. PICK m \in Machines, b \in Boxes :
                /\ Mapped(m, b) # << >> /\ Mapped(m, b)' = Tail(Mapped(m, b))
                /\ \A n \in Machines, c \in Boxes :
                      n # m \/ c # b => Mapped(n, c)' = Mapped(n, c)
                /\ UNCHANGED <<sent, lossy>>
        BY <2>3 DEF Receives
      <3>2. mb[m][b] # << >> /\ mb' = [mb EXCEPT ![m][b] = Tail(@)]
        <4>1. /\ mb[m][b] = Mapped(m, b) /\ mb'[m][b] = Mapped(m, b)'
              /\ Mapped(m, b) # << >> /\ Mapped(m, b)' = Tail(Mapped(m, b))
          BY <2>0, <3>1
        <4>2. mb[m][b] # << >> /\ mb'[m][b] = Tail(mb[m][b])
          BY <4>1, Zenon
        <4>3. \A n \in Machines, c \in Boxes :
                  mb'[n][c] = IF n = m /\ c = b THEN mb'[m][b] ELSE mb[n][c]
          BY <2>0, <3>1
        <4>4. mb' = [mb EXCEPT ![m][b] = mb'[m][b]]
          BY <2>4, <4>3, TableUpdate
        <4> QED
          BY <4>2, <4>4
      <3>3. Mailboxes!Receive(m, b)
        BY <3>1, <3>2 DEF Mailboxes!Receive, mb
      <3> QED
        BY <3>1, <3>3 DEF Mailboxes!Next, mb
    <2> QED
      BY <2>1, <2>2, <2>3, MapStep
  <1> QED
    BY <1>1, <1>2, <1>3, <1>4, Invariant, PTL DEF Spec, MailboxesSpec, Mailboxes!Spec

=============================================================================
