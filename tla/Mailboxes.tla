------------------------------ MODULE Mailboxes ------------------------------
(***************************************************************************)
(* What the post office promises to the threads that send and receive:     *)
(* each mailbox of each machine is a FIFO queue.  A message is in its      *)
(* mailbox from the moment it is sent, or, on a network that loses         *)
(* packets, it never will be.  It leaves the mailbox once, in its turn.    *)
(* LockServers is written over mailboxes of this kind.                     *)
(***************************************************************************)
EXTENDS Sequences

CONSTANTS Machines, Boxes, Messages

VARIABLES mailbox,   \* the messages in each mailbox of each machine
          sent,      \* those sent so far
          lossy      \* the network may lose messages

Init ==
    /\ mailbox = [m \in Machines |-> [b \in Boxes |-> << >>]]
    /\ sent = {}
    /\ lossy \in BOOLEAN

Send(m, b, x) ==
    /\ x \notin sent
    /\ sent' = sent \cup {x}
    /\ \/ mailbox' = [mailbox EXCEPT ![m][b] = Append(@, x)]
       \/ lossy /\ UNCHANGED mailbox

Receive(m, b) ==
    /\ mailbox[m][b] # << >>
    /\ mailbox' = [mailbox EXCEPT ![m][b] = Tail(@)]
    /\ UNCHANGED sent

Next ==
    /\ \E m \in Machines, b \in Boxes :
           Receive(m, b) \/ \E x \in Messages : Send(m, b, x)
    /\ UNCHANGED lossy

Spec == Init /\ [][Next]_<<mailbox, sent, lossy>>
=============================================================================
