------------------------------ MODULE Monitor ------------------------------
(***************************************************************************)
(* What the locks and the condition variables promise to the threads that  *)
(* call them: a Mesa monitor.  A lock has at most one holder.  Wait gives  *)
(* the lock up and joins the waiters of the condition in one step; Signal  *)
(* removes one waiter, which then has to enter like anybody else.          *)
(***************************************************************************)
CONSTANTS Threads, Locks, Conds

VARIABLES held,     \* the locks each thread holds
          waiters   \* the threads waiting on each condition

monitorVars == <<held, waiters>>

Init ==
    /\ held = [t \in Threads |-> {}]
    /\ waiters = [c \in Conds |-> {}]

Acquire(t, l) ==
    /\ \A u \in Threads : l \notin held[u]
    /\ held' = [held EXCEPT ![t] = @ \cup {l}]
    /\ UNCHANGED waiters

Release(t, l) ==
    /\ l \in held[t]
    /\ held' = [held EXCEPT ![t] = @ \ {l}]
    /\ UNCHANGED waiters

(* The code lets a thread that does not hold the lock wait, too. *)
Wait(t, c, l) ==
    /\ \A d \in Conds : t \notin waiters[d]
    /\ waiters' = [waiters EXCEPT ![c] = @ \cup {t}]
    /\ held' = [held EXCEPT ![t] = @ \ {l}]

Signal(c) ==
    /\ \E t \in waiters[c] : waiters' = [waiters EXCEPT ![c] = @ \ {t}]
    /\ UNCHANGED held

Next ==
    \/ \E t \in Threads, l \in Locks : Acquire(t, l) \/ Release(t, l)
    \/ \E t \in Threads, c \in Conds, l \in Locks : Wait(t, c, l)
    \/ \E c \in Conds : Signal(c)

Spec == Init /\ [][Next]_monitorVars
=============================================================================
