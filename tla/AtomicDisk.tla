------------------------------ MODULE AtomicDisk ------------------------------
(* What SynchDisk promises: every call reads or writes its sector at one      *)
(* moment between its start and its return, and every call returns.           *)
CONSTANTS Threads, Sectors, Values, None

VARIABLES store,    \* what the sectors hold
          call      \* per thread, its call: None between two of them

vars == <<store, call>>

Calls == [sector : Sectors, writing : BOOLEAN, data : Values, done : BOOLEAN]

Init == store \in [Sectors -> Values] /\ call = [t \in Threads |-> None]

Start(t) ==
    /\ call[t] = None
    /\ \E c \in Calls : ~c.done /\ call' = [call EXCEPT ![t] = c]
    /\ UNCHANGED store

Serve(t) ==
    LET c == call[t] IN
    /\ c # None /\ ~c.done
    /\ IF c.writing
       THEN /\ store' = [store EXCEPT ![c.sector] = c.data]
            /\ call' = [call EXCEPT ![t].done = TRUE]
       ELSE /\ call' = [call EXCEPT ![t].done = TRUE, ![t].data = store[c.sector]]
            /\ UNCHANGED store

Return(t) ==
    /\ call[t] # None /\ call[t].done
    /\ call' = [call EXCEPT ![t] = None]
    /\ UNCHANGED store

Next == \E t \in Threads : Start(t) \/ Serve(t) \/ Return(t)

Spec == /\ Init /\ [][Next]_vars
        /\ \A t \in Threads : WF_vars(Serve(t)) /\ WF_vars(Return(t))
===============================================================================
