------------------------------- MODULE Queues -------------------------------
(* The kernel's List of waiting threads, as a sequence. *)
EXTENDS Naturals, Sequences

(* t is one of the elements of the queue q. *)
Queued(q, t) == \E i \in 1..Len(q) : q[i] = t

Distinct(q) == \A i, j \in 1..Len(q) : q[i] = q[j] => i = j

(* The elements of q that are in S, in their order.  This is SelectSeq with  *)
(* its recursion written out, for the proofs to expand.                      *)
Filter(q, S) ==
    LET f[i \in 0..Len(q)] ==
            IF i = 0 THEN << >> ELSE IF q[i] \in S THEN Append(f[i - 1], q[i]) ELSE f[i - 1]
    IN  f[Len(q)]

=============================================================================
