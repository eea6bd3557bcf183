------------------------------ MODULE MCPaging ------------------------------
(* Two threads, of one process with all pages, or of two that have different *)
(* numbers of pages: page 0 of the one is taken for page 0 of the other.     *)
EXTENDS Paging, TLC

OneProcessLayouts ==
    {[space |-> [t \in Threads |-> p], pages |-> [q \in Processes |-> Pages]] :
        p \in Processes}

LastPage == CHOOSE v \in Pages : \A w \in Pages : w <= v

TwoProcessLayouts ==
    {[space |-> f, pages |-> [q \in Processes |-> IF q = p THEN Pages \ {LastPage} ELSE {0}]] :
        f \in {g \in [Threads -> Processes] : \E t, u \in Threads : g[t] # g[u]},
        p \in Processes}

AllLayouts == OneProcessLayouts \cup TwoProcessLayouts

Symmetry == Permutations(Threads) \cup Permutations(Processes) \cup Permutations(Values)
=============================================================================
