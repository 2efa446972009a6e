------------------------------- MODULE Cells --------------------------------
(***************************************************************************)
(* What the upvalues of the virtual machine promise: a variable is a cell, *)
(* whoever reaches it.  It begins with a value, changes only when it is    *)
(* assigned, one variable at a time, and it may be forgotten with the      *)
(* block or the call that declared it, but never after a closure has       *)
(* captured it.                                                            *)
(***************************************************************************)
VARIABLES
    cells,      \* the value of each variable that exists
    captured    \* the variables some closure refers to

vars == <<cells, captured>>

Same(variables) == \A x \in variables : cells'[x] = cells[x]

Init == DOMAIN cells = {} /\ captured = {}

Declare ==
    /\ DOMAIN cells \subseteq DOMAIN cells'
    /\ Same(DOMAIN cells)
    /\ UNCHANGED captured

Assign ==
    /\ DOMAIN cells' = DOMAIN cells
    /\ \E x \in DOMAIN cells : Same(DOMAIN cells \ {x})
    /\ UNCHANGED captured

Capture ==
    /\ \E x \in DOMAIN cells : captured' = captured \cup {x}
    /\ UNCHANGED cells

Forget ==
    /\ captured \subseteq DOMAIN cells'
    /\ DOMAIN cells' \subseteq DOMAIN cells
    /\ Same(DOMAIN cells')
    /\ UNCHANGED captured

Next == Declare \/ Assign \/ Capture \/ Forget

Spec == Init /\ [][Next]_vars

=============================================================================
