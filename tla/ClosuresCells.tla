--------------------------- MODULE ClosuresCells ----------------------------
(***************************************************************************)
(* Closures with the identity of each variable as history, to show that it *)
(* implements Cells.  A slot that becomes a local of some frame is a new   *)
(* variable for as long as it is one; what tells it from the variables the *)
(* slot was before is how many closures there are: to outlive its slot a   *)
(* variable has to be captured, by a closure made after it.  A closure     *)
(* remembers the variables it captured.                                    *)
(***************************************************************************)
EXTENDS Closures

VARIABLES
    names,      \* the variable in each slot that is a local
    captures    \* the variables of each closure's upvalues

historyVars == <<vars, names, captures>>

Window(frame) == frame.slots..frame.slots + frame.locals - 1
Locals(fs) == UNION {Window(fs[f]) : f \in 1..Len(fs)}
Variables == [slot : Slot, born : Nat]

Name ==
    names' = [slot \in Locals(frames') |->
                IF slot \in DOMAIN names THEN names[slot]
                ELSE [slot |-> slot, born |-> Len(closures)]]

Remember ==
    captures' =
        IF linking # <<>> THEN
            LET link == Head(linking) IN
            [captures EXCEPT ![Len(captures)] =
                Append(@, IF link.isLocal THEN names[Frame.slots + link.index]
                          ELSE captures[Frame.closure][link.index + 1])]
        ELSE IF Len(closures') > Len(closures) THEN Append(captures, <<>>)
        ELSE captures

HistoryInit == Init /\ names = <<>> /\ captures = <<>>
HistoryNext == Next /\ Name /\ Remember
HistorySpec == HistoryInit /\ [][HistoryNext]_historyVars

-----------------------------------------------------------------------------
(* The upvalues of the closures, each with the variable it stands for.     *)
Upvalue(c, k) == closures[c].upvalues[k]

Alive == {names[slot] : slot \in DOMAIN names}
Captured == UNION {{captures[c][k] : k \in 1..Len(captures[c])} : c \in 1..Len(captures)}
UpvaluesOf(x) ==
    UNION {{Upvalue(c, k) : k \in {j \in 1..Len(captures[c]) : captures[c][j] = x}} :
            c \in 1..Len(captures)}

(* A variable's value: in its slot while it has one, afterwards in an      *)
(* upvalue of a closure that captured it.                                  *)
ValueOf(x) ==
    IF x \in Alive THEN stack[x.slot] ELSE Content(CHOOSE u \in UpvaluesOf(x) : TRUE)

cells == [x \in Alive \cup Captured |-> ValueOf(x)]

C == INSTANCE Cells WITH captured <- Captured

(* Until an error empties the stack, upvalues and stack slots together     *)
(* behave as cells: captured variables outlive their frames and nothing    *)
(* but an assignment to a variable changes it (captureUpvalue,             *)
(* closeUpvalues, the handlers of CLOSURE, CLOSE_UPVALUE and RETURN).      *)
ImplementsCells == C!Init /\ [][errors' = 0 => C!Next]_(C!vars)

(* Until an error empties the stack, every closure sees the present value  *)
(* of each variable it captured, the one that the variable's own function  *)
(* and the other closures see.                                             *)
SharedValue ==
    errors = 0 =>
        \A c \in 1..Len(captures) : \A k \in 1..Len(captures[c]) :
            Content(Upvalue(c, k)) = ValueOf(captures[c][k])

-----------------------------------------------------------------------------
(* Why: the inductive invariant.                                           *)

(* The locals are the named slots, and a variable knows its slot; while a  *)
(* closure is being linked, all variables are older than it.               *)
NamesAreLocals ==
    /\ DOMAIN names = Locals(frames)
    /\ \A slot \in DOMAIN names :
        /\ names[slot] \in Variables /\ names[slot].slot = slot
        /\ names[slot].born <= Len(closures)
        /\ linking # <<>> => names[slot].born < Len(closures)

(* A closure has captured variables older than itself only.                *)
CapturesMatch ==
    /\ Len(captures) = Len(closures)
    /\ captures \in Seq(Seq(Variables))
    /\ \A c \in 1..Len(captures) :
        /\ Len(captures[c]) = Len(closures[c].upvalues)
        /\ \A k \in 1..Len(captures[c]) : captures[c][k].born < c

(* An open upvalue is at the slot of its variable, which is alive; that of *)
(* a closed upvalue is not.                                                *)
OpenWhileAlive ==
    \A c \in 1..Len(captures) : \A k \in 1..Len(captures[c]) :
        LET location == upvalues[Upvalue(c, k)].location IN
        IF location = CLOSED THEN captures[c][k] \notin Alive
        ELSE location \in DOMAIN names /\ captures[c][k] = names[location]

(* All closures that captured a variable have the same upvalue for it, and *)
(* no other variable has that one.                                         *)
OneUpvalueEach ==
    \A c, d \in 1..Len(captures) :
        \A k \in 1..Len(captures[c]), j \in 1..Len(captures[d]) :
            captures[c][k] = captures[d][j] <=> Upvalue(c, k) = Upvalue(d, j)

(* Inductive.  An error forgets the list of open upvalues and closes none: *)
(* from then on nothing is said.                                           *)
HistoryInv ==
    /\ Inv
    /\ errors = 0 => NamesAreLocals /\ CapturesMatch /\ OpenWhileAlive /\ OneUpvalueEach

=============================================================================
