----------------------------- MODULE MCClosures -----------------------------
(***************************************************************************)
(* A finite instance of ClosuresCells: two families of behaviours.         *)
(***************************************************************************)
EXTENDS ClosuresCells

Arities == {closures[c].arity : c \in 1..Len(closures)}

(* The script and one function, which may capture two variables, and has a *)
(* parameter where no global variable is used; with a runtime error.       *)
OneFunction == Len(closures) <= 2 /\ (globals = <<>> \/ Arities \subseteq {0})

(* Two functions, for a variable captured twice, or captured and handed on *)
(* to a function inside; or two lines of input.                            *)
TwoFunctions ==
    /\ globals = <<>> /\ errors = 0 /\ Arities \subseteq {0}
    /\ \A c \in 1..Len(closures) : Len(closures[c].upvalues) <= 1
    /\ Len(linking) <= 1

Families == OneFunction \/ TwoFunctions

=============================================================================
