----------------------------- MODULE MCDispatch -----------------------------
(* A finite instance of Dispatch: methods take an argument, initializers   *)
(* and functions none.                                                     *)
EXTENDS Dispatch

CONSTANTS name

MCArity == [x \in Names \cup {FUN} |-> IF x \in Names \ {initString} THEN 1 ELSE 0]

=============================================================================
