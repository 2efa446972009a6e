------------------------------ MODULE Reprint ------------------------------
(***************************************************************************)
(* The parser and the printer together: the tree of an accepted program is *)
(* printed (option -p of Alox::runString) and what was printed is parsed   *)
(* again, as a user may do with it.                                        *)
(***************************************************************************)
EXTENDS Parser

VARIABLE first     \* the tree that was printed, none before

allVars == <<vars, first>>

ReprintInit == Init /\ first = <<>>

(* A printed tree is one whose nodes are what they were read as.           *)
PrintAndParse ==
    /\ Accepted /\ first = <<>>
    /\ \A i \in 1..Len(ast) : ast[i].op = "read" => ast[i].k = "get"
    /\ first' = ast
    /\ previous' = "" /\ current' = "" /\ ast' = <<>> /\ source' = <<>>
    /\ todo' = <<Task("start"), Counting("script", 0)>>
    /\ supply' = [text |-> Printed(ast), tokens |-> {}, length |-> 0]
    /\ UNCHANGED error

Stopped == Ended /\ UNCHANGED allVars

ReprintNext == (Next /\ UNCHANGED first) \/ PrintAndParse \/ Stopped
ReprintSpec == ReprintInit /\ [][ReprintNext]_allVars /\ WF_vars(Next)

(* A node as it is printed: binary is in brackets, the brackets of the     *)
(* text are lost.  What they held may be too loose for its place, or be a  *)
(* property that becomes one with the call or the assignment after it.     *)
PrintedAs(node, parts) ==
    [k |-> IF node.k = "group" THEN parts[1].k ELSE node.k,
     tight |-> CASE node.k = "binary" -> 9
                 [] node.k = "group" -> parts[1].tight
                 [] OTHER -> Tightness(node),
     right |-> /\ \A i \in 1..node.n : parts[i].right
               /\ Binds(node, [i \in 1..node.n |-> parts[i].tight])
               /\ ~(node.k = "call" /\ parts[1].k \in {"get", "super"})
               /\ ~(node.k = "assign" /\ parts[1].k = "get")]

Bare(tree) ==
    LET nodes == SelectSeq(tree, LAMBDA node : node.k # "group")
    IN  [i \in 1..Len(nodes) |-> IF nodes[i].op = "read" THEN Node("get", "read", 2) ELSE nodes[i]]

(* What the printer writes parses, into the tree it was written from,      *)
(* exactly if that tree needs no brackets the printer does not write, and  *)
(* its numbers none but the six digits that an ostream writes (printer.cc: *)
(* 210 and 312).                                                           *)
PrintedTextReparses ==
    Ended /\ first # <<>> =>
        (/\ Walk(PrintedAs, first)[1].right
         /\ \A i \in 1..Len(first) : first[i].op \in Numbers => first[i].op = "NUMBER")
        <=> (Accepted /\ Bare(ast) = Bare(first))

=============================================================================
