------------------------------- MODULE Printer -------------------------------
(***************************************************************************)
(* The syntax trees of alox-cc and AST_Printer (printer.cc), which writes  *)
(* a tree as Lox (option -p, and the expected text of parse.test.cc).      *)
(*                                                                         *)
(* A tree is the sequence of its nodes in postfix order.  A node has a     *)
(* kind k, which stands for its AST class and the token it switches on, a  *)
(* text op, and the number n of the trees before it that are its fields.   *)
(* What is printed is a sequence of tokens, as the scanner will find them: *)
(* spaces, new lines and the indent are left out.                          *)
(***************************************************************************)
EXTENDS Integers, Sequences
LOCAL INSTANCE SequencesExt

Node(k, op, n) == [k |-> k, op |-> op, n |-> n]

(* A field that is a null pointer: a clause of for, the value of return.   *)
None == Node("none", "", 0)

(* The value of a tree, where Visit gives that of a node from the values   *)
(* of its fields.                                                          *)
Walk(Visit(_, _), ast) ==
    LET visit(done, node) ==
            LET rest == Len(done) - node.n IN
            Append(SubSeq(done, 1, rest), Visit(node, SubSeq(done, rest + 1, Len(done))))
    IN  FoldLeft(visit, <<>>, ast)

From(parts, i) == SubSeq(parts, i, Len(parts))
Texts(parts) == FlattenSeq([i \in 1..Len(parts) |-> parts[i].text])

(* args, and the parameters of a function: a comma before all but the      *)
(* first.                                                                  *)
Args(parts) ==
    LET item(i) == IF i = 1 THEN parts[i].text ELSE <<",">> \o parts[i].text
    IN  <<"(">> \o FlattenSeq([i \in 1..Len(parts) |-> item(i)]) \o <<")">>

(* decs_statement: a variable's declaration has its semicolon here, in a   *)
(* for it has that of the clause.                                          *)
Declarations(parts) ==
    FlattenSeq([i \in 1..Len(parts) |->
                    parts[i].text \o IF parts[i].k = "var" THEN <<";">> ELSE <<>>])

(* Numbers, by what their value looks like in an ostream, which writes six *)
(* digits of it: one that is written as it is, one of more digits, and one *)
(* like 1000000, written with an exponent, 1e+06.                          *)
Numbers == {"NUMBER", "LONG", "LARGE"}
Exponent == "e"

(* number: the scanner finds another number, or a number, a name, a plus   *)
(* and a number.                                                           *)
PrintNumber(op) ==
    IF op = "LARGE" THEN <<"NUMBER", Exponent, "+", "NUMBER">> ELSE <<"NUMBER">>

(* Mutant: operators are printed without brackets.                         *)
PrintBinaryBare(op, left, right) == left \o <<op>> \o right

PrintBinary(op, left, right) == <<"(">> \o left \o <<op>> \o right \o <<")">>

(* expr: brackets of the source are not in the tree, those of binary are   *)
(* the printer's own.                                                      *)
PrintExpr(node, parts) ==
    LET p(i) == parts[i].text IN
    CASE node.k = "literal" /\ node.op \in Numbers -> PrintNumber(node.op)
      [] node.k \in {"name", "literal", "this"} -> <<node.op>>
      [] node.k = "none" -> <<>>
      [] node.k = "group" -> p(1)
      [] node.k = "unary" -> <<node.op>> \o p(1)
      [] node.k = "binary" -> PrintBinary(node.op, p(1), p(2))
      [] node.k = "assign" -> p(1) \o <<"=">> \o p(2)
      [] node.k = "call" -> p(1) \o Args(From(parts, 2))
      [] node.k = "get" -> p(1) \o <<".">> \o p(2)
      [] node.k = "set" -> p(1) \o <<".">> \o p(2) \o <<"=">> \o p(3)
      [] node.k = "invoke" -> p(1) \o <<".">> \o p(2) \o Args(From(parts, 3))
      [] node.k = "super" -> <<"super", ".">> \o p(1)
      [] node.k = "superCall" -> <<"super", ".">> \o p(1) \o Args(From(parts, 2))

Expressions == {"name", "literal", "this", "none", "group", "unary", "binary", "assign", "call",
                "get", "set", "invoke", "super", "superCall"}

PrintStatement(node, parts) ==
    LET p(i) == parts[i].text IN
    CASE node.k = "expression" -> p(1) \o <<";">>
      [] node.k = "print" -> <<"print">> \o p(1) \o <<";">>
      [] node.k = "return" -> <<"return">> \o p(1) \o <<";">>
      [] node.k = "jump" -> <<node.op, ";">>
      [] node.k = "block" -> <<"{">> \o Declarations(parts) \o <<"}">>
      [] node.k = "if" -> <<"if", "(">> \o p(1) \o <<")">> \o p(2)
                          \o IF node.n = 3 THEN <<"else">> \o p(3) ELSE <<>>
      [] node.k = "while" -> <<"while", "(">> \o p(1) \o <<")">> \o p(2)
      [] node.k = "for" -> <<"for", "(">> \o p(1) \o <<";">> \o p(2) \o <<";">> \o p(3)
                           \o <<")">> \o p(4)

Statements == {"expression", "print", "return", "jump", "block", "if", "while", "for"}

PrintDeclaration(node, parts) ==
    LET p(i) == parts[i].text
        signature == p(1) \o Args(SubSeq(parts, 2, node.n - 1)) \o p(node.n)
    IN  CASE node.k = "var" -> <<"var">> \o p(1) \o IF node.n = 2 THEN <<"=">> \o p(2) ELSE <<>>
          [] node.k = "function" -> <<"fun">> \o signature
          [] node.k = "method" -> signature
          [] node.k = "class" -> <<"class">> \o p(1) \o <<"{">> \o Texts(From(parts, 2)) \o <<"}">>
          [] node.k = "subclass" -> <<"class">> \o p(1) \o <<"<">> \o p(2) \o <<"{">>
                                    \o Texts(From(parts, 3)) \o <<"}">>
          [] node.k = "script" -> Declarations(parts)

PrintNode(node, parts) ==
    [k |-> node.k,
     text |-> CASE node.k \in Expressions -> PrintExpr(node, parts)
                [] node.k \in Statements -> PrintStatement(node, parts)
                [] OTHER -> PrintDeclaration(node, parts)]

(* The text of a whole tree (AST_Printer::print).                          *)
Printed(ast) == Walk(PrintNode, ast)[1].text

=============================================================================
