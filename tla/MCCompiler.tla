----------------------------- MODULE MCCompiler -----------------------------
(* Finite instances of Compiler: the families of programs of each run.     *)
EXTENDS CompilerStack, TLC

CONSTANTS a, b, d
AllNames == {a, b, d}
Interchangeable == Permutations({a, b})     \* d is not: families use it alone

Programs(syntax, names, nodes, arguments) ==
    [syntax |-> syntax, names |-> names, nodes |-> nodes, arguments |-> arguments]

ClassSyntax == {"class", "inherit", "method", "fun", "block", "this", "super", "call", "dot",
                "name", "exprStatement", "return"}

Scopes == Programs({"var", "fun", "block", "name", "assign", "exprStatement"}, {a, b}, 4, 1)
Expressions == Programs({"var", "fun", "block", "name", "assign", "unary", "binary",
    "logic", "exprStatement", "print"}, {a, b}, 3, 1)
Classes == Programs(ClassSyntax, {a, b}, 4, 0)
Methods == Programs(ClassSyntax, {a, b}, 3, 1)
Subclasses == Programs({"class", "inherit", "method", "block", "this", "super"}, {a, b}, 5, 0)
Flows == Programs({"var", "block", "if", "while", "for", "logic", "exprStatement"}, {d}, 3, 0)
Returns == Programs({"var", "fun", "block", "if", "while", "return"}, {d}, 3, 0)
Branches == Programs({"var", "block", "if", "while", "exprStatement"}, {d}, 4, 0)
Whiles == Programs({"var", "block", "while", "if", "break", "continue"}, {d}, 4, 0)
Fors == Programs({"var", "block", "for", "break", "continue"}, {d}, 3, 0)
Targets == Programs({"var", "block", "while", "for", "forExpr", "if", "break", "continue",
    "exprStatement", "assign", "target"}, {d}, 2, 0)

Everything == {Scopes, Expressions, Classes, Methods, Subclasses, Flows,
               Returns, Branches, Whiles, Fors, Targets}

(* The least a program needs to meet each of the findings.                 *)
BreakLoop == {Programs({"while", "break", "exprStatement"}, {d}, 2, 0)}
ContinueBlock ==
    {Programs({"while", "block", "var", "if", "continue", "exprStatement"}, {d}, 5, 0)}
ForExpression == {Programs({"for", "forExpr", "exprStatement"}, {d}, 2, 0)}
=============================================================================
