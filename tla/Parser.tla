------------------------------- MODULE Parser -------------------------------
(***************************************************************************)
(* The parser of alox-cc (parser.cc): recursive descent for declarations   *)
(* and statements, a table of precedences for expressions.                 *)
(*                                                                         *)
(* The C++ call stack is `todo', the calls and the rests of functions      *)
(* still to be done, next first.  Tokens are chosen when the scanner is    *)
(* asked for them, out of a family of programs: a behaviour is the parsing *)
(* of one text, and the state graph that of every text of the families.    *)
(* A token is its type, but for identifiers, which are their text, and     *)
(* numbers, which are how they are printed.                                *)
(*                                                                         *)
(* The tree is built in postfix order (Printer), with two additions for    *)
(* the properties: a node "group" where brackets were, and the op "read"   *)
(* of a property that is just read.  Once an error is reported the tree    *)
(* is not used, and is forgotten here.                                     *)
(***************************************************************************)
EXTENDS Printer, Grammar

CONSTANTS
    Names,      \* the texts of identifiers
    MAX_ARGS,   \* limit of arguments and of parameters (UINT8_MAX)
    Families,   \* bound: programs, by a text they begin with, the tokens that may
                \* follow it and how many
    MaxAfter    \* bound: tokens scanned after the first error

ASSUME ParserAssumption ==
    /\ MAX_ARGS \in Nat /\ MaxAfter \in Nat
    /\ Names \cap (Tokens \cup Numbers \cup {Exponent, "ERROR", ""}) = {}
    /\ \A family \in Families :
        /\ family.length \in Nat
        /\ family.text \in Seq((Names \cup Numbers \cup Tokens) \ {"IDENTIFIER", "EOFS"})
        /\ family.tokens \subseteq
                (Names \cup Numbers \cup Tokens \cup {"ERROR"}) \ {"IDENTIFIER", "EOFS"}

VARIABLES
    previous,   \* the token consumed last
    current,    \* the token looked at
    todo,       \* the rest of the parse
    ast,        \* the trees finished so far
    error,      \* the first error reported: panicMode keeps back the others
    supply,     \* what the scanner will still find in the text
    source      \* history: the tokens scanned, up to the first error

vars == <<previous, current, todo, ast, error, supply, source>>

NoError == [what |-> "none", at |-> 0]
Identifiers == Names \cup {Exponent}
Type(token) == CASE token \in Identifiers -> "IDENTIFIER"
                 [] token \in Numbers -> "NUMBER"
                 [] OTHER -> token

-----------------------------------------------------------------------------
(* Steps of the parser.  `problem' is the error that the step reports.     *)

Doing(k) == todo # <<>> /\ Head(todo).k = k
Task(k) == [k |-> k]
Counting(k, n) == [k |-> k, n |-> n]

FirstOf(errors) == IF errors = <<>> \/ error # NoError THEN error ELSE Head(errors)
Problem(what, at) == <<[what |-> what, at |-> at]>>
AtCurrent(what) == Problem(what, Len(source))           \* errorAtCurrent
AtPrevious(what) == Problem(what, Len(source) - 1)      \* error
NoProblem == <<>>

Build(nodes) == ast' = IF error' = NoError THEN ast \o nodes ELSE <<>>

(* Go on with these calls, without looking at another token.               *)
Proceed(tasks, nodes, problem) ==
    /\ todo' = tasks \o Tail(todo)
    /\ error' = FirstOf(problem)
    /\ Build(nodes)
    /\ source' = IF error = NoError THEN source ELSE <<>>
    /\ UNCHANGED <<previous, current, supply>>

(* The tokens that may come next, with what remains after each.            *)
Upcoming ==
    LET length == IF error # NoError /\ supply.length > MaxAfter THEN MaxAfter ELSE supply.length
    IN  IF supply.text # <<>>
        THEN {<<Head(supply.text), [supply EXCEPT !.text = Tail(@)]>>}
        ELSE {<<"EOFS", [supply EXCEPT !.length = 0]>>} \cup
             {<<t, [supply EXCEPT !.length = length - 1]>> :
                    t \in IF length = 0 THEN {} ELSE supply.tokens \ {"ERROR"}}

(* Text the scanner can make nothing of, in front of the next token.       *)
Garbled == IF "ERROR" \in supply.tokens THEN BOOLEAN ELSE {FALSE}

(* advance, then go on: an error of the scanner comes before that of the   *)
(* step, as errorAtCurrent is called by advance.                           *)
Advance(tasks, nodes, problem) ==
    \E next \in Upcoming, bad \in Garbled :
        /\ todo' = tasks \o Tail(todo)
        /\ previous' = current /\ current' = next[1] /\ supply' = next[2]
        /\ source' = IF error = NoError THEN Append(source, next[1]) ELSE <<>>
        /\ error' = FirstOf((IF bad THEN AtCurrent("lexical") ELSE <<>>) \o problem)
        /\ Build(nodes)

(* consume: after it the parse goes on in the same way, token or not.      *)
Consuming(type, tasks, nodes, problem) ==
    IF Type(current) = type
    THEN Advance(tasks, nodes, problem)
    ELSE Proceed(tasks, nodes, problem \o AtCurrent("syntax"))

Go(tasks) == Proceed(tasks, <<>>, NoProblem)
Take(tasks) == Advance(tasks, <<>>, NoProblem)

Consume(type, nodes) == [k |-> "consume", type |-> type, nodes |-> nodes]
Name == Task("name")

ConsumeToken ==
    Doing("consume") /\ Consuming(Head(todo).type, <<>>, Head(todo).nodes, NoProblem)

(* consume(IDENTIFIER) and then ident(), or previous.text.                 *)
ConsumeName ==
    Doing("name") /\ Consuming("IDENTIFIER", <<>>, <<Node("name", current, 0)>>, NoProblem)

BuildNode == Doing("build") /\ Proceed(<<>>, <<Head(todo).node>>, NoProblem)
Then(node) == [k |-> "build", node |-> node]

-----------------------------------------------------------------------------
(* Declarations.                                                           *)

Expr == [k |-> "parse", level |-> 1]

(* parse: matching the end of the text asks for another token behind it.   *)
Script ==
    /\ Doing("script")
    /\ LET n == Head(todo).n IN
        IF current = "EOFS"
        THEN Advance(<<>>, <<Node("script", "", n)>>, NoProblem)
        ELSE Go(<<Task("declaration"), Counting("script", n + 1)>>)

VarDeclaration == <<Name, Task("initializer")>>
FunDeclaration(kind) == <<Name, Consume("(", <<>>), [k |-> "parameters", kind |-> kind]>>
ClassDeclaration == <<Name, Task("inherit")>>

Declaration ==
    /\ Doing("declaration")
    /\ CASE current = "class" -> Take(ClassDeclaration)
         [] current = "fun" -> Take(FunDeclaration("function"))
         [] current = "var" -> Take(Append(VarDeclaration, Consume(";", <<>>)))
         [] OTHER -> Go(<<Task("statement")>>)

Initializer ==
    /\ Doing("initializer")
    /\ IF current = "="
       THEN Take(<<Expr, Then(Node("var", "", 2))>>)
       ELSE Proceed(<<>>, <<Node("var", "", 1)>>, NoProblem)

Body(kind, n) ==
    <<Consume(")", <<>>), Consume("{", <<>>), Counting("block", 0), Then(Node(kind, "", n + 2))>>

(* Mutant: a list of parameters is taken to have one.                      *)
ParametersNotEmpty ==
    /\ Doing("parameters")
    /\ Go(<<[k |-> "parameter", kind |-> Head(todo).kind, n |-> 0]>>)

Parameters ==
    /\ Doing("parameters")
    /\ LET kind == Head(todo).kind IN
        IF current = ")"
        THEN Go(Body(kind, 0))
        ELSE Go(<<[k |-> "parameter", kind |-> kind, n |-> 0]>>)

(* The parameter after n others: their number is compared before it grows. *)
Parameter ==
    /\ Doing("parameter")
    /\ Consuming("IDENTIFIER", <<[Head(todo) EXCEPT !.k = "moreParameters", !.n = @ + 1]>>,
                 <<Node("name", current, 0)>>,
                 IF Head(todo).n > MAX_ARGS THEN AtCurrent("too many parameters") ELSE <<>>)

MoreParameters ==
    /\ Doing("moreParameters")
    /\ IF current = ","
       THEN Take(<<[Head(todo) EXCEPT !.k = "parameter"]>>)
       ELSE Go(Body(Head(todo).kind, Head(todo).n))

Methods(kind, fields) == [k |-> "methods", kind |-> kind, n |-> fields]

Inherit ==
    /\ Doing("inherit")
    /\ IF current = "<"
       THEN Take(<<[k |-> "superclass", of |-> previous]>>)
       ELSE Go(<<Consume("{", <<>>), Methods("class", 1)>>)

(* The two names are compared also when there is no second one, but then   *)
(* an error has come first.                                                *)
Superclass ==
    /\ Doing("superclass")
    /\ Consuming("IDENTIFIER", <<Consume("{", <<>>), Methods("subclass", 2)>>,
                 <<Node("name", current, 0)>>,
                 IF current = Head(todo).of THEN AtCurrent("can't inherit from itself") ELSE <<>>)

MethodsOfClass ==
    /\ Doing("methods")
    /\ LET task == Head(todo) IN
        IF current \in {"}", "EOFS"}
        THEN Go(<<Consume("}", <<Node(task.kind, "", task.n)>>)>>)
        ELSE Go(FunDeclaration("method") \o <<[task EXCEPT !.n = @ + 1]>>)

-----------------------------------------------------------------------------
(* Statements: what follows the keyword that a statement begins with.      *)

Clause(end) == [k |-> "clause", end |-> end]

PrintStat == <<Expr, Consume(";", <<Node("print", "", 1)>>)>>
IfStat == <<Consume("(", <<>>), Expr, Consume(")", <<>>), Task("statement"), Task("else")>>
WhileStat ==
    <<Consume("(", <<>>), Expr, Consume(")", <<>>), Task("statement"), Then(Node("while", "", 2))>>
ForStat ==
    <<Consume("(", <<>>), Task("forInit"), Clause(";"), Clause(")"), Task("statement"),
      Then(Node("for", "", 4))>>
ReturnStat == <<Clause(";"), Then(Node("return", "", 1))>>
BreakStat(token) == <<Consume(";", <<Node("jump", token, 0)>>)>>
Block == <<Counting("block", 0)>>
ExprStatement == <<Expr, Consume(";", <<Node("expression", "", 1)>>)>>

Keyword == [print |-> PrintStat, for |-> ForStat, if |-> IfStat, return |-> ReturnStat,
            while |-> WhileStat, break |-> BreakStat("break"), continue |-> BreakStat("continue")]

Statement ==
    /\ Doing("statement")
    /\ CASE current \in DOMAIN Keyword -> Take(Keyword[current])
         [] current = "{" -> Take(Block)
         [] OTHER -> Go(ExprStatement)

(* Mutant: a block ends at its brace only.                                 *)
BlockPastTheEnd ==
    /\ Doing("block")
    /\ LET n == Head(todo).n IN
        IF current = "}"
        THEN Go(<<Consume("}", <<Node("block", "", n)>>)>>)
        ELSE Go(<<Task("declaration"), Counting("block", IF error = NoError THEN n + 1 ELSE n)>>)

InBlock ==
    /\ Doing("block")
    /\ LET n == Head(todo).n IN
        IF current \in {"}", "EOFS"}
        THEN Go(<<Consume("}", <<Node("block", "", n)>>)>>)
        ELSE Go(<<Task("declaration"), Counting("block", n + 1)>>)

Else ==
    /\ Doing("else")
    /\ IF current = "else"
       THEN Take(<<Task("statement"), Then(Node("if", "", 3))>>)
       ELSE Proceed(<<>>, <<Node("if", "", 2)>>, NoProblem)

ForInit ==
    /\ Doing("forInit")
    /\ IF current = "var"
       THEN Take(Append(VarDeclaration, Consume(";", <<>>)))
       ELSE Go(<<Clause(";")>>)

(* An expression that may be left out: of for and of return.               *)
OptionalExpr ==
    /\ Doing("clause")
    /\ LET end == Head(todo).end IN
        IF current = end
        THEN Advance(<<>>, <<None>>, NoProblem)
        ELSE Go(<<Expr, Consume(end, <<>>)>>)

-----------------------------------------------------------------------------
(* Expressions.                                                            *)

ASSIGNMENT == 1  OR == 2  AND == 3  EQUALITY == 4  COMPARISON == 5
TERM == 6  FACTOR == 7  UNARY == 8  CALL == 9

Precedence(t) ==
    CASE t = "=" -> ASSIGNMENT
      [] t = "or" -> OR
      [] t = "and" -> AND
      [] t \in {"==", "!="} -> EQUALITY
      [] t \in {"<", "<=", ">", ">="} -> COMPARISON
      [] t \in {"+", "-"} -> TERM
      [] t \in {"*", "/"} -> FACTOR
      [] t \in {"(", "."} -> CALL
      [] OTHER -> 0

Parse(level) == [k |-> "parse", level |-> level]
Infix(level) == [k |-> "infix", level |-> level]
CanAssign(level) == level <= ASSIGNMENT

Literals == Numbers \cup {"STRING", "true", "false", "nil"}
Leaf(t) == CASE t = "this" -> Node("this", t, 0)
             [] t \in Literals -> Node("literal", t, 0)
             [] OTHER -> Node("name", t, 0)

(* The prefix rule of a token: what it calls, where it has one.            *)
Prefixes == Literals \cup Identifiers \cup {"(", "-", "!", "this", "super"}
Grouping == <<Expr, Consume(")", <<Node("group", "", 1)>>)>>
Unary(t) == <<Parse(UNARY), Then(Node("unary", t, 1))>>
Super == <<Consume(".", <<>>), Name, Task("superArgs")>>

(* The table of rules has no entry for these: what getRule then reads is   *)
(* whatever lies behind the table.                                         *)
Jumps == {"break", "continue"}
NoRule == Jumps

(* parsePrecedence, to the end of its prefix rule.                         *)
ParsePrefix ==
    /\ Doing("parse")
    /\ LET level == Head(todo).level
           after(tasks) == tasks \o <<Infix(level)>>
       IN  \/ CASE current = "(" -> Take(after(Grouping))
                [] current \in {"-", "!"} -> Take(after(Unary(current)))
                [] current = "super" -> Take(after(Super))
                [] current \in Prefixes \ {"(", "-", "!", "super"} ->
                        Advance(after(<<>>), <<Leaf(current)>>, NoProblem)
                [] OTHER -> Advance(<<>>, <<>>, AtCurrent("syntax"))
           \/ current \in NoRule /\ Advance(<<Task("undefined")>>, <<>>, AtCurrent("undefined"))

(* Mutant: operators of one precedence lean to the right.                  *)
BinaryToTheRight(t) == <<Parse(Precedence(t)), Then(Node("binary", t, 2))>>

Binary(t) == <<Parse(Precedence(t) + 1), Then(Node("binary", t, 2))>>
Assign == <<Parse(ASSIGNMENT), Then(Node("assign", "", 2))>>
Arguments(node) == <<[k |-> "arguments", node |-> node]>>
Call == Arguments(Node("call", "", 1))
Dot(level) == <<Name, [k |-> "dot", level |-> level]>>

InfixRule(t, level) ==
    CASE t = "=" -> Assign
      [] t = "(" -> Call
      [] t = "." -> Dot(level)
      [] OTHER -> Binary(t)

(* Mutant: "=" is an error only where an assignment may stand.             *)
ParseInfixCanAssign ==
    /\ Doing("infix")
    /\ LET level == Head(todo).level IN
        CASE level <= Precedence(current) ->
                Take(Append(InfixRule(current, level), Infix(level)))
          [] level > Precedence(current) /\ CanAssign(level) /\ current = "=" ->
                Advance(<<>>, <<>>, AtCurrent("syntax"))
          [] OTHER -> Go(<<>>)

(* The loop of parsePrecedence, and the end of it.                         *)
ParseInfix ==
    /\ Doing("infix")
    /\ LET level == Head(todo).level IN
        CASE level <= Precedence(current) ->
                Take(Append(InfixRule(current, level), Infix(level)))
          [] level > Precedence(current) /\ current = "=" ->
                Advance(<<>>, <<>>, AtCurrent("syntax"))
          [] OTHER -> Go(<<>>)

(* dot, after the name.  Where a property is just read the token of the    *)
(* Dot is not set: its reader finds any, "(" and "=" among them.           *)
DotRest ==
    /\ Doing("dot")
    /\ CASE CanAssign(Head(todo).level) /\ current = "=" ->
                Take(<<Expr, Then(Node("set", "", 3))>>)
         [] current = "(" -> Take(Arguments(Node("invoke", "", 2)))
         [] OTHER -> \E k \in {"get", "invoke", "set"} :
                Proceed(<<>>, <<Node(k, "read", 2)>>, NoProblem)

SuperArgs ==
    /\ Doing("superArgs")
    /\ IF current = "("
       THEN Take(Arguments(Node("superCall", "", 1)))
       ELSE Proceed(<<>>, <<Node("super", "", 1)>>, NoProblem)

(* argumentList: node.n less what it has without arguments is their        *)
(* number.                                                                 *)
ArgumentList ==
    /\ Doing("arguments")
    /\ LET node == Head(todo).node IN
        IF current = ")"
        THEN Go(<<Consume(")", <<node>>)>>)
        ELSE Go(<<[k |-> "argument", node |-> node, n |-> 0]>>)

Argument ==
    /\ Doing("argument")
    /\ Proceed(<<Expr, [Head(todo) EXCEPT !.k = "moreArguments", !.n = @ + 1]>>, <<>>,
               IF Head(todo).n = MAX_ARGS THEN AtPrevious("too many arguments") ELSE <<>>)

MoreArguments ==
    /\ Doing("moreArguments")
    /\ LET task == Head(todo) IN
        IF current = ","
        THEN Take(<<[task EXCEPT !.k = "argument"]>>)
        ELSE Go(<<Consume(")", <<[task.node EXCEPT !.n = @ + task.n]>>)>>)

-----------------------------------------------------------------------------
(* parse() begins by asking for the first token.                           *)
Init ==
    /\ previous = "" /\ current = ""
    /\ todo = <<Task("start"), Counting("script", 0)>>
    /\ ast = <<>> /\ error = NoError /\ source = <<>>
    /\ supply \in Families

Start == Doing("start") /\ Take(<<>>)

Ended == todo = <<>> \/ Doing("undefined")
Accepted == todo = <<>> /\ error = NoError

Next ==
    \/ Start \/ Script
    \/ Declaration \/ Initializer \/ Parameters \/ Parameter \/ MoreParameters
    \/ Inherit \/ Superclass \/ MethodsOfClass
    \/ Statement \/ InBlock \/ Else \/ ForInit \/ OptionalExpr
    \/ ParsePrefix \/ ParseInfix \/ DotRest \/ SuperArgs
    \/ ArgumentList \/ Argument \/ MoreArguments
    \/ ConsumeToken \/ ConsumeName \/ BuildNode

Spec == Init /\ [][Next]_vars
FairSpec == Spec /\ WF_vars(Next)

-----------------------------------------------------------------------------
(* Properties.                                                             *)

(* The document has no semicolon behind break and continue, which the      *)
(* parser wants there: the tokens that the document speaks of.             *)
Documented(tokens) ==
    LET kept == SelectSeq([i \in 1..Len(tokens) |-> i],
                          LAMBDA i : ~(tokens[i] = ";" /\ i > 1 /\ tokens[i - 1] \in Jumps))
    IN  [k \in 1..Len(kept) |-> Type(tokens[kept[k]])]

(* The text of an accepted program: the scanner was asked twice for its    *)
(* end.                                                                    *)
Text == SubSeq(source, 1, Len(source) - 2)

(* The target of every assignment is a name or a property.                 *)
Targets(node, parts) ==
    [k |-> node.k,
     proper |-> /\ \A i \in 1..node.n : parts[i].proper
                /\ node.k = "assign" => parts[1].k = "name"]

(* How long lists of arguments and of parameters may be: the check of a    *)
(* parameter comes before it is added, so that one more than the limit is  *)
(* taken (parser.cc:80).                                                   *)
WithinLimits(node) ==
    /\ node.k \in {"function", "method"} => node.n - 2 <= MAX_ARGS + 1
    /\ node.k \in {"call", "superCall"} => node.n - 1 <= MAX_ARGS
    /\ node.k = "invoke" /\ node.op # "read" => node.n - 2 <= MAX_ARGS

(* What the parser accepts without an error is a program of the document   *)
(* exactly if all its targets are a name or a property.  Others, like      *)
(* (a) = b, it should refuse (specification.md:75, xtest/assignment/       *)
(* grouping.lox), but any call will do for it (parser.cc:377); they are    *)
(* the only texts it takes that the document does not have.  Long lists it *)
(* refuses, but of parameters it takes one more than it says (xtest/       *)
(* function/too_many_parameters.lox).                                      *)
AcceptsTheGrammar ==
    Accepted =>
        LET tokens == Documented(Append(Text, "EOFS")) IN
        /\ Derives("document", tokens) <=> Walk(Targets, ast)[1].proper
        /\ Derives("lenient", tokens)
        /\ \A i \in 1..Len(ast) : WithinLimits(ast[i])

(* The first syntax error is reported at the first token that no program   *)
(* of the document has there: what comes before it begins one, and with it *)
(* none.  There are two exceptions, and no more.  A break that no          *)
(* semicolon follows is an error, which it is not in the document          *)
(* (specification.md:58).  And the = behind an odd target, the document's  *)
(* first error, is passed over: then the error is reported where no        *)
(* program goes on that may have such targets.                             *)
ErrorsAreErrors ==
    [][error = NoError /\ error'.what = "syntax" =>
        LET at == error'.at
            begins(grammar, n) == Begins(grammar, Documented(SubSeq(source', 1, n)))
            fails(grammar, n) == begins(grammar, n - 1) /\ ~begins(grammar, n)
        IN  \/ fails("document", at)
            \/ at > 1 /\ source'[at - 1] \in Jumps /\ source'[at] # ";"
            \/ /\ fails("lenient", at)
               /\ \E n \in 1..at - 1 : source'[n] = "=" /\ fails("document", n)]_vars

(* The tightness of an expression in the grammar: an operand may not be    *)
(* looser than its place.                                                  *)
Tightness(node) ==
    CASE node.k \in {"assign", "set"} /\ node.op # "read" -> 0
      [] node.k = "binary" -> CHOOSE i \in 1..6 : node.op \in
            <<{"or"}, {"and"}, {"==", "!="}, {"<", "<=", ">", ">="}, {"+", "-"}, {"*", "/"}>>[i]
      [] node.k = "unary" -> 7
      [] node.k \in {"call", "get", "invoke", "set", "super", "superCall"} -> 8
      [] OTHER -> 9

(* Where the operands of a node may stand, tight as they are: chains of a  *)
(* binary operator lean to the left, those of assignments to the right.    *)
Binds(node, tight) ==
    CASE node.k = "binary" -> tight[1] >= Tightness(node) /\ tight[2] > Tightness(node)
      [] node.k = "unary" -> tight[1] >= 7
      [] node.k \in {"assign", "call", "get", "set", "invoke"} -> tight[1] >= 8
      [] OTHER -> TRUE

(* A statement that would take an else that follows it.                    *)
TakesElse(node, parts) ==
    \/ node.k = "if" /\ node.n = 2
    \/ node.k \in {"if", "while", "for"} /\ parts[node.n].takesElse

(* A node as it stands in the text, with its brackets, and whether the     *)
(* text is read that way.                                                  *)
ReadNode(node, parts) ==
    [k |-> node.k,
     text |-> CASE node.k = "binary" -> PrintBinaryBare(node.op, parts[1].text, parts[2].text)
                [] node.k = "group" -> <<"(">> \o parts[1].text \o <<")">>
                [] node.k = "literal" -> <<node.op>>
                [] node.op = "read" -> parts[1].text \o <<".">> \o parts[2].text
                [] OTHER -> PrintNode(node, parts).text,
     tight |-> Tightness(node),
     takesElse |-> TakesElse(node, parts),
     right |-> /\ \A i \in 1..node.n : parts[i].right
               /\ Binds(node, [i \in 1..node.n |-> parts[i].tight])
               /\ ~(node.k = "if" /\ node.n = 3 /\ parts[2].takesElse)]

(* The tree of an accepted program has the tokens of the text in their     *)
(* order, operators of higher precedence below those of lower, equal ones  *)
(* from left to right, an else with the nearest if: it is the one reading  *)
(* of the text.                                                            *)
TreeIsTheReading ==
    Accepted => LET read == Walk(ReadNode, ast) IN
                Len(read) = 1 /\ read[1].text = Text /\ read[1].right

(* The parser comes to an end, whatever the text, also after an error.     *)
EveryTextEnds == []<>Ended

=============================================================================
