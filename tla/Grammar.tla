------------------------------- MODULE Grammar -------------------------------
(***************************************************************************)
(* The grammar of docs/specification.md, against which the parser is       *)
(* checked.  A repetition of the document is a nonterminal of its own that *)
(* may be empty; no rule begins with itself.                               *)
(*                                                                         *)
(* Document has the document's rules, unchanged.  The parser is not of one *)
(* mind with it (module Parser says where, exactly): it takes any call as  *)
(* the target of an assignment, as Lenient does, and wants a semicolon     *)
(* behind break and continue, which the document leaves out.               *)
(***************************************************************************)
EXTENDS Integers, Sequences
LOCAL INSTANCE SequencesExt

(* A level of binary operators: operands and the rest of a chain.          *)
Level(operand, rest) == {<<operand, rest>>}
Chain(operators, operand, rest) == {<<>>} \cup {<<op, operand, rest>> : op \in operators}

Assignments == {<<"IDENTIFIER", "=", "assignment">>,
                <<"call", ".", "IDENTIFIER", "=", "assignment">>}
AnyTarget == {<<"call", "=", "assignment">>}

Rules(assignments) == [
    program |-> {<<"declarations", "EOFS">>},
    declarations |-> {<<>>, <<"declaration", "declarations">>},
    declaration |-> {<<"classDecl">>, <<"fun", "function">>, <<"varDecl">>, <<"statement">>},
    classDecl |-> {<<"class", "IDENTIFIER", "superclass", "{", "functions", "}">>},
    superclass |-> {<<>>, <<"<", "IDENTIFIER">>},
    functions |-> {<<>>, <<"function", "functions">>},
    varDecl |-> {<<"var", "IDENTIFIER", "initializer", ";">>},
    initializer |-> {<<>>, <<"=", "expression">>},
    statement |-> {<<"expression", ";">>,
                   <<"for", "(", "forInit", "optional", ";", "optional", ")", "statement">>,
                   <<"if", "(", "expression", ")", "statement", "otherwise">>,
                   <<"print", "expression", ";">>,
                   <<"return", "optional", ";">>,
                   <<"while", "(", "expression", ")", "statement">>,
                   <<"break">>, <<"continue">>,
                   <<"block">>},
    forInit |-> {<<"varDecl">>, <<"expression", ";">>, <<";">>},
    otherwise |-> {<<>>, <<"else", "statement">>},
    optional |-> {<<>>, <<"expression">>},
    block |-> {<<"{", "declarations", "}">>},
    function |-> {<<"IDENTIFIER", "(", "parameters", ")", "block">>},
    parameters |-> {<<>>, <<"IDENTIFIER", "moreParameters">>},
    moreParameters |-> {<<>>, <<",", "IDENTIFIER", "moreParameters">>},
    arguments |-> {<<>>, <<"expression", "moreArguments">>},
    moreArguments |-> {<<>>, <<",", "expression", "moreArguments">>},
    expression |-> {<<"assignment">>},
    assignment |-> assignments \cup {<<"logic_or">>},
    logic_or |-> Level("logic_and", "ors"),
    ors |-> Chain({"or"}, "logic_and", "ors"),
    logic_and |-> Level("equality", "ands"),
    ands |-> Chain({"and"}, "equality", "ands"),
    equality |-> Level("comparison", "equalities"),
    equalities |-> Chain({"!=", "=="}, "comparison", "equalities"),
    comparison |-> Level("term", "comparisons"),
    comparisons |-> Chain({">", ">=", "<", "<="}, "term", "comparisons"),
    term |-> Level("factor", "terms"),
    terms |-> Chain({"-", "+"}, "factor", "terms"),
    factor |-> Level("unary", "factors"),
    factors |-> Chain({"/", "*"}, "unary", "factors"),
    unary |-> {<<"!", "unary">>, <<"-", "unary">>, <<"call">>},
    call |-> {<<"primary", "suffixes">>},
    suffixes |-> {<<>>, <<"(", "arguments", ")", "suffixes">>, <<".", "IDENTIFIER", "suffixes">>},
    primary |-> {<<"true">>, <<"false">>, <<"nil">>, <<"this">>, <<"NUMBER">>, <<"STRING">>,
                 <<"IDENTIFIER">>, <<"(", "expression", ")">>, <<"super", ".", "IDENTIFIER">>}]

Empty(rules, symbol) == symbol \in DOMAIN rules /\ <<>> \in rules[symbol]

(* What is left of a sequence of symbols after a first token t, where      *)
(* after[x] is what is left of a rule x: a symbol may begin the rest if    *)
(* those before it can be empty.                                           *)
Rest(rules, after, symbols, t) ==
    UNION {LET rest == SubSeq(symbols, i + 1, Len(symbols)) IN
           IF symbols[i] \in DOMAIN rules THEN {start \o rest : start \in after[symbols[i]][t]}
           ELSE IF symbols[i] = t THEN {rest} ELSE {} :
           i \in {j \in 1..Len(symbols) : \A k \in 1..j - 1 : Empty(rules, symbols[k])}}

Tokens == {"(", ")", "{", "}", ",", ".", "-", "+", ";", "/", "*", "!", "!=", "=", "==", ">",
           ">=", "<", "<=", "IDENTIFIER", "STRING", "NUMBER", "and", "break", "class", "continue",
           "else", "false", "for", "fun", "if", "nil", "or", "print", "return", "super", "this",
           "true", "var", "while", "EOFS"}

After(rules) ==
    LET after[x \in DOMAIN rules] ==
            [t \in Tokens |-> UNION {Rest(rules, after, symbols, t) : symbols \in rules[x]}]
    IN  [x \in DOMAIN rules |-> after[x]]

Document == Rules(Assignments)
Lenient == Rules(AnyTarget)

Grammars == [document |-> Document, lenient |-> Lenient]
Steps == [document |-> After(Document), lenient |-> After(Lenient)]

(* The ways a program that begins with these tokens may go on, as          *)
(* sequences of symbols: none, if no program does.                         *)
Continuations(grammar, tokens) ==
    LET step(ways, t) ==
            UNION {Rest(Grammars[grammar], Steps[grammar], way, t) : way \in ways}
    IN  FoldLeft(step, {<<"program">>}, tokens)

Begins(grammar, tokens) == Continuations(grammar, tokens) # {}
Derives(grammar, tokens) == <<>> \in Continuations(grammar, tokens)

=============================================================================
