------------------------------ MODULE MCParser ------------------------------
(* Finite instances of Parser and Reprint: the programs the run parses.    *)
EXTENDS Reprint

CONSTANTS a, b
TwoNames == {a, b}

Free(tokens, length) == [text |-> <<>>, tokens |-> tokens, length |-> length]
Beginning(text, tokens, length) == [text |-> text, tokens |-> tokens, length |-> length]

Operators == Free({a, "=", "or", "and", "==", "<", "+", "*", "!", ";"}, 7)
Calls == Free({a, "=", "(", ")", ".", ",", "-", "super", ";"}, 7)
Branches == Free({a, ";", "(", ")", "{", "}", "if", "else", "while", "print"}, 7)
Loops == Free({a, ";", "(", ")", "for", "var", "="}, 8)
Functions == Free({a, "fun", "(", ")", "{", "}", ",", "return", ";"}, 7)
Classes == Free({a, b, "class", "<", "(", ")", "{", "}"}, 6)
Subclasses == Beginning(<<"class", a, "<", b, "{", a, "(">>, {a, "}", "{", ")"}, 5)
Limits == Beginning(<<"fun", a, "(", a, ",", a, ",", a>>, {a, ",", ")", "{", "}"}, 4)
Invocations == Beginning(<<a, ".", a, "(", a, ",">>, {a, ",", ")", ";", "="}, 4)
Errors == Free({"true", ";", "ERROR", "{", "}", "+", "break", "this"}, 5)
Literal == Free({"NUMBER", "LONG", "LARGE", "STRING", "nil", "=", "+", "(", ")", "print", ";"}, 5)

Programs == {Literal, Operators, Calls, Branches, Loops, Functions, Classes, Subclasses,
             Limits, Invocations, Errors}
=============================================================================
