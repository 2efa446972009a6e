------------------------------ MODULE Scanner ------------------------------
(***************************************************************************)
(* The scanner of alox-cc (scanner.cc), one character at a time.           *)
(*                                                                         *)
(* `mode' says which function scanToken is in, and which loop of it; a     *)
(* step is one turn of the loop, which looks at the character at `current' *)
(* (peek) and may take it (scan).  A text is a sequence of characters; the *)
(* iterator over its UTF-8 is a position, the decoding is external.        *)
(***************************************************************************)
EXTENDS Integers, Sequences, FiniteSetsExt, Functions

CONSTANTS
    Letters, Digits, Emoji, \* characters of each class
    Keywords,               \* the words of keyword_map, as sequences of letters
    Families                \* bound: texts, by their characters and greatest length

VARIABLES
    source,     \* the text
    current,    \* how many of its characters are behind the iterator
    line,
    mode,       \* "none": no token is being scanned
    start,      \* where the token begins
    first,      \* its first character
    tokens      \* history: the tokens returned, each with the place of its text

vars == <<source, current, line, mode, start, first, tokens>>

Newline == "newline"
Quote == "quote"
NUL == "NUL"
Ill == "ill"        \* bytes that are not UTF-8

SingleTokens == {"+", "-", "*", "/", "(", ")", "{", "}", ";", ",", "."}
Marks == SingleTokens \cup {"!", "=", ">", "<", Quote, "_", "space", Newline, NUL, Ill}

ASSUME ScannerAssumption ==
    /\ \A f \in Families : f.length \in Nat
    /\ \A word \in Keywords : word \in Seq(Letters)
    /\ (Letters \cup Emoji) \cap (Digits \cup Marks) = {} /\ Digits \cap Marks = {}

TextsUpTo(characters, n) == UNION {[1 .. k -> characters] : k \in 0 .. n}

-----------------------------------------------------------------------------
(* Characters.                                                             *)

IsSpace(c) == c \in {"space", Newline}
IsDigit(c) == c \in Digits
IsAlpha(c) == c \in Letters
IsEmoji(c) == c \in Emoji
Begins(c) == IsAlpha(c) \/ IsEmoji(c) \/ c = "_"
Continues(c) == IsAlpha(c) \/ IsDigit(c) \/ IsEmoji(c) \/ c = "_"

AtEnd == current = Len(source)
Char(i) == IF i < Len(source) THEN source[i + 1] ELSE NUL   \* as scan says "no more"
Peek == Char(current)
Taken == IF AtEnd THEN current ELSE current + 1             \* scan
Slice(from, to) == SubSeq(source, from + 1, to)
Text == Slice(start, current)                               \* buf

-----------------------------------------------------------------------------
(* Returning a token.                                                      *)

Token(type, text, from, to) ==
    [type |-> type, text |-> text, line |-> line, from |-> from, to |-> to]

Return(type, text, to) ==
    /\ tokens' = Append(tokens, Token(type, text, start, to))
    /\ current' = to /\ mode' = "none"
    /\ UNCHANGED <<source, line, start, first>>

ErrorToken == Return("ERROR", <<>>, current)

Stay(to, next) ==
    /\ current' = to /\ mode' = next
    /\ UNCHANGED <<source, start, first, tokens>>

-----------------------------------------------------------------------------
(* scanToken.  The parser asks for tokens up to the first EOFS, and once   *)
(* more: match() goes on to the next token.                                *)

Asking == Cardinality({i \in DOMAIN tokens : tokens[i].type = "EOFS"}) < 2

ScanToken ==
    /\ mode = "none" /\ Asking
    /\ mode' = "blank"
    /\ UNCHANGED <<source, current, line, start, first, tokens>>

(* get_char: the next character that is not blank.                         *)
Begin(c, next) ==
    /\ start' = current /\ first' = c
    /\ current' = Taken /\ mode' = next
    /\ UNCHANGED <<source, line, tokens>>

EndOfText ==
    /\ mode = "blank" /\ Peek = NUL
    /\ tokens' = Append(tokens, Token("EOFS", <<>>, current, current))
    /\ current' = Taken /\ mode' = "none"
    /\ UNCHANGED <<source, line, start, first>>

Space ==
    /\ mode = "blank" /\ IsSpace(Peek)
    /\ line' = IF Peek = Newline THEN line + 1 ELSE line
    /\ Stay(Taken, "blank")

TakeFirst ==
    /\ mode = "blank" /\ Peek \notin {NUL, Ill} /\ ~IsSpace(Peek)
    /\ Begin(Peek, IF Peek = "/" THEN "slash"
                   ELSE IF Peek \in SingleTokens THEN "single" ELSE "first")

(* After a slash, another begins a comment.                                *)
Slash ==
    /\ mode = "slash" /\ Peek # Ill
    /\ IF Peek = "/"
       THEN Stay(current, "comment") /\ UNCHANGED line
       ELSE Return("/", Text, current)

(* The comment ends with its line; the 0 at the end of the text is taken,  *)
(* and get_char goes on behind it.                                         *)
Comment ==
    /\ mode = "comment" /\ Peek # Ill
    /\ Stay(Taken, IF Peek \in {Newline, NUL} THEN "blank" ELSE "comment")
    /\ line' = IF Peek = Newline THEN line + 1 ELSE line

Single == mode = "single" /\ Return(first, Text, current)

(* The rest of scanToken looks at the next character first, whatever the   *)
(* token.                                                                  *)
Operator ==
    /\ mode = "first" /\ Peek # Ill /\ first \in {"!", "=", ">", "<"}
    /\ IF Peek = "="
       THEN Return("operator", Slice(start, current + 1), current + 1)
       ELSE Return("operator", Text, current)

Choose ==
    /\ mode = "first" /\ Peek # Ill
    /\ \/ first = Quote /\ Stay(current, "string")
       \/ IsDigit(first) /\ Stay(current, "number")
       \/ Begins(first) /\ Stay(current, "identifier")
    /\ UNCHANGED line

Unexpected ==
    /\ mode = "first" /\ Peek # Ill
    /\ first \notin {"!", "=", ">", "<", Quote} /\ ~IsDigit(first) /\ ~Begins(first)
    /\ ErrorToken

(* Mutant: the end of the text does not end a string.                      *)
GetStringToTheQuote ==
    /\ mode = "string" /\ Peek # Ill
    /\ IF Peek = Quote
       THEN Return("STRING", Slice(start + 1, current), current + 1)
       ELSE Stay(Taken, "string") /\ UNCHANGED line

(* get_string: lines are not counted.                                      *)
GetString ==
    /\ mode = "string" /\ Peek # Ill
    /\ IF Peek = NUL THEN ErrorToken
       ELSE IF Peek = Quote THEN Return("STRING", Slice(start + 1, current), current + 1)
       ELSE Stay(Taken, "string") /\ UNCHANGED line

(* get_number: one dot, which is given back when no digit follows.  At the *)
(* end of the text prior() throws instead: it is given end(source) as the  *)
(* place to stop at.                                                       *)
SeenDot == "." \in Range(Text)
InNumber == IsDigit(Peek) \/ (Peek = "." /\ ~SeenDot)
EndsInDot == Text[Len(Text)] = "."

(* Mutant: a dot without a digit behind it stays with the number.          *)
GetNumberWithItsDot ==
    /\ mode = "number" /\ Peek # Ill
    /\ IF InNumber THEN Stay(Taken, "number") /\ UNCHANGED line
       ELSE Return("NUMBER", Text, current)

GetNumber ==
    /\ mode = "number" /\ Peek # Ill /\ ~(EndsInDot /\ AtEnd)
    /\ IF InNumber THEN Stay(Taken, "number") /\ UNCHANGED line
       ELSE IF EndsInDot THEN Return("NUMBER", Slice(start, current - 1), current - 1)
       ELSE Return("NUMBER", Text, current)

GetIdentifier ==
    /\ mode = "identifier" /\ Peek # Ill
    /\ IF Continues(Peek) THEN Stay(Taken, "identifier") /\ UNCHANGED line
       ELSE Return(IF Text \in Keywords THEN "keyword" ELSE "IDENTIFIER", Text, current)

(* An exception of the UTF-8 library, which the scanner does not catch.    *)
Throw ==
    /\ \/ mode \notin {"none", "single", "thrown"} /\ Peek = Ill
       \/ mode = "number" /\ EndsInDot /\ AtEnd
    /\ mode' = "thrown"
    /\ UNCHANGED <<source, current, line, start, first, tokens>>

Init ==
    /\ \E f \in Families : source \in TextsUpTo(f.characters, f.length)
    /\ current = 0 /\ line = 1
    /\ mode = "none" /\ start = 0 /\ first = NUL
    /\ tokens = <<>>

Next ==
    \/ ScanToken \/ EndOfText \/ Space \/ TakeFirst \/ Slash \/ Comment \/ Single
    \/ Operator \/ Choose \/ Unexpected
    \/ GetString \/ GetNumber \/ GetIdentifier
    \/ Throw

Spec == Init /\ [][Next]_vars /\ WF_vars(Next)

-----------------------------------------------------------------------------
(* The lexical grammar of docs/specification.md, with what the comments of *)
(* xtest/comments and the test of the scanner add: comments, emoji.        *)

IsNumber(s) ==
    \E n \in 1 .. Len(s) :
        /\ \A i \in 1 .. n : IsDigit(s[i])
        /\ n < Len(s) =>
            /\ s[n + 1] = "." /\ n + 1 < Len(s)
            /\ \A i \in n + 2 .. Len(s) : IsDigit(s[i])
IsString(s) ==
    Len(s) > 1 /\ \A i \in DOMAIN s : s[i] = Quote <=> i \in {1, Len(s)}
IsIdentifier(s) ==
    s # <<>> /\ Begins(s[1]) /\ \A i \in DOMAIN s : Continues(s[i])
IsOperator(s) ==
    Len(s) \in {1, 2} /\ s[1] \in {"!", "=", "<", ">"} /\ (Len(s) = 2 => s[2] = "=")
IsSingle(s) == Len(s) = 1 /\ s[1] \in SingleTokens
IsCommentMark(s) == Len(s) = 2 /\ s[1] = "/" /\ s[2] = "/"

IsLexeme(s) ==
    IsNumber(s) \/ IsString(s) \/ IsIdentifier(s) \/ IsOperator(s) \/ IsSingle(s) \/ IsCommentMark(s)

Is(type, s) ==
    CASE type = "NUMBER" -> IsNumber(s)
      [] type = "STRING" -> IsString(s)
      [] type = "IDENTIFIER" -> IsIdentifier(s) /\ s \notin Keywords
      [] type = "keyword" -> s \in Keywords
      [] type = "operator" -> IsOperator(s)
      [] OTHER -> IsSingle(s) /\ s[1] = type

(* Where the text ends: at its first NUL, if it has one.                   *)
TextEnd == Min({Len(source)} \cup {i - 1 : i \in {k \in DOMAIN source : source[k] = NUL}})

InComment(from, p) ==
    \E k \in from .. p - 1 :
        /\ Char(k) = "/" /\ Char(k + 1) = "/"
        /\ \A i \in k .. p : Char(i) # Newline
Blank(from, to) ==
    \A p \in from .. to - 1 :
        IsSpace(Char(p)) \/ InComment(from, p) \/ (p + 1 < to /\ InComment(from, p + 1) /\ Char(p) = "/")

-----------------------------------------------------------------------------
(* Properties.                                                             *)

(* Where the n-th token ends, or the text begins.                          *)
TokensEnd(n) == IF n = 0 THEN 0 ELSE tokens[n].to

Longest(from) == {k \in from + 1 .. TextEnd : IsLexeme(Slice(from, k))}

IsNext(t, from) ==
    t.from < TextEnd =>
        /\ Blank(from, t.from)
        /\ t.type # "ERROR" =>
            /\ t.to \in Longest(t.from) /\ \A k \in Longest(t.from) : k <= t.to
            /\ Is(t.type, Slice(t.from, t.to))
            /\ t.text = IF t.type = "STRING" THEN Slice(t.from + 1, t.to - 1)
                                             ELSE Slice(t.from, t.to)
        /\ t.type = "ERROR" =>
            /\ Longest(t.from) = {}
            /\ t.to = IF Char(t.from) = Quote THEN TextEnd ELSE t.from + 1
        /\ t.type # "EOFS"

(* Every token is the longest piece of text that is a lexeme of its type,  *)
(* an error only what begins none, and between two tokens there is nothing *)
(* but blanks and comments: get_number's step back, the '=' taken for an   *)
(* operator and the slash looked behind lose and invent no character       *)
(* (scanner.cc:73-201).  A NUL ends the text.                              *)
TokensAreLexemes == \A n \in DOMAIN tokens : IsNext(tokens[n], TokensEnd(n - 1))

(* The lines that end in front of a place, after the first n tokens, and   *)
(* not inside of one.                                                      *)
Newlines(n, to) ==
    {p \in 0 .. to - 1 :
        Char(p) = Newline /\ \A k \in 1 .. n : p \notin tokens[k].from .. tokens[k].to - 1}

(* What get_char and get_string do with lines (scanner.cc:73-110): the     *)
(* number of a token counts the newlines in front of it, and leaves out    *)
(* those inside of strings.  It is the line the token is on only as long   *)
(* as no string goes over several; xtest/string/                           *)
(* error_after_multiline.lox:1 has it that those are tracked too.          *)
LinesLeaveOutStrings ==
    \A n \in DOMAIN tokens :
        tokens[n].line = 1 + Cardinality(Newlines(n - 1, tokens[n].from))

(* What makes the UTF-8 library throw, nothing else: bytes that are not    *)
(* UTF-8, and digits with a dot at the very end.                           *)
Exceptional ==
    \/ Ill \in Range(source)
    \/ Len(source) > 1 /\ IsDigit(source[Len(source) - 1]) /\ source[Len(source)] = "."

Ended == (mode = "none" /\ ~Asking) \/ (mode = "thrown" /\ Exceptional)

(* Scanning ends for every text, unterminated strings, numbers and         *)
(* comments included (the loops at scanner.cc:74, 102, 117 and 138), and   *)
(* with the last token unless the text is one of the exceptional ones.     *)
EveryTextIsScanned == <>Ended

-----------------------------------------------------------------------------
(* The inductive invariant (ScannerProofs).                                *)

Characters == UNION {f.characters : f \in Families}
Places == 0 .. Len(source)
InToken == {"slash", "comment", "single", "first", "string", "number", "identifier"}

Types == SingleTokens \cup
    {"ERROR", "EOFS", "STRING", "NUMBER", "IDENTIFIER", "keyword", "operator"}
Tokens == [type : Types, text : Seq(Characters), line : Nat, from : Places, to : Places]

TypeOK ==
    /\ source \in Seq(Characters)
    /\ current \in Places /\ start \in Places /\ line \in Nat
    /\ mode \in {"none", "blank", "thrown"} \cup InToken
    /\ tokens \in Seq(Tokens)

(* What has been taken of the token, or of the comment, in progress.       *)
Number ==
    /\ IsDigit(first)
    /\ \E dot \in start + 1 .. current :
        /\ dot < current => Char(dot) = "."
        /\ \A p \in start .. current - 1 : p # dot => IsDigit(Char(p))

Begun ==
    mode \in InToken =>
        /\ start < current /\ first = Char(start) /\ ~IsSpace(first)
        /\ \A p \in start .. current - 1 : Char(p) \notin {NUL, Ill}
        /\ mode \in {"slash", "single", "first"} => current = start + 1
        /\ mode \in {"slash", "comment"} => first = "/"
        /\ mode = "single" => first \in SingleTokens \ {"/"}
        /\ mode = "first" => first \notin SingleTokens
        /\ mode = "comment" =>
            /\ Char(start + 1) = "/"
            /\ \A p \in start .. current - 1 : Char(p) # Newline
        /\ mode = "string" =>
            /\ first = Quote
            /\ \A p \in start + 1 .. current - 1 : Char(p) # Quote
        /\ mode = "number" => Number
        /\ mode = "identifier" =>
            /\ Begins(first)
            /\ \A p \in start .. current - 1 : Continues(Char(p))

(* Up to where all is returned or blank.                                   *)
Passed == IF mode \in InToken THEN start ELSE current

TokensBehind ==
    \A n \in DOMAIN tokens :
        /\ tokens[n].from <= tokens[n].to
        /\ mode # "thrown" => tokens[n].to <= Passed

NothingLost == mode # "thrown" /\ Passed <= TextEnd => Blank(TokensEnd(Len(tokens)), Passed)

LinesSoFar == mode # "thrown" => line = 1 + Cardinality(Newlines(Len(tokens), Passed))

Inv ==
    /\ TypeOK
    /\ Begun
    /\ TokensBehind /\ NothingLost
    /\ LinesSoFar
    /\ TokensAreLexemes /\ LinesLeaveOutStrings
=============================================================================
