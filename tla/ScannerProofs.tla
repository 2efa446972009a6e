--------------------------- MODULE ScannerProofs ---------------------------
(***************************************************************************)
(* Inv of module Scanner is inductive: the tokens of a text of any length  *)
(* are its longest lexemes, with lines that leave out those in strings.    *)
(***************************************************************************)
EXTENDS Scanner, FiniteSetTheorems, WellFoundedInduction, TLAPS

-----------------------------------------------------------------------------
(* The text.                                                               *)

LEMMA LeastNumber ==
    ASSUME NEW S \in SUBSET Nat, S # {}
    PROVE  Min(S) \in S /\ \A j \in S : Min(S) <= j
<1>1. PICK i \in S : \A j \in S : <<j, i>> \notin OpToRel(<, Nat)
    BY WFMin, NatLessThanWellFounded, Zenon
<1>2. \A j \in S : ~(j < i)
    BY <1>1, Zenon DEF OpToRel
<1>3. \A j \in S : i <= j
    BY <1>2
<1> QED BY <1>3, Zenon DEF Min

LEMMA CharIsThere ==
    ASSUME TypeOK, NEW p \in Nat
    PROVE  /\ p >= Len(source) => Char(p) = NUL
           /\ p < Len(source) => Char(p) = source[p + 1] /\ Char(p) \in Characters
           /\ Len(source) \in Nat
BY DEF TypeOK, Char

LEMMA TextEndIsFirst ==
    ASSUME TypeOK
    PROVE  /\ TextEnd \in 0 .. Len(source)
           /\ \A p \in 0 .. TextEnd - 1 : Char(p) # NUL
           /\ \A p \in Nat : Char(p) = NUL => TextEnd <= p
           /\ Char(TextEnd) = NUL
<1> DEFINE S == {Len(source)} \cup {i - 1 : i \in {k \in DOMAIN source : source[k] = NUL}}
<1>1. S \in SUBSET Nat /\ S # {} /\ Len(source) \in S /\ Len(source) \in Nat
    BY DEF TypeOK
<1>2. TextEnd \in S /\ \A j \in S : TextEnd <= j
    BY <1>1, LeastNumber DEF TextEnd
<1>3. ASSUME NEW p \in Nat, Char(p) = NUL
      PROVE  TextEnd <= p
    <2>1. CASE p < Len(source)
        <3>1. p + 1 \in DOMAIN source /\ source[p + 1] = NUL /\ p = (p + 1) - 1
            BY <1>3, <2>1, CharIsThere DEF TypeOK
        <3>2. p \in S
            BY <3>1
        <3> QED BY <1>2, <3>2
    <2>2. CASE p >= Len(source)
        BY <1>1, <1>2, <2>2
    <2> QED BY <1>1, <2>1, <2>2
<1>4. TextEnd \in 0 .. Len(source)
    BY <1>1, <1>2
<1>5. \A p \in 0 .. TextEnd - 1 : Char(p) # NUL
    BY <1>3, <1>4
<1>6. Char(TextEnd) = NUL
    <2>1. CASE TextEnd = Len(source)
        BY <1>1, <2>1, CharIsThere
    <2>2. ASSUME NEW i \in DOMAIN source, source[i] = NUL, TextEnd = i - 1
          PROVE  Char(TextEnd) = NUL
        <3>1. i - 1 \in Nat /\ i - 1 < Len(source) /\ (i - 1) + 1 = i
            BY DEF TypeOK
        <3> QED BY <2>2, <3>1, CharIsThere
    <2> QED BY <1>2, <2>1, <2>2
<1> QED BY <1>3, <1>4, <1>5, <1>6

(* A piece without a 0 that begins in front of the end is in front of it.  *)
LEMMA BeforeTheEnd ==
    ASSUME TypeOK, NEW a \in Nat, NEW b \in Nat, a < TextEnd,
           \A p \in a .. b - 1 : Char(p) # NUL
    PROVE  b <= TextEnd
<1>1. TextEnd \in Nat
    BY TextEndIsFirst DEF TypeOK
<1>2. SUFFICES ASSUME b > TextEnd
               PROVE  FALSE
    BY <1>1
<1>3. TextEnd \in a .. b - 1
    BY <1>1, <1>2
<1> QED BY <1>3, TextEndIsFirst

LEMMA Sliced ==
    ASSUME TypeOK, NEW a \in Nat, NEW b \in Nat, a <= b, b <= Len(source)
    PROVE  /\ Slice(a, b) \in Seq(Characters) /\ Len(Slice(a, b)) = b - a /\ b - a \in Nat
           /\ \A i \in 1 .. b - a : Slice(a, b)[i] = Char(a + i - 1)
<1>1. source \in Seq(Characters) /\ Len(source) \in Nat
    BY DEF TypeOK
<1>2. /\ SubSeq(source, a + 1, b) \in Seq(Characters)
      /\ Len(SubSeq(source, a + 1, b)) = b - a
      /\ \A i \in 1 .. b - a : SubSeq(source, a + 1, b)[i] = source[a + 1 + i - 1]
    BY <1>1
<1>3. ASSUME NEW i \in 1 .. b - a
      PROVE  source[a + 1 + i - 1] = Char(a + i - 1)
    <2>1. a + i - 1 \in Nat /\ a + i - 1 < Len(source) /\ a + 1 + i - 1 = (a + i - 1) + 1
        BY <1>1
    <2> QED BY <2>1, CharIsThere
<1>4. b - a \in Nat
    OBVIOUS
<1>5. PICK slice : slice = Slice(a, b) /\ slice = SubSeq(source, a + 1, b)
    BY DEF Slice
<1>6. slice \in Seq(Characters) /\ Len(slice) = b - a
    BY <1>2, <1>5
<1>7. \A i \in 1 .. b - a : slice[i] = Char(a + i - 1)
    BY <1>2, <1>3, <1>5
<1> QED BY <1>4, <1>5, <1>6, <1>7

(* The character at a place of a slice.                                    *)
LEMMA CharOfSlice ==
    ASSUME TypeOK, NEW a \in Nat, NEW b \in Nat, b <= Len(source), NEW p \in a .. b - 1
    PROVE  p - a + 1 \in 1 .. b - a /\ Slice(a, b)[p - a + 1] = Char(p)
<1>1. PICK i \in 1 .. b - a : i = p - a + 1
    OBVIOUS
<1>2. a <= b /\ a + i - 1 = p
    BY <1>1
<1>3. Slice(a, b)[i] = Char(a + i - 1)
    BY <1>2, Sliced
<1> QED BY <1>1, <1>2, <1>3

(* The text stays, and all that depends on nothing else.                   *)
LEMMA TextStays ==
    ASSUME UNCHANGED source
    PROVE  /\ TextEnd' = TextEnd
           /\ \A p : Char(p)' = Char(p)
           /\ \A a, b : Slice(a, b)' = Slice(a, b)
           /\ \A a, b : Blank(a, b)' = Blank(a, b)
           /\ \A a : Longest(a)' = Longest(a)
           /\ Places' = Places
<1>1. TextEnd' = TextEnd /\ Places' = Places
    BY DEF TextEnd, Places
<1>2. \A p : Char(p)' = Char(p)
    BY DEF Char
<1>3. \A a, b : Slice(a, b)' = Slice(a, b)
    BY DEF Slice
<1>4. \A a, p : InComment(a, p)' = InComment(a, p)
    BY DEF InComment, Slice, Char
<1>5. \A a, b : Blank(a, b)' = Blank(a, b)
    BY DEF Blank, InComment, Slice, Char
<1>6. \A a : Longest(a)' = Longest(a)
    BY DEF Longest, TextEnd, Slice
<1> QED BY <1>1, <1>2, <1>3, <1>5, <1>6

-----------------------------------------------------------------------------
(* Lexemes, by the places of their characters.                             *)

LEMMA Classes ==
    ASSUME NEW c
    PROVE  /\ IsDigit(c) => c \notin Marks /\ ~Begins(c)
           /\ Begins(c) => c \notin Marks \ {"_"} /\ Continues(c)
           /\ Continues(c) => c \notin Marks \ {"_"} /\ (~IsDigit(c) => Begins(c))
BY ScannerAssumption DEF IsDigit, Begins, Continues, IsAlpha, IsEmoji, Marks, SingleTokens, Newline, NUL, Ill

IdentifierAt(a, k) == Begins(Char(a)) /\ \A p \in a .. k - 1 : Continues(Char(p))
StringAt(a, k) ==
    k > a + 1 /\ Char(a) = Quote /\ Char(k - 1) = Quote /\ \A p \in a + 1 .. k - 2 : Char(p) # Quote
SingleAt(a, k) == k = a + 1 /\ Char(a) \in SingleTokens
OperatorAt(a, k) ==
    /\ Char(a) \in {"!", "=", "<", ">"}
    /\ k = a + 1 \/ (k = a + 2 /\ Char(a + 1) = "=")
CommentMarkAt(a, k) == k = a + 2 /\ Char(a) = "/" /\ Char(a + 1) = "/"
NumberAt(a, k) ==
    \E d \in a + 1 .. k :
        /\ \A p \in a .. d - 1 : IsDigit(Char(p))
        /\ d < k => Char(d) = "." /\ d + 1 < k /\ \A p \in d + 1 .. k - 1 : IsDigit(Char(p))

LEMMA PieceIsThere ==
    ASSUME TypeOK, NEW a \in Nat, NEW k \in a + 1 .. Len(source)
    PROVE  \E s \in Seq(Characters) :
             s = Slice(a, k) /\ Len(s) = k - a /\ \A i \in 1 .. k - a : s[i] = Char(a + i - 1)
<1>1. k \in Nat /\ a <= k /\ k <= Len(source)
    BY DEF TypeOK
<1> QED BY <1>1, Sliced, Zenon

LEMMA IdentifierIsAt ==
    ASSUME TypeOK, NEW a \in Nat, NEW k \in a + 1 .. Len(source)
    PROVE  IsIdentifier(Slice(a, k)) <=> IdentifierAt(a, k)
<1>0. Len(source) \in Nat
    BY DEF TypeOK
<1>1. PICK s \in Seq(Characters) :
        s = Slice(a, k) /\ Len(s) = k - a /\ \A i \in 1 .. k - a : s[i] = Char(a + i - 1)
    BY PieceIsThere, Zenon
<1>2. s[1] = Char(a) /\ s # <<>> /\ DOMAIN s = 1 .. k - a
    BY <1>0, <1>1
<1>3. ASSUME \A i \in DOMAIN s : Continues(s[i]), NEW p \in a .. k - 1
      PROVE  Continues(Char(p))
    <2>1. p - a + 1 \in DOMAIN s /\ s[p - a + 1] = Char(p)
        BY <1>0, <1>1, <1>2, CharOfSlice
    <2> QED BY <1>3, <2>1
<1>4. ASSUME \A p \in a .. k - 1 : Continues(Char(p)), NEW i \in DOMAIN s
      PROVE  Continues(s[i])
    <2>1. a + i - 1 \in a .. k - 1 /\ s[i] = Char(a + i - 1)
        BY <1>1, <1>2
    <2> QED BY <1>4, <2>1
<1> QED BY <1>1, <1>2, <1>3, <1>4 DEF IsIdentifier, IdentifierAt

LEMMA StringIsAt ==
    ASSUME TypeOK, NEW a \in Nat, NEW k \in a + 1 .. Len(source)
    PROVE  IsString(Slice(a, k)) <=> StringAt(a, k)
<1>0. Len(source) \in Nat /\ k \in Nat
    BY DEF TypeOK
<1>1. PICK s \in Seq(Characters) :
        s = Slice(a, k) /\ Len(s) = k - a /\ \A i \in 1 .. k - a : s[i] = Char(a + i - 1)
    BY PieceIsThere, Zenon
<1>2. DOMAIN s = 1 .. k - a
    BY <1>0, <1>1
<1>3. ASSUME IsString(s)
      PROVE  StringAt(a, k)
    <2>1. k > a + 1 /\ \A i \in 1 .. k - a : s[i] = Quote <=> i \in {1, k - a}
        <3>1. k - a > 1 /\ \A i \in 1 .. k - a : s[i] = Quote <=> i \in {1, k - a}
            BY <1>1, <1>2, <1>3, Zenon DEF IsString
        <3> QED BY <1>0, <3>1
    <2>2. s[1] = Quote /\ s[k - a] = Quote /\ s[1] = Char(a) /\ s[k - a] = Char(k - 1)
        <3>1. 1 \in 1 .. k - a /\ k - a \in 1 .. k - a /\ a + 1 - 1 = a /\ a + (k - a) - 1 = k - 1
            BY <1>0
        <3> QED BY <1>1, <2>1, <3>1
    <2>3. ASSUME NEW p \in a + 1 .. k - 2
          PROVE  Char(p) # Quote
        <3>1. PICK i \in 1 .. k - a : i = p - a + 1
            BY <1>0
        <3>2. i \notin {1, k - a} /\ a + i - 1 = p
            BY <1>0, <3>1
        <3> QED BY <1>1, <2>1, <3>2
    <2> QED BY <2>1, <2>2, <2>3 DEF StringAt
<1>4. ASSUME StringAt(a, k)
      PROVE  IsString(s)
    <2>1. Len(s) > 1
        BY <1>0, <1>1, <1>4 DEF StringAt
    <2>2. ASSUME NEW i \in 1 .. k - a
          PROVE  s[i] = Quote <=> i \in {1, k - a}
        <3>1. PICK p \in a .. k - 1 : p = a + i - 1
            BY <1>0
        <3>2. s[i] = Char(p)
            BY <1>1, <3>1
        <3>3. CASE i = 1
            BY <1>0, <1>4, <3>1, <3>2, <3>3 DEF StringAt
        <3>4. CASE i = k - a
            BY <1>0, <1>4, <3>1, <3>2, <3>4 DEF StringAt
        <3>5. CASE i \notin {1, k - a}
            <4>1. p \in a + 1 .. k - 2
                BY <1>0, <3>1, <3>5
            <4> QED BY <1>4, <3>2, <3>5, <4>1 DEF StringAt
        <3> QED BY <3>3, <3>4, <3>5
    <2> QED BY <1>1, <1>2, <2>1, <2>2 DEF IsString
<1> QED BY <1>1, <1>3, <1>4

LEMMA ShortIsAt ==
    ASSUME TypeOK, NEW a \in Nat, NEW k \in a + 1 .. Len(source)
    PROVE  /\ IsSingle(Slice(a, k)) <=> SingleAt(a, k)
           /\ IsOperator(Slice(a, k)) <=> OperatorAt(a, k)
           /\ IsCommentMark(Slice(a, k)) <=> CommentMarkAt(a, k)
           /\ Slice(a, k)[1] = Char(a)
<1>0. Len(source) \in Nat /\ k \in Nat
    BY DEF TypeOK
<1>1. PICK s \in Seq(Characters) :
        s = Slice(a, k) /\ Len(s) = k - a /\ \A i \in 1 .. k - a : s[i] = Char(a + i - 1)
    BY PieceIsThere, Zenon
<1>2. s[1] = Char(a) /\ (k >= a + 2 => s[2] = Char(a + 1))
    <2>1. 1 \in 1 .. k - a /\ a + 1 - 1 = a /\ a + 2 - 1 = a + 1 /\ (k >= a + 2 => 2 \in 1 .. k - a)
        BY <1>0
    <2> QED BY <1>1, <2>1
<1>3. IsSingle(s) <=> SingleAt(a, k)
    BY <1>0, <1>1, <1>2 DEF IsSingle, SingleAt
<1>4. IsOperator(s) <=> OperatorAt(a, k)
    BY <1>0, <1>1, <1>2 DEF IsOperator, OperatorAt
<1>5. IsCommentMark(s) <=> CommentMarkAt(a, k)
    BY <1>0, <1>1, <1>2 DEF IsCommentMark, CommentMarkAt
<1> QED BY <1>1, <1>2, <1>3, <1>4, <1>5

LEMMA NumberIsAt ==
    ASSUME TypeOK, NEW a \in Nat, NEW k \in a + 1 .. Len(source)
    PROVE  IsNumber(Slice(a, k)) <=> NumberAt(a, k)
<1>0. Len(source) \in Nat /\ k \in Nat
    BY DEF TypeOK
<1>1. PICK s \in Seq(Characters) :
        s = Slice(a, k) /\ Len(s) = k - a /\ \A i \in 1 .. k - a : s[i] = Char(a + i - 1)
    BY PieceIsThere, Zenon
<1>2. \A p \in a .. k - 1 : p - a + 1 \in 1 .. k - a /\ s[p - a + 1] = Char(p)
    BY <1>0, <1>1, CharOfSlice
<1>3. ASSUME IsNumber(s)
      PROVE  NumberAt(a, k)
    <2>1. PICK n \in 1 .. k - a :
            /\ \A i \in 1 .. n : IsDigit(s[i])
            /\ n < k - a => /\ s[n + 1] = "." /\ n + 1 < k - a
                            /\ \A i \in n + 2 .. k - a : IsDigit(s[i])
        BY <1>1, <1>3 DEF IsNumber
    <2>2. PICK d \in a + 1 .. k : d = a + n
        BY <1>0
    <2>3. ASSUME NEW p \in a .. d - 1
          PROVE  IsDigit(Char(p))
        <3>1. p - a + 1 \in 1 .. n /\ p \in a .. k - 1
            BY <1>0, <2>2
        <3> QED BY <1>2, <2>1, <3>1
    <2>4. ASSUME d < k
          PROVE  Char(d) = "." /\ d + 1 < k
        <3>1. n < k - a /\ d \in a .. k - 1 /\ d - a + 1 = n + 1
            BY <1>0, <2>2, <2>4
        <3> QED BY <1>0, <1>2, <2>1, <2>2, <3>1
    <2>5. ASSUME d < k, NEW p \in d + 1 .. k - 1
          PROVE  IsDigit(Char(p))
        <3>1. n < k - a /\ p \in a .. k - 1 /\ p - a + 1 \in n + 2 .. k - a
            BY <1>0, <2>2, <2>5
        <3> QED BY <1>2, <2>1, <3>1
    <2> QED BY <2>3, <2>4, <2>5 DEF NumberAt
<1>4. ASSUME NumberAt(a, k)
      PROVE  IsNumber(s)
    <2>1. PICK d \in a + 1 .. k :
            /\ \A p \in a .. d - 1 : IsDigit(Char(p))
            /\ d < k => Char(d) = "." /\ d + 1 < k /\ \A p \in d + 1 .. k - 1 : IsDigit(Char(p))
        BY <1>4 DEF NumberAt
    <2>2. PICK n \in 1 .. k - a : n = d - a
        BY <1>0
    <2>3. ASSUME NEW i \in 1 .. n
          PROVE  IsDigit(s[i])
        <3>1. a + i - 1 \in a .. d - 1 /\ i \in 1 .. k - a
            BY <1>0, <2>2
        <3> QED BY <1>1, <2>1, <3>1
    <2>4. ASSUME n < k - a
          PROVE  s[n + 1] = "." /\ n + 1 < k - a
        <3>1. d < k /\ n + 1 \in 1 .. k - a /\ a + (n + 1) - 1 = d
            BY <1>0, <2>2, <2>4
        <3>2. s[n + 1] = Char(d)
            BY <1>1, <3>1
        <3> QED BY <1>0, <2>1, <2>2, <3>1, <3>2
    <2>5. ASSUME n < k - a, NEW i \in n + 2 .. k - a
          PROVE  IsDigit(s[i])
        <3>1. d < k /\ i \in 1 .. k - a /\ a + i - 1 \in d + 1 .. k - 1
            BY <1>0, <2>2, <2>5
        <3> QED BY <1>1, <2>1, <3>1
    <2> QED BY <1>1, <2>3, <2>4, <2>5 DEF IsNumber
<1> QED BY <1>1, <1>3, <1>4

(* What a lexeme is, its first character tells.                            *)
LEMMA LexemesAt ==
    ASSUME TypeOK, NEW a \in Nat, NEW k \in a + 1 .. Len(source), NEW c, c = Char(a)
    PROVE  /\ IsLexeme(Slice(a, k)) <=>
                \/ NumberAt(a, k) \/ StringAt(a, k) \/ IdentifierAt(a, k)
                \/ OperatorAt(a, k) \/ SingleAt(a, k) \/ CommentMarkAt(a, k)
           /\ NumberAt(a, k) => IsDigit(c)
           /\ StringAt(a, k) => c = Quote
           /\ IdentifierAt(a, k) => Begins(c)
           /\ OperatorAt(a, k) => c \in {"!", "=", "<", ">"}
           /\ SingleAt(a, k) => c \in SingleTokens
           /\ CommentMarkAt(a, k) => c = "/"
<1>1. IsLexeme(Slice(a, k)) <=>
                \/ NumberAt(a, k) \/ StringAt(a, k) \/ IdentifierAt(a, k)
                \/ OperatorAt(a, k) \/ SingleAt(a, k) \/ CommentMarkAt(a, k)
    BY NumberIsAt, StringIsAt, IdentifierIsAt, ShortIsAt DEF IsLexeme
<1>2. NumberAt(a, k) => IsDigit(c)
    BY DEF NumberAt
<1> QED BY <1>1, <1>2 DEF StringAt, IdentifierAt, OperatorAt, SingleAt, CommentMarkAt

-----------------------------------------------------------------------------
(* The tokens returned.                                                    *)

LEMMA TokensStay ==
    ASSUME UNCHANGED source
    PROVE  \A t, f : IsNext(t, f)' = IsNext(t, f)
<1>1. \A s, type : Is(type, s)' = Is(type, s)
    BY DEF Is
<1> QED BY <1>1, TextStays DEF IsNext

(* A token more is one that follows the last.                              *)
LEMMA TokenMore ==
    ASSUME Inv, UNCHANGED source, NEW t \in Tokens, tokens' = Append(tokens, t),
           IsNext(t, TokensEnd(Len(tokens))),
           t.line = 1 + Cardinality(Newlines(Len(tokens), t.from))
    PROVE  /\ tokens' \in Seq(Tokens) /\ Len(tokens') = Len(tokens) + 1
           /\ \A n \in 1 .. Len(tokens) : tokens'[n] = tokens[n]
           /\ tokens'[Len(tokens) + 1] = t
           /\ TokensAreLexemes' /\ LinesLeaveOutStrings'
           /\ TokensEnd(Len(tokens))' = t.to
<1>1. tokens \in Seq(Tokens) /\ Len(tokens) \in Nat
    BY DEF Inv, TypeOK
<1>2. /\ tokens' \in Seq(Tokens) /\ Len(tokens') = Len(tokens) + 1
      /\ \A n \in 1 .. Len(tokens) : tokens'[n] = tokens[n]
      /\ tokens'[Len(tokens) + 1] = t
    BY <1>1
<1>3. ASSUME NEW n \in 0 .. Len(tokens)
      PROVE  /\ TokensEnd(n)' = TokensEnd(n)
             /\ \A to : Newlines(n, to)' = Newlines(n, to)
    <2>1. TokensEnd(n)' = TokensEnd(n)
        BY <1>1, <1>2 DEF TokensEnd
    <2>2. \A k \in 1 .. n : tokens'[k] = tokens[k]
        BY <1>1, <1>2
    <2>3. \A p : Char(p)' = Char(p)
        BY TextStays
    <2>4. \A to : Newlines(n, to)' = Newlines(n, to)
        BY <2>2, <2>3, Zenon DEF Newlines
    <2> QED BY <2>1, <2>4
<1>4. TokensEnd(Len(tokens))' = t.to
    BY <1>1, <1>2 DEF TokensEnd
<1>5. ASSUME NEW n \in 1 .. Len(tokens) + 1
      PROVE  /\ IsNext(tokens[n], TokensEnd(n - 1))'
             /\ (tokens[n].line = 1 + Cardinality(Newlines(n - 1, tokens[n].from)))'
    <2>1. PICK m \in 0 .. Len(tokens) : m = n - 1
        BY <1>1
    <2>2. PICK u \in Tokens : u = tokens'[n]
        BY <1>1, <1>2
    <2>3. IsNext(u, TokensEnd(m)) /\ u.line = 1 + Cardinality(Newlines(m, u.from))
        <3>1. CASE n = Len(tokens) + 1
            <4>1. u = t /\ m = Len(tokens)
                BY <1>1, <1>2, <2>1, <2>2, <3>1
            <4> QED BY <4>1
        <3>2. CASE n \in DOMAIN tokens
            <4>1. u = tokens[n] /\ n \in 1 .. Len(tokens)
                BY <1>1, <1>2, <2>2, <3>2
            <4> QED BY <2>1, <3>2, <4>1, Zenon DEF Inv, TokensAreLexemes, LinesLeaveOutStrings
        <3> QED BY <1>1, <3>1, <3>2
    <2>4. IsNext(u, TokensEnd(m))' = IsNext(u, TokensEnd(m))
        BY <1>3, TokensStay, Zenon DEF TokensEnd
    <2> QED BY <1>3, <2>1, <2>2, <2>3, <2>4, Zenon
<1>6. DOMAIN tokens' = 1 .. Len(tokens) + 1
    BY <1>1, <1>2
<1>7. TokensAreLexemes' /\ LinesLeaveOutStrings'
    BY <1>5, <1>6 DEF TokensAreLexemes, LinesLeaveOutStrings
<1> QED BY <1>2, <1>4, <1>7

-----------------------------------------------------------------------------
(* What a turn of a loop leaves: the same token in progress, blanks more,  *)
(* or a token more.                                                        *)

LEMMA LinesStay ==
    ASSUME UNCHANGED <<source, tokens>>
    PROVE  /\ \A n, to : Newlines(n, to)' = Newlines(n, to)
           /\ \A n : TokensEnd(n)' = TokensEnd(n)
           /\ TokensAreLexemes' = TokensAreLexemes
           /\ LinesLeaveOutStrings' = LinesLeaveOutStrings
<1>1. \A n, to : Newlines(n, to)' = Newlines(n, to)
    BY TextStays, Zenon DEF Newlines
<1>2. \A n : TokensEnd(n)' = TokensEnd(n)
    BY DEF TokensEnd
<1>3. TokensAreLexemes' = TokensAreLexemes
    BY <1>2, TokensStay, Zenon DEF TokensAreLexemes
<1>4. LinesLeaveOutStrings' = LinesLeaveOutStrings
    BY <1>1, Zenon DEF LinesLeaveOutStrings
<1> QED BY <1>1, <1>2, <1>3, <1>4

LEMMA StayKeeps ==
    ASSUME Inv, mode \in InToken, mode' \in InToken,
           UNCHANGED <<source, line, start, first, tokens>>, current' \in Places, Begun'
    PROVE  Inv'
<1>1. TypeOK'
    BY TextStays DEF Inv, TypeOK, Tokens, InToken
<1>2. Passed' = start /\ Passed = start /\ mode # "thrown" /\ mode' # "thrown"
    BY DEF Passed, InToken
<1>3. TokensBehind' /\ NothingLost' /\ LinesSoFar'
    <2>1. TokensBehind'
        BY <1>2 DEF Inv, TokensBehind
    <2>2. NothingLost'
        BY <1>2, TextStays, LinesStay, Zenon DEF Inv, NothingLost
    <2>3. LinesSoFar'
        BY <1>2, LinesStay, Zenon DEF Inv, LinesSoFar
    <2> QED BY <2>1, <2>2, <2>3
<1> QED BY <1>1, <1>3, LinesStay DEF Inv

(* The newlines between what is passed and a place behind it.              *)
LEMMA NewlinesOf ==
    ASSUME TypeOK, NEW n \in Nat, NEW to \in Nat
    PROVE  Newlines(n, to) \subseteq 0 .. to - 1 /\ IsFiniteSet(Newlines(n, to))
<1>1. IsFiniteSet(0 .. to - 1)
    BY FS_Interval
<1>2. Newlines(n, to) \subseteq 0 .. to - 1
    BY DEF Newlines
<1> QED BY <1>1, <1>2, FS_Subset

LEMMA TokensAreBehind ==
    ASSUME TypeOK, TokensBehind
    PROVE  /\ \A k \in 1 .. Len(tokens) :
                /\ tokens[k].from \in Nat /\ tokens[k].to \in Nat
                /\ tokens[k].from <= tokens[k].to
                /\ mode # "thrown" => tokens[k].to <= Passed
           /\ TokensEnd(Len(tokens)) \in Nat
           /\ mode # "thrown" => TokensEnd(Len(tokens)) <= Passed
<1>0. Len(tokens) \in Nat /\ DOMAIN tokens = 1 .. Len(tokens) /\ Passed \in Nat
    BY DEF TypeOK, Passed, Places
<1>1. ASSUME NEW k \in 1 .. Len(tokens)
      PROVE  tokens[k].from \in Nat /\ tokens[k].to \in Nat
    <2>1. tokens[k] \in Tokens
        BY DEF TypeOK
    <2> QED BY <2>1 DEF Tokens, Places
<1>2. \A k \in 1 .. Len(tokens) :
        tokens[k].from <= tokens[k].to /\ (mode # "thrown" => tokens[k].to <= Passed)
    BY <1>0, Zenon DEF TokensBehind
<1>3. TokensEnd(Len(tokens)) \in Nat /\ (mode # "thrown" => TokensEnd(Len(tokens)) <= Passed)
    BY <1>0, <1>1, <1>2 DEF TokensEnd
<1> QED BY <1>1, <1>2, <1>3

LEMMA NewlineMore ==
    ASSUME Inv, mode # "thrown", NEW q \in Nat, Passed <= q,
           \A p \in Passed .. q - 1 : Char(p) # Newline
    PROVE  /\ Newlines(Len(tokens), q) = Newlines(Len(tokens), Passed)
           /\ Cardinality(Newlines(Len(tokens), q + 1)) =
                 Cardinality(Newlines(Len(tokens), q)) + (IF Char(q) = Newline THEN 1 ELSE 0)
<1> DEFINE N == Len(tokens)
<1>1. N \in Nat /\ Passed \in Nat
    BY DEF Inv, TypeOK, Passed, Places
<1>2. \A k \in 1 .. N : tokens[k].from \in Nat /\ tokens[k].to \in Nat /\ tokens[k].to <= Passed
    BY TokensAreBehind DEF Inv
<1>3. \A p \in Nat : p >= Passed => \A k \in 1 .. N : p \notin tokens[k].from .. tokens[k].to - 1
    BY <1>1, <1>2
<1>4. ASSUME NEW p
      PROVE  p \in Newlines(N, q) <=> p \in Newlines(N, Passed)
    BY <1>1 DEF Newlines
<1>5. Newlines(N, q) = Newlines(N, Passed)
    BY <1>4
<1>6. CASE Char(q) = Newline
    <2>1. q \in Newlines(N, q + 1)
        BY <1>1, <1>3, <1>6 DEF Newlines
    <2>2. \A p : p \in Newlines(N, q + 1) <=> p \in Newlines(N, q) \/ p = q
        BY <1>1, <2>1 DEF Newlines
    <2>3. Newlines(N, q + 1) = Newlines(N, q) \cup {q}
        BY <2>2
    <2>4. q \notin Newlines(N, q) /\ IsFiniteSet(Newlines(N, q))
        BY <1>1, NewlinesOf DEF Inv
    <2>5. Cardinality(Newlines(N, q + 1)) = Cardinality(Newlines(N, q)) + 1
        BY <2>3, <2>4, FS_AddElement
    <2> QED BY <1>5, <1>6, <2>5
<1>7. CASE Char(q) # Newline
    <2>1. \A p : p \in Newlines(N, q + 1) <=> p \in Newlines(N, q)
        BY <1>1, <1>7 DEF Newlines
    <2>2. Newlines(N, q + 1) = Newlines(N, q)
        BY <2>1
    <2>3. Cardinality(Newlines(N, q)) \in Nat
        BY <1>1, NewlinesOf, FS_CardinalityType DEF Inv
    <2> QED BY <1>5, <1>7, <2>2, <2>3
<1> QED BY <1>6, <1>7

LEMMA BlankMore ==
    ASSUME NEW from \in Nat, NEW mid \in Nat, NEW to \in Nat, mid <= to, Blank(from, mid),
           \A p \in mid .. to - 1 :
             \/ IsSpace(Char(p)) \/ InComment(from, p)
             \/ p + 1 < to /\ InComment(from, p + 1) /\ Char(p) = "/"
    PROVE  Blank(from, to)
BY DEF Blank

(* What is passed grows by blanks.                                         *)
LEMMA PassKeeps ==
    ASSUME Inv, mode # "thrown", UNCHANGED <<source, tokens>>, TypeOK', Begun',
           mode' # "thrown", Passed <= Passed',
           Passed' <= TextEnd => Blank(TokensEnd(Len(tokens)), Passed'),
           line' = 1 + Cardinality(Newlines(Len(tokens), Passed'))
    PROVE  Inv'
<1>1. TokensBehind'
    <2>1. Passed \in Nat /\ Passed' \in Nat
        BY DEF Inv, TypeOK, Passed, Places
    <2>2. ASSUME NEW n \in DOMAIN tokens
          PROVE  tokens[n].from <= tokens[n].to /\ tokens[n].to <= Passed'
        <3>1. n \in 1 .. Len(tokens)
            BY DEF Inv, TypeOK
        <3> QED BY <2>1, <3>1, TokensAreBehind DEF Inv
    <2> QED BY <2>2 DEF TokensBehind
<1>2. NothingLost'
    <2>1. TextEnd' = TextEnd /\ TokensEnd(Len(tokens))' = TokensEnd(Len(tokens))
        BY TextStays DEF TokensEnd
    <2>2. source' = source
        OBVIOUS
    <2>3. Blank(TokensEnd(Len(tokens)), Passed)' = Blank(TokensEnd(Len(tokens)), Passed')
        BY <2>1, <2>2 DEF Blank, InComment, Char
    <2> QED BY <2>1, <2>3 DEF NothingLost
<1>3. LinesSoFar'
    <2>1. Newlines(Len(tokens), Passed)' = Newlines(Len(tokens), Passed')
        BY TextStays, Zenon DEF Newlines
    <2> QED BY <2>1 DEF LinesSoFar
<1> QED BY <1>1, <1>2, <1>3, LinesStay DEF Inv

LEMMA ReturnKeeps ==
    ASSUME Inv, mode \in InToken, NEW type \in Types, NEW text \in Seq(Characters),
           NEW to \in Places, start <= to, Return(type, text, to),
           start < TextEnd => IsNext(Token(type, text, start, to), start)
    PROVE  Inv'
<1> DEFINE t == Token(type, text, start, to)
           N == Len(tokens)
<1>1. t \in Tokens /\ t.from = start /\ t.to = to /\ t.line = line /\ t.type = type /\ t.text = text
    BY DEF Inv, TypeOK, Token, Tokens
<1>2. Passed = start /\ mode # "thrown" /\ start \in Nat /\ to \in Nat /\ Passed' = to /\ N \in Nat
    BY DEF Inv, TypeOK, Passed, InToken, Places, Return
<1>3. t.line = 1 + Cardinality(Newlines(N, t.from))
    BY <1>1, <1>2 DEF Inv, LinesSoFar
<1>4. IsNext(t, TokensEnd(N))
    <2>1. CASE start < TextEnd
        <3>1. Blank(TokensEnd(N), start)
            <4>1. TextEnd \in Nat
                BY TextEndIsFirst DEF Inv, TypeOK
            <4> QED BY <1>2, <2>1, <4>1 DEF Inv, NothingLost
        <3> QED BY <1>1, <2>1, <3>1 DEF IsNext
    <2>2. CASE ~(start < TextEnd)
        BY <1>1, <2>2 DEF IsNext
    <2> QED BY <2>1, <2>2
<1>5. UNCHANGED <<source, line, start, first>> /\ tokens' = Append(tokens, t)
      /\ current' = to /\ mode' = "none"
    BY DEF Return
<1>6. /\ tokens' \in Seq(Tokens) /\ Len(tokens') = N + 1
      /\ \A n \in 1 .. N : tokens'[n] = tokens[n]
      /\ tokens'[N + 1] = t
      /\ TokensAreLexemes' /\ LinesLeaveOutStrings'
      /\ TokensEnd(N)' = to
    BY <1>1, <1>3, <1>4, <1>5, TokenMore
<1>7. TypeOK'
    BY <1>5, <1>6, TextStays DEF Inv, TypeOK, Tokens
<1>8. Begun'
    BY <1>5 DEF Begun, InToken
<1>9. TokensBehind'
    <2>1. ASSUME NEW n \in 1 .. N + 1
          PROVE  tokens'[n].from <= tokens'[n].to /\ tokens'[n].to <= to
        <3>1. CASE n \in 1 .. N
            BY <1>2, <1>6, <3>1, TokensAreBehind DEF Inv
        <3>2. CASE n = N + 1
            BY <1>1, <1>2, <1>6, <3>2
        <3> QED BY <1>2, <3>1, <3>2
    <2>2. DOMAIN tokens' = 1 .. N + 1
        BY <1>2, <1>6
    <2> QED BY <1>2, <2>1, <2>2 DEF TokensBehind
<1>10. NothingLost'
    <2>1. Blank(TokensEnd(N), Passed)'
        BY <1>2, <1>6 DEF Blank
    <2> QED BY <2>1 DEF NothingLost
<1>11. LinesSoFar'
    <2>1. ASSUME NEW p
          PROVE  p \in Newlines(N, Passed)' <=> p \in Newlines(N, start)
        <3>1. Char(p)' = Char(p)
            BY <1>5, TextStays
        <3>2. p \in Newlines(N, Passed)' <=>
                /\ p \in 0 .. to - 1 /\ Char(p) = Newline
                /\ \A k \in 1 .. N + 1 : p \notin tokens'[k].from .. tokens'[k].to - 1
            BY <1>2, <1>6, <3>1 DEF Newlines
        <3>3. (\A k \in 1 .. N + 1 : p \notin tokens'[k].from .. tokens'[k].to - 1) <=>
                /\ \A k \in 1 .. N : p \notin tokens[k].from .. tokens[k].to - 1
                /\ p \notin start .. to - 1
            BY <1>1, <1>2, <1>6
        <3>4. p \in 0 .. to - 1 /\ p \notin start .. to - 1 <=> p \in 0 .. start - 1
            BY <1>2
        <3> QED BY <3>2, <3>3, <3>4, Zenon DEF Newlines
    <2>2. Newlines(N, Passed)' = Newlines(N, start)
        BY <2>1
    <2> QED BY <1>1, <1>3, <1>5, <2>2 DEF LinesSoFar
<1> QED BY <1>6, <1>7, <1>8, <1>9, <1>10, <1>11 DEF Inv

-----------------------------------------------------------------------------
(* Blanks.                                                                 *)

(* Taking a character in front of the end moves the iterator on by one.    *)
LEMMA TakenIs ==
    ASSUME TypeOK
    PROVE  /\ current \in Nat /\ Taken \in Places /\ Taken \in Nat
           /\ Taken \in {current, current + 1}
           /\ Peek # NUL => current < Len(source) /\ Taken = current + 1
           /\ Peek = NUL => TextEnd <= current
<1>1. current \in Nat /\ Len(source) \in Nat /\ current <= Len(source)
    BY DEF TypeOK, Places
<1>2. Peek = NUL => TextEnd <= current
    BY <1>1, TextEndIsFirst DEF Peek
<1>3. Peek # NUL => current < Len(source)
    BY <1>1, CharIsThere DEF Peek
<1> QED BY <1>1, <1>2, <1>3 DEF Taken, AtEnd, Places

LEMMA ScanTokenKeeps ==
    ASSUME Inv, ScanToken
    PROVE  Inv'
<1>1. mode = "none" /\ mode' = "blank" /\ UNCHANGED <<source, current, line, start, first, tokens>>
    BY DEF ScanToken
<1>2. TypeOK' /\ Begun'
    BY <1>1, TextStays DEF Inv, TypeOK, Tokens, Begun, InToken
<1>3. Passed = current /\ Passed' = current /\ current \in Nat
    BY <1>1 DEF Passed, InToken, Inv, TypeOK, Places
<1>4. Passed <= TextEnd => Blank(TokensEnd(Len(tokens)), Passed)
    BY <1>1 DEF Inv, NothingLost
<1>5. line = 1 + Cardinality(Newlines(Len(tokens), Passed))
    BY <1>1 DEF Inv, LinesSoFar
<1> QED BY <1>1, <1>2, <1>3, <1>4, <1>5, PassKeeps

LEMMA SpaceKeeps ==
    ASSUME Inv, Space
    PROVE  Inv'
<1> DEFINE from == TokensEnd(Len(tokens))
<1>1. /\ mode = "blank" /\ mode' = "blank" /\ IsSpace(Peek) /\ Peek \in {"space", Newline}
      /\ line' = (IF Peek = Newline THEN line + 1 ELSE line)
      /\ current' = Taken /\ UNCHANGED <<source, start, first, tokens>>
    BY DEF Space, Stay, IsSpace
<1>2. /\ current < Len(source) /\ current' = current + 1 /\ current' \in Places
      /\ current \in Nat /\ current + 1 \in Nat
    BY <1>1, TakenIs DEF Inv, NUL, Newline
<1>3. TypeOK' /\ Begun'
    BY <1>1, <1>2, TextStays DEF Inv, TypeOK, Tokens, Begun, InToken
<1>4. Passed = current /\ Passed' = current + 1
    BY <1>1, <1>2 DEF Passed, InToken
<1>5. TextEnd \in Nat /\ from \in Nat
    BY TextEndIsFirst, TokensAreBehind DEF Inv, TypeOK
<1>6. ASSUME Passed' <= TextEnd
      PROVE  Blank(from, Passed')
    <2>1. Blank(from, current)
        BY <1>1, <1>2, <1>4, <1>5, <1>6 DEF Inv, NothingLost
    <2>2. \A p \in current .. current + 1 - 1 : IsSpace(Char(p))
        BY <1>1, <1>2 DEF Peek
    <2> QED BY <1>2, <1>4, <1>5, <2>1, <2>2, BlankMore
<1>7. line' = 1 + Cardinality(Newlines(Len(tokens), Passed'))
    <2>1. line = 1 + Cardinality(Newlines(Len(tokens), current))
        BY <1>1, <1>4 DEF Inv, LinesSoFar
    <2>2. Cardinality(Newlines(Len(tokens), current + 1)) =
            Cardinality(Newlines(Len(tokens), current)) + (IF Char(current) = Newline THEN 1 ELSE 0)
        BY <1>1, <1>2, <1>4, NewlineMore
    <2>3. Cardinality(Newlines(Len(tokens), current)) \in Nat
        BY <1>2, NewlinesOf, FS_CardinalityType DEF Inv, TypeOK
    <2> QED BY <1>1, <1>4, <2>1, <2>2, <2>3 DEF Peek
<1> QED BY <1>1, <1>2, <1>3, <1>4, <1>6, <1>7, PassKeeps

LEMMA TakeFirstKeeps ==
    ASSUME Inv, TakeFirst
    PROVE  Inv'
<1>1. /\ mode = "blank" /\ mode' \in {"slash", "single", "first"}
      /\ Peek \notin {NUL, Ill} /\ ~IsSpace(Peek)
      /\ mode' = "slash" <=> Peek = "/"
      /\ mode' = "single" <=> Peek \in SingleTokens \ {"/"}
      /\ first' = Peek /\ start' = current /\ current' = Taken
      /\ UNCHANGED <<source, line, tokens>>
    BY DEF TakeFirst, Begin, SingleTokens
<1>2. /\ current < Len(source) /\ current' = current + 1 /\ current' \in Places
      /\ current \in Nat /\ current \in Places
    BY <1>1, TakenIs DEF Inv, TypeOK
<1>3. TypeOK'
    BY <1>1, <1>2, TextStays DEF Inv, TypeOK, Tokens, InToken
<1>4. Begun'
    <2>1. \A p : Char(p)' = Char(p)
        BY <1>1, TextStays
    <2>2. \A p \in start' .. current' - 1 : p = current
        BY <1>1, <1>2
    <2>3. start' < current' /\ current' = start' + 1
        BY <1>1, <1>2
    <2>4. first' = Char(start)' /\ ~IsSpace(first') /\ first' \notin {NUL, Ill}
        BY <1>1, <2>1 DEF Peek
    <2>5. \A p \in start' .. current' - 1 : Char(p)' \notin {NUL, Ill}
        BY <1>1, <2>1, <2>2 DEF Peek
    <2>6. mode' = "first" => first' \notin SingleTokens
        BY <1>1
    <2> QED BY <1>1, <2>3, <2>4, <2>5, <2>6 DEF Begun, IsSpace
<1>5. Passed = current /\ Passed' = current
    BY <1>1 DEF Passed, InToken
<1>6. Passed <= TextEnd => Blank(TokensEnd(Len(tokens)), Passed)
    BY <1>1 DEF Inv, NothingLost
<1>7. line = 1 + Cardinality(Newlines(Len(tokens), Passed))
    BY <1>1 DEF Inv, LinesSoFar
<1> QED BY <1>1, <1>2, <1>3, <1>4, <1>5, <1>6, <1>7, PassKeeps

LEMMA EndOfTextKeeps ==
    ASSUME Inv, EndOfText
    PROVE  Inv'
<1> DEFINE t == Token("EOFS", <<>>, current, current)
           N == Len(tokens)
<1>1. /\ mode = "blank" /\ Peek = NUL /\ tokens' = Append(tokens, t)
      /\ current' = Taken /\ mode' = "none" /\ UNCHANGED <<source, line, start, first>>
    BY DEF EndOfText
<1>2. /\ current \in Nat /\ Taken \in Places /\ Taken \in Nat /\ TextEnd <= current
      /\ Taken \in {current, current + 1} /\ N \in Nat /\ TextEnd \in Nat
    BY <1>1, TakenIs, TextEndIsFirst DEF Inv, TypeOK
<1>3. t \in Tokens /\ t.from = current /\ t.to = current /\ t.line = line
    BY DEF Inv, TypeOK, Token, Tokens, Types
<1>4. Passed = current /\ Passed' = Taken
    BY <1>1 DEF Passed, InToken
<1>5. t.line = 1 + Cardinality(Newlines(N, t.from))
    BY <1>1, <1>3, <1>4 DEF Inv, LinesSoFar
<1>6. IsNext(t, TokensEnd(N))
    BY <1>2, <1>3 DEF IsNext
<1>7. /\ tokens' \in Seq(Tokens) /\ Len(tokens') = N + 1
      /\ \A n \in 1 .. N : tokens'[n] = tokens[n]
      /\ tokens'[N + 1] = t
      /\ TokensAreLexemes' /\ LinesLeaveOutStrings'
      /\ TokensEnd(N)' = current
    BY <1>1, <1>3, <1>5, <1>6, TokenMore
<1>8. TypeOK'
    BY <1>1, <1>2, <1>7, TextStays DEF Inv, TypeOK, Tokens
<1>9. Begun'
    BY <1>1 DEF Begun, InToken
<1>10. TokensBehind'
    <2>1. ASSUME NEW n \in 1 .. N + 1
          PROVE  tokens'[n].from <= tokens'[n].to /\ tokens'[n].to <= Taken
        <3>1. CASE n \in 1 .. N
            BY <1>1, <1>2, <1>4, <1>7, <3>1, TokensAreBehind DEF Inv
        <3>2. CASE n = N + 1
            BY <1>2, <1>3, <1>7, <3>2
        <3> QED BY <1>2, <3>1, <3>2
    <2>2. DOMAIN tokens' = 1 .. N + 1
        BY <1>2, <1>7
    <2> QED BY <1>4, <2>1, <2>2 DEF TokensBehind
<1>11. NothingLost'
    <2>1. TextEnd' = TextEnd
        BY <1>1, TextStays
    <2>2. CASE Taken = current
        BY <1>2, <1>4, <1>7, <2>2 DEF NothingLost, Blank
    <2>3. CASE Taken = current + 1
        BY <1>2, <1>4, <2>1, <2>3 DEF NothingLost
    <2> QED BY <1>2, <2>2, <2>3
<1>12. LinesSoFar'
    <2>1. Char(current) # Newline
        BY <1>1 DEF Peek, NUL, Newline
    <2>2. ASSUME NEW p
          PROVE  p \in Newlines(N, Passed)' <=> p \in Newlines(N, current)
        <3>1. Char(p)' = Char(p)
            BY <1>1, TextStays
        <3>2. p \in Newlines(N, Passed)' <=>
                /\ p \in 0 .. Taken - 1 /\ Char(p) = Newline
                /\ \A k \in 1 .. N + 1 : p \notin tokens'[k].from .. tokens'[k].to - 1
            BY <1>4, <1>7, <3>1 DEF Newlines
        <3>3. (\A k \in 1 .. N + 1 : p \notin tokens'[k].from .. tokens'[k].to - 1) <=>
                \A k \in 1 .. N : p \notin tokens[k].from .. tokens[k].to - 1
            BY <1>2, <1>3, <1>7
        <3>4. p \in 0 .. Taken - 1 /\ Char(p) = Newline <=> p \in 0 .. current - 1 /\ Char(p) = Newline
            BY <1>2, <2>1
        <3> QED BY <3>2, <3>3, <3>4, Zenon DEF Newlines
    <2>3. Newlines(N, Passed)' = Newlines(N, current)
        BY <2>2
    <2> QED BY <1>1, <1>3, <1>5, <2>3 DEF LinesSoFar
<1> QED BY <1>7, <1>8, <1>9, <1>10, <1>11, <1>12 DEF Inv

-----------------------------------------------------------------------------
(* Tokens, and comments.                                                   *)

LEMMA Progress ==
    ASSUME Inv, mode \in InToken
    PROVE  /\ start \in Nat /\ current \in Nat /\ start < current /\ current <= Len(source)
           /\ Len(source) \in Nat /\ TextEnd \in Nat /\ TextEnd <= Len(source)
           /\ start \in Places /\ current \in Places
           /\ first = Char(start) /\ first \notin {NUL, Ill}
           /\ start < TextEnd => current <= TextEnd
           /\ Slice(start, current) = Text /\ Text \in Seq(Characters)
<1>1. /\ start \in Nat /\ current \in Nat /\ start < current /\ current <= Len(source)
      /\ start \in Places /\ current \in Places
      /\ Len(source) \in Nat /\ \A p \in start .. current - 1 : Char(p) \notin {NUL, Ill}
      /\ first = Char(start)
    BY DEF Inv, TypeOK, Begun, Places
<1>2. first \notin {NUL, Ill}
    BY <1>1
<1>3. TextEnd \in Nat /\ TextEnd <= Len(source)
    BY <1>1, TextEndIsFirst DEF Inv
<1>4. start < TextEnd => current <= TextEnd
    BY <1>1, BeforeTheEnd DEF Inv
<1>5. Slice(start, current) = Text
    BY DEF Text
<1>6. Text \in Seq(Characters)
    BY <1>1, <1>5, Sliced DEF Inv
<1> QED BY <1>1, <1>2, <1>3, <1>4, <1>5, <1>6

(* A token that is the longest lexeme from where it starts.                *)
LEMMA Follows ==
    ASSUME Inv, mode \in InToken, start < TextEnd,
           NEW type \in Types \ {"ERROR", "EOFS"}, NEW to \in start + 1 .. TextEnd,
           IsLexeme(Slice(start, to)), Is(type, Slice(start, to)),
           \A k \in to + 1 .. TextEnd : ~IsLexeme(Slice(start, k)),
           NEW text, text = IF type = "STRING" THEN Slice(start + 1, to - 1) ELSE Slice(start, to)
    PROVE  IsNext(Token(type, text, start, to), start)
<1> DEFINE t == Token(type, text, start, to)
<1>1. t.from = start /\ t.to = to /\ t.type = type /\ t.text = text
    BY DEF Token
<1>2. start \in Nat /\ TextEnd \in Nat /\ to \in Nat
    BY Progress
<1>3. Blank(start, start)
    BY <1>2 DEF Blank
<1>4. to \in Longest(start)
    BY DEF Longest
<1>5. ASSUME NEW k \in Longest(start)
      PROVE  k <= to
    BY <1>2 DEF Longest
<1> QED BY <1>1, <1>3, <1>4, <1>5 DEF IsNext

LEMMA AnError ==
    ASSUME Inv, mode \in InToken, start < TextEnd,
           \A k \in start + 1 .. TextEnd : ~IsLexeme(Slice(start, k)),
           current = IF Char(start) = Quote THEN TextEnd ELSE start + 1
    PROVE  IsNext(Token("ERROR", <<>>, start, current), start)
<1> DEFINE t == Token("ERROR", <<>>, start, current)
<1>1. t.from = start /\ t.to = current /\ t.type = "ERROR"
    BY DEF Token
<1>2. Blank(start, start)
    BY Progress DEF Blank
<1>3. Longest(start) = {}
    BY DEF Longest
<1> QED BY <1>1, <1>2, <1>3 DEF IsNext

(* A token of one character: a slash that begins no comment, or another.   *)
LEMMA SingleFollows ==
    ASSUME Inv, mode \in InToken, start < TextEnd, current = start + 1,
           first \in SingleTokens, first = "/" => Char(start + 1) # "/"
    PROVE  IsNext(Token(first, Text, start, current), start)
<1>1. /\ start \in Nat /\ current \in start + 1 .. TextEnd /\ TextEnd <= Len(source)
      /\ TextEnd \in Nat /\ Len(source) \in Nat /\ first = Char(start)
      /\ Slice(start, current) = Text
    BY Progress
<1>2. \A k \in start + 1 .. TextEnd : k \in start + 1 .. Len(source)
    BY <1>1
<1>3. IsSingle(Text) /\ Text[1] = first
    BY <1>1, <1>2, ShortIsAt DEF SingleAt, Inv
<1>4. ~IsDigit(first) /\ ~Begins(first) /\ first \notin {"!", "=", "<", ">", Quote}
    <2>1. first \in Marks \ {"_"} /\ first \notin {"!", "=", "<", ">", Quote}
        BY DEF SingleTokens, Marks, Quote
    <2> QED BY <2>1, Classes
<1>5. ASSUME NEW k \in current + 1 .. TextEnd
      PROVE  ~IsLexeme(Slice(start, k))
    <2>1. k \in start + 1 .. Len(source) /\ k # start + 1
        BY <1>1
    <2>2. ~SingleAt(start, k) /\ ~CommentMarkAt(start, k)
        BY <1>1, <2>1 DEF SingleAt, CommentMarkAt
    <2> QED BY <1>1, <1>4, <2>1, <2>2, LexemesAt, Zenon DEF Inv
<1>6. first \in Types \ {"ERROR", "EOFS"}
    BY DEF Types, SingleTokens
<1>7. first \notin {"NUMBER", "STRING", "IDENTIFIER", "keyword", "operator"}
    BY DEF SingleTokens
<1>8. Is(first, Text)
    BY <1>3, <1>7 DEF Is
<1>9. IsLexeme(Text)
    BY <1>3 DEF IsLexeme
<1> QED BY <1>1, <1>5, <1>6, <1>7, <1>8, <1>9, Follows

LEMMA SlashKeeps ==
    ASSUME Inv, Slash
    PROVE  Inv'
<1>1. mode = "slash" /\ mode \in InToken
    BY DEF Slash, InToken
<1>2. /\ start \in Nat /\ current = start + 1 /\ first = "/" /\ first = Char(start)
      /\ start \in Places /\ current \in Places /\ Text \in Seq(Characters)
    BY <1>1, Progress DEF Inv, Begun
<1>3. CASE Peek = "/"
    <2>1. /\ mode' = "comment" /\ current' = current
          /\ UNCHANGED <<source, line, start, first, tokens>>
        BY <1>3 DEF Slash, Stay
    <2>2. Begun'
        <3>1. \A p : Char(p)' = Char(p)
            BY <2>1, TextStays
        <3>2. \A p \in start .. current - 1 : Char(p) = "/"
            BY <1>2
        <3>3. Char(start + 1) = "/"
            BY <1>2, <1>3 DEF Peek
        <3> QED BY <1>1, <1>2, <2>1, <3>1, <3>2, <3>3 DEF Inv, Begun, Newline, NUL, Ill, IsSpace
    <2> QED BY <1>1, <1>2, <2>1, <2>2, StayKeeps DEF InToken
<1>4. CASE Peek # "/"
    <2>1. Return("/", Text, current)
        BY <1>4 DEF Slash
    <2>2. start < TextEnd => IsNext(Token("/", Text, start, current), start)
        BY <1>1, <1>2, <1>4, SingleFollows DEF Peek, SingleTokens
    <2>3. start <= current
        BY <1>2
    <2> QED BY <1>1, <1>2, <2>1, <2>2, <2>3, ReturnKeeps DEF Types, SingleTokens
<1> QED BY <1>3, <1>4

LEMMA SingleKeeps ==
    ASSUME Inv, Single
    PROVE  Inv'
<1>1. mode = "single" /\ mode \in InToken /\ Return(first, Text, current)
    BY DEF Single, InToken
<1>2. /\ start \in Nat /\ current = start + 1 /\ first \in SingleTokens /\ first # "/"
      /\ current \in Places /\ Text \in Seq(Characters) /\ start <= current
    BY <1>1, Progress DEF Inv, Begun
<1>3. start < TextEnd => IsNext(Token(first, Text, start, current), start)
    BY <1>1, <1>2, SingleFollows
<1> QED BY <1>1, <1>2, <1>3, ReturnKeeps DEF Types

LEMMA CommentKeeps ==
    ASSUME Inv, Comment
    PROVE  Inv'
<1> DEFINE from == TokensEnd(Len(tokens))
<1>1. /\ mode = "comment" /\ mode \in InToken /\ Peek # Ill
      /\ current' = Taken /\ mode' = (IF Peek \in {Newline, NUL} THEN "blank" ELSE "comment")
      /\ line' = (IF Peek = Newline THEN line + 1 ELSE line)
      /\ UNCHANGED <<source, start, first, tokens>>
    BY DEF Comment, Stay, InToken
<1>2. /\ start \in Nat /\ current \in Nat /\ start < current /\ start \in Places /\ current \in Places
      /\ first = "/" /\ Char(start) = "/" /\ Char(start + 1) = "/"
      /\ \A p \in start .. current - 1 : Char(p) # Newline /\ Char(p) \notin {NUL, Ill}
      /\ TextEnd \in Nat
    BY <1>1, Progress DEF Inv, Begun
<1>3. CASE Peek \notin {Newline, NUL}
    <2>1. current' = current + 1 /\ mode' = "comment" /\ line' = line
        BY <1>1, <1>3, TakenIs DEF Inv
    <2>2. Begun'
        <3>1. \A p : Char(p)' = Char(p)
            BY <1>1, TextStays
        <3>2. \A p \in start .. current : Char(p) # Newline /\ Char(p) \notin {NUL, Ill}
            BY <1>1, <1>2, <1>3 DEF Peek
        <3>3. start < current + 1 /\ current + 1 - 1 = current
            BY <1>2
        <3> QED BY <1>1, <1>2, <2>1, <3>1, <3>2, <3>3 DEF Inv, Begun
    <2> QED BY <1>1, <1>3, <2>1, <2>2, TakenIs, StayKeeps DEF InToken, Inv
<1>4. CASE Peek \in {Newline, NUL}
    <2>1. /\ Taken \in Nat /\ Taken \in Places /\ Taken \in {current, current + 1}
          /\ Peek = Newline => Taken = current + 1
          /\ Peek = NUL => TextEnd <= current
        BY TakenIs DEF Inv, NUL, Newline
    <2>2. Passed = start /\ Passed' = Taken /\ mode' = "blank"
        BY <1>1, <1>4 DEF Passed, InToken
    <2>3. TypeOK' /\ Begun'
        BY <1>1, <2>1, <2>2, TextStays DEF Inv, TypeOK, Tokens, Begun, InToken
    <2>4. start + 2 <= current
        <3>1. Peek # "/"
            BY <1>4 DEF Newline, NUL
        <3>2. current # start + 1
            BY <1>2, <3>1 DEF Peek
        <3> QED BY <1>2, <3>2
    <2>5. ASSUME Passed' <= TextEnd
          PROVE  Blank(from, Passed')
        <3>1. start <= TextEnd
            BY <1>2, <2>1, <2>2, <2>5
        <3>2. Blank(from, start)
            BY <1>1, <2>2, <3>1 DEF Inv, NothingLost
        <3>3. from \in Nat /\ from <= start
            BY <1>1, <2>2, TokensAreBehind DEF Inv
        <3>4. ASSUME NEW p \in start + 1 .. current - 1
              PROVE  InComment(from, p)
            <4>1. start \in from .. p - 1 /\ \A i \in start .. p : Char(i) # Newline
                BY <1>2, <3>3
            <4> QED BY <1>2, <4>1 DEF InComment
        <3>5. ASSUME NEW p \in start .. Taken - 1
              PROVE  \/ IsSpace(Char(p)) \/ InComment(from, p)
                     \/ p + 1 < Taken /\ InComment(from, p + 1) /\ Char(p) = "/"
            <4>1. CASE p = start
                <5>1. start + 1 \in start + 1 .. current - 1 /\ start + 1 < Taken
                    BY <1>2, <2>1, <2>4
                <5> QED BY <1>2, <3>4, <4>1, <5>1
            <4>2. CASE p \in start + 1 .. current - 1
                BY <3>4, <4>2
            <4>3. CASE p = current
                <5>1. Taken = current + 1
                    BY <1>2, <2>1, <4>3
                <5>2. Peek = Newline
                    BY <1>2, <1>4, <2>1, <2>2, <2>5, <5>1
                <5> QED BY <4>3, <5>2 DEF Peek, IsSpace
            <4> QED BY <1>2, <2>1, <4>1, <4>2, <4>3
        <3>6. start <= Taken
            BY <1>2, <2>1
        <3> QED BY <1>2, <2>1, <2>2, <3>2, <3>3, <3>5, <3>6, BlankMore
    <2>6. line' = 1 + Cardinality(Newlines(Len(tokens), Passed'))
        <3>1. line = 1 + Cardinality(Newlines(Len(tokens), start))
            BY <1>1, <2>2 DEF Inv, LinesSoFar
        <3>2. /\ Newlines(Len(tokens), current) = Newlines(Len(tokens), start)
              /\ Cardinality(Newlines(Len(tokens), current + 1)) =
                    Cardinality(Newlines(Len(tokens), current)) + (IF Char(current) = Newline THEN 1 ELSE 0)
            <4>1. start <= current
                BY <1>2
            <4> QED BY <1>1, <1>2, <2>2, <4>1, NewlineMore
        <3>3. Cardinality(Newlines(Len(tokens), start)) \in Nat
            BY <1>2, NewlinesOf, FS_CardinalityType DEF Inv, TypeOK
        <3>4. CASE Peek = Newline
            BY <1>1, <2>1, <2>2, <3>1, <3>2, <3>3, <3>4 DEF Peek
        <3>5. CASE Peek = NUL
            <4>1. Char(current) # Newline /\ line' = line
                BY <1>1, <3>5 DEF Peek, NUL, Newline
            <4> QED BY <2>1, <2>2, <3>1, <3>2, <3>3, <4>1
        <3> QED BY <1>4, <3>4, <3>5
    <2>7. Passed <= Passed'
        BY <1>2, <2>1, <2>2
    <2> QED BY <1>1, <2>2, <2>3, <2>5, <2>6, <2>7, PassKeeps
<1> QED BY <1>3, <1>4

(* One or two characters, the second of which is an equals sign.           *)
LEMMA OperatorKeeps ==
    ASSUME Inv, Operator
    PROVE  Inv'
<1>1. mode = "first" /\ mode \in InToken /\ first \in {"!", "=", ">", "<"}
    BY DEF Operator, InToken
<1>2. /\ start \in Nat /\ current \in Nat /\ current = start + 1 /\ first = Char(start)
      /\ current \in Places /\ Text \in Seq(Characters) /\ Slice(start, current) = Text
      /\ TextEnd \in Nat /\ Len(source) \in Nat /\ TextEnd <= Len(source)
      /\ start < TextEnd => current <= TextEnd
    BY <1>1, Progress DEF Inv, Begun
<1>3. ~IsDigit(first) /\ ~Begins(first) /\ first \notin SingleTokens /\ first \notin {"/", Quote}
    <2>1. first \in Marks \ {"_"} /\ first \notin SingleTokens /\ first \notin {"/", Quote}
        BY <1>1 DEF SingleTokens, Marks, Quote
    <2> QED BY <2>1, Classes
<1>4. ASSUME NEW k \in start + 1 .. Len(source)
      PROVE  IsLexeme(Slice(start, k)) <=> IsOperator(Slice(start, k))
    <2>1. IsOperator(Slice(start, k)) <=> OperatorAt(start, k)
        BY <1>2, ShortIsAt DEF Inv
    <2> QED BY <1>2, <1>3, <2>1, LexemesAt, Zenon DEF Inv
<1>5. ASSUME NEW k \in start + 1 .. Len(source)
      PROVE  IsOperator(Slice(start, k)) <=> k = start + 1 \/ (k = start + 2 /\ Peek = "=")
    BY <1>1, <1>2, ShortIsAt DEF Inv, OperatorAt, Peek
<1>6. "operator" \in Types /\ "operator" \in Types \ {"ERROR", "EOFS"}
    BY DEF Types
<1>7. CASE Peek = "="
    <2>1. Return("operator", Slice(start, current + 1), current + 1)
        BY <1>7 DEF Operator
    <2>2. current < Len(source)
        BY <1>7, TakenIs DEF Inv, NUL
    <2>3. current + 1 \in Places /\ Slice(start, current + 1) \in Seq(Characters) /\ start <= current + 1
        <3>1. PICK to \in Nat : to = current + 1
            BY <1>2
        <3>2. start <= to /\ to <= Len(source)
            BY <1>2, <2>2, <3>1
        <3>3. Slice(start, to) \in Seq(Characters)
            BY <1>2, <3>2, Sliced DEF Inv
        <3>4. to \in Places
            BY <1>2, <3>2 DEF Places
        <3> QED BY <3>1, <3>2, <3>3, <3>4
    <2>4. ASSUME start < TextEnd
          PROVE  IsNext(Token("operator", Slice(start, current + 1), start, current + 1), start)
        <3>1. current # TextEnd
            BY <1>7, TextEndIsFirst DEF Inv, Peek, NUL
        <3>2. current + 1 \in start + 1 .. TextEnd /\ current + 1 \in start + 1 .. Len(source)
            BY <1>2, <2>4, <3>1
        <3>3. IsOperator(Slice(start, current + 1)) /\ IsLexeme(Slice(start, current + 1))
            <4>1. current + 1 = start + 2
                BY <1>2
            <4> QED BY <1>4, <1>5, <1>7, <3>2, <4>1
        <3>4. ASSUME NEW k \in current + 1 + 1 .. TextEnd
              PROVE  ~IsLexeme(Slice(start, k))
            <4>1. k \in start + 1 .. Len(source) /\ k # start + 1 /\ k # start + 2
                BY <1>2
            <4> QED BY <1>4, <1>5, <4>1
        <3>5. Is("operator", Slice(start, current + 1))
            BY <3>3 DEF Is
        <3> QED BY <1>1, <1>6, <2>4, <3>2, <3>3, <3>4, <3>5, Follows
    <2> QED BY <1>1, <1>6, <2>1, <2>3, <2>4, ReturnKeeps
<1>8. CASE Peek # "="
    <2>1. Return("operator", Text, current)
        BY <1>8 DEF Operator
    <2>2. ASSUME start < TextEnd
          PROVE  IsNext(Token("operator", Text, start, current), start)
        <3>1. current \in start + 1 .. TextEnd /\ current \in start + 1 .. Len(source)
            BY <1>2, <2>2
        <3>2. IsOperator(Text) /\ IsLexeme(Text)
            BY <1>2, <1>4, <1>5, <3>1
        <3>3. ASSUME NEW k \in current + 1 .. TextEnd
              PROVE  ~IsLexeme(Slice(start, k))
            <4>1. k \in start + 1 .. Len(source) /\ k # start + 1
                BY <1>2
            <4> QED BY <1>4, <1>5, <1>8, <4>1
        <3>4. Is("operator", Text)
            BY <3>2 DEF Is
        <3> QED BY <1>1, <1>2, <1>6, <2>2, <3>1, <3>2, <3>3, <3>4, Follows
    <2>3. start <= current
        BY <1>2
    <2> QED BY <1>1, <1>2, <1>6, <2>1, <2>2, <2>3, ReturnKeeps
<1> QED BY <1>7, <1>8

LEMMA ChooseKeeps ==
    ASSUME Inv, Choose
    PROVE  Inv'
<1>1. /\ mode = "first" /\ mode \in InToken /\ current' = current
      /\ UNCHANGED <<source, line, start, first, tokens>>
      /\ mode' \in {"string", "number", "identifier"}
      /\ mode' = "string" => first = Quote
      /\ mode' = "number" => IsDigit(first)
      /\ mode' = "identifier" => Begins(first)
    BY DEF Choose, InToken, Stay
<1>2. /\ start \in Nat /\ current = start + 1 /\ first = Char(start)
      /\ start \in Places /\ current \in Places
    BY <1>1, Progress DEF Inv, Begun
<1>3. \A p : Char(p)' = Char(p)
    BY <1>1, TextStays
<1>4. \A p \in start .. current - 1 : p = start
    BY <1>2
<1>5. mode' = "number" => Number'
    <2>1. current \in start + 1 .. current /\ ~(current < current)
        BY <1>2
    <2>2. IsDigit(first) => \A p \in start .. current - 1 : IsDigit(Char(p))
        BY <1>2, <1>4
    <2> QED BY <1>1, <1>3, <2>1, <2>2 DEF Number
<1>6. mode' = "identifier" => \A p \in start .. current - 1 : Continues(Char(p))
    BY <1>1, <1>2, <1>4, Classes
<1>7. mode' = "string" => \A p \in start + 1 .. current - 1 : Char(p) # Quote
    BY <1>2
<1>8. Begun'
    BY <1>1, <1>2, <1>3, <1>5, <1>6, <1>7 DEF Inv, Begun, IsSpace
<1> QED BY <1>1, <1>2, <1>8, StayKeeps DEF InToken

LEMMA UnexpectedKeeps ==
    ASSUME Inv, Unexpected
    PROVE  Inv'
<1>1. /\ mode = "first" /\ mode \in InToken /\ Return("ERROR", <<>>, current)
      /\ first \notin {"!", "=", ">", "<", Quote} /\ ~IsDigit(first) /\ ~Begins(first)
    BY DEF Unexpected, ErrorToken, InToken
<1>2. /\ start \in Nat /\ current = start + 1 /\ first = Char(start) /\ start <= current
      /\ first \notin SingleTokens /\ current \in Places
      /\ Len(source) \in Nat /\ TextEnd \in Nat /\ TextEnd <= Len(source)
    <2>1. current = start + 1 /\ first \notin SingleTokens
        BY <1>1 DEF Inv, Begun
    <2>2. start < current /\ start \in Nat /\ current \in Nat
        BY <1>1, Progress
    <2> QED BY <1>1, <2>1, <2>2, Progress
<1>3. ASSUME start < TextEnd
      PROVE  IsNext(Token("ERROR", <<>>, start, current), start)
    <2>1. ASSUME NEW k \in start + 1 .. TextEnd
          PROVE  ~IsLexeme(Slice(start, k))
        <3>1. k \in start + 1 .. Len(source)
            BY <1>2
        <3>2. first # "/"
            BY <1>2 DEF SingleTokens
        <3> QED BY <1>1, <1>2, <3>1, <3>2, LexemesAt DEF Inv
    <2> QED BY <1>1, <1>2, <1>3, <2>1, AnError
<1>4. <<>> \in Seq(Characters)
    OBVIOUS
<1> QED BY <1>1, <1>2, <1>3, <1>4, ReturnKeeps DEF Types

-----------------------------------------------------------------------------
(* Strings, numbers and identifiers.                                       *)

(* Taking a character that is there goes on with what is begun.            *)
LEMMA TakeMore ==
    ASSUME Inv, mode \in {"string", "number", "identifier"}, Stay(Taken, mode), UNCHANGED line,
           Peek \notin {NUL, Ill},
           mode = "string" => Peek # Quote,
           mode = "identifier" => Continues(Peek),
           mode = "number" => Number'
    PROVE  Inv'
<1>1. /\ mode \in InToken /\ mode' = mode
      /\ UNCHANGED <<source, line, start, first, tokens>>
    BY DEF Stay, InToken
<1>2. /\ start \in Nat /\ current \in Nat /\ start < current /\ start \in Places /\ first = Char(start)
    BY <1>1, Progress
<1>3. current' = current + 1 /\ current' \in Places
    BY TakenIs DEF Inv, Stay
<1>4. \A p : Char(p)' = Char(p)
    BY <1>1, TextStays
<1>5. \A p \in start .. current' - 1 : p \in start .. current - 1 \/ p = current
    BY <1>2, <1>3
<1>6. \A p \in start + 1 .. current' - 1 : p \in start + 1 .. current - 1 \/ p = current
    BY <1>2, <1>3
<1>7. \A p \in start .. current' - 1 : Char(p) \notin {NUL, Ill}
    BY <1>1, <1>5 DEF Inv, Begun, Peek
<1>8. mode = "string" => first = Quote /\ \A p \in start + 1 .. current' - 1 : Char(p) # Quote
    BY <1>1, <1>6 DEF Inv, Begun, Peek
<1>9. mode = "identifier" => Begins(first) /\ \A p \in start .. current' - 1 : Continues(Char(p))
    BY <1>1, <1>5 DEF Inv, Begun, Peek
<1>10. ~IsSpace(first)
    BY <1>1 DEF Inv, Begun
<1>11. start < current'
    BY <1>2, <1>3
<1>12. Begun'
    BY <1>1, <1>2, <1>4, <1>7, <1>8, <1>9, <1>10, <1>11 DEF Begun, IsSpace
<1> QED BY <1>1, <1>3, <1>12, StayKeeps

LEMMA GetStringKeeps ==
    ASSUME Inv, GetString
    PROVE  Inv'
<1>1. mode = "string" /\ mode \in InToken /\ Peek # Ill
    BY DEF GetString, InToken
<1>2. /\ start \in Nat /\ current \in Nat /\ start < current /\ current <= Len(source)
      /\ current \in Places /\ first = Char(start) /\ first = Quote
      /\ \A p \in start + 1 .. current - 1 : Char(p) # Quote
      /\ Len(source) \in Nat /\ TextEnd \in Nat /\ TextEnd <= Len(source)
      /\ start < TextEnd => current <= TextEnd
    BY <1>1, Progress DEF Inv, Begun
<1>3. first \notin {"!", "=", "<", ">", "/"} /\ first \notin SingleTokens /\ ~IsDigit(first) /\ ~Begins(first)
    <2>1. first \in Marks \ {"_"} /\ first \notin {"!", "=", "<", ">", "/"} /\ first \notin SingleTokens
        BY <1>2 DEF Quote, Marks, SingleTokens
    <2> QED BY <2>1, Classes
<1>4. ASSUME NEW k \in start + 1 .. Len(source)
      PROVE  /\ IsLexeme(Slice(start, k)) => StringAt(start, k)
             /\ StringAt(start, k) => IsString(Slice(start, k)) /\ IsLexeme(Slice(start, k))
    <2>1. IsString(Slice(start, k)) <=> StringAt(start, k)
        BY <1>2, StringIsAt DEF Inv
    <2> QED BY <1>2, <1>3, <2>1, LexemesAt, Zenon DEF Inv
<1>5. CASE Peek = NUL
    <2>1. Return("ERROR", <<>>, current)
        BY <1>5 DEF GetString, ErrorToken
    <2>2. ASSUME start < TextEnd
          PROVE  IsNext(Token("ERROR", <<>>, start, current), start)
        <3>1. current = TextEnd
            BY <1>2, <1>5, <2>2, TakenIs DEF Inv
        <3>2. ASSUME NEW k \in start + 1 .. TextEnd, StringAt(start, k)
              PROVE  FALSE
            <4>1. k > start + 1 /\ Char(k - 1) = Quote
                BY <3>2 DEF StringAt
            <4>2. k - 1 \in start + 1 .. current - 1
                BY <1>2, <3>1, <4>1
            <4> QED BY <1>2, <4>1, <4>2
        <3>3. ASSUME NEW k \in start + 1 .. TextEnd
              PROVE  ~IsLexeme(Slice(start, k))
            <4>1. k \in start + 1 .. Len(source)
                BY <1>2
            <4> QED BY <1>4, <3>2, <4>1
        <3> QED BY <1>1, <1>2, <2>2, <3>1, <3>3, AnError
    <2>3. <<>> \in Seq(Characters) /\ start <= current
        BY <1>2
    <2> QED BY <1>1, <1>2, <2>1, <2>2, <2>3, ReturnKeeps DEF Types
<1>6. CASE Peek = Quote
    <2>1. Return("STRING", Slice(start + 1, current), current + 1)
        BY <1>6 DEF GetString, Quote, NUL
    <2>2. current < Len(source)
        BY <1>6, TakenIs DEF Inv, NUL, Quote
    <2>3. PICK to \in Nat : to = current + 1
        BY <1>2
    <2>4. to \in Places /\ start <= to /\ to \in start + 1 .. Len(source) /\ to - 1 = current
        BY <1>2, <2>2, <2>3 DEF Places
    <2>5. Slice(start + 1, current) \in Seq(Characters)
        <3>1. start + 1 \in Nat /\ start + 1 <= current
            BY <1>2
        <3> QED BY <1>2, <3>1, Sliced DEF Inv
    <2>6. StringAt(start, to)
        <3>1. to > start + 1 /\ to - 2 = current - 1
            BY <1>2, <2>3
        <3> QED BY <1>2, <1>6, <2>4, <3>1 DEF StringAt, Peek
    <2>7. ASSUME start < TextEnd
          PROVE  IsNext(Token("STRING", Slice(start + 1, current), start, to), start)
        <3>1. current # TextEnd
            BY <1>6, TextEndIsFirst DEF Inv, Peek, NUL, Quote
        <3>2. to \in start + 1 .. TextEnd
            BY <1>2, <2>3, <2>7, <3>1
        <3>3. IsString(Slice(start, to)) /\ IsLexeme(Slice(start, to))
            BY <1>4, <2>4, <2>6
        <3>4. ASSUME NEW k \in to + 1 .. TextEnd
              PROVE  ~IsLexeme(Slice(start, k))
            <4>1. k \in start + 1 .. Len(source) /\ current \in start + 1 .. k - 2
                BY <1>2, <2>3
            <4>2. ~StringAt(start, k)
                BY <1>6, <4>1 DEF StringAt, Peek
            <4> QED BY <1>4, <4>1, <4>2
        <3>5. Is("STRING", Slice(start, to))
            BY <3>3 DEF Is
        <3>6. "STRING" \in Types \ {"ERROR", "EOFS"}
            BY DEF Types
        <3>7. Slice(start + 1, current) = Slice(start + 1, to - 1)
            BY <2>4
        <3> QED BY <1>1, <2>7, <3>2, <3>3, <3>4, <3>5, <3>6, <3>7, Follows
    <2>8. "STRING" \in Types
        BY DEF Types
    <2> QED BY <1>1, <2>1, <2>3, <2>4, <2>5, <2>7, <2>8, ReturnKeeps
<1>7. CASE Peek \notin {NUL, Quote}
    <2>1. Stay(Taken, mode) /\ UNCHANGED line
        BY <1>1, <1>7 DEF GetString
    <2> QED BY <1>1, <1>7, <2>1, TakeMore
<1> QED BY <1>5, <1>6, <1>7

LEMMA GetIdentifierKeeps ==
    ASSUME Inv, GetIdentifier
    PROVE  Inv'
<1>1. mode = "identifier" /\ mode \in InToken /\ Peek # Ill
    BY DEF GetIdentifier, InToken
<1>2. /\ start \in Nat /\ current \in Nat /\ start < current /\ start <= current
      /\ current \in Places /\ first = Char(start) /\ Begins(first)
      /\ \A p \in start .. current - 1 : Continues(Char(p))
      /\ Len(source) \in Nat /\ TextEnd \in Nat /\ TextEnd <= Len(source)
      /\ Text \in Seq(Characters) /\ Slice(start, current) = Text
      /\ current \in start + 1 .. Len(source)
      /\ start < TextEnd => current <= TextEnd
    BY <1>1, Progress DEF Inv, Begun
<1>3. CASE Continues(Peek)
    <2>1. Stay(Taken, mode) /\ UNCHANGED line
        BY <1>1, <1>3 DEF GetIdentifier
    <2>2. Peek # NUL
        BY <1>3, Classes DEF Marks, NUL
    <2> QED BY <1>1, <1>3, <2>1, <2>2, TakeMore
<1>4. CASE ~Continues(Peek)
    <2>1. PICK type : type = IF Text \in Keywords THEN "keyword" ELSE "IDENTIFIER"
        OBVIOUS
    <2>2. Return(type, Text, current)
        BY <1>4, <2>1 DEF GetIdentifier
    <2>3. type \in Types \ {"ERROR", "EOFS"} /\ type # "STRING"
        BY <2>1 DEF Types
    <2>4. ~IsDigit(first) /\ first \notin {"!", "=", "<", ">", "/", Quote} /\ first \notin SingleTokens
        <3>1. first \notin Marks \ {"_"} /\ ~IsDigit(first)
            BY <1>2, Classes
        <3> QED BY <3>1 DEF Marks, SingleTokens, Quote
    <2>5. ASSUME NEW k \in start + 1 .. Len(source)
          PROVE  /\ IsLexeme(Slice(start, k)) => IdentifierAt(start, k)
                 /\ IdentifierAt(start, k) => IsIdentifier(Slice(start, k)) /\ IsLexeme(Slice(start, k))
        <3>1. IsIdentifier(Slice(start, k)) <=> IdentifierAt(start, k)
            BY <1>2, IdentifierIsAt DEF Inv
        <3> QED BY <1>2, <2>4, <3>1, LexemesAt, Zenon DEF Inv
    <2>6. ASSUME start < TextEnd
          PROVE  IsNext(Token(type, Text, start, current), start)
        <3>1. current \in start + 1 .. TextEnd
            BY <1>2, <2>6
        <3>2. IdentifierAt(start, current)
            BY <1>2 DEF IdentifierAt
        <3>3. IsIdentifier(Text) /\ IsLexeme(Text)
            BY <1>2, <2>5, <3>2
        <3>4. ASSUME NEW k \in current + 1 .. TextEnd
              PROVE  ~IsLexeme(Slice(start, k))
            <4>1. k \in start + 1 .. Len(source) /\ current \in start .. k - 1
                BY <1>2
            <4>2. ~IdentifierAt(start, k)
                BY <1>4, <4>1 DEF IdentifierAt, Peek
            <4> QED BY <2>5, <4>1, <4>2
        <3>5. Is(type, Text)
            BY <2>1, <3>3 DEF Is
        <3> QED BY <1>1, <1>2, <2>3, <2>6, <3>1, <3>3, <3>4, <3>5, Follows
    <2> QED BY <1>1, <1>2, <2>2, <2>3, <2>6, ReturnKeeps
<1> QED BY <1>3, <1>4

LEMMA GetNumberKeeps ==
    ASSUME Inv, GetNumber
    PROVE  Inv'
<1>1. mode = "number" /\ mode \in InToken /\ Peek # Ill
    BY DEF GetNumber, InToken
<1>2. /\ start \in Nat /\ current \in Nat /\ start < current /\ start <= current
      /\ current \in Places /\ first = Char(start) /\ IsDigit(first) /\ Number
      /\ Len(source) \in Nat /\ TextEnd \in Nat /\ TextEnd <= Len(source)
      /\ Text \in Seq(Characters) /\ Slice(start, current) = Text
      /\ current \in start + 1 .. Len(source) /\ current <= Len(source)
      /\ start < TextEnd => current <= TextEnd
    <2>1. Number
        BY <1>1 DEF Inv, Begun
    <2>2. /\ start \in Nat /\ current \in Nat /\ start < current /\ current <= Len(source)
          /\ Len(source) \in Nat
        BY <1>1, Progress
    <2>3. start <= current /\ current \in start + 1 .. Len(source)
        BY <2>2
    <2> QED BY <1>1, <2>1, <2>2, <2>3, Progress DEF Number
<1>3. PICK dot \in start + 1 .. current :
        /\ dot < current => Char(dot) = "."
        /\ \A p \in start .. current - 1 : p # dot => IsDigit(Char(p))
    BY <1>2 DEF Number
<1>4. \A c : IsDigit(c) => c \notin {".", NUL, "!", "=", "<", ">", "/", Quote} /\ c \notin SingleTokens /\ ~Begins(c)
    <2>1. \A c : IsDigit(c) => c \notin Marks /\ ~Begins(c)
        BY Classes
    <2> QED BY <2>1 DEF Marks, SingleTokens, Quote, NUL
<1>5. /\ Len(Text) = current - start /\ Len(Text) \in 1 .. Len(Text)
      /\ \A i \in 1 .. current - start : Text[i] = Char(start + i - 1)
    <2>1. /\ Len(Slice(start, current)) = current - start
          /\ \A i \in 1 .. current - start : Slice(start, current)[i] = Char(start + i - 1)
        BY <1>2, Sliced DEF Inv
    <2>2. current - start \in 1 .. current - start
        BY <1>2
    <2> QED BY <1>2, <2>1, <2>2
<1>6. SeenDot <=> dot < current
    <2>1. ASSUME dot < current
          PROVE  SeenDot
        <3>1. PICK i \in 1 .. current - start : i = dot - start + 1
            BY <1>2, <2>1
        <3>2. start + i - 1 = dot
            BY <1>2, <3>1
        <3>3. Text[i] = "." /\ i \in DOMAIN Text
            BY <1>2, <1>3, <1>5, <2>1, <3>2
        <3> QED BY <3>3 DEF SeenDot, Range
    <2>2. ASSUME SeenDot
          PROVE  dot < current
        <3>1. PICK i \in DOMAIN Text : Text[i] = "."
            BY <2>2 DEF SeenDot, Range
        <3>2. PICK p \in start .. current - 1 : p = start + i - 1
            BY <1>2, <1>5
        <3>3. Char(p) = "."
            BY <1>2, <1>5, <3>1, <3>2
        <3>4. p = dot
            BY <1>3, <1>4, <3>3
        <3> QED BY <1>2, <3>4
    <2> QED BY <2>1, <2>2
<1>7. EndsInDot <=> dot = current - 1
    <2>1. Text[Len(Text)] = Char(current - 1) /\ current - 1 \in start .. current - 1
        <3>1. PICK i \in 1 .. current - start : i = Len(Text)
            BY <1>2, <1>5
        <3>2. start + i - 1 = current - 1
            BY <1>2, <1>5, <3>1
        <3> QED BY <1>2, <1>5, <3>1, <3>2
    <2> QED BY <1>2, <1>3, <1>4, <2>1 DEF EndsInDot
<1>8. ASSUME NEW k \in start + 1 .. Len(source)
      PROVE  /\ IsLexeme(Slice(start, k)) => NumberAt(start, k)
             /\ NumberAt(start, k) => IsNumber(Slice(start, k)) /\ IsLexeme(Slice(start, k))
    <2>1. IsNumber(Slice(start, k)) <=> NumberAt(start, k)
        BY <1>2, NumberIsAt DEF Inv
    <2>2. ~Begins(first) /\ first \notin {"!", "=", "<", ">"} /\ first # "/" /\ first # Quote /\ first \notin SingleTokens
        BY <1>2, <1>4
    <2> QED BY <1>2, <2>1, <2>2, LexemesAt, Zenon DEF Inv
(* The dot of a piece that goes on behind the dot, or behind the digits.   *)
<1>9. ASSUME NEW k \in start + 1 .. Len(source), NumberAt(start, k), ~InNumber,
             k > current \/ (dot = current - 1 /\ k > dot)
      PROVE  FALSE
    <2>1. PICK d \in start + 1 .. k :
            /\ \A p \in start .. d - 1 : IsDigit(Char(p))
            /\ d < k => Char(d) = "." /\ d + 1 < k /\ \A p \in d + 1 .. k - 1 : IsDigit(Char(p))
        BY <1>9 DEF NumberAt
    <2>2. ~IsDigit(Char(current)) /\ (Char(current) = "." => dot < current)
        BY <1>6, <1>9 DEF InNumber, Peek
    <2>3. d <= dot
        <3>1. SUFFICES ASSUME dot < d
                       PROVE  FALSE
            BY <1>2, <2>1
        <3>2. dot \in start .. d - 1
            BY <1>2, <3>1
        <3>3. IsDigit(Char(dot))
            BY <2>1, <3>2
        <3>4. CASE dot < current
            BY <1>3, <1>4, <3>3, <3>4
        <3>5. CASE dot = current
            BY <2>2, <3>3, <3>5
        <3> QED BY <1>2, <3>4, <3>5
    <2>4. d < k /\ Char(d) = "." /\ d + 1 < k /\ \A p \in d + 1 .. k - 1 : IsDigit(Char(p))
        BY <1>2, <1>9, <2>1, <2>3
    <2>5. d = dot
        <3>1. SUFFICES ASSUME d < dot
                       PROVE  FALSE
            BY <1>2, <2>1, <2>3
        <3>2. d \in start .. current - 1 /\ d # dot
            BY <1>2, <2>1, <3>1
        <3> QED BY <1>3, <1>4, <2>4, <3>2
    <2>6. CASE dot = current
        BY <2>2, <2>4, <2>5, <2>6
    <2>7. CASE dot < current
        <3>1. current \in d + 1 .. k - 1
            BY <1>2, <1>9, <2>4, <2>5, <2>7
        <3> QED BY <2>2, <2>4, <3>1
    <2> QED BY <1>2, <2>6, <2>7
<1>10. "NUMBER" \in Types /\ "NUMBER" \in Types \ {"ERROR", "EOFS"}
    BY DEF Types
<1>11. CASE InNumber
    <2>1. Stay(Taken, mode) /\ UNCHANGED line
        BY <1>1, <1>11 DEF GetNumber
    <2>2. Peek # NUL
        BY <1>4, <1>11 DEF InNumber, NUL
    <2>3. current' = current + 1 /\ UNCHANGED <<source, start, first>>
        BY <2>1, <2>2, TakenIs DEF Inv, Stay
    <2>4. Number'
        <3>1. \A p : Char(p)' = Char(p)
            BY <2>3, TextStays
        <3>2. PICK d \in start + 1 .. current + 1 :
                d = IF dot = current /\ IsDigit(Peek) THEN current + 1 ELSE dot
            BY <1>2
        <3>3. d < current + 1 => Char(d) = "."
            <4>1. CASE dot < current
                BY <1>2, <1>3, <3>2, <4>1
            <4>2. CASE dot = current
                BY <1>2, <1>11, <3>2, <4>2 DEF InNumber, Peek
            <4> QED BY <1>2, <4>1, <4>2
        <3>4. ASSUME NEW p \in start .. current + 1 - 1, p # d
              PROVE  IsDigit(Char(p))
            <4>1. CASE p = current
                <5>1. dot < current => IsDigit(Char(current))
                    BY <1>6, <1>11 DEF InNumber, Peek
                <5> QED BY <1>2, <3>2, <3>4, <4>1, <5>1 DEF Peek
            <4>2. CASE p < current
                <5>1. p \in start .. current - 1 /\ p # dot
                    BY <1>2, <3>2, <3>4, <4>2
                <5> QED BY <1>3, <5>1
            <4> QED BY <1>2, <4>1, <4>2
        <3> QED BY <1>2, <2>3, <3>1, <3>3, <3>4 DEF Number
    <2> QED BY <1>1, <2>1, <2>2, <2>4, TakeMore
<1>12. CASE ~InNumber /\ EndsInDot
    <2>1. PICK to \in start + 1 .. Len(source) : to = current - 1 /\ to = dot
        BY <1>2, <1>3, <1>7, <1>12
    <2>2. Return("NUMBER", Slice(start, to), to)
        BY <1>12, <2>1 DEF GetNumber
    <2>3. to \in Places /\ start <= to /\ to \in Nat /\ Slice(start, to) \in Seq(Characters)
        <3>1. to \in Nat /\ start <= to /\ to <= Len(source)
            BY <1>2, <2>1
        <3> QED BY <1>2, <3>1, Sliced DEF Inv, Places
    <2>4. NumberAt(start, to)
        <3>1. ASSUME NEW p \in start .. to - 1
              PROVE  IsDigit(Char(p))
            <4>1. p \in start .. current - 1 /\ p # dot
                BY <1>2, <2>1
            <4> QED BY <1>3, <4>1
        <3>2. to \in start + 1 .. to /\ ~(to < to)
            BY <1>2, <2>1
        <3> QED BY <3>1, <3>2 DEF NumberAt
    <2>5. ASSUME start < TextEnd
          PROVE  IsNext(Token("NUMBER", Slice(start, to), start, to), start)
        <3>1. to \in start + 1 .. TextEnd
            BY <1>2, <2>1, <2>5
        <3>2. IsNumber(Slice(start, to)) /\ IsLexeme(Slice(start, to))
            BY <1>8, <2>4
        <3>3. ASSUME NEW k \in to + 1 .. TextEnd
              PROVE  ~IsLexeme(Slice(start, k))
            <4>1. k \in start + 1 .. Len(source) /\ k > dot /\ dot = current - 1
                BY <1>2, <2>1
            <4> QED BY <1>8, <1>9, <1>12, <4>1
        <3>4. Is("NUMBER", Slice(start, to))
            BY <3>2 DEF Is
        <3> QED BY <1>1, <1>10, <2>5, <3>1, <3>2, <3>3, <3>4, Follows
    <2> QED BY <1>1, <1>10, <2>2, <2>3, <2>5, ReturnKeeps
<1>13. CASE ~InNumber /\ ~EndsInDot
    <2>1. Return("NUMBER", Text, current)
        BY <1>13 DEF GetNumber
    <2>2. NumberAt(start, current)
        <3>1. \A p \in start .. dot - 1 : p \in start .. current - 1 /\ p # dot
            BY <1>2
        <3>2. \A p \in dot + 1 .. current - 1 : p \in start .. current - 1 /\ p # dot
            BY <1>2
        <3>3. dot < current => dot + 1 < current
            BY <1>2, <1>7, <1>13
        <3> QED BY <1>3, <3>1, <3>2, <3>3 DEF NumberAt
    <2>3. ASSUME start < TextEnd
          PROVE  IsNext(Token("NUMBER", Text, start, current), start)
        <3>1. current \in start + 1 .. TextEnd
            BY <1>2, <2>3
        <3>2. IsNumber(Text) /\ IsLexeme(Text)
            BY <1>2, <1>8, <2>2
        <3>3. ASSUME NEW k \in current + 1 .. TextEnd
              PROVE  ~IsLexeme(Slice(start, k))
            <4>1. k \in start + 1 .. Len(source) /\ k > current
                BY <1>2
            <4> QED BY <1>8, <1>9, <1>13, <4>1
        <3>4. Is("NUMBER", Text)
            BY <3>2 DEF Is
        <3> QED BY <1>1, <1>2, <1>10, <2>3, <3>1, <3>2, <3>3, <3>4, Follows
    <2> QED BY <1>1, <1>2, <1>10, <2>1, <2>3, ReturnKeeps
<1> QED BY <1>11, <1>12, <1>13

-----------------------------------------------------------------------------
(* The invariant.                                                          *)

LEMMA ThrowKeeps ==
    ASSUME Inv, Throw
    PROVE  Inv'
<1>1. mode' = "thrown" /\ UNCHANGED <<source, current, line, start, first, tokens>>
    BY DEF Throw
<1>2. TypeOK' /\ Begun'
    BY <1>1, TextStays DEF Inv, TypeOK, Tokens, Begun, InToken
<1>3. TokensBehind' /\ NothingLost' /\ LinesSoFar'
    BY <1>1 DEF Inv, TokensBehind, NothingLost, LinesSoFar
<1> QED BY <1>1, <1>2, <1>3, LinesStay DEF Inv

LEMMA StutterKeeps ==
    ASSUME Inv, UNCHANGED vars
    PROVE  Inv'
<1>1. UNCHANGED <<source, current, line, mode, start, first, tokens>>
    BY DEF vars
<1>2. TypeOK' /\ Begun'
    <2>1. Number' = Number
        BY <1>1, TextStays DEF Number
    <2>2. \A p : Char(p)' = Char(p)
        BY <1>1, TextStays
    <2> QED BY <1>1, <2>1, <2>2, TextStays DEF Inv, TypeOK, Tokens, Begun
<1>3. Passed' = Passed
    BY <1>1 DEF Passed
<1>4. TokensBehind' /\ NothingLost' /\ LinesSoFar'
    <2>1. TokensBehind'
        BY <1>1, <1>3 DEF Inv, TokensBehind
    <2>2. NothingLost'
        BY <1>1, <1>3, TextStays, LinesStay, Zenon DEF Inv, NothingLost
    <2>3. LinesSoFar'
        BY <1>1, <1>3, LinesStay, Zenon DEF Inv, LinesSoFar
    <2> QED BY <2>1, <2>2, <2>3
<1> QED BY <1>1, <1>2, <1>4, LinesStay DEF Inv

LEMMA InitInv == Init => Inv
<1> SUFFICES ASSUME Init
             PROVE  Inv
    OBVIOUS
<1>1. PICK f \in Families : source \in TextsUpTo(f.characters, f.length)
    BY DEF Init
<1>2. /\ current = 0 /\ line = 1 /\ mode = "none" /\ start = 0
      /\ tokens = <<>> /\ Len(tokens) = 0 /\ DOMAIN tokens = {}
    BY DEF Init
<1>3. TypeOK
    <2>1. PICK k \in 0 .. f.length : source \in [1 .. k -> f.characters]
        BY <1>1 DEF TextsUpTo
    <2>2. k \in Nat
        BY <2>1, ScannerAssumption
    <2>3. f.characters \subseteq Characters
        BY DEF Characters
    <2>4. source \in [1 .. k -> Characters]
        BY <2>1, <2>3
    <2>5. source \in Seq(Characters) /\ Len(source) \in Nat
        BY <2>2, <2>4
    <2>6. tokens \in Seq(Tokens)
        BY <1>2
    <2>7. 0 \in Places
        BY <2>5 DEF Places
    <2> QED BY <1>2, <2>5, <2>6, <2>7 DEF TypeOK
<1>4. Passed = 0 /\ TokensEnd(Len(tokens)) = 0
    BY <1>2 DEF Passed, InToken, TokensEnd
<1>5. Begun /\ TokensBehind /\ NothingLost
    BY <1>2, <1>4 DEF Begun, InToken, TokensBehind, NothingLost, Blank
<1>6. LinesSoFar
    <2>1. Newlines(Len(tokens), Passed) = {}
        BY <1>4 DEF Newlines
    <2> QED BY <1>2, <2>1, FS_EmptySet DEF LinesSoFar
<1>7. TokensAreLexemes /\ LinesLeaveOutStrings
    BY <1>2 DEF TokensAreLexemes, LinesLeaveOutStrings
<1> QED BY <1>3, <1>5, <1>6, <1>7 DEF Inv

LEMMA NextInv == Inv /\ [Next]_vars => Inv'
<1> SUFFICES ASSUME Inv, [Next]_vars
             PROVE  Inv'
    OBVIOUS
<1>1. CASE ScanToken
    BY <1>1, ScanTokenKeeps
<1>2. CASE EndOfText
    BY <1>2, EndOfTextKeeps
<1>3. CASE Space
    BY <1>3, SpaceKeeps
<1>4. CASE TakeFirst
    BY <1>4, TakeFirstKeeps
<1>5. CASE Slash
    BY <1>5, SlashKeeps
<1>6. CASE Comment
    BY <1>6, CommentKeeps
<1>7. CASE Single
    BY <1>7, SingleKeeps
<1>8. CASE Operator
    BY <1>8, OperatorKeeps
<1>9. CASE Choose
    BY <1>9, ChooseKeeps
<1>10. CASE Unexpected
    BY <1>10, UnexpectedKeeps
<1>11. CASE GetString
    BY <1>11, GetStringKeeps
<1>12. CASE GetNumber
    BY <1>12, GetNumberKeeps
<1>13. CASE GetIdentifier
    BY <1>13, GetIdentifierKeeps
<1>14. CASE Throw
    BY <1>14, ThrowKeeps
<1>15. CASE UNCHANGED vars
    BY <1>15, StutterKeeps
<1> QED BY <1>1, <1>2, <1>3, <1>4, <1>5, <1>6, <1>7, <1>8, <1>9, <1>10, <1>11,
           <1>12, <1>13, <1>14, <1>15 DEF Next

(* Inv holds in every state of every scan of a text.                       *)
THEOREM InvHolds == Spec => []Inv
<1> QED BY InitInv, NextInv, PTL DEF Spec

(* A text of any length, over any characters, is cut into its longest      *)
(* lexemes: no character is lost, invented or given the wrong type, up to  *)
(* the end of the text or its first NUL (scanner.cc:73-201).               *)
THEOREM TokensAreLexemesAlways == Spec => []TokensAreLexemes
<1>1. Inv => TokensAreLexemes
    BY DEF Inv
<1> QED BY <1>1, InvHolds, PTL

(* The line of a token counts the newlines in front of it but for those    *)
(* inside of strings (scanner.cc:73-110).                                  *)
THEOREM LinesLeaveOutStringsAlways == Spec => []LinesLeaveOutStrings
<1>1. Inv => LinesLeaveOutStrings
    BY DEF Inv
<1> QED BY <1>1, InvHolds, PTL
=============================================================================
