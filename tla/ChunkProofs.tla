---------------------------- MODULE ChunkProofs ----------------------------
(***************************************************************************)
(* Inv of module Chunk is inductive, and the virtual machine and the       *)
(* disassembler read what the code generator wrote, whatever the width of  *)
(* a byte and the length of a program are.                                 *)
(***************************************************************************)
EXTENDS Chunk, WellFoundedInduction, TLAPS

USE ChunkAssumption DEF ChunkAssumption

-----------------------------------------------------------------------------
(* Numbers of two bytes.                                                   *)

LEMMA Remainder ==
    ASSUME NEW n \in Nat, NEW b \in Nat \ {0}
    PROVE  n % b \in 0 .. b - 1 /\ (n < b => n % b = n)
BY SMT

LEMMA Quotient ==
    ASSUME NEW n \in Nat, NEW b \in Nat \ {0}
    PROVE  n \div b \in Nat /\ n = ((n \div b) * b) + (n % b)
BY SMT

LEMMA QuotientIsSmall ==
    ASSUME NEW n \in Nat, NEW b \in Nat \ {0}, n < b * b
    PROVE  n \div b < b
<1> DEFINE q == n \div b
<1>1. q \in Nat /\ q * b <= n
    BY Quotient, Remainder
<1> HIDE DEF q
<1>2. q >= b => q * b >= b * b
    BY <1>1, SMT
<1> QED BY <1>1, <1>2 DEF q

LEMMA ShortsAreMore ==
    /\ Shorts \in Nat /\ UINT8_COUNT < Shorts /\ UINT8_COUNT \in Nat \ {0, 1}
    /\ Shorts # 0
BY SMT DEF Shorts

LEMMA HalvesAreBytes ==
    ASSUME NEW n \in Nat
    PROVE  High(n) \in Byte /\ Low(n) \in Byte
<1>1. n \div UINT8_COUNT \in Nat
    BY Quotient
<1> QED BY <1>1, Remainder DEF High, Low, Byte

(* Short writes what ShortAt reads.                                        *)
LEMMA HalvesMakeShort ==
    ASSUME NEW n \in 0 .. Shorts - 1
    PROVE  High(n) * UINT8_COUNT + Low(n) = n
<1>1. n \in Nat /\ n < UINT8_COUNT * UINT8_COUNT
    BY ShortsAreMore DEF Shorts
<1>2. n \div UINT8_COUNT < UINT8_COUNT /\ n \div UINT8_COUNT \in Nat
    BY <1>1, QuotientIsSmall, Quotient
<1>3. High(n) = n \div UINT8_COUNT
    BY <1>2, Remainder DEF High
<1> QED BY <1>1, <1>3, Quotient DEF Low

-----------------------------------------------------------------------------
(* The constants.                                                          *)

LEMMA LeastNumber ==
    ASSUME NEW S \in SUBSET Nat, S # {}
    PROVE  Min(S) \in S /\ \A j \in S : Min(S) <= j
<1>1. PICK i \in S : \A j \in S : <<j, i>> \notin OpToRel(<, Nat)
    BY WFMin, NatLessThanWellFounded, Zenon
<1>2. \A j \in S : ~(j < i)
    BY <1>1, Zenon DEF OpToRel
<1>3. \A j \in S : i <= j
    BY <1>2
<1> QED BY <1>3, Zenon DEF Min

(* The constants only grow.                                                *)
LEMMA ConstantsGrow ==
    ASSUME constants \in Seq(Values), NEW v \in Values
    PROVE  LET all == WithConstant(v)
           IN  /\ all \in Seq(Values) /\ v \in Range(all)
               /\ Len(constants) <= Len(all)
               /\ \A i \in DOMAIN constants : all[i] = constants[i]
<1>1. CASE v \in Range(constants)
    BY <1>1 DEF WithConstant
<1>2. CASE v \notin Range(constants)
    <2>1. WithConstant(v) = Append(constants, v)
        BY <1>2 DEF WithConstant
    <2>2. Append(constants, v)[Len(constants) + 1] = v
        OBVIOUS
    <2> QED BY <2>1, <2>2 DEF Range
<1> QED BY <1>1, <1>2

LEMMA IndexStays ==
    ASSUME NEW some \in Seq(Values), NEW all \in Seq(Values),
           Len(some) <= Len(all),
           \A i \in DOMAIN some : all[i] = some[i],
           NEW v, NEW index, NEW range, IsIndex(some, v, index, range)
    PROVE  IsIndex(all, v, index, range)
<1>1. PICK m \in DOMAIN some :
        /\ some[m] = v
        /\ \A i \in 1 .. m - 1 : some[i] # v
        /\ m <= range => index = m - 1
    BY DEF IsIndex
<1>0. index < range
    BY DEF IsIndex
<1>2. m \in DOMAIN all /\ all[m] = v
    BY <1>1
<1>3. \A i \in 1 .. m - 1 : all[i] # v
    BY <1>1
<1> QED BY <1>0, <1>1, <1>2, <1>3 DEF IsIndex

(* makeConstant returns the place of the value, if it is in range.         *)
LEMMA IndexIsFound ==
    ASSUME constants \in Seq(Values), NEW v \in Values
    PROVE  /\ Index(v) \in 0 .. Shorts - 1
           /\ IsIndex(WithConstant(v), v, Index(v), Shorts)
           /\ IsIndex(WithConstant(v), v, Index(v) % UINT8_COUNT, UINT8_COUNT)
<1> DEFINE all == WithConstant(v)
           S == {i \in DOMAIN all : all[i] = v}
           m == Min(S)
<1>1. all \in Seq(Values) /\ S # {} /\ S \in SUBSET Nat
    BY ConstantsGrow DEF Range
<1>2. m \in S /\ \A j \in S : m <= j
    BY <1>1, LeastNumber
<1>3. Index(v) = (m - 1) % Shorts
    BY DEF Index
<1>4. m \in DOMAIN all /\ all[m] = v
    BY <1>2
<1>5. ASSUME NEW i \in 1 .. m - 1
      PROVE  all[i] # v
    <2>1. i \in DOMAIN all /\ ~(m <= i)
        BY <1>1, <1>4
    <2> QED BY <1>2, <2>1
<1> HIDE DEF m
<1>6. m \in Nat \ {0} /\ m - 1 \in Nat
    BY <1>1, <1>4
<1>7. Index(v) \in 0 .. Shorts - 1 /\ (m - 1 < Shorts => Index(v) = m - 1)
    BY <1>3, <1>6, Remainder, ShortsAreMore
<1>8. m <= Shorts => Index(v) = m - 1
    BY <1>6, <1>7, ShortsAreMore
<1>9. m <= UINT8_COUNT => Index(v) % UINT8_COUNT = m - 1
    <2>1. Index(v) \in Nat /\ (m <= UINT8_COUNT => Index(v) = m - 1 /\ m - 1 < UINT8_COUNT)
        BY <1>6, <1>7, <1>8, ShortsAreMore
    <2> HIDE DEF all
    <2> QED BY <2>1, Remainder, ShortsAreMore
<1>10. Index(v) < Shorts /\ Index(v) % UINT8_COUNT < UINT8_COUNT
    <2>1. Index(v) \in Nat /\ Index(v) < Shorts
        BY <1>7, ShortsAreMore
    <2> HIDE DEF all
    <2> QED BY <2>1, Remainder, ShortsAreMore
<1> QED BY <1>4, <1>5, <1>7, <1>8, <1>9, <1>10 DEF IsIndex

-----------------------------------------------------------------------------
(* What emitting changes, and what it leaves.                              *)

LEMMA DataIsCode ==
    ASSUME NEW b \in Byte
    PROVE  Data(b) \in Code
BY DEF Data, Code

LEMMA OpcodeIsCode ==
    ASSUME NEW op \in Operations
    PROVE  Opcode(op) \in Code
BY ShortsAreMore DEF Opcode, Code, Byte

LEMMA Concatenated ==
    ASSUME NEW S, NEW s \in Seq(S), NEW t \in Seq(S)
    PROVE  /\ s \o t \in Seq(S) /\ Len(s) \in Nat /\ Len(t) \in Nat
           /\ Len(s \o t) = Len(s) + Len(t)
OBVIOUS

LEMMA EmittedBytes ==
    ASSUME code \in Seq(Code), NEW op \in Operations, NEW operands \in Seq(Byte),
           NEW instruction, Emit(op, operands, instruction), NEW here, here = Here
    PROVE  /\ code' \in Seq(Code) /\ here \in Nat
           /\ Here' = here + 1 + Len(operands)
           /\ \A o \in 0 .. here - 1 : At(o)' = At(o)
           /\ At(here)' = Opcode(op)
           /\ \A i \in 1 .. Len(operands) : At(here + i)' = Data(operands[i])
<1> DEFINE bytes == [i \in DOMAIN operands |-> Data(operands[i])]
           begun == code \o <<Opcode(op)>>
<1>1. code' = begun \o bytes
    BY DEF Emit
<1>2. bytes \in Seq(Code) /\ Len(bytes) = Len(operands)
      /\ \A i \in 1 .. Len(operands) : bytes[i] = Data(operands[i])
    <2>1. \A i \in DOMAIN operands : Data(operands[i]) \in Code
        BY DataIsCode
    <2> QED BY <2>1
<1>3. begun \in Seq(Code) /\ Len(begun) = here + 1 /\ begun[here + 1] = Opcode(op)
      /\ here \in Nat /\ \A o \in 0 .. here - 1 : begun[o + 1] = code[o + 1]
    BY OpcodeIsCode DEF Here
<1> HIDE DEF bytes, begun
<1>4. /\ code' \in Seq(Code) /\ Len(code') = here + 1 + Len(operands)
      /\ \A o \in 0 .. here : code'[o + 1] = begun[o + 1]
      /\ \A i \in 1 .. Len(operands) : code'[here + i + 1] = bytes[i]
    <2>1. code' \in Seq(Code) /\ Len(code') = here + 1 + Len(operands)
        <3>1. begun \o bytes \in Seq(Code) /\ Len(begun \o bytes) = Len(begun) + Len(bytes)
            BY <1>2, <1>3, Concatenated
        <3> QED BY <1>1, <1>2, <1>3, <3>1
    <2>2. \A o \in 0 .. here : code'[o + 1] = begun[o + 1]
        BY <1>1, <1>2, <1>3
    <2>3. ASSUME NEW i \in 1 .. Len(operands)
          PROVE  code'[here + i + 1] = bytes[i]
        BY <1>1, <1>2, <1>3
    <2> QED BY <2>1, <2>2, <2>3
<1>5. \A o \in 0 .. here - 1 : At(o)' = At(o)
    BY <1>3, <1>4 DEF At, Here
<1>6. At(here)' = Opcode(op)
    BY <1>3, <1>4 DEF At, Here
<1>7. \A i \in 1 .. Len(operands) : At(here + i)' = Data(operands[i])
    BY <1>2, <1>3, <1>4 DEF At, Here
<1> QED BY <1>3, <1>4, <1>5, <1>6, <1>7 DEF Here

LEMMA Sizes ==
    ASSUME NEW p \in Instructions
    PROVE  /\ p.op \in Constant \cup {"DEFINE_GLOBAL", "LOOP"} \cup ForwardJumps => Size(p) = 3
           /\ p.op \in WithByte => Size(p) = 2
           /\ p.op \in Invokes => Size(p) = 4
           /\ p.op = "CLOSURE" => Size(p) = 3 + Len(p.bytes)
           /\ TakesConstant(p.op) \/ IsJump(p) => Size(p) >= 3
           /\ p.at \in Nat /\ p.op \in Operations /\ Len(p.bytes) \in Nat
           /\ Size(p) \in Nat \ {0} /\ End(p) \in Nat
<1>1. p.at \in Nat /\ p.op \in Operations /\ Len(p.bytes) \in Nat
    BY DEF Instructions
<1>2. p.op \in WithByte => Size(p) = 2
    BY DEF Size, Constant, WithByte, Invokes, ForwardJumps
<1>3. p.op \in Invokes => Size(p) = 4
    BY DEF Size, Constant, WithByte, Invokes, ForwardJumps
<1>4. p.op = "CLOSURE" => Size(p) = 3 + Len(p.bytes)
    BY DEF Size, Constant, WithByte, Invokes, ForwardJumps
<1>5. p.op \in Constant \cup {"DEFINE_GLOBAL", "LOOP"} \cup ForwardJumps => Size(p) = 3
    BY DEF Size, Constant, WithByte, Invokes, ForwardJumps
<1>6. Size(p) \in Nat \ {0}
    BY <1>1 DEF Size
<1> QED BY <1>1, <1>2, <1>3, <1>4, <1>5, <1>6 DEF TakesConstant, IsJump, ForwardJumps, End

(* An instruction stays written while its bytes and the constants stay.    *)
LEMMA WrittenStays ==
    ASSUME constants \in Seq(Values), constants' \in Seq(Values),
           Len(constants) <= Len(constants'),
           \A i \in DOMAIN constants : constants'[i] = constants[i],
           hadError => hadError', family' = family,
           NEW p \in Instructions, Written(p),
           \A o \in p.at .. End(p) - 1 : At(o)' = At(o)
    PROVE  Written(p)'
<1>1. /\ p.at \in Nat /\ p.op \in Operations /\ Len(p.bytes) \in Nat
      /\ Size(p) \in Nat \ {0} /\ End(p) = p.at + Size(p)
    BY Sizes DEF End
<1>2. At(p.at)' = At(p.at)
    BY <1>1
<1>3. Size(p) >= 3 => ShortAt(p.at + 1)' = ShortAt(p.at + 1)
    BY <1>1 DEF ShortAt
<1>4. ValuesWritten(p)'
    <2>1. CASE TakesConstant(p.op)
        <3>1. Size(p) >= 3
            BY <2>1, Sizes
        <3>2. IsIndex(constants', p.values[1], ShortAt(p.at + 1), p.range)
            BY <2>1, IndexStays DEF Written, ValuesWritten
        <3> QED BY <1>3, <2>1, <3>1, <3>2 DEF Written, ValuesWritten
    <2>2. CASE ~TakesConstant(p.op)
        BY <2>2 DEF Written, ValuesWritten
    <2> QED BY <2>1, <2>2
<1>5. BytesWritten(p)'
    <2>1. \A o \in p.at .. p.at + Size(p) - 1 : At(o)' = At(o)
        BY <1>1
    <2>2. p.op \in WithByte => BytesAt(p.at + 1, 1)' = BytesAt(p.at + 1, 1)
        <3>1. p.op \in WithByte => At(p.at + 1)' = At(p.at + 1)
            BY <1>1, <2>1, Sizes
        <3>2. \A i \in 1 .. 1 : p.at + 1 + i - 1 = p.at + 1
            BY <1>1
        <3> QED BY <3>1, <3>2 DEF BytesAt
    <2>3. p.op \in Invokes => BytesAt(p.at + 3, 1)' = BytesAt(p.at + 3, 1)
        <3>1. p.op \in Invokes => At(p.at + 3)' = At(p.at + 3)
            BY <1>1, <2>1, Sizes
        <3>2. \A i \in 1 .. 1 : p.at + 3 + i - 1 = p.at + 3
            BY <1>1
        <3> QED BY <3>1, <3>2 DEF BytesAt
    <2>4. p.op = "CLOSURE" => BytesAt(p.at + 3, Len(p.bytes))' = BytesAt(p.at + 3, Len(p.bytes))
        <3>1. ASSUME p.op = "CLOSURE", NEW i \in 1 .. Len(p.bytes)
              PROVE  At(p.at + 3 + i - 1)' = At(p.at + 3 + i - 1)
            <4>1. Size(p) = 3 + Len(p.bytes)
                BY <3>1, Sizes
            <4>2. p.at + 3 + i - 1 \in p.at .. p.at + Size(p) - 1
                BY <1>1, <4>1
            <4> QED BY <2>1, <4>2
        <3> QED BY <3>1 DEF BytesAt
    <2> QED BY <2>2, <2>3, <2>4 DEF Written, BytesWritten
<1>6. JumpWritten(p)'
    <2>1. Pending' = Pending
        BY DEF Pending
    <2>2. IsJump(p) => Size(p) >= 3
        BY Sizes
    <2> QED BY <1>3, <2>1, <2>2 DEF Written, JumpWritten
<1> QED BY <1>2, <1>4, <1>5, <1>6 DEF Written

-----------------------------------------------------------------------------
(* Emitting one instruction keeps the invariant.                           *)

Grow ==
    /\ constants' \in Seq(Values) /\ Len(constants) <= Len(constants')
    /\ \A i \in DOMAIN constants : constants'[i] = constants[i]

LEMMA WithConstantGrows ==
    ASSUME TypeOK, NEW v \in Values, constants' = WithConstant(v)
    PROVE  Grow
BY ConstantsGrow DEF TypeOK, Grow

LEMMA SameConstantsGrow ==
    ASSUME TypeOK, UNCHANGED constants
    PROVE  Grow
BY DEF TypeOK, Grow

LEMMA EmitKeeps ==
    ASSUME Inv, NEW op \in Operations, NEW operands \in Seq(Byte), NEW p \in Instructions,
           Emit(op, operands, p), p.at = Here, Size(p) = 1 + Len(operands), Written(p)',
           Grow, hadError => hadError'
    PROVE  /\ code' \in Seq(Code) /\ family' \in Families /\ program' \in Seq(Instructions)
           /\ Tiled'
           /\ \A k \in DOMAIN program' : Written(program[k])'
<1> DEFINE n == Len(program)
<1>1. /\ n \in Nat /\ program' = Append(program, p) /\ program' \in Seq(Instructions)
      /\ Len(program') = n + 1 /\ program'[n + 1] = p
      /\ \A k \in 1 .. n : program'[k] = program[k] /\ program[k] \in Instructions
    BY DEF Inv, TypeOK, Emit
<1>2. PICK here : here = Here
    OBVIOUS
<1>3. /\ code' \in Seq(Code) /\ here \in Nat /\ Here' = here + 1 + Len(operands)
      /\ \A o \in 0 .. here - 1 : At(o)' = At(o)
    BY <1>2, EmittedBytes DEF Inv, TypeOK
<1>4. End(p) = Here'
    BY <1>2, <1>3 DEF End
<1>5. /\ Here' <= family'.length /\ family' = family
    BY <1>2, <1>3, ShortsAreMore DEF Emit
<1>6. \A k \in 1 .. n : End(program[k]) \in Nat /\ program[k].at \in Nat
    BY <1>1, Sizes
<1>7. ASSUME NEW k \in 1 .. n + 1
      PROVE  /\ End(program'[k]) = IF k = n + 1 THEN Here' ELSE program'[k + 1].at
             /\ End(program'[k]) <= Here'
             /\ \A j \in 1 .. k - 1 : End(program'[j]) <= program'[k].at
    <2>1. CASE k = n + 1
        BY <1>1, <1>2, <1>3, <1>4, <1>6, <2>1 DEF Inv, Tiled
    <2>2. CASE k # n + 1
        <3>1. k \in 1 .. n /\ program'[k] = program[k]
            BY <1>1, <2>2
        <3>2. End(program[k]) = IF k = n THEN here ELSE program[k + 1].at
            BY <1>2, <3>1 DEF Inv, Tiled
        <3>3. program'[k + 1].at = IF k = n THEN here ELSE program[k + 1].at
            BY <1>1, <1>2, <3>1
        <3>4. End(program[k]) <= here
            BY <1>2, <3>1 DEF Inv, Tiled
        <3>5. \A j \in 1 .. k - 1 : End(program'[j]) <= program'[k].at
            BY <1>1, <3>1 DEF Inv, Tiled
        <3> QED BY <1>3, <1>6, <2>2, <3>1, <3>2, <3>3, <3>4, <3>5
    <2> QED BY <2>1, <2>2
<1>8. Tiled'
    BY <1>1, <1>5, <1>7 DEF Tiled, End, Size
<1>9. ASSUME NEW k \in 1 .. n
      PROVE  Written(program[k])'
    <2>1. PICK q \in Instructions : q = program[k]
        BY <1>1
    <2>2. Written(q) /\ End(q) <= here /\ q.at \in Nat /\ End(q) \in Nat
        BY <1>2, <1>6, <2>1 DEF Inv, Tiled
    <2>3. \A o \in q.at .. End(q) - 1 : At(o)' = At(o)
        BY <1>3, <2>2
    <2>4. Written(q)'
        BY <1>5, <2>2, <2>3, WrittenStays DEF Grow, Inv, TypeOK
    <2> QED BY <1>1, <2>1, <2>4
<1>10. ASSUME NEW k \in {n + 1}
       PROVE  Written(program[k])'
    <2>1. program'[k] = p
        BY <1>1
    <2> QED BY <2>1
<1> QED BY <1>1, <1>3, <1>5, <1>8, <1>9, <1>10 DEF Inv, TypeOK

-----------------------------------------------------------------------------
(* The actions.                                                            *)

LEMMA AskedIsInstruction ==
    ASSUME TypeOK, NEW op \in Operations, NEW values \in Seq(Values), NEW bytes \in Seq(Byte)
    PROVE  /\ Asked(op, values, bytes) \in Instructions
           /\ Asked(op, values, bytes).at = Here /\ Here \in Nat
BY ShortsAreMore DEF Asked, Instructions, Here, TypeOK

LEMMA GlobalStays ==
    ASSUME Inv, Grow, UNCHANGED global
    PROVE  GlobalIsKept'
<1>1. CASE global = NoGlobal
    BY <1>1 DEF GlobalIsKept, NoGlobal, None
<1>2. CASE global # NoGlobal
    <2>1. IsIndex(constants', global.value, global.index, global.range)
        BY <1>2, IndexStays DEF Inv, TypeOK, GlobalIsKept, Grow
    <2>2. global.range # 0
        BY <1>2 DEF Inv, GlobalIsKept
    <2> QED BY <2>1, <2>2 DEF GlobalIsKept
<1> QED BY <1>1, <1>2

(* Only jumps wait for their target.                                       *)
LEMMA PendingIsFar ==
    ASSUME Inv
    PROVE  /\ Pending \in Nat /\ Pending # 0 /\ Here < Pending /\ Here \in Nat
           /\ family' = family => Pending' = Pending
<1>1. family.length \in Nat
    BY DEF Inv, TypeOK
<1> QED BY <1>1, ShortsAreMore DEF Inv, TypeOK, Tiled, Pending, Here

(* What an instruction that is no jump has to show.                        *)
LEMMA PlainIsWritten ==
    ASSUME Inv, NEW p \in Instructions, p.target = 0, ~IsJump(p), UNCHANGED family
    PROVE  JumpWritten(p)'
BY PendingIsFar DEF JumpWritten, IsJump

LEMMA EmptyOperands == <<>> \in Seq(Byte) /\ <<>> \in Seq(Values) /\ Len(<<>>) = 0
OBVIOUS

(* What the reader finds behind the opcode.                                *)
LEMMA OperandsAreThere ==
    ASSUME Inv, NEW op \in Operations, NEW operands \in Seq(Byte), NEW p,
           Emit(op, operands, p), p.at = Here
    PROVE  /\ p.at \in Nat /\ At(p.at)' = Opcode(op)
           /\ \A i \in 1 .. Len(operands) : At(p.at + i)'.byte = operands[i]
           /\ Len(operands) >= 2 =>
                ShortAt(p.at + 1)' = operands[1] * UINT8_COUNT + operands[2]
<1>1. /\ p.at \in Nat /\ At(p.at)' = Opcode(op)
      /\ \A i \in 1 .. Len(operands) : At(p.at + i)' = Data(operands[i])
    BY EmittedBytes DEF Inv, TypeOK
<1>2. ASSUME NEW i \in 1 .. Len(operands)
      PROVE  At(p.at + i)'.byte = operands[i]
    <2>1. At(p.at + i)' = Data(operands[i])
        BY <1>1
    <2>2. Data(operands[i]).byte = operands[i]
        BY DEF Data
    <2> QED BY <2>1, <2>2
<1>3. ASSUME Len(operands) >= 2
      PROVE  ShortAt(p.at + 1)' = operands[1] * UINT8_COUNT + operands[2]
    <2>1. At(p.at + 1)'.byte = operands[1] /\ At(p.at + 2)'.byte = operands[2]
        BY <1>2, <1>3
    <2>2. p.at + 1 + 1 = p.at + 2
        BY <1>1
    <2> QED BY <2>1, <2>2 DEF ShortAt
<1> QED BY <1>1, <1>2, <1>3

LEMMA EmitKeepsInv ==
    ASSUME Inv, NEW op \in Operations, NEW operands \in Seq(Byte), NEW p \in Instructions,
           Emit(op, operands, p), p.at = Here, p.op = op, Size(p) = 1 + Len(operands),
           ValuesWritten(p)', BytesWritten(p)', JumpWritten(p)',
           Grow, hadError => hadError', hadError' \in BOOLEAN,
           UNCHANGED global \/ global' = NoGlobal
    PROVE  Inv'
<1>1. Written(p)'
    <2>1. At(p.at)' = Opcode(op)
        BY OperandsAreThere
    <2> QED BY <2>1 DEF Written, Opcode
<1>2. /\ code' \in Seq(Code) /\ family' \in Families /\ program' \in Seq(Instructions)
      /\ Tiled'
      /\ \A k \in DOMAIN program' : Written(program[k])'
    BY <1>1, EmitKeeps
<1>3. GlobalIsKept' /\ global' \in [value : Values, index : 0 .. Shorts - 1, range : {0, UINT8_COUNT, Shorts}]
    <2>1. CASE UNCHANGED global
        BY <2>1, GlobalStays DEF Inv, TypeOK
    <2>2. CASE global' = NoGlobal
        BY <2>2, ShortsAreMore DEF GlobalIsKept, NoGlobal, None, Values
    <2> QED BY <2>1, <2>2
<1> QED BY <1>2, <1>3 DEF Inv, TypeOK, Grow

LEMMA EmitByteKeepsInv ==
    ASSUME Inv, NEW op \in Simple, EmitByte(op)
    PROVE  Inv'
<1>1. PICK p : p = Asked(op, <<>>, <<>>)
    OBVIOUS
<1>2. op \in Operations
    BY DEF Operations
<1>3. p \in Instructions /\ p.at = Here
    BY <1>1, <1>2, AskedIsInstruction, EmptyOperands DEF Inv
<1>4. p.op = op /\ p.target = 0 /\ p.values = <<>> /\ p.bytes = <<>>
    BY <1>1 DEF Asked
<1>5. Emit(op, <<>>, p) /\ Grow /\ UNCHANGED <<hadError, global, family>>
    BY <1>1, SameConstantsGrow DEF EmitByte, Emit, Inv
<1>6. Size(p) = 1 + Len(<<>>)
    BY <1>4 DEF Size, Simple, Constant, WithByte, Invokes, ForwardJumps
<1>7. ValuesWritten(p)'
    BY <1>4 DEF ValuesWritten, TakesConstant, Simple, Constant, Invokes
<1>8. BytesWritten(p)'
    BY <1>4 DEF BytesWritten, Simple, WithByte, Invokes
<1>9. JumpWritten(p)'
    <2>1. ~IsJump(p)
        BY <1>4 DEF IsJump, Simple
    <2> QED BY <1>3, <1>4, <1>5, <2>1, PlainIsWritten
<1> QED BY <1>2, <1>3, <1>4, <1>5, <1>6, <1>7, <1>8, <1>9, EmptyOperands, EmitKeepsInv DEF Inv, TypeOK

LEMMA EmitBytesKeepsInv ==
    ASSUME Inv, NEW op \in WithByte, NEW b \in Byte, EmitBytes(op, b)
    PROVE  Inv'
<1>1. PICK p : p = Asked(op, <<>>, <<b>>)
    OBVIOUS
<1>2. op \in Operations /\ <<b>> \in Seq(Byte) /\ Len(<<b>>) = 1
    BY DEF Operations
<1>3. p \in Instructions /\ p.at = Here
    BY <1>1, <1>2, AskedIsInstruction, EmptyOperands DEF Inv
<1>4. p.op = op /\ p.target = 0 /\ p.values = <<>> /\ p.bytes = <<b>>
    BY <1>1 DEF Asked
<1>5. Emit(op, <<b>>, p) /\ Grow /\ UNCHANGED <<hadError, global, family>>
    BY <1>1, SameConstantsGrow DEF EmitBytes, Emit, Inv
<1>6. Size(p) = 1 + Len(<<b>>)
    BY <1>2, <1>3, <1>4, Sizes
<1>7. ValuesWritten(p)'
    BY <1>4 DEF ValuesWritten, TakesConstant, WithByte, Constant, Invokes
<1>8. BytesWritten(p)'
    <2>1. p.at \in Nat /\ At(p.at + 1)'.byte = b
        <3>1. p.at \in Nat /\ \A i \in 1 .. Len(<<b>>) : At(p.at + i)'.byte = <<b>>[i]
            BY <1>2, <1>3, <1>5, OperandsAreThere
        <3>2. 1 \in 1 .. Len(<<b>>) /\ <<b>>[1] = b
            BY <1>2
        <3> QED BY <3>1, <3>2
    <2>2. BytesAt(p.at + 1, 1)' = <<b>>
        <3>1. \A i \in 1 .. 1 : p.at + 1 + i - 1 = p.at + 1
            BY <2>1
        <3> QED BY <2>1, <3>1 DEF BytesAt
    <2> QED BY <1>4, <2>2 DEF BytesWritten, WithByte, Invokes
<1>9. JumpWritten(p)'
    <2>1. ~IsJump(p)
        BY <1>4 DEF IsJump, WithByte
    <2> QED BY <1>3, <1>4, <1>5, <2>1, PlainIsWritten
<1> QED BY <1>2, <1>3, <1>4, <1>5, <1>6, <1>7, <1>8, <1>9, EmitKeepsInv DEF Inv, TypeOK

LEMMA ShortIsTwoBytes ==
    ASSUME NEW n \in Nat
    PROVE  Short(n) \in Seq(Byte) /\ Len(Short(n)) = 2
           /\ Short(n)[1] = High(n) /\ Short(n)[2] = Low(n)
BY HalvesAreBytes DEF Short

(* An index behind the opcode.                                             *)
LEMMA ConstantIsWritten ==
    ASSUME Inv, NEW v \in Values, NEW index \in 0 .. Shorts - 1,
           NEW op \in Operations, NEW operands \in Seq(Byte), NEW p \in Instructions,
           Emit(op, operands, p), p.at = Here, p.values = <<v>>, TakesConstant(p.op),
           Len(operands) >= 2, operands[1] = High(index), operands[2] = Low(index),
           IsIndex(constants', v, index, p.range)
    PROVE  ValuesWritten(p)'
<1>1. ShortAt(p.at + 1)' = index
    BY OperandsAreThere, HalvesMakeShort
<1>2. p.values[1] = v
    OBVIOUS
<1> QED BY <1>1, <1>2 DEF ValuesWritten

LEMMA EmitByteConstKeepsInv ==
    ASSUME Inv, NEW op \in Constant, NEW v \in Values, EmitByteConst(op, v)
    PROVE  Inv'
<1>1. PICK p : p = Asked(op, <<v>>, <<>>)
    OBVIOUS
<1>2. PICK index : index = Index(v)
    OBVIOUS
<1>3. index \in 0 .. Shorts - 1 /\ IsIndex(constants', v, index, Shorts) /\ index \in Nat
    BY <1>2, IndexIsFound, ShortsAreMore DEF EmitByteConst, Inv, TypeOK
<1>4. PICK operands : operands = Short(index)
    OBVIOUS
<1>5. /\ operands \in Seq(Byte) /\ Len(operands) = 2
      /\ operands[1] = High(index) /\ operands[2] = Low(index)
    BY <1>3, <1>4, ShortIsTwoBytes
<1>6. op \in Operations /\ <<v>> \in Seq(Values)
    BY DEF Operations
<1>7. p \in Instructions /\ p.at = Here
    BY <1>1, <1>6, AskedIsInstruction, EmptyOperands DEF Inv
<1>8. p.op = op /\ p.target = 0 /\ p.values = <<v>> /\ p.bytes = <<>> /\ p.range = Shorts
    BY <1>1 DEF Asked
<1>9. Emit(op, operands, p) /\ Grow /\ UNCHANGED <<hadError, global, family>>
    BY <1>1, <1>2, <1>4, WithConstantGrows DEF EmitByteConst, Emit, Inv
<1>10. TakesConstant(op) /\ ~IsJump(p)
    BY <1>8 DEF TakesConstant, IsJump, Constant
<1>11. Size(p) = 1 + Len(operands)
    BY <1>5, <1>7, <1>8, Sizes
<1>12. ValuesWritten(p)'
    BY <1>3, <1>5, <1>6, <1>7, <1>8, <1>9, <1>10, ConstantIsWritten
<1>13. BytesWritten(p)'
    BY <1>8 DEF BytesWritten, Constant, WithByte, Invokes
<1>14. JumpWritten(p)'
    BY <1>7, <1>8, <1>9, <1>10, PlainIsWritten
<1> QED BY <1>5, <1>6, <1>7, <1>8, <1>9, <1>11, <1>12, <1>13, <1>14, EmitKeepsInv DEF Inv, TypeOK

LEMMA EmitInvokeKeepsInv ==
    ASSUME Inv, NEW op \in Invokes, NEW v \in Values, NEW b \in Byte, EmitInvoke(op, v, b)
    PROVE  Inv'
<1>1. PICK p : p = Asked(op, <<v>>, <<b>>)
    OBVIOUS
<1>2. PICK index : index = Index(v)
    OBVIOUS
<1>3. index \in 0 .. Shorts - 1 /\ IsIndex(constants', v, index, Shorts) /\ index \in Nat
    BY <1>2, IndexIsFound, ShortsAreMore DEF EmitInvoke, Inv, TypeOK
<1>4. PICK operands : operands = Short(index) \o <<b>>
    OBVIOUS
<1>5. /\ operands \in Seq(Byte) /\ Len(operands) = 3 /\ operands[3] = b
      /\ operands[1] = High(index) /\ operands[2] = Low(index)
    BY <1>3, <1>4, HalvesAreBytes DEF Short
<1>6. op \in Operations /\ <<v>> \in Seq(Values) /\ <<b>> \in Seq(Byte)
    BY DEF Operations
<1>7. p \in Instructions /\ p.at = Here
    BY <1>1, <1>6, AskedIsInstruction DEF Inv
<1>8. p.op = op /\ p.target = 0 /\ p.values = <<v>> /\ p.bytes = <<b>> /\ p.range = Shorts
    BY <1>1 DEF Asked
<1>9. Emit(op, operands, p) /\ Grow /\ UNCHANGED <<hadError, global, family>>
    BY <1>1, <1>2, <1>4, WithConstantGrows DEF EmitInvoke, Emit, Inv
<1>10. TakesConstant(op) /\ ~IsJump(p)
    BY <1>8 DEF TakesConstant, IsJump, Invokes
<1>11. Size(p) = 1 + Len(operands)
    BY <1>5, <1>7, <1>8, Sizes
<1>12. ValuesWritten(p)'
    BY <1>3, <1>5, <1>6, <1>7, <1>8, <1>9, <1>10, ConstantIsWritten
<1>13. BytesWritten(p)'
    <2>1. p.at \in Nat /\ \A i \in 1 .. Len(operands) : At(p.at + i)'.byte = operands[i]
        BY <1>5, <1>6, <1>7, <1>9, OperandsAreThere
    <2>2. At(p.at + 3)'.byte = b
        BY <1>5, <2>1
    <2>3. BytesAt(p.at + 3, 1)' = <<b>>
        <3>1. \A i \in 1 .. 1 : p.at + 3 + i - 1 = p.at + 3
            BY <2>1
        <3> QED BY <2>2, <3>1 DEF BytesAt
    <2> QED BY <1>8, <2>3 DEF BytesWritten, Invokes, WithByte
<1>14. JumpWritten(p)'
    BY <1>7, <1>8, <1>9, <1>10, PlainIsWritten
<1> QED BY <1>5, <1>6, <1>7, <1>8, <1>9, <1>11, <1>12, <1>13, <1>14, EmitKeepsInv DEF Inv, TypeOK

LEMMA EmitClosureKeepsInv ==
    ASSUME Inv, NEW v \in Values, NEW pairs \in Seq(Byte), EmitClosure(v, pairs)
    PROVE  Inv'
<1>0. PICK op : op = "CLOSURE"
    OBVIOUS
<1>1. PICK p : p = Asked(op, <<v>>, pairs)
    OBVIOUS
<1>2. PICK index : index = Index(v)
    OBVIOUS
<1>3. index \in 0 .. Shorts - 1 /\ IsIndex(constants', v, index, Shorts) /\ index \in Nat
    BY <1>2, IndexIsFound, ShortsAreMore DEF EmitClosure, Inv, TypeOK
<1>4. PICK operands : operands = Short(index) \o pairs
    OBVIOUS
<1>5. /\ operands \in Seq(Byte) /\ Len(operands) = 2 + Len(pairs) /\ Len(pairs) \in Nat
      /\ operands[1] = High(index) /\ operands[2] = Low(index)
      /\ \A i \in 1 .. Len(pairs) : operands[2 + i] = pairs[i]
    <2>1. PICK a \in Byte, b \in Byte : a = High(index) /\ b = Low(index)
        BY <1>3, HalvesAreBytes
    <2>2. operands = <<a, b>> \o pairs
        BY <1>4, <2>1 DEF Short
    <2>3. /\ operands \in Seq(Byte) /\ Len(operands) = 2 + Len(pairs)
          /\ operands[1] = a /\ operands[2] = b
          /\ \A i \in 1 .. Len(pairs) : operands[i + 2] = pairs[i]
        BY <2>2
    <2> QED BY <2>1, <2>3
<1>6. op \in Operations /\ <<v>> \in Seq(Values)
    BY <1>0 DEF Operations
<1>7. p \in Instructions /\ p.at = Here
    BY <1>0, <1>1, <1>6, AskedIsInstruction DEF Inv
<1>8. p.op = op /\ p.target = 0 /\ p.values = <<v>> /\ p.bytes = pairs /\ p.range = Shorts
    BY <1>0, <1>1 DEF Asked
<1>9. /\ Emit(op, operands, p) /\ Grow /\ UNCHANGED <<hadError, global, family>>
      /\ Len(pairs) = 2 * v.upvalues
    BY <1>0, <1>1, <1>2, <1>4, WithConstantGrows DEF EmitClosure, Emit, Inv
<1>10. TakesConstant(op) /\ ~IsJump(p)
    BY <1>0, <1>8 DEF TakesConstant, IsJump
<1>11. Size(p) = 1 + Len(operands) /\ Len(operands) >= 2
    BY <1>0, <1>5, <1>7, <1>8, Sizes
<1>12. ValuesWritten(p)'
    BY <1>3, <1>5, <1>6, <1>7, <1>8, <1>9, <1>10, <1>11, ConstantIsWritten
<1>13. BytesWritten(p)'
    <2>1. p.at \in Nat /\ \A i \in 1 .. Len(operands) : At(p.at + i)'.byte = operands[i]
        BY <1>5, <1>6, <1>7, <1>9, OperandsAreThere
    <2>2. ASSUME NEW i \in 1 .. Len(pairs)
          PROVE  At(p.at + 3 + i - 1)'.byte = pairs[i]
        <3>1. PICK at \in Nat, n \in Nat : at = p.at /\ n = Len(pairs)
            BY <1>5, <2>1
        <3>2. i \in 1 .. n /\ Len(operands) = 2 + n
            BY <1>5, <3>1
        <3>3. at + (2 + i) = at + 3 + i - 1
            BY <3>2
        <3>4. 2 + i \in 1 .. 2 + n
            BY <3>2
        <3>5. operands[2 + i] = pairs[i]
            BY <1>5
        <3>6. At(at + (2 + i))'.byte = operands[2 + i]
            BY <2>1, <3>1, <3>2, <3>4
        <3> QED BY <3>1, <3>3, <3>5, <3>6
    <2>3. BytesAt(p.at + 3, Len(pairs))' = [i \in 1 .. Len(pairs) |-> pairs[i]]
        BY <2>2 DEF BytesAt
    <2>4. pairs = [i \in 1 .. Len(pairs) |-> pairs[i]]
        OBVIOUS
    <2> QED BY <1>0, <1>8, <1>9, <2>3, <2>4 DEF BytesWritten, Invokes, WithByte
<1>14. JumpWritten(p)'
    BY <1>7, <1>8, <1>9, <1>10, PlainIsWritten
<1> QED BY <1>5, <1>6, <1>7, <1>8, <1>9, <1>11, <1>12, <1>13, <1>14, EmitKeepsInv DEF Inv, TypeOK

LEMMA EmitJumpKeepsInv ==
    ASSUME Inv, NEW op \in ForwardJumps, EmitJump(op)
    PROVE  Inv'
<1>1. PICK p : p = [Asked(op, <<>>, <<>>) EXCEPT !.target = Pending]
    OBVIOUS
<1>2. PICK operands : operands = <<UINT8_COUNT - 1, UINT8_COUNT - 1>>
    OBVIOUS
<1>3. operands \in Seq(Byte) /\ Len(operands) = 2
    BY <1>2, ShortsAreMore DEF Byte
<1>4. op \in Operations
    BY DEF Operations
<1>5. p \in Instructions /\ p.at = Here
    <2>1. PICK a \in Instructions : a = Asked(op, <<>>, <<>>) /\ a.at = Here
        BY <1>4, AskedIsInstruction, EmptyOperands DEF Inv
    <2>2. p = [a EXCEPT !.target = Pending] /\ Pending \in Int
        BY <1>1, <2>1, PendingIsFar
    <2> QED BY <2>1, <2>2 DEF Instructions
<1>6. p.op = op /\ p.target = Pending /\ p.values = <<>> /\ p.bytes = <<>>
    BY <1>1 DEF Asked
<1>7. Emit(op, operands, p) /\ Grow /\ UNCHANGED <<hadError, global, family>>
    BY <1>1, <1>2, SameConstantsGrow DEF EmitJump, Emit, Inv
<1>8. Size(p) = 1 + Len(operands)
    BY <1>3, <1>5, <1>6, Sizes
<1>9. ValuesWritten(p)'
    BY <1>6 DEF ValuesWritten, TakesConstant, Constant, Invokes, ForwardJumps
<1>10. BytesWritten(p)'
    BY <1>6 DEF BytesWritten, Invokes, WithByte, ForwardJumps
<1>11. JumpWritten(p)'
    <2>1. p.target = Pending'
        BY <1>6, <1>7, PendingIsFar
    <2> QED BY <1>6, <2>1 DEF JumpWritten
<1> QED BY <1>3, <1>4, <1>5, <1>6, <1>7, <1>8, <1>9, <1>10, <1>11, EmitKeepsInv DEF Inv, TypeOK

(* A loop starts at an instruction.                                        *)
LEMMA StartsAreBehind ==
    ASSUME Inv, NEW start \in Starts
    PROVE  start \in 0 .. Here
<1>1. CASE start = Here
    BY <1>1, PendingIsFar
<1>2. ASSUME NEW k \in DOMAIN program, start = program[k].at
      PROVE  start \in 0 .. Here
    <2>1. PICK p \in Instructions : p = program[k]
        BY DEF Inv, TypeOK
    <2>2. p.at + Size(p) <= Here /\ Size(p) \in Nat /\ p.at \in Nat
        BY <2>1, Sizes DEF Inv, Tiled, End
    <2> QED BY <1>2, <2>1, <2>2, PendingIsFar
<1> QED BY <1>1, <1>2 DEF Starts

LEMMA EmitLoopKeepsInv ==
    ASSUME Inv, NEW start \in Starts, EmitLoop(start)
    PROVE  Inv'
<1>0. PICK op : op = "LOOP"
    OBVIOUS
<1>1. PICK p : p = [Asked(op, <<>>, <<>>) EXCEPT !.target = start]
    OBVIOUS
<1>2. PICK offset : offset = (Here + 1) - start + 2
    OBVIOUS
<1>3. offset \in Nat /\ start \in Int /\ start # Pending /\ offset = Here + 3 - start
    BY <1>2, StartsAreBehind, PendingIsFar
<1>4. PICK operands : operands = Short(offset)
    OBVIOUS
<1>5. /\ operands \in Seq(Byte) /\ Len(operands) = 2
      /\ operands[1] = High(offset) /\ operands[2] = Low(offset)
    BY <1>3, <1>4, ShortIsTwoBytes
<1>6. op \in Operations
    BY <1>0 DEF Operations
<1>7. p \in Instructions /\ p.at = Here
    <2>1. PICK a \in Instructions : a = Asked(op, <<>>, <<>>) /\ a.at = Here
        BY <1>6, AskedIsInstruction, EmptyOperands DEF Inv
    <2>2. p = [a EXCEPT !.target = start]
        BY <1>1, <2>1
    <2> QED BY <1>3, <2>1, <2>2 DEF Instructions
<1>8. p.op = op /\ p.target = start /\ p.values = <<>> /\ p.bytes = <<>>
    BY <1>1 DEF Asked
<1>9. /\ Emit(op, operands, p) /\ Grow /\ UNCHANGED <<global, family>>
      /\ hadError' = (hadError \/ offset >= Shorts)
    BY <1>0, <1>1, <1>2, <1>4, SameConstantsGrow DEF EmitLoop, Emit, Inv
<1>10. Size(p) = 1 + Len(operands)
    BY <1>0, <1>5, <1>7, <1>8, Sizes
<1>11. ValuesWritten(p)'
    BY <1>0, <1>8 DEF ValuesWritten, TakesConstant, Constant, Invokes
<1>12. BytesWritten(p)'
    BY <1>0, <1>8 DEF BytesWritten, Invokes, WithByte
<1>13. JumpWritten(p)'
    <2>1. p.target # Pending'
        BY <1>3, <1>8, <1>9, PendingIsFar
    <2>2. p.target - (p.at + 3) = -offset
        BY <1>3, <1>7, <1>8, PendingIsFar
    <2>3. CASE offset >= Shorts
        <3>1. hadError'
            BY <1>9, <2>3
        <3>2. -offset \notin -(Shorts - 1) .. Shorts - 1
            BY <1>3, <2>3, ShortsAreMore
        <3> QED BY <1>8, <2>1, <2>2, <3>1, <3>2 DEF JumpWritten
    <2>4. CASE offset < Shorts
        <3>1. offset \in 0 .. Shorts - 1 /\ -(-offset) = offset
            BY <1>3, <2>4, ShortsAreMore
        <3>2. ShortAt(p.at + 1)' = offset
            BY <1>5, <1>6, <1>7, <1>9, <3>1, OperandsAreThere, HalvesMakeShort
        <3>3. -offset \in -(Shorts - 1) .. Shorts - 1
            BY <1>3, <2>4, ShortsAreMore
        <3> QED BY <1>0, <1>8, <2>1, <2>2, <3>1, <3>2, <3>3 DEF JumpWritten
    <2> QED BY <1>3, <2>3, <2>4, ShortsAreMore
<1>14. hadError' \in BOOLEAN /\ (hadError => hadError')
    BY <1>9 DEF Inv, TypeOK
<1> QED BY <1>5, <1>6, <1>7, <1>8, <1>9, <1>10, <1>11, <1>12, <1>13, <1>14, EmitKeepsInv DEF Inv, TypeOK

LEMMA DefineVariableKeepsInv ==
    ASSUME Inv, DefineVariable
    PROVE  Inv'
<1>0. PICK op : op = "DEFINE_GLOBAL"
    OBVIOUS
<1>1. PICK v, index, range : v = global.value /\ index = global.index /\ range = global.range
    OBVIOUS
<1>2. PICK p : p = [Asked(op, <<v>>, <<>>) EXCEPT !.range = range]
    OBVIOUS
<1>3. /\ v \in Values /\ index \in 0 .. Shorts - 1 /\ index \in Nat
      /\ range \in {UINT8_COUNT, Shorts} /\ IsIndex(constants, v, index, range)
    BY <1>1, ShortsAreMore DEF DefineVariable, Inv, TypeOK, GlobalIsKept
<1>4. PICK operands : operands = Short(index)
    OBVIOUS
<1>5. /\ operands \in Seq(Byte) /\ Len(operands) = 2
      /\ operands[1] = High(index) /\ operands[2] = Low(index)
    BY <1>3, <1>4, ShortIsTwoBytes
<1>6. op \in Operations /\ <<v>> \in Seq(Values)
    BY <1>0, <1>3 DEF Operations
<1>7. p \in Instructions /\ p.at = Here
    <2>1. PICK a \in Instructions : a = Asked(op, <<v>>, <<>>) /\ a.at = Here
        BY <1>6, AskedIsInstruction, EmptyOperands DEF Inv
    <2>2. p = [a EXCEPT !.range = range]
        BY <1>2, <2>1
    <2> QED BY <1>3, <2>1, <2>2 DEF Instructions
<1>8. p.op = op /\ p.target = 0 /\ p.values = <<v>> /\ p.bytes = <<>> /\ p.range = range
    BY <1>2 DEF Asked
<1>9. /\ Emit(op, operands, p) /\ Grow /\ UNCHANGED <<hadError, family, constants>>
      /\ global' = NoGlobal
    BY <1>0, <1>1, <1>2, <1>4, SameConstantsGrow DEF DefineVariable, Emit, Inv
<1>10. TakesConstant(p.op) /\ ~IsJump(p)
    BY <1>0, <1>8 DEF TakesConstant, IsJump
<1>11. Size(p) = 1 + Len(operands) /\ Len(operands) >= 2
    BY <1>0, <1>5, <1>7, <1>8, Sizes
<1>12. ValuesWritten(p)'
    BY <1>3, <1>5, <1>6, <1>7, <1>8, <1>9, <1>10, <1>11, ConstantIsWritten
<1>13. BytesWritten(p)'
    BY <1>0, <1>8 DEF BytesWritten, Invokes, WithByte
<1>14. JumpWritten(p)'
    BY <1>7, <1>8, <1>9, <1>10, PlainIsWritten
<1> QED BY <1>5, <1>6, <1>7, <1>8, <1>9, <1>11, <1>12, <1>13, <1>14, EmitKeepsInv DEF Inv, TypeOK

LEMMA CodeStays ==
    ASSUME Inv, UNCHANGED <<code, hadError, family, program>>, Grow
    PROVE  Tiled' /\ \A k \in DOMAIN program' : Written(program[k])'
<1>1. \A o \in Nat : At(o)' = At(o)
    BY DEF At, Here
<1>2. ASSUME NEW k \in DOMAIN program
      PROVE  Written(program[k])'
    <2>1. PICK p \in Instructions : p = program[k] /\ Written(p)
        BY DEF Inv, TypeOK
    <2>2. \A o \in p.at .. End(p) - 1 : At(o)' = At(o)
        BY <1>1, Sizes
    <2>3. Written(p)'
        BY <2>1, <2>2, WrittenStays DEF Inv, TypeOK, Grow
    <2> QED BY <2>1, <2>3
<1>3. Tiled'
    BY DEF Inv, Tiled, Here, End, Size
<1> QED BY <1>2, <1>3

LEMMA ParseVariableKeepsInv ==
    ASSUME Inv, NEW v \in Values, ParseVariable(v)
    PROVE  Inv'
<1>1. UNCHANGED <<code, hadError, family, program>> /\ Grow
    BY WithConstantGrows DEF ParseVariable, Inv
<1>2. Tiled' /\ \A k \in DOMAIN program' : Written(program[k])'
    BY <1>1, CodeStays
<1>5. PICK index : index = Index(v)
    OBVIOUS
<1>6. /\ index \in 0 .. Shorts - 1 /\ IsIndex(constants', v, index, Shorts)
      /\ IsIndex(constants', v, index % UINT8_COUNT, UINT8_COUNT)
    BY <1>5, IndexIsFound DEF ParseVariable, Inv, TypeOK
<1>7. index % UINT8_COUNT \in 0 .. Shorts - 1
    BY <1>6, Remainder, ShortsAreMore
<1>8. PICK narrow : narrow = index % UINT8_COUNT
    OBVIOUS
<1>9. \/ global' = [value |-> v, index |-> narrow, range |-> UINT8_COUNT]
      \/ global' = [value |-> v, index |-> index, range |-> Shorts]
    BY <1>5, <1>8 DEF ParseVariable
<1>10. GlobalIsKept'
    BY <1>6, <1>8, <1>9, ShortsAreMore DEF GlobalIsKept
<1>11. global' \in [value : Values, index : 0 .. Shorts - 1, range : {0, UINT8_COUNT, Shorts}]
    BY <1>6, <1>7, <1>8, <1>9
<1> QED BY <1>1, <1>2, <1>10, <1>11 DEF Inv, TypeOK, Grow

(* A patch writes the two bytes of its own jump, and those of no other     *)
(* instruction.                                                            *)
LEMMA PatchedBytes ==
    ASSUME Inv, NEW k \in DOMAIN program, PatchJump(k),
           NEW p \in Instructions, p = program[k], NEW jump, jump = Here - (p.at + 1) - 2
    PROVE  /\ p.op \in ForwardJumps /\ p.at \in Nat /\ End(p) = p.at + 3 /\ End(p) <= Here
           /\ jump \in Nat
           /\ code' \in Seq(Code) /\ Here' = Here
           /\ At(p.at + 1)'.byte = High(jump) /\ At(p.at + 2)'.byte = Low(jump)
           /\ \A o \in Nat \ {p.at + 1, p.at + 2} : At(o)' = At(o)
<1>1. p.op \in ForwardJumps /\ p.at \in Nat
    BY DEF PatchJump, Inv, Written, JumpWritten, Instructions
<1>2. End(p) = p.at + 3 /\ End(p) <= Here /\ Here \in Nat
    BY <1>1, Sizes, PendingIsFar DEF Inv, Tiled, End
<1>3. jump \in Nat
    BY <1>1, <1>2
<1>4. code' = [code EXCEPT ![p.at + 1 + 1] = Data(High(jump)), ![p.at + 1 + 2] = Data(Low(jump))]
    BY DEF PatchJump
<1>5. code \in Seq(Code)
    BY DEF Inv, TypeOK
<1>6. PICK a \in Code, b \in Code :
        a = Data(High(jump)) /\ b = Data(Low(jump)) /\ a.byte = High(jump) /\ b.byte = Low(jump)
    <2>1. Data(High(jump)).byte = High(jump) /\ Data(Low(jump)).byte = Low(jump)
        BY DEF Data
    <2> QED BY <1>3, <2>1, HalvesAreBytes, DataIsCode
<1>7. code' = [code EXCEPT ![p.at + 2] = a, ![p.at + 3] = b]
    <2>1. p.at + 1 + 1 = p.at + 2 /\ p.at + 1 + 2 = p.at + 3
        BY <1>1
    <2> QED BY <1>4, <1>6, <2>1
<1>8. p.at + 2 \in 1 .. Len(code) /\ p.at + 3 \in 1 .. Len(code)
    BY <1>1, <1>2, <1>5 DEF Here
<1>9. /\ code' \in Seq(Code) /\ Len(code') = Len(code)
      /\ code'[p.at + 2] = a /\ code'[p.at + 3] = b
      /\ \A i \in 1 .. Len(code) : i \notin {p.at + 2, p.at + 3} => code'[i] = code[i]
    BY <1>1, <1>5, <1>7, <1>8
<1>10. At(p.at + 1)' = a /\ At(p.at + 2)' = b
    BY <1>1, <1>2, <1>9 DEF At, Here
<1>11. ASSUME NEW o \in Nat \ {p.at + 1, p.at + 2}
       PROVE  At(o)' = At(o)
    <2>1. o + 1 \notin {p.at + 2, p.at + 3}
        BY <1>1
    <2> QED BY <1>5, <1>9, <2>1 DEF At, Here
<1> QED BY <1>1, <1>2, <1>3, <1>6, <1>9, <1>10, <1>11 DEF Here

LEMMA PatchJumpKeepsInv ==
    ASSUME Inv, NEW k \in DOMAIN program, PatchJump(k)
    PROVE  Inv'
<1>1. PICK p \in Instructions : p = program[k]
    BY DEF Inv, TypeOK
<1>2. PICK here : here = Here
    OBVIOUS
<1>3. PICK jump : jump = here - (p.at + 1) - 2
    OBVIOUS
<1>4. /\ p.op \in ForwardJumps /\ p.at \in Nat /\ End(p) = p.at + 3 /\ End(p) <= here
      /\ jump \in Nat /\ code' \in Seq(Code) /\ Here' = here
      /\ At(p.at + 1)'.byte = High(jump) /\ At(p.at + 2)'.byte = Low(jump)
      /\ \A o \in Nat \ {p.at + 1, p.at + 2} : At(o)' = At(o)
    BY <1>1, <1>2, <1>3, PatchedBytes
<1>5. PICK q : q = [p EXCEPT !.target = here]
    OBVIOUS
<1>6. /\ q \in Instructions /\ q.at = p.at /\ q.op = p.op /\ q.values = p.values
      /\ q.bytes = p.bytes /\ q.target = here /\ here \in Nat
    BY <1>2, <1>5, PendingIsFar DEF Instructions
<1>7. /\ program' = [program EXCEPT ![k] = q]
      /\ UNCHANGED <<constants, global, family>> /\ Grow
      /\ hadError' = (hadError \/ jump >= Shorts)
    BY <1>1, <1>2, <1>3, <1>5, SameConstantsGrow DEF PatchJump, Inv
<1>8. /\ program' \in Seq(Instructions) /\ Len(program') = Len(program) /\ program'[k] = q
      /\ \A j \in DOMAIN program \ {k} : program'[j] = program[j]
    BY <1>6, <1>7 DEF Inv, TypeOK
<1>9. hadError' \in BOOLEAN /\ (hadError => hadError')
    BY <1>7 DEF Inv, TypeOK
<1>10. Tiled'
    <2>1. End(q) = End(p)
        BY <1>6 DEF End, Size
    <2>2. \A j \in DOMAIN program : End(program'[j]) = End(program[j]) /\ program'[j].at = program[j].at
        BY <1>1, <1>6, <1>8, <2>1
    <2>3. ASSUME NEW j \in DOMAIN program
          PROVE  /\ End(program'[j]) = IF j = Len(program) THEN here ELSE program'[j + 1].at
                 /\ End(program'[j]) <= here
                 /\ \A i \in 1 .. j - 1 : End(program'[i]) <= program'[j].at
        <3>1. j + 1 \in DOMAIN program \/ j = Len(program)
            BY DEF Inv, TypeOK
        <3>2. \A i \in 1 .. j - 1 : i \in DOMAIN program
            BY DEF Inv, TypeOK
        <3> QED BY <1>2, <2>2, <3>1, <3>2 DEF Inv, Tiled
    <2>4. Here' <= family'.length /\ DOMAIN program' = DOMAIN program
        BY <1>2, <1>4, <1>7, <1>8 DEF Inv, TypeOK, Tiled
    <2>5. \A j : End(program[j])' = End(program'[j])
        BY DEF End, Size
    <2>6. \A j \in DOMAIN program' :
            /\ End(program[j])' = IF j = Len(program') THEN Here' ELSE program'[j + 1].at
            /\ End(program[j])' <= Here'
            /\ \A i \in 1 .. j - 1 : End(program[i])' <= program'[j].at
        BY <1>4, <1>8, <2>3, <2>4, <2>5
    <2> QED BY <2>4, <2>6 DEF Tiled
<1>11. Written(q)'
    <2>1. At(q.at)' = At(p.at)
        BY <1>4, <1>6
    <2>2. At(p.at).op = p.op /\ p.values = <<>> /\ p.bytes = <<>>
        BY <1>1, <1>4 DEF Inv, Written, ValuesWritten, BytesWritten, TakesConstant, Constant,
                          Invokes, WithByte, ForwardJumps
    <2>3. ValuesWritten(q)'
        BY <1>4, <1>6, <2>2 DEF ValuesWritten, TakesConstant, Constant, Invokes, ForwardJumps
    <2>4. BytesWritten(q)'
        BY <1>4, <1>6, <2>2 DEF BytesWritten, Invokes, WithByte, ForwardJumps
    <2>5. q.target - (q.at + 3) = jump
        BY <1>3, <1>4, <1>6
    <2>6. q.target # Pending' /\ q.op # "LOOP"
        BY <1>2, <1>4, <1>6, <1>7, PendingIsFar DEF ForwardJumps
    <2>7. CASE jump >= Shorts
        <3>1. hadError'
            BY <1>7, <2>7
        <3>2. jump \notin -(Shorts - 1) .. Shorts - 1
            BY <1>4, <2>7, ShortsAreMore
        <3>3. JumpWritten(q)'
            BY <2>5, <2>6, <3>1, <3>2 DEF JumpWritten
        <3> QED BY <1>6, <2>1, <2>2, <2>3, <2>4, <3>3 DEF Written
    <2>8. CASE jump < Shorts
        <3>1. jump \in 0 .. Shorts - 1 /\ jump \in -(Shorts - 1) .. Shorts - 1
            BY <1>4, <2>8, ShortsAreMore
        <3>2. q.at + 1 = p.at + 1 /\ q.at + 1 + 1 = p.at + 2
            BY <1>4, <1>6
        <3>3. ShortAt(q.at + 1)' = jump
            BY <1>4, <3>1, <3>2, HalvesMakeShort DEF ShortAt
        <3>4. JumpWritten(q)'
            BY <2>5, <2>6, <3>1, <3>3 DEF JumpWritten
        <3> QED BY <1>6, <2>1, <2>2, <2>3, <2>4, <3>4 DEF Written
    <2> QED BY <1>4, <2>7, <2>8, ShortsAreMore
<1>12. ASSUME NEW j \in DOMAIN program \ {k}
       PROVE  Written(program[j])'
    <2>1. PICK r \in Instructions : r = program[j] /\ Written(r)
        BY DEF Inv, TypeOK
    <2>2. End(r) <= p.at \/ p.at + 3 <= r.at
        <3>1. j \in 1 .. k - 1 \/ k \in 1 .. j - 1
            BY DEF Inv, TypeOK
        <3> QED BY <1>1, <1>4, <2>1, <3>1 DEF Inv, Tiled
    <2>3. r.at \in Nat /\ End(r) \in Nat
        BY Sizes
    <2>4. \A o \in r.at .. End(r) - 1 : o \in Nat \ {p.at + 1, p.at + 2}
        BY <1>4, <2>2, <2>3
    <2>5. \A o \in r.at .. End(r) - 1 : At(o)' = At(o)
        BY <1>4, <2>4
    <2>6. Written(r)'
        BY <1>7, <1>9, <2>1, <2>5, WrittenStays DEF Inv, TypeOK, Grow
    <2> QED BY <1>8, <2>1, <2>6
<1>13. \A j \in DOMAIN program' : Written(program[j])'
    <2>1. Written(program[k])'
        BY <1>8, <1>11
    <2>2. DOMAIN program' = DOMAIN program
        BY <1>8 DEF Inv, TypeOK
    <2> QED BY <1>12, <2>1, <2>2
<1>14. GlobalIsKept'
    BY <1>7, GlobalStays
<1> QED BY <1>4, <1>7, <1>8, <1>9, <1>10, <1>13, <1>14 DEF Inv, TypeOK

-----------------------------------------------------------------------------
(* The invariant.                                                          *)

LEMMA InitHasInv == Init => Inv
<1> SUFFICES ASSUME Init PROVE Inv
    OBVIOUS
<1>1. TypeOK
    <2>1. None \in Values /\ 0 \in 0 .. Shorts - 1
        BY ShortsAreMore DEF None, Values
    <2>2. NoGlobal \in [value : Values, index : 0 .. Shorts - 1, range : {0, UINT8_COUNT, Shorts}]
        BY <2>1 DEF NoGlobal
    <2>3. \A S : <<>> \in Seq(S)
        OBVIOUS
    <2> QED BY <2>2, <2>3 DEF Init, TypeOK
<1>2. Tiled
    BY DEF Init, Tiled, Here
<1>3. (\A k \in DOMAIN program : Written(program[k])) /\ GlobalIsKept
    BY DEF Init, GlobalIsKept
<1> QED BY <1>1, <1>2, <1>3 DEF Inv

LEMMA NamesAreValues ==
    ASSUME TypeOK
    PROVE  Names \subseteq Values /\ NewFunctions \subseteq Values
<1>1. Len(constants) + 1 \in Nat /\ \A v \in Range(constants) : v \in Values
    BY DEF TypeOK, Range
<1>2. Name(Len(constants) + 1) \in Values
    BY <1>1 DEF Name, Values
<1>3. ASSUME NEW n \in 0 .. MaxUpvalues
      PROVE  Function(Len(constants) + 1, n) \in Values
    BY <1>1 DEF Function, Values
<1> QED BY <1>1, <1>2, <1>3 DEF Names, NewFunctions

LEMMA NextKeepsInv == Inv /\ [Next]_vars => Inv'
<1> SUFFICES ASSUME Inv, [Next]_vars PROVE Inv'
    OBVIOUS
<1>1. Names \subseteq Values /\ NewFunctions \subseteq Values
    BY NamesAreValues DEF Inv
<1>2. ASSUME NEW op \in Simple, EmitByte(op) PROVE Inv'
    BY <1>2, EmitByteKeepsInv
<1>3. ASSUME NEW op \in WithByte, NEW b \in Byte, EmitBytes(op, b) PROVE Inv'
    BY <1>3, EmitBytesKeepsInv
<1>4. ASSUME NEW op \in Constant, NEW v \in Names, EmitByteConst(op, v) PROVE Inv'
    BY <1>1, <1>4, EmitByteConstKeepsInv
<1>5. ASSUME NEW op \in Invokes, NEW v \in Names, NEW b \in Byte, EmitInvoke(op, v, b) PROVE Inv'
    BY <1>1, <1>5, EmitInvokeKeepsInv
<1>6. ASSUME NEW f \in NewFunctions, NEW pairs \in [1 .. 2 * f.upvalues -> Byte],
             EmitClosure(f, pairs)
      PROVE  Inv'
    <2>1. 2 * f.upvalues \in Nat
        BY <1>1 DEF Values
    <2>2. pairs \in Seq(Byte)
        BY <2>1
    <2> QED BY <1>1, <1>6, <2>2, EmitClosureKeepsInv
<1>7. ASSUME NEW v \in Names, ParseVariable(v) PROVE Inv'
    BY <1>1, <1>7, ParseVariableKeepsInv
<1>8. CASE DefineVariable
    BY <1>8, DefineVariableKeepsInv
<1>9. ASSUME NEW op \in ForwardJumps, EmitJump(op) PROVE Inv'
    BY <1>9, EmitJumpKeepsInv
<1>10. ASSUME NEW k \in DOMAIN program, PatchJump(k) PROVE Inv'
    BY <1>10, PatchJumpKeepsInv
<1>11. ASSUME NEW start \in Starts, EmitLoop(start) PROVE Inv'
    BY <1>11, EmitLoopKeepsInv
<1>12. CASE UNCHANGED vars
    <2>1. UNCHANGED <<code, constants, hadError, global, family, program>> /\ Grow
        BY <1>12, SameConstantsGrow DEF vars, Inv
    <2> QED BY <2>1, CodeStays, GlobalStays DEF Inv, TypeOK
<1> QED BY <1>2, <1>3, <1>4, <1>5, <1>6, <1>7, <1>8, <1>9, <1>10, <1>11, <1>12 DEF Next

(* At every moment the code is a row of whole instructions, and each of    *)
(* them holds the operands asked for (codegen.cc), as far as their widths  *)
(* allow.                                                                  *)
THEOREM InvHolds == Spec => []Inv
BY InitHasInv, NextKeepsInv, PTL DEF Spec

-----------------------------------------------------------------------------
(* Reading.                                                                *)

LEMMA ShortIsNumber ==
    ASSUME Inv, NEW o \in Nat
    PROVE  ShortAt(o) \in Nat
<1>1. ASSUME NEW i \in Nat
      PROVE  At(i).byte \in Nat
    <2>1. CASE i < Here
        <3>1. i + 1 \in DOMAIN code
            BY <2>1 DEF Here, Inv, TypeOK
        <3>2. code[i + 1] \in Code
            BY <3>1 DEF Inv, TypeOK
        <3>3. code[i + 1].byte \in Byte
            BY <3>2 DEF Code
        <3> QED BY <2>1, <3>3 DEF At, Byte
    <2>2. CASE ~(i < Here)
        BY <2>2 DEF At, Data
    <2> QED BY <2>1, <2>2
<1>2. o + 1 \in Nat
    OBVIOUS
<1> QED BY <1>1, <1>2 DEF ShortAt

(* READ_CONSTANT finds the value whose index was written, if its index     *)
(* fits: a smaller index belongs to another value.                         *)
LEMMA ConstantIsRead ==
    ASSUME Inv, NEW p \in Instructions, ValuesWritten(p), TakesConstant(p.op)
    PROVE  /\ p.values = <<p.values[1]>>
           /\ <<ValueAt(ShortAt(p.at + 1))>> = p.values <=> Fits(p)
<1>1. PICK v, index : v \in Values /\ v = p.values[1] /\ p.values = <<v>> /\ index = ShortAt(p.at + 1)
    BY DEF ValuesWritten
<1>2. PICK m \in DOMAIN constants :
        /\ constants[m] = v
        /\ \A i \in 1 .. m - 1 : constants[i] # v
        /\ m <= p.range => index = m - 1
    BY <1>1 DEF ValuesWritten, IsIndex
<1>3. index < p.range
    BY <1>1 DEF ValuesWritten, IsIndex
<1>4. /\ m \in Nat \ {0} /\ m <= Len(constants) /\ p.range \in Nat /\ Len(constants) \in Nat
      /\ index \in Nat
    <2>1. p.at + 1 \in Nat
        BY DEF Instructions
    <2>2. index \in Nat
        BY <1>1, <2>1, ShortIsNumber
    <2> QED BY <2>2, ShortsAreMore DEF Inv, TypeOK, Instructions
<1>5. Fits(p) <=> m <= p.range
    <2>1. Range(p.values) = {v}
        BY <1>1 DEF Range
    <2>2. Fits(p) <=> \E i \in DOMAIN constants : constants[i] = v /\ i <= p.range
        BY <2>1 DEF Fits
    <2>3. ASSUME NEW i \in DOMAIN constants, constants[i] = v, i <= p.range
          PROVE  m <= p.range
        <3>1. i \in Nat \ {0}
            BY DEF Inv, TypeOK
        <3>2. m <= i
            BY <1>2, <1>4, <2>3, <3>1
        <3> QED BY <1>4, <2>3, <3>1, <3>2
    <2> QED BY <1>2, <2>2, <2>3
<1>6. CASE m <= p.range
    <2>1. index < Len(constants) /\ index + 1 = m
        BY <1>2, <1>4, <1>6
    <2>2. ValueAt(index) = v
        BY <1>2, <2>1 DEF ValueAt
    <2> QED BY <1>1, <1>5, <1>6, <2>2
<1>7. CASE ~(m <= p.range)
    <2>1. index < Len(constants) /\ index + 1 \in 1 .. m - 1
        BY <1>3, <1>4, <1>7
    <2>2. ValueAt(index) # v
        BY <1>2, <2>1 DEF ValueAt
    <2> QED BY <1>1, <1>5, <1>7, <2>2
<1> QED BY <1>1, <1>6, <1>7

(* What the virtual machine takes at an instruction.                       *)
LEMMA Executed ==
    ASSUME NEW ip, NEW op, At(ip).op = op, NEW v, v = ValueAt(ShortAt(ip + 1))
    PROVE  /\ op \in Constant \cup {"DEFINE_GLOBAL"} =>
                Execute(ip) = Reading(op, <<v>>, <<>>, 0, ip + 3)
           /\ op \in WithByte => Execute(ip) = Reading(op, <<>>, BytesAt(ip + 1, 1), 0, ip + 2)
           /\ op \in Invokes => Execute(ip) = Reading(op, <<v>>, BytesAt(ip + 3, 1), 0, ip + 4)
           /\ op = "CLOSURE" => Execute(ip) = Reading(op, <<v>>, BytesAt(ip + 3, 2 * v.upvalues), 0,
                                                      ip + 3 + 2 * v.upvalues)
           /\ op \in ForwardJumps =>
                Execute(ip) = Reading(op, <<>>, <<>>, ip + 3 + ShortAt(ip + 1), ip + 3)
           /\ op = "LOOP" =>
                Execute(ip) = Reading(op, <<>>, <<>>, ip + 3 - ShortAt(ip + 1), ip + 3)
           /\ op \in Simple => Execute(ip) = Reading(op, <<>>, <<>>, 0, ip + 1)
<1>1. op \in Constant \cup {"DEFINE_GLOBAL"} =>
        Execute(ip) = Reading(op, <<v>>, <<>>, 0, ip + 3)
    BY DEF Execute, Constant
<1>2. op \in WithByte => Execute(ip) = Reading(op, <<>>, BytesAt(ip + 1, 1), 0, ip + 2)
    BY DEF Execute, WithByte
<1>3. op \in Invokes => Execute(ip) = Reading(op, <<v>>, BytesAt(ip + 3, 1), 0, ip + 4)
    BY DEF Execute, Invokes
<1>4. op = "CLOSURE" => Execute(ip) = Reading(op, <<v>>, BytesAt(ip + 3, 2 * v.upvalues), 0,
                                              ip + 3 + 2 * v.upvalues)
    BY DEF Execute
<1>5. op \in ForwardJumps =>
        Execute(ip) = Reading(op, <<>>, <<>>, ip + 3 + ShortAt(ip + 1), ip + 3)
    BY DEF Execute, ForwardJumps
<1>6. op = "LOOP" => Execute(ip) = Reading(op, <<>>, <<>>, ip + 3 - ShortAt(ip + 1), ip + 3)
    BY DEF Execute
<1>7. op \in Simple => Execute(ip) = Reading(op, <<>>, <<>>, 0, ip + 1)
    BY DEF Execute, Simple
<1> QED BY <1>1, <1>2, <1>3, <1>4, <1>5, <1>6, <1>7

LEMMA Read ==
    ASSUME NEW op, NEW values, NEW bytes, NEW target, NEW next, NEW r,
           r = Reading(op, values, bytes, target, next)
    PROVE  r.op = op /\ r.values = values /\ r.bytes = bytes /\ r.target = target /\ r.next = next
BY DEF Reading

(* Also what is read beyond the constants has a number of upvalues.        *)
LEMMA ValueHasUpvalues ==
    ASSUME Inv, NEW o \in Nat
    PROVE  ValueAt(ShortAt(o + 1)).upvalues \in Nat
<1>1. PICK index \in Nat : index = ShortAt(o + 1)
    BY ShortIsNumber
<1>2. CASE index < Len(constants)
    <2>1. index + 1 \in DOMAIN constants
        BY <1>2 DEF Inv, TypeOK
    <2>2. constants[index + 1] \in Values
        BY <2>1 DEF Inv, TypeOK
    <2> QED BY <1>1, <1>2, <2>2, ChunkAssumption DEF ValueAt, Values
<1>3. CASE ~(index < Len(constants))
    BY <1>1, <1>3 DEF ValueAt, None
<1> QED BY <1>2, <1>3

LEMMA WrittenIsRead ==
    ASSUME Inv, NEW p \in Instructions, Written(p)
    PROVE  LET r == Execute(p.at)
           IN  /\ r.op = p.op
               /\ r.values = p.values <=> Fits(p)
               /\ r.bytes = p.bytes /\ r.next = End(p) <=> PairsMatch(p, r)
<1> DEFINE r == Execute(p.at)
<1>1. PICK v : v = ValueAt(ShortAt(p.at + 1))
    OBVIOUS
<1>2. At(p.at).op = p.op
    BY DEF Written
<1>3. /\ TakesConstant(p.op) => p.values = <<p.values[1]>> /\ (<<v>> = p.values <=> Fits(p))
      /\ ~TakesConstant(p.op) => p.values = <<>> /\ Fits(p)
    <2>1. ASSUME TakesConstant(p.op)
          PROVE  p.values = <<p.values[1]>> /\ (<<v>> = p.values <=> Fits(p))
        BY <1>1, <2>1, ConstantIsRead DEF Written
    <2>2. ASSUME ~TakesConstant(p.op)
          PROVE  p.values = <<>> /\ Fits(p)
        <3>1. p.values = <<>>
            BY <2>2 DEF Written, ValuesWritten
        <3> QED BY <3>1 DEF Fits, Range
    <2> QED BY <2>1, <2>2
<1>11. p.op # "CLOSURE" => PairsMatch(p, r)
    BY DEF PairsMatch
<1>4. p.at \in Nat /\ p.op \in Operations /\ Len(p.bytes) \in Nat /\ End(p) = p.at + Size(p)
    BY Sizes DEF End
<1>5. CASE p.op \in Constant \cup {"DEFINE_GLOBAL"}
    <2>0. p.op # "CLOSURE"
        BY <1>5 DEF Constant
    <2>1. p.bytes = <<>> /\ Size(p) = 3 /\ TakesConstant(p.op)
        BY <1>5, Sizes DEF Written, BytesWritten, TakesConstant, Constant, WithByte, Invokes
    <2>2. r = Reading(p.op, <<v>>, <<>>, 0, p.at + 3)
        BY <1>1, <1>2, <1>5, Executed
    <2> QED BY <1>3, <1>4, <1>11, <2>1, <2>2, <2>0, Read
<1>6. CASE p.op \in WithByte
    <2>0. p.op # "CLOSURE"
        BY <1>6 DEF WithByte
    <2>1. p.bytes = BytesAt(p.at + 1, 1) /\ Size(p) = 2 /\ ~TakesConstant(p.op)
        BY <1>6, Sizes DEF Written, BytesWritten, TakesConstant, Constant, WithByte, Invokes
    <2>2. r = Reading(p.op, <<>>, BytesAt(p.at + 1, 1), 0, p.at + 2)
        BY <1>1, <1>2, <1>6, Executed
    <2> QED BY <1>3, <1>4, <1>11, <2>1, <2>2, <2>0, Read
<1>7. CASE p.op \in Invokes
    <2>0. p.op # "CLOSURE"
        BY <1>7 DEF Invokes
    <2>1. p.bytes = BytesAt(p.at + 3, 1) /\ Size(p) = 4 /\ TakesConstant(p.op)
        BY <1>7, Sizes DEF Written, BytesWritten, TakesConstant
    <2>2. r = Reading(p.op, <<v>>, BytesAt(p.at + 3, 1), 0, p.at + 4)
        BY <1>1, <1>2, <1>7, Executed
    <2> QED BY <1>3, <1>4, <1>11, <2>1, <2>2, <2>0, Read
<1>8. CASE p.op = "CLOSURE"
    <2>1. TakesConstant(p.op)
        BY <1>8 DEF TakesConstant
    <2>2. /\ p.bytes = BytesAt(p.at + 3, Len(p.bytes)) /\ Size(p) = 3 + Len(p.bytes)
          /\ Len(p.bytes) = 2 * p.values[1].upvalues
        BY <1>8, Sizes DEF Written, BytesWritten
    <2>3. PICK n \in Nat, m \in Nat : n = Len(p.bytes) /\ m = 2 * v.upvalues
        <3>1. v.upvalues \in Nat
            BY <1>1, ValueHasUpvalues DEF Instructions
        <3> QED BY <1>4, <3>1
    <2>4. r = Reading(p.op, <<v>>, BytesAt(p.at + 3, m), 0, p.at + 3 + m)
        BY <1>1, <1>2, <1>8, <2>3, Executed
    <2>5. /\ r.op = p.op /\ r.values = <<v>>
          /\ r.bytes = BytesAt(p.at + 3, m) /\ r.next = p.at + 3 + m
        BY <2>4, Read
    <2>6. End(p) = p.at + 3 + n /\ p.bytes = BytesAt(p.at + 3, n)
        BY <1>4, <2>2, <2>3
    <2>7. PairsMatch(p, r) <=> m = n
        <3>1. PairsMatch(p, r) <=> v.upvalues = p.values[1].upvalues
            BY <1>8, <2>5 DEF PairsMatch
        <3>2. v.upvalues \in Nat /\ p.values[1].upvalues \in Nat
            BY <1>1, <2>1, ValueHasUpvalues DEF Instructions, Written, ValuesWritten, Values
        <3> QED BY <2>2, <2>3, <3>1, <3>2
    <2>8. r.bytes = p.bytes /\ r.next = End(p) <=> m = n
        BY <1>4, <2>3, <2>5, <2>6
    <2> QED BY <1>3, <2>1, <2>5, <2>7, <2>8
<1>9. CASE IsJump(p)
    <2>0. p.op # "CLOSURE"
        BY <1>9 DEF IsJump
    <2>1. p.bytes = <<>> /\ Size(p) = 3 /\ ~TakesConstant(p.op)
        BY <1>9, Sizes DEF Written, BytesWritten, TakesConstant, Constant, WithByte, Invokes,
                           IsJump, ForwardJumps
    <2>2. PICK target : r = Reading(p.op, <<>>, <<>>, target, p.at + 3)
        BY <1>1, <1>2, <1>9, Executed DEF IsJump, ForwardJumps
    <2> QED BY <1>3, <1>4, <1>11, <2>1, <2>2, <2>0, Read
<1>10. CASE p.op \in Simple
    <2>0. p.op # "CLOSURE"
        BY <1>10 DEF Simple
    <2>1. p.bytes = <<>> /\ ~TakesConstant(p.op)
        BY <1>10 DEF Written, BytesWritten, TakesConstant, Simple, Constant, WithByte, Invokes
    <2>2. Size(p) = 1
        BY <1>10 DEF Size, Simple, Constant, WithByte, Invokes, ForwardJumps
    <2>3. r = Reading(p.op, <<>>, <<>>, 0, p.at + 1)
        BY <1>1, <1>2, <1>10, Executed
    <2> QED BY <1>3, <1>4, <1>11, <2>1, <2>2, <2>3, <2>0, Read
<1> QED BY <1>4, <1>5, <1>6, <1>7, <1>8, <1>9, <1>10 DEF Operations, IsJump, ForwardJumps

LEMMA InvReads == Inv => ProgramIsRead
<1> SUFFICES ASSUME Inv PROVE ProgramIsRead
    OBVIOUS
<1>1. ASSUME NEW k \in DOMAIN program
      PROVE  LET r == Execute(program[k].at)
                 next == IF k = Len(program) THEN Here ELSE program[k + 1].at
             IN  /\ r.op = program[k].op
                 /\ r.values = program[k].values <=> Fits(program[k])
                 /\ r.bytes = program[k].bytes /\ r.next = next <=> PairsMatch(program[k], r)
    <2>1. PICK p \in Instructions : p = program[k] /\ Written(p)
        BY DEF Inv, TypeOK
    <2>2. End(p) = IF k = Len(program) THEN Here ELSE program[k + 1].at
        BY <2>1 DEF Inv, Tiled
    <2> QED BY <2>1, <2>2, WrittenIsRead
<1>2. ASSUME NEW k \in DOMAIN program, NEW p \in Instructions, p = program[k],
             IsJump(p), p.target # Pending,
             NEW distance, distance = p.target - (p.at + 3)
      PROVE  IF distance \in -(Shorts - 1) .. Shorts - 1
             THEN Execute(p.at).target = p.target
             ELSE hadError
    <2>1. JumpWritten(p) /\ At(p.at).op = p.op
        BY <1>2 DEF Inv, Written
    <2>2. p.at \in Nat /\ p.target \in Int /\ p.at + 1 \in Nat
        BY DEF Instructions
    <2>3. PICK short \in Nat : short = ShortAt(p.at + 1)
        BY <2>2, ShortIsNumber
    <2>4. CASE distance \in -(Shorts - 1) .. Shorts - 1
        <3>1. short = IF p.op = "LOOP" THEN -distance ELSE distance
            BY <1>2, <2>1, <2>3, <2>4 DEF JumpWritten
        <3>2. CASE p.op = "LOOP"
            <4>1. Execute(p.at) = Reading(p.op, <<>>, <<>>, p.at + 3 - short, p.at + 3)
                BY <2>1, <2>3, <3>2, Executed
            <4>2. p.at + 3 - short = p.target
                BY <1>2, <2>2, <3>1, <3>2
            <4> QED BY <2>4, <4>1, <4>2, Read
        <3>3. CASE p.op \in ForwardJumps
            <4>1. Execute(p.at) = Reading(p.op, <<>>, <<>>, p.at + 3 + short, p.at + 3)
                BY <2>1, <2>3, <3>3, Executed
            <4>2. p.at + 3 + short = p.target
                BY <1>2, <2>2, <3>1, <3>3 DEF ForwardJumps
            <4> QED BY <2>4, <4>1, <4>2, Read
        <3> QED BY <1>2, <3>2, <3>3 DEF IsJump, ForwardJumps
    <2>5. CASE distance \notin -(Shorts - 1) .. Shorts - 1
        BY <1>2, <2>1, <2>5 DEF JumpWritten
    <2> QED BY <2>4, <2>5
<1>3. OperandsAreRead
    BY <1>1 DEF OperandsAreRead
<1>4. JumpsArrive
    BY <1>2 DEF JumpsArrive, Inv, TypeOK
<1> QED BY <1>3, <1>4 DEF ProgramIsRead

(* The virtual machine reads the instructions the compiler asked for       *)
(* (codegen.cc, vm.cc:262-559), whatever the width of a byte and the       *)
(* length of the program are: opcodes and bytes always, the constant meant *)
(* exactly if its index fits its width, and targets unless an error was    *)
(* reported.  A closure's pairs are misread exactly if its index is that   *)
(* of a constant with another number of them.                              *)
THEOREM ProgramIsReadAlways == Spec => []ProgramIsRead
BY InvHolds, InvReads, PTL

LEMMA InvAgrees == Inv => DisassemblerAgrees
<1> SUFFICES ASSUME Inv, NEW k \in DOMAIN program
             PROVE  DisassembleInstruction(program[k].at) = Execute(program[k].at)
    BY DEF DisassemblerAgrees
<1>1. PICK p \in Instructions : p = program[k] /\ At(p.at).op = p.op
    BY DEF Inv, TypeOK, Written
<1>2. PICK ip \in Nat, op \in Operations : ip = p.at /\ op = p.op /\ At(ip).op = op
    BY <1>1 DEF Instructions
<1>3. PICK short \in Nat : short = ShortAt(ip + 1)
    BY ShortIsNumber
<1>4. PICK v : v = ValueAt(ShortAt(ip + 1))
    OBVIOUS
<1>5. CASE op \in Constant \cup {"DEFINE_GLOBAL"}
    <2>1. DisassembleInstruction(ip) = ConstantInstruction(op, ip)
        BY <1>2, <1>5 DEF DisassembleInstruction, Constant
    <2> QED BY <1>1, <1>2, <1>4, <1>5, <2>1, Executed DEF ConstantInstruction
<1>6. CASE op \in WithByte
    <2>1. DisassembleInstruction(ip) = ByteInstruction(op, ip)
        BY <1>2, <1>6 DEF DisassembleInstruction, Constant, WithByte
    <2> QED BY <1>1, <1>2, <1>4, <1>6, <2>1, Executed DEF ByteInstruction
<1>7. CASE op \in Invokes
    <2>1. DisassembleInstruction(ip) = InvokeInstruction(op, ip)
        BY <1>2, <1>7 DEF DisassembleInstruction, Constant, Invokes
    <2> QED BY <1>1, <1>2, <1>4, <1>7, <2>1, Executed DEF InvokeInstruction
<1>8. CASE op = "CLOSURE"
    <2>1. DisassembleInstruction(ip) = ClosureInstruction(ip)
        BY <1>2, <1>8 DEF DisassembleInstruction, Constant
    <2> QED BY <1>1, <1>2, <1>4, <1>8, <2>1, Executed DEF ClosureInstruction
<1>9. CASE op \in ForwardJumps
    <2>1. DisassembleInstruction(ip) = JumpInstruction(op, 1, ip)
        BY <1>2, <1>9 DEF DisassembleInstruction, Constant, ForwardJumps
    <2>2. ip + 3 + 1 * short = ip + 3 + short
        OBVIOUS
    <2> QED BY <1>1, <1>2, <1>3, <1>4, <1>9, <2>1, <2>2, Executed DEF JumpInstruction
<1>10. CASE op = "LOOP"
    <2>1. DisassembleInstruction(ip) = JumpInstruction(op, -1, ip)
        BY <1>2, <1>10 DEF DisassembleInstruction, Constant
    <2>2. ip + 3 + (-1) * short = ip + 3 - short
        OBVIOUS
    <2> QED BY <1>1, <1>2, <1>3, <1>4, <1>10, <2>1, <2>2, Executed DEF JumpInstruction
<1>11. CASE op \in Simple
    <2>1. DisassembleInstruction(ip) = SimpleInstruction(op, ip)
        BY <1>2, <1>11 DEF DisassembleInstruction, Constant, Simple
    <2> QED BY <1>1, <1>2, <1>4, <1>11, <2>1, Executed DEF SimpleInstruction
<1> QED BY <1>5, <1>6, <1>7, <1>8, <1>9, <1>10, <1>11 DEF Operations

(* The disassembler shows what runs, jump targets included, and finds the  *)
(* next instruction where the virtual machine does (debug.cc:15-174).      *)
THEOREM DisassemblerAgreesAlways == Spec => []DisassemblerAgrees
BY InvHolds, InvAgrees, PTL
=============================================================================
