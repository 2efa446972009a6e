------------------------------- MODULE Chunk -------------------------------
(***************************************************************************)
(* Instructions as bytes: what the code generator of alox-cc (codegen.cc)  *)
(* writes into a chunk, and what the virtual machine (vm.cc) and the       *)
(* disassembler (debug.cc) read in it.                                     *)
(*                                                                         *)
(* An opcode keeps its name; operands are bytes of UINT8_COUNT values,    *)
(* so that a small number reaches the limits a program of 65536 bytes or   *)
(* constants reaches in C++.  The chunk is that of one function, whose     *)
(* instructions may come in any order.                                     *)
(***************************************************************************)
EXTENDS Integers, Sequences, FiniteSetsExt, Functions

CONSTANTS
    UINT8_COUNT,    \* values of a byte
    Families,       \* bound: opcodes that a program is made of, bytes of its code
    MaxUpvalues     \* bound: upvalues of a function

VARIABLES
    code,           \* the bytes of the chunk, from offset 0
    constants,      \* its values
    hadError,       \* a limit was reported
    global,         \* the variable being declared, and the index kept for its name
    family,         \* the family the program is of
    program         \* history: the instructions the compiler asked for

vars == <<code, constants, hadError, global, family, program>>

Byte == 0 .. UINT8_COUNT - 1
Shorts == UINT8_COUNT * UINT8_COUNT     \* values of two bytes

ASSUME ChunkAssumption ==
    /\ UINT8_COUNT \in Nat \ {0, 1} /\ MaxUpvalues \in Nat
    /\ \A f \in Families : f.length \in Nat

Opcode(op) == [op |-> op, byte |-> 0]
Data(byte) == [op |-> "data", byte |-> byte]
Here == Len(code)

-----------------------------------------------------------------------------
(* The constants of a chunk.                                               *)

None == [kind |-> "none", id |-> 0, upvalues |-> 0]
Name(id) == [kind |-> "name", id |-> id, upvalues |-> 0]
Function(id, upvalues) == [kind |-> "function", id |-> id, upvalues |-> upvalues]

Names == {v \in Range(constants) : v.kind = "name"} \cup {Name(Len(constants) + 1)}
NewFunctions == {Function(Len(constants) + 1, n) : n \in 0 .. MaxUpvalues}

(* ValueArray::write: a value that is already there is used again.         *)
WithConstant(value) ==
    IF value \in Range(constants) THEN constants ELSE Append(constants, value)

(* makeConstant: the index is 16 bits wide before it is compared with      *)
(* MAX_CONSTANTS, which it therefore never passes.                         *)
Index(value) ==
    LET all == WithConstant(value)
    IN  (Min({i \in DOMAIN all : all[i] = value}) - 1) % Shorts

-----------------------------------------------------------------------------
(* The code generator.                                                     *)

(* The instruction asked for.  `range' is how many constants the path to   *)
(* its operand can tell apart, `target' where a jump should arrive.        *)
Asked(op, values, bytes) ==
    [at |-> Here, op |-> op, values |-> values, bytes |-> bytes, range |-> Shorts, target |-> 0]

Allowed(op) == op \in family.opcodes

Emit(op, operands, instruction) ==
    /\ Allowed(op)
    /\ Here + 1 + Len(operands) <= family.length
    /\ code' = code \o <<Opcode(op)>> \o [i \in DOMAIN operands |-> Data(operands[i])]
    /\ program' = Append(program, instruction)
    /\ UNCHANGED family

High(n) == (n \div UINT8_COUNT) % UINT8_COUNT
Low(n) == n % UINT8_COUNT
Short(n) == <<High(n), Low(n)>>

Simple == {"NIL", "TRUE", "FALSE", "ZERO", "ONE", "POP", "EQUAL", "NOT_EQUAL", "GREATER",
           "NOT_GREATER", "LESS", "NOT_LESS", "ADD", "SUBTRACT", "MULTIPLY", "DIVIDE", "NOT",
           "NEGATE", "PRINT", "CLOSE_UPVALUE", "INHERIT", "RETURN"}

(* Those that take a constant, but for DEFINE_GLOBAL; a byte; both.        *)
Constant == {"CONSTANT", "GET_GLOBAL", "SET_GLOBAL", "GET_PROPERTY", "SET_PROPERTY", "GET_SUPER",
             "CLASS", "METHOD"}
WithByte == {"GET_LOCAL", "SET_LOCAL", "GET_UPVALUE", "SET_UPVALUE", "CALL"}
Invokes == {"INVOKE", "SUPER_INVOKE"}
ForwardJumps == {"JUMP", "JUMP_IF_FALSE"}

(* emitReturn is two of these.                                             *)
EmitByte(op) ==
    /\ Emit(op, <<>>, Asked(op, <<>>, <<>>))
    /\ UNCHANGED <<constants, hadError, global>>

EmitBytes(op, byte) ==
    /\ Emit(op, <<byte>>, Asked(op, <<>>, <<byte>>))
    /\ UNCHANGED <<constants, hadError, global>>

EmitByteConst(op, value) ==
    /\ Emit(op, Short(Index(value)), Asked(op, <<value>>, <<>>))
    /\ constants' = WithConstant(value)
    /\ UNCHANGED <<hadError, global>>

(* INVOKE and SUPER_INVOKE: the name, then the number of arguments.        *)
EmitInvoke(op, value, arguments) ==
    /\ Emit(op, Short(Index(value)) \o <<arguments>>, Asked(op, <<value>>, <<arguments>>))
    /\ constants' = WithConstant(value)
    /\ UNCHANGED <<hadError, global>>

(* CLOSURE: a pair of bytes, isLocal and index, for every upvalue.         *)
EmitClosure(function, pairs) ==
    /\ Len(pairs) = 2 * function.upvalues
    /\ Emit("CLOSURE", Short(Index(function)) \o pairs, Asked("CLOSURE", <<function>>, pairs))
    /\ constants' = WithConstant(function)
    /\ UNCHANGED <<hadError, global>>

NoGlobal == [value |-> None, index |-> 0, range |-> 0]

(* parseVariable outside of functions: a class keeps the index of its name *)
(* as it is, a variable or a function in a uint8_t.                        *)
ParseVariable(value) ==
    /\ Allowed("DEFINE_GLOBAL") /\ global = NoGlobal
    /\ constants' = WithConstant(value)
    /\ \/ global' = [value |-> value, index |-> Index(value) % UINT8_COUNT, range |-> UINT8_COUNT]
       \/ global' = [value |-> value, index |-> Index(value), range |-> Shorts]
    /\ UNCHANGED <<code, hadError, family, program>>

(* defineVariable, behind the initial value.                               *)
DefineVariable ==
    /\ global # NoGlobal
    /\ Emit("DEFINE_GLOBAL", Short(global.index),
            [Asked("DEFINE_GLOBAL", <<global.value>>, <<>>) EXCEPT !.range = global.range])
    /\ global' = NoGlobal
    /\ UNCHANGED <<constants, hadError>>

(* Jumps forward are patched when their target is reached.                 *)
Pending == Shorts + family.length

EmitJump(op) ==
    /\ Emit(op, <<UINT8_COUNT - 1, UINT8_COUNT - 1>>, [Asked(op, <<>>, <<>>) EXCEPT !.target = Pending])
    /\ UNCHANGED <<constants, hadError, global>>

(* Mutant: the distance is measured from the operand, not behind it.       *)
PatchJumpFromOpcode(k) ==
    LET offset == program[k].at + 1
        jump == Here - offset
    IN  /\ program[k].target = Pending
        /\ hadError' = (hadError \/ jump >= Shorts)
        /\ code' = [code EXCEPT ![offset + 1] = Data(High(jump)), ![offset + 2] = Data(Low(jump))]
        /\ program' = [program EXCEPT ![k].target = Here]
        /\ UNCHANGED <<constants, global, family>>

PatchJump(k) ==
    LET offset == program[k].at + 1
        jump == Here - offset - 2
    IN  /\ program[k].target = Pending
        /\ hadError' = (hadError \/ jump >= Shorts)
        /\ code' = [code EXCEPT ![offset + 1] = Data(High(jump)), ![offset + 2] = Data(Low(jump))]
        /\ program' = [program EXCEPT ![k].target = Here]
        /\ UNCHANGED <<constants, global, family>>

(* The distance is measured behind LOOP itself.                            *)
EmitLoop(loopStart) ==
    LET offset == (Here + 1) - loopStart + 2
    IN  /\ Emit("LOOP", Short(offset), [Asked("LOOP", <<>>, <<>>) EXCEPT !.target = loopStart])
        /\ hadError' = (hadError \/ offset >= Shorts)
        /\ UNCHANGED <<constants, global>>

Starts == {program[k].at : k \in DOMAIN program} \cup {Here}

Init ==
    /\ code = <<>> /\ constants = <<>> /\ program = <<>>
    /\ hadError = FALSE /\ global = NoGlobal
    /\ family \in Families

Next ==
    \/ \E op \in Simple : EmitByte(op)
    \/ \E op \in WithByte, b \in Byte : EmitBytes(op, b)
    \/ \E op \in Constant, value \in Names : EmitByteConst(op, value)
    \/ \E op \in Invokes, value \in Names, b \in Byte : EmitInvoke(op, value, b)
    \/ \E function \in NewFunctions :
            \E pairs \in [1 .. 2 * function.upvalues -> Byte] : EmitClosure(function, pairs)
    \/ \E value \in Names : ParseVariable(value)
    \/ DefineVariable
    \/ \E op \in ForwardJumps : EmitJump(op)
    \/ \E k \in DOMAIN program : PatchJump(k)
    \/ \E loopStart \in Starts : EmitLoop(loopStart)

Spec == Init /\ [][Next]_vars

-----------------------------------------------------------------------------
(* Reading.  What lies behind the code is read as 0: no property depends   *)
(* on it.                                                                  *)

At(offset) == IF offset < Here THEN code[offset + 1] ELSE Data(0)
ShortAt(offset) == At(offset).byte * UINT8_COUNT + At(offset + 1).byte
ValueAt(index) == IF index < Len(constants) THEN constants[index + 1] ELSE None
BytesAt(offset, n) == [i \in 1 .. n |-> At(offset + i - 1).byte]

Reading(op, values, bytes, target, next) ==
    [op |-> op, values |-> values, bytes |-> bytes, target |-> target, next |-> next]

(* The virtual machine: an instruction takes its operands with READ_BYTE,  *)
(* READ_SHORT and READ_CONSTANT, each of which moves ip.  `target' is      *)
(* where a jump that is taken arrives.                                     *)
Execute(ip) ==
    LET op == At(ip).op
        constant == ValueAt(ShortAt(ip + 1))
        pairs == 2 * constant.upvalues
    IN  CASE op \in {"CONSTANT", "GET_GLOBAL", "DEFINE_GLOBAL", "SET_GLOBAL", "GET_PROPERTY",
                     "SET_PROPERTY", "GET_SUPER", "CLASS", "METHOD"} ->
                Reading(op, <<constant>>, <<>>, 0, ip + 3)
          [] op \in {"GET_LOCAL", "SET_LOCAL", "GET_UPVALUE", "SET_UPVALUE", "CALL"} ->
                Reading(op, <<>>, BytesAt(ip + 1, 1), 0, ip + 2)
          [] op \in {"INVOKE", "SUPER_INVOKE"} ->
                Reading(op, <<constant>>, BytesAt(ip + 3, 1), 0, ip + 4)
          [] op = "CLOSURE" ->
                Reading(op, <<constant>>, BytesAt(ip + 3, pairs), 0, ip + 3 + pairs)
          [] op \in {"JUMP", "JUMP_IF_FALSE"} ->
                Reading(op, <<>>, <<>>, ip + 3 + ShortAt(ip + 1), ip + 3)
          [] op = "LOOP" -> Reading(op, <<>>, <<>>, ip + 3 - ShortAt(ip + 1), ip + 3)
          [] OTHER -> Reading(op, <<>>, <<>>, 0, ip + 1)

(* The disassembler: one function for each form of instruction, which      *)
(* prints it and returns the offset of the next.                           *)
SimpleInstruction(op, offset) == Reading(op, <<>>, <<>>, 0, offset + 1)
ByteInstruction(op, offset) == Reading(op, <<>>, BytesAt(offset + 1, 1), 0, offset + 2)
ConstantInstruction(op, offset) ==
    Reading(op, <<ValueAt(ShortAt(offset + 1))>>, <<>>, 0, offset + 3)
(* Mutant: the number of arguments is printed but not passed over.         *)
InvokeAsConstant(op, offset) ==
    Reading(op, <<ValueAt(ShortAt(offset + 1))>>, BytesAt(offset + 3, 1), 0, offset + 3)

InvokeInstruction(op, offset) ==
    Reading(op, <<ValueAt(ShortAt(offset + 1))>>, BytesAt(offset + 3, 1), 0, offset + 4)
JumpInstruction(op, sign, offset) ==
    Reading(op, <<>>, <<>>, offset + 3 + sign * ShortAt(offset + 1), offset + 3)
ClosureInstruction(offset) ==
    LET function == ValueAt(ShortAt(offset + 1))
    IN  Reading("CLOSURE", <<function>>, BytesAt(offset + 3, 2 * function.upvalues), 0,
                offset + 3 + 2 * function.upvalues)

DisassembleInstruction(offset) ==
    LET op == At(offset).op
    IN  CASE op \in Constant \cup {"DEFINE_GLOBAL"} -> ConstantInstruction(op, offset)
          [] op \in {"GET_LOCAL", "SET_LOCAL", "GET_UPVALUE", "SET_UPVALUE", "CALL"} ->
                ByteInstruction(op, offset)
          [] op \in {"INVOKE", "SUPER_INVOKE"} -> InvokeInstruction(op, offset)
          [] op \in {"JUMP", "JUMP_IF_FALSE"} -> JumpInstruction(op, 1, offset)
          [] op = "LOOP" -> JumpInstruction(op, -1, offset)
          [] op = "CLOSURE" -> ClosureInstruction(offset)
          [] OTHER -> SimpleInstruction(op, offset)

-----------------------------------------------------------------------------
(* Properties.                                                             *)

IsJump(p) == p.op \in {"JUMP", "JUMP_IF_FALSE", "LOOP"}

(* The index of the instruction's constant fits the width it is kept in.   *)
Fits(p) == \A v \in Range(p.values) : \E i \in DOMAIN constants : constants[i] = v /\ i <= p.range

(* The constant that is read has as many pairs as the function meant.      *)
PairsMatch(p, r) == p.op = "CLOSURE" => r.values[1].upvalues = p.values[1].upvalues

OperandsAreRead ==
    \A k \in DOMAIN program :
        LET p == program[k]
            r == Execute(p.at)
            next == IF k = Len(program) THEN Here ELSE program[k + 1].at
        IN  /\ r.op = p.op
            /\ r.values = p.values <=> Fits(p)
            /\ r.bytes = p.bytes /\ r.next = next <=> PairsMatch(p, r)

JumpsArrive ==
    \A k \in DOMAIN program :
        LET p == program[k]
            distance == p.target - (p.at + 3)
        IN  IsJump(p) /\ p.target # Pending =>
                IF distance \in -(Shorts - 1) .. Shorts - 1
                THEN Execute(p.at).target = p.target
                ELSE hadError

(* The virtual machine reads, from the first byte to the last, the         *)
(* instructions the compiler asked for (codegen.cc, vm.cc:262-559): writer *)
(* and reader agree on the length of every instruction, patches hit        *)
(* nothing but jumps, and a target out of reach is an error (codegen.cc:30 *)
(* and 72).  The constant is the one meant exactly if its index fits:      *)
(* 65536 constants, but 256 for the name of a variable or a function       *)
(* (compiler.cc:349 and 360).  Beyond that another one is read; where that *)
(* is taken for a function with more or fewer upvalues, and only there,    *)
(* the pairs of a CLOSURE and all that follows are misread as well.        *)
ProgramIsRead == OperandsAreRead /\ JumpsArrive

(* What the repository says of a chunk's constants: there may be more than *)
(* 255 (README.md:22), and one too many is an error (codegen.cc:58).  So   *)
(* an instruction reads the constant it was written for, or a limit was    *)
(* reported.                                                               *)
ConstantsAreMeant ==
    \A k \in DOMAIN program : hadError \/ Execute(program[k].at).values = program[k].values

(* The disassembler shows the program that runs: at every instruction it   *)
(* prints the operands that the virtual machine would read, the target of  *)
(* a jump included, and goes on at the same offset (debug.cc:15-174).      *)
DisassemblerAgrees ==
    \A k \in DOMAIN program :
        DisassembleInstruction(program[k].at) = Execute(program[k].at)

-----------------------------------------------------------------------------
(* The inductive invariant (ChunkProofs).                                  *)

Operations == Simple \cup Constant \cup WithByte \cup Invokes \cup ForwardJumps
                \cup {"DEFINE_GLOBAL", "CLOSURE", "LOOP"}
Code == [op : Operations \cup {"data"}, byte : Byte]
Values == [kind : {"none", "name", "function"}, id : Nat, upvalues : 0 .. MaxUpvalues]
Instructions == [at : Nat, op : Operations, values : Seq(Values), bytes : Seq(Byte),
                 range : {UINT8_COUNT, Shorts}, target : Int]

TypeOK ==
    /\ code \in Seq(Code)
    /\ constants \in Seq(Values)
    /\ hadError \in BOOLEAN
    /\ global \in [value : Values, index : 0 .. Shorts - 1, range : {0, UINT8_COUNT, Shorts}]
    /\ family \in Families
    /\ program \in Seq(Instructions)

(* The bytes of an instruction.                                            *)
Size(p) ==
    CASE p.op \in Constant \cup {"DEFINE_GLOBAL", "LOOP"} \cup ForwardJumps -> 3
      [] p.op \in WithByte -> 2
      [] p.op \in Invokes -> 4
      [] p.op = "CLOSURE" -> 3 + Len(p.bytes)
      [] OTHER -> 1

End(p) == p.at + Size(p)

(* The instructions lie one behind the other, and fill the code.           *)
Tiled ==
    /\ Here <= family.length
    /\ \A k \in DOMAIN program :
        /\ End(program[k]) = IF k = Len(program) THEN Here ELSE program[k + 1].at
        /\ End(program[k]) <= Here
        /\ \A j \in 1 .. k - 1 : End(program[j]) <= program[k].at

(* The index of a value is that of its first place, if that is in range,   *)
(* and the index of some place in range otherwise.                         *)
IsIndex(all, value, index, range) ==
    /\ index < range
    /\ \E m \in DOMAIN all :
        /\ all[m] = value
        /\ \A i \in 1 .. m - 1 : all[i] # value
        /\ m <= range => index = m - 1

TakesConstant(op) == op \in Constant \cup Invokes \cup {"DEFINE_GLOBAL", "CLOSURE"}

ValuesWritten(p) ==
    IF TakesConstant(p.op)
    THEN /\ p.values = <<p.values[1]>> /\ p.values[1] \in Values
         /\ IsIndex(constants, p.values[1], ShortAt(p.at + 1), p.range)
    ELSE p.values = <<>>

BytesWritten(p) ==
    /\ p.op \in WithByte => p.bytes = BytesAt(p.at + 1, 1)
    /\ p.op \in Invokes => p.bytes = BytesAt(p.at + 3, 1)
    /\ p.op = "CLOSURE" =>
        /\ p.bytes = BytesAt(p.at + 3, Len(p.bytes))
        /\ Len(p.bytes) = 2 * p.values[1].upvalues
    /\ p.op \notin WithByte \cup Invokes \cup {"CLOSURE"} => p.bytes = <<>>

JumpWritten(p) ==
    /\ p.target = Pending => p.op \in ForwardJumps
    /\ IsJump(p) /\ p.target # Pending =>
        LET distance == p.target - (p.at + 3)
        IN  IF distance \in -(Shorts - 1) .. Shorts - 1
            THEN ShortAt(p.at + 1) = IF p.op = "LOOP" THEN -distance ELSE distance
            ELSE hadError

Written(p) == At(p.at).op = p.op /\ ValuesWritten(p) /\ BytesWritten(p) /\ JumpWritten(p)

GlobalIsKept ==
    global # NoGlobal =>
        /\ global.range # 0
        /\ IsIndex(constants, global.value, global.index, global.range)

Inv ==
    /\ TypeOK
    /\ Tiled
    /\ \A k \in DOMAIN program : Written(program[k])
    /\ GlobalIsKept
=============================================================================
