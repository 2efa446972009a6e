------------------------------ MODULE MCChunk ------------------------------
(* Finite instances of Chunk: the opcodes programs are made of, and the    *)
(* length of their code.                                                   *)
EXTENDS Chunk

Family(opcodes, length) == [opcodes |-> opcodes, length |-> length]

Plain == Family(Simple, 2)
Operands == Family(Constant \cup
    {"NIL", "GET_LOCAL", "SET_LOCAL", "GET_UPVALUE", "SET_UPVALUE", "CALL", "INVOKE",
     "SUPER_INVOKE", "CLOSURE", "DEFINE_GLOBAL", "JUMP", "JUMP_IF_FALSE", "LOOP"}, 6)
Jumps == Family({"POP", "JUMP", "LOOP", "JUMP_IF_FALSE"}, 10)
Constants == Family({"CONSTANT", "DEFINE_GLOBAL"}, 15)
Closures == Family({"CLOSURE", "JUMP", "LOOP"}, 12)

(* A global variable for each of the first constants.                      *)
ManyNames == {Family({"DEFINE_GLOBAL", "CONSTANT"}, 9)}

Programs == {Plain, Operands, Jumps, Constants, Closures}
=============================================================================
