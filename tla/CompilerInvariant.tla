------------------------- MODULE CompilerInvariant --------------------------
(***************************************************************************)
(* What is true of module Compiler in every state, of each function being  *)
(* compiled and the rest of its work: the inductive invariant behind the   *)
(* theorems of CompilerProofs.                                             *)
(***************************************************************************)
EXTENDS Compiler

FunctionTypes == {"script", "function", "method", "initializer"}
Operations == Pushes \cup Pops \cup Keeps \cup Diverts \cup Calls
UpvalueOps == {"GET_UPVALUE", "SET_UPVALUE"}
GlobalOps == {"GET_GLOBAL", "SET_GLOBAL"}
LookUps == UpvalueOps \cup GlobalOps
VariableNames == Names \cup {"", "this", "super"}
Instructions == [op : Operations, arg : Int, name : VariableNames, h : Int]
Contexts ==
    [type : FunctionTypes, arity : Nat, locals : Seq(LocalRecords),
     upvalues : Seq(UpvalueRecords), scopeDepth : Nat,
     last_continue : Nat, last_break : Nat, last_scope_depth : Nat, enclosing_loop : Nat,
     code : Seq(Instructions), height : Int, visible : Seq(VariableNames)]
Finished ==
    [type : FunctionTypes, arity : Nat, upvalues : Seq(UpvalueRecords), code : Seq(Instructions)]

(* The kinds of task: of expressions, what comes behind an expression      *)
(* only, and the loops.                                                    *)
ExprTasks == {"expr", "emit", "andJump", "orJump", "superInvoke", "patch"}
AfterExprs == {"expr", "emit", "andJump", "orJump", "superInvoke", "define", "ifThen",
               "whileBody", "forExit", "forBody"}
LoopTasks == {"whileBody", "whileEnd", "forCond", "forExit", "forIter", "forBody", "forEnd"}
ForTasks == {"forCond", "forExit", "forIter", "forBody", "forEnd"}
LoopEnds == {"whileEnd", "forEnd"}

Emitted == {"POP", "PRINT", "RETURN", "UNARY", "BINARY", "CALL", "GET_PROPERTY",
            "SET_PROPERTY", "INVOKE"}
Loops ==
    [start : Nat, exit : Nat, body : Nat, base : Nat,
     saved : [continue : Nat, break : Nat, depth : Nat]]
Tasks ==
    [k : {"stats", "stat", "methods", "ifThen"}]
    \cup [k : {"expr", "andJump", "orJump"}, canAssign : BOOLEAN]
    \cup [k : {"emit"}, op : Emitted, arg : Nat]
    \cup [k : {"superInvoke"}, args : Nat]
    \cup [k : {"patch", "ifElse"}, jump : Nat]
    \cup [k : {"define"}, name : Names]
    \cup [k : {"endScope"}, base : Nat]
    \cup [k : {"endClass"}, base : Nat, hasSuperclass : BOOLEAN]
    \cup [k : LoopTasks, loop : Loops]
    \cup [k : {"endFunction"}, kind : {"script", "function", "method"}, name : Names \cup {""}]

(* What is true of a function's Context alone.  The local in the first     *)
(* slot is there as long as its function.                                  *)
Fine(c) ==
    /\ c \in Contexts
    /\ Len(c.locals) \in 1..UINT8_COUNT /\ Len(c.upvalues) <= UINT8_COUNT
    /\ c.locals[1].depth = 0
    /\ c.locals[1].name = IF c.type = "function" THEN "" ELSE "this"
    /\ c.last_break <= Len(c.code) /\ c.last_continue <= Len(c.code)

(* A variable waits to be defined: it is global, or a local after the      *)
(* first.                                                                  *)
CanDefine(c) == c.scopeDepth = 0 \/ Len(c.locals) > 1

(* The names that are visible when a block begins.                         *)
Based == LoopTasks \cup {"endScope", "endClass"}
Base(t) == IF t.k \in LoopTasks THEN t.loop.base ELSE t.base

(* Task t may come before task x: an expression before what waits for its  *)
(* value, an inner block before an outer one.                              *)
Before(t, x) ==
    /\ t.k # "endFunction"
    /\ x.k \notin {"methods", "forIter"}
    /\ x.k \in AfterExprs => t.k \in ExprTasks
    /\ x.k = "forCond" => t.k \in ExprTasks \cup {"define"}
    /\ x.k = "endClass" => t.k = "methods"
    /\ t.k \in Based /\ x.k \in Based => Base(x) <= Base(t)

(* The tasks that end a scope, and those that end a loop.                  *)
ScopeTasks == {t \in Tasks : \/ t.k \in ForTasks \cup {"endScope"}
                             \/ t.k = "endClass" /\ t.hasSuperclass}
LoopEndTasks == {t \in Tasks : t.k \in LoopEnds}
Marked(w, K) == {i \in 1..Len(w) : w[i] \in K}
Outermost(c) == IF c.type = "script" THEN 0 ELSE 1
Counted(c, w) ==
    /\ c.scopeDepth = Outermost(c) + Cardinality(Marked(w, ScopeTasks))
    /\ c.enclosing_loop = Cardinality(Marked(w, LoopEndTasks))

(* What a task refers to exists in its function.                           *)
Fits(c, t) ==
    /\ t.k \in {"patch", "ifElse"} => t.jump \in 1..Len(c.code)
    /\ t.k = "define" => CanDefine(c)
    /\ t.k \in Based => Base(t) <= Len(c.visible)
    /\ t.k = "forBody" => t.loop.body > 0
    /\ t.k \in LoopTasks =>
        /\ t.loop.start <= Len(c.code) /\ t.loop.exit <= Len(c.code)
        /\ t.loop.body <= Len(c.code)
        /\ t.loop.saved.break <= Len(c.code) /\ t.loop.saved.continue <= Len(c.code)

(* Where continue leads is the start of a loop that is still open, and so  *)
(* for what the end of a loop restores.                                    *)
StartsAt(t, position) ==
    \/ t.k \in {"whileBody", "whileEnd", "forEnd"} /\ t.loop.start = position
    \/ t.k = "forBody" /\ t.loop.body = position
OpenLoop(w, n, position) ==
    position = 0 \/ \E k \in n + 1..Len(w) : StartsAt(w[k], position)

(* The work left of a function, whose end is the last of it.               *)
Pending(c, w) ==
    /\ w \in Seq(Tasks) /\ w # <<>> /\ Last(w).k = "endFunction"
    /\ \A k \in 1..Len(w) : \A i \in 1..k - 1 : Before(w[i], w[k])
    /\ \A i \in 1..Len(w) : Fits(c, w[i])
    /\ \A i \in 1..Len(w) : w[i].k \in LoopTasks => OpenLoop(w, i, w[i].loop.saved.continue)

(* A jump has a target, or it is among those a task will patch.            *)
JumpsOf(t) ==
    CASE t.k \in {"patch", "ifElse"} -> {t.jump}
      [] t.k \in {"forIter", "forEnd", "whileEnd"} -> {t.loop.exit}
      [] t.k = "forBody" -> {t.loop.exit, t.loop.body}
      [] OTHER -> {}
JumpsIn(w) == UNION {JumpsOf(w[k]) : k \in 1..Len(w)}
WaitFor(c, jumps) ==
    \A i \in 1..Len(c.code) :
        IsJump(c.code[i]) => c.code[i].arg \in 0..Len(c.code) \/ i \in jumps

Compiling(c, w) ==
    /\ Fine(c) /\ Pending(c, w) /\ Counted(c, w)
    /\ OpenLoop(w, 0, c.last_continue)
    /\ Without({"break"}) => WaitFor(c, JumpsIn(w))

Settings ==
    /\ error \in Errors /\ currentClass \in Seq(BOOLEAN)
    /\ family \in Families /\ budget \in 0..MaxNodes
    /\ contexts \in Seq(Contexts) /\ todo \in Seq(Seq(Tasks)) /\ functions \in Seq(Finished)

(* Which function is inside of which: the script is the outermost; a       *)
(* function waits for its declaration, a method for its class.             *)
Inside ==
    /\ Len(todo) = Len(contexts)
    /\ \A j \in 1..Len(contexts) :
        LET kind == Last(todo[j]).kind IN
        /\ kind = "script" <=> j = 1
        /\ contexts[j].type = "script" <=> j = 1
        /\ kind = "method" <=> contexts[j].type \in {"method", "initializer"}
        /\ kind = "function" => CanDefine(contexts[j - 1]) /\ Last(todo[j]).name \in Names
        /\ kind = "method" <=> j > 1 /\ Head(todo[j - 1]).k = "methods"
        /\ kind = "function" <=> j > 1 /\ Head(todo[j - 1]).k = "stats"

Inv ==
    /\ Settings /\ Inside
    /\ \A j \in 1..Len(contexts) : Compiling(contexts[j], todo[j])
    /\ JumpsPatched
=============================================================================
