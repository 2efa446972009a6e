------------------------------ MODULE Compiler ------------------------------
(***************************************************************************)
(* The code generator of alox-cc: compiler.cc walks the AST of a program   *)
(* and writes bytecode through codegen.cc, keeping one Context             *)
(* (context.hh) per function being compiled.                               *)
(*                                                                         *)
(* The AST is not a constant.  Its nodes are chosen while it is walked:    *)
(* wherever the code looks at the type of a node, an action exists for     *)
(* each type the parser can have put there, as long as `budget' lasts.     *)
(* The C++ call stack of the walk is `todo': of each function being        *)
(* compiled the rest of the work, next task first.  A behaviour is         *)
(* therefore the compilation of one program, and the state graph that of   *)
(* every program of the families.                                          *)
(*                                                                         *)
(* Instructions are counted in instructions, not in bytes: `arg' of a jump *)
(* is the position (from 0) it leads to.  Two history variables are kept   *)
(* beside the code's own state: the height of the value stack above the    *)
(* frame's slots at each instruction, as the VM's handlers move it, and    *)
(* the names a reader of the program sees in scope.                        *)
(***************************************************************************)
EXTENDS Integers, SequencesExt, FiniteSetsExt

CONSTANTS
    UINT8_COUNT,   \* limit of locals and of upvalues per function (common.hh)
    Names,         \* the identifiers of programs
    Families       \* bound: the families of programs to compile

AllSyntax == {"var", "fun", "class", "inherit", "method", "block", "print", "exprStatement",
              "return", "if", "while", "for", "forExpr", "break", "continue",
              "name", "this", "super", "unary", "binary", "logic", "assign",
              "target", "call", "dot"}

(* A family of programs is bounded by the kinds of node they are made of,  *)
(* their identifiers, the number of nodes other than leaves, and that of   *)
(* the arguments of a call and the parameters of a function.               *)
ASSUME CompilerAssumption ==
    /\ {"", "this", "super"} \cap Names = {}
    /\ UINT8_COUNT \in Nat \ {0, 1}
    /\ \A f \in Families :
        /\ f.syntax \subseteq AllSyntax /\ f.names \subseteq Names
        /\ f.nodes \in Nat /\ f.arguments \in Nat

VARIABLES
    contexts,      \* the Contexts from the script's to `current', which is last
    currentClass,  \* hasSuperclass of each ClassContext, innermost last
    error,         \* the first error reported: panicMode keeps back the others
    functions,     \* the ObjFunctions finished so far
    todo,          \* for each Context the tasks left of its walk, the next one first
    budget,        \* AST nodes the program may still grow by
    family         \* the family the program is of

vars == <<contexts, currentClass, error, functions, todo, budget, family>>

Syntax == family.syntax
Identifiers == family.names
MaxNodes == family.nodes
MaxArgs == family.arguments

NoError == "none"
DEAD == -1         \* height of code that no path reaches
UNPATCHED == -1    \* target of a jump that emitJump left open
NONE == 0          \* exitJump == -1 of forStatement: no condition

-----------------------------------------------------------------------------
(* Code generation.  The operators take and return the part of the         *)
(* compiler that helpers change: the contexts and the error manager.       *)

Now == [contexts |-> contexts, error |-> error]
Current(s) == Last(s.contexts)
Update(s, c) == [s EXCEPT !.contexts = Append(Front(@), c)]
FailIf(s, condition, what) ==
    [s EXCEPT !.error = IF condition /\ @ = NoError THEN what ELSE @]

(* How far each instruction moves the top of the value stack (VM::run).    *)
Pushes == {"CONSTANT", "NIL", "GET_LOCAL", "GET_UPVALUE", "GET_GLOBAL", "CLOSURE", "CLASS"}
Pops == {"POP", "CLOSE_UPVALUE", "DEFINE_GLOBAL", "PRINT", "METHOD", "INHERIT",
         "BINARY", "SET_PROPERTY", "GET_SUPER"}
Keeps == {"SET_LOCAL", "SET_UPVALUE", "SET_GLOBAL", "UNARY", "GET_PROPERTY", "JUMP_IF_FALSE"}
Diverts == {"JUMP", "LOOP", "RETURN"}
Calls == {"CALL", "INVOKE", "SUPER_INVOKE"}

Effect(op, arg) ==
    CASE op \in Pushes -> 1
      [] op \in Pops -> -1
      [] op \in Keeps -> 0
      [] op \in {"CALL", "INVOKE"} -> -arg
      [] op = "SUPER_INVOKE" -> -(arg + 1)

After(op, arg, h) == IF h = DEAD \/ op \in Diverts THEN DEAD ELSE h + Effect(op, arg)

(* emitByte, emitBytes, emitByteConst; `name' is the source's name of a    *)
(* variable, for the properties only.                                      *)
EmitNamed(s, op, arg, name) ==
    LET c == Current(s) IN
    Update(s, [c EXCEPT !.code = Append(@, [op |-> op, arg |-> arg, name |-> name, h |-> c.height]),
                        !.height = After(op, arg, @)])

Emit(s, op, arg) == EmitNamed(s, op, arg, "")

Position(s) == Len(Current(s).code)
EmitJump(s, op) == Emit(s, op, UNPATCHED)       \* its jump is Position of the result
EmitLoop(s, start) == Emit(s, "LOOP", start)

(* patchJump: the jump leads here, and brings its stack height along.      *)
PatchJump(s, jump) ==
    LET c == Current(s) IN
    Update(s, [c EXCEPT !.code[jump].arg = Len(c.code),
                        !.height = IF @ = DEAD THEN c.code[jump].h ELSE @])

EmitReturn(s) ==
    Emit(IF Current(s).type = "initializer" THEN Emit(s, "GET_LOCAL", 0) ELSE Emit(s, "NIL", 0),
         "RETURN", 0)

-----------------------------------------------------------------------------
(* Contexts, scopes and variables.                                         *)

(* Mutant: only an initializer has `this' in its first slot.               *)
NewContextWithoutThis(type) ==
    LET self == IF type = "initializer" THEN "this" ELSE "" IN
    [type |-> type, arity |-> 0,
     locals |-> <<[name |-> self, depth |-> 0, captured |-> FALSE]>>,
     upvalues |-> <<>>, scopeDepth |-> 0,
     last_continue |-> 0, last_break |-> 0, last_scope_depth |-> 0, enclosing_loop |-> 0,
     code |-> <<>>, height |-> 1, visible |-> <<self>>]

NewContext(type) ==
    LET self == IF type = "function" THEN "" ELSE "this" IN
    [type |-> type, arity |-> 0,
     locals |-> <<[name |-> self, depth |-> 0, captured |-> FALSE]>>,
     upvalues |-> <<>>, scopeDepth |-> 0,
     last_continue |-> 0, last_break |-> 0, last_scope_depth |-> 0, enclosing_loop |-> 0,
     code |-> <<>>, height |-> 1, visible |-> <<self>>]

InitCompiler(s, type) == [s EXCEPT !.contexts = Append(@, NewContext(type))]

BeginScope(s) == Update(s, [Current(s) EXCEPT !.scopeDepth = @ + 1])

(* Mutants of adjust_locals: no instruction for a dropped local; locals of *)
(* the scope that goes on are dropped too.                                 *)
AdjustLocalsSilently(s, depth) ==
    LET c == Current(s)
        keep == Max({0} \cup {i \in 1..Len(c.locals) : c.locals[i].depth <= depth})
    IN  Update(s, [c EXCEPT !.locals = SubSeq(@, 1, keep)])

AdjustLocalsTooFar(s, depth) ==
    LET c == Current(s)
        keep == Max({1} \cup {i \in 1..Len(c.locals) : c.locals[i].depth < depth})
    IN  Update(s, [c EXCEPT !.locals = SubSeq(@, 1, keep)])

(* adjust_locals: drop the locals above the last one of a scope no deeper  *)
(* than depth, each by the instruction that ends its life.                 *)
AdjustLocals(s, depth) ==
    LET c == Current(s)
        count == Len(c.locals)
        keep == Max({0} \cup {i \in 1..count : c.locals[i].depth <= depth})
        drop(i) == [op |-> IF c.locals[count + 1 - i].captured THEN "CLOSE_UPVALUE" ELSE "POP",
                    arg |-> 0, name |-> "",
                    h |-> IF c.height = DEAD THEN DEAD ELSE c.height + 1 - i]
    IN  Update(s, [c EXCEPT !.locals = SubSeq(@, 1, keep),
                            !.code = @ \o [i \in 1..(count - keep) |-> drop(i)],
                            !.height = IF @ = DEAD THEN DEAD ELSE @ - (count - keep)])

(* Mutant: endScope leaves the locals to the enclosing scope.              *)
EndScopeKeepsLocals(s, base) ==
    Update(s, [Current(s) EXCEPT !.scopeDepth = @ - 1, !.visible = SubSeq(@, 1, base)])

(* endScope; base is the number of names visible when the scope began.     *)
EndScope(s, base) ==
    LET outer == Current(s).scopeDepth - 1
        t == Update(s, [Current(s) EXCEPT !.scopeDepth = outer,
                                          !.visible = SubSeq(@, 1, base)])
    IN  AdjustLocals(t, outer)

(* Mutant: the limit is noticed one local too late.                        *)
AddLocalPastLimit(s, name) ==
    LET c == Current(s) IN
    IF Len(c.locals) > UINT8_COUNT
    THEN FailIf(s, TRUE, "Too many local variables")
    ELSE Update(s, [c EXCEPT !.locals = Append(@, [name |-> name, depth |-> -1, captured |-> FALSE]),
                             !.visible = Append(@, name)])

AddLocal(s, name) ==
    LET c == Current(s) IN
    IF Len(c.locals) = UINT8_COUNT
    THEN FailIf(s, TRUE, "Too many local variables")
    ELSE Update(s, [c EXCEPT !.locals = Append(@, [name |-> name, depth |-> -1, captured |-> FALSE]),
                             !.visible = Append(@, name)])

(* The local at i is of the scope being compiled, as declareVariable sees. *)
InThisScope(c, i) ==
    \A j \in i..Len(c.locals) : c.locals[j].depth = -1 \/ c.locals[j].depth >= c.scopeDepth

DeclareVariable(s, name) ==
    LET c == Current(s)
        redeclared == \E i \in 1..Len(c.locals) : InThisScope(c, i) /\ c.locals[i].name = name
    IN  IF c.scopeDepth = 0 THEN s
        ELSE AddLocal(FailIf(s, redeclared, "Already a variable with this name"), name)

MarkInitialized(s) ==
    LET c == Current(s) IN
    IF c.scopeDepth = 0 THEN s
    ELSE Update(s, [c EXCEPT !.locals[Len(c.locals)].depth = c.scopeDepth])

DefineVariable(s, name) ==
    IF Current(s).scopeDepth > 0 THEN MarkInitialized(s)
    ELSE EmitNamed(s, "DEFINE_GLOBAL", 0, name)

(* Mutant: an outer variable wins over the one that shadows it.            *)
ResolveLocalOutermost(c, name) ==
    LET named == {i \in 1..Len(c.locals) : c.locals[i].name = name} IN
    IF named = {} THEN 0 ELSE Min(named)

(* resolveLocal: the slot, counted from 1, of the last local so named; 0   *)
(* when there is none.                                                     *)
ResolveLocal(c, name) ==
    Max({0} \cup {i \in 1..Len(c.locals) : c.locals[i].name = name})

AddUpvalue(upvalues, index, isLocal) ==
    LET u == [index |-> index, isLocal |-> isLocal]
        same == {i \in 1..Len(upvalues) : upvalues[i] = u}
        full == same = {} /\ Len(upvalues) = UINT8_COUNT
    IN  [at |-> CASE same # {} -> Min(same) - 1 [] full -> 0 [] OTHER -> Len(upvalues),
         upvalues |-> IF same # {} \/ full THEN upvalues ELSE Append(upvalues, u),
         full |-> full]

(* The variable that Context `owner' declares comes down to the current    *)
(* function one upvalue per function in between.                           *)
Links(s, owner, name) ==
    LET slot == ResolveLocal(s.contexts[owner], name)
        link[j \in owner + 1..Len(s.contexts)] ==
            AddUpvalue(s.contexts[j].upvalues,
                       IF j = owner + 1 THEN slot - 1 ELSE link[j - 1].at,
                       j = owner + 1)
    IN  link

(* Mutant: the captured local is not marked.                               *)
ResolveUpvalueUnmarked(s, owner, name) ==
    LET n == Len(s.contexts)
        link == Links(s, owner, name)
        linked(j) == IF j <= owner THEN s.contexts[j]
                     ELSE [s.contexts[j] EXCEPT !.upvalues = link[j].upvalues]
    IN  [s |-> [s EXCEPT !.contexts = [j \in 1..n |-> linked(j)]], at |-> link[n].at]

(* resolveUpvalue once a Context `owner' declares the name.                *)
ResolveUpvalue(s, owner, name) ==
    LET n == Len(s.contexts)
        slot == ResolveLocal(s.contexts[owner], name)
        link == Links(s, owner, name)
        linked(j) ==
            CASE j < owner -> s.contexts[j]
              [] j = owner -> [s.contexts[j] EXCEPT !.locals[slot].captured = TRUE]
              [] OTHER -> [s.contexts[j] EXCEPT !.upvalues = link[j].upvalues]
        uninitialized == s.contexts[owner].locals[slot].depth = -1
        t == FailIf(s, uninitialized, "Can't read local variable in its own initializer")
    IN  [s |-> [FailIf(t, \E j \in owner + 1..n : link[j].full, "Too many closure variables")
                    EXCEPT !.contexts = [j \in 1..n |-> linked(j)]],
         at |-> link[n].at]

NamedVariable(s, name, canAssign) ==
    LET c == Current(s)
        slot == ResolveLocal(c, name)
        owner == Max({0} \cup {j \in 1..Len(s.contexts) - 1 :
                                  ResolveLocal(s.contexts[j], name) # 0})
        found == ResolveUpvalue(s, owner, name)
        verb(get, set) == IF canAssign THEN set ELSE get
    IN  IF slot # 0 THEN
            EmitNamed(FailIf(s, c.locals[slot].depth = -1,
                             "Can't read local variable in its own initializer"),
                      verb("GET_LOCAL", "SET_LOCAL"), slot - 1, name)
        ELSE IF owner # 0 THEN
            EmitNamed(found.s, verb("GET_UPVALUE", "SET_UPVALUE"), found.at, name)
        ELSE
            EmitNamed(s, verb("GET_GLOBAL", "SET_GLOBAL"), 0, name)

(* save_break_context's tuple, and restore_break_context.                  *)
BreakContext(c) == [continue |-> c.last_continue, break |-> c.last_break,
                    depth |-> c.last_scope_depth]
NoRestore(s, saved) == s        \* mutant
Restore(s, saved) ==
    Update(s, [Current(s) EXCEPT !.last_continue = saved.continue,
                                 !.last_break = saved.break,
                                 !.last_scope_depth = saved.depth])

-----------------------------------------------------------------------------
(* The walk.  A task names the code that runs when it is reached, with the *)
(* C++ locals that code needs.                                             *)

Task(kind) == [k |-> kind]
Expr == [k |-> "expr", canAssign |-> FALSE]
Target(canAssign) == [k |-> "expr", canAssign |-> canAssign]
Then(op, arg) == [k |-> "emit", op |-> op, arg |-> arg]
Patch(jump) == [k |-> "patch", jump |-> jump]
Define(name) == [k |-> "define", name |-> name]
Scope(base) == [k |-> "endScope", base |-> base]
Class(base, hasSuperclass) == [k |-> "endClass", base |-> base, hasSuperclass |-> hasSuperclass]
Loop(kind, loop) == [k |-> kind, loop |-> loop]
Function(kind, name) == [k |-> "endFunction", kind |-> kind, name |-> name]
Arguments(n) == [i \in 1..n |-> Expr]

Visible(s) == Len(Current(s).visible)

(* One step of the walk: the state becomes s, and `tasks' come before the  *)
(* rest of the current function's work; Descend begins another function's. *)
Work == Last(todo)
Becomes(s) == contexts' = s.contexts /\ error' = s.error /\ UNCHANGED family
Walk(s, tasks, rest) == Becomes(s) /\ todo' = Append(Front(todo), tasks \o rest)
Descend(s, tasks) ==
    Becomes(s) /\ todo' = Append(todo, tasks) /\ UNCHANGED <<currentClass, functions>>

Doing(kind) == todo # <<>> /\ Head(Work).k = kind
Continue(s, tasks) ==      \* the task at the head is done
    /\ Walk(s, tasks, Tail(Work))
    /\ UNCHANGED <<currentClass, functions, budget>>

(* A node of this kind is next in the program.                             *)
Node(kind) == kind \in Syntax /\ budget > 0 /\ budget' = budget - 1

(* A statement without statements inside it; it is free where there must   *)
(* be one.                                                                 *)
SimpleNode(kind) ==
    \/ Doing("stats") /\ Node(kind)
    \/ Doing("stat") /\ kind \in Syntax /\ UNCHANGED budget

(* Where statement() is called: on each item of a block, until it ends,    *)
(* and on the one statement of a branch or of a loop.                      *)
AtStatement == Doing("stats") \/ Doing("stat")
Statement(s, tasks) ==
    /\ Walk(s, tasks, IF Doing("stats") THEN Work ELSE Tail(Work))
    /\ UNCHANGED <<currentClass, functions>>

EndOfBlock == Doing("stats") /\ Continue(Now, <<>>)

-----------------------------------------------------------------------------
(* Declarations.                                                           *)

VarDeclaration ==
    /\ Doing("stats") /\ Node("var")
    /\ \E x \in Identifiers :
        LET s == DeclareVariable(Now, x) IN
        \/ Statement(s, <<Expr, Define(x)>>)
        \/ Statement(DefineVariable(Emit(s, "NIL", 0), x), <<>>)

EndDeclaration == Doing("define") /\ Continue(DefineVariable(Now, Head(Work).name), <<>>)

(* The first half of function(): parameters up to the body.                *)
BeginFunction(s, type, parameters) ==
    LET n == Len(parameters)
        declare[i \in 0..n] ==
            IF i = 0 THEN BeginScope(InitCompiler(s, type))
            ELSE DefineVariable(DeclareVariable(declare[i - 1], parameters[i]), parameters[i])
    IN  Update(declare[n], [Current(declare[n]) EXCEPT !.arity = n, !.height = n + 1])

Parameters == UNION {[1..n -> Identifiers] : n \in 0..MaxArgs}

FunDeclaration ==
    /\ Doing("stats") /\ Node("fun")
    /\ \E x \in Identifiers, parameters \in Parameters :
        LET s == MarkInitialized(DeclareVariable(Now, x)) IN
        Descend(BeginFunction(s, "function", parameters),
                <<Task("stats"), Function("function", x)>>)

(* endCompiler and the second half of function(), then what the caller     *)
(* does with the closure: define the function's name or add the method.    *)
EndFunction ==
    /\ Doing("endFunction")
    /\ LET task == Head(Work)
           s == EmitReturn(Now)
           c == Current(s)
           outer == [s EXCEPT !.contexts = Front(@)]
           made == Emit(outer, "CLOSURE", Len(functions) + 1)
       IN  /\ functions' = Append(functions, [type |-> c.type, arity |-> c.arity,
                                              upvalues |-> c.upvalues, code |-> c.code])
           /\ Becomes(CASE task.kind = "script" -> outer
                        [] task.kind = "function" -> DefineVariable(made, task.name)
                        [] task.kind = "method" -> Emit(made, "METHOD", 0))
    /\ todo' = Front(todo)
    /\ UNCHANGED <<currentClass, budget>>

(* classDeclaration up to its methods.  The superclass is a local named    *)
(* "super" of a scope around them.                                         *)
ClassDeclaration ==
    /\ Doing("stats") /\ Node("class")
    /\ \E x \in Identifiers, inherits \in {FALSE, TRUE} :
        \E y \in IF inherits THEN Identifiers \ {x} ELSE {x} :
        LET declared == Emit(DeclareVariable(Now, x), "CLASS", 0)
            defined == DefineVariable(declared, x)
            super == BeginScope(NamedVariable(defined, y, FALSE))
            scoped == MarkInitialized(AddLocal(super, "super"))
            s == IF inherits THEN Emit(NamedVariable(scoped, x, FALSE), "INHERIT", 0) ELSE defined
        IN  /\ inherits => "inherit" \in Syntax
            /\ Walk(NamedVariable(s, x, FALSE),
                    <<Task("methods"), Class(Visible(defined), inherits)>>, Work)
            /\ currentClass' = Append(currentClass, inherits)
    /\ UNCHANGED functions

Method ==
    /\ Doing("methods") /\ Node("method")
    /\ \E type \in {"method", "initializer"}, parameters \in Parameters :
        Descend(BeginFunction(Now, type, parameters),
                <<Task("stats"), Function("method", "")>>)

EndOfMethods == Doing("methods") /\ Continue(Now, <<>>)

EndClass ==
    /\ Doing("endClass")
    /\ LET s == Emit(Now, "POP", 0) IN
        Walk(IF Head(Work).hasSuperclass THEN EndScope(s, Head(Work).base) ELSE s,
             <<>>, Tail(Work))
    /\ currentClass' = Front(currentClass)
    /\ UNCHANGED <<functions, budget>>
-----------------------------------------------------------------------------
(* Statements.                                                             *)

PrintStatement ==
    /\ SimpleNode("print")
    /\ Statement(Now, <<Expr, Then("PRINT", 0)>>)

ExprStatement ==
    /\ SimpleNode("exprStatement")
    /\ Statement(Now, <<Expr, Then("POP", 0)>>)

Block ==
    /\ AtStatement /\ Node("block")
    /\ Statement(BeginScope(Now), <<Task("stats"), Scope(Visible(Now))>>)

EndBlock == Doing("endScope") /\ Continue(EndScope(Now, Head(Work).base), <<>>)

ReturnStatement ==
    /\ SimpleNode("return")
    /\ LET type == Current(Now).type
           s == FailIf(Now, type = "script", "Can't return from top-level code")
       IN  \/ Statement(EmitReturn(s), <<>>)
           \/ Statement(FailIf(s, type = "initializer", "Can't return a value from an initializer"),
                        <<Expr, Then("RETURN", 0)>>)

IfStatement ==
    /\ AtStatement /\ Node("if")
    /\ Statement(Now, <<Expr, Task("ifThen")>>)

IfThen ==
    /\ Doing("ifThen")
    /\ LET s == EmitJump(Now, "JUMP_IF_FALSE") IN
        Continue(Emit(s, "POP", 0),
                 <<Task("stat"), [k |-> "ifElse", jump |-> Position(s)]>>)

(* Mutants: the condition is popped on one path only; the jump over the    *)
(* else branch is forgotten.                                               *)
IfElseUnpopped ==
    /\ Doing("ifElse")
    /\ LET s == EmitJump(Now, "JUMP")
           t == PatchJump(s, Head(Work).jump)
       IN  \/ Continue(t, <<Task("stat"), Patch(Position(s))>>)
           \/ Continue(PatchJump(t, Position(s)), <<>>)

IfElseUnpatched ==
    /\ Doing("ifElse")
    /\ LET t == Emit(PatchJump(EmitJump(Now, "JUMP"), Head(Work).jump), "POP", 0) IN
        \/ Continue(t, <<Task("stat")>>)
        \/ Continue(t, <<>>)

(* After the then branch: over an else branch, or with none.               *)
IfElse ==
    /\ Doing("ifElse")
    /\ LET s == EmitJump(Now, "JUMP")
           elseJump == Position(s)
           t == Emit(PatchJump(s, Head(Work).jump), "POP", 0)
       IN  \/ Continue(t, <<Task("stat"), Patch(elseJump)>>)
           \/ Continue(PatchJump(t, elseJump), <<>>)

(* A loop in progress: where it starts again, the jump out of it, and what *)
(* to restore behind it.                                                   *)
NewLoop(s, start) ==
    [start |-> start, exit |-> NONE, body |-> NONE,
     saved |-> BreakContext(Current(s)), base |-> Visible(s)]
SaveBreakContext(s) ==
    Update(s, [Current(s) EXCEPT !.last_scope_depth = Current(s).scopeDepth])
ContinueAt(s, position) == Update(s, [Current(s) EXCEPT !.last_continue = position])
Enclose(s, change) == Update(s, [Current(s) EXCEPT !.enclosing_loop = @ + change])

WhileStatement ==
    /\ AtStatement /\ Node("while")
    /\ Statement(ContinueAt(SaveBreakContext(Now), Position(Now)),
                 <<Expr, Loop("whileBody", NewLoop(Now, Position(Now)))>>)

WhileBody ==
    /\ Doing("whileBody")
    /\ LET s == EmitJump(Now, "JUMP_IF_FALSE") IN
        Continue(Enclose(Emit(s, "POP", 0), 1),
                 <<Task("stat"), Loop("whileEnd", [Head(Work).loop EXCEPT !.exit = Position(s)])>>)

PatchBreak(s) ==
    LET jump == Current(s).last_break IN
    IF jump = 0 THEN s
    ELSE Update(PatchJump(s, jump), [Current(PatchJump(s, jump)) EXCEPT !.last_break = 0])

(* The end of both loops: back to the start, the exit of the condition and *)
(* of a break.                                                             *)
CloseLoop(s, loop) ==
    LET t == EmitLoop(Enclose(s, -1), loop.start) IN
    Restore(IF loop.exit = NONE THEN t
            ELSE Emit(PatchBreak(PatchJump(t, loop.exit)), "POP", 0),
            loop.saved)

WhileEnd == Doing("whileEnd") /\ Continue(CloseLoop(Now, Head(Work).loop), <<>>)

(* The scope of a for statement begins before its break context is saved.  *)
ForStatement ==
    /\ AtStatement /\ Node("for")
    /\ LET s == SaveBreakContext(BeginScope(Now))
           cond == Loop("forCond", [NewLoop(BeginScope(Now), 0) EXCEPT !.base = Visible(Now)])
       IN  \/ Statement(s, <<cond>>)
           \/ "forExpr" \in Syntax /\ Statement(s, <<Expr, cond>>)
           \/ "var" \in Syntax /\ \E x \in Identifiers :
                \/ Statement(DeclareVariable(s, x), <<Expr, Define(x), cond>>)
                \/ Statement(DefineVariable(Emit(DeclareVariable(s, x), "NIL", 0), x), <<cond>>)

ForCondition ==
    /\ Doing("forCond")
    /\ LET loop == [Head(Work).loop EXCEPT !.start = Position(Now)] IN
        \/ Continue(Now, <<Loop("forIter", loop)>>)
        \/ Continue(Now, <<Expr, Loop("forExit", loop)>>)

ForExit ==
    /\ Doing("forExit")
    /\ LET s == EmitJump(Now, "JUMP_IF_FALSE") IN
        Continue(Emit(s, "POP", 0),
                 <<Loop("forIter", [Head(Work).loop EXCEPT !.exit = Position(s)])>>)

ForBody(loop) == <<Task("stat"), Loop("forEnd", loop)>>

(* The iteration is compiled before the body.  It is reached from the      *)
(* body's end only, so its stack height is the one the body starts with.   *)
ForIteration ==
    /\ Doing("forIter")
    /\ LET loop == Head(Work).loop
           s == EmitJump(Now, "JUMP")
           t == Update(s, [Current(s) EXCEPT !.height = Current(Now).height])
       IN  \/ Continue(Enclose(Now, 1), ForBody(loop))
           \/ Continue(ContinueAt(t, Position(s)),
                       <<Expr, Loop("forBody", [loop EXCEPT !.body = Position(s)])>>)

(* Mutant: the body of a loop with an iteration is not counted as one.     *)
ForIteratedUncounted ==
    /\ Doing("forBody")
    /\ LET loop == Head(Work).loop
           s == PatchJump(EmitLoop(Emit(Now, "POP", 0), loop.start), loop.body)
       IN  Continue(s, ForBody([loop EXCEPT !.start = loop.body]))

ForIterated ==
    /\ Doing("forBody")
    /\ LET loop == Head(Work).loop
           s == PatchJump(EmitLoop(Emit(Now, "POP", 0), loop.start), loop.body)
       IN  Continue(Enclose(s, 1), ForBody([loop EXCEPT !.start = loop.body]))

ForEnd ==
    /\ Doing("forEnd")
    /\ LET loop == Head(Work).loop IN
        Continue(EndScope(CloseLoop(Now, loop), loop.base), <<>>)

NotInLoop(s) == FailIf(s, Current(s).enclosing_loop = 0, "must be used in a loop")

BreakStatement ==
    /\ SimpleNode("break")
    /\ LET s == NotInLoop(Now)
           t == EmitJump(AdjustLocals(s, Current(s).scopeDepth), "JUMP")
       IN  Statement(Update(t, [Current(t) EXCEPT !.last_break = Position(t)]), <<>>)

ContinueStatement ==
    /\ SimpleNode("continue")
    /\ LET s == NotInLoop(Now)
           c == Current(s)
           t == EmitLoop(AdjustLocals(s, c.last_scope_depth), c.last_continue)
       IN  Statement(IF c.last_continue = 0 THEN s ELSE ContinueAt(t, 0), <<>>)

-----------------------------------------------------------------------------
(* Expressions.  canAssign makes the names inside an assignment's target   *)
(* store instead of load; the parser lets any expression be one.           *)

AtExpr == Doing("expr")
CanAssign == Head(Work).canAssign
TargetOf(kind) == CanAssign => kind = "name" \/ "target" \in Syntax
Leaf(kind) == AtExpr /\ TargetOf(kind) /\ UNCHANGED budget
Compound(kind) == AtExpr /\ TargetOf(kind) /\ Node(kind)
Evaluate(s, tasks) == Walk(s, tasks, Tail(Work)) /\ UNCHANGED <<currentClass, functions>>

Literal == Leaf("literal") /\ Evaluate(Emit(Now, "CONSTANT", 0), <<>>)

Variable ==
    /\ Leaf("name") /\ "name" \in Syntax
    /\ \E x \in Identifiers : Evaluate(NamedVariable(Now, x, CanAssign), <<>>)

This ==
    /\ Leaf("this") /\ "this" \in Syntax
    /\ IF currentClass = <<>>
       THEN Evaluate(FailIf(Now, TRUE, "Can't use 'this' outside of a class"), <<>>)
       ELSE Evaluate(NamedVariable(Now, "this", FALSE), <<>>)

(* super_: the superclass is looked up last, on top of receiver and        *)
(* arguments.                                                              *)
Super ==
    /\ Compound("super")
    /\ LET s == FailIf(Now, currentClass = <<>> \/ ~Last(currentClass),
                       "Can't use 'super' here")
           this == NamedVariable(s, "this", FALSE)
       IN  \/ Evaluate(Emit(NamedVariable(this, "super", FALSE), "GET_SUPER", 0), <<>>)
           \/ \E n \in 0..MaxArgs :
                Evaluate(this, Append(Arguments(n), [k |-> "superInvoke", args |-> n]))

SuperInvoke ==
    /\ Doing("superInvoke")
    /\ Continue(Emit(NamedVariable(Now, "super", FALSE), "SUPER_INVOKE", Head(Work).args), <<>>)

Unary == Compound("unary") /\ Evaluate(Now, <<Target(CanAssign), Then("UNARY", 0)>>)

Binary ==
    /\ Compound("binary")
    /\ Evaluate(Now, <<Target(CanAssign), Target(CanAssign), Then("BINARY", 0)>>)

Logic ==
    /\ Compound("logic")
    /\ \E jump \in {"andJump", "orJump"} :
        Evaluate(Now, <<Target(CanAssign), [k |-> jump, canAssign |-> CanAssign]>>)

AndJump ==
    /\ Doing("andJump")
    /\ LET s == EmitJump(Now, "JUMP_IF_FALSE") IN
        Continue(Emit(s, "POP", 0), <<Target(CanAssign), Patch(Position(s))>>)

OrJump ==
    /\ Doing("orJump")
    /\ LET s == EmitJump(Now, "JUMP_IF_FALSE")
           t == EmitJump(s, "JUMP")
       IN  Continue(Emit(PatchJump(t, Position(s)), "POP", 0),
                    <<Target(CanAssign), Patch(Position(t))>>)

Assign == Compound("assign") /\ Evaluate(Now, <<Expr, Target(TRUE)>>)

Call ==
    /\ Compound("call")
    /\ \E n \in 0..MaxArgs : Evaluate(Now, <<Expr>> \o Append(Arguments(n), Then("CALL", n)))

Dot ==
    /\ Compound("dot")
    /\ \/ Evaluate(Now, <<Target(CanAssign), Then("GET_PROPERTY", 0)>>)
       \/ Evaluate(Now, <<Target(CanAssign), Expr, Then("SET_PROPERTY", 0)>>)
       \/ \E n \in 0..MaxArgs :
            Evaluate(Now, <<Target(CanAssign)>> \o Append(Arguments(n), Then("INVOKE", n)))

EmitOp == Doing("emit") /\ Continue(Emit(Now, Head(Work).op, Head(Work).arg), <<>>)
PatchForward == Doing("patch") /\ Continue(PatchJump(Now, Head(Work).jump), <<>>)

-----------------------------------------------------------------------------
(* compile(): a script is a list of declarations in a Context of its own.  *)

Init ==
    /\ contexts = <<NewContext("script")>>
    /\ currentClass = <<>>
    /\ error = NoError
    /\ functions = <<>>
    /\ todo = <<<<Task("stats"), Function("script", "")>>>>
    /\ family \in Families
    /\ budget = MaxNodes

Compiled == todo = <<>> /\ UNCHANGED vars

Next ==
    \/ VarDeclaration \/ EndDeclaration
    \/ FunDeclaration \/ EndFunction
    \/ ClassDeclaration \/ Method \/ EndOfMethods \/ EndClass
    \/ EndOfBlock \/ Block \/ EndBlock
    \/ PrintStatement \/ ExprStatement \/ ReturnStatement
    \/ IfStatement \/ IfThen \/ IfElse
    \/ WhileStatement \/ WhileBody \/ WhileEnd
    \/ ForStatement \/ ForCondition \/ ForExit \/ ForIteration \/ ForIterated \/ ForEnd
    \/ BreakStatement \/ ContinueStatement
    \/ Literal \/ Variable \/ This \/ Super \/ SuperInvoke
    \/ Unary \/ Binary \/ Logic \/ AndJump \/ OrJump
    \/ Assign \/ Call \/ Dot \/ EmitOp \/ PatchForward
    \/ Compiled

Spec == Init /\ [][Next]_vars
-----------------------------------------------------------------------------
(* Properties.                                                             *)

LocalRecords == [name : Names \cup {"", "this", "super"}, depth : Nat \cup {-1}, captured : BOOLEAN]
UpvalueRecords == [index : 0..UINT8_COUNT - 1, isLocal : BOOLEAN]
Errors ==
    {NoError, "Already a variable with this name", "Too many local variables",
     "Too many closure variables", "Can't read local variable in its own initializer",
     "Can't return from top-level code", "Can't return a value from an initializer",
     "must be used in a loop", "Can't use 'this' outside of a class", "Can't use 'super' here"}

(* The type invariant, with the bounds of the fixed-size arrays of a       *)
(* Context: its locals, its upvalues and the slot of `this'.               *)
TypeOK ==
    /\ error \in Errors
    /\ currentClass \in Seq(BOOLEAN)
    /\ family \in Families /\ budget \in 0..MaxNodes
    /\ \A j \in 1..Len(contexts) :
        LET c == contexts[j] IN
        /\ c.locals \in Seq(LocalRecords) /\ Len(c.locals) \in 1..UINT8_COUNT
        /\ c.upvalues \in Seq(UpvalueRecords) /\ Len(c.upvalues) <= UINT8_COUNT
        /\ c.scopeDepth \in Nat /\ c.enclosing_loop \in Nat
        /\ c.last_break \in 0..Len(c.code) /\ c.last_continue \in 0..Len(c.code)
        /\ c.height \in Int

(* Where the walk is between statements of the current function.           *)
BetweenStatements ==
    todo # <<>> /\ Head(Work).k \in {"stats", "stat", "endScope", "endFunction",
                                     "forCond", "forIter", "whileEnd", "forEnd", "ifElse"}

(* The code is looked at between statements, and once more at its end.     *)
Settled == error = NoError /\ (BetweenStatements \/ todo = <<>>)

(* Between statements the value stack of the frame holds the locals in     *)
(* scope and nothing else, so that the slot the compiler gives a variable  *)
(* is the slot it lives in (addLocal, adjust_locals and every handler's    *)
(* effect on the stack).                                                   *)
SlotsMatch ==
    error = NoError /\ BetweenStatements =>
        Current(Now).height \in {DEAD, Len(Current(Now).locals)}

AllCode == {contexts[j].code : j \in 1..Len(contexts)} \cup
           {functions[j].code : j \in 1..Len(functions)}
IsJump(instruction) == instruction.op \in {"JUMP", "JUMP_IF_FALSE", "LOOP"}

(* The three statements whose code does not keep the slots right, for      *)
(* which runs of their own show it, and the targets of assignments that    *)
(* the compiler takes for values.                                          *)
Without(kinds) == Syntax \cap kinds = {}
Orderly == Without({"break", "continue", "forExpr", "target"})

(* SlotsMatch in programs without break, continue and the first expression *)
(* of a for.                                                               *)
SlotsMatchInOrder == Orderly => SlotsMatch

(* All paths to an instruction arrive with the same stack height: a jump   *)
(* finds at its target the height it leaves with.                          *)
JoinsAgree ==
    Settled =>
        \A code \in AllCode : \A i \in 1..Len(code) :
            LET target == code[i].arg + 1 IN
            IsJump(code[i]) /\ code[i].h # DEAD /\ target \in 1..Len(code) =>
                code[target].h = code[i].h

(* JoinsAgree in the same programs.                                        *)
JoinsAgreeInOrder == Orderly => JoinsAgree

(* A finished function has no jump left that emitJump wrote and patchJump  *)
(* never filled in.                                                        *)
JumpsPatched ==
    Without({"break"}) => \A j \in 1..Len(functions) : \A i \in 1..Len(functions[j].code) :
        LET instruction == functions[j].code[i] IN
        IsJump(instruction) => instruction.arg \in 0..Len(functions[j].code) - 1

(* The locals the compiler resolves names against are, in order, the names *)
(* of the blocks of the program that are open, in any code that can be     *)
(* reached (begin and endScope go by depth, the blocks by the text).       *)
NamesInScope(c) == c.visible = [i \in 1..Len(c.locals) |-> c.locals[i].name]
LexicalScope ==
    Settled => \A j \in 1..Len(contexts) : contexts[j].height # DEAD => NamesInScope(contexts[j])

(* So they are everywhere in programs without break and continue.          *)
LexicalScopeInOrder ==
    Settled /\ Without({"break", "continue"}) =>
        \A j \in 1..Len(contexts) : NamesInScope(contexts[j])

(* Upvalue `at' of context j denotes the local in `slot' of an enclosing   *)
(* context, the owner: each function from there to j has an upvalue on the *)
(* way, the outermost one for the local.                                   *)
Denotes(cs, j, at, owner, slot) ==
    \E way \in [owner + 1..j -> 0..UINT8_COUNT - 1] :
        /\ way[j] = at
        /\ \A m \in owner + 1..j :
            /\ way[m] < Len(cs[m].upvalues)
            /\ cs[m].upvalues[way[m] + 1] =
                IF m = owner + 1 THEN [index |-> slot - 1, isLocal |-> TRUE]
                                 ELSE [index |-> way[m - 1], isLocal |-> FALSE]

Declares(c, i, name) == c.locals[i].name = name

(* Upvalue `at' of context j is the innermost enclosing variable of that   *)
(* name, and that is marked captured.                                      *)
Resolved(cs, j, at, name) ==
    \E owner \in 1..j - 1 : \E slot \in 1..Len(cs[owner].locals) :
        /\ Declares(cs[owner], slot, name) /\ cs[owner].locals[slot].captured
        /\ \A k \in slot + 1..Len(cs[owner].locals) : ~Declares(cs[owner], k, name)
        /\ \A m \in owner + 1..j - 1 : \A k \in 1..Len(cs[m].locals) : ~Declares(cs[m], k, name)
        /\ Denotes(cs, j, at, owner, slot)

(* Every upvalue instruction of a function being compiled reaches the      *)
(* innermost enclosing variable of that name, and that variable is marked  *)
(* captured, so that it will be closed and not just popped.                *)
UpvaluesResolve ==
    Settled =>
        \A j \in 2..Len(contexts) : \A i \in 1..Len(contexts[j].code) :
            LET instruction == contexts[j].code[i] IN
            instruction.op \in {"GET_UPVALUE", "SET_UPVALUE"} =>
                Resolved(contexts, j, instruction.arg, instruction.name)

(* `this' and `super' never become globals: where they are legal a method  *)
(* or a subclass scope around the code declares them.                      *)
NoGlobalThis ==
    Settled =>
        \A code \in AllCode : \A i \in 1..Len(code) :
            code[i].op \in {"GET_GLOBAL", "SET_GLOBAL"} => code[i].name \in Names

(* enclosing_loop counts the loops of its function whose body is being     *)
(* compiled: what decides whether break and continue are legal.            *)
LoopNesting ==
    \A j \in 1..Len(contexts) :
        contexts[j].enclosing_loop =
            Cardinality({i \in 1..Len(todo[j]) : todo[j][i].k \in {"whileEnd", "forEnd"}})

(* Where the loops of the current function that are open start again.      *)
LoopStarts ==
    {Work[i].loop.start : i \in {j \in 1..Len(Work) : Work[j].k \in {"whileEnd", "forEnd"}}}

(* A continue that is compiled at all goes to the start of a loop that is  *)
(* open around it, in its own function, whatever loops have been left or   *)
(* restored before.                                                        *)
ContinueStaysInLoop ==
    [][ContinueStatement /\ error' = NoError =>
        LET code == Last(contexts').code IN
        Len(code) > Len(Current(Now).code) => Last(code).arg \in LoopStarts]_vars

(* A name that resolves to a local resolves to one a block still open      *)
(* declares: no local outlives its scope, wherever a loop was left early.  *)
NothingOutlivesItsScope ==
    Settled =>
        \A j \in 1..Len(contexts) : \A i \in 1..Len(contexts[j].locals) :
            \E k \in i..Len(contexts[j].visible) :
                contexts[j].visible[k] = contexts[j].locals[i].name

=============================================================================
