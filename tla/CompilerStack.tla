--------------------------- MODULE CompilerStack ----------------------------
(***************************************************************************)
(* What is true of the height of the value stack in module Compiler, in    *)
(* programs without break, continue, an initial expression of `for' and    *)
(* targets that are no names: which temporaries lie above the locals at    *)
(* each point of the work that is left, and that all ways to an            *)
(* instruction bring the same height.                                      *)
(***************************************************************************)
EXTENDS CompilerScopes

(* The height at a position of the code, the end of it included.           *)
HeightAt(c, position) ==
    IF position < Len(c.code) THEN c.code[position + 1].h ELSE c.height

(* A jump that can be taken leads to where the stack is as high.           *)
JumpsMeet(c) ==
    \A i \in 1..Len(c.code) : IsJump(c.code[i]) =>
        /\ c.code[i].arg \in -1..Len(c.code)
        /\ c.code[i].h # DEAD /\ c.code[i].arg # UNPATCHED =>
            HeightAt(c, c.code[i].arg) = c.code[i].h
CodeMeets(code) ==
    \A i \in 1..Len(code) :
        LET target == code[i].arg + 1 IN
        IsJump(code[i]) /\ code[i].h # DEAD /\ target \in 1..Len(code) =>
            code[target].h = code[i].h

(* A point of the work that is left: the locals and, above them, the       *)
(* temporaries that lie on the stack, and whether a path leads there.      *)
Points == [locals : Nat, temps : Nat \cup {-1}, path : {"live", "dead"}]

(* How far a task moves the top of the stack, the locals of a scope it     *)
(* ends left out.                                                          *)
Gain(c, t) ==
    CASE t.k = "expr" -> IF t.canAssign THEN 0 ELSE 1
      [] t.k = "emit" -> IF t.op = "RETURN" THEN -1 ELSE Effect(t.op, t.arg)
      [] t.k = "superInvoke" -> -t.args
      [] t.k = "define" -> IF c.scopeDepth > 0 THEN 0 ELSE -1
      [] t.k \in {"ifThen", "whileBody", "forExit", "forBody", "endClass"} -> -1
      [] OTHER -> 0

(* What the jump was left with is what there is where it will be patched.  *)
Reaches(c, jump, height, p) ==
    /\ jump \in 1..Len(c.code) /\ c.code[jump].h \in {DEAD, height}
    /\ c.code[jump].h # DEAD => p.path = "live"

(* Where a loop starts again there are its locals alone.                   *)
Restarts(c, position, p) ==
    /\ position \in 0..Len(c.code)
    /\ p.path = "live" => HeightAt(c, position) = p.locals

(* Task t leads from point p to point q.  Behind all but expressions and   *)
(* methods no temporaries are left.                                        *)
Travels(c, t, p, q) ==
    /\ p \in Points /\ q \in Points
    /\ q.locals = IF t \in ScopeTasks THEN Base(t) ELSE p.locals
    /\ q.temps = p.temps + Gain(c, t)
    /\ t.k \notin ExprTasks => q.temps = IF t.k = "methods" THEN 1 ELSE 0
    /\ p.path = "live" => q.path = "live"
Meets(c, t, p, q) ==
    /\ t.k = "patch" => Reaches(c, t.jump, p.locals + p.temps, q)
    /\ t.k = "ifElse" => Reaches(c, t.jump, p.locals + 1, q)
    /\ t.k \in LoopTasks /\ t.loop.exit # NONE => Reaches(c, t.loop.exit, p.locals + 1, q)
    /\ t.k = "forBody" => Reaches(c, t.loop.body, p.locals, p)
Repeats(c, t, p) ==
    /\ t.k \in LoopTasks \ {"forCond"} => Restarts(c, t.loop.start, p)
    /\ t.k = "forBody" => Restarts(c, t.loop.body, p)
    /\ t.k \in LoopTasks => t.loop.saved.break = 0
Leads(c, t, p, q) ==
    /\ Travels(c, t, p, q) /\ Meets(c, t, p, q) /\ Repeats(c, t, p)
    /\ t.k \in {"andJump", "orJump"} => ~t.canAssign /\ p.temps >= 0

(* The work w leads on from point p.  A list of statements is the end of a *)
(* block or of a function.                                                 *)
Blocks(w) ==
    \A k \in 1..Len(w) - 1 : w[k].k = "stats" => w[k + 1].k \in {"endScope", "endFunction"}
LeadsOn(c, w, p) ==
    /\ Blocks(w)
    /\ \E at \in [1..Len(w) + 1 -> Points] :
        at[1] = p /\ \A k \in 1..Len(w) : Leads(c, w[k], at[k], at[k + 1])

(* The stack is at point p, the work that is left at point q.              *)
Sits(c, p) ==
    /\ p \in Points /\ p.locals = Len(c.visible)
    /\ c.height \in {DEAD, p.locals + p.temps}
    /\ c.height # DEAD => p.path = "live"
Poised(c, w, p, q) ==
    c.last_break = 0 /\ JumpsMeet(c) /\ Sits(c, p) /\ LeadsOn(c, w, q)

(* The value of a local function that is still being compiled is owed.     *)
Owing(q, owed) == [q EXCEPT !.temps = @ - owed]
Balanced(c, w, owed) == \E q \in Points : Poised(c, w, Owing(q, owed), q)
Owed(j) ==
    IF j < Len(contexts) /\ Head(todo[j]).k = "stats" /\ contexts[j].scopeDepth > 0 THEN 1 ELSE 0

Stacked ==
    Orderly /\ error = NoError =>
        /\ \A j \in 1..Len(contexts) : Balanced(contexts[j], todo[j], Owed(j))
        /\ \A j \in 1..Len(functions) : CodeMeets(functions[j].code)
=============================================================================
