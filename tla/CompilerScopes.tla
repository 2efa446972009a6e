--------------------------- MODULE CompilerScopes ---------------------------
(***************************************************************************)
(* What is true of the names in module Compiler, beside CompilerInvariant: *)
(* what upvalues denote, and that `this' and `super' are never global.     *)
(***************************************************************************)
EXTENDS CompilerInvariant

(* The upvalues and the globals that the code looks up.                    *)
Upvalues(cs) ==
    \A j \in 1..Len(cs) : \A i \in 1..Len(cs[j].code) :
        cs[j].code[i].op \in UpvalueOps =>
            Resolved(cs, j, cs[j].code[i].arg, cs[j].code[i].name)
Globals(code) ==
    \A i \in 1..Len(code) : code[i].op \in GlobalOps => code[i].name \in Names
Scoped(s) ==
    s.error = NoError =>
        /\ Upvalues(s.contexts)
        /\ \A j \in 1..Len(s.contexts) : Globals(s.contexts[j].code)
ScopedFunctions == error = NoError => \A j \in 1..Len(functions) : Globals(functions[j].code)

(* Where patchJump writes there is a jump.                                 *)
AtJump(c, i) == i = 0 \/ (i \in 1..Len(c.code) /\ IsJump(c.code[i]))
Landings(t) ==
    IF t.k \in LoopTasks THEN {t.loop.exit, t.loop.body, t.loop.saved.break} ELSE JumpsOf(t)
Lands(c, w) ==
    /\ AtJump(c, c.last_break)
    /\ \A k \in 1..Len(w) : \A i \in Landings(w[k]) : AtJump(c, i)

(* The open classes, each in the function that declares it, and around the *)
(* methods of a subclass a local `super'.                                  *)
Has(w, kind) == \E i \in 1..Len(w) : w[i].k = kind
HasSuper(c) == \E i \in 1..Len(c.locals) : c.locals[i].name = "super"
ClassesAt(cs, ws, classes, at) ==
    /\ at \in [1..Len(classes) -> 1..Len(cs)]
    /\ \A k \in 1..Len(classes) : \A m \in 1..k - 1 : at[m] < at[k]
    /\ \A k \in 1..Len(classes) :
        Has(ws[at[k]], "endClass") /\ (classes[k] => HasSuper(cs[at[k]]))
OpenClasses ==
    error = NoError =>
        \E at \in [1..Len(currentClass) -> 1..Len(contexts)] :
            ClassesAt(contexts, todo, currentClass, at)

(* What `super' was checked for is still so when its call is compiled.     *)
InSubclass == currentClass # <<>> /\ Last(currentClass)
SuperWaits == error = NoError /\ todo # <<>> /\ Has(Work, "superInvoke") => InSubclass

Ordered ==
    /\ Scoped(Now) /\ ScopedFunctions
    /\ \A j \in 1..Len(contexts) : Lands(contexts[j], todo[j])
    /\ OpenClasses /\ SuperWaits

-----------------------------------------------------------------------------
(* The locals of a function among the names that are visible in the text.  *)

(* The depth of a local; one without a value yet is of the scope that is   *)
(* being compiled.                                                         *)
Deep(c, i) == IF c.locals[i].depth = -1 THEN c.scopeDepth ELSE c.locals[i].depth
NoneWaits(c) == \A i \in 1..Len(c.locals) : c.locals[i].depth # -1
Disciplined == Without({"break", "continue"})

(* Local i is the name at place[i] of the text, inner ones behind outer    *)
(* ones; without break and continue no name is without its local.          *)
Shown(c, place, strict) ==
    /\ \A i \in 1..Len(c.locals) :
        /\ place[i] \in i..Len(c.visible) /\ c.visible[place[i]] = c.locals[i].name
        /\ c.locals[i].depth <= c.scopeDepth
        /\ c.locals[i].depth = -1 => i = Len(c.locals)
        /\ \A j \in 1..i - 1 : c.locals[j].depth <= Deep(c, i)
    /\ strict =>
        Len(c.visible) = Len(c.locals) /\ \A i \in 1..Len(c.locals) : place[i] = i

(* A scope of this depth that begins behind `base' names holds none of the *)
(* locals in front of it.                                                  *)
Bounds(c, place, level, base, strict) ==
    /\ base <= Len(c.visible)
    /\ \A i \in 1..Len(c.locals) :
        /\ Deep(c, i) < level => place[i] <= base
        /\ strict /\ i <= base => Deep(c, i) < level

(* The depths of the scopes that the tasks w end.                          *)
Levels(c, w, level) ==
    /\ level[1] = c.scopeDepth
    /\ \A k \in 1..Len(w) :
        /\ level[k] = IF w[k] \in ScopeTasks THEN level[k + 1] + 1 ELSE level[k + 1]
        /\ level[k] <= c.scopeDepth

Laid(c, w, strict) ==
    \E place \in [1..Len(c.locals) -> 1..Len(c.visible)],
       level \in [1..Len(w) + 1 -> 0..c.scopeDepth] :
        /\ Shown(c, place, strict) /\ Levels(c, w, level)
        /\ \A k \in 1..Len(w) : w[k] \in ScopeTasks => Bounds(c, place, level[k], Base(w[k]), strict)

(* A local waits for its value as long as its declaration is compiled; the *)
(* local that a function is bound to is there before its body.             *)
Declaring(c, w) == c.locals[Len(c.locals)].depth = -1 <=> c.scopeDepth > 0 /\ Has(w, "define")
Bound(c, w) == w[1].k = "stats" /\ c.scopeDepth > 0 => c.locals[Len(c.locals)].depth = c.scopeDepth
Lexical ==
    error = NoError =>
        /\ \A j \in 1..Len(contexts) :
            Laid(contexts[j], todo[j], Disciplined) /\ Declaring(contexts[j], todo[j])
        /\ \A j \in 1..Len(contexts) - 1 : Bound(contexts[j], todo[j])
=============================================================================
