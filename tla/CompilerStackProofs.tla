------------------------ MODULE CompilerStackProofs -------------------------
(***************************************************************************)
(* Proofs about the height of the value stack in module Compiler: between  *)
(* statements the locals in scope are all that a frame has on the stack,   *)
(* and all ways to an instruction bring the same height.                   *)
(***************************************************************************)
EXTENDS CompilerStack, CompilerScopesProofs

(* The height of the stack where it is known stays so, as the code gets    *)
(* longer.                                                                 *)
Grown(c, d) ==
    /\ Len(d.code) >= Len(c.code)
    /\ \A i \in 1..Len(c.code) : d.code[i].h = c.code[i].h
    /\ c.height # DEAD => HeightAt(d, Len(c.code)) = c.height

LEMMA StackTypes ==
    ASSUME NEW c \in Contexts
    PROVE  /\ c.code \in Seq(Instructions) /\ Len(c.code) \in Nat /\ c.height \in Int
           /\ Len(c.visible) \in Nat /\ c.scopeDepth \in Nat
           /\ \A i \in 1..Len(c.code) :
                /\ c.code[i] \in Instructions /\ c.code[i].h \in Int /\ c.code[i].arg \in Int
                /\ c.code[i].op \in Operations
<1>1. c.code \in Seq(Instructions) /\ Len(c.code) \in Nat
    BY ContextTypes
<1>2. PICK code \in Seq(Instructions) : code = c.code
    BY <1>1
<1>3. \A i \in 1..Len(code) : code[i] \in Instructions
    OBVIOUS
<1>4. \A x \in Instructions : x.h \in Int /\ x.arg \in Int /\ x.op \in Operations
    BY DEF Instructions
<1> QED BY <1>1, <1>2, <1>3, <1>4, ContextTypes

LEMMA HeightsStay ==
    ASSUME NEW c \in Contexts, NEW d \in Contexts, Grown(c, d), NEW position \in 0..Len(c.code),
           HeightAt(c, position) # DEAD
    PROVE  HeightAt(d, position) = HeightAt(c, position) /\ position \in 0..Len(d.code)
<1>1. PICK n \in Nat : n = Len(c.code)
    BY StackTypes
<1>2. PICK m \in Nat : m = Len(d.code)
    BY StackTypes
<1>3. m >= n
    BY <1>1, <1>2 DEF Grown
<1>4. CASE position < n
    <2>1. position + 1 \in 1..n /\ position < m /\ position \in 0..m
        BY <1>1, <1>3, <1>4
    <2>2. d.code[position + 1].h = c.code[position + 1].h
        BY <1>1, <2>1 DEF Grown
    <2> QED BY <1>1, <1>2, <1>4, <2>1, <2>2 DEF HeightAt
<1>5. CASE position = n
    <2>1. HeightAt(c, position) = c.height
        BY <1>1, <1>5 DEF HeightAt
    <2> QED BY <1>1, <1>2, <1>3, <1>5, <2>1 DEF Grown
<1> QED BY <1>1, <1>4, <1>5

(* The new jumps, like the old ones, lead to where the stack is as high.   *)
Meeting(d, i) ==
    /\ d.code[i].arg \in -1..Len(d.code)
    /\ d.code[i].h # DEAD /\ d.code[i].arg # UNPATCHED =>
        HeightAt(d, d.code[i].arg) = d.code[i].h

LEMMA JumpsMeetOn ==
    ASSUME NEW c \in Contexts, NEW d \in Contexts, Grown(c, d), JumpsMeet(c),
           \A i \in 1..Len(d.code) : IsJump(d.code[i]) =>
                \/ i <= Len(c.code) /\ IsJump(c.code[i]) /\ d.code[i].arg = c.code[i].arg
                \/ Meeting(d, i)
    PROVE  JumpsMeet(d)
<1>1. SUFFICES ASSUME NEW i \in 1..Len(d.code), IsJump(d.code[i]) PROVE Meeting(d, i)
    BY DEF JumpsMeet, Meeting
<1>2. CASE i <= Len(c.code) /\ IsJump(c.code[i]) /\ d.code[i].arg = c.code[i].arg
    <2>1. i \in 1..Len(c.code) /\ d.code[i].h = c.code[i].h
        BY <1>2, StackTypes DEF Grown
    <2>2. PICK arg \in -1..Len(c.code) : arg = c.code[i].arg
        BY <1>2, <2>1 DEF JumpsMeet
    <2>3. arg \in -1..Len(d.code)
        BY StackTypes DEF Grown
    <2>4. ASSUME d.code[i].h # DEAD, arg # UNPATCHED
          PROVE  HeightAt(d, arg) = d.code[i].h
        <3>1. arg \in 0..Len(c.code)
            BY <2>4, StackTypes DEF UNPATCHED
        <3>2. HeightAt(c, arg) = c.code[i].h
            BY <1>2, <2>1, <2>2, <2>4 DEF JumpsMeet
        <3> QED BY <2>1, <2>4, <3>1, <3>2, HeightsStay
    <2> QED BY <1>2, <2>2, <2>3, <2>4 DEF Meeting
<1> QED BY <1>1, <1>2

(* Where the locals and temporaries are.                                   *)
Point(l, n, path) == [locals |-> l, temps |-> n, path |-> path]
Live(p) == p.path = "live"

LEMMA PointTypes ==
    ASSUME NEW p \in Points
    PROVE  p.locals \in Nat /\ p.temps \in Nat \cup {-1} /\ p.temps \in Int /\ p.path \in {"live", "dead"}
BY DEF Points

LEMMA PointIs ==
    ASSUME NEW l \in Nat, NEW n \in Nat \cup {-1}, NEW path \in {"live", "dead"}
    PROVE  /\ Point(l, n, path) \in Points /\ Point(l, n, path).locals = l
           /\ Point(l, n, path).temps = n /\ Point(l, n, path).path = path
BY DEF Point, Points

LEMMA PointsEqual ==
    ASSUME NEW p \in Points, NEW q \in Points, q.locals = p.locals, q.temps = p.temps,
           q.path = p.path
    PROVE  q = p
BY DEF Points

(* A task leads on as before, in a function that has grown.                *)
LEMMA LeadsStays ==
    ASSUME NEW c \in Contexts, NEW d \in Contexts, Grown(c, d), NEW t, NEW p, NEW q,
           Leads(c, t, p, q), t.k = "define" => (c.scopeDepth > 0 <=> d.scopeDepth > 0)
    PROVE  Leads(d, t, p, q)
<1>1. Gain(c, t) = Gain(d, t)
    <2>1. CASE t.k = "define"
        BY <2>1 DEF Gain
    <2>2. CASE t.k # "define"
        BY <2>2 DEF Gain
    <2> QED BY <2>1, <2>2
<1>2. Travels(d, t, p, q)
    BY <1>1 DEF Leads, Travels
<1>3. ASSUME NEW jump, NEW height, NEW x, Reaches(c, jump, height, x)
      PROVE  Reaches(d, jump, height, x)
    <2>1. jump \in 1..Len(d.code) /\ d.code[jump].h = c.code[jump].h
        BY <1>3, StackTypes DEF Reaches, Grown
    <2> QED BY <1>3, <2>1 DEF Reaches
<1>4. ASSUME NEW position, NEW x \in Points, Restarts(c, position, x)
      PROVE  Restarts(d, position, x)
    <2>1. position \in 0..Len(c.code) /\ position \in 0..Len(d.code)
        BY <1>4, StackTypes DEF Restarts, Grown
    <2>2. x.path = "live" => HeightAt(d, position) = x.locals
        <3>1. SUFFICES ASSUME x.path = "live" PROVE HeightAt(d, position) = x.locals
            OBVIOUS
        <3>2. HeightAt(c, position) = x.locals /\ x.locals # DEAD
            BY <1>4, <3>1, PointTypes DEF Restarts, DEAD
        <3> QED BY <2>1, <3>2, HeightsStay
    <2> QED BY <2>1, <2>2 DEF Restarts
<1>5. p \in Points /\ q \in Points
    BY DEF Leads, Travels
<1>6. Meets(d, t, p, q)
    BY <1>3 DEF Leads, Meets
<1>7. Repeats(d, t, p)
    BY <1>4, <1>5 DEF Leads, Repeats
<1> QED BY <1>2, <1>6, <1>7 DEF Leads

LEMMA LeadsOnStays ==
    ASSUME NEW c \in Contexts, NEW d \in Contexts, Grown(c, d), NEW w, NEW p, LeadsOn(c, w, p),
           Has(w, "define") => (c.scopeDepth > 0 <=> d.scopeDepth > 0)
    PROVE  LeadsOn(d, w, p)
<1>1. PICK at \in [1..Len(w) + 1 -> Points] :
        at[1] = p /\ \A k \in 1..Len(w) : Leads(c, w[k], at[k], at[k + 1])
    BY DEF LeadsOn
<1>2. ASSUME NEW k \in 1..Len(w)
      PROVE  Leads(d, w[k], at[k], at[k + 1])
    <2>1. w[k].k = "define" => Has(w, "define")
        BY DEF Has
    <2> QED BY <1>1, <2>1, LeadsStays
<1> QED BY <1>1, <1>2 DEF LeadsOn

(* The compiler has come from b to s; the stack is at point p, the work w  *)
(* leads on from q.                                                        *)
Standing(b, s, w, p, q) ==
    /\ Good(s) /\ Follows(b, s) /\ w \in Seq(Tasks)
    /\ Poised(Current(s), w, p, q)

LEMMA StandsOn ==
    ASSUME NEW b, NEW s, NEW w, NEW p, NEW q, Standing(b, s, w, p, q), NEW t, Follows(s, t),
           Current(t).last_break = 0, Grown(Current(s), Current(t)), JumpsMeet(Current(t)),
           Has(w, "define") => (Current(s).scopeDepth > 0 <=> Current(t).scopeDepth > 0),
           NEW x, Sits(Current(t), x)
    PROVE  Standing(b, t, w, x, q)
<1>1. Good(t) /\ Follows(b, t)
    BY FollowsOn DEF Standing, Follows
<1>2. Current(s) \in Contexts /\ Current(t) \in Contexts
    BY <1>1, CurrentIsFine DEF Standing
<1>3. LeadsOn(Current(t), w, q)
    BY <1>2, LeadsOnStays DEF Standing, Poised
<1> QED BY <1>1, <1>3 DEF Standing, Poised

LEMMA StandingIs ==
    ASSUME NEW b, NEW s, NEW w, NEW p, NEW q, Standing(b, s, w, p, q), NEW c, c = Current(s)
    PROVE  /\ Good(s) /\ Follows(b, s) /\ w \in Seq(Tasks) /\ c \in Contexts
           /\ JumpsMeet(c) /\ c.last_break = 0 /\ Sits(c, p) /\ LeadsOn(c, w, q)
           /\ p \in Points /\ p.locals = Len(c.visible)
BY CurrentIsFine DEF Standing, Poised, Sits

LEMMA FailStands ==
    ASSUME NEW b, NEW s, NEW w, NEW p, NEW q, Standing(b, s, w, p, q),
           NEW condition, NEW what \in Errors
    PROVE  Standing(b, FailIf(s, condition, what), w, p, q)
<1>1. Good(s)
    BY DEF Standing
<1>2. /\ Good(FailIf(s, condition, what)) /\ GoesOn(s, FailIf(s, condition, what))
      /\ Current(FailIf(s, condition, what)) = Current(s)
    BY <1>1, Failed
<1>3. Follows(b, FailIf(s, condition, what))
    BY <1>2, FollowsOn DEF Standing, GoesOn
<1> QED BY <1>2, <1>3 DEF Standing

(* One more instruction.                                                   *)
LEMMA OneMoreGrows ==
    ASSUME NEW c \in Contexts, NEW d \in Contexts, NEW op, NEW arg, NEW name,
           OneMore(c, d, op, arg, name)
    PROVE  /\ Grown(c, d) /\ d.height = After(op, arg, c.height)
           /\ HeightAt(d, Len(c.code)) = c.height
           /\ d.last_break = c.last_break /\ d.visible = c.visible /\ d.scopeDepth = c.scopeDepth
           /\ Len(d.code) = Len(c.code) + 1 /\ d.code[Len(c.code) + 1].h = c.height
           /\ d.code[Len(c.code) + 1].op = op /\ d.code[Len(c.code) + 1].arg = arg
           /\ \A i \in 1..Len(c.code) : d.code[i] = c.code[i]
           /\ \A i \in 1..Len(d.code) : i <= Len(c.code) \/ i = Len(c.code) + 1
<1>1. PICK n \in Nat : n = Len(c.code)
    BY StackTypes
<1>2. Len(d.code) = n + 1 /\ d.code[n + 1].h = c.height
    BY <1>1 DEF OneMore
<1>3. HeightAt(d, n) = c.height
    BY <1>2 DEF HeightAt
<1>4. Grown(c, d)
    BY <1>1, <1>2, <1>3 DEF Grown, OneMore
<1> QED BY <1>1, <1>2, <1>3, <1>4 DEF OneMore, Steady, SameSettings

LEMMA OneMoreMeets ==
    ASSUME NEW c \in Contexts, NEW d \in Contexts, NEW op, NEW arg \in Int, NEW name,
           OneMore(c, d, op, arg, name), JumpsMeet(c),
           \/ op \notin Jumping
           \/ arg = UNPATCHED
           \/ arg \in 0..Len(c.code) /\ (c.height # DEAD => HeightAt(c, arg) = c.height)
    PROVE  JumpsMeet(d)
<1>1. PICK n \in Nat : n = Len(c.code)
    BY StackTypes
<1>2. /\ Grown(c, d) /\ Len(d.code) = n + 1 /\ d.code[n + 1].h = c.height
      /\ d.code[n + 1].op = op /\ d.code[n + 1].arg = arg
      /\ \A i \in 1..n : d.code[i] = c.code[i]
    BY <1>1, OneMoreGrows
<1>3. ASSUME NEW i \in 1..Len(d.code), IsJump(d.code[i])
      PROVE  \/ i <= Len(c.code) /\ IsJump(c.code[i]) /\ d.code[i].arg = c.code[i].arg
             \/ Meeting(d, i)
    <2>1. CASE i \in 1..n
        BY <1>1, <1>2, <1>3, <2>1
    <2>2. CASE i = n + 1
        <3>1. op \in Jumping
            BY <1>2, <1>3, <2>2 DEF IsJump, Jumping
        <3>2. arg \in -1..Len(d.code)
            BY <1>1, <1>2, <3>1 DEF UNPATCHED
        <3>3. ASSUME c.height # DEAD, arg # UNPATCHED
              PROVE  HeightAt(d, arg) = c.height
            <4>1. arg \in 0..Len(c.code) /\ HeightAt(c, arg) = c.height
                BY <3>1, <3>3
            <4> QED BY <1>2, <3>3, <4>1, HeightsStay
        <3> QED BY <1>2, <2>2, <3>2, <3>3 DEF Meeting
    <2> QED BY <1>2, <1>3, <2>1, <2>2
<1> QED BY <1>2, <1>3, JumpsMeetOn

LEMMA OneMoreStands ==
    ASSUME NEW b, NEW s, NEW w, NEW p, NEW q, Standing(b, s, w, p, q),
           NEW t, Follows(s, t), NEW op, NEW arg \in Int, NEW name,
           OneMore(Current(s), Current(t), op, arg, name),
           \/ op \notin Jumping
           \/ arg = UNPATCHED
           \/ /\ arg \in 0..Len(Current(s).code)
              /\ Current(s).height # DEAD => HeightAt(Current(s), arg) = Current(s).height,
           NEW x \in Points, x.locals = p.locals,
           \/ op \in Diverts
           \/ Effect(op, arg) \in Int /\ x.temps = p.temps + Effect(op, arg) /\ (Live(p) => Live(x))
    PROVE  Standing(b, t, w, x, q)
<1>1. PICK c \in Contexts : c = Current(s)
    BY StandingIs
<1>2. PICK d \in Contexts : d = Current(t)
    BY CurrentIsFine DEF Follows
<1>3. JumpsMeet(c) /\ c.last_break = 0 /\ Sits(c, p) /\ p \in Points
    BY <1>1, StandingIs
<1>4. JumpsMeet(d)
    BY <1>1, <1>2, <1>3, OneMoreMeets
<1>5. /\ Grown(c, d) /\ d.height = After(op, arg, c.height) /\ d.last_break = 0
      /\ d.visible = c.visible /\ d.scopeDepth = c.scopeDepth
    BY <1>1, <1>2, <1>3, OneMoreGrows
<1>6. Sits(d, x)
    <2>1. CASE d.height = DEAD
        BY <1>3, <1>5, <2>1 DEF Sits
    <2>2. CASE d.height # DEAD
        <3>1. op \notin Diverts /\ c.height # DEAD /\ d.height = c.height + Effect(op, arg)
            BY <1>5, <2>2 DEF After
        <3>2. c.height = p.locals + p.temps /\ p.path = "live"
            BY <1>3, <3>1 DEF Sits
        <3>3. d.height = x.locals + x.temps /\ x.path = "live"
            BY <1>3, <3>1, <3>2, PointTypes DEF Live
        <3> QED BY <1>3, <1>5, <3>3 DEF Sits
    <2> QED BY <2>1, <2>2
<1> QED BY <1>1, <1>2, <1>4, <1>5, <1>6, StandsOn

LEMMA EmitNamedStands ==
    ASSUME NEW b, NEW s, NEW w, NEW p, NEW q, Standing(b, s, w, p, q),
           NEW op \in PlainOperations, NEW arg \in Int, NEW name \in VariableNames,
           NEW x \in Points, x.locals = p.locals,
           op \in Diverts \/ (Effect(op, arg) \in Int /\ x.temps = p.temps + Effect(op, arg)
                                /\ (Live(p) => Live(x)))
    PROVE  Standing(b, EmitNamed(s, op, arg, name), w, x, q)
<1>1. op \in Operations /\ op \notin Jumping /\ Good(s)
    BY DEF PlainOperations, Standing
<1>2. PICK t : t = EmitNamed(s, op, arg, name)
    OBVIOUS
<1>3. Follows(s, t) /\ OneMore(Current(s), Current(t), op, arg, name)
    BY <1>1, <1>2, EmitsOneMore DEF GoesOn
<1> QED BY <1>1, <1>2, <1>3, OneMoreStands

LEMMA EmitStands ==
    ASSUME NEW b, NEW s, NEW w, NEW p, NEW q, Standing(b, s, w, p, q),
           NEW op \in PlainOperations, NEW arg \in Int,
           NEW x \in Points, x.locals = p.locals,
           op \in Diverts \/ (Effect(op, arg) \in Int /\ x.temps = p.temps + Effect(op, arg)
                                /\ (Live(p) => Live(x)))
    PROVE  Standing(b, Emit(s, op, arg), w, x, q)
<1>1. PICK name \in VariableNames : name = ""
    BY DEF VariableNames
<1>2. Standing(b, EmitNamed(s, op, arg, name), w, x, q)
    BY EmitNamedStands
<1> QED BY <1>1, <1>2 DEF Emit

(* emitReturn: nothing comes behind it.                                    *)
LEMMA ReturnStands ==
    ASSUME NEW b, NEW s, NEW w, NEW p, NEW q, Standing(b, s, w, p, q),
           NEW x \in Points, x.locals = p.locals, p.temps >= 0
    PROVE  Standing(b, EmitReturn(s), w, x, q)
<1>1. /\ "GET_LOCAL" \in PlainOperations /\ "NIL" \in PlainOperations /\ "RETURN" \in PlainOperations
      /\ "RETURN" \in Diverts /\ Effect("GET_LOCAL", 0) = 1 /\ Effect("NIL", 0) = 1
    BY DEF PlainOperations, Operations, Jumping, Pushes, Pops, Keeps, Diverts, Calls, Effect
<1>2. PICK y : y = Point(p.locals, p.temps + 1, p.path)
    OBVIOUS
<1>3. p \in Points /\ p.locals \in Nat /\ p.temps + 1 \in Nat /\ p.path \in {"live", "dead"}
    BY PointTypes, StandingIs
<1>4. y \in Points /\ y.locals = p.locals /\ y.temps = p.temps + 1 /\ y.path = p.path
    BY <1>2, <1>3, PointIs
<1>5. PICK v : v = IF Current(s).type = "initializer" THEN Emit(s, "GET_LOCAL", 0)
                                                      ELSE Emit(s, "NIL", 0)
    OBVIOUS
<1>6. Standing(b, Emit(s, "GET_LOCAL", 0), w, y, q) /\ Standing(b, Emit(s, "NIL", 0), w, y, q)
    BY <1>1, <1>4, EmitStands DEF Live
<1>7. Standing(b, v, w, y, q)
    BY <1>5, <1>6
<1>8. Standing(b, Emit(v, "RETURN", 0), w, x, q)
    BY <1>1, <1>4, <1>7, EmitStands
<1> QED BY <1>5, <1>8 DEF EmitReturn

LEMMA AlikePoised ==
    ASSUME NEW c \in Contexts, NEW d \in Contexts, Alike(c, d), NEW w, NEW p, NEW q, Poised(c, w, p, q)
    PROVE  Poised(d, w, p, q) /\ d.visible = c.visible
<1>1. /\ d.code = c.code /\ d.height = c.height /\ d.visible = c.visible
      /\ d.scopeDepth = c.scopeDepth /\ d.last_break = c.last_break
    BY DEF Alike, SameSettings
<1>2. Grown(c, d)
    <2>1. HeightAt(d, Len(c.code)) = c.height
        BY <1>1, StackTypes DEF HeightAt
    <2> QED BY <1>1, <2>1, StackTypes DEF Grown
<1>3. JumpsMeet(d)
    BY <1>1 DEF Poised, JumpsMeet, HeightAt
<1>4. LeadsOn(d, w, q)
    BY <1>1, <1>2, LeadsOnStays DEF Poised
<1> QED BY <1>1, <1>3, <1>4 DEF Poised, Sits

LEMMA AlikeStands ==
    ASSUME NEW b, NEW s, NEW w, NEW p, NEW q, Standing(b, s, w, p, q), NEW t, Follows(s, t),
           Alike(Current(s), Current(t))
    PROVE  Standing(b, t, w, p, q)
<1>1. Good(t) /\ Follows(b, t)
    BY FollowsOn DEF Standing, Follows
<1>2. Current(s) \in Contexts /\ Current(t) \in Contexts
    BY <1>1, CurrentIsFine DEF Standing
<1>3. Poised(Current(t), w, p, q)
    BY <1>2, AlikePoised DEF Standing
<1> QED BY <1>1, <1>3 DEF Standing

(* namedVariable: one value more, or as many when it stores.               *)
LEMMA LookOps ==
    /\ \A op \in {"GET_LOCAL", "GET_UPVALUE", "GET_GLOBAL"}, n \in Int :
        op \in PlainOperations /\ Effect(op, n) = 1
    /\ \A op \in {"SET_LOCAL", "SET_UPVALUE", "SET_GLOBAL"}, n \in Int :
        op \in PlainOperations /\ Effect(op, n) = 0
BY DEF PlainOperations, Operations, Jumping, Pushes, Pops, Keeps, Diverts, Calls, Effect

LEMMA LookStands ==
    ASSUME NEW b, NEW s, NEW w, NEW p, NEW q, Standing(b, s, w, p, q),
           NEW name \in VariableNames, NEW canAssign \in BOOLEAN,
           NEW x \in Points, x.locals = p.locals,
           x.temps = p.temps + (IF canAssign THEN 0 ELSE 1), Live(p) => Live(x)
    PROVE  Standing(b, NamedVariable(s, name, canAssign), w, x, q)
<1>g. Good(s)
    BY DEF Standing
<1>1. PICK c \in Contexts : c = Current(s) /\ Fine(c)
    BY <1>g, CurrentIsFine
<1>2. PICK n \in Nat : n = Len(s.contexts) /\ n # 0
    BY <1>g, CurrentIsFine
<1>3. PICK slot : slot = ResolveLocal(c, name)
    OBVIOUS
<1>4. PICK S : S = {0} \cup {j \in 1..n - 1 : ResolveLocal(s.contexts[j], name) # 0}
    OBVIOUS
<1>5. PICK owner : owner = Max(S)
    OBVIOUS
<1>6. owner \in S
    <2>1. S \subseteq 0..n /\ S # {}
        BY <1>4
    <2> QED BY <1>5, <2>1, MaxIs
<1>7. PICK t : t = NamedVariable(s, name, canAssign)
    OBVIOUS
<1>8. ASSUME NEW v, Standing(b, v, w, p, q), NEW arg \in Int, NEW op,
             \/ op \in {"GET_LOCAL", "GET_UPVALUE", "GET_GLOBAL"} /\ ~canAssign
             \/ op \in {"SET_LOCAL", "SET_UPVALUE", "SET_GLOBAL"} /\ canAssign
      PROVE  Standing(b, EmitNamed(v, op, arg, name), w, x, q)
    <2>1. op \in PlainOperations /\ Effect(op, arg) = IF canAssign THEN 0 ELSE 1
        BY <1>8, LookOps
    <2> QED BY <1>8, <2>1, EmitNamedStands
<1>9. CASE slot # 0
    <2>1. PICK wrong : wrong = (c.locals[slot].depth = -1)
        OBVIOUS
    <2>2. PICK what \in Errors : what = "Can't read local variable in its own initializer"
        BY DEF Errors
    <2>3. PICK u : u = FailIf(s, wrong, what)
        OBVIOUS
    <2>4. PICK op : op = IF canAssign THEN "SET_LOCAL" ELSE "GET_LOCAL"
        OBVIOUS
    <2>5. t = EmitNamed(u, op, slot - 1, name)
        BY <1>1, <1>3, <1>7, <1>9, <2>1, <2>2, <2>3, <2>4 DEF NamedVariable
    <2>6. slot - 1 \in Int
        <3>1. slot \in 0..Len(c.locals) /\ Len(c.locals) \in Nat
            BY <1>3, Resolves, ContextTypes
        <3> QED BY <3>1
    <2>7. Standing(b, u, w, p, q)
        BY <2>3, FailStands
    <2> QED BY <1>7, <1>8, <2>4, <2>5, <2>6, <2>7
<1>10. CASE slot = 0 /\ owner # 0
    <2>1. owner \in 1..n - 1 /\ ResolveLocal(s.contexts[owner], name) # 0
        BY <1>4, <1>6, <1>10
    <2>2. PICK found : found = ResolveUpvalue(s, owner, name)
        OBVIOUS
    <2>3. PICK op : op = IF canAssign THEN "SET_UPVALUE" ELSE "GET_UPVALUE"
        OBVIOUS
    <2>4. t = EmitNamed(found.s, op, found.at, name)
        BY <1>1, <1>2, <1>3, <1>4, <1>5, <1>7, <1>10, <2>2, <2>3 DEF NamedVariable
    <2>5. GetsWider(s, found.s) /\ found.at \in Slots /\ Alike(Current(s), Current(found.s))
        BY <1>g, <1>2, <2>1, <2>2, ResolvesUpvalue
    <2>6. found.at \in Int
        <3>1. UINT8_COUNT \in Nat
            BY Limits
        <3> QED BY <2>5, <3>1 DEF Slots
    <2>7. Standing(b, found.s, w, p, q)
        BY <2>5, AlikeStands DEF GetsWider
    <2> QED BY <1>7, <1>8, <2>3, <2>4, <2>6, <2>7
<1>11. CASE slot = 0 /\ owner = 0
    <2>1. PICK op : op = IF canAssign THEN "SET_GLOBAL" ELSE "GET_GLOBAL"
        OBVIOUS
    <2>2. t = EmitNamed(s, op, 0, name)
        BY <1>1, <1>2, <1>3, <1>4, <1>5, <1>7, <1>11, <2>1 DEF NamedVariable
    <2> QED BY <1>7, <1>8, <2>1, <2>2
<1> QED BY <1>7, <1>9, <1>10, <1>11

(* emitJump: what is on the stack is remembered for where it leads.        *)
LEMMA JumpOps ==
    /\ \A op \in {"JUMP", "JUMP_IF_FALSE", "LOOP"} : op \in Operations
    /\ "JUMP" \in Diverts /\ "LOOP" \in Diverts /\ Effect("JUMP_IF_FALSE", UNPATCHED) = 0
    /\ UNPATCHED \in Int
BY DEF Operations, Diverts, Keeps, Effect, UNPATCHED, Pushes, Pops, Calls

LEMMA JumpStands ==
    ASSUME NEW b, NEW s, NEW w, NEW p, NEW q, Standing(b, s, w, p, q),
           NEW op \in {"JUMP", "JUMP_IF_FALSE"}, NEW x \in Points, x.locals = p.locals,
           op = "JUMP" \/ (x.temps = p.temps /\ (Live(p) => Live(x)))
    PROVE  /\ Standing(b, EmitJump(s, op), w, x, q)
           /\ Position(EmitJump(s, op)) = Len(Current(s).code) + 1
           /\ Len(Current(EmitJump(s, op)).code) = Len(Current(s).code) + 1
           /\ Current(EmitJump(s, op)).code[Len(Current(s).code) + 1].h = Current(s).height
           /\ Grown(Current(s), Current(EmitJump(s, op)))
           /\ \A y : (Live(p) => Live(y)) =>
                Reaches(Current(EmitJump(s, op)), Len(Current(s).code) + 1, p.locals + p.temps, y)
<1>1. PICK name \in VariableNames : name = ""
    BY DEF VariableNames
<1>2. PICK t : t = EmitJump(s, op)
    OBVIOUS
<1>3. PICK arg \in Int : arg = UNPATCHED
    BY JumpOps
<1>4. t = EmitNamed(s, op, arg, name) /\ op \in Operations /\ Good(s)
    BY <1>1, <1>2, <1>3, JumpOps DEF EmitJump, Emit, Standing
<1>5. Follows(s, t) /\ OneMore(Current(s), Current(t), op, arg, name)
    BY <1>4, EmitsOneMore DEF GoesOn
<1>6. Effect("JUMP_IF_FALSE", arg) = 0 /\ p \in Points /\ x.locals = p.locals
    BY <1>3, JumpOps, StandingIs
<1>7. op \in Diverts \/ (Effect(op, arg) \in Int /\ x.temps = p.temps + Effect(op, arg)
                            /\ (Live(p) => Live(x)))
    BY <1>6, JumpOps, PointTypes
<1>8. Standing(b, t, w, x, q)
    BY <1>3, <1>5, <1>7, OneMoreStands
<1>9. PICK c \in Contexts : c = Current(s)
    BY StandingIs
<1>10. PICK d \in Contexts : d = Current(t)
    BY <1>8, StandingIs
<1>11. /\ Len(d.code) = Len(c.code) + 1 /\ d.code[Len(c.code) + 1].h = c.height
       /\ Grown(c, d)
    BY <1>5, <1>9, <1>10, OneMoreGrows
<1>12. ASSUME NEW y, Live(p) => Live(y)
       PROVE  Reaches(d, Len(c.code) + 1, p.locals + p.temps, y)
    <2>1. Sits(c, p)
        BY <1>9, StandingIs
    <2>2. c.height \in {DEAD, p.locals + p.temps} /\ (c.height # DEAD => Live(p))
        BY <2>1 DEF Sits, Live
    <2>3. Len(c.code) + 1 \in 1..Len(d.code)
        BY <1>11, StackTypes
    <2> QED BY <1>11, <1>12, <2>2, <2>3 DEF Reaches, Live
<1> QED BY <1>2, <1>8, <1>9, <1>10, <1>11, <1>12 DEF Position

(* emitLoop, where the stack is as high as at the start.                   *)
LEMMA LoopStands ==
    ASSUME NEW b, NEW s, NEW w, NEW p, NEW q, Standing(b, s, w, p, q),
           NEW start, Restarts(Current(s), start, p), p.temps = 0,
           NEW x \in Points, x.locals = p.locals
    PROVE  Standing(b, EmitLoop(s, start), w, x, q)
<1>1. PICK name \in VariableNames : name = ""
    BY DEF VariableNames
<1>2. PICK t : t = EmitLoop(s, start)
    OBVIOUS
<1>3. PICK c \in Contexts : c = Current(s)
    BY StandingIs
<1>4. start \in 0..Len(c.code) /\ start \in Int
    BY <1>3 DEF Restarts
<1>5. PICK op \in Operations : op = "LOOP"
    BY JumpOps
<1>6. t = EmitNamed(s, op, start, name) /\ Good(s)
    BY <1>1, <1>2, <1>5 DEF EmitLoop, Emit, Standing
<1>7. Follows(s, t) /\ OneMore(Current(s), Current(t), op, start, name)
    BY <1>4, <1>6, EmitsOneMore DEF GoesOn
<1>8. c.height # DEAD => HeightAt(c, start) = c.height
    <2>1. Sits(c, p) /\ p \in Points
        BY <1>3, StandingIs
    <2>2. c.height # DEAD => c.height = p.locals + p.temps /\ p.path = "live"
        BY <2>1 DEF Sits
    <2> QED BY <1>3, <2>1, <2>2, PointTypes DEF Restarts
<1>9. op \in Diverts
    BY <1>5, JumpOps
<1>10. Standing(b, t, w, x, q)
    BY <1>3, <1>4, <1>7, <1>8, <1>9, OneMoreStands
<1> QED BY <1>2, <1>10

(* patchJump, where the stack is as high as it was for the jump.           *)
LEMMA PatchStands ==
    ASSUME NEW b, NEW s, NEW w, NEW p, NEW q, Standing(b, s, w, p, q),
           NEW jump, NEW x \in Points, x.locals = p.locals, x.temps = p.temps, Live(p) => Live(x),
           Reaches(Current(s), jump, p.locals + p.temps, x)
    PROVE  Standing(b, PatchJump(s, jump), w, x, q)
<1>1. PICK t : t = PatchJump(s, jump)
    OBVIOUS
<1>2. PICK c \in Contexts : c = Current(s)
    BY StandingIs
<1>3. jump \in 1..Len(c.code) /\ c.code[jump].h \in {DEAD, p.locals + p.temps}
      /\ (c.code[jump].h # DEAD => Live(x))
    BY <1>2 DEF Reaches, Live
<1>4. GoesOn(s, t) /\ Patched(c, Current(t), jump)
    BY <1>1, <1>2, <1>3, Patches DEF Standing
<1>5. PICK d \in Contexts : d = Current(t)
    BY <1>4, CurrentIsFine DEF GoesOn, Follows
<1>6. PICK n \in Nat : n = Len(c.code)
    BY <1>2, StackTypes
<1>7. /\ Len(d.code) = n /\ \A i \in 1..n : i # jump => d.code[i] = c.code[i]
      /\ d.code[jump] = [c.code[jump] EXCEPT !.arg = n]
      /\ d.height = IF c.height = DEAD THEN c.code[jump].h ELSE c.height
      /\ SameSettings(c, d)
    BY <1>4, <1>5, <1>6 DEF Patched, Steady
<1>8. c.code[jump] \in Instructions /\ jump \in 1..n
    BY <1>2, <1>3, <1>6, StackTypes
<1>9. d.code[jump].h = c.code[jump].h /\ d.code[jump].op = c.code[jump].op /\ d.code[jump].arg = n
    BY <1>7, <1>8 DEF Instructions
<1>10. HeightAt(d, n) = d.height
    BY <1>6, <1>7 DEF HeightAt
<1>11. Grown(c, d)
    <2>1. \A i \in 1..n : d.code[i].h = c.code[i].h
        BY <1>7, <1>9
    <2>2. c.height # DEAD => d.height = c.height
        BY <1>7
    <2> QED BY <1>6, <1>7, <1>10, <2>1, <2>2 DEF Grown
<1>12. Sits(c, p) /\ JumpsMeet(c) /\ c.last_break = 0 /\ p \in Points
    BY <1>2, StandingIs
<1>13. d.height # DEAD => d.height = p.locals + p.temps /\ Live(x)
    <2>1. c.height # DEAD => c.height = p.locals + p.temps /\ Live(p)
        BY <1>12 DEF Sits, Live
    <2> QED BY <1>3, <1>7, <2>1
<1>14. Sits(d, x)
    BY <1>7, <1>12, <1>13 DEF Sits, SameSettings, Live
<1>15. JumpsMeet(d)
    <2>1. ASSUME NEW i \in 1..Len(d.code), IsJump(d.code[i])
          PROVE  \/ i <= Len(c.code) /\ IsJump(c.code[i]) /\ d.code[i].arg = c.code[i].arg
                 \/ Meeting(d, i)
        <3>1. CASE i # jump
            BY <1>6, <1>7, <2>1, <3>1
        <3>2. CASE i = jump
            <4>1. n \in -1..n
                BY <1>6
            <4>2. d.code[i].h # DEAD => d.height = d.code[i].h
                <5>1. d.code[i].h # DEAD => c.code[jump].h = p.locals + p.temps
                    BY <1>3, <1>9, <3>2
                <5>2. c.height = DEAD \/ c.height = p.locals + p.temps
                    BY <1>12 DEF Sits
                <5> QED BY <1>7, <1>9, <3>2, <5>1, <5>2
            <4> QED BY <1>7, <1>9, <1>10, <3>2, <4>1, <4>2 DEF Meeting
        <3> QED BY <3>1, <3>2
    <2> QED BY <1>11, <1>12, <2>1, JumpsMeetOn
<1>16. d.last_break = 0 /\ d.scopeDepth = c.scopeDepth
    BY <1>7, <1>12 DEF SameSettings
<1>17. Standing(b, t, w, x, q)
    BY <1>2, <1>4, <1>5, <1>11, <1>14, <1>15, <1>16, StandsOn DEF GoesOn
<1> QED BY <1>1, <1>17

(* What has grown has grown on from before.                                *)
LEMMA GrownOn ==
    ASSUME NEW c \in Contexts, NEW d \in Contexts, NEW e \in Contexts, Grown(c, d), Grown(d, e)
    PROVE  Grown(c, e)
<1>1. PICK l \in Nat : l = Len(c.code)
    BY StackTypes
<1>2. PICK m \in Nat : m = Len(d.code)
    BY StackTypes
<1>3. PICK n \in Nat : n = Len(e.code)
    BY StackTypes
<1>4. m >= l /\ n >= m
    BY <1>1, <1>2, <1>3 DEF Grown
<1>5. \A i \in 1..l : e.code[i].h = c.code[i].h
    <2>1. ASSUME NEW i \in 1..l PROVE e.code[i].h = c.code[i].h
        <3>1. i \in 1..m
            BY <1>4
        <3> QED BY <1>1, <1>2, <3>1 DEF Grown
    <2> QED BY <2>1
<1>6. ASSUME c.height # DEAD PROVE HeightAt(e, l) = c.height
    <2>1. HeightAt(d, l) = c.height /\ l \in 0..Len(d.code)
        BY <1>1, <1>2, <1>4, <1>6 DEF Grown
    <2> QED BY <1>6, <2>1, HeightsStay
<1> QED BY <1>1, <1>3, <1>4, <1>5, <1>6 DEF Grown

LEMMA ReachesOn ==
    ASSUME NEW c \in Contexts, NEW d \in Contexts, Grown(c, d), NEW jump, NEW height, NEW x,
           Reaches(c, jump, height, x)
    PROVE  Reaches(d, jump, height, x)
<1>1. jump \in 1..Len(d.code) /\ d.code[jump].h = c.code[jump].h
    BY StackTypes DEF Reaches, Grown
<1> QED BY <1>1 DEF Reaches

LEMMA RestartsOn ==
    ASSUME NEW c \in Contexts, NEW d \in Contexts, Grown(c, d), NEW position, NEW x \in Points,
           Restarts(c, position, x)
    PROVE  Restarts(d, position, x)
<1>1. position \in 0..Len(c.code) /\ position \in 0..Len(d.code)
    BY StackTypes DEF Restarts, Grown
<1>2. ASSUME x.path = "live" PROVE HeightAt(d, position) = x.locals
    <2>1. HeightAt(c, position) = x.locals /\ x.locals # DEAD
        BY <1>2, PointTypes DEF Restarts, DEAD
    <2> QED BY <1>1, <2>1, HeightsStay
<1> QED BY <1>1, <1>2 DEF Restarts

LEMMA EmitGrows ==
    ASSUME NEW s, Good(s), NEW op \in Operations, NEW arg \in Int
    PROVE  Grown(Current(s), Current(Emit(s, op, arg))) /\ Current(Emit(s, op, arg)) \in Contexts
<1>1. PICK name \in VariableNames : name = ""
    BY DEF VariableNames
<1>2. PICK t : t = EmitNamed(s, op, arg, name)
    OBVIOUS
<1>3. Good(t) /\ OneMore(Current(s), Current(t), op, arg, name)
    BY <1>2, EmitsOneMore DEF GoesOn, Follows
<1>4. Grown(Current(s), Current(t)) /\ Current(t) \in Contexts
    BY <1>3, CurrentIsFine, OneMoreGrows
<1> QED BY <1>1, <1>2, <1>4 DEF Emit

LEMMA UpdateIs ==
    ASSUME NEW s, Good(s), NEW d
    PROVE  Current(Update(s, d)) = d
<1>1. PICK S : S = Contexts \cup {d}
    OBVIOUS
<1>2. PICK front \in Seq(Contexts) : front = Front(s.contexts)
    BY FrontIsSeq, CurrentIsFine
<1>3. front \in Seq(S) /\ d \in S
    BY <1>1, <1>2
<1>4. PICK u : u = Append(front, d)
    OBVIOUS
<1>5. Len(u) = Len(front) + 1 /\ u[Len(front) + 1] = d
    BY <1>3, <1>4, AppendProperties
<1>6. Update(s, d).contexts = u
    BY <1>2, <1>4 DEF Update, Good, States
<1> QED BY <1>5, <1>6 DEF Current, Last

(* What leaves the code as it is may change what the top of the stack is.  *)
LEMMA RestyleStands ==
    ASSUME NEW b, NEW s, NEW w, NEW p, NEW q, Standing(b, s, w, p, q), NEW t, Follows(s, t),
           NEW c, c = Current(s), NEW d, d = Current(t), d.code = c.code, d.height = c.height,
           d.last_break = 0, Has(w, "define") => (c.scopeDepth > 0 <=> d.scopeDepth > 0),
           NEW x \in Points, x.locals = Len(d.visible), x.locals + x.temps = p.locals + p.temps,
           Live(p) => Live(x)
    PROVE  Standing(b, t, w, x, q)
<1>1. c \in Contexts /\ JumpsMeet(c) /\ Sits(c, p)
    BY StandingIs
<1>2. Grown(c, d)
    <2>1. HeightAt(d, Len(c.code)) = c.height
        BY <1>1, StackTypes DEF HeightAt
    <2> QED BY <1>1, <2>1, StackTypes DEF Grown
<1>3. JumpsMeet(d)
    BY <1>1 DEF JumpsMeet, HeightAt
<1>4. Sits(d, x)
    BY <1>1 DEF Sits, Live
<1> QED BY <1>1, <1>2, <1>3, <1>4, StandsOn

(* The same point, in a function whose loops alone have changed.           *)
LEMMA ResetStands ==
    ASSUME NEW b, NEW s, NEW w, NEW p, NEW q, Standing(b, s, w, p, q), NEW t,
           NEW continue, NEW break, NEW loops, Reset(s, t, continue, break, loops), break = 0
    PROVE  Standing(b, t, w, p, q)
<1>1. PICK c : c = Current(s)
    OBVIOUS
<1>2. PICK d : d = Current(t)
    OBVIOUS
<1>3. /\ Follows(s, t) /\ d.code = c.code /\ d.height = c.height /\ d.scopeDepth = c.scopeDepth
      /\ d.visible = c.visible /\ d.last_break = 0
    BY <1>1, <1>2 DEF Reset, BesideLoops
<1>4. p \in Points /\ p.locals = Len(c.visible)
    BY <1>1, StandingIs
<1> QED BY <1>1, <1>2, <1>3, <1>4, RestyleStands

(* addLocal: the value on top of the stack is the local's.                 *)
LEMMA AddStands ==
    ASSUME NEW b, NEW s, NEW w, NEW p, NEW q, Standing(b, s, w, p, q),
           NEW name \in VariableNames, AddLocal(s, name).error = NoError,
           NEW x \in Points, x.locals = p.locals + 1, x.temps = p.temps - 1, Live(p) => Live(x)
    PROVE  Standing(b, AddLocal(s, name), w, x, q)
<1>1. PICK t : t = AddLocal(s, name)
    OBVIOUS
<1>2. PICK c : c = Current(s)
    OBVIOUS
<1>3. c \in Contexts /\ Good(s) /\ c.last_break = 0 /\ p \in Points /\ p.locals = Len(c.visible)
    BY <1>2, StandingIs
<1>4. Follows(s, t)
    BY <1>1, <1>3, AddsLocal DEF GetsWider
<1>5. CASE Len(c.locals) = UINT8_COUNT
    <2>1. PICK what \in Errors : what = "Too many local variables"
        BY DEF Errors
    <2>2. PICK condition : condition = TRUE
        OBVIOUS
    <2>3. t = FailIf(s, condition, what)
        BY <1>1, <1>2, <1>5, <2>1, <2>2 DEF AddLocal
    <2>4. t.error = IF s.error = NoError THEN what ELSE s.error
        BY <1>3, <2>2, <2>3 DEF FailIf, Good, States
    <2>5. t.error # NoError
        BY <2>1, <2>4 DEF NoError
    <2> QED BY <1>1, <2>5
<1>6. CASE Len(c.locals) # UINT8_COUNT
    <2>1. PICK locals : locals = Append(c.locals, [name |-> name, depth |-> -1, captured |-> FALSE])
        OBVIOUS
    <2>2. PICK visible : visible = Append(c.visible, name)
        OBVIOUS
    <2>3. PICK d : d = [c EXCEPT !.locals = locals, !.visible = visible]
        OBVIOUS
    <2>4. t = Update(s, d)
        BY <1>1, <1>2, <1>6, <2>1, <2>2, <2>3 DEF AddLocal
    <2>5. Current(t) = d
        BY <1>3, <2>4, UpdateIs
    <2>6. /\ d.code = c.code /\ d.height = c.height /\ d.last_break = c.last_break
          /\ d.scopeDepth = c.scopeDepth /\ d.visible = visible
        BY <1>3, <2>3 DEF Contexts
    <2>7. Len(visible) = Len(c.visible) + 1
        <3>1. c.visible \in Seq(VariableNames)
            BY <1>3, ContextTypes
        <3> QED BY <2>2, <3>1, AppendProperties
    <2>8. x.locals = Len(d.visible) /\ x.locals + x.temps = p.locals + p.temps
        BY <1>3, <2>6, <2>7, PointTypes
    <2>9. Standing(b, t, w, x, q)
        BY <1>2, <1>3, <1>4, <2>5, <2>6, <2>8, RestyleStands
    <2> QED BY <1>1, <2>9
<1> QED BY <1>5, <1>6

(* declareVariable, in a scope other than the global one.                  *)
Declared(c, p, x) ==
    /\ x \in Points /\ x.path = p.path
    /\ c.scopeDepth > 0 => x.locals = p.locals + 1 /\ x.temps = p.temps - 1
    /\ c.scopeDepth = 0 => x.locals = p.locals /\ x.temps = p.temps

LEMMA DeclareStands ==
    ASSUME NEW b, NEW s, NEW w, NEW p, NEW q, Standing(b, s, w, p, q),
           NEW name \in VariableNames, DeclareVariable(s, name).error = NoError,
           NEW x, Declared(Current(s), p, x)
    PROVE  Standing(b, DeclareVariable(s, name), w, x, q)
<1>1. PICK c : c = Current(s)
    OBVIOUS
<1>2. PICK t : t = DeclareVariable(s, name)
    OBVIOUS
<1>3. c \in Contexts /\ c.scopeDepth \in Nat /\ p \in Points
    BY <1>1, StandingIs, ContextTypes
<1>4. CASE c.scopeDepth = 0
    <2>1. t = s
        BY <1>1, <1>2, <1>4 DEF DeclareVariable
    <2>2. x = p
        BY <1>1, <1>3, <1>4, PointsEqual DEF Declared
    <2> QED BY <1>2, <2>1, <2>2
<1>5. CASE c.scopeDepth # 0
    <2>1. PICK redeclared : redeclared =
            \E i \in 1..Len(c.locals) : InThisScope(c, i) /\ c.locals[i].name = name
        OBVIOUS
    <2>2. PICK what \in Errors : what = "Already a variable with this name"
        BY DEF Errors
    <2>3. PICK u : u = FailIf(s, redeclared, what)
        OBVIOUS
    <2>4. Standing(b, u, w, p, q)
        BY <2>3, FailStands
    <2>5. t = AddLocal(u, name)
        BY <1>1, <1>2, <1>5, <2>1, <2>2, <2>3 DEF DeclareVariable
    <2>6. x \in Points /\ x.locals = p.locals + 1 /\ x.temps = p.temps - 1 /\ (Live(p) => Live(x))
        BY <1>1, <1>3, <1>5 DEF Declared, Live
    <2>7. Standing(b, AddLocal(u, name), w, x, q)
        BY <1>2, <2>4, <2>5, <2>6, AddStands
    <2> QED BY <1>2, <2>5, <2>7
<1> QED BY <1>4, <1>5

(* markInitialized.                                                        *)
LEMMA MarkStands ==
    ASSUME NEW b, NEW s, NEW w, NEW p, NEW q, Standing(b, s, w, p, q), CanDefine(Current(s))
    PROVE  Standing(b, MarkInitialized(s), w, p, q)
<1>1. PICK c : c = Current(s)
    OBVIOUS
<1>2. PICK t : t = MarkInitialized(s)
    OBVIOUS
<1>3. c \in Contexts /\ Good(s) /\ c.last_break = 0 /\ p \in Points /\ p.locals = Len(c.visible)
    BY <1>1, StandingIs
<1>4. CASE c.scopeDepth = 0
    <2>1. t = s
        BY <1>1, <1>2, <1>4 DEF MarkInitialized
    <2> QED BY <1>2, <2>1
<1>5. CASE c.scopeDepth # 0
    <2>1. PICK d : d = [c EXCEPT !.locals[Len(c.locals)].depth = c.scopeDepth]
        OBVIOUS
    <2>2. t = Update(s, d)
        BY <1>1, <1>2, <1>5, <2>1 DEF MarkInitialized
    <2>3. Current(t) = d
        BY <1>3, <2>2, UpdateIs
    <2>4. /\ d.code = c.code /\ d.height = c.height /\ d.last_break = c.last_break
          /\ d.scopeDepth = c.scopeDepth /\ d.visible = c.visible
        BY <1>3, <2>1 DEF Contexts
    <2>5. Follows(s, t)
        BY <1>2, <1>3, MarksInitialized DEF GetsWider
    <2>6. Standing(b, t, w, p, q)
        BY <1>1, <1>3, <2>3, <2>4, <2>5, RestyleStands
    <2> QED BY <1>2, <2>6
<1> QED BY <1>4, <1>5

(* defineVariable: a local keeps its value, a global takes it.             *)
Settles(c, p, x) ==
    /\ x \in Points /\ x.locals = p.locals /\ (Live(p) => Live(x))
    /\ x.temps = p.temps + (IF c.scopeDepth > 0 THEN 0 ELSE -1)

LEMMA DefineStands ==
    ASSUME NEW b, NEW s, NEW w, NEW p, NEW q, Standing(b, s, w, p, q), CanDefine(Current(s)),
           NEW name \in VariableNames, NEW x, Settles(Current(s), p, x)
    PROVE  Standing(b, DefineVariable(s, name), w, x, q)
<1>1. p \in Points /\ Current(s) \in Contexts
    BY StandingIs
<1>2. CASE Current(s).scopeDepth > 0
    <2>1. x \in Points /\ x.locals = p.locals /\ x.temps = p.temps /\ (Live(p) => Live(x))
        BY <1>1, <1>2, PointTypes DEF Settles
    <2>2. Standing(b, MarkInitialized(s), w, p, q)
        BY MarkStands
    <2>3. PICK t : t = MarkInitialized(s)
        OBVIOUS
    <2>4. /\ Follows(t, t) /\ Current(t).last_break = 0 /\ p.locals = Len(Current(t).visible)
        BY <2>2, <2>3, StandingIs, FollowsSelf
    <2>5. Standing(b, t, w, x, q)
        BY <2>1, <2>2, <2>3, <2>4, RestyleStands
    <2> QED BY <1>2, <2>3, <2>5 DEF DefineVariable
<1>3. CASE ~(Current(s).scopeDepth > 0)
    <2>1. "DEFINE_GLOBAL" \in PlainOperations /\ Effect("DEFINE_GLOBAL", 0) = -1
        BY DEF PlainOperations, Operations, Jumping, Pushes, Pops, Keeps, Diverts, Calls, Effect
    <2>2. Standing(b, EmitNamed(s, "DEFINE_GLOBAL", 0, name), w, x, q)
        BY <1>1, <1>3, <2>1, EmitNamedStands DEF Settles
    <2> QED BY <1>3, <2>2 DEF DefineVariable
<1> QED BY <1>2, <1>3

(* beginScope.                                                             *)
LEMMA BeginScopeStands ==
    ASSUME NEW b, NEW s, NEW w, NEW p, NEW q, Standing(b, s, w, p, q), ~Has(w, "define")
    PROVE  Standing(b, BeginScope(s), w, p, q)
<1>1. PICK t : t = BeginScope(s)
    OBVIOUS
<1>2. PICK c : c = Current(s)
    OBVIOUS
<1>3. c \in Contexts /\ Good(s) /\ c.last_break = 0 /\ p \in Points /\ p.locals = Len(c.visible)
    BY <1>2, StandingIs
<1>4. PICK d : d = [c EXCEPT !.scopeDepth = c.scopeDepth + 1]
    OBVIOUS
<1>5. Follows(s, t) /\ Current(t) = d
    BY <1>1, <1>2, <1>3, <1>4, ScopeBegins
<1>6. /\ d.code = c.code /\ d.height = c.height /\ d.last_break = c.last_break
      /\ d.visible = c.visible
    BY <1>3, <1>4 DEF Contexts
<1>7. Standing(b, t, w, p, q)
    BY <1>2, <1>3, <1>5, <1>6, RestyleStands
<1> QED BY <1>1, <1>7

(* adjust_locals, down to the depth of the scope around: the stack is as   *)
(* high as there are locals left.                                          *)
LEMMA AdjustsDown ==
    ASSUME NEW c, Fine(c), JumpsMeet(c), NEW depth \in Nat,
           NEW s, Good(s), Current(s) = c, NEW t, t = AdjustLocals(s, depth),
           NEW d, d = Current(t), NEW keep, keep = Kept(c, depth),
           NEW count \in Nat, count = Len(c.locals)
    PROVE  /\ Grown(c, d) /\ JumpsMeet(d) /\ d.last_break = c.last_break
           /\ d.visible = c.visible /\ d.scopeDepth = c.scopeDepth
           /\ d.height = IF c.height = DEAD THEN DEAD ELSE c.height - (count - keep)
<1>1. c \in Contexts
    BY DEF Fine
<1>2. keep \in 1..count
    BY KeptLocals
<1>3. PICK more : more = [i \in 1..(count - keep) |->
                    [op |-> IF c.locals[count + 1 - i].captured THEN "CLOSE_UPVALUE" ELSE "POP",
                     arg |-> 0, name |-> "",
                     h |-> IF c.height = DEAD THEN DEAD ELSE c.height + 1 - i]]
    OBVIOUS
<1>4. PICK number \in Nat : number = count - keep
    BY <1>2
<1>5. PICK e : e = [c EXCEPT !.locals = SubSeq(c.locals, 1, keep), !.code = c.code \o more,
                             !.height = IF c.height = DEAD THEN DEAD ELSE c.height - (count - keep)]
    OBVIOUS
<1>6. t = Update(s, e)
    BY <1>3, <1>5 DEF AdjustLocals, Kept
<1>7. d = e
    BY <1>6, UpdateIs
<1>8. /\ d.code = c.code \o more /\ d.last_break = c.last_break /\ d.visible = c.visible
      /\ d.scopeDepth = c.scopeDepth
      /\ d.height = IF c.height = DEAD THEN DEAD ELSE c.height - (count - keep)
    BY <1>1, <1>5, <1>7 DEF Contexts
<1>9. \A i \in 1..number : more[i].op \in {"CLOSE_UPVALUE", "POP"}
    BY <1>3, <1>4
<1>10. \A i \in 1..number : more[i].h = IF c.height = DEAD THEN DEAD ELSE c.height + 1 - i
    BY <1>3, <1>4
<1>11. PICK n \in Nat : n = Len(c.code)
    BY <1>1, StackTypes
<1>12. /\ Len(d.code) = n + number
       /\ \A i \in 1..n : d.code[i] = c.code[i]
       /\ \A i \in 1..number : d.code[n + i] = more[i]
    <2>1. PICK S : S = Instructions \cup {more[i] : i \in 1..number}
        OBVIOUS
    <2>2. PICK old \in Seq(Instructions) : old = c.code
        BY <1>1, StackTypes
    <2>3. old \in Seq(S)
        BY <2>1
    <2>4. more \in [1..number -> S]
        BY <1>3, <1>4, <2>1
    <2>5. more \in Seq(S) /\ Len(more) = number
        BY <2>4, FunctionIsSeq
    <2>6. PICK code : code = old \o more
        OBVIOUS
    <2>7. n = Len(old) /\ number = Len(more)
        BY <1>11, <2>2, <2>5
    <2> old \in Seq(S) /\ more \in Seq(S)
        BY <2>3, <2>5
    <2>8. Len(code) = n + number /\ \A i \in 1..n : code[i] = old[i]
        BY <2>6, <2>7, Joined
    <2>9. \A i \in 1..number : code[n + i] = more[i]
        BY <2>6, <2>7, Joined
    <2> QED BY <1>8, <2>2, <2>6, <2>8, <2>9
<1>13. HeightAt(d, n) = c.height \/ c.height = DEAD
    <2>1. CASE number = 0
        <3>1. HeightAt(d, n) = d.height
            BY <1>12, <2>1 DEF HeightAt
        <3>2. c.height # DEAD => d.height = c.height
            BY <1>1, <1>4, <1>8, <2>1, StackTypes
        <3> QED BY <3>1, <3>2
    <2>2. CASE number # 0
        <3>1. 1 \in 1..number /\ n < n + number
            BY <2>2
        <3>2. HeightAt(d, n) = more[1].h
            BY <1>12, <3>1 DEF HeightAt
        <3>3. c.height # DEAD => more[1].h = c.height + 1 - 1
            BY <1>10, <3>1
        <3>4. c.height \in Int
            BY <1>1, StackTypes
        <3> QED BY <3>2, <3>3, <3>4
    <2> QED BY <2>1, <2>2
<1>14. Grown(c, d)
    BY <1>11, <1>12, <1>13 DEF Grown
<1>15. JumpsMeet(d)
    <2>1. ASSUME NEW i \in 1..Len(d.code), IsJump(d.code[i])
          PROVE  i <= Len(c.code) /\ IsJump(c.code[i]) /\ d.code[i].arg = c.code[i].arg
        <3>1. CASE i \in 1..n
            BY <1>11, <1>12, <2>1, <3>1
        <3>2. CASE \E l \in 1..number : i = n + l
            <4>1. PICK l \in 1..number : i = n + l
                BY <3>2
            <4>2. d.code[i].op \in {"CLOSE_UPVALUE", "POP"}
                BY <1>9, <1>12, <4>1
            <4> QED BY <2>1, <4>2 DEF IsJump
        <3>3. i \in 1..n + number
            BY <1>12
        <3> QED BY <3>1, <3>2, <3>3, InEither
    <2>2. d \in Contexts
        <3>1. Good(t)
            BY Adjusts DEF Follows
        <3> QED BY <3>1, CurrentIsFine
    <2> QED BY <1>1, <1>14, <2>1, <2>2, JumpsMeetOn
<1> QED BY <1>8, <1>14, <1>15

(* endScope, where each local of the scope is on the stack and nothing     *)
(* above them.                                                             *)
LEMMA EndScopeStands ==
    ASSUME NEW b, NEW s, NEW w, NEW p, NEW q, Standing(b, s, w, p, q), ~Has(w, "define"),
           NEW c, c = Current(s), NEW outer \in Nat, c.scopeDepth = outer + 1,
           NEW base \in Nat, base <= Len(c.visible), Kept(c, outer) = base,
           Len(c.locals) = Len(c.visible), p.temps = 0,
           NEW x \in Points, x.locals = base, x.temps = 0, Live(p) => Live(x)
    PROVE  Standing(b, EndScope(s, base), w, x, q)
<1>1. PICK t : t = EndScope(s, base)
    OBVIOUS
<1>2. /\ c \in Contexts /\ Fine(c) /\ Good(s) /\ JumpsMeet(c) /\ c.last_break = 0 /\ Sits(c, p)
      /\ p \in Points /\ p.locals = Len(c.visible)
    BY StandingIs, CurrentIsFine
<1>3. Follows(s, t)
    BY <1>1, <1>2, ScopeEnds DEF EndsScope
<1>4. PICK visible \in Seq(VariableNames) : visible = SubSeq(c.visible, 1, base) /\ Len(visible) = base
    <2>1. PICK all \in Seq(VariableNames) : all = c.visible
        BY <1>2, ScopeTypes
    <2>2. PICK part : part = SubSeq(all, 1, base)
        OBVIOUS
    <2>3. base <= Len(all)
        BY <2>1
    <2>4. part \in Seq(VariableNames) /\ Len(part) = base
        BY <2>2, <2>3, InitialOf
    <2> QED BY <2>1, <2>2, <2>4
<1>5. PICK e : e = [c EXCEPT !.scopeDepth = outer, !.visible = visible]
    OBVIOUS
<1>6. /\ e \in Contexts /\ e.scopeDepth = outer /\ e.visible = visible /\ e.code = c.code
      /\ e.locals = c.locals /\ e.upvalues = c.upvalues /\ e.height = c.height
      /\ e.type = c.type /\ e.last_break = c.last_break /\ e.last_continue = c.last_continue
    BY <1>2, <1>5 DEF Contexts
<1>7. Fine(e)
    BY <1>2, <1>6 DEF Fine
<1>8. PICK u : u = Update(s, e)
    OBVIOUS
<1>9. Good(u) /\ Current(u) = e
    BY <1>2, <1>7, <1>8, Updated DEF Follows
<1>10. t = AdjustLocals(u, outer)
    <2>1. outer = c.scopeDepth - 1
        BY <1>2
    <2> QED BY <1>1, <1>4, <1>5, <1>8, <2>1 DEF EndScope
<1>11. PICK d : d = Current(t)
    OBVIOUS
<1>12. JumpsMeet(e)
    BY <1>2, <1>6 DEF JumpsMeet, HeightAt
<1>13. Kept(e, outer) = base
    BY <1>6 DEF Kept
<1>14. PICK count \in Nat : count = Len(e.locals)
    BY <1>6, ContextTypes
<1>15. /\ Grown(e, d) /\ JumpsMeet(d) /\ d.last_break = e.last_break
       /\ d.visible = e.visible /\ d.scopeDepth = e.scopeDepth
       /\ d.height = IF e.height = DEAD THEN DEAD ELSE e.height - (count - base)
    <2>1. Current(u) = e /\ Good(u)
        BY <1>9
    <2>2. PICK keep : keep = Kept(e, outer)
        OBVIOUS
    <2>3. keep = base
        BY <1>13, <2>2
    <2>4. /\ Grown(e, d) /\ JumpsMeet(d) /\ d.last_break = e.last_break
          /\ d.visible = e.visible /\ d.scopeDepth = e.scopeDepth
          /\ d.height = IF e.height = DEAD THEN DEAD ELSE e.height - (count - keep)
        BY <1>7, <1>10, <1>11, <1>12, <1>14, <2>1, <2>2, AdjustsDown
    <2> QED BY <2>3, <2>4
<1>16. Grown(c, d)
    BY <1>6, <1>15 DEF Grown, HeightAt
<1>17. Sits(d, x)
    <2>1. x.locals = Len(d.visible)
        BY <1>4, <1>6, <1>15
    <2>2. c.height # DEAD => c.height = count /\ p.path = "live"
        BY <1>2, <1>6, <1>14, PointTypes DEF Sits
    <2>3. d.height # DEAD => d.height = base /\ x.path = "live"
        BY <1>6, <1>15, <2>2 DEF Live
    <2>4. x.locals + x.temps = base
        OBVIOUS
    <2> QED BY <2>1, <2>3, <2>4 DEF Sits
<1>18. Standing(b, t, w, x, q)
    BY <1>2, <1>3, <1>6, <1>11, <1>15, <1>16, <1>17, StandsOn
<1> QED BY <1>1, <1>18

(* The stack behind the jump to the body of a for statement is as high as  *)
(* in front of it.                                                         *)
LEMMA ReheightStands ==
    ASSUME NEW b, NEW s, NEW w, NEW p, NEW q, Standing(b, s, w, p, q),
           Current(s).height = DEAD, NEW height \in Int,
           NEW x \in Points, x.locals = p.locals, height \in {DEAD, x.locals + x.temps},
           height # DEAD => Live(x)
    PROVE  /\ Standing(b, Update(s, [Current(s) EXCEPT !.height = height]), w, x, q)
           /\ Current(Update(s, [Current(s) EXCEPT !.height = height])).height = height
           /\ Grown(Current(s), Current(Update(s, [Current(s) EXCEPT !.height = height])))
<1>1. PICK c : c = Current(s)
    OBVIOUS
<1>2. PICK d : d = [c EXCEPT !.height = height]
    OBVIOUS
<1>3. PICK t : t = Update(s, d)
    OBVIOUS
<1>4. /\ c \in Contexts /\ Good(s) /\ JumpsMeet(c) /\ c.last_break = 0 /\ p \in Points
      /\ p.locals = Len(c.visible)
    BY <1>1, StandingIs
<1>5. Follows(s, t) /\ Current(t) = d
    BY <1>1, <1>2, <1>3, <1>4, Reheighted, UpdateIs DEF GoesOn
<1>6. /\ d.code = c.code /\ d.last_break = 0 /\ d.visible = c.visible
      /\ d.scopeDepth = c.scopeDepth /\ d.height = height /\ d \in Contexts
    BY <1>2, <1>4 DEF Contexts
<1>7. Grown(c, d)
    BY <1>1, <1>4, <1>6, StackTypes DEF Grown
<1>8. JumpsMeet(d)
    <2>1. \A i \in 1..Len(d.code) : IsJump(d.code[i]) =>
            i <= Len(c.code) /\ IsJump(c.code[i]) /\ d.code[i].arg = c.code[i].arg
        BY <1>4, <1>6, StackTypes
    <2> QED BY <1>4, <1>6, <1>7, <2>1, JumpsMeetOn
<1>9. Sits(d, x)
    BY <1>4, <1>6 DEF Sits, Live
<1>10. Standing(b, t, w, x, q)
    BY <1>1, <1>5, <1>6, <1>7, <1>8, <1>9, StandsOn
<1> QED BY <1>1, <1>2, <1>3, <1>5, <1>6, <1>7, <1>10

(* What was reported first stays: an error is never taken back.            *)
Judged(s) == "error" \in DOMAIN s
Heeds(s, t) == Judged(t) /\ (t.error = NoError => s.error = NoError)

LEMMA HeedsOn ==
    ASSUME NEW s, NEW t, NEW u, Heeds(s, t), Heeds(t, u)
    PROVE  Heeds(s, u)
BY DEF Heeds

LEMMA HeedsSelf ==
    ASSUME NEW s, Judged(s)
    PROVE  Heeds(s, s)
BY DEF Heeds

LEMMA UpdateHeeds ==
    ASSUME NEW s, Judged(s), NEW c
    PROVE  Heeds(s, Update(s, c))
BY DEF Update, Heeds, Judged

LEMMA FailHeeds ==
    ASSUME NEW s, Judged(s), NEW condition, NEW what
    PROVE  Heeds(s, FailIf(s, condition, what))
<1>1. PICK t : t = FailIf(s, condition, what)
    OBVIOUS
<1>2. t = [s EXCEPT !.error = IF condition /\ @ = NoError THEN what ELSE @]
    BY <1>1 DEF FailIf
<1>3. Judged(t) /\ t.error = IF condition /\ s.error = NoError THEN what ELSE s.error
    BY <1>2 DEF Judged
<1>4. CASE s.error = NoError
    BY <1>1, <1>3, <1>4 DEF Heeds
<1>5. CASE s.error # NoError
    BY <1>1, <1>3, <1>5 DEF Heeds
<1> QED BY <1>4, <1>5

LEMMA EmitHeeds ==
    ASSUME NEW s, Judged(s)
    PROVE  /\ \A op, arg, name : Heeds(s, EmitNamed(s, op, arg, name))
           /\ \A op, arg : Heeds(s, Emit(s, op, arg))
           /\ \A op : Heeds(s, EmitJump(s, op))
           /\ \A start : Heeds(s, EmitLoop(s, start))
           /\ \A jump : Heeds(s, PatchJump(s, jump))
<1>1. \A op, arg, name : Heeds(s, EmitNamed(s, op, arg, name))
    BY UpdateHeeds DEF EmitNamed
<1>2. \A op, arg : Heeds(s, Emit(s, op, arg))
    BY <1>1 DEF Emit
<1>3. \A op : Heeds(s, EmitJump(s, op))
    BY <1>2 DEF EmitJump
<1>4. \A start : Heeds(s, EmitLoop(s, start))
    BY <1>2 DEF EmitLoop
<1>5. \A jump : Heeds(s, PatchJump(s, jump))
    BY UpdateHeeds DEF PatchJump
<1> QED BY <1>1, <1>2, <1>3, <1>4, <1>5

LEMMA ReturnHeeds ==
    ASSUME NEW s, Judged(s)
    PROVE  Heeds(s, EmitReturn(s))
<1>1. PICK t : t = IF Current(s).type = "initializer" THEN Emit(s, "GET_LOCAL", 0) ELSE Emit(s, "NIL", 0)
    OBVIOUS
<1>2. Heeds(s, t)
    BY <1>1, EmitHeeds
<1>3. Heeds(t, Emit(t, "RETURN", 0))
    BY <1>2, EmitHeeds DEF Heeds
<1>4. Heeds(s, Emit(t, "RETURN", 0))
    BY <1>2, <1>3, HeedsOn
<1> QED BY <1>1, <1>4 DEF EmitReturn

LEMMA ScopeHeeds ==
    ASSUME NEW s, Judged(s)
    PROVE  /\ Heeds(s, BeginScope(s)) /\ \A depth : Heeds(s, AdjustLocals(s, depth))
           /\ \A base : Heeds(s, EndScope(s, base))
<1>1. Heeds(s, BeginScope(s))
    BY UpdateHeeds DEF BeginScope
<1>2. \A t, depth : Judged(t) => Heeds(t, AdjustLocals(t, depth))
    BY UpdateHeeds DEF AdjustLocals
<1>3. ASSUME NEW base PROVE Heeds(s, EndScope(s, base))
    <2>1. PICK outer : outer = Current(s).scopeDepth - 1
        OBVIOUS
    <2>2. PICK t : t = Update(s, [Current(s) EXCEPT !.scopeDepth = outer,
                                                    !.visible = SubSeq(@, 1, base)])
        OBVIOUS
    <2>3. Heeds(s, t)
        BY <2>2, UpdateHeeds
    <2>4. Heeds(t, AdjustLocals(t, outer))
        BY <1>2, <2>3 DEF Heeds
    <2>5. EndScope(s, base) = AdjustLocals(t, outer)
        BY <2>1, <2>2 DEF EndScope
    <2> QED BY <2>3, <2>4, <2>5, HeedsOn
<1> QED BY <1>1, <1>2, <1>3

LEMMA DeclaresHeed ==
    ASSUME NEW s, Judged(s), NEW name
    PROVE  /\ Heeds(s, AddLocal(s, name)) /\ Heeds(s, DeclareVariable(s, name))
           /\ Heeds(s, MarkInitialized(s)) /\ Heeds(s, DefineVariable(s, name))
<1>1. \A t : Judged(t) => Heeds(t, AddLocal(t, name))
    BY UpdateHeeds, FailHeeds DEF AddLocal
<1>2. Heeds(s, DeclareVariable(s, name))
    <2>1. CASE Current(s).scopeDepth = 0
        BY <2>1, HeedsSelf DEF DeclareVariable
    <2>2. CASE Current(s).scopeDepth # 0
        <3>1. PICK redeclared : redeclared = \E i \in 1..Len(Current(s).locals) :
                InThisScope(Current(s), i) /\ Current(s).locals[i].name = name
            OBVIOUS
        <3>2. PICK t : t = FailIf(s, redeclared, "Already a variable with this name")
            OBVIOUS
        <3>3. Heeds(s, t)
            BY <3>2, FailHeeds
        <3>4. Heeds(t, AddLocal(t, name))
            BY <1>1, <3>3 DEF Heeds
        <3>5. DeclareVariable(s, name) = AddLocal(t, name)
            BY <2>2, <3>1, <3>2 DEF DeclareVariable
        <3> QED BY <3>3, <3>4, <3>5, HeedsOn
    <2> QED BY <2>1, <2>2
<1>3. Heeds(s, MarkInitialized(s))
    BY UpdateHeeds, HeedsSelf DEF MarkInitialized
<1>4. Heeds(s, DefineVariable(s, name))
    BY <1>3, EmitHeeds DEF DefineVariable
<1> QED BY <1>1, <1>2, <1>3, <1>4

LEMMA LookHeeds ==
    ASSUME NEW s, Judged(s), NEW name, NEW canAssign
    PROVE  Heeds(s, NamedVariable(s, name, canAssign))
<1>1. ASSUME NEW owner PROVE Heeds(s, ResolveUpvalue(s, owner, name).s)
    <2>1. PICK t : t = FailIf(s, s.contexts[owner].locals[ResolveLocal(s.contexts[owner], name)].depth = -1,
                              "Can't read local variable in its own initializer")
        OBVIOUS
    <2>2. PICK full : full = \E j \in owner + 1..Len(s.contexts) : Links(s, owner, name)[j].full
        OBVIOUS
    <2>3. PICK u : u = FailIf(t, full, "Too many closure variables")
        OBVIOUS
    <2>4. Heeds(s, t)
        BY <2>1, FailHeeds
    <2>5. Heeds(t, u)
        BY <2>3, <2>4, FailHeeds DEF Heeds
    <2>6. PICK cs : ResolveUpvalue(s, owner, name).s = [u EXCEPT !.contexts = cs]
        BY <2>1, <2>2, <2>3 DEF ResolveUpvalue
    <2>7. Heeds(u, [u EXCEPT !.contexts = cs])
        BY <2>5 DEF Heeds, Judged
    <2>8. Heeds(s, u)
        BY <2>4, <2>5, HeedsOn
    <2> QED BY <2>6, <2>7, <2>8, HeedsOn
<1>2. PICK c : c = Current(s)
    OBVIOUS
<1>3. PICK slot : slot = ResolveLocal(c, name)
    OBVIOUS
<1>4. PICK owner : owner = Max({0} \cup {j \in 1..Len(s.contexts) - 1 : ResolveLocal(s.contexts[j], name) # 0})
    OBVIOUS
<1>5. PICK x : x = FailIf(s, c.locals[slot].depth = -1, "Can't read local variable in its own initializer")
    OBVIOUS
<1>6. PICK y : y = ResolveUpvalue(s, owner, name).s
    OBVIOUS
<1>7. Heeds(s, x) /\ Heeds(s, y)
    BY <1>1, <1>5, <1>6, FailHeeds
<1>8. PICK t : t = NamedVariable(s, name, canAssign)
    OBVIOUS
<1>9. \E op, arg : t = EmitNamed(x, op, arg, name) \/ t = EmitNamed(y, op, arg, name) \/ t = EmitNamed(s, op, arg, name)
    <2>1. CASE slot # 0
        <3>1. t = EmitNamed(x, IF canAssign THEN "SET_LOCAL" ELSE "GET_LOCAL", slot - 1, name)
            BY <1>2, <1>3, <1>5, <1>8, <2>1 DEF NamedVariable
        <3> QED BY <3>1
    <2>2. CASE slot = 0 /\ owner # 0
        <3>1. t = EmitNamed(y, IF canAssign THEN "SET_UPVALUE" ELSE "GET_UPVALUE",
                            ResolveUpvalue(s, owner, name).at, name)
            BY <1>2, <1>3, <1>4, <1>6, <1>8, <2>2 DEF NamedVariable
        <3> QED BY <3>1
    <2>3. CASE slot = 0 /\ owner = 0
        <3>1. t = EmitNamed(s, IF canAssign THEN "SET_GLOBAL" ELSE "GET_GLOBAL", 0, name)
            BY <1>2, <1>3, <1>4, <1>8, <2>3 DEF NamedVariable
        <3> QED BY <3>1
    <2> QED BY <2>1, <2>2, <2>3
<1>10. PICK op, arg : t = EmitNamed(x, op, arg, name) \/ t = EmitNamed(y, op, arg, name) \/ t = EmitNamed(s, op, arg, name)
    BY <1>9
<1>11. CASE t = EmitNamed(x, op, arg, name)
    <2>1. Heeds(x, t)
        BY <1>7, <1>11, EmitHeeds DEF Heeds
    <2> QED BY <1>7, <1>8, <2>1, HeedsOn
<1>12. CASE t = EmitNamed(y, op, arg, name)
    <2>1. Heeds(y, t)
        BY <1>7, <1>12, EmitHeeds DEF Heeds
    <2> QED BY <1>7, <1>8, <2>1, HeedsOn
<1>13. CASE t = EmitNamed(s, op, arg, name)
    BY <1>8, <1>13, EmitHeeds
<1> QED BY <1>10, <1>11, <1>12, <1>13

LEMMA LoopsHeed ==
    ASSUME NEW s, Judged(s)
    PROVE  /\ Heeds(s, SaveBreakContext(s)) /\ \A position : Heeds(s, ContinueAt(s, position))
           /\ \A change : Heeds(s, Enclose(s, change))
           /\ \A loop : Heeds(s, CloseLoop(s, loop))
           /\ \A c : Heeds(s, Update(s, c))
<1>1. Heeds(s, SaveBreakContext(s))
    BY UpdateHeeds DEF SaveBreakContext
<1>2. \A position : Heeds(s, ContinueAt(s, position))
    BY UpdateHeeds DEF ContinueAt
<1>3. \A change : Heeds(s, Enclose(s, change))
    BY UpdateHeeds DEF Enclose
<1>4. \A c : Heeds(s, Update(s, c))
    BY UpdateHeeds
<1>5. ASSUME NEW t, Judged(t) PROVE Heeds(t, PatchBreak(t))
    <2>1. CASE Current(t).last_break = 0
        BY <1>5, <2>1, HeedsSelf DEF PatchBreak
    <2>2. CASE Current(t).last_break # 0
        <3>1. PICK u : u = PatchJump(t, Current(t).last_break)
            OBVIOUS
        <3>2. Heeds(t, u)
            BY <1>5, <3>1, EmitHeeds
        <3>3. Heeds(u, Update(u, [Current(u) EXCEPT !.last_break = 0]))
            BY <3>2, UpdateHeeds DEF Heeds
        <3>4. PatchBreak(t) = Update(u, [Current(u) EXCEPT !.last_break = 0])
            BY <2>2, <3>1 DEF PatchBreak
        <3> QED BY <3>2, <3>3, <3>4, HeedsOn
    <2> QED BY <2>1, <2>2
<1>6. ASSUME NEW loop PROVE Heeds(s, CloseLoop(s, loop))
    <2>1. PICK t : t = EmitLoop(Enclose(s, -1), loop.start)
        OBVIOUS
    <2>2. Heeds(s, t)
        <3>1. Heeds(Enclose(s, -1), t)
            BY <1>3, <2>1, EmitHeeds DEF Heeds
        <3> QED BY <1>3, <3>1, HeedsOn
    <2>3. PICK u : u = PatchJump(t, loop.exit)
        OBVIOUS
    <2>4. PICK v : v = PatchBreak(u)
        OBVIOUS
    <2>5. PICK x : x = Emit(v, "POP", 0)
        OBVIOUS
    <2>6. Heeds(s, u)
        BY <2>2, <2>3, EmitHeeds, HeedsOn DEF Heeds
    <2>7. Heeds(s, v)
        BY <1>5, <2>4, <2>6, HeedsOn DEF Heeds
    <2>8. Heeds(s, x)
        BY <2>5, <2>7, EmitHeeds, HeedsOn DEF Heeds
    <2>9. PICK y : y = IF loop.exit = NONE THEN t ELSE x
        OBVIOUS
    <2>10. Heeds(s, y)
        BY <2>2, <2>8, <2>9
    <2>11. CloseLoop(s, loop) = Restore(y, loop.saved)
        BY <2>1, <2>3, <2>4, <2>5, <2>9 DEF CloseLoop
    <2>12. Heeds(y, Restore(y, loop.saved))
        BY <2>10, UpdateHeeds DEF Heeds, Restore
    <2> QED BY <2>10, <2>11, <2>12, HeedsOn
<1> QED BY <1>1, <1>2, <1>3, <1>4, <1>6

(* So it is with each step.                                                *)
Heeded == UNCHANGED family /\ (error' = NoError => error = NoError)

LEMMA BecomesHeeds ==
    ASSUME NEW s, Heeds(Now, s), Becomes(s)
    PROVE  Heeded
BY DEF Becomes, Heeded, Heeds, Now

LEMMA NowHeeds == Judged(Now) /\ Heeds(Now, Now)
BY HeedsSelf DEF Judged, Now

LEMMA WalkHeeds ==
    ASSUME NEW s, Heeds(Now, s), NEW tasks,
           \/ Continue(s, tasks)
           \/ Statement(s, tasks)
           \/ Evaluate(s, tasks)
           \/ \E rest : Walk(s, tasks, rest)
           \/ Descend(s, tasks)
    PROVE  Heeded
BY BecomesHeeds DEF Continue, Statement, Evaluate, Walk, Descend

(* Two operations after one another, and three.                            *)
LEMMA PlainHeeds ==
    ASSUME NEW s, Heeds(Now, s)
    PROVE  /\ \A op, arg : Heeds(Now, Emit(s, op, arg))
           /\ \A op : Heeds(Now, EmitJump(s, op))
           /\ \A start : Heeds(Now, EmitLoop(s, start))
           /\ \A jump : Heeds(Now, PatchJump(s, jump))
           /\ Heeds(Now, EmitReturn(s)) /\ Heeds(Now, BeginScope(s))
           /\ \A base : Heeds(Now, EndScope(s, base))
           /\ \A depth : Heeds(Now, AdjustLocals(s, depth))
           /\ \A name : /\ Heeds(Now, AddLocal(s, name)) /\ Heeds(Now, DeclareVariable(s, name))
                        /\ Heeds(Now, DefineVariable(s, name))
           /\ Heeds(Now, MarkInitialized(s))
<1>1. Judged(s)
    BY DEF Heeds
<1>2. ASSUME NEW t, Heeds(s, t) PROVE Heeds(Now, t)
    BY <1>2, HeedsOn
<1> QED BY <1>1, <1>2, EmitHeeds, ReturnHeeds, ScopeHeeds, DeclaresHeed

LEMMA MoreHeeds ==
    ASSUME NEW s, Heeds(Now, s)
    PROVE  /\ \A condition, what : Heeds(Now, FailIf(s, condition, what))
           /\ \A name, canAssign : Heeds(Now, NamedVariable(s, name, canAssign))
           /\ Heeds(Now, SaveBreakContext(s)) /\ \A position : Heeds(Now, ContinueAt(s, position))
           /\ \A change : Heeds(Now, Enclose(s, change))
           /\ \A loop : Heeds(Now, CloseLoop(s, loop))
           /\ \A c : Heeds(Now, Update(s, c))
<1>1. Judged(s)
    BY DEF Heeds
<1>2. ASSUME NEW t, Heeds(s, t) PROVE Heeds(Now, t)
    BY <1>2, HeedsOn
<1> QED BY <1>1, <1>2, FailHeeds, LookHeeds, LoopsHeed

LEMMA DeclarationsHeed ==
    ASSUME Inv, VarDeclaration \/ EndDeclaration \/ FunDeclaration \/ EndFunction
    PROVE  Heeded
<1>1. ASSUME VarDeclaration PROVE Heeded
    <2>1. PICK x \in Identifiers :
            LET s == DeclareVariable(Now, x) IN
            \/ Statement(s, <<Expr, Define(x)>>)
            \/ Statement(DefineVariable(Emit(s, "NIL", 0), x), <<>>)
        BY <1>1 DEF VarDeclaration
    <2>2. PICK s : s = DeclareVariable(Now, x)
        OBVIOUS
    <2>3. Heeds(Now, s)
        BY <2>2, NowHeeds, PlainHeeds
    <2>4. PICK t : t = Emit(s, "NIL", 0)
        OBVIOUS
    <2>5. Heeds(Now, t)
        BY <2>3, <2>4, PlainHeeds
    <2>6. Heeds(Now, DefineVariable(t, x))
        BY <2>5, PlainHeeds
    <2> QED BY <2>1, <2>2, <2>3, <2>4, <2>6, WalkHeeds
<1>2. ASSUME EndDeclaration PROVE Heeded
    BY <1>2, NowHeeds, PlainHeeds, WalkHeeds DEF EndDeclaration
<1>3. ASSUME FunDeclaration PROVE Heeded
    <2>1. PICK x \in Identifiers, parameters \in Parameters :
            Descend(BeginFunction(MarkInitialized(DeclareVariable(Now, x)), "function", parameters),
                    <<Task("stats"), Function("function", x)>>)
        BY <1>3 DEF FunDeclaration
    <2>2. x \in VariableNames
        BY FamilyBounds DEF VariableNames
    <2>3. PICK s : s = DeclareVariable(Now, x)
        OBVIOUS
    <2>4. PICK t : t = MarkInitialized(s)
        OBVIOUS
    <2>5. Heeds(Now, t)
        <3>1. Heeds(Now, s)
            BY <2>3, NowHeeds, PlainHeeds
        <3> QED BY <2>4, <3>1, PlainHeeds
    <2>6. Good(t)
        <3>1. Good(Now)
            BY <1>3, NowIsGood DEF FunDeclaration
        <3>2. Tame(Now, s) /\ Good(s) /\ CanDefine(Current(s))
            BY <2>2, <2>3, <3>1, DeclaresTame
        <3>3. GetsWider(s, t)
            BY <2>4, <3>2, MarksInitialized
        <3> QED BY <3>3 DEF GetsWider, Follows
    <2>7. PICK m \in Nat : parameters \in [1..m -> VariableNames]
        BY <2>1, ParametersAre
    <2>8. PICK type \in FunctionTypes : type = "function"
        BY DEF FunctionTypes
    <2>9. PICK u : u = BeginFunction(t, type, parameters)
        OBVIOUS
    <2>10. Good(u) /\ (u.error = NoError => t.error = NoError)
        <3>1. PICK n : n = Len(t.contexts)
            OBVIOUS
        <3>2. PICK d : d = Current(u)
            OBVIOUS
        <3> QED BY <2>6, <2>7, <2>9, <3>1, <3>2, FunctionBegins
    <2>11. Heeds(Now, u)
        BY <2>5, <2>10 DEF Heeds, Judged, Good, States
    <2> QED BY <2>1, <2>3, <2>4, <2>8, <2>9, <2>11, WalkHeeds
<1>4. ASSUME EndFunction PROVE Heeded
    <2>1. PICK s : s = EmitReturn(Now)
        OBVIOUS
    <2>2. PICK outer : outer = [s EXCEPT !.contexts = Front(@)]
        OBVIOUS
    <2>3. Heeds(Now, s)
        BY <2>1, NowHeeds, PlainHeeds
    <2>4. Heeds(Now, outer)
        BY <2>2, <2>3 DEF Heeds, Judged
    <2>5. PICK made : made = Emit(outer, "CLOSURE", Len(functions) + 1)
        OBVIOUS
    <2>6. Heeds(Now, made)
        BY <2>4, <2>5, PlainHeeds
    <2>7. PICK x : x = Head(Work).name
        OBVIOUS
    <2>8. PICK t : t = CASE Head(Work).kind = "script" -> outer
                         [] Head(Work).kind = "function" -> DefineVariable(made, x)
                         [] Head(Work).kind = "method" -> Emit(made, "METHOD", 0)
        OBVIOUS
    <2>9. Head(Work).kind \in {"script", "function", "method"}
        BY <1>4, WorkEnds, TaskTypes DEF EndFunction
    <2>10. Becomes(t)
        BY <1>4, <2>1, <2>2, <2>5, <2>7, <2>8 DEF EndFunction
    <2>11. t = outer \/ t = DefineVariable(made, x) \/ t = Emit(made, "METHOD", 0)
        BY <2>8, <2>9
    <2>12. Heeds(Now, t)
        BY <2>4, <2>6, <2>11, PlainHeeds
    <2> QED BY <2>10, <2>12, BecomesHeeds
<1> QED BY <1>1, <1>2, <1>3, <1>4

LEMMA ClassesHeed ==
    ASSUME Inv, ClassDeclaration \/ Method \/ EndOfMethods \/ EndClass
    PROVE  Heeded
<1>1. ASSUME ClassDeclaration PROVE Heeded
    <2>1. PICK x \in Identifiers, inherits \in {FALSE, TRUE} :
            \E y \in IF inherits THEN Identifiers \ {x} ELSE {x} :
            LET declared == Emit(DeclareVariable(Now, x), "CLASS", 0)
                defined == DefineVariable(declared, x)
                super == BeginScope(NamedVariable(defined, y, FALSE))
                scoped == MarkInitialized(AddLocal(super, "super"))
                s == IF inherits THEN Emit(NamedVariable(scoped, x, FALSE), "INHERIT", 0) ELSE defined
            IN  Walk(NamedVariable(s, x, FALSE),
                     <<Task("methods"), Class(Visible(defined), inherits)>>, Work)
        BY <1>1 DEF ClassDeclaration
    <2>2. PICK y : 
            LET declared == Emit(DeclareVariable(Now, x), "CLASS", 0)
                defined == DefineVariable(declared, x)
                super == BeginScope(NamedVariable(defined, y, FALSE))
                scoped == MarkInitialized(AddLocal(super, "super"))
                s == IF inherits THEN Emit(NamedVariable(scoped, x, FALSE), "INHERIT", 0) ELSE defined
            IN  Walk(NamedVariable(s, x, FALSE),
                     <<Task("methods"), Class(Visible(defined), inherits)>>, Work)
        BY <2>1
    <2>3. PICK a : a = DeclareVariable(Now, x)
        OBVIOUS
    <2>4. PICK declared : declared = Emit(a, "CLASS", 0)
        OBVIOUS
    <2>5. PICK defined : defined = DefineVariable(declared, x)
        OBVIOUS
    <2>6. PICK b : b = NamedVariable(defined, y, FALSE)
        OBVIOUS
    <2>7. PICK super : super = BeginScope(b)
        OBVIOUS
    <2>8. PICK c : c = AddLocal(super, "super")
        OBVIOUS
    <2>9. PICK scoped : scoped = MarkInitialized(c)
        OBVIOUS
    <2>10. PICK d : d = NamedVariable(scoped, x, FALSE)
        OBVIOUS
    <2>11. PICK e : e = Emit(d, "INHERIT", 0)
        OBVIOUS
    <2>12. PICK s : s = IF inherits THEN e ELSE defined
        OBVIOUS
    <2>13. Heeds(Now, a)
        BY <2>3, NowHeeds, PlainHeeds
    <2>14. Heeds(Now, declared)
        BY <2>4, <2>13, PlainHeeds
    <2>15. Heeds(Now, defined)
        BY <2>5, <2>14, PlainHeeds
    <2>16. Heeds(Now, b)
        BY <2>6, <2>15, MoreHeeds
    <2>17. Heeds(Now, super)
        BY <2>7, <2>16, PlainHeeds
    <2>18. Heeds(Now, c)
        BY <2>8, <2>17, PlainHeeds
    <2>19. Heeds(Now, scoped)
        BY <2>9, <2>18, PlainHeeds
    <2>20. Heeds(Now, d)
        BY <2>10, <2>19, MoreHeeds
    <2>21. Heeds(Now, e)
        BY <2>11, <2>20, PlainHeeds
    <2>22. Heeds(Now, s)
        BY <2>12, <2>15, <2>21
    <2>23. Heeds(Now, NamedVariable(s, x, FALSE))
        BY <2>22, MoreHeeds
    <2>24. Walk(NamedVariable(s, x, FALSE),
                <<Task("methods"), Class(Visible(defined), inherits)>>, Work)
        BY <2>2, <2>3, <2>4, <2>5, <2>6, <2>7, <2>8, <2>9, <2>10, <2>11, <2>12
    <2> QED BY <2>23, <2>24, WalkHeeds
<1>2. ASSUME Method PROVE Heeded
    <2>1. PICK type \in MethodTypes, parameters \in Parameters :
            Descend(BeginFunction(Now, type, parameters), <<Task("stats"), Function("method", "")>>)
        BY <1>2 DEF Method, MethodTypes
    <2>2. Good(Now)
        BY <1>2, NowIsGood DEF Method
    <2>3. PICK m \in Nat : parameters \in [1..m -> VariableNames]
        BY <2>1, ParametersAre
    <2>4. type \in FunctionTypes
        BY <2>1 DEF FunctionTypes, MethodTypes
    <2>9. PICK t : t = Now
        OBVIOUS
    <2>5. PICK u : u = BeginFunction(t, type, parameters)
        OBVIOUS
    <2>6. Good(u) /\ (u.error = NoError => t.error = NoError)
        <3>1. PICK n : n = Len(t.contexts)
            OBVIOUS
        <3>2. PICK d : d = Current(u)
            OBVIOUS
        <3> QED BY <2>2, <2>3, <2>4, <2>5, <2>9, <3>1, <3>2, FunctionBegins
    <2>7. Heeds(Now, u)
        BY <2>6, <2>9 DEF Heeds, Judged, Good, States
    <2> QED BY <2>1, <2>5, <2>7, <2>9, WalkHeeds
<1>3. ASSUME EndOfMethods PROVE Heeded
    BY <1>3, NowHeeds, WalkHeeds DEF EndOfMethods
<1>4. ASSUME EndClass PROVE Heeded
    <2>1. PICK s : s = Emit(Now, "POP", 0)
        OBVIOUS
    <2>2. Heeds(Now, s)
        BY <2>1, NowHeeds, PlainHeeds
    <2>3. PICK base : base = Head(Work).base
        OBVIOUS
    <2>4. Heeds(Now, EndScope(s, base))
        BY <2>2, PlainHeeds
    <2>5. PICK t : t = IF Head(Work).hasSuperclass THEN EndScope(s, base) ELSE s
        OBVIOUS
    <2>6. Heeds(Now, t)
        BY <2>2, <2>4, <2>5
    <2>7. Walk(t, <<>>, Tail(Work))
        BY <1>4, <2>1, <2>3, <2>5 DEF EndClass
    <2> QED BY <2>6, <2>7, WalkHeeds
<1> QED BY <1>1, <1>2, <1>3, <1>4

LEMMA StatementsHeed ==
    ASSUME Inv,
           \/ EndOfBlock \/ Block \/ EndBlock
           \/ PrintStatement \/ ExprStatement \/ ReturnStatement
           \/ IfStatement \/ IfThen \/ IfElse
    PROVE  Heeded
<1>1. ASSUME EndOfBlock PROVE Heeded
    BY <1>1, NowHeeds, WalkHeeds DEF EndOfBlock
<1>2. ASSUME Block PROVE Heeded
    BY <1>2, NowHeeds, PlainHeeds, WalkHeeds DEF Block
<1>3. ASSUME EndBlock PROVE Heeded
    BY <1>3, NowHeeds, PlainHeeds, WalkHeeds DEF EndBlock
<1>4. ASSUME PrintStatement PROVE Heeded
    BY <1>4, NowHeeds, WalkHeeds DEF PrintStatement
<1>5. ASSUME ExprStatement PROVE Heeded
    BY <1>5, NowHeeds, WalkHeeds DEF ExprStatement
<1>6. ASSUME ReturnStatement PROVE Heeded
    <2>1. PICK type : type = Current(Now).type
        OBVIOUS
    <2>2. PICK s : s = FailIf(Now, type = "script", "Can't return from top-level code")
        OBVIOUS
    <2>3. PICK t : t = FailIf(s, type = "initializer", "Can't return a value from an initializer")
        OBVIOUS
    <2>4. Heeds(Now, s)
        BY <2>2, NowHeeds, MoreHeeds
    <2>5. Heeds(Now, t) /\ Heeds(Now, EmitReturn(s))
        BY <2>3, <2>4, MoreHeeds, PlainHeeds
    <2>6. Statement(EmitReturn(s), <<>>) \/ Statement(t, <<Expr, Then("RETURN", 0)>>)
        BY <1>6, <2>1, <2>2, <2>3 DEF ReturnStatement
    <2> QED BY <2>5, <2>6, WalkHeeds
<1>7. ASSUME IfStatement PROVE Heeded
    BY <1>7, NowHeeds, WalkHeeds DEF IfStatement
<1>8. ASSUME IfThen PROVE Heeded
    <2>1. PICK s : s = EmitJump(Now, "JUMP_IF_FALSE")
        OBVIOUS
    <2>2. Heeds(Now, s)
        BY <2>1, NowHeeds, PlainHeeds
    <2>3. Heeds(Now, Emit(s, "POP", 0))
        BY <2>2, PlainHeeds
    <2>4. \E tasks : Continue(Emit(s, "POP", 0), tasks)
        BY <1>8, <2>1 DEF IfThen
    <2> QED BY <2>3, <2>4, WalkHeeds
<1>9. ASSUME IfElse PROVE Heeded
    <2>1. PICK s : s = EmitJump(Now, "JUMP")
        OBVIOUS
    <2>2. PICK elseJump : elseJump = Position(s)
        OBVIOUS
    <2>3. PICK u : u = PatchJump(s, Head(Work).jump)
        OBVIOUS
    <2>4. PICK t : t = Emit(u, "POP", 0)
        OBVIOUS
    <2>5. Heeds(Now, s)
        BY <2>1, NowHeeds, PlainHeeds
    <2>6. Heeds(Now, u)
        BY <2>3, <2>5, PlainHeeds
    <2>7. Heeds(Now, t)
        BY <2>4, <2>6, PlainHeeds
    <2>8. Heeds(Now, PatchJump(t, elseJump))
        BY <2>7, PlainHeeds
    <2>9. \E tasks : Continue(t, tasks) \/ Continue(PatchJump(t, elseJump), tasks)
        BY <1>9, <2>1, <2>2, <2>3, <2>4 DEF IfElse
    <2> QED BY <2>7, <2>8, <2>9, WalkHeeds
<1> QED BY <1>1, <1>2, <1>3, <1>4, <1>5, <1>6, <1>7, <1>8, <1>9

LEMMA LoopingHeeds ==
    ASSUME Inv,
           \/ WhileStatement \/ WhileBody \/ WhileEnd
           \/ ForStatement \/ ForCondition \/ ForExit \/ ForIteration \/ ForIterated \/ ForEnd
           \/ BreakStatement \/ ContinueStatement
    PROVE  Heeded
<1>1. ASSUME WhileStatement PROVE Heeded
    <2>1. PICK s : s = SaveBreakContext(Now)
        OBVIOUS
    <2>2. PICK position : position = Position(Now)
        OBVIOUS
    <2>3. PICK t : t = ContinueAt(s, position)
        OBVIOUS
    <2>4. Heeds(Now, s)
        BY <2>1, NowHeeds, MoreHeeds
    <2>5. Heeds(Now, t)
        BY <2>3, <2>4, MoreHeeds
    <2>6. \E tasks : Statement(t, tasks)
        BY <1>1, <2>1, <2>2, <2>3 DEF WhileStatement
    <2> QED BY <2>5, <2>6, WalkHeeds
<1>2. ASSUME WhileBody PROVE Heeded
    <2>1. PICK s : s = EmitJump(Now, "JUMP_IF_FALSE")
        OBVIOUS
    <2>2. PICK t : t = Emit(s, "POP", 0)
        OBVIOUS
    <2>3. PICK u : u = Enclose(t, 1)
        OBVIOUS
    <2>4. Heeds(Now, s)
        BY <2>1, NowHeeds, PlainHeeds
    <2>5. Heeds(Now, t)
        BY <2>2, <2>4, PlainHeeds
    <2>6. Heeds(Now, u)
        BY <2>3, <2>5, MoreHeeds
    <2>7. \E tasks : Continue(u, tasks)
        BY <1>2, <2>1, <2>2, <2>3 DEF WhileBody
    <2> QED BY <2>6, <2>7, WalkHeeds
<1>3. ASSUME WhileEnd PROVE Heeded
    BY <1>3, NowHeeds, MoreHeeds, WalkHeeds DEF WhileEnd
<1>4. ASSUME ForStatement PROVE Heeded
    <2>1. PICK a : a = BeginScope(Now)
        OBVIOUS
    <2>2. PICK s : s = SaveBreakContext(a)
        OBVIOUS
    <2>3. Heeds(Now, a)
        BY <2>1, NowHeeds, PlainHeeds
    <2>4. Heeds(Now, s)
        BY <2>2, <2>3, MoreHeeds
    <2>5. \/ \E tasks : Statement(s, tasks)
          \/ \E x \in Identifiers : \E tasks :
                \/ Statement(DeclareVariable(s, x), tasks)
                \/ Statement(DefineVariable(Emit(DeclareVariable(s, x), "NIL", 0), x), tasks)
        <3>1. PICK cond : cond = Loop("forCond", [NewLoop(BeginScope(Now), 0) EXCEPT !.base = Visible(Now)])
            OBVIOUS
        <3>2. \/ Statement(s, <<cond>>)
              \/ Statement(s, <<Expr, cond>>)
              \/ \E x \in Identifiers :
                    \/ Statement(DeclareVariable(s, x), <<Expr, Define(x), cond>>)
                    \/ Statement(DefineVariable(Emit(DeclareVariable(s, x), "NIL", 0), x), <<cond>>)
            BY <1>4, <2>1, <2>2, <3>1 DEF ForStatement
        <3> QED BY <3>2
    <2>6. CASE \E tasks : Statement(s, tasks)
        BY <2>4, <2>6, WalkHeeds
    <2>7. CASE \E x \in Identifiers : \E tasks :
                \/ Statement(DeclareVariable(s, x), tasks)
                \/ Statement(DefineVariable(Emit(DeclareVariable(s, x), "NIL", 0), x), tasks)
        <3>1. PICK x \in Identifiers : \E tasks :
                \/ Statement(DeclareVariable(s, x), tasks)
                \/ Statement(DefineVariable(Emit(DeclareVariable(s, x), "NIL", 0), x), tasks)
            BY <2>7
        <3>2. PICK b : b = DeclareVariable(s, x)
            OBVIOUS
        <3>3. PICK c : c = Emit(b, "NIL", 0)
            OBVIOUS
        <3>4. Heeds(Now, b)
            BY <2>4, <3>2, PlainHeeds
        <3>5. Heeds(Now, c)
            BY <3>3, <3>4, PlainHeeds
        <3>6. Heeds(Now, DefineVariable(c, x))
            BY <3>5, PlainHeeds
        <3> QED BY <3>1, <3>2, <3>3, <3>4, <3>6, WalkHeeds
    <2> QED BY <2>5, <2>6, <2>7
<1>5. ASSUME ForCondition PROVE Heeded
    <2>1. \E tasks : Continue(Now, tasks)
        BY <1>5 DEF ForCondition
    <2> QED BY <2>1, NowHeeds, WalkHeeds
<1>6. ASSUME ForExit PROVE Heeded
    <2>1. PICK s : s = EmitJump(Now, "JUMP_IF_FALSE")
        OBVIOUS
    <2>2. Heeds(Now, s)
        BY <2>1, NowHeeds, PlainHeeds
    <2>3. Heeds(Now, Emit(s, "POP", 0))
        BY <2>2, PlainHeeds
    <2>4. \E tasks : Continue(Emit(s, "POP", 0), tasks)
        BY <1>6, <2>1 DEF ForExit
    <2> QED BY <2>3, <2>4, WalkHeeds
<1>7. ASSUME ForIteration PROVE Heeded
    <2>1. PICK s : s = EmitJump(Now, "JUMP")
        OBVIOUS
    <2>2. PICK t : t = Update(s, [Current(s) EXCEPT !.height = Current(Now).height])
        OBVIOUS
    <2>3. PICK position : position = Position(s)
        OBVIOUS
    <2>4. Heeds(Now, s)
        BY <2>1, NowHeeds, PlainHeeds
    <2>5. Heeds(Now, t)
        BY <2>2, <2>4, MoreHeeds
    <2>6. Heeds(Now, ContinueAt(t, position))
        BY <2>5, MoreHeeds
    <2>7. Heeds(Now, Enclose(Now, 1))
        BY NowHeeds, MoreHeeds
    <2>8. \E tasks : Continue(Enclose(Now, 1), tasks) \/ Continue(ContinueAt(t, position), tasks)
        BY <1>7, <2>1, <2>2, <2>3 DEF ForIteration
    <2> QED BY <2>6, <2>7, <2>8, WalkHeeds
<1>8. ASSUME ForIterated PROVE Heeded
    <2>1. PICK a : a = Emit(Now, "POP", 0)
        OBVIOUS
    <2>2. PICK b : b = EmitLoop(a, Head(Work).loop.start)
        OBVIOUS
    <2>3. PICK c : c = PatchJump(b, Head(Work).loop.body)
        OBVIOUS
    <2>4. Heeds(Now, a)
        BY <2>1, NowHeeds, PlainHeeds
    <2>5. Heeds(Now, b)
        BY <2>2, <2>4, PlainHeeds
    <2>6. Heeds(Now, c)
        BY <2>3, <2>5, PlainHeeds
    <2>7. Heeds(Now, Enclose(c, 1))
        BY <2>6, MoreHeeds
    <2>8. \E tasks : Continue(Enclose(c, 1), tasks)
        BY <1>8, <2>1, <2>2, <2>3 DEF ForIterated
    <2> QED BY <2>7, <2>8, WalkHeeds
<1>9. ASSUME ForEnd PROVE Heeded
    <2>1. PICK loop : loop = Head(Work).loop
        OBVIOUS
    <2>2. PICK a : a = CloseLoop(Now, loop)
        OBVIOUS
    <2>3. Heeds(Now, a)
        BY <2>2, NowHeeds, MoreHeeds
    <2>4. Heeds(Now, EndScope(a, loop.base))
        BY <2>3, PlainHeeds
    <2>5. Continue(EndScope(a, loop.base), <<>>)
        BY <1>9, <2>1, <2>2 DEF ForEnd
    <2> QED BY <2>4, <2>5, WalkHeeds
<1>10. ASSUME BreakStatement PROVE Heeded
    <2>1. PICK s : s = NotInLoop(Now)
        OBVIOUS
    <2>2. PICK a : a = AdjustLocals(s, Current(s).scopeDepth)
        OBVIOUS
    <2>3. PICK t : t = EmitJump(a, "JUMP")
        OBVIOUS
    <2>4. PICK u : u = Update(t, [Current(t) EXCEPT !.last_break = Position(t)])
        OBVIOUS
    <2>5. Heeds(Now, s)
        BY <2>1, NowHeeds, MoreHeeds DEF NotInLoop
    <2>6. Heeds(Now, a)
        BY <2>2, <2>5, PlainHeeds
    <2>7. Heeds(Now, t)
        BY <2>3, <2>6, PlainHeeds
    <2>8. Heeds(Now, u)
        BY <2>4, <2>7, MoreHeeds
    <2>9. Statement(u, <<>>)
        BY <1>10, <2>1, <2>2, <2>3, <2>4 DEF BreakStatement
    <2> QED BY <2>8, <2>9, WalkHeeds
<1>11. ASSUME ContinueStatement PROVE Heeded
    <2>1. PICK s : s = NotInLoop(Now)
        OBVIOUS
    <2>2. PICK c : c = Current(s)
        OBVIOUS
    <2>3. PICK a : a = AdjustLocals(s, c.last_scope_depth)
        OBVIOUS
    <2>4. PICK t : t = EmitLoop(a, c.last_continue)
        OBVIOUS
    <2>5. PICK zero : zero = 0
        OBVIOUS
    <2>6. PICK u : u = IF c.last_continue = 0 THEN s ELSE ContinueAt(t, zero)
        OBVIOUS
    <2>7. Heeds(Now, s)
        BY <2>1, NowHeeds, MoreHeeds DEF NotInLoop
    <2>8. Heeds(Now, a)
        BY <2>3, <2>7, PlainHeeds
    <2>9. Heeds(Now, t)
        BY <2>4, <2>8, PlainHeeds
    <2>10. Heeds(Now, u)
        BY <2>6, <2>7, <2>9, MoreHeeds
    <2>11. Statement(u, <<>>)
        BY <1>11, <2>1, <2>2, <2>3, <2>4, <2>5, <2>6 DEF ContinueStatement
    <2> QED BY <2>10, <2>11, WalkHeeds
<1> QED BY <1>1, <1>2, <1>3, <1>4, <1>5, <1>6, <1>7, <1>8, <1>9, <1>10, <1>11

LEMMA ExpressionsHeed ==
    ASSUME Inv,
           \/ Literal \/ Variable \/ This \/ Super \/ SuperInvoke
           \/ Unary \/ Binary \/ Logic \/ AndJump \/ OrJump
           \/ Assign \/ Call \/ Dot \/ EmitOp \/ PatchForward
    PROVE  Heeded
<1>1. ASSUME Literal PROVE Heeded
    BY <1>1, NowHeeds, PlainHeeds, WalkHeeds DEF Literal
<1>2. ASSUME Variable PROVE Heeded
    BY <1>2, NowHeeds, MoreHeeds, WalkHeeds DEF Variable
<1>3. ASSUME This PROVE Heeded
    BY <1>3, NowHeeds, MoreHeeds, WalkHeeds DEF This
<1>4. ASSUME Super PROVE Heeded
    <2>1. PICK s : s = FailIf(Now, currentClass = <<>> \/ ~Last(currentClass), "Can't use 'super' here")
        OBVIOUS
    <2>2. PICK this : this = NamedVariable(s, "this", FALSE)
        OBVIOUS
    <2>3. PICK a : a = NamedVariable(this, "super", FALSE)
        OBVIOUS
    <2>4. Heeds(Now, s)
        BY <2>1, NowHeeds, MoreHeeds
    <2>5. Heeds(Now, this)
        BY <2>2, <2>4, MoreHeeds
    <2>6. Heeds(Now, a)
        BY <2>3, <2>5, MoreHeeds
    <2>7. Heeds(Now, Emit(a, "GET_SUPER", 0))
        BY <2>6, PlainHeeds
    <2>8. \E tasks : Evaluate(Emit(a, "GET_SUPER", 0), tasks) \/ Evaluate(this, tasks)
        BY <1>4, <2>1, <2>2, <2>3 DEF Super
    <2> QED BY <2>5, <2>7, <2>8, WalkHeeds
<1>5. ASSUME SuperInvoke PROVE Heeded
    <2>1. PICK a : a = NamedVariable(Now, "super", FALSE)
        OBVIOUS
    <2>2. PICK n : n = Head(Work).args
        OBVIOUS
    <2>3. Heeds(Now, a)
        BY <2>1, NowHeeds, MoreHeeds
    <2>4. Heeds(Now, Emit(a, "SUPER_INVOKE", n))
        BY <2>3, PlainHeeds
    <2>5. Continue(Emit(a, "SUPER_INVOKE", n), <<>>)
        BY <1>5, <2>1, <2>2 DEF SuperInvoke
    <2> QED BY <2>4, <2>5, WalkHeeds
<1>6. ASSUME Unary \/ Binary \/ Logic \/ Assign \/ Call \/ Dot PROVE Heeded
    <2>1. \E tasks : Evaluate(Now, tasks)
        BY <1>6 DEF Unary, Binary, Logic, Assign, Call, Dot
    <2> QED BY <2>1, NowHeeds, WalkHeeds
<1>7. ASSUME AndJump PROVE Heeded
    <2>1. PICK s : s = EmitJump(Now, "JUMP_IF_FALSE")
        OBVIOUS
    <2>2. Heeds(Now, s)
        BY <2>1, NowHeeds, PlainHeeds
    <2>3. Heeds(Now, Emit(s, "POP", 0))
        BY <2>2, PlainHeeds
    <2>4. \E tasks : Continue(Emit(s, "POP", 0), tasks)
        BY <1>7, <2>1 DEF AndJump
    <2> QED BY <2>3, <2>4, WalkHeeds
<1>8. ASSUME OrJump PROVE Heeded
    <2>1. PICK s : s = EmitJump(Now, "JUMP_IF_FALSE")
        OBVIOUS
    <2>2. PICK t : t = EmitJump(s, "JUMP")
        OBVIOUS
    <2>3. PICK u : u = PatchJump(t, Position(s))
        OBVIOUS
    <2>4. Heeds(Now, s)
        BY <2>1, NowHeeds, PlainHeeds
    <2>5. Heeds(Now, t)
        BY <2>2, <2>4, PlainHeeds
    <2>6. Heeds(Now, u)
        BY <2>3, <2>5, PlainHeeds
    <2>7. Heeds(Now, Emit(u, "POP", 0))
        BY <2>6, PlainHeeds
    <2>8. \E tasks : Continue(Emit(u, "POP", 0), tasks)
        BY <1>8, <2>1, <2>2, <2>3 DEF OrJump
    <2> QED BY <2>7, <2>8, WalkHeeds
<1>9. ASSUME EmitOp PROVE Heeded
    BY <1>9, NowHeeds, PlainHeeds, WalkHeeds DEF EmitOp
<1>10. ASSUME PatchForward PROVE Heeded
    BY <1>10, NowHeeds, PlainHeeds, WalkHeeds DEF PatchForward
<1> QED BY <1>1, <1>2, <1>3, <1>4, <1>5, <1>6, <1>7, <1>8, <1>9, <1>10

LEMMA NextHeeds ==
    ASSUME Inv, Next
    PROVE  Heeded
<1>1. CASE VarDeclaration \/ EndDeclaration \/ FunDeclaration \/ EndFunction
    BY <1>1, DeclarationsHeed
<1>2. CASE ClassDeclaration \/ Method \/ EndOfMethods \/ EndClass
    BY <1>2, ClassesHeed
<1>3. CASE \/ EndOfBlock \/ Block \/ EndBlock
           \/ PrintStatement \/ ExprStatement \/ ReturnStatement
           \/ IfStatement \/ IfThen \/ IfElse
    BY <1>3, StatementsHeed
<1>4. CASE \/ WhileStatement \/ WhileBody \/ WhileEnd
           \/ ForStatement \/ ForCondition \/ ForExit \/ ForIteration \/ ForIterated \/ ForEnd
           \/ BreakStatement \/ ContinueStatement
    BY <1>4, LoopingHeeds
<1>5. CASE \/ Literal \/ Variable \/ This \/ Super \/ SuperInvoke
           \/ Unary \/ Binary \/ Logic \/ AndJump \/ OrJump
           \/ Assign \/ Call \/ Dot \/ EmitOp \/ PatchForward
    BY <1>5, ExpressionsHeed
<1>6. CASE Compiled
    BY <1>6 DEF Compiled, Heeded, vars
<1> QED BY <1>1, <1>2, <1>3, <1>4, <1>5, <1>6 DEF Next

(* A point where there are as many locals, and so many temporaries.        *)
LEMMA SomePoint ==
    ASSUME NEW l \in Nat, NEW n \in Int, n >= -1, NEW path \in {"live", "dead"}
    PROVE  \E y \in Points : y.locals = l /\ y.temps = n /\ y.path = path
<1>1. n \in Nat \cup {-1}
    OBVIOUS
<1> QED BY <1>1, PointIs

LEMMA PointBeside ==
    ASSUME NEW p \in Points, NEW n \in Int, n >= -1
    PROVE  \E y \in Points : y.locals = p.locals /\ y.temps = n /\ y.path = p.path
BY SomePoint, PointTypes

(* Point y is so many values below point q, on the way to it.              *)
Below(y, q, gain) ==
    /\ y \in Points /\ q \in Points /\ y.locals = q.locals
    /\ q.temps = y.temps + gain /\ (Live(y) => Live(q))

(* A task is put in front of the work.                                     *)
LEMMA AheadLeads ==
    ASSUME NEW c, NEW w \in Seq(Tasks), NEW q, LeadsOn(c, w, q), NEW t \in Tasks, NEW y,
           Leads(c, t, y, q), t.k = "stats" => w[1].k \in {"endScope", "endFunction"}
    PROVE  LeadsOn(c, Ahead(t, w), y)
<1>1. PICK u \in Seq(Tasks) : u = Ahead(t, w) /\ InFront(u, t, w)
    <2>1. PICK u : u = Ahead(t, w)
        OBVIOUS
    <2>2. InFront(u, t, w)
        BY <2>1, OneInFront
    <2> QED BY <2>1, <2>2 DEF InFront
<1>2. PICK n \in Nat : n = Len(w)
    BY LenProperties
<1>3. /\ Len(u) = n + 1 /\ u[1] = t
      /\ \A i \in 1..n : u[i + 1] = w[i]
    BY <1>1, <1>2 DEF InFront
<1>4. PICK at \in [1..n + 1 -> Points] :
        at[1] = q /\ \A k \in 1..n : Leads(c, w[k], at[k], at[k + 1])
    BY <1>2 DEF LeadsOn
<1>5. PICK new : new = [k \in 1..n + 2 |-> IF k = 1 THEN y ELSE at[k - 1]]
    OBVIOUS
<1>6. y \in Points
    BY DEF Leads, Travels
<1>7. /\ new \in [1..n + 2 -> Points] /\ new[1] = y
      /\ \A k \in 1..n + 1 : new[k + 1] = at[k]
    <2>1. \A k \in 1..n + 2 : k = 1 \/ k - 1 \in 1..n + 1
        OBVIOUS
    <2>2. new \in [1..n + 2 -> Points]
        BY <1>4, <1>5, <1>6, <2>1
    <2>3. 1 \in 1..n + 2
        OBVIOUS
    <2>4. \A k \in 1..n + 1 : k + 1 \in 1..n + 2 /\ k + 1 # 1 /\ (k + 1) - 1 = k
        OBVIOUS
    <2> QED BY <1>5, <2>2, <2>3, <2>4
<1>8. ASSUME NEW k \in 1..n + 1
      PROVE  Leads(c, u[k], new[k], new[k + 1])
    <2>1. CASE k = 1
        <3>1. new[1] = y /\ new[2] = q
            <4>1. 1 \in 1..n + 1
                OBVIOUS
            <4> QED BY <1>4, <1>7, <4>1
        <3> QED BY <1>3, <2>1, <3>1
    <2>2. CASE k # 1
        <3>1. PICK i \in 1..n : k = i + 1
            <4>1. k - 1 \in 1..n /\ k = (k - 1) + 1
                BY <2>2
            <4> QED BY <4>1
        <3>2. u[k] = w[i] /\ Leads(c, w[i], at[i], at[i + 1])
            BY <1>3, <1>4, <3>1
        <3>3. new[k] = at[i] /\ new[k + 1] = at[i + 1]
            <4>1. i \in 1..n + 1 /\ i + 1 \in 1..n + 1
                OBVIOUS
            <4> QED BY <1>7, <3>1, <4>1
        <3> QED BY <3>2, <3>3
    <2> QED BY <2>1, <2>2
<1>9. Blocks(u)
    <2>1. SUFFICES ASSUME NEW k \in 1..n, u[k].k = "stats"
                   PROVE  u[k + 1].k \in {"endScope", "endFunction"}
        BY <1>3 DEF Blocks
    <2>2. u[k + 1] = w[k]
        BY <1>3
    <2>3. CASE k = 1
        BY <1>3, <2>1, <2>2, <2>3
    <2>4. CASE k # 1
        <3>1. PICK i \in 1..n - 1 : k = i + 1
            <4>1. k - 1 \in 1..n - 1 /\ k = (k - 1) + 1
                BY <2>4
            <4> QED BY <4>1
        <3>2. u[k] = w[i]
            BY <1>3, <3>1
        <3>3. i \in 1..Len(w) - 1
            BY <1>2, <3>1
        <3>4. Blocks(w)
            BY DEF LeadsOn
        <3>5. w[i + 1].k \in {"endScope", "endFunction"}
            BY <2>1, <3>2, <3>3, <3>4 DEF Blocks
        <3> QED BY <2>2, <3>1, <3>5
    <2> QED BY <2>3, <2>4
<1>10. new \in [1..Len(u) + 1 -> Points]
    BY <1>3, <1>7
<1>11. LeadsOn(c, u, y)
    BY <1>3, <1>7, <1>8, <1>9, <1>10 DEF LeadsOn
<1> QED BY <1>1, <1>11

LEMMA AheadStands ==
    ASSUME NEW b, NEW s, NEW w, NEW p, NEW q, Standing(b, s, w, p, q), NEW t \in Tasks, NEW y,
           Leads(Current(s), t, y, q), t.k = "stats" => w[1].k \in {"endScope", "endFunction"}
    PROVE  Standing(b, s, Ahead(t, w), p, y)
<1>1. PICK u : u = Ahead(t, w)
    OBVIOUS
<1>2. w \in Seq(Tasks) /\ LeadsOn(Current(s), w, q)
    BY DEF Standing, Poised
<1>3. u \in Seq(Tasks)
    BY <1>1, <1>2, OneInFront DEF InFront
<1>4. LeadsOn(Current(s), u, y)
    BY <1>1, <1>2, AheadLeads
<1> QED BY <1>1, <1>3, <1>4 DEF Standing, Poised

(* The task that is next leads to the rest of the work.                    *)
LEMMA HeadLeads ==
    ASSUME NEW c, NEW w \in Seq(Tasks), w # <<>>, NEW p, LeadsOn(c, w, p)
    PROVE  \E q \in Points : Leads(c, w[1], p, q) /\ LeadsOn(c, Tail(w), q)
<1>1. PICK n \in Nat \ {0} : n = Len(w)
    BY EmptySeq, LenProperties
<1>2. PICK r : r = Tail(w)
    OBVIOUS
<1>3. /\ r \in Seq(Tasks) /\ Len(r) = n - 1
      /\ \A i \in 1..n - 1 : i + 1 \in 1..n /\ r[i] = w[i + 1]
    BY <1>1, <1>2, TailOf
<1>4. PICK at \in [1..n + 1 -> Points] :
        at[1] = p /\ \A k \in 1..n : Leads(c, w[k], at[k], at[k + 1])
    BY <1>1 DEF LeadsOn
<1>5. PICK new : new = [k \in 1..n |-> at[k + 1]]
    OBVIOUS
<1>6. new \in [1..n -> Points] /\ \A k \in 1..n : new[k] = at[k + 1]
    <2>1. \A k \in 1..n : k + 1 \in 1..n + 1
        OBVIOUS
    <2> QED BY <1>4, <1>5, <2>1
<1>7. \A k \in 1..n - 1 : Leads(c, r[k], new[k], new[k + 1])
    <2> TAKE k \in 1..n - 1
    <2>1. k \in 1..n /\ k + 1 \in 1..n
        OBVIOUS
    <2>2. r[k] = w[k + 1] /\ new[k] = at[k + 1] /\ new[k + 1] = at[(k + 1) + 1]
        BY <1>3, <1>6, <2>1
    <2> QED BY <1>4, <2>1, <2>2
<1>8. Blocks(r)
    <2>1. SUFFICES ASSUME NEW k \in 1..(n - 1) - 1, r[k].k = "stats"
                   PROVE  r[k + 1].k \in {"endScope", "endFunction"}
        BY <1>3 DEF Blocks
    <2>2. k \in 1..n - 1 /\ k + 1 \in 1..n - 1
        OBVIOUS
    <2>3. r[k] = w[k + 1] /\ r[k + 1] = w[(k + 1) + 1]
        BY <1>3, <2>2
    <2>4. Blocks(w)
        BY DEF LeadsOn
    <2> QED BY <1>1, <2>1, <2>2, <2>3, <2>4 DEF Blocks
<1>9. LeadsOn(c, r, new[1])
    <2>1. new \in [1..Len(r) + 1 -> Points]
        BY <1>3, <1>6
    <2> QED BY <1>3, <1>7, <1>8, <2>1 DEF LeadsOn
<1>10. Leads(c, w[1], p, new[1]) /\ new[1] \in Points
    <2>1. 1 \in 1..n
        BY <1>1
    <2>2. new[1] = at[1 + 1] /\ new[1] \in Points
        BY <1>6, <2>1
    <2> QED BY <1>4, <2>1, <2>2
<1> QED BY <1>2, <1>9, <1>10

LEMMA WorkStarts ==
    ASSUME NEW c, NEW w, NEW p, LeadsOn(c, w, p), Len(w) \in Nat
    PROVE  p \in Points
<1>1. PICK at \in [1..Len(w) + 1 -> Points] : at[1] = p
    BY DEF LeadsOn
<1>2. 1 \in 1..Len(w) + 1
    OBVIOUS
<1> QED BY <1>1, <1>2

LEMMA TasksJoin ==
    ASSUME NEW v \in Seq(Tasks), NEW w \in Seq(Tasks)
    PROVE  /\ v \o w \in Seq(Tasks) /\ Len(v \o w) = Len(v) + Len(w)
           /\ \A k \in 1..Len(v) : (v \o w)[k] = v[k]
           /\ \A k \in 1..Len(w) : (v \o w)[Len(v) + k] = w[k]
<1>1. PICK u : u = v \o w
    OBVIOUS
<1>2. PICK n : n = Len(v)
    OBVIOUS
<1>3. PICK m : m = Len(w)
    OBVIOUS
<1>4. u \in Seq(Tasks) /\ Len(u) = n + m
    BY <1>1, <1>2, <1>3, Joined
<1>5. \A k \in 1..n : u[k] = v[k]
    BY <1>1, <1>2, <1>3, Joined
<1>6. \A k \in 1..m : u[n + k] = w[k]
    BY <1>1, <1>2, <1>3, Joined
<1> QED BY <1>1, <1>2, <1>3, <1>4, <1>5, <1>6

(* The arguments of a call are put in front of the work.                   *)
LEMMA ArgumentsStand ==
    ASSUME NEW b, NEW s, NEW w, NEW p, NEW q, Standing(b, s, w, p, q), NEW n \in Nat,
           NEW y, Below(y, q, n), y.path = q.path, NEW u, u = Arguments(n) \o w
    PROVE  Standing(b, s, u, p, y)
<1>1. PICK c : c = Current(s)
    OBVIOUS
<1>2. w \in Seq(Tasks) /\ LeadsOn(c, w, q)
    BY <1>1 DEF Standing, Poised
<1>3. PICK m \in Nat : m = Len(w)
    BY <1>2, LenProperties
<1>4. PICK before \in Seq(Tasks) : before = Arguments(n) /\ Len(before) = n
                                   /\ \A k \in 1..n : before[k] = Expr
    <2>1. PICK before : before = [i \in 1..n |-> Expr]
        OBVIOUS
    <2>2. Expr \in Tasks
        BY DEF Expr, Tasks
    <2>3. before \in [1..n -> Tasks]
        BY <2>1, <2>2
    <2>4. before \in Seq(Tasks) /\ Len(before) = n
        BY <2>3, FunctionIsSeq
    <2> QED BY <2>1, <2>4 DEF Arguments
<1>5. /\ u \in Seq(Tasks) /\ Len(u) = n + m
      /\ \A k \in 1..n : u[k] = Expr
      /\ \A k \in 1..m : u[n + k] = w[k]
    <2>1. u = before \o w
        BY <1>4
    <2>2. /\ before \o w \in Seq(Tasks) /\ Len(before \o w) = Len(before) + Len(w)
          /\ \A k \in 1..Len(before) : (before \o w)[k] = before[k]
          /\ \A k \in 1..Len(w) : (before \o w)[Len(before) + k] = w[k]
        BY <1>2, TasksJoin
    <2>3. u \in Seq(Tasks) /\ Len(u) = n + m /\ (\A k \in 1..n : u[k] = before[k])
          /\ \A k \in 1..m : u[n + k] = w[k]
        BY <1>3, <1>4, <2>1, <2>2
    <2> QED BY <1>4, <2>3
<1>6. PICK at \in [1..m + 1 -> Points] :
        at[1] = q /\ \A k \in 1..m : Leads(c, w[k], at[k], at[k + 1])
    BY <1>2, <1>3 DEF LeadsOn
<1>7. /\ y \in Points /\ q \in Points /\ y.locals = q.locals /\ q.temps = y.temps + n
      /\ y.locals \in Nat /\ y.temps \in Int /\ y.temps >= -1 /\ y.path \in {"live", "dead"}
    BY PointTypes DEF Below
<1>8. PICK step : step = [k \in 1..n + 1 |-> Point(y.locals, y.temps + (k - 1), y.path)]
    OBVIOUS
<1>9. \A k \in 1..n + 1 :
        /\ step[k] \in Points /\ step[k].locals = y.locals
        /\ step[k].temps = y.temps + (k - 1) /\ step[k].path = y.path
    <2> TAKE k \in 1..n + 1
    <2>1. PICK number \in Nat \cup {-1} : number = y.temps + (k - 1)
        BY <1>7
    <2>2. PICK l \in Nat : l = y.locals
        BY <1>7
    <2>3. PICK path \in {"live", "dead"} : path = y.path
        BY <1>7
    <2>4. step[k] = Point(l, number, path)
        BY <1>8, <2>1, <2>2, <2>3
    <2> QED BY <2>1, <2>2, <2>3, <2>4, PointIs
<1>10. step[n + 1] = q /\ step[1] = y
    <2>1. n + 1 \in 1..n + 1 /\ 1 \in 1..n + 1
        OBVIOUS
    <2>2. step[n + 1].temps = q.temps /\ step[1].temps = y.temps
        BY <1>7, <1>9, <2>1
    <2> QED BY <1>7, <1>9, <2>1, <2>2, PointsEqual
<1>11. PICK new : new = [k \in 1..n + m + 1 |-> IF k <= n THEN step[k] ELSE at[k - n]]
    OBVIOUS
<1>12. /\ new \in [1..n + m + 1 -> Points]
       /\ \A k \in 1..n + 1 : new[k] = step[k]
       /\ \A k \in 1..m + 1 : new[n + k] = at[k]
    <2>1. \A k \in 1..n + m + 1 : k <= n => k \in 1..n + 1
        OBVIOUS
    <2>2. \A k \in 1..n + m + 1 : ~(k <= n) => k - n \in 1..m + 1
        OBVIOUS
    <2>3. new \in [1..n + m + 1 -> Points]
        BY <1>6, <1>9, <1>11, <2>1, <2>2
    <2>4. \A k \in 1..m + 1 : n + k \in 1..n + m + 1 /\ ~(n + k <= n) /\ (n + k) - n = k
        OBVIOUS
    <2>5. \A k \in 1..m + 1 : new[n + k] = at[k]
        BY <1>11, <2>4
    <2>6. ASSUME NEW k \in 1..n + 1 PROVE new[k] = step[k]
        <3>1. CASE k <= n
            <4>1. k \in 1..n + m + 1
                BY <3>1
            <4> QED BY <1>11, <3>1, <4>1
        <3>2. CASE k = n + 1
            <4>1. 1 \in 1..m + 1
                OBVIOUS
            <4> QED BY <1>6, <1>10, <2>5, <3>2, <4>1
        <3> QED BY <3>1, <3>2
    <2> QED BY <2>3, <2>5, <2>6
<1>13. ASSUME NEW k \in 1..n + m
       PROVE  Leads(c, u[k], new[k], new[k + 1])
    <2>1. CASE k \in 1..n
        <3>1. k \in 1..n + 1 /\ k + 1 \in 1..n + 1
            BY <2>1
        <3>2. PICK p1 : p1 = step[k]
            OBVIOUS
        <3>3. PICK p2 : p2 = step[k + 1]
            OBVIOUS
        <3>4. /\ p1 \in Points /\ p2 \in Points /\ p2.locals = p1.locals
              /\ p2.temps = p1.temps + 1 /\ p2.path = p1.path
            BY <1>7, <1>9, <3>1, <3>2, <3>3
        <3>5. Leads(c, Expr, p1, p2)
            BY <3>4 DEF Leads, Travels, Meets, Repeats, Gain, Expr, LoopTasks, ScopeTasks, ForTasks, ExprTasks
        <3> QED BY <1>5, <1>12, <2>1, <3>1, <3>2, <3>3, <3>5
    <2>2. CASE \E i \in 1..m : k = n + i
        <3>1. PICK i \in 1..m : k = n + i
            BY <2>2
        <3>2. i \in 1..m + 1 /\ i + 1 \in 1..m + 1 /\ k + 1 = n + (i + 1)
            BY <3>1
        <3>3. new[k] = at[i] /\ new[k + 1] = at[i + 1]
            BY <1>12, <3>1, <3>2
        <3> QED BY <1>5, <1>6, <3>1, <3>3
    <2> QED BY <2>1, <2>2, InEither
<1>14. Blocks(u)
    <2>1. SUFFICES ASSUME NEW k \in 1..(n + m) - 1, u[k].k = "stats"
                   PROVE  u[k + 1].k \in {"endScope", "endFunction"}
        BY <1>5 DEF Blocks
    <2>2. CASE k \in 1..n
        <3>1. u[k] = Expr
            BY <1>5, <2>2
        <3> QED BY <2>1, <3>1 DEF Expr
    <2>3. CASE k \notin 1..n
        <3>1. PICK i \in 1..m - 1 : k = n + i
            <4>1. k - n \in 1..m - 1 /\ k = n + (k - n)
                BY <2>3
            <4> QED BY <4>1
        <3>2. i \in 1..m /\ i + 1 \in 1..m /\ k + 1 = n + (i + 1)
            BY <3>1
        <3>3. u[k] = w[i] /\ u[k + 1] = w[i + 1]
            BY <1>5, <3>1, <3>2
        <3>4. Blocks(w)
            BY <1>2 DEF LeadsOn
        <3> QED BY <1>3, <2>1, <3>1, <3>3, <3>4 DEF Blocks
    <2> QED BY <2>2, <2>3
<1>15. LeadsOn(c, u, y)
    <2>1. new[1] = y
        <3>1. 1 \in 1..n + 1
            OBVIOUS
        <3> QED BY <1>10, <1>12, <3>1
    <2>2. new \in [1..Len(u) + 1 -> Points]
        BY <1>5, <1>12
    <2> QED BY <1>5, <1>13, <1>14, <2>1, <2>2 DEF LeadsOn
<1> QED BY <1>1, <1>5, <1>15 DEF Standing, Poised

(* The tasks there are, each put in front of the work.                     *)
LEMMA TaskAhead ==
    ASSUME NEW b, NEW s, NEW w, NEW p, NEW q, Standing(b, s, w, p, q), NEW t \in Tasks,
           t.k \notin LoopTasks \cup {"stats", "patch", "ifElse", "andJump", "orJump"},
           NEW y \in Points, q \in Points, Live(y) => Live(q),
           q.locals = IF t \in ScopeTasks THEN Base(t) ELSE y.locals,
           q.temps = y.temps + Gain(Current(s), t),
           t.k \notin ExprTasks => q.temps = IF t.k = "methods" THEN 1 ELSE 0
    PROVE  Standing(b, s, Ahead(t, w), p, y)
<1>1. Leads(Current(s), t, y, q)
    BY DEF Leads, Travels, Meets, Repeats, LoopTasks, Live
<1> QED BY <1>1, AheadStands

LEMMA NoScopes ==
    /\ \A t \in Tasks : t.k \notin ForTasks \cup {"endScope", "endClass"} => t \notin ScopeTasks
    /\ \A t \in Tasks : t.k \in ForTasks \cup {"endScope"} => t \in ScopeTasks
BY DEF ScopeTasks

LEMMA ExprAhead ==
    ASSUME NEW b, NEW s, NEW w, NEW p, NEW q, Standing(b, s, w, p, q), NEW canAssign \in BOOLEAN,
           NEW y, Below(y, q, IF canAssign THEN 0 ELSE 1)
    PROVE  Standing(b, s, Ahead(Target(canAssign), w), p, y)
<1>1. PICK t : t = Target(canAssign)
    OBVIOUS
<1>2. t \in Tasks /\ t.k = "expr" /\ t.canAssign = canAssign
    BY <1>1 DEF Target, Tasks
<1>3. t \notin ScopeTasks
    BY <1>2, NoScopes DEF ForTasks
<1>4. Gain(Current(s), t) = IF canAssign THEN 0 ELSE 1
    BY <1>2 DEF Gain
<1> QED BY <1>1, <1>2, <1>3, <1>4, TaskAhead DEF Below, LoopTasks, ExprTasks

LEMMA ValueAhead ==
    ASSUME NEW b, NEW s, NEW w, NEW p, NEW q, Standing(b, s, w, p, q), NEW y, Below(y, q, 1)
    PROVE  Standing(b, s, Ahead(Expr, w), p, y)
<1>1. PICK none \in BOOLEAN : none = FALSE
    OBVIOUS
<1>2. Target(none) = Expr
    BY <1>1 DEF Target, Expr
<1>3. Below(y, q, IF none THEN 0 ELSE 1)
    BY <1>1
<1>4. Standing(b, s, Ahead(Target(none), w), p, y)
    BY <1>3, ExprAhead
<1> QED BY <1>2, <1>4

LEMMA ThenAhead ==
    ASSUME NEW b, NEW s, NEW w, NEW p, NEW q, Standing(b, s, w, p, q),
           NEW op \in Emitted, NEW n \in Nat, NEW gain,
           gain = IF op = "RETURN" THEN -1 ELSE Effect(op, n), NEW y, Below(y, q, gain)
    PROVE  Standing(b, s, Ahead(Then(op, n), w), p, y)
<1>1. PICK t : t = Then(op, n)
    OBVIOUS
<1>2. t \in Tasks /\ t.k = "emit" /\ t.op = op /\ t.arg = n
    BY <1>1 DEF Then, Tasks
<1>3. t \notin ScopeTasks
    BY <1>2, NoScopes DEF ForTasks
<1>4. Gain(Current(s), t) = gain
    BY <1>2 DEF Gain
<1> QED BY <1>1, <1>2, <1>3, <1>4, TaskAhead DEF Below, LoopTasks, ExprTasks

LEMMA DefineAhead ==
    ASSUME NEW b, NEW s, NEW w, NEW p, NEW q, Standing(b, s, w, p, q), NEW name \in Names,
           NEW y, Below(y, q, IF Current(s).scopeDepth > 0 THEN 0 ELSE -1), q.temps = 0
    PROVE  Standing(b, s, Ahead(Define(name), w), p, y)
<1>1. PICK t : t = Define(name)
    OBVIOUS
<1>2. t \in Tasks /\ t.k = "define"
    BY <1>1 DEF Define, Tasks
<1>3. t \notin ScopeTasks
    BY <1>2, NoScopes DEF ForTasks
<1>4. Gain(Current(s), t) = IF Current(s).scopeDepth > 0 THEN 0 ELSE -1
    BY <1>2 DEF Gain
<1> QED BY <1>1, <1>2, <1>3, <1>4, TaskAhead DEF Below, LoopTasks, ExprTasks

LEMMA StatAhead ==
    ASSUME NEW b, NEW s, NEW w, NEW p, NEW q, Standing(b, s, w, p, q),
           NEW y, Below(y, q, 0), q.temps = 0
    PROVE  Standing(b, s, Ahead(Task("stat"), w), p, y)
<1>1. PICK t : t = Task("stat")
    OBVIOUS
<1>2. t \in Tasks /\ t.k = "stat"
    BY <1>1 DEF Task, Tasks
<1>3. t \notin ScopeTasks
    BY <1>2, NoScopes DEF ForTasks
<1>4. Gain(Current(s), t) = 0
    BY <1>2 DEF Gain
<1> QED BY <1>1, <1>2, <1>3, <1>4, TaskAhead DEF Below, LoopTasks, ExprTasks

LEMMA IfThenAhead ==
    ASSUME NEW b, NEW s, NEW w, NEW p, NEW q, Standing(b, s, w, p, q),
           NEW y, Below(y, q, -1), q.temps = 0
    PROVE  Standing(b, s, Ahead(Task("ifThen"), w), p, y)
<1>1. PICK t : t = Task("ifThen")
    OBVIOUS
<1>2. t \in Tasks /\ t.k = "ifThen"
    BY <1>1 DEF Task, Tasks
<1>3. t \notin ScopeTasks
    BY <1>2, NoScopes DEF ForTasks
<1>4. Gain(Current(s), t) = -1
    BY <1>2 DEF Gain
<1> QED BY <1>1, <1>2, <1>3, <1>4, TaskAhead DEF Below, LoopTasks, ExprTasks

LEMMA MethodsAhead ==
    ASSUME NEW b, NEW s, NEW w, NEW p, NEW q, Standing(b, s, w, p, q),
           NEW y, Below(y, q, 0), q.temps = 1
    PROVE  Standing(b, s, Ahead(Task("methods"), w), p, y)
<1>1. PICK t : t = Task("methods")
    OBVIOUS
<1>2. t \in Tasks /\ t.k = "methods"
    BY <1>1 DEF Task, Tasks
<1>3. t \notin ScopeTasks
    BY <1>2, NoScopes DEF ForTasks
<1>4. Gain(Current(s), t) = 0
    BY <1>2 DEF Gain
<1> QED BY <1>1, <1>2, <1>3, <1>4, TaskAhead DEF Below, LoopTasks, ExprTasks

LEMMA InvokeAhead ==
    ASSUME NEW b, NEW s, NEW w, NEW p, NEW q, Standing(b, s, w, p, q), NEW n \in Nat,
           NEW t, t = [k |-> "superInvoke", args |-> n], NEW y, Below(y, q, -n)
    PROVE  Standing(b, s, Ahead(t, w), p, y)
<1>2. t \in Tasks /\ t.k = "superInvoke" /\ t.args = n
    BY DEF Tasks
<1>3. t \notin ScopeTasks
    BY <1>2, NoScopes DEF ForTasks
<1>4. Gain(Current(s), t) = -n
    BY <1>2 DEF Gain
<1> QED BY <1>2, <1>3, <1>4, TaskAhead DEF Below, LoopTasks, ExprTasks

(* What ends a scope, where the locals that are left are those in front of *)
(* it.                                                                     *)
LEMMA ScopeAhead ==
    ASSUME NEW b, NEW s, NEW w, NEW p, NEW q, Standing(b, s, w, p, q), NEW base \in Nat,
           NEW y \in Points, q \in Points, q.locals = base, q.temps = 0, y.temps = 0,
           Live(y) => Live(q)
    PROVE  Standing(b, s, Ahead(Scope(base), w), p, y)
<1>1. PICK t : t = Scope(base)
    OBVIOUS
<1>2. t \in Tasks /\ t.k = "endScope" /\ Base(t) = base
    BY <1>1 DEF Scope, Tasks, Base, LoopTasks
<1>3. t \in ScopeTasks
    BY <1>2, NoScopes DEF ForTasks
<1>4. Gain(Current(s), t) = 0
    BY <1>2 DEF Gain
<1> QED BY <1>1, <1>2, <1>3, <1>4, TaskAhead DEF LoopTasks, ExprTasks

LEMMA ClassAhead ==
    ASSUME NEW b, NEW s, NEW w, NEW p, NEW q, Standing(b, s, w, p, q), NEW base \in Nat,
           NEW inherits \in BOOLEAN,
           NEW y \in Points, q \in Points, q.locals = IF inherits THEN base ELSE y.locals,
           q.temps = 0, y.temps = 1, Live(y) => Live(q)
    PROVE  Standing(b, s, Ahead(Class(base, inherits), w), p, y)
<1>1. PICK t : t = Class(base, inherits)
    OBVIOUS
<1>2. t \in Tasks /\ t.k = "endClass" /\ Base(t) = base /\ t.hasSuperclass = inherits
    BY <1>1 DEF Class, Tasks, Base, LoopTasks
<1>3. t \in ScopeTasks <=> inherits
    BY <1>2 DEF ScopeTasks, ForTasks
<1>4. Gain(Current(s), t) = -1
    BY <1>2 DEF Gain
<1> QED BY <1>1, <1>2, <1>3, <1>4, TaskAhead DEF LoopTasks, ExprTasks

(* A block: its statements leave what they find.                           *)
LEMMA BlockAhead ==
    ASSUME NEW b, NEW s, NEW w, NEW p, NEW q, Standing(b, s, w, p, q),
           w[1].k \in {"endScope", "endFunction"}, q \in Points, q.temps = 0
    PROVE  Standing(b, s, Ahead(Task("stats"), w), p, q)
<1>1. PICK t : t = Task("stats")
    OBVIOUS
<1>2. t \in Tasks /\ t.k = "stats"
    BY <1>1 DEF Task, Tasks
<1>3. t \notin ScopeTasks
    BY <1>2, NoScopes DEF ForTasks
<1>4. Gain(Current(s), t) = 0
    BY <1>2 DEF Gain
<1>5. Leads(Current(s), t, q, q)
    BY <1>2, <1>3, <1>4 DEF Leads, Travels, Meets, Repeats, LoopTasks, Live, ExprTasks
<1> QED BY <1>1, <1>2, <1>5, AheadStands

(* A jump that waits is patched where there is what it was left with.      *)
LEMMA PatchIsAhead ==
    ASSUME NEW b, NEW s, NEW w, NEW p, NEW q, Standing(b, s, w, p, q), NEW jump \in Nat,
           NEW y, Below(y, q, 0), Reaches(Current(s), jump, y.locals + y.temps, q)
    PROVE  Standing(b, s, Ahead(Patch(jump), w), p, y)
<1>1. PICK t : t = Patch(jump)
    OBVIOUS
<1>2. t \in Tasks /\ t.k = "patch" /\ t.jump = jump
    BY <1>1 DEF Patch, Tasks
<1>3. t \notin ScopeTasks
    BY <1>2, NoScopes DEF ForTasks
<1>4. Gain(Current(s), t) = 0
    BY <1>2 DEF Gain
<1>5. Leads(Current(s), t, y, q)
    BY <1>2, <1>3, <1>4 DEF Leads, Travels, Meets, Repeats, LoopTasks, Live, ExprTasks, Below
<1> QED BY <1>1, <1>2, <1>5, AheadStands

LEMMA ElseAhead ==
    ASSUME NEW b, NEW s, NEW w, NEW p, NEW q, Standing(b, s, w, p, q), NEW jump \in Nat,
           NEW y, Below(y, q, 0), q.temps = 0, Reaches(Current(s), jump, y.locals + 1, q)
    PROVE  Standing(b, s, Ahead([k |-> "ifElse", jump |-> jump], w), p, y)
<1>1. PICK t : t = [k |-> "ifElse", jump |-> jump]
    OBVIOUS
<1>2. t \in Tasks /\ t.k = "ifElse" /\ t.jump = jump
    BY <1>1 DEF Tasks
<1>3. t \notin ScopeTasks
    BY <1>2, NoScopes DEF ForTasks
<1>4. Gain(Current(s), t) = 0
    BY <1>2 DEF Gain
<1>5. Leads(Current(s), t, y, q)
    BY <1>2, <1>3, <1>4 DEF Leads, Travels, Meets, Repeats, LoopTasks, Live, ExprTasks, Below
<1> QED BY <1>1, <1>2, <1>5, AheadStands

LEMMA LogicAhead ==
    ASSUME NEW b, NEW s, NEW w, NEW p, NEW q, Standing(b, s, w, p, q),
           NEW kind \in {"andJump", "orJump"}, NEW y, Below(y, q, 0), y.temps >= 0,
           NEW t, t = [k |-> kind, canAssign |-> FALSE]
    PROVE  Standing(b, s, Ahead(t, w), p, y)
<1>2. t \in Tasks /\ t.k = kind /\ t.canAssign = FALSE
    BY DEF Tasks
<1>3. t \notin ScopeTasks
    BY <1>2, NoScopes DEF ForTasks
<1>4. Gain(Current(s), t) = 0
    BY <1>2 DEF Gain
<1>5. Leads(Current(s), t, y, q)
    BY <1>2, <1>3, <1>4 DEF Leads, Travels, Meets, Repeats, LoopTasks, Live, ExprTasks, Below
<1> QED BY <1>2, <1>5, AheadStands

(* A loop in progress.                                                     *)
LoopLeads(c, kind, loop, y, q) ==
    /\ y \in Points /\ q \in Points /\ (Live(y) => Live(q))
    /\ q.locals = IF kind \in ForTasks THEN loop.base ELSE y.locals
    /\ q.temps = 0 /\ y.temps = IF kind \in {"whileBody", "forExit", "forBody"} THEN 1 ELSE 0
    /\ loop.exit # NONE => Reaches(c, loop.exit, y.locals + 1, q)
    /\ kind = "forBody" => Reaches(c, loop.body, y.locals, y) /\ Restarts(c, loop.body, y)
    /\ kind # "forCond" => Restarts(c, loop.start, y)
    /\ loop.saved.break = 0

LEMMA LoopAhead ==
    ASSUME NEW b, NEW s, NEW w, NEW p, NEW q, Standing(b, s, w, p, q),
           NEW kind \in LoopTasks, NEW loop \in Loops, NEW y,
           LoopLeads(Current(s), kind, loop, y, q)
    PROVE  Standing(b, s, Ahead(Loop(kind, loop), w), p, y)
<1>1. PICK t : t = Loop(kind, loop)
    OBVIOUS
<1>2. t \in Tasks /\ t.k = kind /\ t.loop = loop /\ Base(t) = loop.base
    BY <1>1, LoopTask
<1>3. t \in ScopeTasks <=> kind \in ForTasks
    BY <1>2 DEF ScopeTasks, ForTasks, LoopTasks
<1>4. Gain(Current(s), t) = IF kind \in {"whileBody", "forExit", "forBody"} THEN -1 ELSE 0
    BY <1>2 DEF Gain, LoopTasks
<1>5. Travels(Current(s), t, y, q)
    BY <1>2, <1>3, <1>4 DEF Travels, LoopTasks, Live, ExprTasks, LoopLeads
<1>6. Meets(Current(s), t, y, q)
    BY <1>2 DEF Meets, LoopLeads, LoopTasks
<1>7. Repeats(Current(s), t, y)
    BY <1>2 DEF Repeats, LoopLeads
<1>8. Leads(Current(s), t, y, q)
    BY <1>2, <1>5, <1>6, <1>7 DEF Leads, LoopTasks
<1> QED BY <1>1, <1>2, <1>8, AheadStands DEF LoopTasks

-----------------------------------------------------------------------------
(* Steps, in programs that are in order.                                   *)
Balancing == Inv /\ Ordered /\ Lexical /\ Stacked /\ Orderly /\ error = NoError

LEMMA InOrder ==
    ASSUME Orderly
    PROVE  /\ Disciplined
           /\ \A kind \in {"break", "continue", "forExpr", "target"} : kind \notin Syntax
BY DEF Orderly, Disciplined, Without

LEMMA ArrivesAt ==
    ASSUME NEW b, NEW s, NEW w, NEW p, NEW q, Standing(b, s, w, p, q), Below(p, q, 0)
    PROVE  Standing(b, s, w, q, q)
<1>1. Sits(Current(s), p)
    BY DEF Standing, Poised
<1>2. p.locals + p.temps = q.locals + q.temps
    BY PointTypes DEF Below
<1>3. Sits(Current(s), q)
    BY <1>1, <1>2 DEF Sits, Below, Live
<1> QED BY <1>3 DEF Standing, Poised

(* The work of the current function, and what is left behind its head.     *)
LEMMA StackHead ==
    ASSUME Balancing, todo # <<>>
    PROVE  \E p, q \in Points :
            /\ Standing(Now, Now, Work, p, p) /\ Standing(Now, Now, Tail(Work), p, q)
            /\ Leads(Current(Now), Work[1], p, q)
<1>1. PICK n \in Nat \ {0} : n = Len(contexts)
    BY AtWork DEF Balancing
<1>2. /\ Good(Now) /\ n \in 1..n /\ Current(Now) = contexts[n] /\ Work = todo[n]
      /\ Work \in Seq(Tasks) /\ Work # <<>>
    BY <1>1, AtWork DEF Balancing
<1>3. PICK c : c = Current(Now)
    OBVIOUS
<1>4. Owed(n) = 0
    BY <1>1 DEF Owed
<1>5. Balanced(c, Work, 0)
    BY <1>1, <1>2, <1>3, <1>4 DEF Balancing, Stacked
<1>6. PICK p \in Points : Poised(c, Work, Owing(p, 0), p)
    BY <1>5 DEF Balanced
<1>7. Owing(p, 0) = p
    <2>1. p.temps - 0 = p.temps
        BY PointTypes
    <2> QED BY <2>1 DEF Owing, Points
<1>8. Poised(c, Work, p, p)
    BY <1>6, <1>7
<1>9. PICK q \in Points : Leads(c, Work[1], p, q) /\ LeadsOn(c, Tail(Work), q)
    BY <1>2, <1>8, HeadLeads DEF Poised
<1>10. Follows(Now, Now)
    BY <1>2, FollowsSelf
<1>11. Tail(Work) \in Seq(Tasks)
    BY <1>2, TailOf
<1>12. Standing(Now, Now, Work, p, p)
    BY <1>2, <1>3, <1>8, <1>10 DEF Standing
<1>13. Standing(Now, Now, Tail(Work), p, q)
    BY <1>2, <1>3, <1>8, <1>9, <1>10, <1>11 DEF Standing, Poised
<1> QED BY <1>3, <1>9, <1>12, <1>13

(* The current function goes on at point x; those around it wait.          *)
LEMMA StackStep ==
    ASSUME Balancing, todo # <<>>, NEW s, Becomes(s), UNCHANGED functions,
           NEW u, todo' = Append(Front(todo), u), NEW x, Standing(Now, s, u, x, x)
    PROVE  Stacked'
<1>1. PICK n \in Nat \ {0} : n = Len(contexts)
    BY AtWork DEF Balancing
<1>2. /\ Good(Now) /\ n \in 1..n /\ Len(todo) = n
      /\ contexts \in Seq(Contexts) /\ contexts # <<>> /\ todo \in Seq(Seq(Tasks)) /\ todo # <<>>
      /\ Current(Now) = contexts[n] /\ Work = todo[n] /\ Now.contexts = contexts
    BY <1>1, AtWork DEF Balancing
<1>3. contexts' = s.contexts
    BY DEF Becomes
<1>4. Good(s) /\ Follows(Now, s) /\ u \in Seq(Tasks) /\ Poised(Current(s), u, x, x)
    BY DEF Standing
<1>5. Len(s.contexts) = n /\ Current(s) = s.contexts[n]
    <2>1. Len(s.contexts) = n
        BY <1>1, <1>2, <1>4 DEF Follows
    <2> QED BY <1>4, <2>1, CurrentIsFine
<1>6. WithLast(todo', todo, u, Seq(Tasks))
    BY <1>2, <1>4, LastReplaced
<1>7. todo'[n] = u /\ \A j \in 1..n - 1 : todo'[j] = todo[j]
    BY <1>2, <1>6 DEF WithLast
<1>8. ASSUME NEW j \in 1..n - 1
      PROVE  Balanced(contexts'[j], todo'[j], Owed(j)')
    <2>1. PICK c : c = contexts[j]
        OBVIOUS
    <2>2. PICK d : d = contexts'[j]
        OBVIOUS
    <2>3. j \in 1..n /\ j < n
        OBVIOUS
    <2>4. Fine(c) /\ Fine(d)
        BY <1>1, <1>2, <1>3, <1>4, <1>5, <2>1, <2>2, <2>3 DEF Good
    <2>5. Alike(c, d)
        BY <1>1, <1>2, <1>3, <1>4, <2>1, <2>2 DEF Follows
    <2>6. PICK owed : owed = Owed(j)
        OBVIOUS
    <2>7. Owed(j)' = owed
        BY <1>1, <1>3, <1>5, <1>7, <2>1, <2>2, <2>3, <2>5, <2>6 DEF Owed, Alike, SameSettings
    <2>8. PICK w : w = todo[j]
        OBVIOUS
    <2>9. PICK q \in Points : Poised(c, w, Owing(q, owed), q)
        BY <1>1, <2>1, <2>3, <2>6, <2>8 DEF Balancing, Stacked, Balanced
    <2>10. Poised(d, w, Owing(q, owed), q)
        BY <2>4, <2>5, <2>9, AlikePoised DEF Fine
    <2> QED BY <1>7, <2>2, <2>7, <2>8, <2>10 DEF Balanced
<1>9. Balanced(contexts'[n], todo'[n], Owed(n)')
    <2>1. x \in Points
        BY <1>4 DEF Poised, Sits
    <2>2. Owing(x, 0) = x
        <3>1. x.temps - 0 = x.temps
            BY <2>1, PointTypes
        <3> QED BY <2>1, <3>1 DEF Owing, Points
    <2>3. Owed(n)' = 0
        BY <1>3, <1>5 DEF Owed
    <2>4. Balanced(Current(s), u, 0)
        BY <1>4, <2>1, <2>2 DEF Balanced
    <2> QED BY <1>3, <1>5, <1>7, <2>3, <2>4
<1>10. \A j \in 1..n : j \in 1..n - 1 \/ j = n
    OBVIOUS
<1>11. \A j \in 1..Len(contexts') : Balanced(contexts'[j], todo'[j], Owed(j)')
    BY <1>3, <1>5, <1>8, <1>9, <1>10
<1>12. \A j \in 1..Len(functions') : CodeMeets(functions'[j].code)
    BY DEF Balancing, Stacked
<1> QED BY <1>11, <1>12 DEF Stacked

LEMMA EvaluateStacks ==
    ASSUME Balancing, AtExpr, NEW s, NEW tasks, Evaluate(s, tasks),
           NEW x, Standing(Now, s, tasks \o Tail(Work), x, x)
    PROVE  Stacked'
<1>1. todo # <<>>
    BY DEF AtExpr, Doing
<1>2. PICK u : u = tasks \o Tail(Work)
    OBVIOUS
<1>3. Becomes(s) /\ todo' = Append(Front(todo), u) /\ UNCHANGED functions
    BY <1>2 DEF Evaluate, Walk
<1> QED BY <1>1, <1>2, <1>3, StackStep

LEMMA ContinueStacks ==
    ASSUME Balancing, todo # <<>>, NEW s, NEW tasks, Continue(s, tasks),
           NEW x, Standing(Now, s, tasks \o Tail(Work), x, x)
    PROVE  Stacked'
<1>1. PICK u : u = tasks \o Tail(Work)
    OBVIOUS
<1>2. Becomes(s) /\ todo' = Append(Front(todo), u) /\ UNCHANGED functions
    BY <1>1 DEF Continue, Walk
<1> QED BY <1>1, <1>2, StackStep

LEMMA StatementStacks ==
    ASSUME Balancing, AtStatement, NEW s, NEW tasks, Statement(s, tasks),
           NEW x, Standing(Now, s, tasks \o Rest, x, x)
    PROVE  Stacked'
<1>1. todo # <<>>
    BY DEF AtStatement, Doing
<1>2. PICK u : u = tasks \o Rest
    OBVIOUS
<1>3. Becomes(s) /\ todo' = Append(Front(todo), u) /\ UNCHANGED functions
    BY <1>2 DEF Statement, Walk, Rest
<1> QED BY <1>1, <1>2, <1>3, StackStep

(* Where the walk is at an expression, and at a statement.                 *)
LEMMA ExprPoints ==
    ASSUME Balancing, AtExpr
    PROVE  /\ \E p, q \in Points :
                /\ Standing(Now, Now, Tail(Work), p, q)
                /\ Below(p, q, IF CanAssign THEN 0 ELSE 1)
           /\ CanAssign \in BOOLEAN
<1>1. todo # <<>> /\ Work[1].k = "expr" /\ Work[1] \in Tasks /\ Head(Work) = Work[1]
    BY NowIsGood, AtWork DEF AtExpr, Balancing
<1>2. CanAssign = Work[1].canAssign /\ CanAssign \in BOOLEAN
    BY <1>1 DEF CanAssign, Tasks, LoopTasks
<1>3. PICK p, q \in Points :
        Standing(Now, Now, Tail(Work), p, q) /\ Leads(Current(Now), Work[1], p, q)
    BY <1>1, StackHead
<1>4. Work[1] \notin ScopeTasks
    BY <1>1, NoScopes DEF ForTasks
<1>5. Gain(Current(Now), Work[1]) = IF CanAssign THEN 0 ELSE 1
    BY <1>1, <1>2 DEF Gain
<1>6. Below(p, q, IF CanAssign THEN 0 ELSE 1)
    BY <1>3, <1>4, <1>5 DEF Leads, Travels, Below, Live
<1> QED BY <1>2, <1>3, <1>6

LEMMA StatementPoints ==
    ASSUME Balancing, AtStatement
    PROVE  \E p, q \in Points :
            /\ Standing(Now, Now, Rest, p, q) /\ Below(p, q, 0) /\ p.temps = 0 /\ q.temps = 0
            /\ Doing("stats") => q = p
<1>1. todo # <<>> /\ Work[1].k \in {"stat", "stats"} /\ Work[1] \in Tasks
    BY NowIsGood DEF AtStatement, Balancing
<1>2. PICK p, q \in Points :
        /\ Standing(Now, Now, Work, p, p) /\ Standing(Now, Now, Tail(Work), p, q)
        /\ Leads(Current(Now), Work[1], p, q)
    BY <1>1, StackHead
<1>3. Work[1] \notin ScopeTasks
    BY <1>1, NoScopes DEF ForTasks
<1>4. Gain(Current(Now), Work[1]) = 0
    BY <1>1 DEF Gain
<1>5. q.temps = 0 /\ q.temps = p.temps + 0 /\ q.locals = p.locals /\ (Live(p) => Live(q))
    BY <1>1, <1>2, <1>3, <1>4 DEF Leads, Travels, ExprTasks, Live
<1>6. p.temps = 0 /\ Below(p, q, 0) /\ Below(p, p, 0)
    BY <1>5, PointTypes DEF Below
<1>7. CASE Doing("stats")
    BY <1>2, <1>6, <1>7 DEF Rest
<1>8. CASE ~Doing("stats")
    BY <1>2, <1>5, <1>6, <1>8 DEF Rest
<1> QED BY <1>7, <1>8

-----------------------------------------------------------------------------
(* Expressions.                                                            *)

(* A point on the way from p to q.                                         *)
LEMMA Between ==
    ASSUME NEW p, NEW q, NEW gain \in Int, Below(p, q, gain), NEW n \in Int, p.temps + n >= -1
    PROVE  \E y \in Points :
            /\ y.locals = p.locals /\ y.temps = p.temps + n /\ y.path = p.path
            /\ Below(p, y, n) /\ Below(y, q, gain - n)
<1>1. p \in Points /\ q \in Points /\ p.locals = q.locals /\ q.temps = p.temps + gain
      /\ (Live(p) => Live(q)) /\ p.temps \in Int
    BY PointTypes DEF Below
<1>2. PICK m \in Int : m = p.temps + n
    BY <1>1
<1>3. PICK y \in Points : y.locals = p.locals /\ y.temps = m /\ y.path = p.path
    BY <1>1, <1>2, PointBeside
<1>4. q.temps = y.temps + (gain - n)
    BY <1>1, <1>2, <1>3
<1>5. Live(p) <=> Live(y)
    BY <1>3 DEF Live
<1> QED BY <1>1, <1>2, <1>3, <1>4, <1>5 DEF Below

LEMMA Operands ==
    ASSUME Balancing, AtExpr, NEW kind, TargetOf(kind), kind # "name"
    PROVE  /\ CanAssign = FALSE /\ Target(CanAssign) = Expr
           /\ \E p, q \in Points : Standing(Now, Now, Tail(Work), p, q) /\ Below(p, q, 1)
<1>1. "target" \notin Syntax
    BY InOrder DEF Balancing
<1>2. CanAssign = FALSE
    BY <1>1, ExprPoints DEF TargetOf
<1> QED BY <1>2, ExprPoints DEF Target, Expr

LEMMA StackOps ==
    /\ \A op \in {"CONSTANT", "NIL", "CLASS", "CLOSURE"}, n \in Int :
        op \in PlainOperations /\ Effect(op, n) = 1
    /\ \A op \in {"POP", "METHOD", "INHERIT", "GET_SUPER", "PRINT", "BINARY", "SET_PROPERTY"}, n \in Int :
        op \in PlainOperations /\ Effect(op, n) = -1
    /\ \A op \in {"UNARY", "GET_PROPERTY"}, n \in Int : op \in PlainOperations /\ Effect(op, n) = 0
    /\ \A op \in {"CALL", "INVOKE"}, n \in Int : op \in PlainOperations /\ Effect(op, n) = -n
    /\ \A n \in Int : "SUPER_INVOKE" \in PlainOperations /\ Effect("SUPER_INVOKE", n) = -(n + 1)
BY DEF PlainOperations, Operations, Jumping, Effect, Pushes, Pops, Keeps, Diverts, Calls

LEMMA AppendAhead ==
    ASSUME NEW a \in Seq(Tasks), NEW t \in Tasks, NEW w \in Seq(Tasks)
    PROVE  Append(a, t) \o w = a \o Ahead(t, w)
BY AppendIsConcat, ConcatAssociative DEF Ahead

(* An instruction that takes the stack from p to x.                        *)
LEMMA EmitBetween ==
    ASSUME NEW b, NEW s, NEW w, NEW p, NEW q, Standing(b, s, w, p, q),
           NEW op \in PlainOperations, NEW arg \in Int, NEW gain \in Int, Effect(op, arg) = gain,
           NEW x, Below(p, x, gain)
    PROVE  Standing(b, Emit(s, op, arg), w, x, q)
<1>1. x \in Points /\ x.locals = p.locals /\ x.temps = p.temps + gain /\ (Live(p) => Live(x))
    BY DEF Below
<1> QED BY <1>1, EmitStands

LEMMA LookBetween ==
    ASSUME NEW b, NEW s, NEW w, NEW p, NEW q, Standing(b, s, w, p, q),
           NEW name \in {"this", "super"}, NEW x, Below(p, x, 1)
    PROVE  Standing(b, NamedVariable(s, name, FALSE), w, x, q)
<1>1. x \in Points /\ x.locals = p.locals /\ x.temps = p.temps + 1 /\ (Live(p) => Live(x))
    BY DEF Below
<1>2. name \in VariableNames
    BY DEF VariableNames
<1> QED BY <1>1, <1>2, LookStands

LEMMA LiteralStacks ==
    ASSUME Balancing, Literal
    PROVE  Stacked'
<1>1. AtExpr /\ TargetOf("literal") /\ Evaluate(Emit(Now, "CONSTANT", 0), <<>>)
    BY DEF Literal, Leaf
<1>2. PICK p, q \in Points : Standing(Now, Now, Tail(Work), p, q) /\ Below(p, q, 1)
    BY <1>1, Operands
<1>3. Standing(Now, Emit(Now, "CONSTANT", 0), Tail(Work), q, q)
    BY <1>2, StackOps, EmitBetween
<1>4. <<>> \o Tail(Work) = Tail(Work)
    BY <1>2, NoTasks DEF Standing
<1> QED BY <1>1, <1>3, <1>4, EvaluateStacks

LEMMA VariableStacks ==
    ASSUME Balancing, Variable
    PROVE  Stacked'
<1>1. AtExpr
    BY DEF Variable, Leaf
<1>2. PICK name \in Identifiers : Evaluate(NamedVariable(Now, name, CanAssign), <<>>)
    BY DEF Variable
<1>3. PICK p, q \in Points :
        Standing(Now, Now, Tail(Work), p, q) /\ Below(p, q, IF CanAssign THEN 0 ELSE 1)
    BY <1>1, ExprPoints
<1>4. name \in VariableNames /\ CanAssign \in BOOLEAN
    BY <1>1, FamilyBounds, ExprPoints DEF Balancing
<1>5. PICK u : u = NamedVariable(Now, name, CanAssign)
    OBVIOUS
<1>6. Standing(Now, u, Tail(Work), q, q)
    BY <1>3, <1>4, <1>5, LookStands DEF Below
<1>7. <<>> \o Tail(Work) = Tail(Work)
    BY <1>3, NoTasks DEF Standing
<1> QED BY <1>1, <1>2, <1>5, <1>6, <1>7, EvaluateStacks

LEMMA ThisStacks ==
    ASSUME Balancing, This, error' = NoError
    PROVE  Stacked'
<1>1. AtExpr /\ TargetOf("this")
    BY DEF This, Leaf
<1>2. PICK p, q \in Points : Standing(Now, Now, Tail(Work), p, q) /\ Below(p, q, 1)
    BY <1>1, Operands
<1>3. <<>> \o Tail(Work) = Tail(Work)
    BY <1>2, NoTasks DEF Standing
<1>4. CASE currentClass = <<>>
    <2>1. Evaluate(FailIf(Now, TRUE, "Can't use 'this' outside of a class"), <<>>)
        BY <1>4 DEF This
    <2>2. error' = "Can't use 'this' outside of a class"
        BY <2>1 DEF Evaluate, Walk, Becomes, FailIf, Now, Balancing
    <2> QED BY <2>2 DEF NoError
<1>5. CASE currentClass # <<>>
    <2>1. Evaluate(NamedVariable(Now, "this", FALSE), <<>>)
        BY <1>5 DEF This
    <2>2. PICK u : u = NamedVariable(Now, "this", FALSE)
        OBVIOUS
    <2>3. Standing(Now, u, Tail(Work), q, q)
        BY <1>2, <2>2, LookBetween
    <2> QED BY <1>1, <1>3, <2>1, <2>2, <2>3, EvaluateStacks
<1> QED BY <1>4, <1>5

(* An instruction waits, with the arguments in front of it.                *)
LEMMA CallAhead ==
    ASSUME NEW b, NEW s, NEW w, NEW p, NEW q, Standing(b, s, w, p, q), NEW n \in Nat,
           NEW t \in Tasks,
           NEW z, Standing(b, s, Ahead(t, w), p, z), NEW y, Below(y, z, n), y.path = z.path
    PROVE  Standing(b, s, Append(Arguments(n), t) \o w, p, y)
<1>1. Arguments(n) \in Seq(Tasks)
    <2>1. \A i \in 1..n : Expr \in Tasks
        BY DeclaringTasks
    <2> QED BY <2>1 DEF Arguments
<1>2. Append(Arguments(n), t) \o w = Arguments(n) \o Ahead(t, w)
    BY <1>1, AppendAhead DEF Standing
<1>3. PICK v : v = Ahead(t, w)
    OBVIOUS
<1>4. PICK u : u = Arguments(n) \o v
    OBVIOUS
<1>5. Standing(b, s, u, p, y)
    BY <1>3, <1>4, ArgumentsStand
<1> QED BY <1>2, <1>3, <1>4, <1>5

LEMMA SuperStacks ==
    ASSUME Balancing, Super
    PROVE  Stacked'
<1>1. AtExpr /\ TargetOf("super")
    BY DEF Super, Compound
<1>2. PICK p, q \in Points : Standing(Now, Now, Tail(Work), p, q) /\ Below(p, q, 1)
    BY <1>1, Operands
<1>3. PICK f : f = FailIf(Now, currentClass = <<>> \/ ~Last(currentClass), "Can't use 'super' here")
    OBVIOUS
<1>4. Standing(Now, f, Tail(Work), p, q)
    BY <1>2, <1>3, FailStands DEF Errors
<1>5. PICK this : this = NamedVariable(f, "this", FALSE)
    OBVIOUS
<1>6. p.temps \in Int /\ p.temps >= -1
    BY PointTypes
<1>7. PICK y \in Points : y.temps = p.temps + 1 /\ Below(p, y, 1) /\ Below(y, q, 0)
                          /\ y.locals = p.locals /\ y.path = p.path
    BY <1>2, <1>6, Between
<1>8. Standing(Now, this, Tail(Work), y, q)
    BY <1>4, <1>5, <1>7, LookBetween
<1>9. CASE Evaluate(Emit(NamedVariable(this, "super", FALSE), "GET_SUPER", 0), <<>>)
    <2>1. PICK z \in Points : Below(y, z, 1) /\ Below(z, q, 0 - 1)
        BY <1>6, <1>7, Between
    <2>2. PICK u : u = NamedVariable(this, "super", FALSE)
        OBVIOUS
    <2>3. Standing(Now, u, Tail(Work), z, q)
        BY <1>8, <2>1, <2>2, LookBetween
    <2>4. Standing(Now, Emit(u, "GET_SUPER", 0), Tail(Work), q, q)
        BY <2>1, <2>3, StackOps, EmitBetween
    <2>5. <<>> \o Tail(Work) = Tail(Work)
        BY <1>2, NoTasks DEF Standing
    <2> QED BY <1>1, <1>9, <2>2, <2>4, <2>5, EvaluateStacks
<1>10. CASE \E n \in 0..MaxArgs :
                Evaluate(this, Append(Arguments(n), [k |-> "superInvoke", args |-> n]))
    <2>1. PICK n \in 0..MaxArgs :
                Evaluate(this, Append(Arguments(n), [k |-> "superInvoke", args |-> n]))
        BY <1>10
    <2>2. n \in Nat
        BY FamilyBounds DEF Balancing
    <2>3. PICK t : t = [k |-> "superInvoke", args |-> n]
        OBVIOUS
    <2>4. t \in Tasks
        BY <2>2, <2>3 DEF Tasks
    <2>5. PICK z \in Points : Below(y, z, n) /\ Below(z, q, 0 - n) /\ z.path = y.path
        <3>1. y.temps + n >= -1 /\ n \in Int /\ 0 \in Int
            BY <1>6, <1>7, <2>2
        <3> QED BY <1>7, <3>1, Between
    <2>6. Standing(Now, this, Ahead(t, Tail(Work)), y, z)
        BY <1>8, <2>2, <2>3, <2>5, InvokeAhead
    <2>7. Standing(Now, this, Append(Arguments(n), t) \o Tail(Work), y, y)
        BY <1>8, <2>2, <2>4, <2>5, <2>6, CallAhead
    <2> QED BY <1>1, <2>1, <2>3, <2>7, EvaluateStacks
<1>11. \/ Evaluate(Emit(NamedVariable(this, "super", FALSE), "GET_SUPER", 0), <<>>)
       \/ \E n \in 0..MaxArgs :
                Evaluate(this, Append(Arguments(n), [k |-> "superInvoke", args |-> n]))
    BY <1>3, <1>5 DEF Super
<1> QED BY <1>9, <1>10, <1>11

(* A task of an expression is next, and leads from p to q.                 *)
LEMMA TaskPoints ==
    ASSUME Balancing, NEW kind, Doing(kind)
    PROVE  /\ todo # <<>> /\ Head(Work) = Work[1] /\ Work[1] \in Tasks /\ Work[1].k = kind
           /\ Tail(Work) \in Seq(Tasks) /\ <<>> \o Tail(Work) = Tail(Work)
           /\ \E p, q \in Points :
                /\ Standing(Now, Now, Tail(Work), p, q) /\ Leads(Current(Now), Work[1], p, q)
                /\ Work[1] \notin ScopeTasks => Below(p, q, Gain(Current(Now), Work[1]))
<1>1. todo # <<>> /\ Head(Work) = Work[1] /\ Work[1] \in Tasks /\ Work[1].k = kind
    BY NowIsGood DEF Balancing
<1>2. PICK p, q \in Points :
        Standing(Now, Now, Tail(Work), p, q) /\ Leads(Current(Now), Work[1], p, q)
    BY <1>1, StackHead
<1>3. Tail(Work) \in Seq(Tasks) /\ <<>> \o Tail(Work) = Tail(Work)
    BY <1>2, NoTasks DEF Standing
<1>4. Work[1] \notin ScopeTasks => Below(p, q, Gain(Current(Now), Work[1]))
    BY <1>2 DEF Leads, Travels, Below, Live
<1> QED BY <1>1, <1>2, <1>3, <1>4

LEMMA SuperInvokeStacks ==
    ASSUME Balancing, SuperInvoke
    PROVE  Stacked'
<1>1. Doing("superInvoke")
    BY DEF SuperInvoke
<1>2. todo # <<>> /\ Head(Work) = Work[1] /\ Work[1] \in Tasks /\ Work[1].k = "superInvoke"
      /\ <<>> \o Tail(Work) = Tail(Work)
    BY <1>1, TaskPoints
<1>3. PICK n \in Nat : n = Work[1].args
    BY <1>2, TaskTypes
<1>4. Gain(Current(Now), Work[1]) = -n /\ Work[1] \notin ScopeTasks
    BY <1>2, <1>3, NoScopes DEF Gain, ForTasks
<1>5. PICK p, q \in Points : Standing(Now, Now, Tail(Work), p, q) /\ Below(p, q, -n)
    BY <1>1, <1>4, TaskPoints
<1>6. PICK gain \in Int : gain = -n
    BY <1>3
<1>7. PICK z \in Points : Below(p, z, 1) /\ Below(z, q, gain - 1)
    <2>1. p.temps + 1 >= -1
        BY PointTypes
    <2>2. Below(p, q, gain)
        BY <1>5, <1>6
    <2> QED BY <1>6, <2>1, <2>2, Between
<1>8. PICK u : u = NamedVariable(Now, "super", FALSE)
    OBVIOUS
<1>9. Standing(Now, u, Tail(Work), z, q)
    BY <1>5, <1>7, <1>8, LookBetween
<1>10. PICK less \in Int : less = gain - 1
    BY <1>6
<1>11. Effect("SUPER_INVOKE", n) = less
    BY <1>3, <1>6, <1>10, StackOps
<1>12. Standing(Now, Emit(u, "SUPER_INVOKE", n), Tail(Work), q, q)
    BY <1>7, <1>9, <1>10, <1>11, StackOps, EmitBetween
<1>13. Continue(Emit(u, "SUPER_INVOKE", n), <<>>)
    BY <1>2, <1>3, <1>8 DEF SuperInvoke
<1> QED BY <1>2, <1>12, <1>13, ContinueStacks

LEMMA EmitOpStacks ==
    ASSUME Balancing, EmitOp
    PROVE  Stacked'
<1>1. Doing("emit")
    BY DEF EmitOp
<1>2. todo # <<>> /\ Head(Work) = Work[1] /\ Work[1] \in Tasks /\ Work[1].k = "emit"
      /\ <<>> \o Tail(Work) = Tail(Work)
    BY <1>1, TaskPoints
<1>3. PICK op \in Emitted, n \in Nat : op = Work[1].op /\ n = Work[1].arg
    BY <1>2, TaskTypes
<1>4. PICK gain : gain = IF op = "RETURN" THEN -1 ELSE Effect(op, n)
    OBVIOUS
<1>5. Gain(Current(Now), Work[1]) = gain /\ Work[1] \notin ScopeTasks
    BY <1>2, <1>3, <1>4, NoScopes DEF Gain, ForTasks
<1>6. PICK p, q \in Points : Standing(Now, Now, Tail(Work), p, q) /\ Below(p, q, gain)
    BY <1>1, <1>5, TaskPoints
<1>7. op \in PlainOperations /\ (op # "RETURN" => Effect(op, n) \in Int) /\ "RETURN" \in Diverts
    BY <1>3 DEF Emitted, PlainOperations, Operations, Jumping, Effect, Pushes, Pops, Keeps, Diverts, Calls
<1>8. Standing(Now, Emit(Now, op, n), Tail(Work), q, q)
    <2>1. CASE op = "RETURN"
        <3>1. op \in Diverts /\ q.locals = p.locals /\ n \in Int
            BY <1>6, <1>7, <2>1 DEF Below
        <3> QED BY <1>6, <1>7, <3>1, EmitStands
    <2>2. CASE op # "RETURN"
        BY <1>4, <1>6, <1>7, <2>2, EmitBetween
    <2> QED BY <2>1, <2>2
<1>9. Continue(Emit(Now, op, n), <<>>)
    BY <1>2, <1>3 DEF EmitOp
<1> QED BY <1>2, <1>8, <1>9, ContinueStacks

LEMMA PatchForwardStacks ==
    ASSUME Balancing, PatchForward
    PROVE  Stacked'
<1>1. Doing("patch")
    BY DEF PatchForward
<1>2. todo # <<>> /\ Head(Work) = Work[1] /\ Work[1] \in Tasks /\ Work[1].k = "patch"
      /\ <<>> \o Tail(Work) = Tail(Work)
    BY <1>1, TaskPoints
<1>3. Gain(Current(Now), Work[1]) = 0 /\ Work[1] \notin ScopeTasks
    BY <1>2, NoScopes DEF Gain, ForTasks
<1>4. PICK p, q \in Points : Standing(Now, Now, Tail(Work), p, q) /\ Below(p, q, 0)
                             /\ Leads(Current(Now), Work[1], p, q)
    BY <1>1, <1>3, TaskPoints
<1>5. Reaches(Current(Now), Work[1].jump, p.locals + p.temps, q)
    BY <1>2, <1>4 DEF Leads, Meets
<1>6. q.locals = p.locals /\ q.temps = p.temps /\ (Live(p) => Live(q))
    BY <1>4, PointTypes DEF Below
<1>7. Standing(Now, PatchJump(Now, Work[1].jump), Tail(Work), q, q)
    BY <1>4, <1>5, <1>6, PatchStands
<1>8. Continue(PatchJump(Now, Work[1].jump), <<>>)
    BY <1>2 DEF PatchForward
<1> QED BY <1>2, <1>7, <1>8, ContinueStacks

(* What waits for its operands takes the stack from p to q.                *)
LEMMA OneOperand ==
    ASSUME NEW b, NEW s, NEW w, NEW p, NEW q, Standing(b, s, w, p, q), Below(p, q, 1),
           NEW op \in {"UNARY", "GET_PROPERTY"}
    PROVE  Standing(b, s, <<Expr, Then(op, 0)>> \o w, p, p)
<1>1. PICK y \in Points : Below(p, y, 1) /\ Below(y, q, 1 - 1)
    BY PointTypes, Between DEF Below
<1>2. op \in Emitted /\ op # "RETURN" /\ Effect(op, 0) = 0
    BY StackOps DEF Emitted
<1>3. Below(y, q, 0)
    BY <1>1
<1>4. PICK v : v = Ahead(Then(op, 0), w)
    OBVIOUS
<1>5. Standing(b, s, v, p, y)
    BY <1>2, <1>3, <1>4, ThenAhead
<1>6. Standing(b, s, Ahead(Expr, v), p, p)
    BY <1>1, <1>5, ValueAhead
<1>7. Expr \in Tasks /\ Then(op, 0) \in Tasks /\ w \in Seq(Tasks)
    BY <1>2, ThenTask, DeclaringTasks DEF Standing
<1> QED BY <1>4, <1>6, <1>7, TwoInFront

LEMMA TwoOperands ==
    ASSUME NEW b, NEW s, NEW w, NEW p, NEW q, Standing(b, s, w, p, q), Below(p, q, 1),
           NEW op \in {"BINARY", "SET_PROPERTY"}
    PROVE  Standing(b, s, <<Expr, Expr, Then(op, 0)>> \o w, p, p)
<1>1. p.temps \in Int /\ p.temps >= -1
    BY PointTypes DEF Below
<1>2. PICK y \in Points : Below(p, y, 2) /\ Below(y, q, 1 - 2) /\ y.temps = p.temps + 2
    BY <1>1, Between
<1>3. PICK z \in Points : Below(p, z, 1) /\ Below(z, y, 2 - 1)
    BY <1>1, <1>2, Between
<1>4. op \in Emitted /\ op # "RETURN" /\ Effect(op, 0) = -1
    BY StackOps DEF Emitted
<1>5. Below(y, q, -1) /\ Below(z, y, 1)
    BY <1>2, <1>3
<1>6. PICK v : v = Ahead(Then(op, 0), w)
    OBVIOUS
<1>7. Standing(b, s, v, p, y)
    BY <1>4, <1>5, <1>6, ThenAhead
<1>8. PICK u : u = Ahead(Expr, v)
    OBVIOUS
<1>9. Standing(b, s, u, p, z)
    BY <1>5, <1>7, <1>8, ValueAhead
<1>10. Standing(b, s, Ahead(Expr, u), p, p)
    BY <1>3, <1>9, ValueAhead
<1>11. Expr \in Tasks /\ Then(op, 0) \in Tasks /\ w \in Seq(Tasks)
    BY <1>4, ThenTask, DeclaringTasks DEF Standing
<1> QED BY <1>6, <1>8, <1>10, <1>11, ThreeInFront

LEMMA ManyOperands ==
    ASSUME NEW b, NEW s, NEW w, NEW p, NEW q, Standing(b, s, w, p, q), Below(p, q, 1),
           NEW n \in Nat, NEW op \in {"CALL", "INVOKE"}
    PROVE  Standing(b, s, (<<Expr>> \o Append(Arguments(n), Then(op, n))) \o w, p, p)
<1>1. p.temps \in Int /\ p.temps >= -1
    BY PointTypes DEF Below
<1>2. PICK y \in Points : Below(p, y, 1) /\ Below(y, q, 1 - 1) /\ y.temps = p.temps + 1
    BY <1>1, Between
<1>3. Below(y, q, 0) /\ y.temps + n >= -1 /\ 0 \in Int /\ n \in Int
    BY <1>1, <1>2
<1>4. PICK z \in Points : Below(y, z, n) /\ Below(z, q, 0 - n) /\ z.path = y.path
    BY <1>3, Between
<1>5. op \in Emitted /\ op # "RETURN" /\ Effect(op, n) = -n
    BY StackOps DEF Emitted
<1>6. PICK t \in Tasks : t = Then(op, n)
    BY <1>5 DEF Tasks, Then
<1>7. Below(z, q, -n)
    BY <1>4
<1>8. Standing(b, s, Ahead(t, w), p, z)
    BY <1>5, <1>6, <1>7, ThenAhead
<1>9. PICK v : v = Append(Arguments(n), t) \o w
    OBVIOUS
<1>10. Standing(b, s, v, p, y)
    BY <1>4, <1>8, <1>9, CallAhead
<1>11. Standing(b, s, Ahead(Expr, v), p, p)
    BY <1>2, <1>10, ValueAhead
<1>12. (<<Expr>> \o Append(Arguments(n), t)) \o w = Ahead(Expr, v)
    <2>1. Expr \in Tasks /\ w \in Seq(Tasks)
        BY DeclaringTasks DEF Standing
    <2>2. Append(Arguments(n), t) \in Seq(Tasks) /\ <<Expr>> \in Seq(Tasks)
        BY <2>1 DEF Arguments
    <2> QED BY <1>9, <2>1, <2>2, ConcatAssociative DEF Ahead
<1> QED BY <1>6, <1>11, <1>12

LEMMA UnaryStacks ==
    ASSUME Balancing, Unary
    PROVE  Stacked'
<1>1. AtExpr /\ TargetOf("unary")
    BY DEF Unary, Compound
<1>2. PICK p, q \in Points : Standing(Now, Now, Tail(Work), p, q) /\ Below(p, q, 1)
    BY <1>1, Operands
<1>3. Evaluate(Now, <<Expr, Then("UNARY", 0)>>)
    BY <1>1, Operands DEF Unary
<1>4. Standing(Now, Now, <<Expr, Then("UNARY", 0)>> \o Tail(Work), p, p)
    BY <1>2, OneOperand
<1> QED BY <1>1, <1>3, <1>4, EvaluateStacks

LEMMA BinaryStacks ==
    ASSUME Balancing, Binary
    PROVE  Stacked'
<1>1. AtExpr /\ TargetOf("binary")
    BY DEF Binary, Compound
<1>2. PICK p, q \in Points : Standing(Now, Now, Tail(Work), p, q) /\ Below(p, q, 1)
    BY <1>1, Operands
<1>3. Evaluate(Now, <<Expr, Expr, Then("BINARY", 0)>>)
    BY <1>1, Operands DEF Binary
<1>4. Standing(Now, Now, <<Expr, Expr, Then("BINARY", 0)>> \o Tail(Work), p, p)
    BY <1>2, TwoOperands
<1> QED BY <1>1, <1>3, <1>4, EvaluateStacks

LEMMA CallStacks ==
    ASSUME Balancing, Call
    PROVE  Stacked'
<1>1. AtExpr /\ TargetOf("call")
    BY DEF Call, Compound
<1>2. PICK p, q \in Points : Standing(Now, Now, Tail(Work), p, q) /\ Below(p, q, 1)
    BY <1>1, Operands
<1>3. PICK n \in 0..MaxArgs : Evaluate(Now, <<Expr>> \o Append(Arguments(n), Then("CALL", n)))
    BY DEF Call
<1>4. n \in Nat
    BY FamilyBounds DEF Balancing
<1>5. Standing(Now, Now, (<<Expr>> \o Append(Arguments(n), Then("CALL", n))) \o Tail(Work), p, p)
    BY <1>2, <1>4, ManyOperands
<1> QED BY <1>1, <1>3, <1>5, EvaluateStacks

LEMMA DotStacks ==
    ASSUME Balancing, Dot
    PROVE  Stacked'
<1>1. AtExpr /\ TargetOf("dot")
    BY DEF Dot, Compound
<1>2. PICK p, q \in Points : Standing(Now, Now, Tail(Work), p, q) /\ Below(p, q, 1)
    BY <1>1, Operands
<1>3. Target(CanAssign) = Expr
    BY <1>1, Operands
<1>4. CASE Evaluate(Now, <<Expr, Then("GET_PROPERTY", 0)>>)
    <2>1. Standing(Now, Now, <<Expr, Then("GET_PROPERTY", 0)>> \o Tail(Work), p, p)
        BY <1>2, OneOperand
    <2> QED BY <1>1, <1>4, <2>1, EvaluateStacks
<1>5. CASE Evaluate(Now, <<Expr, Expr, Then("SET_PROPERTY", 0)>>)
    <2>1. Standing(Now, Now, <<Expr, Expr, Then("SET_PROPERTY", 0)>> \o Tail(Work), p, p)
        BY <1>2, TwoOperands
    <2> QED BY <1>1, <1>5, <2>1, EvaluateStacks
<1>6. CASE \E n \in 0..MaxArgs : Evaluate(Now, <<Expr>> \o Append(Arguments(n), Then("INVOKE", n)))
    <2>1. PICK n \in 0..MaxArgs : Evaluate(Now, <<Expr>> \o Append(Arguments(n), Then("INVOKE", n)))
        BY <1>6
    <2>2. n \in Nat
        BY FamilyBounds DEF Balancing
    <2>3. Standing(Now, Now, (<<Expr>> \o Append(Arguments(n), Then("INVOKE", n))) \o Tail(Work), p, p)
        BY <1>2, <2>2, ManyOperands
    <2> QED BY <1>1, <2>1, <2>3, EvaluateStacks
<1> QED BY <1>3, <1>4, <1>5, <1>6 DEF Dot

LEMMA AssignStacks ==
    ASSUME Balancing, Assign
    PROVE  Stacked'
<1>1. AtExpr /\ TargetOf("assign") /\ Evaluate(Now, <<Expr, Target(TRUE)>>)
    BY DEF Assign, Compound
<1>2. PICK p, q \in Points : Standing(Now, Now, Tail(Work), p, q) /\ Below(p, q, 1)
    BY <1>1, Operands
<1>3. PICK y \in Points : Below(p, y, 1) /\ Below(y, q, 1 - 1)
    BY <1>2, PointTypes, Between DEF Below
<1>4. Below(y, q, 0)
    BY <1>3
<1>5. PICK t : t = Target(TRUE)
    OBVIOUS
<1>6. PICK v : v = Ahead(t, Tail(Work))
    OBVIOUS
<1>7. Standing(Now, Now, v, p, y)
    BY <1>2, <1>4, <1>5, <1>6, ExprAhead
<1>8. Standing(Now, Now, Ahead(Expr, v), p, p)
    BY <1>3, <1>7, ValueAhead
<1>9. t \in Tasks /\ Expr \in Tasks /\ Tail(Work) \in Seq(Tasks)
    BY <1>2, <1>5, DeclaringTasks DEF Standing, Target, Tasks
<1>10. Standing(Now, Now, <<Expr, t>> \o Tail(Work), p, p)
    BY <1>6, <1>8, <1>9, TwoInFront
<1> QED BY <1>1, <1>5, <1>10, EvaluateStacks

LEMMA LogicStacks ==
    ASSUME Balancing, Logic
    PROVE  Stacked'
<1>1. AtExpr /\ TargetOf("logic")
    BY DEF Logic, Compound
<1>2. PICK p, q \in Points : Standing(Now, Now, Tail(Work), p, q) /\ Below(p, q, 1)
    BY <1>1, Operands
<1>3. PICK kind \in {"andJump", "orJump"} :
        Evaluate(Now, <<Target(CanAssign), [k |-> kind, canAssign |-> CanAssign]>>)
    BY DEF Logic
<1>4. PICK t : t = [k |-> kind, canAssign |-> FALSE]
    OBVIOUS
<1>5. Evaluate(Now, <<Expr, t>>)
    BY <1>1, <1>3, <1>4, Operands
<1>6. p.temps \in Int /\ p.temps >= -1
    BY PointTypes
<1>7. PICK y \in Points : Below(p, y, 1) /\ Below(y, q, 1 - 1) /\ y.temps = p.temps + 1
    BY <1>2, <1>6, Between
<1>8. Below(y, q, 0) /\ y.temps >= 0
    BY <1>6, <1>7
<1>9. PICK v : v = Ahead(t, Tail(Work))
    OBVIOUS
<1>10. Standing(Now, Now, v, p, y)
    BY <1>2, <1>4, <1>8, <1>9, LogicAhead
<1>11. Standing(Now, Now, Ahead(Expr, v), p, p)
    BY <1>7, <1>10, ValueAhead
<1>12. t \in Tasks /\ Expr \in Tasks /\ Tail(Work) \in Seq(Tasks)
    BY <1>2, <1>4, DeclaringTasks DEF Standing, Tasks
<1>13. Standing(Now, Now, <<Expr, t>> \o Tail(Work), p, p)
    BY <1>9, <1>11, <1>12, TwoInFront
<1> QED BY <1>1, <1>5, <1>13, EvaluateStacks

(* The jumps of a logical operator lead where its value is.                *)
LEMMA LogicPoints ==
    ASSUME Balancing, NEW kind \in {"andJump", "orJump"}, Doing(kind)
    PROVE  /\ todo # <<>> /\ Target(CanAssign) = Expr /\ Tail(Work) \in Seq(Tasks)
           /\ \E p, q \in Points :
                /\ Standing(Now, Now, Tail(Work), p, q) /\ Below(p, q, 0) /\ p.temps >= 0
                /\ \E y \in Points : Below(p, y, -1) /\ Below(y, p, 1)
<1>1. todo # <<>> /\ Head(Work) = Work[1] /\ Work[1] \in Tasks /\ Work[1].k = kind
      /\ Tail(Work) \in Seq(Tasks)
    BY TaskPoints
<1>2. Gain(Current(Now), Work[1]) = 0 /\ Work[1] \notin ScopeTasks
    BY <1>1, NoScopes DEF Gain, ForTasks
<1>3. PICK p, q \in Points : Standing(Now, Now, Tail(Work), p, q) /\ Below(p, q, 0)
                             /\ Leads(Current(Now), Work[1], p, q)
    BY <1>2, TaskPoints
<1>4. ~Work[1].canAssign /\ p.temps >= 0 /\ p.temps \in Int
    BY <1>1, <1>3, PointTypes DEF Leads
<1>5. Work[1].canAssign \in BOOLEAN
    BY <1>1, CanAssignType
<1>6. Target(CanAssign) = Expr
    BY <1>1, <1>4, <1>5 DEF CanAssign, Target, Expr
<1>7. PICK y \in Points : y.locals = p.locals /\ y.temps = p.temps - 1 /\ y.path = p.path
    <2>1. PICK m \in Int : m = p.temps - 1
        BY <1>4
    <2>2. m >= -1
        BY <1>4, <2>1
    <2> QED BY <2>1, <2>2, PointBeside
<1>8. Below(p, y, -1) /\ Below(y, p, 1)
    BY <1>4, <1>7 DEF Below, Live
<1> QED BY <1>1, <1>3, <1>4, <1>6, <1>8

LEMMA AndJumpStacks ==
    ASSUME Balancing, AndJump
    PROVE  Stacked'
<1>1. Doing("andJump")
    BY DEF AndJump
<1>2. todo # <<>> /\ Target(CanAssign) = Expr /\ Tail(Work) \in Seq(Tasks)
    BY <1>1, LogicPoints
<1>3. PICK p, q \in Points : /\ Standing(Now, Now, Tail(Work), p, q) /\ Below(p, q, 0)
                             /\ \E y \in Points : Below(p, y, -1) /\ Below(y, p, 1)
    BY <1>1, LogicPoints
<1>4. PICK y \in Points : Below(p, y, -1) /\ Below(y, p, 1)
    BY <1>3
<1>5. PICK s : s = EmitJump(Now, "JUMP_IF_FALSE")
    OBVIOUS
<1>6. PICK jump : jump = Position(s)
    OBVIOUS
<1>7. /\ Standing(Now, s, Tail(Work), p, q) /\ jump \in Nat
      /\ Reaches(Current(s), jump, p.locals + p.temps, q)
    <2>1. Len(Current(Now).code) \in Nat
        BY <1>3, CodeLength DEF Standing
    <2>2. /\ Standing(Now, s, Tail(Work), p, q) /\ jump = Len(Current(Now).code) + 1
          /\ \A z : (Live(p) => Live(z)) =>
                Reaches(Current(s), Len(Current(Now).code) + 1, p.locals + p.temps, z)
        BY <1>3, <1>5, <1>6, JumpStands
    <2> QED BY <1>3, <2>1, <2>2 DEF Below
<1>8. PICK v : v = Ahead(Patch(jump), Tail(Work))
    OBVIOUS
<1>9. Standing(Now, s, v, p, p)
    BY <1>3, <1>7, <1>8, PatchIsAhead
<1>10. Standing(Now, s, Ahead(Expr, v), p, y)
    BY <1>4, <1>9, ValueAhead
<1>11. Standing(Now, Emit(s, "POP", 0), Ahead(Expr, v), y, y)
    BY <1>4, <1>10, StackOps, EmitBetween
<1>12. Patch(jump) \in Tasks /\ Expr \in Tasks
    BY <1>7, DeclaringTasks, PatchTypes DEF SimpleTasks
<1>13. <<Expr, Patch(jump)>> \o Tail(Work) = Ahead(Expr, v)
    BY <1>2, <1>8, <1>12, TwoInFront
<1>14. Continue(Emit(s, "POP", 0), <<Expr, Patch(jump)>>)
    BY <1>2, <1>5, <1>6 DEF AndJump
<1> QED BY <1>2, <1>11, <1>13, <1>14, ContinueStacks

LEMMA OrJumpStacks ==
    ASSUME Balancing, OrJump
    PROVE  Stacked'
<1>1. Doing("orJump")
    BY DEF OrJump
<1>2. todo # <<>> /\ Target(CanAssign) = Expr /\ Tail(Work) \in Seq(Tasks)
    BY <1>1, LogicPoints
<1>3. PICK p, q \in Points : /\ Standing(Now, Now, Tail(Work), p, q) /\ Below(p, q, 0)
                             /\ \E y \in Points : Below(p, y, -1) /\ Below(y, p, 1)
    BY <1>1, LogicPoints
<1>4. PICK y \in Points : Below(p, y, -1) /\ Below(y, p, 1)
    BY <1>3
<1>5. PICK s : s = EmitJump(Now, "JUMP_IF_FALSE")
    OBVIOUS
<1>6. PICK first : first = Position(s)
    OBVIOUS
<1>7. /\ Standing(Now, s, Tail(Work), p, q)
      /\ Reaches(Current(s), first, p.locals + p.temps, p)
    BY <1>3, <1>5, <1>6, JumpStands DEF Below
<1>8. PICK t : t = EmitJump(s, "JUMP")
    OBVIOUS
<1>9. PICK jump : jump = Position(t)
    OBVIOUS
<1>10. /\ Standing(Now, t, Tail(Work), p, q) /\ jump \in Nat
       /\ Reaches(Current(t), jump, p.locals + p.temps, q) /\ Grown(Current(s), Current(t))
    <2>1. Len(Current(s).code) \in Nat
        BY <1>7, CodeLength DEF Standing
    <2>2. /\ Standing(Now, t, Tail(Work), p, q) /\ jump = Len(Current(s).code) + 1
          /\ \A z : (Live(p) => Live(z)) =>
                Reaches(Current(t), Len(Current(s).code) + 1, p.locals + p.temps, z)
          /\ Grown(Current(s), Current(t))
        BY <1>7, <1>8, <1>9, JumpStands
    <2> QED BY <1>3, <2>1, <2>2 DEF Below
<1>11. Reaches(Current(t), first, p.locals + p.temps, p)
    BY <1>7, <1>10, StandingIs, ReachesOn
<1>12. PICK v : v = Ahead(Patch(jump), Tail(Work))
    OBVIOUS
<1>13. Standing(Now, t, v, p, p)
    BY <1>3, <1>10, <1>12, PatchIsAhead
<1>14. Standing(Now, t, Ahead(Expr, v), p, y)
    BY <1>4, <1>13, ValueAhead
<1>15. PICK u : u = PatchJump(t, first)
    OBVIOUS
<1>16. Standing(Now, u, Ahead(Expr, v), p, y)
    BY <1>11, <1>14, <1>15, PatchStands
<1>17. Standing(Now, Emit(u, "POP", 0), Ahead(Expr, v), y, y)
    BY <1>4, <1>16, StackOps, EmitBetween
<1>18. Patch(jump) \in Tasks /\ Expr \in Tasks
    BY <1>10, DeclaringTasks, PatchTypes DEF SimpleTasks
<1>19. <<Expr, Patch(jump)>> \o Tail(Work) = Ahead(Expr, v)
    BY <1>2, <1>12, <1>18, TwoInFront
<1>20. Continue(Emit(u, "POP", 0), <<Expr, Patch(jump)>>)
    BY <1>2, <1>5, <1>6, <1>8, <1>9, <1>15 DEF OrJump
<1> QED BY <1>2, <1>17, <1>19, <1>20, ContinueStacks

(* Statements.                                                             *)

(* A value is computed and used up.                                        *)
LEMMA ValueUsed ==
    ASSUME NEW b, NEW s, NEW w, NEW p, NEW q, Standing(b, s, w, p, q), Below(p, q, 0),
           NEW op \in {"PRINT", "POP", "RETURN"}
    PROVE  Standing(b, s, <<Expr, Then(op, 0)>> \o w, p, p)
<1>0. p \in Points
    BY DEF Below
<1>00. p.temps + 1 >= -1
    BY <1>0, PointTypes
<1>1. PICK y \in Points : Below(p, y, 1) /\ Below(y, q, 0 - 1)
    BY <1>00, Between
<1>2. op \in Emitted
    BY DEF Emitted
<1>3. (IF op = "RETURN" THEN -1 ELSE Effect(op, 0)) = -1
    BY StackOps
<1>4. Below(y, q, -1)
    BY <1>1
<1>5. PICK v : v = Ahead(Then(op, 0), w)
    OBVIOUS
<1>6. Standing(b, s, v, p, y)
    BY <1>2, <1>3, <1>4, <1>5, ThenAhead
<1>7. Standing(b, s, Ahead(Expr, v), p, p)
    BY <1>1, <1>6, ValueAhead
<1>8. Expr \in Tasks /\ Then(op, 0) \in Tasks /\ w \in Seq(Tasks)
    BY <1>2, ThenTask, DeclaringTasks DEF Standing
<1> QED BY <1>5, <1>7, <1>8, TwoInFront

LEMMA PrintStacks ==
    ASSUME Balancing, PrintStatement
    PROVE  Stacked'
<1>1. AtStatement /\ Statement(Now, <<Expr, Then("PRINT", 0)>>)
    BY SimpleNodeBegins DEF PrintStatement
<1>2. PICK p, q \in Points : Standing(Now, Now, Rest, p, q) /\ Below(p, q, 0)
    BY <1>1, StatementPoints
<1>3. Standing(Now, Now, <<Expr, Then("PRINT", 0)>> \o Rest, p, p)
    BY <1>2, ValueUsed
<1> QED BY <1>1, <1>3, StatementStacks

LEMMA ExprStatementStacks ==
    ASSUME Balancing, ExprStatement
    PROVE  Stacked'
<1>1. AtStatement /\ Statement(Now, <<Expr, Then("POP", 0)>>)
    BY SimpleNodeBegins DEF ExprStatement
<1>2. PICK p, q \in Points : Standing(Now, Now, Rest, p, q) /\ Below(p, q, 0)
    BY <1>1, StatementPoints
<1>3. Standing(Now, Now, <<Expr, Then("POP", 0)>> \o Rest, p, p)
    BY <1>2, ValueUsed
<1> QED BY <1>1, <1>3, StatementStacks

LEMMA ReturnStacks ==
    ASSUME Balancing, ReturnStatement
    PROVE  Stacked'
<1>1. AtStatement
    BY SimpleNodeBegins DEF ReturnStatement
<1>2. PICK p, q \in Points : Standing(Now, Now, Rest, p, q) /\ Below(p, q, 0) /\ p.temps = 0
    BY <1>1, StatementPoints
<1>3. PICK s : s = FailIf(Now, Current(Now).type = "script", "Can't return from top-level code")
    OBVIOUS
<1>4. Standing(Now, s, Rest, p, q)
    BY <1>2, <1>3, FailStands DEF Errors
<1>5. CASE Statement(EmitReturn(s), <<>>)
    <2>1. q.locals = p.locals /\ p.temps >= 0
        BY <1>2 DEF Below
    <2>2. Standing(Now, EmitReturn(s), Rest, q, q)
        BY <1>4, <2>1, ReturnStands
    <2>3. <<>> \o Rest = Rest
        BY <1>2, NoTasks DEF Standing
    <2> QED BY <1>1, <1>5, <2>2, <2>3, StatementStacks
<1>6. CASE Statement(FailIf(s, Current(Now).type = "initializer",
                            "Can't return a value from an initializer"),
                     <<Expr, Then("RETURN", 0)>>)
    <2>1. PICK t : t = FailIf(s, Current(Now).type = "initializer",
                              "Can't return a value from an initializer")
        OBVIOUS
    <2>2. Standing(Now, t, Rest, p, q)
        BY <1>4, <2>1, FailStands DEF Errors
    <2>3. Standing(Now, t, <<Expr, Then("RETURN", 0)>> \o Rest, p, p)
        BY <1>2, <2>2, ValueUsed
    <2> QED BY <1>1, <1>6, <2>1, <2>3, StatementStacks
<1> QED BY <1>3, <1>5, <1>6 DEF ReturnStatement

LEMMA IfStacks ==
    ASSUME Balancing, IfStatement
    PROVE  Stacked'
<1>1. AtStatement /\ Statement(Now, <<Expr, Task("ifThen")>>)
    BY DEF IfStatement
<1>2. PICK p, q \in Points : Standing(Now, Now, Rest, p, q) /\ Below(p, q, 0) /\ q.temps = 0
    BY <1>1, StatementPoints
<1>02. p.temps + 1 >= -1
    BY <1>2, PointTypes
<1>3. PICK y \in Points : Below(p, y, 1) /\ Below(y, q, 0 - 1)
    BY <1>2, <1>02, Between
<1>4. Below(y, q, -1)
    BY <1>3
<1>5. PICK v : v = Ahead(Task("ifThen"), Rest)
    OBVIOUS
<1>6. Standing(Now, Now, v, p, y)
    BY <1>2, <1>4, <1>5, IfThenAhead
<1>7. Standing(Now, Now, Ahead(Expr, v), p, p)
    BY <1>3, <1>6, ValueAhead
<1>8. Expr \in Tasks /\ Task("ifThen") \in Tasks /\ Rest \in Seq(Tasks)
    BY <1>2, DeclaringTasks DEF Standing, Task, Tasks
<1>9. Standing(Now, Now, <<Expr, Task("ifThen")>> \o Rest, p, p)
    BY <1>5, <1>7, <1>8, TwoInFront
<1> QED BY <1>1, <1>9, StatementStacks

LEMMA EndOfBlockStacks ==
    ASSUME Balancing, EndOfBlock
    PROVE  Stacked'
<1>1. Doing("stats") /\ Continue(Now, <<>>)
    BY DEF EndOfBlock
<1>2. todo # <<>> /\ Work[1].k = "stats" /\ <<>> \o Tail(Work) = Tail(Work) /\ Work[1] \in Tasks
    BY <1>1, TaskPoints
<1>3. Gain(Current(Now), Work[1]) = 0 /\ Work[1] \notin ScopeTasks
    BY <1>2, NoScopes DEF Gain, ForTasks
<1>4. PICK p, q \in Points : Standing(Now, Now, Tail(Work), p, q) /\ Below(p, q, 0)
    BY <1>1, <1>3, TaskPoints
<1>5. Standing(Now, Now, Tail(Work), q, q)
    BY <1>4, ArrivesAt
<1> QED BY <1>1, <1>2, <1>5, ContinueStacks

(* A point with other temporaries.                                         *)
LEMMA BesideIt ==
    ASSUME NEW p \in Points, NEW n \in Int, n >= -1
    PROVE  \E y \in Points : /\ y.locals = p.locals /\ y.temps = n /\ y.path = p.path
                             /\ (Live(y) <=> Live(p))
BY PointBeside DEF Live

LEMMA IfThenStacks ==
    ASSUME Balancing, IfThen
    PROVE  Stacked'
<1>1. Doing("ifThen")
    BY DEF IfThen
<1>2. todo # <<>> /\ Work[1].k = "ifThen" /\ Tail(Work) \in Seq(Tasks) /\ Work[1] \in Tasks
    BY <1>1, TaskPoints
<1>3. Gain(Current(Now), Work[1]) = -1 /\ Work[1] \notin ScopeTasks /\ Work[1].k \notin ExprTasks
    BY <1>2, NoScopes DEF Gain, ForTasks, ExprTasks
<1>4. PICK p, q \in Points : /\ Standing(Now, Now, Tail(Work), p, q) /\ Below(p, q, -1)
                             /\ Leads(Current(Now), Work[1], p, q)
    BY <1>1, <1>3, TaskPoints
<1>5. q.temps = 0
    BY <1>2, <1>3, <1>4 DEF Leads, Travels
<1>6. p.temps = 1
    BY <1>4, <1>5, PointTypes DEF Below
<1>7. PICK z \in Points : z.locals = p.locals /\ z.temps = 0 /\ (Live(z) <=> Live(p))
    BY BesideIt
<1>8. Below(p, z, -1) /\ Below(z, q, 0) /\ Below(z, z, 0)
    BY <1>4, <1>5, <1>6, <1>7 DEF Below
<1>9. PICK s : s = EmitJump(Now, "JUMP_IF_FALSE")
    OBVIOUS
<1>10. PICK jump : jump = Position(s)
    OBVIOUS
<1>11. /\ Standing(Now, s, Tail(Work), p, q) /\ jump \in Nat
       /\ Reaches(Current(s), jump, z.locals + 1, q)
    <2>1. Len(Current(Now).code) \in Nat
        BY <1>4, CodeLength DEF Standing
    <2>2. /\ Standing(Now, s, Tail(Work), p, q) /\ jump = Len(Current(Now).code) + 1
          /\ \A e : (Live(p) => Live(e)) =>
                Reaches(Current(s), Len(Current(Now).code) + 1, p.locals + p.temps, e)
        BY <1>4, <1>9, <1>10, JumpStands
    <2> QED BY <1>4, <1>6, <1>7, <2>1, <2>2 DEF Below
<1>12. PICK t : t = [k |-> "ifElse", jump |-> jump]
    OBVIOUS
<1>13. PICK v : v = Ahead(t, Tail(Work))
    OBVIOUS
<1>14. Standing(Now, s, v, p, z)
    BY <1>5, <1>8, <1>11, <1>12, <1>13, ElseAhead
<1>15. PICK u : u = Ahead(Task("stat"), v)
    OBVIOUS
<1>16. Standing(Now, s, u, p, z)
    BY <1>7, <1>8, <1>14, <1>15, StatAhead
<1>17. Standing(Now, Emit(s, "POP", 0), u, z, z)
    BY <1>8, <1>16, StackOps, EmitBetween
<1>18. t \in Tasks /\ Task("stat") \in Tasks
    BY <1>11, <1>12, JumpTask, DeclaringTasks
<1>19. <<Task("stat"), t>> \o Tail(Work) = u
    BY <1>2, <1>13, <1>15, <1>18, TwoInFront
<1>20. Continue(Emit(s, "POP", 0), <<Task("stat"), t>>)
    BY <1>9, <1>10, <1>12 DEF IfThen
<1> QED BY <1>2, <1>17, <1>19, <1>20, ContinueStacks

(* A jump is patched as its task says.                                     *)
LEMMA PatchAhead ==
    ASSUME NEW b, NEW s, NEW w \in Seq(Tasks), NEW jump \in Nat, NEW p, NEW q,
           Standing(b, s, Ahead(Patch(jump), w), p, q), Below(p, q, 0)
    PROVE  \E x \in Points : Standing(b, PatchJump(s, jump), w, x, x)
<1>1. PICK t \in Tasks : t = Patch(jump)
    BY PatchTypes DEF SimpleTasks
<1>2. PICK v : v = Ahead(t, w)
    OBVIOUS
<1>3. InFront(v, t, w)
    BY <1>2, OneInFront
<1>4. v \in Seq(Tasks) /\ v # <<>> /\ v[1] = t /\ Tail(v) = w
    BY <1>3 DEF InFront
<1>5. Standing(b, s, v, q, q)
    BY <1>1, <1>2, ArrivesAt
<1>6. LeadsOn(Current(s), v, q)
    BY <1>5 DEF Standing, Poised
<1>7. PICK x \in Points : Leads(Current(s), t, q, x) /\ LeadsOn(Current(s), w, x)
    BY <1>4, <1>6, HeadLeads
<1>8. Standing(b, s, w, q, x)
    BY <1>5, <1>7 DEF Standing, Poised
<1>9. t.k = "patch" /\ t.jump = jump /\ t \notin ScopeTasks
    BY <1>1, PatchTypes, NoScopes DEF ForTasks
<1>10. Gain(Current(s), t) = 0
    BY <1>9 DEF Gain
<1>11. x.locals = q.locals /\ x.temps = q.temps /\ (Live(q) => Live(x))
       /\ Reaches(Current(s), jump, q.locals + q.temps, x)
    <2>1. q \in Points
        BY DEF Below
    <2> QED BY <1>7, <1>9, <1>10, <2>1, PointTypes DEF Leads, Travels, Meets, Live
<1> QED BY <1>8, <1>11, PatchStands

LEMMA IfElseStacks ==
    ASSUME Balancing, IfElse
    PROVE  Stacked'
<1>1. Doing("ifElse")
    BY DEF IfElse
<1>2. todo # <<>> /\ Work[1].k = "ifElse" /\ Tail(Work) \in Seq(Tasks) /\ Work[1] \in Tasks
      /\ Head(Work) = Work[1] /\ <<>> \o Tail(Work) = Tail(Work)
    BY <1>1, TaskPoints
<1>3. Gain(Current(Now), Work[1]) = 0 /\ Work[1] \notin ScopeTasks /\ Work[1].k \notin ExprTasks
    BY <1>2, NoScopes DEF Gain, ForTasks, ExprTasks
<1>4. PICK p, q \in Points : /\ Standing(Now, Now, Tail(Work), p, q) /\ Below(p, q, 0)
                             /\ Leads(Current(Now), Work[1], p, q)
    BY <1>1, <1>3, TaskPoints
<1>5. q.temps = 0 /\ p.temps = 0 /\ q.locals = p.locals
    <2>1. q.temps = 0
        BY <1>2, <1>3, <1>4 DEF Leads, Travels
    <2> QED BY <1>4, <2>1, PointTypes DEF Below
<1>6. PICK first : first = Work[1].jump
    OBVIOUS
<1>7. Reaches(Current(Now), first, p.locals + 1, q)
    BY <1>2, <1>4, <1>6 DEF Leads, Meets
<1>8. PICK y \in Points : y.locals = q.locals /\ y.temps = 1 /\ y.path = q.path /\ (Live(y) <=> Live(q))
    BY BesideIt
<1>9. Below(y, q, -1) /\ Below(q, q, 0)
    BY <1>5, <1>8 DEF Below
<1>10. PICK s : s = EmitJump(Now, "JUMP")
    OBVIOUS
<1>11. PICK jump : jump = Position(s)
    OBVIOUS
<1>12. /\ Standing(Now, s, Tail(Work), y, q) /\ jump \in Nat
       /\ Reaches(Current(s), jump, q.locals + q.temps, q)
       /\ Grown(Current(Now), Current(s))
    <2>1. Len(Current(Now).code) \in Nat
        BY <1>4, CodeLength DEF Standing
    <2>2. y.locals = p.locals
        BY <1>5, <1>8
    <2>3. /\ Standing(Now, s, Tail(Work), y, q) /\ jump = Len(Current(Now).code) + 1
          /\ \A e : (Live(p) => Live(e)) =>
                Reaches(Current(s), Len(Current(Now).code) + 1, p.locals + p.temps, e)
          /\ Grown(Current(Now), Current(s))
        BY <1>4, <1>10, <1>11, <2>2, JumpStands
    <2> QED BY <1>4, <1>5, <2>1, <2>3 DEF Below
<1>13. Reaches(Current(s), first, y.locals + y.temps, y)
    <2>1. Reaches(Current(s), first, p.locals + 1, q)
        BY <1>4, <1>7, <1>12, StandingIs, ReachesOn
    <2> QED BY <1>5, <1>8, <2>1 DEF Reaches
<1>14. PICK v : v = Ahead(Patch(jump), Tail(Work))
    OBVIOUS
<1>15. Standing(Now, s, v, y, q)
    BY <1>9, <1>12, <1>14, PatchIsAhead
<1>16. PICK u : u = PatchJump(s, first)
    OBVIOUS
<1>17. Standing(Now, u, v, y, q)
    BY <1>13, <1>15, <1>16, PatchStands
<1>18. PICK t : t = Emit(u, "POP", 0)
    OBVIOUS
<1>19. Standing(Now, t, v, q, q)
    BY <1>9, <1>17, <1>18, StackOps, EmitBetween
<1>20. CASE Continue(t, <<Task("stat"), Patch(jump)>>)
    <2>1. Standing(Now, t, Ahead(Task("stat"), v), q, q)
        BY <1>5, <1>9, <1>19, StatAhead
    <2>2. Patch(jump) \in Tasks /\ Task("stat") \in Tasks
        BY <1>12, DeclaringTasks, PatchTypes DEF SimpleTasks
    <2>3. <<Task("stat"), Patch(jump)>> \o Tail(Work) = Ahead(Task("stat"), v)
        BY <1>2, <1>14, <2>2, TwoInFront
    <2> QED BY <1>2, <1>20, <2>1, <2>3, ContinueStacks
<1>21. CASE Continue(PatchJump(t, jump), <<>>)
    <2>1. PICK x \in Points : Standing(Now, PatchJump(t, jump), Tail(Work), x, x)
        BY <1>2, <1>9, <1>12, <1>14, <1>19, PatchAhead
    <2> QED BY <1>2, <1>21, <2>1, ContinueStacks
<1> QED BY <1>2, <1>6, <1>10, <1>11, <1>16, <1>18, <1>20, <1>21 DEF IfElse

(* A block: the names in sight when it begins are there when it ends.      *)
LEMMA BlockStacks ==
    ASSUME Balancing, Block
    PROVE  Stacked'
<1>1. AtStatement /\ Statement(BeginScope(Now), <<Task("stats"), Scope(Visible(Now))>>)
    BY DEF Block
<1>2. PICK p, q \in Points :
        Standing(Now, Now, Rest, p, q) /\ Below(p, q, 0) /\ p.temps = 0 /\ q.temps = 0
    BY <1>1, StatementPoints
<1>3. ~Has(Rest, "define")
    BY <1>1, StatementHeld DEF Balancing, Rest
<1>4. PICK s : s = BeginScope(Now)
    OBVIOUS
<1>5. Standing(Now, s, Rest, p, q)
    BY <1>2, <1>3, <1>4, BeginScopeStands
<1>6. PICK base : base = Visible(Now)
    OBVIOUS
<1>7. base = p.locals /\ base \in Nat
    <2>1. p.locals = Len(Current(Now).visible)
        BY <1>2, StandingIs
    <2> QED BY <1>2, <1>6, <2>1, PointTypes DEF Visible
<1>8. PICK v : v = Ahead(Scope(base), Rest)
    OBVIOUS
<1>9. Standing(Now, s, v, p, p)
    BY <1>2, <1>5, <1>7, <1>8, ScopeAhead DEF Below
<1>10. Scope(base) \in Tasks /\ Task("stats") \in Tasks /\ Rest \in Seq(Tasks)
    BY <1>2, <1>7, DeclaringTasks, EasyTasks DEF Standing, Easy
<1>11. v[1].k = "endScope"
    <2>1. v[1] = Scope(base)
        BY <1>8, <1>10, OneInFront DEF InFront
    <2> QED BY <2>1 DEF Scope
<1>12. Standing(Now, s, Ahead(Task("stats"), v), p, p)
    BY <1>2, <1>9, <1>11, BlockAhead
<1>13. <<Task("stats"), Scope(base)>> \o Rest = Ahead(Task("stats"), v)
    BY <1>8, <1>10, TwoInFront
<1> QED BY <1>1, <1>4, <1>6, <1>12, <1>13, StatementStacks

(* The scope that ends has the locals above its base.                      *)
Closes(c, base, outer) ==
    /\ c.scopeDepth = outer + 1 /\ Kept(c, outer) = base
    /\ Len(c.locals) = Len(c.visible) /\ base <= Len(c.visible)

LEMMA ScopeToClose ==
    ASSUME Balancing, NEW kind, Doing(kind), kind \notin ExprTasks, kind # "define",
           NEW h, h = Work[1], h \in ScopeTasks, NEW s, Good(s), Calm(Now, s)
    PROVE  /\ Base(h) \in Nat /\ ~Has(Tail(Work), "define")
           /\ \E outer \in Nat : Closes(Current(s), Base(h), outer)
<1>1. PICK r : r = Tail(Work)
    OBVIOUS
<1>2. PICK strict \in BOOLEAN : strict = Disciplined
    BY <1>1, TaskHeld DEF Balancing
<1>3. strict
    BY <1>2, InOrder DEF Balancing
<1>4. /\ Work \in Seq(Tasks) /\ Work # <<>> /\ ~Has(r, "define") /\ Good(Now)
      /\ Pending(Current(Now), Work) /\ Holds(Now, Work, strict)
    BY <1>1, <1>2, TaskHeld DEF Balancing
<1>5. PICK c \in Contexts : c = Current(Now)
    BY <1>4, CurrentIsFine
<1>6. Laid(c, Work, strict) /\ NoneWaits(c)
    BY <1>4, <1>5 DEF Holds, Held, Balancing, Now
<1>7. PICK place \in [1..Len(c.locals) -> 1..Len(c.visible)],
           level \in [1..Len(Work) + 1 -> 0..c.scopeDepth] :
        /\ Shown(c, place, strict) /\ Levels(c, Work, level)
        /\ \A k \in 1..Len(Work) :
            Work[k] \in ScopeTasks => Bounds(c, place, level[k], Base(Work[k]), strict)
    BY <1>6 DEF Laid
<1>8. 1 \in 1..Len(Work) /\ 1 + 1 \in 1..Len(Work) + 1 /\ Len(Work) \in Nat
    BY <1>4, TailOf
<1>9. PICK base : base = Base(h)
    OBVIOUS
<1>10. base \in Nat
    BY <1>9, BaseOfScope
<1>11. PICK outer \in Nat : outer = level[2]
    <2>1. c.scopeDepth \in Nat
        BY ScopeTypes
    <2> QED BY <1>7, <1>8, <2>1
<1>12. level[1] = c.scopeDepth /\ level[1] = outer + 1
    BY <1>7, <1>8, <1>11 DEF Levels
<1>13. Bounds(c, place, outer + 1, base, strict)
    BY <1>7, <1>8, <1>9, <1>12
<1>14. /\ Len(c.visible) = Len(c.locals) /\ Len(c.locals) \in Nat
       /\ \A i \in 1..Len(c.locals) : place[i] = i
    BY <1>3, <1>7, ScopeTypes DEF Shown
<1>15. \A i \in 1..Len(c.locals) : c.locals[i].depth <= outer <=> i <= base
    <2> TAKE i \in 1..Len(c.locals)
    <2>1. Deep(c, i) = c.locals[i].depth /\ c.locals[i].depth \in Nat \cup {-1}
        BY <1>6, ScopeTypes DEF Deep, NoneWaits
    <2>2. c.locals[i].depth < outer + 1 => i <= base
        BY <1>13, <1>14, <2>1 DEF Bounds
    <2>3. i <= base => c.locals[i].depth < outer + 1
        BY <1>3, <1>13, <2>1 DEF Bounds
    <2> QED BY <2>1, <2>2, <2>3
<1>16. PICK d : d = Current(s)
    OBVIOUS
<1>17. /\ Fine(d) /\ Len(d.locals) = Len(c.locals) /\ d.scopeDepth = c.scopeDepth
       /\ d.visible = c.visible
       /\ \A i \in 1..Len(c.locals) : d.locals[i].depth = c.locals[i].depth
    BY <1>5, <1>16, CurrentIsFine DEF Calm, SameScope, SameLocals
<1>18. PICK keep : keep = Kept(d, outer)
    OBVIOUS
<1>19. /\ keep \in 1..Len(d.locals) /\ d.locals[keep].depth <= outer
       /\ \A i \in 1..Len(d.locals) : d.locals[i].depth <= outer => i <= keep
    BY <1>17, <1>18, KeptLocals
<1>20. base <= Len(c.locals)
    BY <1>13, <1>14 DEF Bounds
<1>21. keep = base
    <2>1. keep <= base
        BY <1>15, <1>17, <1>19
    <2>2. base \in 1..Len(c.locals)
        BY <1>10, <1>14, <1>17, <1>19, <1>20, <2>1
    <2>3. d.locals[base].depth <= outer
        BY <1>15, <1>17, <2>2
    <2>4. base <= keep
        BY <1>17, <1>19, <2>2, <2>3
    <2> QED BY <1>10, <1>14, <1>17, <1>19, <2>1, <2>4
<1>22. Closes(d, base, outer)
    BY <1>12, <1>14, <1>17, <1>18, <1>20, <1>21 DEF Closes
<1> QED BY <1>1, <1>4, <1>9, <1>10, <1>16, <1>22

(* The end of a scope, on from there.                                      *)
LEMMA ClosingStands ==
    ASSUME Balancing, NEW kind, Doing(kind), kind \notin ExprTasks, kind # "define",
           NEW h, h = Work[1], h \in ScopeTasks, NEW s, Calm(Now, s),
           NEW b, NEW p, NEW q, Standing(b, s, Tail(Work), p, q), p.temps = 0,
           NEW base, base = Base(h),
           NEW x \in Points, x.locals = base, x.temps = 0, Live(p) => Live(x)
    PROVE  Standing(b, EndScope(s, base), Tail(Work), x, q)
<1>1. Good(s)
    BY DEF Standing
<1>2. base \in Nat /\ ~Has(Tail(Work), "define")
    BY <1>1, ScopeToClose
<1>3. PICK outer \in Nat : Closes(Current(s), base, outer)
    BY <1>1, ScopeToClose
<1> QED BY <1>2, <1>3, EndScopeStands DEF Closes

LEMMA EndBlockStacks ==
    ASSUME Balancing, EndBlock
    PROVE  Stacked'
<1>1. Doing("endScope") /\ Continue(EndScope(Now, Head(Work).base), <<>>)
    BY DEF EndBlock
<1>2. todo # <<>> /\ Work[1].k = "endScope" /\ Head(Work) = Work[1] /\ Work[1] \in Tasks
      /\ <<>> \o Tail(Work) = Tail(Work)
    BY <1>1, TaskPoints
<1>3. Work[1] \in ScopeTasks
    BY <1>2, NoScopes
<1>4. PICK p, q \in Points :
        Standing(Now, Now, Tail(Work), p, q) /\ Leads(Current(Now), Work[1], p, q)
    BY <1>1, TaskPoints
<1>5. PICK base : base = Base(Work[1])
    OBVIOUS
<1>6. base = Head(Work).base
    BY <1>2, <1>5 DEF Base, LoopTasks
<1>7. q.locals = base /\ q.temps = 0 /\ p.temps = 0 /\ (Live(p) => Live(q))
    <2>1. Gain(Current(Now), Work[1]) = 0 /\ Work[1].k \notin ExprTasks
        BY <1>2 DEF Gain, ExprTasks
    <2> QED BY <1>2, <1>3, <1>4, <1>5, <2>1, PointTypes DEF Leads, Travels, Live
<1>8. Calm(Now, Now)
    BY <1>1, NowIsGood DEF Balancing
<1>9. "endScope" \notin ExprTasks /\ "endScope" # "define"
    BY DEF ExprTasks
<1>10. Standing(Now, EndScope(Now, base), Tail(Work), q, q)
    BY <1>1, <1>3, <1>4, <1>5, <1>7, <1>8, <1>9, ClosingStands
<1> QED BY <1>1, <1>2, <1>6, <1>10, ContinueStacks

(* A block goes on where there is one more local: its end, or that of the  *)
(* function, takes it away.                                                *)
LEMMA HeadAhead ==
    ASSUME NEW w \in Seq(Tasks), w # <<>>
    PROVE  w = Ahead(w[1], Tail(w)) /\ w[1] \in Tasks /\ Tail(w) \in Seq(Tasks)
<1>1. PICK n \in Nat \ {0} : n = Len(w)
    BY EmptySeq, LenProperties
<1>2. PICK r : r = Tail(w)
    OBVIOUS
<1>3. /\ r \in Seq(Tasks) /\ Len(r) = n - 1 /\ w[1] \in Tasks
      /\ \A i \in 1..n - 1 : i + 1 \in 1..n /\ r[i] = w[i + 1]
    BY <1>1, <1>2, TailOf
<1>4. PICK u : u = Ahead(w[1], r)
    OBVIOUS
<1>5. u \in Seq(Tasks) /\ Len(u) = n /\ u[1] = w[1] /\ \A i \in 1..n - 1 : u[i + 1] = r[i]
    <2>1. InFront(u, w[1], r)
        BY <1>3, <1>4, OneInFront
    <2> QED BY <1>1, <1>3, <2>1 DEF InFront
<1>6. \A k \in 1..n : u[k] = w[k]
    <2> TAKE k \in 1..n
    <2>1. CASE k = 1
        BY <1>5, <2>1
    <2>2. CASE k # 1
        <3>1. k - 1 \in 1..n - 1 /\ (k - 1) + 1 = k
            BY <1>1, <2>2
        <3> QED BY <1>3, <1>5, <3>1
    <2> QED BY <2>1, <2>2
<1>7. u = w
    BY <1>1, <1>5, <1>6, SeqEqual
<1> QED BY <1>2, <1>3, <1>4, <1>7

LEMMA NothingLeads ==
    ASSUME NEW c, NEW p \in Points, NEW empty, empty = <<>>
    PROVE  LeadsOn(c, empty, p)
<1>1. Len(empty) = 0
    OBVIOUS
<1>2. Blocks(empty)
    BY <1>1 DEF Blocks
<1>3. PICK at : at = [k \in 1..1 |-> p]
    OBVIOUS
<1>4. at \in [1..Len(empty) + 1 -> Points] /\ at[1] = p
    BY <1>1, <1>3
<1>5. \A k \in 1..Len(empty) : Leads(c, empty[k], at[k], at[k + 1])
    BY <1>1
<1> QED BY <1>2, <1>4, <1>5 DEF LeadsOn

LEMMA EndLeads ==
    ASSUME NEW c, NEW t \in Tasks, t.k \in {"stats", "endFunction"},
           NEW p, NEW m, Leads(c, t, p, m)
    PROVE  /\ p \in Points /\ m \in Points /\ p.temps = 0 /\ m.temps = 0 /\ m.locals = p.locals
           /\ \A y, e \in Points : y.locals = e.locals /\ y.temps = 0 /\ e.temps = 0
                /\ y.path = p.path /\ e.path = m.path => Leads(c, t, y, e)
<1>1. t \notin ScopeTasks
    BY NoScopes DEF ForTasks
<1>2. t.k \notin ExprTasks \cup LoopTasks /\ t.k \notin {"methods", "patch", "ifElse", "forBody"}
    BY DEF ExprTasks, LoopTasks
<1>3. Gain(c, t) = 0
    BY <1>2 DEF Gain
<1>4. p \in Points /\ m \in Points /\ p.temps = 0 /\ m.temps = 0 /\ m.locals = p.locals
    BY <1>1, <1>2, <1>3, PointTypes DEF Leads, Travels
<1>5. ASSUME NEW y \in Points, NEW e \in Points, y.locals = e.locals, y.temps = 0, e.temps = 0,
             y.path = p.path, e.path = m.path
      PROVE  Leads(c, t, y, e)
    <2>1. Travels(c, t, y, e)
        BY <1>1, <1>2, <1>3, <1>5 DEF Leads, Travels
    <2>2. Meets(c, t, y, e) /\ Repeats(c, t, y)
        BY <1>2 DEF Meets, Repeats, LoopTasks
    <2> QED BY <1>2, <2>1, <2>2 DEF Leads, ExprTasks
<1> QED BY <1>4, <1>5

LEMMA ScopeLeads ==
    ASSUME NEW c, NEW t \in Tasks, t.k = "endScope", NEW p, NEW m, Leads(c, t, p, m)
    PROVE  /\ p \in Points /\ p.temps = 0
           /\ \A y \in Points : y.temps = 0 /\ y.path = p.path => Leads(c, t, y, m)
<1>1. t \in ScopeTasks
    BY NoScopes
<1>2. t.k \notin ExprTasks \cup LoopTasks /\ t.k \notin {"methods", "patch", "ifElse", "forBody"}
    BY DEF ExprTasks, LoopTasks
<1>3. Gain(c, t) = 0
    BY <1>2 DEF Gain
<1>4. p \in Points /\ m \in Points /\ p.temps = 0 /\ m.temps = 0
    BY <1>1, <1>2, <1>3, PointTypes DEF Leads, Travels
<1>5. ASSUME NEW y \in Points, y.temps = 0, y.path = p.path
      PROVE  Leads(c, t, y, m)
    <2>1. Travels(c, t, y, m)
        BY <1>1, <1>2, <1>3, <1>4, <1>5 DEF Leads, Travels
    <2>2. Meets(c, t, y, m) /\ Repeats(c, t, y)
        BY <1>2 DEF Meets, Repeats, LoopTasks
    <2> QED BY <1>2, <2>1, <2>2 DEF Leads, ExprTasks
<1> QED BY <1>4, <1>5

LEMMA RoomierLeads ==
    ASSUME NEW c, NEW w, Pending(c, w), w[1].k = "stats", NEW q, LeadsOn(c, w, q),
           NEW y \in Points, y.temps = 0, y.path = q.path
    PROVE  LeadsOn(c, w, y) /\ q.temps = 0
<1>1. w \in Seq(Tasks) /\ w # <<>>
    BY DEF Pending
<1>2. PICK t : t = w[1]
    OBVIOUS
<1>3. PICK r : r = Tail(w)
    OBVIOUS
<1>4. w = Ahead(t, r) /\ t \in Tasks /\ r \in Seq(Tasks) /\ t.k = "stats"
    BY <1>1, <1>2, <1>3, HeadAhead
<1>5. PICK m \in Points : Leads(c, t, q, m) /\ LeadsOn(c, r, m)
    BY <1>1, <1>2, <1>3, HeadLeads
<1>6. /\ q \in Points /\ q.temps = 0 /\ m.temps = 0 /\ m.locals = q.locals
      /\ \A a, e \in Points : a.locals = e.locals /\ a.temps = 0 /\ e.temps = 0
                /\ a.path = q.path /\ e.path = m.path => Leads(c, t, a, e)
    BY <1>4, <1>5, EndLeads
<1>7. w[1].k # "endFunction"
    BY <1>2, <1>4
<1>8. Pending(c, r)
    BY <1>3, <1>7, PendingTail
<1>9. r # <<>> /\ Len(r) \in Nat \ {0} /\ Len(w) = Len(r) + 1 /\ r[1] = w[2]
    <2>1. r # <<>>
        BY <1>8 DEF Pending
    <2>2. PICK n \in Nat \ {0} : n = Len(r)
        BY <1>4, <2>1, EmptySeq, LenProperties
    <2>5. InFront(w, t, r)
        BY <1>4, OneInFront
    <2>3. Len(w) = n + 1 /\ \A i \in 1..n : w[i + 1] = r[i]
        BY <2>2, <2>5 DEF InFront
    <2>4. 1 \in 1..n /\ 1 + 1 = 2
        BY <2>2
    <2> QED BY <2>1, <2>2, <2>3, <2>4
<1>10. PICK x : x = r[1]
    OBVIOUS
<1>11. PICK z : z = Tail(r)
    OBVIOUS
<1>12. r = Ahead(x, z) /\ x \in Tasks /\ z \in Seq(Tasks)
    BY <1>4, <1>9, <1>10, <1>11, HeadAhead
<1>13. x.k \in {"endScope", "endFunction"}
    <2>1. Blocks(w)
        BY DEF LeadsOn
    <2>2. 1 \in 1..Len(w) - 1 /\ 1 + 1 = 2
        BY <1>9
    <2> QED BY <1>2, <1>4, <1>9, <1>10, <2>1, <2>2 DEF Blocks
<1>14. PICK o \in Points : Leads(c, x, m, o) /\ LeadsOn(c, z, o)
    BY <1>4, <1>5, <1>9, <1>10, <1>11, HeadLeads
<1>15. PICK e \in Points : e.locals = y.locals /\ e.temps = 0 /\ e.path = m.path
    BY <1>5, PointTypes, SomePoint
<1>16. Leads(c, t, y, e)
    BY <1>6, <1>15
<1>17. CASE x.k = "endScope"
    <2>1. Leads(c, x, e, o)
        BY <1>12, <1>14, <1>15, <1>17, ScopeLeads
    <2>2. x.k # "stats"
        BY <1>17
    <2>3. LeadsOn(c, r, e)
        BY <1>12, <1>14, <2>1, <2>2, AheadLeads
    <2> QED BY <1>4, <1>6, <1>9, <1>10, <1>13, <1>16, <2>3, AheadLeads
<1>18. CASE x.k = "endFunction"
    <2>1. z = <<>>
        <3>1. SUFFICES ASSUME z # <<>> PROVE FALSE
            OBVIOUS
        <3>2. PICK n \in Nat \ {0} : n = Len(z)
            BY <1>12, <3>1, EmptySeq, LenProperties
        <3>3. Len(r) = n + 1
            BY <1>12, <3>2, OneInFront DEF InFront
        <3>4. 2 \in 1..Len(r) /\ 1 \in 1..2 - 1
            BY <3>2, <3>3
        <3>5. Before(r[1], r[2])
            BY <1>8, <3>4 DEF Pending
        <3> QED BY <1>10, <1>18, <3>5 DEF Before
    <2>2. PICK f \in Points : f.locals = e.locals /\ f.temps = 0 /\ f.path = o.path
        BY <1>14, <1>15, PointTypes, SomePoint
    <2>3. Leads(c, x, e, f)
        <3>1. \A a, f_1 \in Points : a.locals = f_1.locals /\ a.temps = 0 /\ f_1.temps = 0
                /\ a.path = m.path /\ f_1.path = o.path => Leads(c, x, a, f_1)
            BY <1>12, <1>14, <1>18, EndLeads
        <3> QED BY <1>15, <2>2, <3>1
    <2>4. LeadsOn(c, z, f)
        BY <2>1, <2>2, NothingLeads
    <2>5. x.k # "stats"
        BY <1>18
    <2>6. LeadsOn(c, r, e)
        BY <1>12, <2>3, <2>4, <2>5, AheadLeads
    <2> QED BY <1>4, <1>6, <1>9, <1>10, <1>13, <1>16, <2>6, AheadLeads
<1> QED BY <1>13, <1>17, <1>18

LEMMA RoomierStands ==
    ASSUME NEW b, NEW s, NEW w, NEW p, NEW q, Standing(b, s, w, p, q), Pending(Current(s), w),
           w[1].k = "stats", NEW y \in Points, y.temps = 0, y.path = q.path
    PROVE  Standing(b, s, w, p, y)
<1>1. LeadsOn(Current(s), w, q)
    BY DEF Standing, Poised
<1>2. LeadsOn(Current(s), w, y)
    BY <1>1, RoomierLeads
<1> QED BY <1>2 DEF Standing, Poised

(* The declaration of a variable: a local is there before its value, which *)
(* takes its place on the stack; a global's value goes into the table.     *)
LEMMA DeclarationPoints ==
    ASSUME NEW c \in Contexts, NEW p \in Points, p.temps = 0
    PROVE  \E x, y, e \in Points :
            /\ Declared(c, p, x) /\ Below(x, y, 1)
            /\ Below(y, e, IF c.scopeDepth > 0 THEN 0 ELSE -1) /\ Settles(c, y, e)
            /\ e.temps = 0 /\ e.path = p.path
            /\ e.locals = IF c.scopeDepth > 0 THEN p.locals + 1 ELSE p.locals
<1>1. c.scopeDepth \in Nat /\ p.locals \in Nat /\ p.path \in {"live", "dead"}
    BY ScopeTypes, PointTypes
<1>2. CASE c.scopeDepth > 0
    <2>1. PICK l \in Nat : l = p.locals + 1
        BY <1>1
    <2>2. PICK x \in Points : x.locals = l /\ x.temps = -1 /\ x.path = p.path
        BY <1>1, SomePoint
    <2>3. PICK y \in Points : y.locals = l /\ y.temps = 0 /\ y.path = p.path
        BY <1>1, SomePoint
    <2>4. Declared(c, p, x) /\ Below(x, y, 1)
        BY <1>2, <2>1, <2>2, <2>3 DEF Declared, Below, Live
    <2>5. Below(y, y, 0) /\ Settles(c, y, y)
        BY <1>2, <2>3 DEF Settles, Below, Live
    <2> QED BY <1>2, <2>1, <2>2, <2>3, <2>4, <2>5
<1>3. CASE ~(c.scopeDepth > 0)
    <2>0. c.scopeDepth = 0
        BY <1>1, <1>3
    <2>2. Declared(c, p, p)
        BY <2>0 DEF Declared
    <2>3. PICK y \in Points : y.locals = p.locals /\ y.temps = 1 /\ y.path = p.path
        BY <1>1, SomePoint
    <2>4. Below(p, y, 1)
        BY <2>3 DEF Below, Live
    <2>5. Below(y, p, -1) /\ Settles(c, y, p)
        BY <1>3, <2>3 DEF Settles, Below, Live
    <2> QED BY <1>3, <2>2, <2>3, <2>4, <2>5
<1> QED BY <1>2, <1>3

LEMMA DeclareKeeps ==
    ASSUME NEW s, Good(s), NEW name \in VariableNames, NEW t, t = DeclareVariable(s, name)
    PROVE  /\ Good(t) /\ CanDefine(Current(t)) /\ Current(t).scopeDepth = Current(s).scopeDepth
           /\ Current(t) \in Contexts
<1>1. GetsWider(s, t) /\ CanDefine(Current(t))
    BY DeclaresOne
<1>2. Good(t)
    BY <1>1 DEF GetsWider, Follows
<1> QED BY <1>1, <1>2, CurrentIsFine DEF GetsWider, Widens

LEMMA EmitKeeps ==
    ASSUME NEW s, Good(s), CanDefine(Current(s)), NEW op \in Operations, NEW arg \in Int,
           NEW t, t = Emit(s, op, arg)
    PROVE  /\ Good(t) /\ CanDefine(Current(t)) /\ Current(t).scopeDepth = Current(s).scopeDepth
           /\ Current(t) \in Contexts
<1>1. GoesOn(s, t)
    BY EmitsNameless
<1>2. Good(t) /\ Steady(Current(s), Current(t))
    BY <1>1 DEF GoesOn, Follows
<1> QED BY <1>2, CurrentIsFine DEF Steady, SameSettings, SameLocals, CanDefine

(* The name is declared and its value pushed or computed.                  *)
LEMMA DeclaredStands ==
    ASSUME NEW b, NEW s, NEW w, NEW p, NEW q, Standing(b, s, w, p, q),
           NEW x \in Names, DeclareVariable(s, x).error = NoError,
           NEW v, NEW y, NEW e, Declared(Current(s), p, v), Below(v, y, 1),
           NEW t, t = DeclareVariable(s, x)
    PROVE  /\ \A op \in {"NIL", "CLASS"} : Standing(b, Emit(t, op, 0), w, y, q)
           /\ Standing(b, t, w, v, q) /\ CanDefine(Current(t)) /\ Good(t)
           /\ Current(t).scopeDepth = Current(s).scopeDepth
<1>1. x \in VariableNames /\ Good(s)
    BY DEF VariableNames, Standing
<1>2. Standing(b, t, w, v, q)
    BY <1>1, DeclareStands
<1>3. \A op \in {"NIL", "CLASS"} : Standing(b, Emit(t, op, 0), w, y, q)
    <2> TAKE op \in {"NIL", "CLASS"}
    <2>1. op \in PlainOperations /\ Effect(op, 0) = 1 /\ 0 \in Int /\ 1 \in Int
        BY StackOps
    <2> QED BY <1>2, <2>1, EmitBetween
<1>4. CanDefine(Current(t)) /\ Good(t) /\ Current(t).scopeDepth = Current(s).scopeDepth
    BY <1>1, DeclareKeeps
<1> QED BY <1>2, <1>3, <1>4

(* A variable with its value still to come, and one that starts as nil.    *)
LEMMA VarStands ==
    ASSUME NEW b, NEW s, NEW w, NEW p, NEW e, Standing(b, s, w, p, e), e.temps = 0,
           NEW c, c = Current(s), NEW v, NEW y, Declared(c, p, v), Below(v, y, 1),
           Below(y, e, IF c.scopeDepth > 0 THEN 0 ELSE -1), Settles(c, y, e),
           NEW x \in Names, NEW t, t = DeclareVariable(s, x)
    PROVE  /\ t.error = NoError => Standing(b, t, Ahead(Expr, Ahead(Define(x), w)), v, v)
           /\ DefineVariable(Emit(t, "NIL", 0), x).error = NoError =>
                Standing(b, DefineVariable(Emit(t, "NIL", 0), x), w, e, e)
<1>1. x \in VariableNames /\ Good(s)
    BY DEF VariableNames, Standing
<1>2. ASSUME t.error = NoError
      PROVE  /\ Standing(b, t, w, v, e) /\ Current(t).scopeDepth = c.scopeDepth
             /\ CanDefine(Current(t)) /\ Good(t) /\ Standing(b, Emit(t, "NIL", 0), w, y, e)
    BY <1>2, DeclaredStands
<1>3. ASSUME t.error = NoError
      PROVE  Standing(b, t, Ahead(Expr, Ahead(Define(x), w)), v, v)
    <2>1. PICK u : u = Ahead(Define(x), w)
        OBVIOUS
    <2>2. Standing(b, t, u, v, y)
        BY <1>2, <1>3, <2>1, DefineAhead
    <2> QED BY <2>1, <2>2, ValueAhead
<1>4. ASSUME DefineVariable(Emit(t, "NIL", 0), x).error = NoError
      PROVE  Standing(b, DefineVariable(Emit(t, "NIL", 0), x), w, e, e)
    <2>1. PICK u : u = Emit(t, "NIL", 0)
        OBVIOUS
    <2>2. t.error = NoError
        <3>1. Judged(s)
            BY <1>1 DEF Good, States, Judged
        <3>2. Heeds(s, t)
            BY <3>1, DeclaresHeed
        <3>3. Heeds(t, u)
            BY <2>1, <3>2, EmitHeeds DEF Heeds
        <3>4. Heeds(u, DefineVariable(u, x))
            BY <3>3, DeclaresHeed DEF Heeds
        <3> QED BY <1>4, <2>1, <3>3, <3>4 DEF Heeds
    <2>3. "NIL" \in Operations /\ 0 \in Int
        BY NilOps
    <2>4. Standing(b, u, w, y, e) /\ CanDefine(Current(u)) /\ Current(u).scopeDepth = c.scopeDepth
        BY <1>2, <2>1, <2>2, <2>3, EmitKeeps
    <2>5. Settles(Current(u), y, e)
        BY <2>4 DEF Settles
    <2> QED BY <1>1, <2>1, <2>4, <2>5, DefineStands
<1> QED BY <1>3, <1>4

LEMMA VarDeclarationStacks ==
    ASSUME Balancing, VarDeclaration, error' = NoError
    PROVE  Stacked'
<1>1. Doing("stats") /\ AtStatement
    BY BlockIsStatement DEF VarDeclaration
<1>2. Rest = Work
    BY <1>1 DEF Rest
<1>3. PICK p \in Points : Standing(Now, Now, Work, p, p) /\ p.temps = 0
    BY <1>1, <1>2, StatementPoints
<1>4. /\ Work[1].k = "stats" /\ Pending(Current(Now), Work) /\ Work \in Seq(Tasks)
      /\ Current(Now) \in Contexts
    <2>1. "stats" \notin ExprTasks /\ "stats" # "define"
        BY DEF ExprTasks
    <2>2. PICK r : r = Tail(Work)
        OBVIOUS
    <2> QED BY <1>1, <2>1, <2>2, TaskHeld, CurrentIsFine DEF Balancing
<1>5. PICK x \in Identifiers :
        \/ Statement(DeclareVariable(Now, x), <<Expr, Define(x)>>)
        \/ Statement(DefineVariable(Emit(DeclareVariable(Now, x), "NIL", 0), x), <<>>)
    BY DEF VarDeclaration
<1>6. x \in Names
    BY FamilyBounds DEF Balancing
<1>7. PICK c \in Contexts : c = Current(Now)
    BY <1>4
<1>8. PICK v, y, e \in Points :
        /\ Declared(c, p, v) /\ Below(v, y, 1)
        /\ Below(y, e, IF c.scopeDepth > 0 THEN 0 ELSE -1) /\ Settles(c, y, e)
        /\ e.temps = 0 /\ e.path = p.path
    BY <1>3, DeclarationPoints
<1>9. Standing(Now, Now, Work, p, e)
    BY <1>3, <1>4, <1>8, RoomierStands
<1>10. PICK t : t = DeclareVariable(Now, x)
    OBVIOUS
<1>11. PICK n : n = DefineVariable(Emit(t, "NIL", 0), x)
    OBVIOUS
<1>12. /\ t.error = NoError => Standing(Now, t, Ahead(Expr, Ahead(Define(x), Work)), v, v)
       /\ n.error = NoError => Standing(Now, n, Work, e, e)
    BY <1>6, <1>7, <1>8, <1>9, <1>10, <1>11, VarStands
<1>13. CASE Statement(t, <<Expr, Define(x)>>)
    <2>1. Standing(Now, t, Ahead(Expr, Ahead(Define(x), Work)), v, v)
        BY <1>12, <1>13 DEF Statement, Walk, Becomes
    <2>2. <<Expr, Define(x)>> \o Work = Ahead(Expr, Ahead(Define(x), Work))
        BY <1>4, <1>6, DeclaringTasks, TwoInFront
    <2> QED BY <1>1, <1>2, <1>13, <2>1, <2>2, StatementStacks
<1>14. CASE Statement(n, <<>>)
    <2>1. Standing(Now, n, Work, e, e)
        BY <1>12, <1>14 DEF Statement, Walk, Becomes
    <2>2. <<>> \o Work = Work
        BY <1>4, NoTasks
    <2> QED BY <1>1, <1>2, <1>14, <2>1, <2>2, StatementStacks
<1> QED BY <1>5, <1>10, <1>11, <1>13, <1>14

LEMMA EndDeclarationStacks ==
    ASSUME Balancing, EndDeclaration
    PROVE  Stacked'
<1>1. Doing("define") /\ Continue(DefineVariable(Now, Head(Work).name), <<>>)
    BY DEF EndDeclaration
<1>2. /\ todo # <<>> /\ Work[1].k = "define" /\ Head(Work) = Work[1] /\ Work[1] \in Tasks
      /\ <<>> \o Tail(Work) = Tail(Work)
    BY <1>1, TaskPoints
<1>3. Work[1] \notin ScopeTasks /\ Work[1].k \notin ExprTasks
    BY <1>2, NoScopes DEF ForTasks, ExprTasks
<1>4. PICK p, q \in Points :
        /\ Standing(Now, Now, Tail(Work), p, q) /\ Leads(Current(Now), Work[1], p, q)
        /\ Below(p, q, Gain(Current(Now), Work[1]))
    BY <1>1, <1>3, TaskPoints
<1>5. Gain(Current(Now), Work[1]) = IF Current(Now).scopeDepth > 0 THEN 0 ELSE -1
    BY <1>2 DEF Gain
<1>6. Settles(Current(Now), p, q)
    BY <1>4, <1>5 DEF Settles, Below
<1>7. PICK name : name = Work[1].name
    OBVIOUS
<1>8. name \in VariableNames
    BY <1>2, <1>7, TaskTypes DEF VariableNames
<1>9. CanDefine(Current(Now))
    BY <1>1, <1>2, TaskBegins DEF Balancing, Fits
<1>10. Standing(Now, DefineVariable(Now, name), Tail(Work), q, q)
    BY <1>4, <1>6, <1>8, <1>9, DefineStands
<1> QED BY <1>1, <1>2, <1>7, <1>10, ContinueStacks

(* Loops.  What they remember of a Context is not on the stack.            *)
SameCode(c, d) == d.code = c.code /\ d.height = c.height /\ d.enclosing_loop \in Nat

LEMMA SameCodeGrows ==
    ASSUME NEW c \in Contexts, NEW d, SameCode(c, d)
    PROVE  Grown(c, d) /\ HeightAt(c, Len(c.code)) = c.height
<1>1. Len(c.code) \in Nat
    BY StackTypes
<1> QED BY <1>1 DEF SameCode, Grown, HeightAt

LEMMA ResetIsSame ==
    ASSUME NEW b, NEW s, NEW w, NEW p, NEW q, Standing(b, s, w, p, q), NEW t,
           NEW continue, NEW break, NEW loops, Reset(s, t, continue, break, loops), break = 0
    PROVE  Standing(b, t, w, p, q) /\ SameCode(Current(s), Current(t))
<1>1. Standing(b, t, w, p, q)
    BY ResetStands
<1>2. Current(t).enclosing_loop \in Nat
    BY <1>1, LoopFields DEF Standing
<1> QED BY <1>1, <1>2 DEF Reset, BesideLoops, SameCode

LEMMA SavesStand ==
    ASSUME NEW b, NEW s, NEW w, NEW p, NEW q, Standing(b, s, w, p, q),
           NEW t, t = SaveBreakContext(s)
    PROVE  Standing(b, t, w, p, q) /\ SameCode(Current(s), Current(t))
<1>1. PICK c : c = Current(s)
    OBVIOUS
<1>2. Good(s) /\ c.last_break = 0
    BY <1>1, StandingIs
<1>3. Reset(s, t, c.last_continue, c.last_break, c.enclosing_loop)
    BY <1>1, <1>2, SavesBreakContext
<1> QED BY <1>2, <1>3, ResetIsSame

LEMMA ContinuesStand ==
    ASSUME NEW b, NEW s, NEW w, NEW p, NEW q, Standing(b, s, w, p, q),
           NEW at \in Nat, at <= Len(Current(s).code), NEW t, t = ContinueAt(s, at)
    PROVE  Standing(b, t, w, p, q) /\ SameCode(Current(s), Current(t))
<1>1. PICK c : c = Current(s)
    OBVIOUS
<1>2. Good(s) /\ c.last_break = 0
    BY <1>1, StandingIs
<1>3. Reset(s, t, at, c.last_break, c.enclosing_loop)
    BY <1>1, <1>2, ContinuesAt
<1> QED BY <1>2, <1>3, ResetIsSame

LEMMA EnclosesStand ==
    ASSUME NEW b, NEW s, NEW w, NEW p, NEW q, Standing(b, s, w, p, q),
           NEW change \in Int, Current(s).enclosing_loop + change \in Nat, NEW t, t = Enclose(s, change)
    PROVE  Standing(b, t, w, p, q) /\ SameCode(Current(s), Current(t))
<1>1. PICK c : c = Current(s)
    OBVIOUS
<1>2. Good(s) /\ c.last_break = 0
    BY <1>1, StandingIs
<1>3. Reset(s, t, c.last_continue, c.last_break, c.enclosing_loop + change)
    BY <1>1, <1>2, Encloses
<1> QED BY <1>2, <1>3, ResetIsSame

LEMMA EnclosesOneStands ==
    ASSUME NEW b, NEW s, NEW w, NEW p, NEW q, Standing(b, s, w, p, q), NEW t, t = Enclose(s, 1)
    PROVE  Standing(b, t, w, p, q)
<1>1. Good(s)
    BY DEF Standing
<1>2. Current(s).enclosing_loop + 1 \in Nat /\ 1 \in Int
    BY <1>1, LoopFields
<1> QED BY <1>2, EnclosesStand

LEMMA RestoresStand ==
    ASSUME NEW b, NEW s, NEW w, NEW p, NEW q, Standing(b, s, w, p, q),
           NEW loop \in Loops, loop.saved.break = 0, loop.saved.continue <= Len(Current(s).code),
           NEW t, t = Restore(s, loop.saved)
    PROVE  Standing(b, t, w, p, q)
<1>1. PICK c : c = Current(s)
    OBVIOUS
<1>2. Good(s) /\ Len(c.code) \in Nat
    BY <1>1, CodeLength DEF Standing
<1>3. loop.saved \in [continue : Nat, break : Nat, depth : Nat] /\ loop.saved.break <= Len(c.code)
    BY <1>2, LoopTypes
<1>4. Reset(s, t, loop.saved.continue, loop.saved.break, c.enclosing_loop)
    BY <1>1, <1>2, <1>3, Restores
<1> QED BY <1>4, ResetIsSame

(* Where no path leads, there is none.                                     *)
LEMMA LowerStands ==
    ASSUME NEW b, NEW s, NEW w, NEW p, NEW q, Standing(b, s, w, p, q)
    PROVE  \E x \in Points :
            /\ Standing(b, s, w, x, q) /\ x.locals = p.locals /\ x.temps = p.temps
            /\ (Live(x) => Live(p))
            /\ Live(x) => Current(s).height = p.locals + p.temps
<1>1. PICK c : c = Current(s)
    OBVIOUS
<1>2. p \in Points /\ Sits(c, p)
    BY <1>1, StandingIs
<1>3. CASE c.height # DEAD
    BY <1>1, <1>2, <1>3 DEF Sits
<1>4. CASE c.height = DEAD
    <2>1. PICK x \in Points : x.locals = p.locals /\ x.temps = p.temps /\ x.path = "dead"
        <3>1. p.locals \in Nat /\ p.temps \in Int /\ p.temps >= -1 /\ "dead" \in {"live", "dead"}
            BY <1>2, PointTypes
        <3> QED BY <3>1, SomePoint
    <2>2. Sits(c, x)
        BY <1>2, <1>4, <2>1 DEF Sits
    <2>3. Standing(b, s, w, x, q)
        BY <1>1, <2>2 DEF Standing, Poised
    <2>4. ~Live(x)
        BY <2>1 DEF Live
    <2> QED BY <2>1, <2>3, <2>4
<1> QED BY <1>3, <1>4

(* A loop may start again where it begins.                                 *)
LEMMA RestartsHere ==
    ASSUME NEW c \in Contexts, NEW d \in Contexts, SameCode(c, d), NEW x \in Points,
           Live(x) => c.height = x.locals, NEW start, start = Len(c.code)
    PROVE  Restarts(d, start, x)
<1>1. Len(c.code) \in Nat
    BY StackTypes
<1> QED BY <1>1 DEF SameCode, Restarts, HeightAt, Live

(* The end of a loop: back to its start, and on behind it.                 *)
LEMMA CloseLoopStands ==
    ASSUME NEW b, NEW s, NEW w, NEW p, NEW q, Standing(b, s, w, p, q), p.temps = 0,
           Current(s).enclosing_loop > 0, NEW loop, LoopFits(Current(s), loop),
           loop.saved.break = 0, Restarts(Current(s), loop.start, p),
           NEW e \in Points, e.locals = p.locals, e.temps = 0, Live(p) => Live(e),
           loop.exit # NONE => Reaches(Current(s), loop.exit, p.locals + 1, e)
    PROVE  Standing(b, CloseLoop(s, loop), w, e, q)
<1>1. PICK c \in Contexts : c = Current(s)
    BY CurrentIsFine DEF Standing
<1>2. /\ c.enclosing_loop \in Nat /\ Len(c.code) \in Nat /\ loop \in Loops
      /\ loop.saved.continue \in Nat /\ loop.saved.continue <= Len(c.code)
    BY <1>1, LoopFields, LoopTypes DEF LoopFits, Standing
<1>3. PICK less \in Int : less = -1
    OBVIOUS
<1>4. PICK s1 : s1 = Enclose(s, less)
    OBVIOUS
<1>5. Standing(b, s1, w, p, q) /\ SameCode(c, Current(s1))
    <2>1. Current(s).enclosing_loop + less \in Nat
        BY <1>1, <1>2, <1>3
    <2> QED BY <1>1, <1>4, <2>1, EnclosesStand
<1>6. PICK c1 \in Contexts : c1 = Current(s1)
    BY <1>5, CurrentIsFine DEF Standing
<1>7. Grown(c, c1)
    BY <1>5, <1>6, SameCodeGrows
<1>8. p \in Points
    BY StandingIs
<1>9. Restarts(c1, loop.start, p)
    BY <1>1, <1>6, <1>7, <1>8, RestartsOn
<1>10. PICK start : start = loop.start
    OBVIOUS
<1>11. PICK s2 : s2 = EmitLoop(s1, start)
    OBVIOUS
<1>12. \A x \in Points : x.locals = p.locals => Standing(b, s2, w, x, q)
    BY <1>5, <1>6, <1>9, <1>10, <1>11, LoopStands
<1>13. Standing(b, s2, w, e, q)
    BY <1>12
<1>14. PICK c2 \in Contexts : c2 = Current(s2)
    BY <1>13, CurrentIsFine DEF Standing
<1>15. Grown(c, c2)
    <2>1. start \in Int
        BY <1>2, <1>10, LoopTypes
    <2>2. "LOOP" \in Operations
        BY JumpOps
    <2>3. Grown(c1, c2)
        BY <1>5, <1>6, <1>11, <1>14, <2>1, <2>2, EmitGrows DEF EmitLoop, Standing
    <2> QED BY <1>7, <2>3, GrownOn
<1>16. \A x : Standing(b, x, w, e, q) /\ Grown(c2, Current(x)) =>
            Standing(b, Restore(x, loop.saved), w, e, q)
    <2> TAKE x
    <2> HAVE Standing(b, x, w, e, q) /\ Grown(c2, Current(x))
    <2>1. Len(Current(x).code) \in Nat /\ Len(c2.code) \in Nat
        BY CodeLength, StackTypes DEF Standing
    <2>2. loop.saved.continue <= Len(Current(x).code)
        BY <1>2, <1>15, <2>1 DEF Grown
    <2> QED BY <1>2, <2>2, RestoresStand
<1>17. CASE loop.exit = NONE
    <2>1. CloseLoop(s, loop) = Restore(s2, loop.saved)
        BY <1>3, <1>4, <1>10, <1>11, <1>17 DEF CloseLoop
    <2>2. Grown(c2, c2)
        <3>1. Len(c2.code) \in Nat
            BY StackTypes
        <3> QED BY <3>1 DEF Grown, HeightAt
    <2> QED BY <1>13, <1>14, <1>16, <2>1, <2>2
<1>18. CASE loop.exit # NONE
    <2>1. PICK x \in Points : x.locals = e.locals /\ x.temps = 1 /\ x.path = e.path
        <3>1. e.locals \in Nat /\ e.path \in {"live", "dead"}
            BY PointTypes
        <3> QED BY <3>1, SomePoint
    <2>2. Below(x, e, -1) /\ Live(x) => Live(e)
        BY <2>1 DEF Below, Live
    <2>3. Standing(b, s2, w, x, q)
        BY <1>12, <2>1
    <2>4. PICK exit : exit = loop.exit
        OBVIOUS
    <2>5. Reaches(c2, exit, x.locals + x.temps, x)
        <3>1. Reaches(c, exit, p.locals + 1, e)
            BY <1>1, <1>18, <2>4
        <3>2. Reaches(c2, exit, p.locals + 1, e)
            BY <1>15, <3>1, ReachesOn
        <3> QED BY <2>1, <3>2 DEF Reaches
    <2>6. PICK s3 : s3 = PatchJump(s2, exit)
        OBVIOUS
    <2>7. Standing(b, s3, w, x, q)
        BY <1>14, <2>1, <2>3, <2>5, <2>6, PatchStands
    <2>8. PatchBreak(s3) = s3
        <3>1. Current(s3).last_break = 0
            BY <2>7, StandingIs
        <3> QED BY <3>1 DEF PatchBreak
    <2>9. PICK s4 : s4 = Emit(s3, "POP", 0)
        OBVIOUS
    <2>10. Standing(b, s4, w, e, q)
        <3>1. Below(x, e, -1)
            BY <2>1 DEF Below, Live
        <3> QED BY <2>7, <2>9, <3>1, StackOps, EmitBetween
    <2>11. CloseLoop(s, loop) = Restore(s4, loop.saved)
        BY <1>3, <1>4, <1>10, <1>11, <1>18, <2>4, <2>6, <2>8, <2>9 DEF CloseLoop
    <2>12. loop.saved.continue <= Len(Current(s4).code)
        <3>1. PICK n \in Nat : n = Len(c2.code)
            BY StackTypes
        <3>2. loop.saved.continue <= n
            BY <1>2, <1>15, <3>1 DEF Grown
        <3>3. Len(Current(s3).code) = n
            <4>1. exit \in 1..Len(Current(s2).code) /\ Good(s2)
                BY <1>14, <2>3, <2>5 DEF Reaches, Standing
            <4> QED BY <1>14, <2>6, <3>1, <4>1, LandsHere
        <3>4. Len(Current(s4).code) = n + 1
            <4>1. Good(s3) /\ "POP" \in Operations /\ 0 \in Int
                BY <2>7, PlainOps DEF Standing
            <4>2. OneMore(Current(s3), Current(s4), "POP", 0, "")
                BY <2>9, <4>1, EmitsNameless
            <4> QED BY <3>3, <4>2 DEF OneMore
        <3> QED BY <1>2, <3>1, <3>2, <3>4
    <2> QED BY <1>2, <2>10, <2>11, <2>12, RestoresStand
<1> QED BY <1>17, <1>18

(* A loop in progress is a task.                                           *)
LEMMA LoopIsTask ==
    ASSUME NEW kind \in LoopTasks, NEW loop \in Loops
    PROVE  Loop(kind, loop) \in Tasks /\ Loop(kind, loop).k = kind
<1>1. PICK t : t = Loop(kind, loop)
    OBVIOUS
<1> QED BY <1>1, LoopTask

(* What is known where the task of a loop begins.                          *)
LEMMA LoopPoints ==
    ASSUME Balancing, NEW kind \in LoopTasks, Doing(kind), NEW loop, loop = Head(Work).loop
    PROVE  /\ todo # <<>> /\ Work[1].k = kind /\ Work[1] \in Tasks /\ Tail(Work) \in Seq(Tasks)
           /\ <<>> \o Tail(Work) = Tail(Work)
           /\ loop \in Loops /\ LoopFits(Current(Now), loop)
           /\ Current(Now) \in Contexts /\ Good(Now) /\ Calm(Now, Now)
           /\ kind \in LoopEnds => Current(Now).enclosing_loop > 0
           /\ kind \in ForTasks => Work[1] \in ScopeTasks /\ Base(Work[1]) = loop.base
           /\ \E p, q \in Points :
                Standing(Now, Now, Tail(Work), p, q) /\ LoopLeads(Current(Now), kind, loop, p, q)
<1>1. /\ todo # <<>> /\ Head(Work) = Work[1] /\ Work[1] \in Tasks /\ Work[1].k = kind
      /\ Tail(Work) \in Seq(Tasks) /\ <<>> \o Tail(Work) = Tail(Work)
    BY TaskPoints
<1>2. PICK h : h = Work[1]
    OBVIOUS
<1>3. Inv /\ Ordered
    BY DEF Balancing
<1>4. /\ Good(Now) /\ h \in Tasks /\ h.k = kind /\ h.loop \in Loops
      /\ LoopFits(Current(Now), h.loop)
    BY <1>2, <1>3, LoopGoesOn
<1>5. loop = h.loop
    BY <1>1, <1>2
<1>6. kind \in LoopEnds => Current(Now).enclosing_loop > 0
    <2>1. kind \in LoopEnds => h \in LoopEndTasks
        BY <1>4 DEF LoopEndTasks
    <2>2. kind # "endFunction"
        BY DEF LoopTasks
    <2> QED BY <1>2, <1>3, <2>1, <2>2, ScopeIsOpen
<1>7. h \in ScopeTasks <=> kind \in ForTasks
    <2>1. kind \in ForTasks => h \in ScopeTasks
        BY <1>4, NoScopes
    <2>2. kind \notin ForTasks => h \notin ScopeTasks
        <3>1. h.k \notin {"endScope", "endClass"}
            BY <1>4 DEF LoopTasks
        <3> QED BY <1>4, <3>1, NoScopes
    <2> QED BY <2>1, <2>2
<1>8. Base(h) = loop.base
    BY <1>4, <1>5 DEF Base
<1>9. PICK p, q \in Points :
        Standing(Now, Now, Tail(Work), p, q) /\ Leads(Current(Now), h, p, q)
    BY <1>2, TaskPoints
<1>10. /\ kind \notin ExprTasks /\ kind # "methods"
       /\ Gain(Current(Now), h) = IF kind \in {"whileBody", "forExit", "forBody"} THEN -1 ELSE 0
    BY <1>4 DEF LoopTasks, ExprTasks, Gain
<1>11. LoopLeads(Current(Now), kind, loop, p, q)
    <2>1. /\ q.locals = IF kind \in ForTasks THEN loop.base ELSE p.locals
          /\ q.temps = 0 /\ q.temps = p.temps + Gain(Current(Now), h) /\ (Live(p) => Live(q))
        BY <1>4, <1>7, <1>8, <1>9, <1>10 DEF Leads, Travels, Live
    <2>2. p.temps = IF kind \in {"whileBody", "forExit", "forBody"} THEN 1 ELSE 0
        BY <1>10, <2>1, PointTypes
    <2>3. /\ loop.exit # NONE => Reaches(Current(Now), loop.exit, p.locals + 1, q)
          /\ kind = "forBody" => Reaches(Current(Now), loop.body, p.locals, p)
                                    /\ Restarts(Current(Now), loop.body, p)
          /\ kind # "forCond" => Restarts(Current(Now), loop.start, p)
          /\ loop.saved.break = 0
        BY <1>4, <1>5, <1>9 DEF Leads, Meets, Repeats
    <2> QED BY <2>1, <2>2, <2>3 DEF LoopLeads
<1>12. Current(Now) \in Contexts
    BY <1>4, CurrentIsFine
<1>13. Calm(Now, Now)
    BY <1>4, CalmSelf
<1> QED BY <1>1, <1>2, <1>4, <1>5, <1>6, <1>7, <1>8, <1>9, <1>11, <1>12, <1>13

(* A conditional jump out, and the condition is popped where there is none.*)
LEMMA ExitStands ==
    ASSUME NEW b, NEW s, NEW w, NEW p, NEW q, Standing(b, s, w, p, q), p.temps = 1,
           NEW t, t = EmitJump(s, "JUMP_IF_FALSE"), NEW jump, jump = Position(t), Live(p) => Live(q)
    PROVE  /\ Standing(b, t, w, p, q) /\ jump \in Nat /\ jump # 0
           /\ Reaches(Current(t), jump, p.locals + 1, q)
           /\ Grown(Current(s), Current(t)) /\ Current(t) \in Contexts
<1>1. Len(Current(s).code) \in Nat /\ p \in Points
    BY CodeLength, StandingIs DEF Standing
<1>2. /\ Standing(b, t, w, p, q) /\ jump = Len(Current(s).code) + 1
      /\ Grown(Current(s), Current(t))
      /\ \A e : (Live(p) => Live(e)) =>
            Reaches(Current(t), Len(Current(s).code) + 1, p.locals + p.temps, e)
    BY <1>1, JumpStands
<1>3. Current(t) \in Contexts
    BY <1>2, StandingIs
<1> QED BY <1>1, <1>2, <1>3

LEMMA WhileStacks ==
    ASSUME Balancing, WhileStatement
    PROVE  Stacked'
<1>1. AtStatement
    BY DEF WhileStatement
<1>2. PICK p, q \in Points :
        Standing(Now, Now, Rest, p, q) /\ Below(p, q, 0) /\ p.temps = 0 /\ q.temps = 0
    BY <1>1, StatementPoints
<1>3. PICK x \in Points :
        /\ Standing(Now, Now, Rest, x, q) /\ x.locals = p.locals /\ x.temps = 0
        /\ (Live(x) => Live(p)) /\ (Live(x) => Current(Now).height = p.locals + p.temps)
    BY <1>2, LowerStands
<1>4. PICK c \in Contexts : c = Current(Now)
    BY <1>2, StandingIs
<1>5. /\ Good(Now) /\ Rest \in Seq(Tasks) /\ Len(c.code) \in Nat /\ c.last_break = 0
      /\ p.locals \in Nat /\ x.path \in {"live", "dead"}
    BY <1>2, <1>3, <1>4, CodeLength, StandingIs, PointTypes
<1>6. PICK start \in Nat : start = Position(Now)
    BY <1>4, <1>5 DEF Position
<1>7. start = Len(c.code)
    BY <1>4, <1>6 DEF Position
<1>8. PICK loop : loop = NewLoop(Now, start)
    OBVIOUS
<1>9. loop \in Loops /\ loop.start = start /\ loop.exit = NONE /\ loop.saved.break = 0
    <2>1. LoopFits(c, loop) /\ loop.start = start /\ loop.exit = 0
        BY <1>4, <1>5, <1>7, <1>8, NewLoopFits
    <2>2. loop.saved.break = 0
        BY <1>4, <1>5, <1>8 DEF NewLoop, BreakContext
    <2> QED BY <2>1, <2>2 DEF LoopFits, NONE
<1>10. PICK s : s = SaveBreakContext(Now)
    OBVIOUS
<1>11. Standing(Now, s, Rest, x, q) /\ SameCode(c, Current(s))
    BY <1>3, <1>4, <1>10, SavesStand
<1>12. PICK t : t = ContinueAt(s, start)
    OBVIOUS
<1>13. Standing(Now, t, Rest, x, q) /\ SameCode(Current(s), Current(t))
    <2>1. start <= Len(Current(s).code)
        BY <1>7, <1>11 DEF SameCode
    <2> QED BY <1>11, <1>12, <2>1, ContinuesStand
<1>14. SameCode(c, Current(t)) /\ Current(t) \in Contexts
    BY <1>11, <1>13, StandingIs DEF SameCode
<1>15. PICK y \in Points : y.locals = p.locals /\ y.temps = 1 /\ y.path = x.path
    <2>1. 1 \in Int /\ 1 >= -1
        OBVIOUS
    <2>2. PICK y \in Points : y.locals = x.locals /\ y.temps = 1 /\ y.path = x.path
        BY <2>1, PointBeside
    <2> QED BY <1>3, <2>2
<1>16. Below(x, y, 1)
    BY <1>3, <1>15 DEF Below, Live
<1>17. Restarts(Current(t), start, y)
    <2>1. Live(y) => c.height = y.locals
        BY <1>2, <1>3, <1>4, <1>5, <1>15 DEF Live
    <2> QED BY <1>4, <1>7, <1>14, <1>15, <2>1, RestartsHere
<1>18. LoopLeads(Current(t), "whileBody", loop, y, q)
    <2>1. (Live(y) => Live(q)) /\ q.locals = y.locals
        BY <1>2, <1>3, <1>15 DEF Below, Live
    <2> QED BY <1>2, <1>9, <1>15, <1>17, <2>1 DEF LoopLeads, ForTasks
<1>19. "whileBody" \in LoopTasks
    BY DEF LoopTasks
<1>20. PICK v : v = Ahead(Loop("whileBody", loop), Rest)
    OBVIOUS
<1>21. Standing(Now, t, v, x, y)
    BY <1>9, <1>13, <1>18, <1>19, <1>20, LoopAhead
<1>22. Standing(Now, t, Ahead(Expr, v), x, x)
    BY <1>16, <1>21, ValueAhead
<1>23. <<Expr, Loop("whileBody", loop)>> \o Rest = Ahead(Expr, v)
    <2>1. Loop("whileBody", loop) \in Tasks
        BY <1>9, <1>19, LoopIsTask
    <2> QED BY <1>5, <1>20, <2>1, DeclaringTasks, TwoInFront
<1>24. Statement(t, <<Expr, Loop("whileBody", loop)>>)
    BY <1>6, <1>8, <1>10, <1>12 DEF WhileStatement
<1> QED BY <1>1, <1>22, <1>23, <1>24, StatementStacks

LEMMA WhileBodyStacks ==
    ASSUME Balancing, WhileBody
    PROVE  Stacked'
<1>1. Doing("whileBody") /\ "whileBody" \in LoopTasks /\ "whileEnd" \in LoopTasks
    BY DEF WhileBody, LoopTasks
<1>2. PICK first : first = Head(Work).loop
    OBVIOUS
<1>3. /\ todo # <<>> /\ Tail(Work) \in Seq(Tasks) /\ first \in Loops /\ Current(Now) \in Contexts
    BY <1>1, <1>2, LoopPoints
<1>4. PICK p, q \in Points :
        Standing(Now, Now, Tail(Work), p, q) /\ LoopLeads(Current(Now), "whileBody", first, p, q)
    BY <1>1, <1>2, LoopPoints
<1>5. p.temps = 1 /\ q.temps = 0 /\ q.locals = p.locals /\ (Live(p) => Live(q))
    BY <1>4 DEF LoopLeads, ForTasks
<1>6. PICK s : s = EmitJump(Now, "JUMP_IF_FALSE")
    OBVIOUS
<1>7. PICK jump : jump = Position(s)
    OBVIOUS
<1>8. /\ Standing(Now, s, Tail(Work), p, q) /\ jump \in Nat
      /\ Reaches(Current(s), jump, p.locals + 1, q)
      /\ Grown(Current(Now), Current(s)) /\ Current(s) \in Contexts
    BY <1>4, <1>5, <1>6, <1>7, ExitStands
<1>9. PICK loop \in Loops : loop = [first EXCEPT !.exit = jump]
    BY <1>3, <1>8, LoopChanges
<1>10. loop.exit = jump /\ loop.start = first.start /\ loop.saved = first.saved
    BY <1>3, <1>8, <1>9, LoopChanges
<1>11. PICK z \in Points : z.locals = p.locals /\ z.temps = 0 /\ z.path = p.path
    BY PointBeside
<1>12. Below(p, z, -1) /\ Below(z, z, 0)
    BY <1>5, <1>11 DEF Below, Live
<1>13. Restarts(Current(s), loop.start, z)
    <2>1. Restarts(Current(Now), first.start, p)
        BY <1>4 DEF LoopLeads
    <2>2. Restarts(Current(s), first.start, p)
        BY <1>3, <1>8, <2>1, RestartsOn
    <2> QED BY <1>10, <1>11, <2>2 DEF Restarts
<1>14. LoopLeads(Current(s), "whileEnd", loop, z, q)
    <2>1. (Live(z) => Live(q)) /\ q.locals = z.locals
        BY <1>5, <1>11 DEF Live
    <2>2. first.saved.break = 0
        BY <1>4 DEF LoopLeads
    <2> QED BY <1>5, <1>8, <1>10, <1>11, <1>13, <2>1, <2>2 DEF LoopLeads, ForTasks
<1>15. PICK v : v = Ahead(Loop("whileEnd", loop), Tail(Work))
    OBVIOUS
<1>16. Standing(Now, s, v, p, z)
    BY <1>1, <1>8, <1>14, <1>15, LoopAhead
<1>17. PICK u : u = Ahead(Task("stat"), v)
    OBVIOUS
<1>18. Standing(Now, s, u, p, z)
    BY <1>11, <1>12, <1>16, <1>17, StatAhead
<1>19. PICK t : t = Emit(s, "POP", 0)
    OBVIOUS
<1>20. Standing(Now, t, u, z, z)
    BY <1>12, <1>18, <1>19, StackOps, EmitBetween
<1>21. PICK e : e = Enclose(t, 1)
    OBVIOUS
<1>22. Standing(Now, e, u, z, z)
    BY <1>20, <1>21, EnclosesOneStands
<1>23. <<Task("stat"), Loop("whileEnd", loop)>> \o Tail(Work) = u
    <2>1. Loop("whileEnd", loop) \in Tasks
        BY <1>1, <1>9, LoopIsTask
    <2>2. Task("stat") \in Tasks
        BY DeclaringTasks
    <2> QED BY <1>3, <1>15, <1>17, <2>1, <2>2, TwoInFront
<1>24. Continue(e, <<Task("stat"), Loop("whileEnd", loop)>>)
    BY <1>2, <1>6, <1>7, <1>9, <1>19, <1>21 DEF WhileBody
<1> QED BY <1>3, <1>22, <1>23, <1>24, ContinueStacks

LEMMA WhileEndStacks ==
    ASSUME Balancing, WhileEnd
    PROVE  Stacked'
<1>1. Doing("whileEnd") /\ "whileEnd" \in LoopTasks /\ "whileEnd" \in LoopEnds
    BY DEF WhileEnd, LoopTasks, LoopEnds
<1>2. PICK loop : loop = Head(Work).loop
    OBVIOUS
<1>3. /\ todo # <<>> /\ <<>> \o Tail(Work) = Tail(Work) /\ LoopFits(Current(Now), loop)
      /\ Current(Now).enclosing_loop > 0
    BY <1>1, <1>2, LoopPoints
<1>4. PICK p, q \in Points :
        Standing(Now, Now, Tail(Work), p, q) /\ LoopLeads(Current(Now), "whileEnd", loop, p, q)
    BY <1>1, <1>2, LoopPoints
<1>5. /\ p.temps = 0 /\ q.temps = 0 /\ q.locals = p.locals /\ (Live(p) => Live(q))
      /\ loop.saved.break = 0 /\ Restarts(Current(Now), loop.start, p)
      /\ loop.exit # NONE => Reaches(Current(Now), loop.exit, p.locals + 1, q)
    BY <1>4 DEF LoopLeads, ForTasks
<1>6. Standing(Now, CloseLoop(Now, loop), Tail(Work), q, q)
    BY <1>3, <1>4, <1>5, CloseLoopStands
<1>7. Continue(CloseLoop(Now, loop), <<>>)
    BY <1>2 DEF WhileEnd
<1> QED BY <1>3, <1>6, <1>7, ContinueStacks

(* The condition of a for statement leads out of its scope.                *)
LEMMA ConditionAhead ==
    ASSUME NEW b, NEW s, NEW w, NEW p, NEW q, Standing(b, s, w, p, q), q.temps = 0,
           NEW loop \in Loops, loop.exit = NONE, loop.saved.break = 0, q.locals = loop.base,
           NEW y \in Points, y.temps = 0, Live(y) => Live(q), q \in Points
    PROVE  Standing(b, s, Ahead(Loop("forCond", loop), w), p, y)
<1>1. PICK kind \in LoopTasks : kind = "forCond" /\ kind \in ForTasks
    BY DEF LoopTasks, ForTasks
<1>2. LoopLeads(Current(s), kind, loop, y, q)
    BY <1>1 DEF LoopLeads
<1> QED BY <1>1, <1>2, LoopAhead

(* The scope of a for statement, and its loop that begins behind the       *)
(* initial declaration.                                                    *)
LEMMA ForPoints ==
    ASSUME Balancing, AtStatement, NEW s, s = SaveBreakContext(BeginScope(Now)),
           NEW loop, loop = [NewLoop(BeginScope(Now), 0) EXCEPT !.base = Visible(Now)]
    PROVE  /\ loop \in Loops /\ Rest \in Seq(Tasks) /\ Current(s) \in Contexts
           /\ \E p \in Points :
                /\ p.temps = 0
                /\ \A y \in Points : y.temps = 0 /\ y.path = p.path =>
                    Standing(Now, s, Ahead(Loop("forCond", loop), Rest), p, y)
<1>1. Good(Now) /\ Rest \in Seq(Tasks) /\ ~Has(Rest, "define")
    <2>1. PICK r : r = Rest
        OBVIOUS
    <2>2. Good(Now) /\ r \in Seq(Tasks) /\ ~Has(r, "define")
        BY <2>1, StatementHeld DEF Balancing, Rest
    <2> QED BY <2>1, <2>2
<1>2. PICK p, q \in Points :
        Standing(Now, Now, Rest, p, q) /\ Below(p, q, 0) /\ p.temps = 0 /\ q.temps = 0
    BY StatementPoints
<1>3. PICK b : b = BeginScope(Now)
    OBVIOUS
<1>4. Standing(Now, b, Rest, p, q)
    BY <1>1, <1>2, <1>3, BeginScopeStands
<1>5. Standing(Now, s, Rest, p, q) /\ Current(s) \in Contexts
    <2>1. Standing(Now, s, Rest, p, q)
        BY <1>3, <1>4, SavesStand
    <2> QED BY <2>1, StandingIs
<1>6. loop \in Loops /\ loop.base = Visible(Now)
    BY <1>1, <1>3, ForLoop
<1>7. Visible(Now) = p.locals
    BY <1>2, StandingIs DEF Visible
<1>8. loop.exit = NONE /\ loop.saved.break = 0
    <2>1. Current(b).last_break = 0
        BY <1>4, StandingIs
    <2> QED BY <1>3, <2>1 DEF NewLoop, BreakContext
<1>9. ASSUME NEW y \in Points, y.temps = 0, y.path = p.path
      PROVE  Standing(Now, s, Ahead(Loop("forCond", loop), Rest), p, y)
    <2>1. q.locals = loop.base /\ (Live(y) => Live(q))
        BY <1>2, <1>6, <1>7, <1>9 DEF Below, Live
    <2> QED BY <1>2, <1>5, <1>6, <1>8, <1>9, <2>1, ConditionAhead
<1> QED BY <1>1, <1>2, <1>5, <1>6, <1>9

LEMMA ForStacks ==
    ASSUME Balancing, ForStatement, error' = NoError
    PROVE  Stacked'
<1>1. AtStatement
    BY DEF ForStatement
<1>2. PICK s : s = SaveBreakContext(BeginScope(Now))
    OBVIOUS
<1>3. PICK loop : loop = [NewLoop(BeginScope(Now), 0) EXCEPT !.base = Visible(Now)]
    OBVIOUS
<1>4. loop \in Loops /\ Rest \in Seq(Tasks) /\ Current(s) \in Contexts
    BY <1>1, <1>2, <1>3, ForPoints
<1>5. PICK cond \in Tasks : cond = Loop("forCond", loop)
    <2>1. "forCond" \in LoopTasks
        BY DEF LoopTasks
    <2> QED BY <1>4, <2>1, LoopIsTask
<1>6. PICK w \in Seq(Tasks) : w = Ahead(cond, Rest)
    BY <1>4, <1>5, OneInFront DEF InFront
<1>7. PICK p \in Points :
        /\ p.temps = 0
        /\ \A y \in Points : y.temps = 0 /\ y.path = p.path => Standing(Now, s, w, p, y)
    BY <1>1, <1>2, <1>3, <1>5, <1>6, ForPoints
<1>8. CASE Statement(s, <<cond>>)
    <2>1. <<cond>> \o Rest = w
        BY <1>6 DEF Ahead
    <2> QED BY <1>1, <1>7, <1>8, <2>1, StatementStacks
<1>9. ASSUME NEW x \in Identifiers,
             \/ Statement(DeclareVariable(s, x), <<Expr, Define(x), cond>>)
             \/ Statement(DefineVariable(Emit(DeclareVariable(s, x), "NIL", 0), x), <<cond>>)
      PROVE  Stacked'
    <2>1. x \in Names
        BY FamilyBounds DEF Balancing
    <2>2. PICK c \in Contexts : c = Current(s)
        BY <1>4
    <2>3. PICK v, y, e \in Points :
            /\ Declared(c, p, v) /\ Below(v, y, 1)
            /\ Below(y, e, IF c.scopeDepth > 0 THEN 0 ELSE -1) /\ Settles(c, y, e)
            /\ e.temps = 0 /\ e.path = p.path
        BY <1>7, DeclarationPoints
    <2>4. Standing(Now, s, w, p, e)
        BY <1>7, <2>3
    <2>5. PICK t : t = DeclareVariable(s, x)
        OBVIOUS
    <2>6. PICK n : n = DefineVariable(Emit(t, "NIL", 0), x)
        OBVIOUS
    <2>7. /\ t.error = NoError => Standing(Now, t, Ahead(Expr, Ahead(Define(x), w)), v, v)
          /\ n.error = NoError => Standing(Now, n, w, e, e)
        BY <2>1, <2>2, <2>3, <2>4, <2>5, <2>6, VarStands
    <2>8. CASE Statement(t, <<Expr, Define(x), cond>>)
        <3>1. Standing(Now, t, Ahead(Expr, Ahead(Define(x), w)), v, v)
            BY <2>7, <2>8 DEF Statement, Walk, Becomes
        <3>2. <<Expr, Define(x), cond>> \o Rest = Ahead(Expr, Ahead(Define(x), w))
            BY <1>4, <1>6, <2>1, DeclaringTasks, ThreeInFront
        <3> QED BY <1>1, <2>8, <3>1, <3>2, StatementStacks
    <2>9. CASE Statement(n, <<cond>>)
        <3>1. Standing(Now, n, w, e, e)
            BY <2>7, <2>9 DEF Statement, Walk, Becomes
        <3>2. <<cond>> \o Rest = w
            BY <1>6 DEF Ahead
        <3> QED BY <1>1, <2>9, <3>1, <3>2, StatementStacks
    <2> QED BY <1>9, <2>5, <2>6, <2>8, <2>9
<1>10. \/ Statement(s, <<cond>>)
       \/ \E x \in Identifiers :
            \/ Statement(DeclareVariable(s, x), <<Expr, Define(x), cond>>)
            \/ Statement(DefineVariable(Emit(DeclareVariable(s, x), "NIL", 0), x), <<cond>>)
    <2>1. "forExpr" \notin Syntax
        BY InOrder DEF Balancing
    <2> QED BY <1>2, <1>3, <1>5, <2>1 DEF ForStatement
<1> QED BY <1>8, <1>9, <1>10

(* The rest of a for statement behind its initial declaration.             *)
LEMMA ForTasksAre ==
    ASSUME NEW loop \in Loops, NEW w \in Seq(Tasks)
    PROVE  /\ \A kind \in {"forIter", "forExit", "forBody", "forEnd"} :
                /\ kind \in LoopTasks /\ kind \in ForTasks /\ Loop(kind, loop) \in Tasks
                /\ <<Loop(kind, loop)>> \o w = Ahead(Loop(kind, loop), w)
                /\ <<Expr, Loop(kind, loop)>> \o w = Ahead(Expr, Ahead(Loop(kind, loop), w))
           /\ ForBody(loop) \o w = Ahead(Task("stat"), Ahead(Loop("forEnd", loop), w))
<1>1. \A kind \in {"forIter", "forExit", "forBody", "forEnd"} :
        kind \in LoopTasks /\ kind \in ForTasks
    BY DEF LoopTasks, ForTasks
<1>2. \A kind \in {"forIter", "forExit", "forBody", "forEnd"} : Loop(kind, loop) \in Tasks
    BY <1>1, LoopIsTask
<1>3. \A kind \in {"forIter", "forExit", "forBody", "forEnd"} :
        /\ <<Loop(kind, loop)>> \o w = Ahead(Loop(kind, loop), w)
        /\ <<Expr, Loop(kind, loop)>> \o w = Ahead(Expr, Ahead(Loop(kind, loop), w))
    <2> TAKE kind \in {"forIter", "forExit", "forBody", "forEnd"}
    <2>1. PICK t \in Tasks : t = Loop(kind, loop)
        BY <1>2
    <2>2. <<Expr, t>> \o w = Ahead(Expr, Ahead(t, w))
        BY DeclaringTasks, TwoInFront
    <2> QED BY <2>1, <2>2 DEF Ahead
<1>4. ForBody(loop) \o w = Ahead(Task("stat"), Ahead(Loop("forEnd", loop), w))
    <2>1. PICK t \in Tasks : t = Loop("forEnd", loop)
        BY <1>2
    <2>2. <<Task("stat"), t>> \o w = Ahead(Task("stat"), Ahead(t, w))
        BY DeclaringTasks, TwoInFront
    <2> QED BY <2>1, <2>2 DEF ForBody
<1> QED BY <1>1, <1>2, <1>3, <1>4

(* What a loop needs stays as the code grows, at points of the same locals.*)
LEMMA LoopStays ==
    ASSUME NEW c \in Contexts, NEW d \in Contexts, Grown(c, d), NEW first, NEW p, NEW q,
           NEW kind \in ForTasks, LoopLeads(c, kind, first, p, q), kind # "forCond",
           NEW y \in Points, y.locals = p.locals, Live(y) => Live(p)
    PROVE  /\ first.exit # NONE => Reaches(d, first.exit, y.locals + 1, q)
           /\ Restarts(d, first.start, y) /\ (Live(y) => Live(q))
           /\ first.saved.break = 0 /\ q.locals = first.base /\ q.temps = 0 /\ q \in Points
<1>1. /\ first.exit # NONE => Reaches(c, first.exit, p.locals + 1, q)
      /\ Restarts(c, first.start, p) /\ (Live(p) => Live(q)) /\ first.saved.break = 0
      /\ q.locals = first.base /\ q.temps = 0 /\ p \in Points /\ q \in Points
    BY DEF LoopLeads
<1>2. Restarts(d, first.start, p)
    BY <1>1, RestartsOn
<1>3. first.exit # NONE => Reaches(d, first.exit, p.locals + 1, q)
    BY <1>1, ReachesOn
<1>4. Restarts(d, first.start, y)
    BY <1>2 DEF Restarts, Live
<1> QED BY <1>1, <1>3, <1>4

LEMMA ForConditionStacks ==
    ASSUME Balancing, ForCondition
    PROVE  Stacked'
<1>1. Doing("forCond") /\ "forCond" \in LoopTasks /\ "forCond" \in ForTasks
    BY DEF ForCondition, LoopTasks, ForTasks
<1>2. PICK first : first = Head(Work).loop
    OBVIOUS
<1>3. /\ todo # <<>> /\ Tail(Work) \in Seq(Tasks) /\ first \in Loops /\ Current(Now) \in Contexts
    BY <1>1, <1>2, LoopPoints
<1>4. PICK p, q \in Points :
        Standing(Now, Now, Tail(Work), p, q) /\ LoopLeads(Current(Now), "forCond", first, p, q)
    BY <1>1, <1>2, LoopPoints
<1>5. /\ p.temps = 0 /\ q.temps = 0 /\ q.locals = first.base /\ (Live(p) => Live(q))
      /\ first.exit # NONE => Reaches(Current(Now), first.exit, p.locals + 1, q)
      /\ first.saved.break = 0 /\ p.locals \in Nat
    BY <1>1, <1>4, PointTypes DEF LoopLeads
<1>6. PICK x \in Points :
        /\ Standing(Now, Now, Tail(Work), x, q) /\ x.locals = p.locals /\ x.temps = 0
        /\ (Live(x) => Live(p)) /\ (Live(x) => Current(Now).height = p.locals + p.temps)
    BY <1>4, <1>5, LowerStands
<1>7. PICK c \in Contexts : c = Current(Now)
    BY <1>3
<1>8. PICK start \in Nat : start = Position(Now) /\ start = Len(c.code)
    <2>1. Len(c.code) \in Nat
        BY StackTypes
    <2> QED BY <1>7, <2>1 DEF Position
<1>9. PICK loop \in Loops :
        /\ loop = [first EXCEPT !.start = start] /\ loop.start = start /\ loop.exit = first.exit
        /\ loop.saved = first.saved /\ loop.base = first.base
    BY <1>3, <1>8, LoopChanges
<1>10. ASSUME NEW y \in Points, y.locals = p.locals, y.path = x.path,
              NEW kind \in {"forIter", "forExit"}, y.temps = IF kind = "forExit" THEN 1 ELSE 0
       PROVE  LoopLeads(c, kind, loop, y, q)
    <2>1. Restarts(c, start, y)
        <3>1. Live(y) => c.height = y.locals
            BY <1>5, <1>6, <1>7, <1>10 DEF Live
        <3>2. SameCode(c, c)
            BY ContextTypes DEF SameCode
        <3> QED BY <1>8, <3>1, <3>2, RestartsHere
    <2>2. (Live(y) => Live(q)) /\ kind \in ForTasks
        BY <1>5, <1>6, <1>10 DEF Live, ForTasks
    <2>3. y.locals + 1 = p.locals + 1
        BY <1>10
    <2>4. loop.exit # NONE => Reaches(c, loop.exit, y.locals + 1, q)
        BY <1>5, <1>7, <1>9, <2>3
    <2>5. kind \notin {"whileBody", "forBody", "forCond"}
        OBVIOUS
    <2>6. y.temps = IF kind \in {"whileBody", "forExit", "forBody"} THEN 1 ELSE 0
        BY <1>10, <2>5
    <2> QED BY <1>5, <1>9, <2>1, <2>2, <2>4, <2>5, <2>6 DEF LoopLeads
<1>11. CASE Continue(Now, <<Loop("forIter", loop)>>)
    <2>1. PICK kind \in {"forIter", "forExit"} : kind = "forIter"
        OBVIOUS
    <2>2. LoopLeads(c, kind, loop, x, q)
        BY <1>6, <1>10, <2>1
    <2>3. kind \in LoopTasks /\ <<Loop(kind, loop)>> \o Tail(Work) = Ahead(Loop(kind, loop), Tail(Work))
        BY <1>3, ForTasksAre
    <2>4. Standing(Now, Now, Ahead(Loop(kind, loop), Tail(Work)), x, x)
        BY <1>6, <1>7, <2>2, <2>3, LoopAhead
    <2> QED BY <1>3, <1>11, <2>1, <2>3, <2>4, ContinueStacks
<1>12. CASE Continue(Now, <<Expr, Loop("forExit", loop)>>)
    <2>1. PICK kind \in {"forIter", "forExit"} : kind = "forExit"
        OBVIOUS
    <2>2. PICK y \in Points : y.locals = x.locals /\ y.temps = 1 /\ y.path = x.path
        <3>1. 1 \in Int /\ 1 >= -1
            OBVIOUS
        <3> QED BY <3>1, PointBeside
    <2>3. LoopLeads(c, kind, loop, y, q)
        BY <1>6, <1>10, <2>1, <2>2
    <2>4. /\ kind \in LoopTasks
          /\ <<Expr, Loop(kind, loop)>> \o Tail(Work) = Ahead(Expr, Ahead(Loop(kind, loop), Tail(Work)))
        BY <1>3, ForTasksAre
    <2>5. PICK v : v = Ahead(Loop(kind, loop), Tail(Work))
        OBVIOUS
    <2>6. Standing(Now, Now, v, x, y)
        BY <1>6, <1>7, <2>3, <2>4, <2>5, LoopAhead
    <2>7. Below(x, y, 1)
        BY <1>6, <2>2 DEF Below, Live
    <2>8. Standing(Now, Now, Ahead(Expr, v), x, x)
        BY <2>6, <2>7, ValueAhead
    <2> QED BY <1>3, <1>12, <2>1, <2>4, <2>5, <2>8, ContinueStacks
<1>13. Continue(Now, <<Loop("forIter", loop)>>) \/ Continue(Now, <<Expr, Loop("forExit", loop)>>)
    BY <1>2, <1>8, <1>9 DEF ForCondition
<1> QED BY <1>11, <1>12, <1>13

LEMMA ForExitStacks ==
    ASSUME Balancing, ForExit
    PROVE  Stacked'
<1>1. Doing("forExit") /\ "forExit" \in LoopTasks /\ "forExit" \in ForTasks
    BY DEF ForExit, LoopTasks, ForTasks
<1>2. PICK first : first = Head(Work).loop
    OBVIOUS
<1>3. /\ todo # <<>> /\ Tail(Work) \in Seq(Tasks) /\ first \in Loops /\ Current(Now) \in Contexts
    BY <1>1, <1>2, LoopPoints
<1>4. PICK p, q \in Points :
        Standing(Now, Now, Tail(Work), p, q) /\ LoopLeads(Current(Now), "forExit", first, p, q)
    BY <1>1, <1>2, LoopPoints
<1>5. p.temps = 1 /\ (Live(p) => Live(q))
    BY <1>4 DEF LoopLeads
<1>6. PICK s : s = EmitJump(Now, "JUMP_IF_FALSE")
    OBVIOUS
<1>7. PICK jump : jump = Position(s)
    OBVIOUS
<1>8. /\ Standing(Now, s, Tail(Work), p, q) /\ jump \in Nat
      /\ Reaches(Current(s), jump, p.locals + 1, q)
      /\ Grown(Current(Now), Current(s)) /\ Current(s) \in Contexts
    BY <1>4, <1>5, <1>6, <1>7, ExitStands
<1>9. PICK loop \in Loops :
        /\ loop = [first EXCEPT !.exit = jump] /\ loop.exit = jump /\ loop.start = first.start
        /\ loop.saved = first.saved /\ loop.base = first.base
    BY <1>3, <1>8, LoopChanges
<1>10. PICK z \in Points : z.locals = p.locals /\ z.temps = 0 /\ z.path = p.path
    <2>1. 0 \in Int /\ 0 >= -1
        OBVIOUS
    <2> QED BY <2>1, PointBeside
<1>11. Below(p, z, -1)
    BY <1>5, <1>10 DEF Below, Live
<1>12. /\ Restarts(Current(s), first.start, z) /\ (Live(z) => Live(q)) /\ first.saved.break = 0
       /\ q.locals = first.base /\ q.temps = 0
    <2>1. "forExit" # "forCond" /\ (Live(z) => Live(p))
        BY <1>10 DEF Live
    <2> QED BY <1>1, <1>3, <1>4, <1>8, <1>10, <2>1, LoopStays
<1>13. PICK kind \in {"forIter", "forExit", "forBody", "forEnd"} : kind = "forIter"
    OBVIOUS
<1>14. /\ kind \in LoopTasks /\ kind \in ForTasks
       /\ <<Loop(kind, loop)>> \o Tail(Work) = Ahead(Loop(kind, loop), Tail(Work))
    BY <1>3, ForTasksAre
<1>15. LoopLeads(Current(s), kind, loop, z, q)
    <2>1. Reaches(Current(s), loop.exit, z.locals + 1, q)
        BY <1>8, <1>9, <1>10
    <2> QED BY <1>9, <1>10, <1>12, <1>13, <1>14, <2>1 DEF LoopLeads
<1>16. PICK v : v = Ahead(Loop(kind, loop), Tail(Work))
    OBVIOUS
<1>17. Standing(Now, s, v, p, z)
    BY <1>8, <1>14, <1>15, <1>16, LoopAhead
<1>18. Standing(Now, Emit(s, "POP", 0), v, z, z)
    BY <1>11, <1>17, StackOps, EmitBetween
<1>19. Continue(Emit(s, "POP", 0), <<Loop("forIter", loop)>>)
    BY <1>2, <1>6, <1>7, <1>9 DEF ForExit
<1> QED BY <1>3, <1>13, <1>14, <1>16, <1>18, <1>19, ContinueStacks

(* Behind a jump that is always taken there is no path.                    *)
LEMMA JumpDies ==
    ASSUME NEW s, Good(s), NEW op \in {"JUMP", "LOOP"}, NEW arg \in Int
    PROVE  Current(Emit(s, op, arg)).height = DEAD
<1>1. PICK name \in VariableNames : name = ""
    BY DEF VariableNames
<1>2. PICK t : t = EmitNamed(s, op, arg, name)
    OBVIOUS
<1>3. op \in Operations /\ op \in Diverts
    BY JumpOps
<1>4. OneMore(Current(s), Current(t), op, arg, name)
    BY <1>2, <1>3, EmitsOneMore DEF GoesOn
<1>5. Current(t).height = DEAD
    BY <1>3, <1>4 DEF OneMore, After
<1> QED BY <1>1, <1>2, <1>5 DEF Emit

(* The body of a for statement and what comes behind it.                   *)
LEMMA BodyStands ==
    ASSUME NEW b, NEW s, NEW w, NEW p, NEW q, Standing(b, s, w, p, q),
           NEW loop \in Loops, NEW z \in Points, z.temps = 0, Below(p, z, -p.temps),
           LoopLeads(Current(s), "forEnd", loop, z, q)
    PROVE  Standing(b, s, ForBody(loop) \o w, p, z)
<1>1. w \in Seq(Tasks)
    BY StandingIs
<1>2. PICK kind \in {"forIter", "forExit", "forBody", "forEnd"} : kind = "forEnd"
    OBVIOUS
<1>3. /\ kind \in LoopTasks
      /\ ForBody(loop) \o w = Ahead(Task("stat"), Ahead(Loop(kind, loop), w))
    BY <1>1, <1>2, ForTasksAre
<1>4. PICK v : v = Ahead(Loop(kind, loop), w)
    OBVIOUS
<1>5. Standing(b, s, v, p, z)
    BY <1>2, <1>3, <1>4, LoopAhead
<1>6. Below(z, z, 0)
    BY DEF Below
<1> QED BY <1>3, <1>4, <1>5, <1>6, StatAhead

(* Behind the jump over the iteration the stack is as high as before it.   *)
LEMMA OverStands ==
    ASSUME NEW b, NEW s, NEW w, NEW p, NEW q, Standing(b, s, w, p, q), p.temps = 0,
           Live(p) => Current(s).height = p.locals,
           NEW j, j = EmitJump(s, "JUMP"), NEW jump, jump = Position(j),
           NEW t, t = Update(j, [Current(j) EXCEPT !.height = Current(s).height]),
           NEW u, u = ContinueAt(t, jump)
    PROVE  /\ Standing(b, u, w, p, q) /\ jump \in Nat /\ jump # 0
           /\ Grown(Current(s), Current(u)) /\ Current(u) \in Contexts /\ Current(s) \in Contexts
           /\ \A y \in Points : y.locals = p.locals /\ (Live(y) <=> Live(p)) =>
                Reaches(Current(u), jump, y.locals, y) /\ Restarts(Current(u), jump, y)
<1>1. PICK c \in Contexts : c = Current(s)
    BY StandingIs
<1>2. /\ Len(c.code) \in Nat /\ c.height \in Int /\ p \in Points /\ p.locals \in Nat
      /\ c.height \in {DEAD, p.locals + p.temps} /\ (c.height # DEAD => Live(p))
    BY <1>1, StackTypes, StandingIs, PointTypes DEF Sits, Live
<1>3. /\ Standing(b, j, w, p, q) /\ jump = Len(c.code) + 1 /\ Grown(c, Current(j))
      /\ Len(Current(j).code) = Len(c.code) + 1
      /\ \A y : (Live(p) => Live(y)) =>
            Reaches(Current(j), Len(c.code) + 1, p.locals + p.temps, y)
    <2>1. PICK op \in {"JUMP", "JUMP_IF_FALSE"} : op = "JUMP"
        OBVIOUS
    <2>2. j = EmitJump(s, op)
        BY <2>1
    <2> QED BY <1>1, <1>2, <2>1, <2>2, JumpStands DEF Position
<1>4. PICK e \in Contexts : e = Current(j)
    BY <1>3, StandingIs
<1>5. Current(j).height = DEAD
    <2>1. Good(s)
        BY StandingIs
    <2>2. UNPATCHED \in Int
        BY JumpOps
    <2> QED BY <2>1, <2>2, JumpDies DEF EmitJump
<1>6. /\ Standing(b, t, w, p, q) /\ Current(t).height = c.height /\ Grown(e, Current(t))
      /\ Current(t).code = e.code
    <2>1. /\ Standing(b, t, w, p, q) /\ Current(t).height = c.height /\ Grown(e, Current(t))
        BY <1>1, <1>2, <1>3, <1>4, <1>5, ReheightStands
    <2>2. Good(j)
        BY <1>3, StandingIs
    <2>3. Current(t) = [e EXCEPT !.height = c.height]
        BY <1>1, <1>4, <2>2, UpdateIs
    <2>4. Current(t).code = e.code
        BY <2>3 DEF Contexts
    <2> QED BY <2>1, <2>4
<1>7. PICK f \in Contexts : f = Current(t)
    BY <1>6, StandingIs
<1>8. jump \in Nat /\ jump = Len(f.code)
    BY <1>2, <1>3, <1>4, <1>6, <1>7
<1>9. Standing(b, u, w, p, q) /\ SameCode(f, Current(u))
    <2>1. jump <= Len(Current(t).code)
        BY <1>7, <1>8
    <2> QED BY <1>6, <1>7, <1>8, <2>1, ContinuesStand
<1>10. PICK d \in Contexts : d = Current(u)
    BY <1>9, StandingIs
<1>11. Grown(c, d) /\ Grown(e, d)
    <2>1. Grown(f, d)
        BY <1>9, <1>10, SameCodeGrows
    <2>2. Grown(e, d)
        BY <1>6, <1>7, <2>1, GrownOn
    <2> QED BY <1>3, <1>4, <2>2, GrownOn
<1>12. ASSUME NEW y \in Points, y.locals = p.locals, Live(y) <=> Live(p)
       PROVE  Reaches(d, jump, y.locals, y) /\ Restarts(d, jump, y)
    <2>1. Reaches(e, jump, y.locals, y)
        <3>1. p.locals + p.temps = y.locals
            BY <1>2, <1>12
        <3> QED BY <1>3, <1>4, <1>12, <3>1
    <2>2. Reaches(d, jump, y.locals, y)
        BY <1>11, <2>1, ReachesOn
    <2>3. Live(y) => f.height = y.locals
        BY <1>1, <1>6, <1>7, <1>12
    <2>4. Restarts(d, jump, y)
        BY <1>8, <1>9, <1>10, <2>3, RestartsHere
    <2> QED BY <2>2, <2>4
<1> QED BY <1>1, <1>2, <1>3, <1>8, <1>9, <1>10, <1>11, <1>12

LEMMA ForIterationStacks ==
    ASSUME Balancing, ForIteration
    PROVE  Stacked'
<1>1. Doing("forIter") /\ "forIter" \in LoopTasks /\ "forIter" \in ForTasks
    BY DEF ForIteration, LoopTasks, ForTasks
<1>2. PICK first : first = Head(Work).loop
    OBVIOUS
<1>3. /\ todo # <<>> /\ Tail(Work) \in Seq(Tasks) /\ first \in Loops /\ Current(Now) \in Contexts
    BY <1>1, <1>2, LoopPoints
<1>4. PICK p, q \in Points :
        Standing(Now, Now, Tail(Work), p, q) /\ LoopLeads(Current(Now), "forIter", first, p, q)
    BY <1>1, <1>2, LoopPoints
<1>5. p.temps = 0 /\ q.temps = 0 /\ q.locals = first.base /\ (Live(p) => Live(q))
    BY <1>1, <1>4 DEF LoopLeads
<1>6. CASE Continue(Enclose(Now, 1), ForBody(first))
    <2>1. LoopLeads(Current(Now), "forEnd", first, p, q)
        BY <1>1, <1>4 DEF LoopLeads, ForTasks
    <2>2. Below(p, p, -p.temps)
        BY <1>5 DEF Below
    <2>3. PICK v : v = ForBody(first) \o Tail(Work)
        OBVIOUS
    <2>4. Standing(Now, Now, v, p, p)
        BY <1>3, <1>4, <1>5, <2>1, <2>2, <2>3, BodyStands
    <2>5. Standing(Now, Enclose(Now, 1), v, p, p)
        BY <2>4, EnclosesOneStands
    <2> QED BY <1>3, <1>6, <2>3, <2>5, ContinueStacks
<1>7. PICK s : s = EmitJump(Now, "JUMP")
    OBVIOUS
<1>8. PICK jump : jump = Position(s)
    OBVIOUS
<1>9. PICK t : t = Update(s, [Current(s) EXCEPT !.height = Current(Now).height])
    OBVIOUS
<1>10. PICK u : u = ContinueAt(t, jump)
    OBVIOUS
<1>11. PICK loop : loop = [first EXCEPT !.body = jump]
    OBVIOUS
<1>12. CASE Continue(u, <<Expr, Loop("forBody", loop)>>)
    <2>1. PICK x \in Points :
            /\ Standing(Now, Now, Tail(Work), x, q) /\ x.locals = p.locals /\ x.temps = 0
            /\ (Live(x) => Live(p)) /\ (Live(x) => Current(Now).height = p.locals + p.temps)
        BY <1>4, <1>5, LowerStands
    <2>2. Live(x) => Current(Now).height = x.locals
        BY <1>5, <2>1, PointTypes
    <2>3. /\ Standing(Now, u, Tail(Work), x, q) /\ jump \in Nat
          /\ Grown(Current(Now), Current(u)) /\ Current(u) \in Contexts
          /\ \A y \in Points : y.locals = x.locals /\ (Live(y) <=> Live(x)) =>
                Reaches(Current(u), jump, y.locals, y) /\ Restarts(Current(u), jump, y)
        BY <1>7, <1>8, <1>9, <1>10, <2>1, <2>2, OverStands
    <2>4. /\ loop \in Loops /\ loop.body = jump /\ loop.exit = first.exit
          /\ loop.start = first.start /\ loop.saved = first.saved /\ loop.base = first.base
        BY <1>3, <1>11, <2>3, LoopChanges
    <2>5. PICK y \in Points : y.locals = x.locals /\ y.temps = 1 /\ y.path = x.path
        <3>1. 1 \in Int /\ 1 >= -1
            OBVIOUS
        <3> QED BY <3>1, PointBeside
    <2>6. Below(x, y, 1) /\ (Live(y) <=> Live(x))
        BY <2>1, <2>5 DEF Below, Live
    <2>7. /\ first.exit # NONE => Reaches(Current(u), first.exit, y.locals + 1, q)
          /\ Restarts(Current(u), first.start, y) /\ (Live(y) => Live(q))
          /\ first.saved.break = 0 /\ q.locals = first.base /\ q.temps = 0
        <3>1. "forIter" # "forCond" /\ y.locals = p.locals /\ (Live(y) => Live(p))
            BY <2>1, <2>5, <2>6
        <3> QED BY <1>1, <1>3, <1>4, <2>3, <3>1, LoopStays
    <2>8. Reaches(Current(u), jump, y.locals, y) /\ Restarts(Current(u), jump, y)
        BY <2>3, <2>5, <2>6
    <2>9. PICK kind \in {"forIter", "forExit", "forBody", "forEnd"} : kind = "forBody"
        OBVIOUS
    <2>10. /\ kind \in LoopTasks /\ kind \in ForTasks
           /\ <<Expr, Loop(kind, loop)>> \o Tail(Work) = Ahead(Expr, Ahead(Loop(kind, loop), Tail(Work)))
        BY <1>3, <2>4, ForTasksAre
    <2>11. LoopLeads(Current(u), kind, loop, y, q)
        BY <2>4, <2>5, <2>7, <2>8, <2>9, <2>10 DEF LoopLeads
    <2>12. PICK v : v = Ahead(Loop(kind, loop), Tail(Work))
        OBVIOUS
    <2>13. Standing(Now, u, v, x, y)
        BY <2>3, <2>4, <2>10, <2>11, <2>12, LoopAhead
    <2>14. Standing(Now, u, Ahead(Expr, v), x, x)
        BY <2>6, <2>13, ValueAhead
    <2> QED BY <1>3, <1>12, <2>9, <2>10, <2>12, <2>14, ContinueStacks
<1>13. \/ Continue(Enclose(Now, 1), ForBody(first))
       \/ Continue(u, <<Expr, Loop("forBody", loop)>>)
    BY <1>2, <1>7, <1>8, <1>9, <1>10, <1>11 DEF ForIteration
<1> QED BY <1>6, <1>12, <1>13

LEMMA ForIteratedStacks ==
    ASSUME Balancing, ForIterated
    PROVE  Stacked'
<1>1. Doing("forBody") /\ "forBody" \in LoopTasks /\ "forBody" \in ForTasks
    BY DEF ForIterated, LoopTasks, ForTasks
<1>2. PICK first : first = Head(Work).loop
    OBVIOUS
<1>3. /\ todo # <<>> /\ Tail(Work) \in Seq(Tasks) /\ first \in Loops /\ Current(Now) \in Contexts
    BY <1>1, <1>2, LoopPoints
<1>4. PICK p, q \in Points :
        Standing(Now, Now, Tail(Work), p, q) /\ LoopLeads(Current(Now), "forBody", first, p, q)
    BY <1>1, <1>2, LoopPoints
<1>5. /\ p.temps = 1 /\ q.temps = 0 /\ q.locals = first.base /\ (Live(p) => Live(q))
      /\ Reaches(Current(Now), first.body, p.locals, p) /\ Restarts(Current(Now), first.body, p)
      /\ Restarts(Current(Now), first.start, p) /\ p.locals \in Nat
    BY <1>1, <1>4, PointTypes DEF LoopLeads
<1>6. PICK body \in Nat, start \in Nat : body = first.body /\ start = first.start
    BY <1>3 DEF Loops
<1>7. PICK loop \in Loops :
        /\ loop = [first EXCEPT !.start = body] /\ loop.start = body /\ loop.exit = first.exit
        /\ loop.saved = first.saved /\ loop.base = first.base
    BY <1>3, <1>6, LoopChanges
<1>8. PICK z \in Points : z.locals = p.locals /\ z.temps = 0 /\ z.path = p.path
    <2>1. 0 \in Int /\ 0 >= -1
        OBVIOUS
    <2> QED BY <2>1, PointBeside
<1>9. Below(p, z, -1) /\ Below(p, z, -p.temps) /\ (Live(z) <=> Live(p))
    BY <1>5, <1>8 DEF Below, Live
<1>10. /\ first.exit # NONE => Reaches(Current(Now), first.exit, z.locals + 1, q)
       /\ (Live(z) => Live(q)) /\ first.saved.break = 0
    BY <1>4, <1>8, <1>9 DEF LoopLeads
<1>11. LoopLeads(Current(Now), "forEnd", loop, z, q)
    <2>1. Restarts(Current(Now), body, z)
        BY <1>5, <1>6, <1>8, <1>9 DEF Restarts, Live
    <2>2. "forEnd" \in ForTasks
        BY DEF ForTasks
    <2> QED BY <1>5, <1>7, <1>8, <1>10, <2>1, <2>2 DEF LoopLeads
<1>12. PICK v : v = ForBody(loop) \o Tail(Work)
    OBVIOUS
<1>13. Standing(Now, Now, v, p, z)
    BY <1>4, <1>8, <1>9, <1>11, <1>12, BodyStands
<1>14. PICK s : s = Emit(Now, "POP", 0)
    OBVIOUS
<1>15. Standing(Now, s, v, z, z)
    BY <1>9, <1>13, <1>14, StackOps, EmitBetween
<1>16. Good(Now) /\ Good(s)
    BY <1>4, <1>15, StandingIs
<1>17. Grown(Current(Now), Current(s)) /\ Current(s) \in Contexts
    <2>1. "POP" \in Operations /\ 0 \in Int
        BY StackOps DEF PlainOperations
    <2> QED BY <1>14, <1>16, <2>1, EmitGrows
<1>18. Restarts(Current(s), start, z) /\ Reaches(Current(s), body, z.locals, z)
    <2>1. Restarts(Current(s), start, p)
        BY <1>3, <1>5, <1>6, <1>17, RestartsOn
    <2>2. Reaches(Current(s), body, p.locals, p)
        BY <1>3, <1>5, <1>6, <1>17, ReachesOn
    <2> QED BY <1>8, <1>9, <2>1, <2>2 DEF Restarts, Reaches, Live
<1>19. PICK t : t = EmitLoop(s, start)
    OBVIOUS
<1>20. Standing(Now, t, v, z, z)
    BY <1>8, <1>15, <1>18, <1>19, LoopStands
<1>21. Reaches(Current(t), body, z.locals, z)
    <2>1. "LOOP" \in Operations /\ start \in Int
        BY <1>6, JumpOps
    <2>2. Grown(Current(s), Current(t)) /\ Current(t) \in Contexts
        BY <1>16, <1>19, <2>1, EmitGrows DEF EmitLoop
    <2> QED BY <1>17, <1>18, <2>2, ReachesOn
<1>22. PICK u : u = PatchJump(t, body)
    OBVIOUS
<1>23. Standing(Now, u, v, z, z)
    <2>1. Reaches(Current(t), body, z.locals + z.temps, z)
        BY <1>5, <1>8, <1>21
    <2> QED BY <1>8, <1>20, <1>22, <2>1, PatchStands
<1>24. Standing(Now, Enclose(u, 1), v, z, z)
    BY <1>23, EnclosesOneStands
<1>25. Continue(Enclose(u, 1), ForBody(loop))
    BY <1>2, <1>6, <1>7, <1>14, <1>19, <1>22 DEF ForIterated
<1> QED BY <1>3, <1>12, <1>24, <1>25, ContinueStacks

LEMMA ForEndStacks ==
    ASSUME Balancing, ForEnd
    PROVE  Stacked'
<1>1. /\ Doing("forEnd") /\ "forEnd" \in LoopTasks /\ "forEnd" \in ForTasks
      /\ "forEnd" \in LoopEnds /\ "forEnd" \notin ExprTasks /\ "forEnd" # "define"
    BY DEF ForEnd, LoopTasks, ForTasks, LoopEnds, ExprTasks
<1>2. PICK loop : loop = Head(Work).loop
    OBVIOUS
<1>3. PICK h : h = Work[1]
    OBVIOUS
<1>4. /\ todo # <<>> /\ <<>> \o Tail(Work) = Tail(Work) /\ LoopFits(Current(Now), loop)
      /\ Current(Now).enclosing_loop > 0 /\ h \in ScopeTasks /\ Base(h) = loop.base
    BY <1>1, <1>2, <1>3, LoopPoints
<1>5. PICK p, q \in Points :
        Standing(Now, Now, Tail(Work), p, q) /\ LoopLeads(Current(Now), "forEnd", loop, p, q)
    BY <1>1, <1>2, LoopPoints
<1>6. /\ p.temps = 0 /\ q.temps = 0 /\ q.locals = loop.base /\ (Live(p) => Live(q))
      /\ loop.saved.break = 0 /\ Restarts(Current(Now), loop.start, p)
      /\ loop.exit # NONE => Reaches(Current(Now), loop.exit, p.locals + 1, q)
      /\ p.locals \in Nat /\ q.path \in {"live", "dead"}
    BY <1>1, <1>5, PointTypes DEF LoopLeads
<1>7. PICK e \in Points : e.locals = p.locals /\ e.temps = 0 /\ e.path = q.path
    <2>1. 0 \in Int /\ 0 >= -1
        OBVIOUS
    <2> QED BY <1>6, <2>1, SomePoint
<1>8. PICK s : s = CloseLoop(Now, loop)
    OBVIOUS
<1>9. Standing(Now, s, Tail(Work), e, q)
    <2>1. Live(p) => Live(e)
        BY <1>6, <1>7 DEF Live
    <2>2. loop.exit # NONE => Reaches(Current(Now), loop.exit, p.locals + 1, e)
        BY <1>6, <1>7 DEF Reaches
    <2> QED BY <1>4, <1>5, <1>6, <1>7, <1>8, <2>1, <2>2, CloseLoopStands
<1>10. Calm(Now, s)
    <2>1. /\ Good(Now) /\ Head(Work) = h /\ LoopLands(Current(Now), h.loop)
          /\ AtBreak(Current(Now))
        BY <1>1, <1>3, LoopGoesOn DEF Balancing
    <2> QED BY <1>2, <1>4, <1>8, <2>1, ClosesCalm
<1>11. PICK base : base = loop.base
    OBVIOUS
<1>12. Standing(Now, EndScope(s, base), Tail(Work), q, q)
    <2>1. Live(e) => Live(q)
        BY <1>7 DEF Live
    <2> QED BY <1>1, <1>3, <1>4, <1>6, <1>7, <1>9, <1>10, <1>11, <2>1, ClosingStands
<1>13. Continue(EndScope(s, base), <<>>)
    BY <1>2, <1>8, <1>11 DEF ForEnd
<1> QED BY <1>4, <1>12, <1>13, ContinueStacks

(* A variable is read.                                                     *)
LEMMA ReadBetween ==
    ASSUME NEW b, NEW s, NEW w, NEW p, NEW q, Standing(b, s, w, p, q),
           NEW name \in VariableNames, NEW x, Below(p, x, 1), NEW t, t = NamedVariable(s, name, FALSE)
    PROVE  Standing(b, t, w, x, q)
<1>1. PICK no \in BOOLEAN : no = FALSE
    OBVIOUS
<1>2. /\ x \in Points /\ x.locals = p.locals /\ x.temps = p.temps + (IF no THEN 0 ELSE 1)
      /\ (Live(p) => Live(x))
    BY <1>1 DEF Below
<1>3. Standing(b, NamedVariable(s, name, no), w, x, q)
    BY <1>2, LookStands
<1> QED BY <1>1, <1>3

(* A class is made and its name defined.                                   *)
LEMMA ClassStands ==
    ASSUME NEW b, NEW s, NEW w, NEW p, NEW e, Standing(b, s, w, p, e),
           NEW c, c = Current(s), NEW v, NEW y, Declared(c, p, v), Below(v, y, 1), Settles(c, y, e),
           NEW x \in Names, NEW t, t = DeclareVariable(s, x), t.error = NoError,
           NEW made, made = Emit(t, "CLASS", 0)
    PROVE  Standing(b, DefineVariable(made, x), w, e, e)
<1>1. x \in VariableNames
    BY DEF VariableNames
<1>2. /\ Standing(b, made, w, y, e) /\ CanDefine(Current(t)) /\ Good(t)
      /\ Current(t).scopeDepth = c.scopeDepth
    BY DeclaredStands
<1>3. "CLASS" \in Operations /\ 0 \in Int
    BY StackOps DEF PlainOperations
<1>4. CanDefine(Current(made)) /\ Current(made).scopeDepth = c.scopeDepth
    BY <1>2, <1>3, EmitKeeps
<1>5. Settles(Current(made), y, e)
    BY <1>4 DEF Settles
<1> QED BY <1>1, <1>2, <1>4, <1>5, DefineStands

(* Behind a superclass: it becomes a local, and the class inherits from it.*)
LEMMA InheritStands ==
    ASSUME NEW b, NEW s, NEW w, NEW e, Standing(b, s, w, e, e), e.temps = 0, ~Has(w, "define"),
           NEW x \in VariableNames, NEW y \in VariableNames,
           NEW super, super = BeginScope(NamedVariable(s, y, FALSE)),
           NEW added, added = AddLocal(super, "super"), added.error = NoError,
           NEW f, f = NamedVariable(MarkInitialized(added), x, FALSE)
    PROVE  \E z \in Points :
            /\ z.locals = e.locals + 1 /\ z.temps = 0 /\ z.path = e.path
            /\ Standing(b, Emit(f, "INHERIT", 0), w, z, e)
<1>1. e \in Points /\ e.locals \in Nat /\ e.locals + 1 \in Nat /\ e.path \in {"live", "dead"}
    BY StandingIs, PointTypes
<1>2. PICK g \in Points : g.locals = e.locals /\ g.temps = 1 /\ g.path = e.path
    <2>1. 1 \in Int /\ 1 >= -1
        OBVIOUS
    <2> QED BY <1>1, <2>1, PointBeside
<1>3. PICK z \in Points : z.locals = e.locals + 1 /\ z.temps = 0 /\ z.path = e.path
    <2>1. 0 \in Int /\ 0 >= -1
        OBVIOUS
    <2> QED BY <1>1, <2>1, SomePoint
<1>4. PICK h \in Points : h.locals = z.locals /\ h.temps = 1 /\ h.path = z.path
    <2>1. 1 \in Int /\ 1 >= -1
        OBVIOUS
    <2> QED BY <1>3, <2>1, PointBeside
<1>5. PICK n : n = NamedVariable(s, y, FALSE)
    OBVIOUS
<1>6. Standing(b, n, w, g, e)
    <2>1. Below(e, g, 1)
        BY <1>1, <1>2 DEF Below, Live
    <2> QED BY <1>5, <2>1, ReadBetween
<1>7. Standing(b, super, w, g, e)
    BY <1>5, <1>6, BeginScopeStands
<1>8. PICK name \in VariableNames : name = "super"
    BY DEF VariableNames
<1>9. Standing(b, added, w, z, e)
    <2>1. z.locals = g.locals + 1 /\ z.temps = g.temps - 1 /\ (Live(g) => Live(z))
        BY <1>1, <1>2, <1>3 DEF Live
    <2> QED BY <1>7, <1>8, <2>1, AddStands
<1>10. CanDefine(Current(added))
    <2>1. Good(super)
        BY <1>7, StandingIs
    <2> QED BY <1>8, <2>1, AddsSuper
<1>11. PICK scoped : scoped = MarkInitialized(added)
    OBVIOUS
<1>12. Standing(b, scoped, w, z, e)
    BY <1>9, <1>10, <1>11, MarkStands
<1>13. Standing(b, f, w, h, e)
    <2>1. Below(z, h, 1)
        BY <1>3, <1>4 DEF Below, Live
    <2> QED BY <1>11, <1>12, <2>1, ReadBetween
<1>14. Standing(b, Emit(f, "INHERIT", 0), w, z, e)
    <2>1. Below(h, z, -1)
        BY <1>3, <1>4 DEF Below, Live
    <2>2. PICK inherit \in PlainOperations : inherit = "INHERIT" /\ Effect(inherit, 0) = -1
        BY StackOps
    <2>3. 0 \in Int /\ -1 \in Int
        OBVIOUS
    <2>4. Standing(b, Emit(f, inherit, 0), w, z, e)
        BY <1>13, <2>1, <2>2, <2>3, EmitBetween
    <2> QED BY <2>2, <2>4
<1> QED BY <1>3, <1>14

(* The class is looked up again for its methods.                           *)
LEMMA MethodsStand ==
    ASSUME NEW b, NEW s, NEW w, NEW z, NEW e, Standing(b, s, w, z, e), e \in Points, z \in Points,
           e.temps = 0, z.temps = 0, z.path = e.path, NEW inherits \in BOOLEAN, NEW base \in Nat,
           e.locals = IF inherits THEN base ELSE z.locals,
           NEW x \in VariableNames, NEW t, t = NamedVariable(s, x, FALSE)
    PROVE  \E h \in Points : Standing(b, t, <<Task("methods"), Class(base, inherits)>> \o w, h, h)
<1>1. PICK h \in Points : h.locals = z.locals /\ h.temps = 1 /\ h.path = z.path
    <2>1. 1 \in Int /\ 1 >= -1
        OBVIOUS
    <2> QED BY <2>1, PointBeside
<1>2. Below(z, h, 1) /\ Below(h, h, 0) /\ (Live(h) => Live(e))
    BY <1>1 DEF Below, Live
<1>3. Standing(b, t, w, h, e)
    BY <1>2, ReadBetween
<1>4. PICK v : v = Ahead(Class(base, inherits), w)
    OBVIOUS
<1>5. Standing(b, t, v, h, h)
    BY <1>1, <1>2, <1>3, <1>4, ClassAhead
<1>6. Standing(b, t, Ahead(Task("methods"), v), h, h)
    BY <1>1, <1>2, <1>5, MethodsAhead
<1>7. <<Task("methods"), Class(base, inherits)>> \o w = Ahead(Task("methods"), v)
    <2>1. w \in Seq(Tasks) /\ Task("methods") \in Tasks
        BY StandingIs, DeclaringTasks
    <2>2. PICK class \in Tasks : class = Class(base, inherits)
        BY ClassTask
    <2>3. <<Task("methods"), class>> \o w = Ahead(Task("methods"), Ahead(class, w))
        BY <2>1, TwoInFront
    <2> QED BY <1>4, <2>2, <2>3
<1> QED BY <1>6, <1>7

(* What leads to a class has met no error when the class has met none.     *)
LEMMA ClassHeeds ==
    ASSUME NEW s, Judged(s), NEW x
    PROVE  /\ Heeds(s, DefineVariable(Emit(s, "CLASS", 0), x))
           /\ Heeds(s, BeginScope(NamedVariable(s, x, FALSE)))
           /\ Heeds(s, Emit(NamedVariable(MarkInitialized(s), x, FALSE), "INHERIT", 0))
<1>1. Heeds(s, DefineVariable(Emit(s, "CLASS", 0), x))
    <2>1. PICK t : t = Emit(s, "CLASS", 0)
        OBVIOUS
    <2>2. Heeds(s, t)
        BY <2>1, EmitHeeds
    <2>3. Heeds(t, DefineVariable(t, x))
        BY <2>2, DeclaresHeed DEF Heeds
    <2>4. Heeds(s, DefineVariable(t, x))
        BY <2>2, <2>3 DEF Heeds
    <2> QED BY <2>1, <2>4
<1>2. Heeds(s, BeginScope(NamedVariable(s, x, FALSE)))
    <2>1. PICK t : t = NamedVariable(s, x, FALSE)
        OBVIOUS
    <2>2. Heeds(s, t)
        BY <2>1, LookHeeds
    <2>3. Heeds(t, BeginScope(t))
        BY <2>2, ScopeHeeds DEF Heeds
    <2>4. Heeds(s, BeginScope(t))
        BY <2>2, <2>3 DEF Heeds
    <2> QED BY <2>1, <2>4
<1>3. Heeds(s, Emit(NamedVariable(MarkInitialized(s), x, FALSE), "INHERIT", 0))
    <2>1. PICK t : t = MarkInitialized(s)
        OBVIOUS
    <2>2. PICK u : u = NamedVariable(t, x, FALSE)
        OBVIOUS
    <2>3. Heeds(s, t)
        BY <2>1, DeclaresHeed
    <2>4. Heeds(t, u)
        BY <2>2, <2>3, LookHeeds DEF Heeds
    <2>5. Heeds(u, Emit(u, "INHERIT", 0))
        BY <2>4, EmitHeeds DEF Heeds
    <2>6. Heeds(s, Emit(u, "INHERIT", 0))
        BY <2>3, <2>4, <2>5 DEF Heeds
    <2> QED BY <2>1, <2>2, <2>6
<1> QED BY <1>1, <1>2, <1>3

LEMMA ClassDeclarationStacks ==
    ASSUME Balancing, ClassDeclaration, error' = NoError
    PROVE  Stacked'
<1>1. Doing("stats") /\ AtStatement /\ UNCHANGED functions
    BY BlockIsStatement DEF ClassDeclaration
<1>2. Rest = Work
    BY <1>1 DEF Rest
<1>3. PICK p \in Points : Standing(Now, Now, Work, p, p) /\ p.temps = 0
    BY <1>1, <1>2, StatementPoints
<1>4. /\ todo # <<>> /\ Work[1].k = "stats" /\ Pending(Current(Now), Work) /\ Work \in Seq(Tasks)
      /\ Current(Now) \in Contexts /\ Good(Now) /\ ~Has(Work, "define")
    <2>1. "stats" \notin ExprTasks /\ "stats" # "define"
        BY DEF ExprTasks
    <2>2. PICK r : r = Tail(Work)
        OBVIOUS
    <2> QED BY <1>1, <2>1, <2>2, TaskHeld, CurrentIsFine DEF Balancing
<1>5. PICK x \in Identifiers, inherits \in BOOLEAN :
        \E y \in IF inherits THEN Identifiers \ {x} ELSE {x} :
        LET declared == Emit(DeclareVariable(Now, x), "CLASS", 0)
            defined == DefineVariable(declared, x)
            super == BeginScope(NamedVariable(defined, y, FALSE))
            scoped == MarkInitialized(AddLocal(super, "super"))
            s == IF inherits THEN Emit(NamedVariable(scoped, x, FALSE), "INHERIT", 0) ELSE defined
        IN  Walk(NamedVariable(s, x, FALSE),
                 <<Task("methods"), Class(Visible(defined), inherits)>>, Work)
    BY DEF ClassDeclaration
<1>6. PICK y \in Identifiers :
        LET declared == Emit(DeclareVariable(Now, x), "CLASS", 0)
            defined == DefineVariable(declared, x)
            super == BeginScope(NamedVariable(defined, y, FALSE))
            scoped == MarkInitialized(AddLocal(super, "super"))
            s == IF inherits THEN Emit(NamedVariable(scoped, x, FALSE), "INHERIT", 0) ELSE defined
        IN  Walk(NamedVariable(s, x, FALSE),
                 <<Task("methods"), Class(Visible(defined), inherits)>>, Work)
    BY <1>5
<1>7. x \in Names /\ x \in VariableNames /\ y \in VariableNames
    BY FamilyBounds DEF Balancing
<1>8. PICK a : a = DeclareVariable(Now, x)
    OBVIOUS
<1>9. PICK defined : defined = DefineVariable(Emit(a, "CLASS", 0), x)
    OBVIOUS
<1>10. PICK super : super = BeginScope(NamedVariable(defined, y, FALSE))
    OBVIOUS
<1>11. PICK added : added = AddLocal(super, "super")
    OBVIOUS
<1>12. PICK g : g = NamedVariable(MarkInitialized(added), x, FALSE)
    OBVIOUS
<1>13. PICK f : f = Emit(g, "INHERIT", 0)
    OBVIOUS
<1>14. PICK s : s = IF inherits THEN f ELSE defined
    OBVIOUS
<1>15. PICK t : t = NamedVariable(s, x, FALSE)
    OBVIOUS
<1>16. PICK base : base = Visible(defined)
    OBVIOUS
<1>17. Walk(t, <<Task("methods"), Class(base, inherits)>>, Work)
    BY <1>6, <1>8, <1>9, <1>10, <1>11, <1>12, <1>13, <1>14, <1>15, <1>16
<1>18. Becomes(t) /\ t.error = NoError
    BY <1>17 DEF Walk, Becomes
<1>19. a.error = NoError /\ (inherits => added.error = NoError)
    <2>1. Judged(a)
        BY <1>8, NowHeeds, DeclaresHeed DEF Heeds
    <2>2. Heeds(a, defined)
        BY <1>9, <2>1, ClassHeeds
    <2>3. Heeds(defined, super)
        BY <1>10, <2>2, ClassHeeds DEF Heeds
    <2>4. Heeds(super, added)
        BY <1>11, <2>3, DeclaresHeed DEF Heeds
    <2>5. Heeds(added, f)
        <3>1. Judged(added) /\ f = Emit(NamedVariable(MarkInitialized(added), x, FALSE), "INHERIT", 0)
            BY <1>12, <1>13, <2>4 DEF Heeds
        <3> QED BY <3>1, ClassHeeds
    <2>6. Heeds(s, t)
        <3>1. Judged(s)
            BY <1>14, <2>2, <2>5 DEF Heeds
        <3> QED BY <1>15, <3>1, LookHeeds
    <2> QED BY <1>14, <1>18, <2>2, <2>3, <2>4, <2>5, <2>6 DEF Heeds
<1>20. PICK c \in Contexts : c = Current(Now)
    BY <1>4
<1>21. PICK v, u, e \in Points :
        /\ Declared(c, p, v) /\ Below(v, u, 1) /\ Settles(c, u, e) /\ e.temps = 0 /\ e.path = p.path
    BY <1>3, DeclarationPoints
<1>22. Standing(Now, Now, Work, p, e)
    BY <1>3, <1>4, <1>21, RoomierStands
<1>23. Standing(Now, defined, Work, e, e)
    <2>1. PICK made : made = Emit(a, "CLASS", 0)
        OBVIOUS
    <2>2. Standing(Now, DefineVariable(made, x), Work, e, e)
        BY <1>7, <1>8, <1>19, <1>20, <1>21, <1>22, <2>1, ClassStands
    <2> QED BY <1>9, <2>1, <2>2
<1>24. base \in Nat /\ base = e.locals
    BY <1>16, <1>21, <1>23, StandingIs, PointTypes DEF Visible
<1>25. \E z \in Points :
        /\ z.temps = 0 /\ z.path = e.path /\ e.locals = (IF inherits THEN base ELSE z.locals)
        /\ Standing(Now, s, Work, z, e)
    <2>1. CASE inherits
        <3>1. PICK z \in Points :
                /\ z.locals = e.locals + 1 /\ z.temps = 0 /\ z.path = e.path
                /\ Standing(Now, Emit(g, "INHERIT", 0), Work, z, e)
            BY <1>4, <1>7, <1>10, <1>11, <1>12, <1>19, <1>21, <1>23, <2>1, InheritStands
        <3> QED BY <1>13, <1>14, <1>24, <2>1, <3>1
    <2>2. CASE ~inherits
        BY <1>14, <1>21, <1>23, <2>2
    <2> QED BY <2>1, <2>2
<1>26. PICK z \in Points :
        /\ z.temps = 0 /\ z.path = e.path /\ e.locals = (IF inherits THEN base ELSE z.locals)
        /\ Standing(Now, s, Work, z, e)
    BY <1>25
<1>27. PICK w : w = <<Task("methods"), Class(base, inherits)>> \o Work
    OBVIOUS
<1>28. PICK h \in Points : Standing(Now, t, w, h, h)
    BY <1>7, <1>15, <1>21, <1>24, <1>26, <1>27, MethodsStand
<1>29. todo' = Append(Front(todo), w)
    BY <1>17, <1>27 DEF Walk
<1> QED BY <1>1, <1>4, <1>18, <1>28, <1>29, StackStep

LEMMA EndOfMethodsStacks ==
    ASSUME Balancing, EndOfMethods
    PROVE  Stacked'
<1>1. Doing("methods") /\ Continue(Now, <<>>)
    BY DEF EndOfMethods
<1>2. /\ todo # <<>> /\ Work[1].k = "methods" /\ Work[1] \in Tasks
      /\ <<>> \o Tail(Work) = Tail(Work)
    BY <1>1, TaskPoints
<1>3. Work[1] \notin ScopeTasks
    BY <1>2, NoScopes DEF ForTasks
<1>4. PICK p, q \in Points :
        Standing(Now, Now, Tail(Work), p, q) /\ Below(p, q, Gain(Current(Now), Work[1]))
    BY <1>1, <1>3, TaskPoints
<1>5. Gain(Current(Now), Work[1]) = 0
    BY <1>2 DEF Gain
<1>6. Standing(Now, Now, Tail(Work), q, q)
    BY <1>4, <1>5, ArrivesAt
<1> QED BY <1>1, <1>2, <1>6, ContinueStacks

LEMMA EndClassStacks ==
    ASSUME Balancing, EndClass
    PROVE  Stacked'
<1>1. /\ Doing("endClass") /\ "endClass" \notin ExprTasks /\ "endClass" # "define"
      /\ UNCHANGED functions
    BY DEF EndClass, ExprTasks
<1>2. /\ todo # <<>> /\ Head(Work) = Work[1] /\ Work[1].k = "endClass" /\ Work[1] \in Tasks
      /\ <<>> \o Tail(Work) = Tail(Work)
    BY <1>1, TaskPoints
<1>3. PICK h : h = Work[1]
    OBVIOUS
<1>4. PICK p, q \in Points :
        Standing(Now, Now, Tail(Work), p, q) /\ Leads(Current(Now), h, p, q)
    BY <1>1, <1>3, TaskPoints
<1>5. /\ h \in ScopeTasks <=> h.hasSuperclass
      /\ Base(h) = h.base
    <2>1. h \in ScopeTasks <=> h.hasSuperclass
        BY <1>2, <1>3 DEF ScopeTasks, ForTasks
    <2>2. h.k \notin LoopTasks
        BY <1>2, <1>3 DEF LoopTasks
    <2> QED BY <2>1, <2>2 DEF Base
<1>6. /\ q.temps = 0 /\ p.temps = 1 /\ (Live(p) => Live(q))
      /\ q.locals = IF h.hasSuperclass THEN h.base ELSE p.locals
    <2>1. Gain(Current(Now), h) = -1 /\ h.k \notin ExprTasks /\ h.k # "methods"
        BY <1>1, <1>2, <1>3 DEF Gain
    <2>2. /\ q.temps = 0 /\ q.temps = p.temps + Gain(Current(Now), h) /\ (Live(p) => Live(q))
          /\ q.locals = IF h \in ScopeTasks THEN Base(h) ELSE p.locals
        BY <1>4, <2>1 DEF Leads, Travels, Live
    <2>3. p.temps = 1
        BY <2>1, <2>2, PointTypes
    <2> QED BY <1>5, <2>2, <2>3
<1>7. PICK z \in Points : z.locals = p.locals /\ z.temps = 0 /\ z.path = p.path
    <2>1. 0 \in Int /\ 0 >= -1
        OBVIOUS
    <2> QED BY <2>1, PointBeside
<1>8. Below(p, z, -1) /\ (Live(z) => Live(q))
    BY <1>6, <1>7 DEF Below, Live
<1>9. PICK s : s = Emit(Now, "POP", 0)
    OBVIOUS
<1>10. Standing(Now, s, Tail(Work), z, q)
    BY <1>4, <1>8, <1>9, StackOps, EmitBetween
<1>11. PICK t : t = IF h.hasSuperclass THEN EndScope(s, h.base) ELSE s
    OBVIOUS
<1>12. Standing(Now, t, Tail(Work), q, q)
    <2>1. CASE h.hasSuperclass
        <3>1. Calm(Now, s)
            <4>1. Good(Now)
                BY <1>4, StandingIs
            <4>2. "POP" \in Operations /\ 0 \in Int /\ "POP" \notin LookUps
                BY StackOps DEF PlainOperations, LookUps, UpvalueOps, GlobalOps
            <4> QED BY <1>9, <4>1, <4>2, EmitsCalm
        <3>2. PICK base : base = Base(h)
            OBVIOUS
        <3>3. Standing(Now, EndScope(s, base), Tail(Work), q, q)
            BY <1>1, <1>3, <1>5, <1>6, <1>7, <1>8, <1>10, <2>1, <3>1, <3>2, ClosingStands
        <3> QED BY <1>5, <1>11, <2>1, <3>2, <3>3
    <2>2. CASE ~h.hasSuperclass
        <3>1. Below(z, q, 0)
            BY <1>6, <1>7, <1>8, <2>2 DEF Below
        <3> QED BY <1>10, <1>11, <2>2, <3>1, ArrivesAt
    <2> QED BY <2>1, <2>2
<1>13. Walk(t, <<>>, Tail(Work))
    BY <1>2, <1>3, <1>9, <1>11 DEF EndClass
<1>14. Becomes(t) /\ todo' = Append(Front(todo), Tail(Work))
    BY <1>2, <1>13 DEF Walk
<1> QED BY <1>1, <1>2, <1>12, <1>14, StackStep

-----------------------------------------------------------------------------
(* A function that begins: no code yet, a local for each parameter.        *)

(* s has i names more than b.                                              *)
Adding(b, s, i) ==
    /\ Good(s) /\ Current(s).scopeDepth = Current(b).scopeDepth
    /\ s.error = NoError =>
        /\ Current(s).code = Current(b).code
        /\ Len(Current(s).visible) = Len(Current(b).visible) + i

LEMMA AddsOne ==
    ASSUME NEW s, Good(s), NEW x \in VariableNames, NEW t, t = AddLocal(s, x), t.error = NoError
    PROVE  /\ Current(t).code = Current(s).code
           /\ Len(Current(t).visible) = Len(Current(s).visible) + 1
<1>1. PICK c \in Contexts : c = Current(s)
    BY CurrentIsFine
<1>2. PICK what : what = "Too many local variables"
    OBVIOUS
<1>3. CASE Len(c.locals) = UINT8_COUNT
    <2>1. PICK condition : condition = TRUE
        OBVIOUS
    <2>2. t = FailIf(s, condition, what)
        BY <1>1, <1>2, <1>3, <2>1 DEF AddLocal
    <2>3. t.error = IF s.error = NoError THEN what ELSE s.error
        BY <2>1, <2>2 DEF FailIf, Good, States
    <2> QED BY <1>2, <2>3 DEF NoError
<1>4. CASE Len(c.locals) # UINT8_COUNT
    <2>1. PICK locals : locals = Append(c.locals, [name |-> x, depth |-> -1, captured |-> FALSE])
        OBVIOUS
    <2>2. PICK visible : visible = Append(c.visible, x)
        OBVIOUS
    <2>3. PICK d : d = [c EXCEPT !.locals = locals, !.visible = visible]
        OBVIOUS
    <2>4. t = Update(s, d)
        BY <1>1, <1>4, <2>1, <2>2, <2>3 DEF AddLocal
    <2>5. Current(t) = d
        BY <2>4, UpdateIs
    <2>6. d.code = c.code /\ d.visible = visible
        BY <2>3 DEF Contexts
    <2>7. Len(visible) = Len(c.visible) + 1
        <3>1. c.visible \in Seq(VariableNames)
            BY ContextTypes
        <3> QED BY <2>2, <3>1, AppendProperties
    <2> QED BY <1>1, <2>5, <2>6, <2>7
<1> QED BY <1>3, <1>4

LEMMA MarksOnly ==
    ASSUME NEW s, Good(s), NEW t, t = MarkInitialized(s)
    PROVE  Current(t).code = Current(s).code /\ Current(t).visible = Current(s).visible
<1>1. PICK c \in Contexts : c = Current(s)
    BY CurrentIsFine
<1>2. CASE c.scopeDepth = 0
    BY <1>1, <1>2 DEF MarkInitialized
<1>3. CASE c.scopeDepth # 0
    <2>1. PICK d : d = [c EXCEPT !.locals[Len(c.locals)].depth = c.scopeDepth]
        OBVIOUS
    <2>2. t = Update(s, d)
        BY <1>1, <1>3, <2>1 DEF MarkInitialized
    <2>3. Current(t) = d
        BY <2>2, UpdateIs
    <2>4. d.code = c.code /\ d.visible = c.visible
        BY <2>1 DEF Contexts
    <2> QED BY <1>1, <2>3, <2>4
<1> QED BY <1>2, <1>3

LEMMA AddsParameter ==
    ASSUME NEW b, Good(b), Current(b).scopeDepth > 0, NEW i \in Nat, NEW s, Adding(b, s, i),
           NEW x \in VariableNames
    PROVE  Adding(b, DefineVariable(DeclareVariable(s, x), x), i + 1)
<1>1. PICK t : t = DeclareVariable(s, x)
    OBVIOUS
<1>2. PICK u : u = DefineVariable(t, x)
    OBVIOUS
<1>3. Good(s) /\ Current(s).scopeDepth = Current(b).scopeDepth /\ Current(s) \in Contexts
    BY CurrentIsFine DEF Adding
<1>4. GetsWider(s, t) /\ CanDefine(Current(t))
    BY <1>1, <1>3, DeclaresOne
<1>5. Good(t) /\ Current(t).scopeDepth = Current(s).scopeDepth
    BY <1>4 DEF GetsWider, Follows, Widens
<1>6. GetsWider(t, u)
    BY <1>2, <1>4, <1>5, Defines
<1>7. Good(u) /\ Current(u).scopeDepth = Current(t).scopeDepth
    BY <1>6 DEF GetsWider, Follows, Widens
<1>8. Current(b).scopeDepth \in Nat /\ Len(Current(b).visible) \in Nat
    <2>1. Current(b) \in Contexts
        BY CurrentIsFine
    <2> QED BY <2>1, StackTypes
<1>9. ASSUME u.error = NoError
      PROVE  /\ Current(u).code = Current(b).code
             /\ Len(Current(u).visible) = Len(Current(b).visible) + (i + 1)
    <2>1. Judged(s)
        BY <1>3 DEF Good, States, Judged
    <2>2. Heeds(s, t)
        BY <1>1, <2>1, DeclaresHeed
    <2>3. Heeds(t, u)
        BY <1>2, <2>2, DeclaresHeed DEF Heeds
    <2>4. t.error = NoError /\ s.error = NoError
        BY <1>9, <2>2, <2>3 DEF Heeds
    <2>5. PICK c : c = Current(s)
        OBVIOUS
    <2>6. PICK redeclared : redeclared =
            \E k \in 1..Len(c.locals) : InThisScope(c, k) /\ c.locals[k].name = x
        OBVIOUS
    <2>7. PICK what \in Errors : what = "Already a variable with this name"
        BY DEF Errors
    <2>8. PICK f : f = FailIf(s, redeclared, what)
        OBVIOUS
    <2>9. c.scopeDepth # 0
        BY <1>3, <1>8, <2>5
    <2>10. t = AddLocal(f, x)
        BY <1>1, <2>5, <2>6, <2>7, <2>8, <2>9 DEF DeclareVariable
    <2>11. Good(f) /\ Current(f) = c
        BY <1>3, <2>5, <2>8, FailedWidens
    <2>12. Current(t).code = c.code /\ Len(Current(t).visible) = Len(c.visible) + 1
        BY <2>4, <2>10, <2>11, AddsOne
    <2>13. u = MarkInitialized(t)
        BY <1>2, <1>3, <1>5 DEF DefineVariable
    <2>14. Current(u).code = Current(t).code /\ Current(u).visible = Current(t).visible
        BY <1>5, <2>13, MarksOnly
    <2>15. c.code = Current(b).code /\ Len(c.visible) = Len(Current(b).visible) + i
        BY <2>4, <2>5 DEF Adding
    <2>16. PICK l \in Nat : l = Len(Current(b).visible)
        BY <1>8
    <2>17. Len(Current(u).visible) = Len(c.visible) + 1 /\ Len(c.visible) = l + i
        BY <2>12, <2>14, <2>15, <2>16
    <2>18. Len(Current(u).visible) = l + (i + 1)
        BY <2>17
    <2> QED BY <2>12, <2>14, <2>15, <2>16, <2>18
<1> QED BY <1>1, <1>2, <1>3, <1>5, <1>7, <1>9 DEF Adding

LEMMA ParametersCount ==
    ASSUME NEW b, Good(b), Current(b).scopeDepth > 0, NEW n \in Nat,
           NEW parameters \in [1..n -> VariableNames],
           NEW declare, Unfolds(declare, b, parameters, n)
    PROVE  Adding(b, declare[n], n)
<1>1. PICK none \in Nat : none = 0
    OBVIOUS
<1>2. PICK h : h = [i \in 0..n |-> Adding(b, declare[i], i)]
    OBVIOUS
<1>3. h[none] \in {TRUE}
    <2>1. Len(Current(b).visible) \in Nat
        <3>1. Current(b) \in Contexts
            BY CurrentIsFine
        <3> QED BY <3>1, StackTypes
    <2>2. Len(Current(b).visible) = Len(Current(b).visible) + none
        BY <1>1, <2>1
    <2>3. Adding(b, b, none)
        BY <2>2 DEF Adding
    <2>4. declare[none] = b
        BY <1>1 DEF Unfolds
    <2>5. none \in 0..n
        BY <1>1
    <2> QED BY <1>2, <2>3, <2>4, <2>5
<1>4. ASSUME NEW i \in none + 1..n, h[i - 1] \in {TRUE}
      PROVE  h[i] \in {TRUE}
    <2>1. i \in 1..n /\ i \in 0..n /\ i - 1 \in 0..n /\ i - 1 \in Nat /\ i - 1 + 1 = i
        BY <1>1
    <2>2. PICK x \in VariableNames : x = parameters[i]
        BY <2>1
    <2>3. PICK s : s = declare[i - 1]
        OBVIOUS
    <2>4. PICK k \in Nat : k = i - 1 /\ k + 1 = i /\ k \in 0..n
        BY <2>1
    <2>5. Adding(b, s, k)
        BY <1>2, <1>4, <2>3, <2>4
    <2>6. Adding(b, DefineVariable(DeclareVariable(s, x), x), k + 1)
        BY <2>5, AddsParameter
    <2>7. declare[i] = DefineVariable(DeclareVariable(s, x), x)
        BY <2>1, <2>2, <2>3 DEF Unfolds
    <2>8. Adding(b, declare[i], i)
        BY <2>4, <2>6, <2>7
    <2> QED BY <1>2, <2>1, <2>8
<1>5. PICK S : S = {TRUE}
    OBVIOUS
<1>6. \A i \in none..n : h[i] \in S
    <2>1. \A i \in none + 1..n : h[i - 1] \in S => h[i] \in S
        BY <1>4, <1>5
    <2>2. h[none] \in S
        BY <1>3, <1>5
    <2> QED BY <2>1, <2>2, Upward
<1>7. n \in none..n /\ n \in 0..n
    BY <1>1
<1> QED BY <1>2, <1>5, <1>6, <1>7

LEMMA FunctionIsNew ==
    ASSUME NEW s, Good(s), NEW type \in FunctionTypes, NEW m \in Nat,
           NEW parameters \in [1..m -> VariableNames],
           NEW t, t = BeginFunction(s, type, parameters), t.error = NoError,
           NEW d, d = Current(t)
    PROVE  d.code = <<>> /\ d.height = m + 1 /\ Len(d.visible) = m + 1
<1>1. Len(parameters) = m
    BY FunctionIsSeq
<1>2. PICK a : a = InitCompiler(s, type)
    OBVIOUS
<1>3. PICK c : c = NewContext(type)
    OBVIOUS
<1>4. Good(a) /\ Current(a) = c
    BY <1>2, <1>3, ContextIsPushed
<1>5. c.code = <<>> /\ Len(c.visible) = 1 /\ c.scopeDepth = 0
    BY <1>3, NewContextHas, NewContextIsFine
<1>6. PICK b : b = BeginScope(a)
    OBVIOUS
<1>7. /\ Good(b) /\ Current(b).code = c.code /\ Current(b).visible = c.visible
      /\ Current(b).scopeDepth = c.scopeDepth + 1
    BY <1>4, <1>6, ScopeBegins DEF Follows
<1>8. PICK declare : declare = CHOOSE g : g = [i \in 0..m |->
                IF i = 0 THEN b
                ELSE DefineVariable(DeclareVariable(g[i - 1], parameters[i]), parameters[i])]
    OBVIOUS
<1>9. Unfolds(declare, b, parameters, m)
    <2>1. PICK T : T = {e \in States : Good(e)}
        OBVIOUS
    <2>2. b \in T
        BY <1>7, <2>1 DEF Good
    <2>3. ASSUME NEW e \in T, NEW x \in VariableNames,
                 NEW f, f = DeclareVariable(e, x), NEW u, u = DefineVariable(f, x)
          PROVE  u \in T
        <3>1. GetsWider(e, f) /\ CanDefine(Current(f))
            BY <2>1, <2>3, DeclaresOne
        <3>2. Good(f)
            BY <3>1 DEF GetsWider, Follows
        <3>3. GetsWider(f, u)
            BY <2>3, <3>1, <3>2, Defines
        <3> QED BY <2>1, <3>3 DEF GetsWider, Follows, Good
    <2>4. \A e \in T : \A x \in VariableNames : DefineVariable(DeclareVariable(e, x), x) \in T
        BY <2>3
    <2> QED BY <1>8, <2>2, <2>4, ParametersStay
<1>10. PICK e : e = declare[m]
    OBVIOUS
<1>11. Adding(b, e, m)
    <2>1. Current(b).scopeDepth > 0
        BY <1>5, <1>7
    <2> QED BY <1>7, <1>9, <1>10, <2>1, ParametersCount
<1>12. PICK h \in Contexts : h = Current(e) /\ Fine(h)
    BY <1>11, CurrentIsFine DEF Adding
<1>13. PICK height \in Int : height = m + 1
    OBVIOUS
<1>14. PICK k : k = [h EXCEPT !.arity = m, !.height = height]
    OBVIOUS
<1>15. t = Update(e, k)
    BY <1>1, <1>2, <1>6, <1>8, <1>10, <1>12, <1>13, <1>14 DEF BeginFunction
<1>16. k.code = h.code /\ k.visible = h.visible /\ k.height = height
    BY <1>14 DEF Contexts
<1>17. Current(t) = k /\ t.error = e.error
    <2>1. Good(e)
        BY <1>11 DEF Adding
    <2>2. Current(t) = k
        BY <1>15, <2>1, UpdateIs
    <2>3. t.error = e.error
        BY <1>15, <2>1 DEF Update, Good, States
    <2> QED BY <2>2, <2>3
<1>18. h.code = Current(b).code /\ Len(h.visible) = Len(Current(b).visible) + m
    BY <1>11, <1>12, <1>17 DEF Adding
<1>19. d.code = <<>> /\ d.height = m + 1
    BY <1>5, <1>7, <1>13, <1>16, <1>17, <1>18
<1>20. Len(d.visible) = 1 + m
    BY <1>5, <1>7, <1>16, <1>17, <1>18
<1> QED BY <1>19, <1>20

-----------------------------------------------------------------------------
(* The declaration of a function, and what it leaves to the others.        *)
LEMMA EndsLead ==
    ASSUME NEW c, NEW t \in Tasks, t.k \in {"stats", "endFunction"}, NEW x \in Points, x.temps = 0
    PROVE  Leads(c, t, x, x)
<1>1. t \notin ScopeTasks /\ t.k \notin LoopTasks /\ t.k \notin ExprTasks
    BY DEF ScopeTasks, ForTasks, LoopTasks, ExprTasks
<1>2. Gain(c, t) = 0
    BY DEF Gain
<1>3. Travels(c, t, x, x)
    BY <1>1, <1>2 DEF Travels
<1>4. Meets(c, t, x, x) /\ Repeats(c, t, x)
    BY <1>1 DEF Meets, Repeats
<1> QED BY <1>3, <1>4 DEF Leads

LEMMA NewIsBalanced ==
    ASSUME NEW d \in Contexts, NEW m \in Nat, d.code = <<>>, d.height = m + 1,
           Len(d.visible) = m + 1, d.last_break = 0,
           NEW e \in EndTasks, NEW tasks, tasks = <<Task("stats"), e>>
    PROVE  Balanced(d, tasks, 0)
<1>1. /\ tasks \in Seq(Tasks) /\ Len(tasks) = 2 /\ tasks[1] \in Tasks /\ tasks[2] \in Tasks
      /\ tasks[1].k = "stats" /\ tasks[2].k = "endFunction"
    <2>1. Len(tasks) = 2 /\ tasks[1] = Task("stats") /\ tasks[2] = e /\ tasks \in Seq(Tasks)
        BY WorkBegins
    <2> QED BY <2>1 DEF Task, Tasks, EndTasks
<1>2. PICK l \in Nat : l = m + 1
    OBVIOUS
<1>3. PICK x \in Points : x.locals = l /\ x.temps = 0 /\ x.path = "live"
    BY <1>2, PointIs
<1>4. JumpsMeet(d)
    <2>1. PICK code : code = d.code /\ code = <<>>
        OBVIOUS
    <2>2. \A i : i \notin 1..Len(code)
        BY <2>1
    <2> QED BY <2>1, <2>2 DEF JumpsMeet
<1>5. Sits(d, x)
    BY <1>2, <1>3 DEF Sits
<1>6. LeadsOn(d, tasks, x)
    <2>1. PICK at : at = [k \in 1..3 |-> x]
        OBVIOUS
    <2>2. at \in [1..Len(tasks) + 1 -> Points] /\ at[1] = x
        BY <1>1, <2>1
    <2>3. \A k \in 1..2 : k = 1 \/ k = 2
        OBVIOUS
    <2>4. \A k \in 1..Len(tasks) : Leads(d, tasks[k], at[k], at[k + 1])
        <3>1. Leads(d, tasks[1], x, x) /\ Leads(d, tasks[2], x, x)
            BY <1>1, <1>3, EndsLead
        <3>2. \A k \in 1..2 : at[k] = x /\ at[k + 1] = x
            BY <2>1
        <3> QED BY <1>1, <2>3, <3>1, <3>2
    <2>5. Blocks(tasks)
        <3>1. \A k \in 1..Len(tasks) - 1 : k = 1
            BY <1>1
        <3> QED BY <1>1, <3>1 DEF Blocks
    <2> QED BY <2>2, <2>4, <2>5 DEF LeadsOn
<1>7. Owing(x, 0) = x
    <2>1. x.temps - 0 = x.temps
        BY <1>3
    <2> QED BY <2>1 DEF Owing, Points
<1> QED BY <1>4, <1>5, <1>6, <1>7 DEF Balanced, Poised

LEMMA DescendStacks ==
    ASSUME Balancing, todo # <<>>, NEW s, Follows(Now, s),
           NEW owed, Balanced(Current(s), Work, owed),
           owed = IF Head(Work).k = "stats" /\ Current(s).scopeDepth > 0 THEN 1 ELSE 0,
           NEW type \in InnerTypes, NEW m \in Nat, NEW parameters \in [1..m -> VariableNames],
           NEW t, t = BeginFunction(s, type, parameters), t.error = NoError, NEW e \in EndTasks,
           NEW tasks, tasks = <<Task("stats"), e>>, Descend(t, tasks)
    PROVE  Stacked'
<1>1. PICK n \in Nat \ {0} : n = Len(contexts)
    BY AtWork DEF Balancing
<1>2. /\ Good(Now) /\ n \in 1..n /\ Len(todo) = n /\ todo \in Seq(Seq(Tasks))
      /\ Work = todo[n] /\ Now.contexts = contexts
    BY <1>1, AtWork DEF Balancing
<1>3. contexts' = t.contexts /\ todo' = Append(todo, tasks) /\ UNCHANGED functions
    BY DEF Descend, Becomes
<1>4. /\ Good(s) /\ Len(s.contexts) = n /\ Current(s) = s.contexts[n]
      /\ \A j \in 1..n - 1 : Alike(contexts[j], s.contexts[j])
    <2>1. /\ Good(s) /\ Len(s.contexts) = n
          /\ \A j \in 1..n - 1 : Alike(contexts[j], s.contexts[j])
        BY <1>1, <1>2 DEF Follows
    <2> QED BY <2>1, CurrentIsFine
<1>5. type \in FunctionTypes
    BY DEF InnerTypes
<1>6. PICK d : d = Current(t)
    OBVIOUS
<1>7. /\ Len(t.contexts) = n + 1 /\ d = t.contexts[n + 1] /\ Fine(d) /\ d.last_break = 0
    BY <1>4, <1>5, <1>6, FunctionBegins
<1>8. \A j \in 1..n : t.contexts[j] = s.contexts[j]
    BY <1>4, <1>5, <1>6, FunctionBegins, SMTT(30)
<1>9. d.code = <<>> /\ d.height = m + 1 /\ Len(d.visible) = m + 1
    BY <1>4, <1>5, <1>6, FunctionIsNew
<1>10. Balanced(d, tasks, 0)
    BY <1>7, <1>9, NewIsBalanced DEF Fine
<1>11. todo'[n + 1] = tasks /\ \A j \in 1..n : todo'[j] = todo[j]
    <2>1. PICK old \in Seq(Seq(Tasks)) : old = todo
        BY <1>2
    <2>2. PICK new : new = Append(old, tasks)
        OBVIOUS
    <2>3. tasks \in Seq(Tasks)
        BY WorkBegins
    <2>4. new[n + 1] = tasks /\ \A j \in 1..n : new[j] = old[j]
        BY <1>2, <2>1, <2>2, <2>3, AppendProperties
    <2> QED BY <1>3, <2>1, <2>2, <2>4
<1>12. Len(contexts') = n + 1
    BY <1>3, <1>7
<1>13. ASSUME NEW j \in 1..n - 1
       PROVE  Balanced(contexts'[j], todo'[j], Owed(j)')
    <2>1. PICK c : c = contexts[j]
        OBVIOUS
    <2>2. PICK f : f = contexts'[j]
        OBVIOUS
    <2>3. j \in 1..n /\ j < n /\ j < n + 1
        OBVIOUS
    <2>4. Alike(c, f) /\ f = s.contexts[j]
        BY <1>3, <1>4, <1>8, <2>1, <2>2, <2>3
    <2>5. Fine(c) /\ Fine(f)
        BY <1>1, <1>2, <1>4, <2>1, <2>3, <2>4 DEF Good
    <2>6. PICK owing : owing = Owed(j)
        OBVIOUS
    <2>7. Owed(j)' = owing
        BY <1>1, <1>11, <1>12, <2>1, <2>2, <2>3, <2>4, <2>6 DEF Owed, Alike, SameSettings
    <2>8. PICK w : w = todo[j]
        OBVIOUS
    <2>9. PICK q \in Points : Poised(c, w, Owing(q, owing), q)
        BY <1>1, <2>1, <2>3, <2>6, <2>8 DEF Balancing, Stacked, Balanced
    <2>10. Poised(f, w, Owing(q, owing), q)
        BY <2>4, <2>5, <2>9, AlikePoised DEF Fine
    <2> QED BY <1>11, <2>2, <2>3, <2>7, <2>8, <2>10 DEF Balanced
<1>14. Balanced(contexts'[n], todo'[n], Owed(n)')
    <2>1. contexts'[n] = Current(s) /\ todo'[n] = Work
        BY <1>2, <1>3, <1>4, <1>8, <1>11
    <2>2. n < n + 1
        OBVIOUS
    <2>3. Owed(n)' = owed
        BY <1>12, <2>1, <2>2 DEF Owed
    <2> QED BY <2>1, <2>3
<1>15. Balanced(contexts'[n + 1], todo'[n + 1], Owed(n + 1)')
    <2>1. contexts'[n + 1] = d
        BY <1>3, <1>7
    <2>2. Owed(n + 1)' = 0
        BY <1>12 DEF Owed
    <2> QED BY <1>10, <1>11, <2>1, <2>2
<1>16. \A j \in 1..n + 1 : j \in 1..n - 1 \/ j = n \/ j = n + 1
    OBVIOUS
<1>17. \A j \in 1..Len(contexts') : Balanced(contexts'[j], todo'[j], Owed(j)')
    BY <1>12, <1>13, <1>14, <1>15, <1>16
<1>18. \A j \in 1..Len(functions') : CodeMeets(functions'[j].code)
    BY <1>3 DEF Balancing, Stacked
<1> QED BY <1>17, <1>18 DEF Stacked

LEMMA FunDeclarationStacks ==
    ASSUME Balancing, FunDeclaration, error' = NoError
    PROVE  Stacked'
<1>1. Doing("stats") /\ AtStatement
    BY DEF FunDeclaration, AtStatement
<1>2. Rest = Work
    BY <1>1 DEF Rest
<1>3. PICK p \in Points : Standing(Now, Now, Work, p, p) /\ p.temps = 0
    BY <1>1, <1>2, StatementPoints
<1>4. /\ todo # <<>> /\ Head(Work) = Work[1] /\ Work[1].k = "stats"
      /\ Pending(Current(Now), Work) /\ Current(Now) \in Contexts /\ Good(Now)
      /\ ~Has(Work, "define")
    <2>1. "stats" \notin ExprTasks /\ "stats" # "define"
        BY DEF ExprTasks
    <2>2. PICK r : r = Tail(Work)
        OBVIOUS
    <2> QED BY <1>1, <2>1, <2>2, TaskHeld, TaskPoints, CurrentIsFine DEF Balancing
<1>5. PICK x \in Identifiers, parameters \in Parameters :
        Descend(BeginFunction(MarkInitialized(DeclareVariable(Now, x)), "function", parameters),
                <<Task("stats"), Function("function", x)>>)
    BY DEF FunDeclaration
<1>6. x \in Names /\ x \in VariableNames
    BY FamilyBounds DEF Balancing
<1>7. PICK r : r = DeclareVariable(Now, x)
    OBVIOUS
<1>8. PICK s : s = MarkInitialized(r)
    OBVIOUS
<1>9. PICK type : type = "function"
    OBVIOUS
<1>10. type \in InnerTypes /\ type \in FunctionTypes
    BY <1>9 DEF InnerTypes, FunctionTypes
<1>11. PICK m \in Nat : parameters \in [1..m -> VariableNames]
    BY ParametersAre DEF Balancing
<1>12. PICK e : e = Function("function", x)
    OBVIOUS
<1>13. e \in EndTasks
    BY <1>6, <1>12, EndTaskTypes
<1>14. PICK t : t = BeginFunction(s, type, parameters)
    OBVIOUS
<1>15. PICK tasks : tasks = <<Task("stats"), e>>
    OBVIOUS
<1>16. Descend(t, tasks)
    BY <1>5, <1>7, <1>8, <1>9, <1>12, <1>14, <1>15
<1>17. t.error = NoError
    BY <1>16 DEF Descend, Becomes
<1>18. Good(r) /\ CanDefine(Current(r)) /\ Current(r).scopeDepth = Current(Now).scopeDepth
    BY <1>4, <1>6, <1>7, DeclareKeeps
<1>19. GetsWider(r, s)
    BY <1>8, <1>18, MarksInitialized
<1>20. Good(s) /\ Current(s).scopeDepth = Current(Now).scopeDepth
    BY <1>18, <1>19 DEF GetsWider, Follows, Widens
<1>21. r.error = NoError
    <2>1. PICK n : n = Len(s.contexts)
        OBVIOUS
    <2>2. PICK d : d = Current(t)
        OBVIOUS
    <2>3. s.error = NoError
        BY <1>10, <1>11, <1>14, <1>17, <1>20, <2>1, <2>2, FunctionBegins
    <2>4. Judged(r)
        BY <1>18 DEF Good, States, Judged
    <2>5. Heeds(r, s)
        BY <1>8, <2>4, DeclaresHeed
    <2> QED BY <2>3, <2>5 DEF Heeds
<1>22. PICK c \in Contexts : c = Current(Now)
    BY <1>4
<1>23. PICK v, y, u \in Points :
        /\ Declared(c, p, v) /\ u.temps = 0 /\ u.path = p.path
        /\ u.locals = IF c.scopeDepth > 0 THEN p.locals + 1 ELSE p.locals
    BY <1>3, DeclarationPoints
<1>24. Standing(Now, Now, Work, p, u)
    BY <1>3, <1>4, <1>23, RoomierStands
<1>25. Standing(Now, r, Work, v, u)
    BY <1>6, <1>7, <1>21, <1>22, <1>23, <1>24, DeclareStands
<1>26. Standing(Now, s, Work, v, u)
    BY <1>8, <1>18, <1>25, MarkStands
<1>27. PICK owed \in {0, 1} :
        owed = IF Head(Work).k = "stats" /\ Current(s).scopeDepth > 0 THEN 1 ELSE 0
    OBVIOUS
<1>28. v = Owing(u, owed)
    <2>1. owed = IF c.scopeDepth > 0 THEN 1 ELSE 0
        BY <1>4, <1>20, <1>22, <1>27
    <2>2. c.scopeDepth \in Nat
        BY StackTypes
    <2>3. v.locals = u.locals /\ v.temps = u.temps - owed /\ v.path = u.path
        <3>1. CASE c.scopeDepth > 0
            BY <1>3, <1>23, <2>1, <3>1 DEF Declared
        <3>2. CASE ~(c.scopeDepth > 0)
            <4>1. c.scopeDepth = 0
                BY <2>2, <3>2
            <4> QED BY <1>3, <1>23, <2>1, <4>1 DEF Declared
        <3> QED BY <3>1, <3>2
    <2>4. PICK z : z = Owing(u, owed)
        OBVIOUS
    <2>5. z.locals = u.locals /\ z.temps = u.temps - owed /\ z.path = u.path /\ z \in Points
        BY <1>23, <1>27, <2>4 DEF Owing, Points
    <2> QED BY <1>23, <2>3, <2>4, <2>5, PointsEqual
<1>29. Balanced(Current(s), Work, owed)
    BY <1>26, <1>28 DEF Balanced, Standing
<1>30. Follows(Now, s)
    BY <1>26 DEF Standing
<1> QED BY <1>4, <1>10, <1>11, <1>13, <1>14, <1>15, <1>16, <1>17, <1>27, <1>29, <1>30, DescendStacks

LEMMA MethodStacks ==
    ASSUME Balancing, Method, error' = NoError
    PROVE  Stacked'
<1>1. Doing("methods")
    BY DEF Method
<1>2. /\ todo # <<>> /\ Head(Work) = Work[1] /\ Work[1].k = "methods" /\ Good(Now)
    BY <1>1, TaskPoints, AtWork DEF Balancing
<1>3. PICK type \in MethodTypes, parameters \in Parameters :
        Descend(BeginFunction(Now, type, parameters), <<Task("stats"), Function("method", "")>>)
    BY DEF Method, MethodTypes
<1>4. PICK s : s = Now
    OBVIOUS
<1>5. type \in InnerTypes
    BY <1>3 DEF InnerTypes, MethodTypes, FunctionTypes
<1>6. PICK m \in Nat : parameters \in [1..m -> VariableNames]
    BY <1>3, ParametersAre DEF Balancing
<1>7. PICK e : e = Function("method", "")
    OBVIOUS
<1>8. e \in EndTasks
    BY <1>7, EndTaskTypes
<1>9. PICK t : t = BeginFunction(s, type, parameters)
    OBVIOUS
<1>10. PICK tasks : tasks = <<Task("stats"), e>>
    OBVIOUS
<1>11. Descend(t, tasks)
    BY <1>3, <1>4, <1>7, <1>9, <1>10
<1>12. t.error = NoError
    BY <1>11 DEF Descend, Becomes
<1>13. PICK p \in Points : Standing(Now, Now, Work, p, p)
    BY <1>2, StackHead
<1>14. PICK owed : owed = 0
    OBVIOUS
<1>15. owed = IF Head(Work).k = "stats" /\ Current(s).scopeDepth > 0 THEN 1 ELSE 0
    BY <1>2, <1>14
<1>16. Owing(p, owed) = p
    <2>1. p.temps - 0 = p.temps
        BY PointTypes
    <2> QED BY <1>14, <2>1 DEF Owing, Points
<1>17. Balanced(Current(s), Work, owed) /\ Follows(Now, s)
    BY <1>4, <1>13, <1>16 DEF Balanced, Standing
<1> QED BY <1>2, <1>5, <1>6, <1>8, <1>9, <1>10, <1>11, <1>12, <1>15, <1>17, DescendStacks

-----------------------------------------------------------------------------
(* The end of a function.                                                  *)
LEMMA OwingIs ==
    ASSUME NEW q \in Points, NEW owed \in {0, 1}, NEW p, p = Owing(q, owed)
    PROVE  p.locals = q.locals /\ p.temps = q.temps - owed /\ p.path = q.path
BY DEF Owing, Points

LEMMA CodeIsMet ==
    ASSUME NEW c \in Contexts, JumpsMeet(c)
    PROVE  CodeMeets(c.code)
<1>1. PICK n \in Nat : n = Len(c.code)
    BY StackTypes
<1> SUFFICES ASSUME NEW i \in 1..n, IsJump(c.code[i]), c.code[i].h # DEAD,
                    c.code[i].arg + 1 \in 1..n
             PROVE  c.code[c.code[i].arg + 1].h = c.code[i].h
    BY <1>1 DEF CodeMeets
<1>2. PICK arg \in Int : arg = c.code[i].arg
    BY <1>1, StackTypes
<1>3. arg + 1 \in 1..n /\ arg < n /\ arg # UNPATCHED
    BY <1>2 DEF UNPATCHED
<1>4. HeightAt(c, arg) = c.code[i].h
    BY <1>1, <1>2, <1>3 DEF JumpsMeet
<1>5. HeightAt(c, arg) = c.code[arg + 1].h
    BY <1>1, <1>3 DEF HeightAt
<1> QED BY <1>2, <1>4, <1>5

LEMMA ClosureStands ==
    ASSUME NEW o, NEW w, NEW q \in Points, NEW owed \in {0, 1},
           Standing(o, o, w, Owing(q, owed), q), NEW at \in Nat,
           NEW made, made = Emit(o, "CLOSURE", at)
    PROVE  \E y \in Points : /\ y.locals = q.locals /\ y.temps = q.temps - owed + 1 /\ y.path = q.path
                             /\ Standing(o, made, w, y, q)
<1>1. PICK closure \in PlainOperations : closure = "CLOSURE" /\ Effect(closure, at) = 1
    <2>1. at \in Int
        OBVIOUS
    <2> QED BY <2>1, StackOps
<1>2. PICK p : p = Owing(q, owed)
    OBVIOUS
<1>3. p \in Points /\ p.locals = q.locals /\ p.temps = q.temps - owed /\ p.path = q.path
    <2>1. p \in Points
        BY <1>2, StandingIs
    <2> QED BY <1>2, <2>1, OwingIs
<1>4. p.temps + 1 \in Int /\ p.temps + 1 >= -1
    BY <1>3, PointTypes
<1>5. PICK y \in Points : y.locals = p.locals /\ y.temps = p.temps + 1 /\ y.path = p.path
    BY <1>3, <1>4, PointBeside
<1>6. PICK i \in Int : i = at
    OBVIOUS
<1>7. 1 \in Int /\ Effect(closure, i) \in Int /\ y.temps = p.temps + Effect(closure, i)
    BY <1>1, <1>5, <1>6
<1>8. Standing(o, o, w, p, q)
    BY <1>2
<1>9. Standing(o, Emit(o, closure, i), w, y, q)
    BY <1>5, <1>7, <1>8, EmitStands DEF Live
<1>10. y.temps = q.temps - owed + 1
    BY <1>3, <1>5
<1> QED BY <1>1, <1>3, <1>5, <1>6, <1>9, <1>10

LEMMA MethodStands ==
    ASSUME NEW o, NEW w, NEW q \in Points, Standing(o, o, w, Owing(q, 0), q), q.temps = 1,
           NEW at \in Nat, NEW made, made = Emit(o, "CLOSURE", at)
    PROVE  Standing(o, Emit(made, "METHOD", 0), w, q, q)
<1>1. PICK none \in {0, 1} : none = 0
    OBVIOUS
<1>2. PICK y \in Points : /\ y.locals = q.locals /\ y.temps = q.temps - none + 1 /\ y.path = q.path
                          /\ Standing(o, made, w, y, q)
    BY <1>1, ClosureStands
<1>3. PICK method \in PlainOperations : method = "METHOD" /\ Effect(method, 0) = -1
    BY StackOps
<1>4. 0 \in Int /\ Effect(method, 0) \in Int /\ q.temps = y.temps + Effect(method, 0)
    BY <1>1, <1>2, <1>3
<1>5. Standing(o, Emit(made, method, 0), w, q, q)
    BY <1>2, <1>4, EmitStands DEF Live
<1> QED BY <1>3, <1>5

LEMMA DefinedStands ==
    ASSUME NEW o, NEW w, NEW q \in Points, NEW owed \in {0, 1},
           Standing(o, o, w, Owing(q, owed), q), q.temps = 0, CanDefine(Current(o)),
           owed = IF Current(o).scopeDepth > 0 THEN 1 ELSE 0,
           NEW at \in Nat, NEW made, made = Emit(o, "CLOSURE", at), NEW x \in Names
    PROVE  Standing(o, DefineVariable(made, x), w, q, q)
<1>1. PICK y \in Points : /\ y.locals = q.locals /\ y.temps = q.temps - owed + 1 /\ y.path = q.path
                          /\ Standing(o, made, w, y, q)
    BY ClosureStands
<1>2. Good(o)
    BY DEF Standing
<1>3. PICK closure \in Operations : closure = "CLOSURE"
    BY DEF Operations, Pushes
<1>4. PICK i \in Int : i = at
    OBVIOUS
<1>5. made = Emit(o, closure, i)
    BY <1>3, <1>4
<1>6. CanDefine(Current(made)) /\ Current(made).scopeDepth = Current(o).scopeDepth
    BY <1>2, <1>5, EmitKeeps
<1>7. PICK c : c = Current(made)
    OBVIOUS
<1>8. Settles(c, y, q)
    BY <1>1, <1>6, <1>7 DEF Settles, Live
<1>9. x \in VariableNames
    BY DEF VariableNames
<1> QED BY <1>1, <1>6, <1>7, <1>8, <1>9, DefineStands

LEMMA AscendStacks ==
    ASSUME Balancing, todo # <<>>, NEW n \in Nat, n = Len(contexts), n > 1,
           NEW o, Good(o), o.contexts = Front(contexts),
           NEW t, Follows(o, t), Becomes(t), Balanced(Current(t), todo[n - 1], 0),
           todo' = Front(todo), \A j \in 1..Len(functions') : CodeMeets(functions'[j].code)
    PROVE  Stacked'
<1>1. /\ n \in 1..n /\ Len(todo) = n
      /\ contexts \in Seq(Contexts) /\ contexts # <<>> /\ todo \in Seq(Seq(Tasks))
    BY AtWork DEF Balancing
<1>2. contexts' = t.contexts
    BY DEF Becomes
<1>3. PICK m \in Nat \ {0} : m = n - 1
    OBVIOUS
<1>4. Len(o.contexts) = m /\ \A j \in 1..m : o.contexts[j] = contexts[j] /\ j \in 1..n
    BY <1>1, <1>3, FrontAndLast, ZenonT(30)
<1>5. \A j \in 1..m : todo'[j] = todo[j]
    <2>1. PICK old \in Seq(Seq(Tasks)) : old = todo
        BY <1>1
    <2>2. \A j \in 1..Len(old) - 1 : Front(old)[j] = old[j]
        <3>1. old # <<>>
            BY <2>1
        <3> QED BY <3>1, FrontAndLast
    <2>3. \A j \in 1..m : j \in 1..Len(old) - 1
        BY <1>1, <1>3, <2>1
    <2> QED BY <2>1, <2>2, <2>3
<1>6. /\ Good(t) /\ Len(t.contexts) = m
      /\ \A j \in 1..m - 1 : Alike(o.contexts[j], t.contexts[j])
    BY <1>4 DEF Follows
<1>7. Current(t) = t.contexts[m]
    BY <1>3, <1>6, CurrentIsFine
<1>8. ASSUME NEW j \in 1..m - 1
      PROVE  Balanced(contexts'[j], todo'[j], Owed(j)')
    <2>1. PICK c : c = contexts[j]
        OBVIOUS
    <2>2. PICK f : f = contexts'[j]
        OBVIOUS
    <2>3. j \in 1..m /\ j \in 1..n /\ j < n /\ j < m
        BY <1>3
    <2>4. Alike(c, f) /\ c = o.contexts[j] /\ f = t.contexts[j]
        BY <1>2, <1>4, <1>6, <2>1, <2>2, <2>3
    <2>5. Fine(c) /\ Fine(f)
        BY <1>4, <1>6, <2>3, <2>4 DEF Good
    <2>6. PICK owed : owed = Owed(j)
        OBVIOUS
    <2>7. Owed(j)' = owed
        BY <1>2, <1>5, <1>6, <2>1, <2>2, <2>3, <2>4, <2>6 DEF Owed, Alike, SameSettings
    <2>8. PICK w : w = todo[j]
        OBVIOUS
    <2>9. PICK q \in Points : Poised(c, w, Owing(q, owed), q)
        BY <2>1, <2>3, <2>6, <2>8 DEF Balancing, Stacked, Balanced
    <2>10. Poised(f, w, Owing(q, owed), q)
        BY <2>4, <2>5, <2>9, AlikePoised DEF Fine
    <2> QED BY <1>5, <2>2, <2>3, <2>7, <2>8, <2>10 DEF Balanced
<1>9. Balanced(contexts'[m], todo'[m], Owed(m)')
    <2>1. Owed(m)' = 0
        BY <1>2, <1>6 DEF Owed
    <2>2. contexts'[m] = Current(t) /\ todo'[m] = todo[n - 1]
        BY <1>2, <1>3, <1>5, <1>7
    <2> QED BY <2>1, <2>2
<1>10. \A j \in 1..m : j \in 1..m - 1 \/ j = m
    OBVIOUS
<1>11. \A j \in 1..Len(contexts') : Balanced(contexts'[j], todo'[j], Owed(j)')
    BY <1>2, <1>6, <1>8, <1>9, <1>10
<1> QED BY <1>11 DEF Stacked

LEMMA ReturnedIsMet ==
    ASSUME Balancing, EndFunction
    PROVE  \A j \in 1..Len(functions') : CodeMeets(functions'[j].code)
<1>1. Doing("endFunction")
    BY DEF EndFunction
<1>2. PICK s : s = EmitReturn(Now)
    OBVIOUS
<1>3. PICK c : c = Current(s)
    OBVIOUS
<1>4. PICK f : f = [type |-> c.type, arity |-> c.arity, upvalues |-> c.upvalues, code |-> c.code]
    OBVIOUS
<1>5. functions' = Append(functions, f)
    BY <1>2, <1>3, <1>4 DEF EndFunction
<1>6. PICK p, q \in Points :
        Standing(Now, Now, Tail(Work), p, q) /\ Leads(Current(Now), Work[1], p, q)
    BY <1>1, TaskPoints
<1>7. Work[1].k = "endFunction" /\ Work[1] \in Tasks
    BY <1>1, TaskPoints
<1>8. p.temps >= 0
    BY <1>6, <1>7, EndLeads
<1>9. Standing(Now, s, Tail(Work), p, q)
    BY <1>2, <1>6, <1>8, ReturnStands
<1>10. c \in Contexts /\ JumpsMeet(c)
    BY <1>3, <1>9, StandingIs
<1>11. CodeMeets(c.code)
    BY <1>10, CodeIsMet
<1>12. f \in Finished /\ f.code = c.code
    BY <1>4, <1>10, ContextTypes DEF Finished
<1>13. PICK old \in Seq(Finished) : old = functions
    BY DEF Balancing, Inv, Settings
<1>14. PICK k \in Nat : k = Len(old)
    BY LenProperties
<1>15. PICK new : new = Append(old, f)
    OBVIOUS
<1>16. Len(new) = k + 1 /\ new[k + 1] = f /\ \A j \in 1..k : new[j] = old[j]
    BY <1>12, <1>14, <1>15, AppendProperties
<1>17. \A j \in 1..k : CodeMeets(old[j].code)
    BY <1>13, <1>14 DEF Balancing, Stacked
<1>18. \A j \in 1..k + 1 : j \in 1..k \/ j = k + 1
    OBVIOUS
<1>19. \A j \in 1..Len(new) : CodeMeets(new[j].code)
    BY <1>11, <1>12, <1>16, <1>17, <1>18
<1> QED BY <1>5, <1>13, <1>15, <1>19

LEMMA EndFunctionStacks ==
    ASSUME Balancing, EndFunction
    PROVE  Stacked'
<1>1. PICK h : h = Work[1]
    OBVIOUS
<1>2. Doing("endFunction")
    BY DEF EndFunction
<1>3. /\ todo # <<>> /\ h \in Tasks /\ h.k = "endFunction" /\ Head(Work) = h /\ Last(Work) = h
    BY <1>1, <1>2, WorkEnds DEF Balancing
<1>4. PICK n \in Nat \ {0} : n = Len(contexts)
    BY <1>3, AtWork DEF Balancing
<1>5. /\ Good(Now) /\ n \in 1..n /\ Len(todo) = n /\ Work = todo[n]
      /\ contexts \in Seq(Contexts) /\ contexts # <<>> /\ Now.contexts = contexts
    BY <1>3, <1>4, AtWork DEF Balancing
<1>6. PICK s : s = EmitReturn(Now)
    OBVIOUS
<1>7. PICK o : o = [s EXCEPT !.contexts = Front(s.contexts)]
    OBVIOUS
<1>8. PICK made : made = Emit(o, "CLOSURE", Len(functions) + 1)
    OBVIOUS
<1>9. PICK t : t = CASE h.kind = "script" -> o
                     [] h.kind = "function" -> DefineVariable(made, h.name)
                     [] h.kind = "method" -> Emit(made, "METHOD", 0)
    OBVIOUS
<1>10. Becomes(t) /\ todo' = Front(todo)
    BY <1>3, <1>6, <1>7, <1>8, <1>9 DEF EndFunction
<1>11. /\ Good(s) /\ Front(s.contexts) = Front(contexts)
    BY <1>5, <1>6, Returns DEF GetsWider, Follows, Now
<1>12. s \in States
    BY <1>11 DEF Good
<1>13. PICK outer \in Seq(Contexts) : outer = Front(contexts)
    BY <1>5, FrontAndLast
<1>14. o \in States /\ o.contexts = outer
    BY <1>7, <1>11, <1>12, <1>13 DEF States
<1>15. /\ h.kind \in {"script", "function", "method"}
       /\ h.kind = "script" <=> n = 1
       /\ h.kind = "function" => CanDefine(contexts[n - 1]) /\ h.name \in Names
       /\ h.kind = "method" => Head(todo[n - 1]).k = "methods"
    <2>1. n \in 1..Len(contexts)
        BY <1>4, <1>5
    <2>2. /\ h.kind = "script" <=> n = 1
          /\ h.kind = "function" => CanDefine(contexts[n - 1]) /\ h.name \in Names
          /\ h.kind = "method" => Head(todo[n - 1]).k = "methods"
        BY <1>3, <1>5, <2>1 DEF Balancing, Inv, Inside
    <2> QED BY <1>3, <2>2, TaskTypes
<1>16. Len(outer) = n - 1 /\ \A j \in 1..n - 1 : outer[j] = contexts[j]
    <2>1. /\ Len(Front(contexts)) = Len(contexts) - 1
          /\ \A j \in 1..Len(contexts) - 1 : Front(contexts)[j] = contexts[j]
        BY <1>5, FrontAndLast
    <2> QED BY <1>4, <1>13, <2>1
<1>17. \A j \in 1..Len(functions') : CodeMeets(functions'[j].code)
    BY ReturnedIsMet
<1>18. CASE n = 1
    <2>1. t = o
        BY <1>9, <1>15, <1>18
    <2>2. Len(contexts') = 0
        BY <1>10, <1>14, <1>16, <1>18, <2>1 DEF Becomes
    <2>3. \A j \in 1..Len(contexts') : FALSE
        BY <2>2
    <2> QED BY <1>17, <2>3 DEF Stacked
<1>19. CASE n # 1
    <2>1. n > 1 /\ n - 1 \in 1..n - 1 /\ n - 1 \in Nat \ {0} /\ n - 1 \in 1..n /\ n - 1 < n
        BY <1>5, <1>19
    <2>2. Good(o)
        <3>1. outer # <<>>
            BY <1>13, <1>16, <2>1, EmptySeq
        <3>2. \A j \in 1..n : Fine(contexts[j])
            BY <1>4, <1>5 DEF Good
        <3>3. \A j \in 1..n - 1 : j \in 1..n
            BY <1>5
        <3>4. \A j \in 1..Len(outer) : Fine(outer[j])
            BY <1>16, <3>2, <3>3
        <3> QED BY <1>14, <3>1, <3>4 DEF Good
    <2>3. Current(o) = contexts[n - 1]
        <3>1. Current(o) = o.contexts[Len(o.contexts)]
            BY <2>2, CurrentIsFine
        <3> QED BY <1>14, <1>16, <2>1, <3>1
    <2>4. PICK at \in Nat : at = Len(functions) + 1
        <3>1. functions \in Seq(Finished)
            BY DEF Balancing, Inv, Settings
        <3>2. Len(functions) \in Nat
            BY <3>1, LenProperties
        <3> QED BY <3>2
    <2>5. made = Emit(o, "CLOSURE", at)
        BY <1>8, <2>4
    <2>6. PICK w : w = todo[n - 1]
        OBVIOUS
    <2>7. /\ Pending(Current(o), w) /\ w[1].k \in {"stats", "methods"}
          /\ h.kind = "function" => w[1].k = "stats"
        BY <1>3, <1>4, <2>1, <2>3, <2>6, OuterWaits DEF Balancing
    <2>8. w \in Seq(Tasks) /\ w # <<>>
        BY <2>7 DEF Pending
    <2>9. Head(w) = w[1]
        BY <2>8, TailOf
    <2>10. PICK owed \in {0, 1} : owed = Owed(n - 1)
        BY DEF Owed
    <2>11. owed = IF w[1].k = "stats" /\ Current(o).scopeDepth > 0 THEN 1 ELSE 0
        BY <1>4, <2>1, <2>3, <2>6, <2>9, <2>10 DEF Owed
    <2>12. PICK q \in Points : Poised(Current(o), w, Owing(q, owed), q)
        BY <1>4, <2>1, <2>3, <2>6, <2>10 DEF Balancing, Stacked, Balanced
    <2>13. Standing(o, o, w, Owing(q, owed), q)
        BY <2>2, <2>8, <2>12, FollowsSelf DEF Standing
    <2>14. PICK r \in Points : Leads(Current(o), w[1], q, r)
        BY <2>8, <2>12, HeadLeads DEF Poised
    <2>15. q.temps = IF w[1].k = "methods" THEN 1 ELSE 0
        <3>1. w[1].k \notin ExprTasks /\ Gain(Current(o), w[1]) = 0
            BY <2>7 DEF ExprTasks, Gain
        <3>2. r.temps = q.temps + 0 /\ r.temps = IF w[1].k = "methods" THEN 1 ELSE 0
            BY <2>14, <3>1 DEF Leads, Travels
        <3> QED BY <3>2, PointTypes
    <2>16. Standing(o, t, w, q, q)
        <3>1. CASE h.kind = "method"
            <4>1. w[1].k = "methods"
                BY <1>15, <2>6, <2>9, <3>1
            <4>2. owed = 0 /\ q.temps = 1
                BY <2>11, <2>15, <4>1
            <4>3. Standing(o, Emit(made, "METHOD", 0), w, q, q)
                BY <2>4, <2>5, <2>13, <4>2, MethodStands
            <4> QED BY <1>9, <3>1, <4>3
        <3>2. CASE h.kind = "function"
            <4>1. w[1].k = "stats" /\ q.temps = 0
                BY <2>7, <2>15, <3>2
            <4>2. owed = IF Current(o).scopeDepth > 0 THEN 1 ELSE 0
                BY <2>11, <4>1
            <4>3. PICK x \in Names : x = h.name
                BY <1>15, <3>2
            <4>4. CanDefine(Current(o))
                BY <1>15, <2>3, <3>2
            <4>5. Standing(o, DefineVariable(made, x), w, q, q)
                BY <2>4, <2>5, <2>13, <4>1, <4>2, <4>4, DefinedStands
            <4> QED BY <1>9, <3>2, <4>3, <4>5
        <3> QED BY <1>15, <1>19, <3>1, <3>2
    <2>17. Owing(q, 0) = q
        <3>1. q.temps - 0 = q.temps
            BY PointTypes
        <3> QED BY <3>1 DEF Owing, Points
    <2>18. Follows(o, t) /\ Balanced(Current(t), todo[n - 1], 0)
        BY <2>6, <2>16, <2>17 DEF Standing, Balanced
    <2>19. o.contexts = Front(contexts)
        BY <1>13, <1>14
    <2> QED BY <1>3, <1>4, <1>10, <1>17, <2>1, <2>2, <2>18, <2>19, AscendStacks
<1> QED BY <1>18, <1>19
-----------------------------------------------------------------------------
(* The theorems.                                                           *)

LEMMA InitStacked ==
    ASSUME Init
    PROVE  Stacked
<1>1. PICK script \in FunctionTypes : script = "script"
    BY DEF FunctionTypes
<1>2. PICK c : c = NewContext(script)
    OBVIOUS
<1>3. c \in Contexts /\ c.code = <<>> /\ c.last_break = 0
    BY <1>2, NewContextIsFine
<1>4. c.height = 1 /\ Len(c.visible) = 1
    <2>1. c.height = 1
        BY <1>2 DEF NewContext
    <2> QED BY <1>2, <2>1, NewContextHas
<1>5. PICK e : e = Function("script", "")
    OBVIOUS
<1>6. e \in EndTasks
    BY <1>5, EndTaskTypes
<1>7. PICK u : u = <<Task("stats"), e>>
    OBVIOUS
<1>8. u \in Seq(Tasks)
    BY <1>6, <1>7, WorkBegins
<1>9. contexts = <<c>> /\ todo = <<u>>
    BY <1>1, <1>2, <1>5, <1>7 DEF Init
<1>10. Len(contexts) = 1 /\ contexts[1] = c /\ \A j \in 1..Len(contexts) : j = 1
    BY <1>3, <1>9, OneElement
<1>11. todo[1] = u
    BY <1>8, <1>9, OneElement
<1>12. PICK m \in Nat : m = 0
    OBVIOUS
<1>13. c.height = m + 1 /\ Len(c.visible) = m + 1
    BY <1>4, <1>12
<1>14. Balanced(c, u, 0)
    BY <1>3, <1>6, <1>7, <1>13, NewIsBalanced
<1>15. Owed(1) = 0
    BY <1>10 DEF Owed
<1>16. \A j \in 1..Len(contexts) : Balanced(contexts[j], todo[j], Owed(j))
    BY <1>10, <1>11, <1>14, <1>15
<1>17. functions = <<>>
    BY Zenon DEF Init
<1>18. \A j \in 1..Len(functions) : FALSE
    BY <1>17
<1> QED BY <1>16, <1>18 DEF Stacked

LEMMA UnchangedStacked ==
    ASSUME Stacked, UNCHANGED vars
    PROVE  Stacked'
BY Zenon DEF Stacked, Owed, Orderly, Without, Syntax, vars

LEMMA NoJumpsInOrder ==
    ASSUME Balancing
    PROVE  ~BreakStatement /\ ~ContinueStatement
<1>1. "break" \notin Syntax /\ "continue" \notin Syntax
    BY InOrder DEF Balancing
<1> QED BY <1>1 DEF BreakStatement, ContinueStatement, SimpleNode, Node

(* Each step of the compiler keeps the stack balanced.                     *)
LEMMA NextKeepsStacked ==
    ASSUME Inv, Ordered, Lexical, Stacked, [Next]_vars
    PROVE  Stacked'
<1>1. CASE UNCHANGED vars
    BY <1>1, UnchangedStacked
<1>2. CASE Next /\ ~(Orderly' /\ error' = NoError)
    BY <1>2 DEF Stacked
<1>3. CASE Next /\ Orderly' /\ error' = NoError
    <2>1. UNCHANGED family /\ error = NoError
        BY <1>3, NextHeeds DEF Heeded
    <2>2. Orderly
        BY <1>3, <2>1 DEF Orderly, Without, Syntax
    <2>3. Balancing /\ error' = NoError
        BY <1>3, <2>1, <2>2 DEF Balancing
    <2>4. CASE VarDeclaration
        BY <2>3, <2>4, VarDeclarationStacks
    <2>5. CASE EndDeclaration
        BY <2>3, <2>5, EndDeclarationStacks
    <2>6. CASE FunDeclaration
        BY <2>3, <2>6, FunDeclarationStacks
    <2>7. CASE EndFunction
        BY <2>3, <2>7, EndFunctionStacks
    <2>8. CASE ClassDeclaration
        BY <2>3, <2>8, ClassDeclarationStacks
    <2>9. CASE Method
        BY <2>3, <2>9, MethodStacks
    <2>10. CASE EndOfMethods
        BY <2>3, <2>10, EndOfMethodsStacks
    <2>11. CASE EndClass
        BY <2>3, <2>11, EndClassStacks
    <2>12. CASE EndOfBlock
        BY <2>3, <2>12, EndOfBlockStacks
    <2>13. CASE Block
        BY <2>3, <2>13, BlockStacks
    <2>14. CASE EndBlock
        BY <2>3, <2>14, EndBlockStacks
    <2>15. CASE PrintStatement
        BY <2>3, <2>15, PrintStacks
    <2>16. CASE ExprStatement
        BY <2>3, <2>16, ExprStatementStacks
    <2>17. CASE ReturnStatement
        BY <2>3, <2>17, ReturnStacks
    <2>18. CASE IfStatement
        BY <2>3, <2>18, IfStacks
    <2>19. CASE IfThen
        BY <2>3, <2>19, IfThenStacks
    <2>20. CASE IfElse
        BY <2>3, <2>20, IfElseStacks
    <2>21. CASE WhileStatement
        BY <2>3, <2>21, WhileStacks
    <2>22. CASE WhileBody
        BY <2>3, <2>22, WhileBodyStacks
    <2>23. CASE WhileEnd
        BY <2>3, <2>23, WhileEndStacks
    <2>24. CASE ForStatement
        BY <2>3, <2>24, ForStacks
    <2>25. CASE ForCondition
        BY <2>3, <2>25, ForConditionStacks
    <2>26. CASE ForExit
        BY <2>3, <2>26, ForExitStacks
    <2>27. CASE ForIteration
        BY <2>3, <2>27, ForIterationStacks
    <2>28. CASE ForIterated
        BY <2>3, <2>28, ForIteratedStacks
    <2>29. CASE ForEnd
        BY <2>3, <2>29, ForEndStacks
    <2>30. CASE BreakStatement
        BY <2>3, <2>30, NoJumpsInOrder
    <2>31. CASE ContinueStatement
        BY <2>3, <2>31, NoJumpsInOrder
    <2>32. CASE Literal
        BY <2>3, <2>32, LiteralStacks
    <2>33. CASE Variable
        BY <2>3, <2>33, VariableStacks
    <2>34. CASE This
        BY <2>3, <2>34, ThisStacks
    <2>35. CASE Super
        BY <2>3, <2>35, SuperStacks
    <2>36. CASE SuperInvoke
        BY <2>3, <2>36, SuperInvokeStacks
    <2>37. CASE Unary
        BY <2>3, <2>37, UnaryStacks
    <2>38. CASE Binary
        BY <2>3, <2>38, BinaryStacks
    <2>39. CASE Logic
        BY <2>3, <2>39, LogicStacks
    <2>40. CASE AndJump
        BY <2>3, <2>40, AndJumpStacks
    <2>41. CASE OrJump
        BY <2>3, <2>41, OrJumpStacks
    <2>42. CASE Assign
        BY <2>3, <2>42, AssignStacks
    <2>43. CASE Call
        BY <2>3, <2>43, CallStacks
    <2>44. CASE Dot
        BY <2>3, <2>44, DotStacks
    <2>45. CASE EmitOp
        BY <2>3, <2>45, EmitOpStacks
    <2>46. CASE PatchForward
        BY <2>3, <2>46, PatchForwardStacks
    <2>47. CASE Compiled
        BY <2>47, UnchangedStacked DEF Compiled
    <2> QED BY <1>3, <2>4, <2>5, <2>6, <2>7, <2>8, <2>9, <2>10, <2>11, <2>12,
            <2>13, <2>14, <2>15, <2>16, <2>17, <2>18, <2>19, <2>20, <2>21,
            <2>22, <2>23, <2>24, <2>25, <2>26, <2>27, <2>28, <2>29, <2>30,
            <2>31, <2>32, <2>33, <2>34, <2>35, <2>36, <2>37, <2>38, <2>39,
            <2>40, <2>41, <2>42, <2>43, <2>44, <2>45, <2>46, <2>47,
            Zenon DEF Next
<1> QED BY <1>1, <1>2, <1>3

(* The value stack of the code keeps in step with the work that is left:   *)
(* in programs without break, continue, an initial expression of `for' and *)
(* targets that are no names, at every point of every function that is     *)
(* compiled the stack holds the locals in scope and, above them, just the  *)
(* temporaries that the expressions and methods around the point use.      *)
THEOREM StackIsBalanced == Spec => []Stacked
<1>1. Init => Stacked
    BY InitStacked
<1>2. Inv /\ (Ordered /\ Lexical) /\ Stacked /\ [Next]_vars => Stacked'
    BY NextKeepsStacked
<1> QED BY <1>1, <1>2, CompilerInvariantHolds, NamesAreOrdered, PTL DEF Spec

(* Between two statements of these programs the stack of the frame holds   *)
(* the locals in scope and nothing else, so that the slot that the         *)
(* compiler gives a variable is the slot where it lies (addLocal,          *)
(* adjust_locals and what every handler does to the stack).                *)
THEOREM SlotsAreWhereTheyAre == Spec => []SlotsMatchInOrder
<1>1. ASSUME Inv, Ordered, Lexical, Stacked PROVE SlotsMatchInOrder
    <2> SUFFICES ASSUME Orderly, error = NoError, BetweenStatements
                 PROVE  Current(Now).height \in {DEAD, Len(Current(Now).locals)}
        BY DEF SlotsMatchInOrder, SlotsMatch
    <2>1. Balancing /\ todo # <<>>
        BY <1>1 DEF Balancing, BetweenStatements
    <2>2. PICK c : c = Current(Now)
        OBVIOUS
    <2>3. PICK p, q \in Points : Standing(Now, Now, Work, p, p) /\ Leads(c, Work[1], p, q)
        BY <2>1, <2>2, StackHead
    <2>4. Head(Work) = Work[1]
        BY <2>1, AtWork DEF Balancing
    <2>5. p.temps = 0
        <3>1. PICK t : t = Work[1]
            OBVIOUS
        <3>2. t.k \in {"stats", "stat", "endScope", "endFunction",
                       "forCond", "forIter", "whileEnd", "forEnd", "ifElse"}
            BY <2>4, <3>1 DEF BetweenStatements
        <3>3. t.k \notin ExprTasks /\ t.k # "methods" /\ Gain(c, t) = 0
            BY <3>2 DEF ExprTasks, Gain
        <3>4. q.temps = p.temps + 0 /\ q.temps = 0
            BY <2>3, <3>1, <3>3 DEF Leads, Travels
        <3> QED BY <3>4, PointTypes
    <2>6. Sits(c, p)
        BY <2>2, <2>3 DEF Standing, Poised
    <2>7. Len(c.visible) = Len(c.locals)
        <3>1. PICK n \in Nat \ {0} : n = Len(contexts) /\ c = contexts[n] /\ n \in 1..n
            BY <2>1, <2>2, AtWork DEF Balancing
        <3>2. Disciplined
            BY InOrder
        <3>3. Laid(c, todo[n], TRUE)
            BY <1>1, <3>1, <3>2 DEF Lexical
        <3> QED BY <3>3 DEF Laid, Shown
    <2>8. p.locals + 0 = p.locals
        BY PointTypes
    <2> QED BY <2>2, <2>5, <2>6, <2>7, <2>8 DEF Sits
<1> QED BY <1>1, StackIsBalanced, NamesAreOrdered, CompilerInvariantHolds, PTL

(* In these programs all ways to an instruction, by falling into it or by  *)
(* a jump of an if, of a loop, of `and' or of `or', arrive with a stack of *)
(* the same height (emitJump, patchJump and emitLoop).                     *)
THEOREM WaysMeetAtOneHeight == Spec => []JoinsAgreeInOrder
<1>1. ASSUME Inv, Stacked PROVE JoinsAgreeInOrder
    <2> SUFFICES ASSUME Orderly, error = NoError, NEW code \in AllCode
                 PROVE  CodeMeets(code)
        BY DEF JoinsAgreeInOrder, JoinsAgree, Settled, CodeMeets
    <2>1. ASSUME NEW j \in 1..Len(contexts) PROVE CodeMeets(contexts[j].code)
        <3>1. PICK c \in Contexts : c = contexts[j]
            BY <1>1 DEF Inv, Compiling, Fine
        <3>2. PICK w : w = todo[j]
            OBVIOUS
        <3>3. PICK owed : owed = Owed(j)
            OBVIOUS
        <3>4. Balanced(c, w, owed)
            BY <1>1, <3>1, <3>2, <3>3 DEF Stacked
        <3>5. JumpsMeet(c)
            BY <3>4 DEF Balanced, Poised
        <3> QED BY <3>1, <3>5, CodeIsMet
    <2>2. \A j \in 1..Len(functions) : CodeMeets(functions[j].code)
        BY <1>1 DEF Stacked
    <2> QED BY <2>1, <2>2 DEF AllCode
<1> QED BY <1>1, StackIsBalanced, CompilerInvariantHolds, PTL

============================================================================
