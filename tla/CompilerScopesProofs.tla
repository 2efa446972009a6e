------------------------ MODULE CompilerScopesProofs ------------------------
(***************************************************************************)
(* Ordered of module CompilerScopes is inductive beside Inv: names mean    *)
(* what the properties of module Compiler say of them, in every program.   *)
(***************************************************************************)
EXTENDS CompilerProofs, CompilerScopes

-----------------------------------------------------------------------------
(* Upvalues.                                                               *)

(* A function's locals may be captured, its upvalues may become more.      *)
Persists(c, d) ==
    /\ Len(d.locals) = Len(c.locals)
    /\ \A i \in 1..Len(c.locals) :
        /\ d.locals[i].name = c.locals[i].name
        /\ c.locals[i].captured => d.locals[i].captured
Lengthens(c, d) ==
    /\ Len(d.upvalues) >= Len(c.upvalues)
    /\ \A i \in 1..Len(c.upvalues) : d.upvalues[i] = c.upvalues[i]

LEMMA DenotesOn ==
    ASSUME NEW cs, NEW ds, NEW j \in Nat, NEW owner \in 1..j - 1, NEW at, NEW slot,
           \A m \in owner + 1..j :
               /\ Len(cs[m].upvalues) \in Nat /\ Len(ds[m].upvalues) \in Nat
               /\ Lengthens(cs[m], ds[m]),
           Denotes(cs, j, at, owner, slot)
    PROVE  Denotes(ds, j, at, owner, slot)
<1>1. UINT8_COUNT \in Nat
    BY Limits
<1>2. PICK way \in [owner + 1..j -> 0..UINT8_COUNT - 1] :
        /\ way[j] = at
        /\ \A m \in owner + 1..j :
            /\ way[m] < Len(cs[m].upvalues)
            /\ cs[m].upvalues[way[m] + 1] =
                IF m = owner + 1 THEN [index |-> slot - 1, isLocal |-> TRUE]
                                 ELSE [index |-> way[m - 1], isLocal |-> FALSE]
    BY Zenon DEF Denotes
<1>3. ASSUME NEW m \in owner + 1..j
      PROVE  /\ way[m] < Len(ds[m].upvalues)
             /\ ds[m].upvalues[way[m] + 1] = cs[m].upvalues[way[m] + 1]
    <2>1. way[m] \in Nat
        BY <1>1
    <2>2. way[m] < Len(cs[m].upvalues) /\ Len(cs[m].upvalues) \in Nat /\ Len(ds[m].upvalues) \in Nat
        BY <1>2
    <2>3. way[m] + 1 \in 1..Len(cs[m].upvalues)
        BY <2>1, <2>2
    <2> QED BY <2>1, <2>2, <2>3, SMTT(30) DEF Lengthens
<1>4. \A m \in owner + 1..j :
        /\ way[m] < Len(ds[m].upvalues)
        /\ ds[m].upvalues[way[m] + 1] =
            IF m = owner + 1 THEN [index |-> slot - 1, isLocal |-> TRUE]
                             ELSE [index |-> way[m - 1], isLocal |-> FALSE]
    <2>1. TAKE m \in owner + 1..j
    <2>2. way[m] < Len(ds[m].upvalues) /\ ds[m].upvalues[way[m] + 1] = cs[m].upvalues[way[m] + 1]
        BY <1>3
    <2>3. cs[m].upvalues[way[m] + 1] =
            IF m = owner + 1 THEN [index |-> slot - 1, isLocal |-> TRUE]
                             ELSE [index |-> way[m - 1], isLocal |-> FALSE]
        BY <1>2, Zenon
    <2> QED BY <2>2, <2>3, Zenon
<1> QED BY <1>2, <1>4, Zenon DEF Denotes

LEMMA ResolvedOn ==
    ASSUME NEW cs \in Seq(Contexts), NEW ds \in Seq(Contexts), NEW j \in Nat,
           j <= Len(cs), j <= Len(ds),
           \A m \in 1..j - 1 : Persists(cs[m], ds[m]),
           \A m \in 1..j : Lengthens(cs[m], ds[m]),
           NEW at, NEW name, Resolved(cs, j, at, name)
    PROVE  Resolved(ds, j, at, name)
<1>1. PICK owner \in 1..j - 1 : \E slot \in 1..Len(cs[owner].locals) :
        /\ Declares(cs[owner], slot, name) /\ cs[owner].locals[slot].captured
        /\ \A k \in slot + 1..Len(cs[owner].locals) : ~Declares(cs[owner], k, name)
        /\ \A m \in owner + 1..j - 1 : \A k \in 1..Len(cs[m].locals) : ~Declares(cs[m], k, name)
        /\ Denotes(cs, j, at, owner, slot)
    BY Zenon DEF Resolved
<1>2. PICK slot \in 1..Len(cs[owner].locals) :
        /\ Declares(cs[owner], slot, name) /\ cs[owner].locals[slot].captured
        /\ \A k \in slot + 1..Len(cs[owner].locals) : ~Declares(cs[owner], k, name)
        /\ \A m \in owner + 1..j - 1 : \A k \in 1..Len(cs[m].locals) : ~Declares(cs[m], k, name)
        /\ Denotes(cs, j, at, owner, slot)
    BY <1>1
<1>3. \A m \in 1..j : /\ Len(cs[m].upvalues) \in Nat /\ Len(ds[m].upvalues) \in Nat
                      /\ Len(cs[m].locals) \in Nat
    <2>1. ASSUME NEW m \in 1..j PROVE cs[m] \in Contexts /\ ds[m] \in Contexts
        <3>1. m \in 1..Len(cs) /\ m \in 1..Len(ds)
            BY LenProperties
        <3> QED BY <3>1, ElementOfSeq
    <2> QED BY <2>1, ContextTypes
<1>4. \A m \in owner + 1..j : m \in 1..j
    OBVIOUS
<1>5. Denotes(ds, j, at, owner, slot)
    BY <1>2, <1>3, <1>4, DenotesOn
<1>6. ASSUME NEW m \in 1..j - 1
      PROVE  /\ Len(ds[m].locals) = Len(cs[m].locals)
             /\ \A k \in 1..Len(cs[m].locals) : Declares(ds[m], k, name) <=> Declares(cs[m], k, name)
    BY DEF Persists, Declares
<1>7. /\ slot \in 1..Len(ds[owner].locals) /\ Declares(ds[owner], slot, name)
      /\ ds[owner].locals[slot].captured
    BY <1>2, <1>6 DEF Persists
<1>8. \A k \in slot + 1..Len(ds[owner].locals) : ~Declares(ds[owner], k, name)
    <2>1. Len(cs[owner].locals) \in Nat
        BY <1>3
    <2>2. \A k \in slot + 1..Len(cs[owner].locals) : k \in 1..Len(cs[owner].locals)
        BY <2>1
    <2> QED BY <1>2, <1>6, <2>2
<1>9. \A m \in owner + 1..j - 1 : \A k \in 1..Len(ds[m].locals) : ~Declares(ds[m], k, name)
    <2>1. \A m \in owner + 1..j - 1 : m \in 1..j - 1
        OBVIOUS
    <2> QED BY <1>2, <1>6, <2>1
<1> QED BY <1>5, <1>7, <1>8, <1>9, Zenon DEF Resolved

(* addUpvalue: the upvalues stay, and there is one for the variable.       *)
Placed(r, upvalues, index, isLocal) ==
    /\ Len(r.upvalues) >= Len(upvalues)
    /\ \A i \in 1..Len(upvalues) : r.upvalues[i] = upvalues[i]
    /\ ~r.full => /\ r.at < Len(r.upvalues)
                  /\ r.upvalues[r.at + 1] = [index |-> index, isLocal |-> isLocal]

LEMMA AddsAtPlace ==
    ASSUME NEW upvalues \in Seq(UpvalueRecords), NEW index \in Slots, NEW isLocal \in BOOLEAN,
           NEW r, r = AddUpvalue(upvalues, index, isLocal)
    PROVE  Placed(r, upvalues, index, isLocal)
<1>1. PICK u : u = [index |-> index, isLocal |-> isLocal]
    OBVIOUS
<1>2. u \in UpvalueRecords
    BY <1>1 DEF UpvalueRecords, Slots
<1>3. PICK n \in Nat : n = Len(upvalues)
    BY LenProperties
<1>4. PICK same : same = {i \in 1..n : upvalues[i] = u}
    OBVIOUS
<1>5. PICK full : full = (same = {} /\ n = UINT8_COUNT)
    OBVIOUS
<1>6. r = [at |-> CASE same # {} -> Min(same) - 1 [] full -> 0 [] OTHER -> n,
           upvalues |-> IF same # {} \/ full THEN upvalues ELSE Append(upvalues, u),
           full |-> full]
    BY <1>1, <1>3, <1>4, <1>5, Zenon DEF AddUpvalue
<1>7. CASE same # {}
    <2>1. Min(same) \in same
        <3>1. same \subseteq Nat
            BY <1>4
        <3> QED BY <1>7, <3>1, MinIs
    <2>3. PICK i \in 1..n : i = Min(same) /\ upvalues[i] = u
        BY <1>4, <2>1
    <2>5. PICK before \in Nat : before = i - 1
        OBVIOUS
    <2>6. Min(same) - 1 = before
        BY <2>3, <2>5
    <2>7. PICK other \in Nat : other = n
        OBVIOUS
    <2>8. r.at = (CASE same # {} -> before [] full -> 0 [] OTHER -> n) /\ r.upvalues = upvalues
        BY <1>6, <1>7, <2>6
    <2>9. full = FALSE
        BY <1>5, <1>7
    <2>2. r.at = before /\ r.upvalues = upvalues
        BY <1>7, <2>8, <2>9
    <2>4. r.at = i - 1 /\ r.at + 1 = i
        BY <2>2, <2>5
    <2> QED BY <1>1, <1>3, <2>2, <2>3, <2>4 DEF Placed
<1>8. CASE same = {} /\ full
    <2>1. r.upvalues = upvalues /\ r.full
        BY <1>5, <1>6, <1>8
    <2> QED BY <1>3, <2>1 DEF Placed
<1>9. CASE same = {} /\ ~full
    <2>1. r.at = n /\ r.upvalues = Append(upvalues, u)
        BY <1>6, <1>9
    <2>2. /\ Len(Append(upvalues, u)) = n + 1 /\ Append(upvalues, u)[n + 1] = u
          /\ \A i \in 1..n : Append(upvalues, u)[i] = upvalues[i]
        BY <1>2, <1>3, AppendProperties
    <2> QED BY <1>1, <1>3, <2>1, <2>2 DEF Placed
<1> QED BY <1>7, <1>8, <1>9

(* The upvalue of the variable in each function on its way down.           *)
LEMMA LinkIsPlaced ==
    ASSUME NEW s, Good(s), NEW n \in Nat, n = Len(s.contexts), NEW owner \in 1..n - 1, NEW name,
           NEW slot, slot = ResolveLocal(s.contexts[owner], name), slot # 0,
           NEW link, Way(s, owner, slot, link), NEW m \in owner + 1..n
    PROVE  /\ link[m].at \in Slots
           /\ m = owner + 1 => Placed(link[m], s.contexts[m].upvalues, slot - 1, TRUE)
           /\ m # owner + 1 => Placed(link[m], s.contexts[m].upvalues, link[m - 1].at, FALSE)
<1>1. link \in [owner + 1..n -> Added]
    BY DEF Way
<1>2. PICK upvalues \in Seq(UpvalueRecords) : upvalues = s.contexts[m].upvalues
    <2>1. m \in 1..Len(s.contexts)
        OBVIOUS
    <2>2. s.contexts[m] \in Contexts
        BY <2>1 DEF Good, Fine
    <2> QED BY <2>2, ContextTypes
<1>3. link[m].at \in Slots
    BY <1>1 DEF Added
<1>4. CASE m = owner + 1
    <2>1. PICK index \in Slots : index = slot - 1
        <3>1. owner \in 1..Len(s.contexts)
            OBVIOUS
        <3>2. Fine(s.contexts[owner]) /\ s.contexts[owner] \in Contexts
            BY <3>1 DEF Good, Fine
        <3>3. slot \in 1..Len(s.contexts[owner].locals)
            BY <3>2, Resolves
        <3>4. Len(s.contexts[owner].locals) \in 1..UINT8_COUNT
            BY <3>2 DEF Fine
        <3>5. UINT8_COUNT \in Nat
            BY Limits
        <3>6. PICK before : before = slot - 1
            OBVIOUS
        <3>7. before \in 0..UINT8_COUNT - 1
            BY <3>3, <3>4, <3>5, <3>6
        <3> QED BY <3>6, <3>7 DEF Slots
    <2>2. link[m] = AddUpvalue(upvalues, index, TRUE)
        BY <1>2, <1>4, <2>1 DEF Way
    <2>3. PICK local \in BOOLEAN : local = TRUE
        OBVIOUS
    <2>4. link[m] = AddUpvalue(upvalues, index, local)
        BY <2>2, <2>3
    <2>5. Placed(link[m], upvalues, index, local)
        BY <2>4, AddsAtPlace
    <2> QED BY <1>2, <1>3, <1>4, <2>1, <2>3, <2>5
<1>5. CASE m # owner + 1
    <2>1. m \in owner + 2..n /\ m - 1 \in owner + 1..n
        BY <1>5
    <2>2. PICK index \in Slots : index = link[m - 1].at
        BY <1>1, <2>1 DEF Added
    <2>3. PICK local \in BOOLEAN : local = FALSE
        OBVIOUS
    <2>4. link[m] = AddUpvalue(upvalues, index, local)
        BY <1>2, <2>1, <2>2, <2>3 DEF Way
    <2>5. Placed(link[m], upvalues, index, local)
        BY <2>4, AddsAtPlace
    <2> QED BY <1>2, <1>3, <1>5, <2>2, <2>3, <2>5
<1> QED BY <1>4, <1>5

LEMMA ThreadedPersists ==
    ASSUME NEW s, Good(s), NEW n \in Nat, n = Len(s.contexts), NEW owner \in 1..n - 1, NEW name,
           NEW slot, slot = ResolveLocal(s.contexts[owner], name), slot # 0,
           NEW link, Way(s, owner, slot, link),
           NEW t, Follows(s, t), Threaded(s, t, owner, slot, link), NEW j \in 1..n
    PROVE  Persists(s.contexts[j], t.contexts[j]) /\ Lengthens(s.contexts[j], t.contexts[j])
<1>1. PICK c \in Contexts : c = s.contexts[j]
    BY DEF Good, Fine
<1>2. Len(c.locals) \in Nat /\ Len(c.upvalues) \in Nat
    BY ContextTypes
<1>3. PICK d : d = t.contexts[j]
    OBVIOUS
<1>4. CASE j < owner
    <2>1. d = c
        BY <1>1, <1>3, <1>4 DEF Threaded
    <2> QED BY <1>1, <1>2, <1>3, <2>1 DEF Persists, Lengthens
<1>5. CASE j = owner
    <2>1. SameLocals(c, d)
        BY <1>1, <1>3, <1>5 DEF Follows, Alike
    <2>2. d.upvalues = c.upvalues
          /\ \A i \in 1..Len(c.locals) : c.locals[i].captured => d.locals[i].captured
        BY <1>1, <1>3, <1>5 DEF Threaded
    <2> QED BY <1>1, <1>2, <1>3, <2>1, <2>2 DEF Persists, Lengthens, SameLocals
<1>6. CASE j > owner
    <2>1. j \in owner + 1..n
        BY <1>6
    <2>2. d.locals = c.locals /\ d.upvalues = link[j].upvalues
        BY <1>1, <1>3, <2>1 DEF Threaded
    <2>3. Len(link[j].upvalues) >= Len(c.upvalues)
          /\ \A i \in 1..Len(c.upvalues) : link[j].upvalues[i] = c.upvalues[i]
        <3>1. \/ Placed(link[j], c.upvalues, slot - 1, TRUE)
              \/ Placed(link[j], c.upvalues, link[j - 1].at, FALSE)
            BY <1>1, <2>1, LinkIsPlaced
        <3> QED BY <3>1 DEF Placed
    <2> QED BY <1>1, <1>2, <1>3, <2>2, <2>3 DEF Persists, Lengthens
<1> QED BY <1>4, <1>5, <1>6

LEMMA ThreadedResolves ==
    ASSUME NEW s, Good(s), NEW n \in Nat, n = Len(s.contexts), NEW owner \in 1..n - 1, NEW name,
           NEW slot, slot = ResolveLocal(s.contexts[owner], name), slot # 0,
           NEW link, Way(s, owner, slot, link),
           NEW t, Follows(s, t), Threaded(s, t, owner, slot, link), t.error = NoError,
           \A m \in owner + 1..n - 1 : ResolveLocal(s.contexts[m], name) = 0
    PROVE  Resolved(t.contexts, n, link[n].at, name)
<1> DEFINE cs == s.contexts
           ds == t.contexts
<1>1. \A m \in 1..n - 1 :
        /\ cs[m] \in Contexts
        /\ Len(ds[m].locals) = Len(cs[m].locals)
        /\ \A k \in 1..Len(cs[m].locals) : ds[m].locals[k].name = cs[m].locals[k].name
    <2>1. ASSUME NEW m \in 1..n - 1
          PROVE  cs[m] \in Contexts /\ SameLocals(cs[m], ds[m])
        <3>1. m \in 1..Len(s.contexts) /\ m \in 1..Len(s.contexts) - 1
            OBVIOUS
        <3> QED BY <3>1 DEF Good, Fine, Follows, Alike
    <2> QED BY <2>1 DEF SameLocals
<1>2. /\ slot \in 1..Len(cs[owner].locals) /\ cs[owner].locals[slot].name = name
      /\ \A i \in 1..Len(cs[owner].locals) : cs[owner].locals[i].name = name => i <= slot
    BY <1>1, Resolves
<1>3. PICK way : way = [m \in owner + 1..n |-> link[m].at]
    OBVIOUS
<1>4. \A m \in owner + 1..n : way[m] \in Slots
    BY <1>3, LinkIsPlaced
<1>5. way \in [owner + 1..n -> 0..UINT8_COUNT - 1]
    BY <1>3, <1>4 DEF Slots
<1>6. ASSUME NEW m \in owner + 1..n
      PROVE  /\ way[m] < Len(ds[m].upvalues)
             /\ ds[m].upvalues[way[m] + 1] =
                    IF m = owner + 1 THEN [index |-> slot - 1, isLocal |-> TRUE]
                                     ELSE [index |-> way[m - 1], isLocal |-> FALSE]
    <2>1. ~link[m].full /\ ds[m].upvalues = link[m].upvalues
        BY DEF Threaded
    <2>2. /\ link[m].at < Len(link[m].upvalues)
          /\ link[m].upvalues[link[m].at + 1] =
                IF m = owner + 1 THEN [index |-> slot - 1, isLocal |-> TRUE]
                                 ELSE [index |-> link[m - 1].at, isLocal |-> FALSE]
        <3>1. CASE m = owner + 1
            <4>1. Placed(link[m], s.contexts[m].upvalues, slot - 1, TRUE)
                BY <3>1, LinkIsPlaced
            <4> QED BY <2>1, <3>1, <4>1 DEF Placed
        <3>2. CASE m # owner + 1
            <4>1. Placed(link[m], s.contexts[m].upvalues, link[m - 1].at, FALSE)
                BY <3>2, LinkIsPlaced
            <4> QED BY <2>1, <3>2, <4>1 DEF Placed
        <3> QED BY <3>1, <3>2
    <2>3. way[m] = link[m].at /\ (m # owner + 1 => way[m - 1] = link[m - 1].at)
        BY <1>3
    <2> QED BY <2>1, <2>2, <2>3
<1>7. Denotes(ds, n, link[n].at, owner, slot)
    <2>1. way[n] = link[n].at
        BY <1>3
    <2> QED BY <1>5, <1>6, <2>1, Zenon DEF Denotes
<1>8. slot \in 1..Len(ds[owner].locals) /\ Declares(ds[owner], slot, name)
    BY <1>1, <1>2 DEF Declares
<1>9. ds[owner].locals[slot].captured
    BY DEF Threaded
<1>10. \A k \in slot + 1..Len(ds[owner].locals) : ~Declares(ds[owner], k, name)
    <2>1. Len(cs[owner].locals) \in Nat /\ slot \in Nat
        BY <1>1, <1>2, ContextTypes
    <2>2. \A k \in slot + 1..Len(cs[owner].locals) : k \in 1..Len(cs[owner].locals) /\ ~(k <= slot)
        BY <2>1
    <2> QED BY <1>1, <1>2, <2>2 DEF Declares
<1>11. \A m \in owner + 1..n - 1 : \A k \in 1..Len(ds[m].locals) : ~Declares(ds[m], k, name)
    <2>1. TAKE m \in owner + 1..n - 1
    <2>2. m \in 1..n - 1
        OBVIOUS
    <2>3. ASSUME NEW k \in 1..Len(cs[m].locals), cs[m].locals[k].name = name PROVE FALSE
        <3>1. PICK none : none = ResolveLocal(cs[m], name)
            OBVIOUS
        <3>2. none = 0
            BY <3>1
        <3>3. k <= none
            BY <1>1, <2>2, <2>3, <3>1, Resolves
        <3> QED BY <3>2, <3>3
    <2> QED BY <1>1, <2>2, <2>3 DEF Declares
<1>12. owner \in 1..n - 1
    OBVIOUS
<1> QED BY <1>7, <1>8, <1>9, <1>10, <1>11, <1>12, Zenon DEF Resolved

-----------------------------------------------------------------------------
(* What one step of the code generator keeps.                              *)

(* An instruction that looks a name up finds what it should.               *)
Sound(cs, x) ==
    /\ x.op \in UpvalueOps => Resolved(cs, Len(cs), x.arg, x.name)
    /\ x.op \in GlobalOps => x.name \in Names
Unmoved(x, y) == y.op \in LookUps => y = x

LEMMA ScopedOn ==
    ASSUME NEW s, Good(s), NEW t, Good(t), NEW n \in Nat, n = Len(s.contexts), Len(t.contexts) = n,
           t.error = NoError => s.error = NoError,
           \A j \in 1..n - 1 : /\ Persists(s.contexts[j], t.contexts[j])
                               /\ t.contexts[j].code = s.contexts[j].code,
           \A j \in 1..n : Lengthens(s.contexts[j], t.contexts[j]),
           \A i \in 1..Len(t.contexts[n].code) :
                \/ i \in 1..Len(s.contexts[n].code)
                        /\ Unmoved(s.contexts[n].code[i], t.contexts[n].code[i])
                \/ t.error = NoError => Sound(t.contexts, t.contexts[n].code[i]),
           Scoped(s)
    PROVE  Scoped(t)
<1> SUFFICES ASSUME t.error = NoError
             PROVE  Upvalues(t.contexts) /\ \A j \in 1..n : Globals(t.contexts[j].code)
    BY DEF Scoped
<1> DEFINE cs == s.contexts
           ds == t.contexts
<1>1. Upvalues(cs) /\ \A j \in 1..n : Globals(cs[j].code)
    BY DEF Scoped
<1>2. cs \in Seq(Contexts) /\ ds \in Seq(Contexts)
    BY DEF Good, States
<1>3. ASSUME NEW j \in 1..n, NEW i \in 1..Len(cs[j].code), cs[j].code[i].op \in LookUps
      PROVE  /\ cs[j].code[i].op \in UpvalueOps =>
                    Resolved(ds, j, cs[j].code[i].arg, cs[j].code[i].name)
             /\ cs[j].code[i].op \in GlobalOps => cs[j].code[i].name \in Names
    <2>1. PICK x : x = cs[j].code[i]
        OBVIOUS
    <2>2. x.op \in GlobalOps => x.name \in Names
        BY <1>1, <2>1 DEF Globals
    <2>3. x.op \in UpvalueOps => Resolved(cs, j, x.arg, x.name)
        BY <1>1, <2>1 DEF Upvalues
    <2>4. /\ \A m \in 1..j - 1 : Persists(cs[m], ds[m])
          /\ \A m \in 1..j : Lengthens(cs[m], ds[m])
        <3>1. \A m \in 1..j - 1 : m \in 1..n - 1
            OBVIOUS
        <3>2. \A m \in 1..j : m \in 1..n
            OBVIOUS
        <3> QED BY <3>1, <3>2
    <2>5. x.op \in UpvalueOps => Resolved(ds, j, x.arg, x.name)
        <3>1. j \in Nat /\ j <= Len(cs) /\ j <= Len(ds)
            OBVIOUS
        <3> HIDE DEF cs, ds
        <3> QED BY <1>2, <2>3, <2>4, <3>1, ResolvedOn
    <2> QED BY <2>1, <2>2, <2>5
<1>4. ASSUME NEW j \in 1..n, NEW i \in 1..Len(ds[j].code), NEW x, x = ds[j].code[i]
      PROVE  /\ x.op \in UpvalueOps => Resolved(ds, j, x.arg, x.name)
             /\ x.op \in GlobalOps => x.name \in Names
    <2>1. CASE i \in 1..Len(cs[j].code) /\ Unmoved(cs[j].code[i], x)
        <3>1. CASE x.op \in LookUps
            <4>1. x = cs[j].code[i]
                BY <2>1, <3>1 DEF Unmoved
            <4> QED BY <1>3, <2>1, <3>1, <4>1
        <3>2. CASE x.op \notin LookUps
            BY <3>2 DEF LookUps
        <3> QED BY <3>1, <3>2
    <2>2. CASE j = n /\ Sound(ds, x)
        BY <2>2 DEF Sound
    <2>3. CASE j # n
        <3>1. j \in 1..n - 1
            BY <2>3
        <3>2. ds[j].code = cs[j].code
            BY <3>1
        <3> QED BY <2>1, <1>4, <3>2 DEF Unmoved
    <2>4. CASE j = n
        BY <1>4, <2>1, <2>2, <2>4
    <2> QED BY <2>3, <2>4
<1>5. Upvalues(ds)
    BY <1>4 DEF Upvalues
<1>6. \A j \in 1..n : Globals(ds[j].code)
    BY <1>4 DEF Globals
<1> QED BY <1>5, <1>6

(* Jumps stay jumps.                                                       *)
SameJumps(c, d) ==
    /\ Len(d.code) >= Len(c.code)
    /\ \A i \in 1..Len(c.code) : IsJump(c.code[i]) => IsJump(d.code[i])
AtBreak(c) == AtJump(c, c.last_break)
Tame(s, t) ==
    /\ Follows(s, t)
    /\ t.error = NoError => s.error = NoError
    /\ Scoped(s) => Scoped(t)
    /\ SameJumps(Current(s), Current(t))
    /\ AtBreak(Current(s)) => AtBreak(Current(t))

LEMMA AtJumpOn ==
    ASSUME NEW c, Len(c.code) \in Nat, NEW d, Len(d.code) \in Nat, SameJumps(c, d),
           NEW i, AtJump(c, i)
    PROVE  AtJump(d, i)
BY DEF AtJump, SameJumps

LEMMA CodeLength ==
    ASSUME NEW s, Good(s)
    PROVE  /\ Len(Current(s).code) \in Nat /\ Current(s).code \in Seq(Instructions)
           /\ Len(Current(s).upvalues) \in Nat /\ Len(Current(s).locals) \in Nat
BY CurrentIsFine, ContextTypes

LEMMA TameOn ==
    ASSUME NEW s, Good(s), NEW t, NEW u, Tame(s, t), Tame(t, u)
    PROVE  Tame(s, u)
<1>1. Follows(s, u) /\ Good(t) /\ Good(u)
    BY FollowsOn DEF Tame, Follows
<1>2. Len(Current(s).code) \in Nat /\ Len(Current(t).code) \in Nat /\ Len(Current(u).code) \in Nat
    BY <1>1, CodeLength
<1>3. SameJumps(Current(s), Current(u))
    BY <1>2 DEF Tame, SameJumps
<1> QED BY <1>1, <1>3 DEF Tame

LEMMA TameSelf ==
    ASSUME NEW s, Good(s)
    PROVE  Tame(s, s)
BY FollowsSelf, CodeLength DEF Tame, SameJumps

LEMMA FrontTame ==
    ASSUME NEW s, Good(s), NEW t, Follows(s, t), Front(t.contexts) = Front(s.contexts),
           t.error = NoError => s.error = NoError,
           NEW c, c = Current(s), NEW d, d = Current(t), d.upvalues = c.upvalues,
           \A i \in 1..Len(d.code) : \/ i \in 1..Len(c.code) /\ Unmoved(c.code[i], d.code[i])
                                     \/ d.code[i].op \notin LookUps,
           SameJumps(c, d), AtBreak(c) => AtBreak(d)
    PROVE  Tame(s, t)
<1>1. PICK n \in Nat : n = Len(s.contexts) /\ n > 0
    BY CurrentIsFine
<1>2. /\ Good(t) /\ Len(t.contexts) = n
      /\ Current(s) = s.contexts[n] /\ Current(t) = t.contexts[n]
      /\ s.contexts \in Seq(Contexts) /\ t.contexts \in Seq(Contexts)
    BY <1>1, CurrentIsFine DEF Follows
<1>3. \A j \in 1..n - 1 : t.contexts[j] = s.contexts[j]
    <2>1. s.contexts # <<>> /\ t.contexts # <<>>
        BY <1>2 DEF Good
    <2>2. \A j \in 1..n - 1 : /\ Front(s.contexts)[j] = s.contexts[j]
                              /\ Front(t.contexts)[j] = t.contexts[j]
        BY <1>1, <1>2, <2>1, FrontAndLast
    <2> QED BY <2>2
<1>4. ASSUME NEW j \in 1..n
      PROVE  Len(s.contexts[j].locals) \in Nat /\ Len(s.contexts[j].upvalues) \in Nat
    <2>1. s.contexts[j] \in Contexts
        BY <1>1 DEF Good, Fine
    <2> QED BY <2>1, ContextTypes
<1>5. \A j \in 1..n - 1 : /\ Persists(s.contexts[j], t.contexts[j])
                          /\ t.contexts[j].code = s.contexts[j].code
    BY <1>3, <1>4 DEF Persists
<1>6. \A j \in 1..n : Lengthens(s.contexts[j], t.contexts[j])
    <2>1. \A j \in 1..n : t.contexts[j].upvalues = s.contexts[j].upvalues
        BY <1>2, <1>3
    <2> QED BY <1>4, <2>1 DEF Lengthens
<1>8. \A i \in 1..Len(t.contexts[n].code) :
        \/ i \in 1..Len(s.contexts[n].code)
                /\ Unmoved(s.contexts[n].code[i], t.contexts[n].code[i])
        \/ t.error = NoError => Sound(t.contexts, t.contexts[n].code[i])
    BY <1>2 DEF Sound, LookUps
<1>10. Scoped(s) => Scoped(t)
    BY <1>1, <1>2, <1>5, <1>6, <1>8, ScopedOn
<1> QED BY <1>10 DEF Tame

LEMMA PlainlyTame ==
    ASSUME NEW s, Good(s), NEW t, Follows(s, t), Plainly(s, t)
    PROVE  Tame(s, t)
<1>1. PICK c : c = Current(s)
    OBVIOUS
<1>2. PICK d : d = Current(t)
    OBVIOUS
<1>3. Len(c.code) \in Nat /\ Len(d.code) \in Nat
    BY <1>1, <1>2, CodeLength DEF Follows
<1>4. Extends(c.code, d.code) /\ d.upvalues = c.upvalues /\ d.last_break = c.last_break
    BY <1>1, <1>2 DEF Plainly
<1>5. SameJumps(c, d)
    BY <1>4 DEF Extends, SameJumps
<1>6. AtBreak(c) => AtBreak(d)
    BY <1>3, <1>4, <1>5, AtJumpOn DEF AtBreak
<1>7. \A i \in 1..Len(d.code) : \/ i \in 1..Len(c.code) /\ Unmoved(c.code[i], d.code[i])
                                \/ d.code[i].op \notin LookUps
    BY <1>4 DEF Extends, Unmoved
<1> QED BY <1>1, <1>2, <1>4, <1>5, <1>6, <1>7, FrontTame DEF Plainly

LEMMA FailTame ==
    ASSUME NEW s, Good(s), NEW condition, NEW what \in Errors, NEW t, t = FailIf(s, condition, what)
    PROVE  Tame(s, t) /\ Good(t) /\ Current(t) = Current(s) /\ t.contexts = s.contexts
BY FailedWidens, PlainlyTame DEF GetsWider

LEMMA EmitTame ==
    ASSUME NEW s, Good(s), NEW op \in Operations, op \notin LookUps, NEW arg \in Int,
           NEW name \in VariableNames, NEW t, t = EmitNamed(s, op, arg, name)
    PROVE  Tame(s, t) /\ Good(t) /\ SameLocals(Current(s), Current(t))
<1>1. Plainly(s, t) /\ Good(t)
    BY EmitsPlainly
<1>2. GoesOn(s, t)
    BY EmitsOneMore
<1> QED BY <1>1, <1>2, PlainlyTame DEF GoesOn, Steady

LEMMA EmitsTame ==
    ASSUME NEW s, Good(s), NEW op \in Operations, op \notin LookUps, NEW arg \in Int,
           NEW t, t = Emit(s, op, arg)
    PROVE  Tame(s, t) /\ Good(t) /\ SameLocals(Current(s), Current(t))
<1>1. PICK name \in VariableNames : name = ""
    BY DEF VariableNames
<1>2. t = EmitNamed(s, op, arg, name)
    BY <1>1 DEF Emit
<1> QED BY <1>2, EmitTame

LEMMA PatchTame ==
    ASSUME NEW s, Good(s), NEW jump \in Nat, jump # 0, AtJump(Current(s), jump),
           NEW t, t = PatchJump(s, jump)
    PROVE  Tame(s, t) /\ Good(t)
<1>1. PICK c : c = Current(s)
    OBVIOUS
<1>2. PICK d : d = Current(t)
    OBVIOUS
<1>3. jump \in 1..Len(c.code) /\ IsJump(c.code[jump])
    BY <1>1 DEF AtJump
<1>4. /\ GoesOn(s, t) /\ t.error = s.error /\ Front(t.contexts) = Front(s.contexts)
      /\ Patched(c, d, jump)
    BY <1>1, <1>2, <1>3, Patches
<1>5. Good(t)
    BY <1>4 DEF GoesOn, Follows
<1>6. Len(c.code) \in Nat /\ Len(d.code) \in Nat /\ c.code \in Seq(Instructions)
    BY <1>1, <1>2, <1>5, CodeLength
<1>7. d.code[jump].op = c.code[jump].op
    <2>1. c.code[jump] \in Instructions
        BY <1>3, <1>6, ElementOfSeq
    <2> QED BY <1>4, <2>1 DEF Patched, Instructions
<1>8. SameJumps(c, d)
    <2>1. ASSUME NEW i \in 1..Len(c.code), IsJump(c.code[i]) PROVE IsJump(d.code[i])
        <3>1. d.code[i].op = c.code[i].op
            BY <1>4, <1>7 DEF Patched
        <3> QED BY <2>1, <3>1 DEF IsJump
    <2>2. Len(d.code) = Len(c.code)
        BY <1>4 DEF Patched
    <2> QED BY <1>6, <2>1, <2>2 DEF SameJumps
<1>9. AtBreak(c) => AtBreak(d)
    <2>1. d.last_break = c.last_break
        BY <1>4 DEF Patched, Steady, SameSettings
    <2> QED BY <1>6, <1>8, <2>1, AtJumpOn DEF AtBreak
<1>10. \A i \in 1..Len(d.code) : \/ i \in 1..Len(c.code) /\ Unmoved(c.code[i], d.code[i])
                                 \/ d.code[i].op \notin LookUps
    <2>1. d.code[jump].op \notin LookUps
        BY <1>3, <1>7 DEF IsJump, LookUps, UpvalueOps, GlobalOps
    <2> QED BY <1>4, <2>1 DEF Patched, Unmoved
<1>11. d.upvalues = c.upvalues
    BY <1>4 DEF Patched
<1> QED BY <1>1, <1>2, <1>4, <1>5, <1>8, <1>9, <1>10, <1>11, FrontTame DEF GoesOn

LEMMA JumpTame ==
    ASSUME NEW s, Good(s), NEW op \in {"JUMP", "JUMP_IF_FALSE"}, NEW t, t = EmitJump(s, op)
    PROVE  /\ Tame(s, t) /\ Good(t) /\ Position(t) \in Nat /\ Position(t) # 0
           /\ AtJump(Current(t), Position(t))
<1>1. op \in Operations /\ op \notin LookUps
    BY DEF Operations, Keeps, Diverts, LookUps, UpvalueOps, GlobalOps
<1>2. PICK open \in Int : open = UNPATCHED
    BY DEF UNPATCHED
<1>3. t = Emit(s, op, open)
    BY <1>2 DEF EmitJump
<1>4. Tame(s, t) /\ Good(t)
    BY <1>1, <1>3, EmitsTame
<1>5. PICK n \in Nat : n = Len(Current(s).code)
    BY CodeLength
<1>6. Len(Current(t).code) = n + 1 /\ Current(t).code[n + 1].op = op
    <2>1. PICK name \in VariableNames : name = ""
        BY DEF VariableNames
    <2>2. OneMore(Current(s), Current(t), op, open, name)
        BY <1>1, <1>3, <2>1, EmitsNameless
    <2> QED BY <1>5, <2>2, OneMoreCode
<1>7. IsJump(Current(t).code[n + 1])
    BY <1>6 DEF IsJump
<1>8. Position(t) = n + 1
    BY <1>6 DEF Position
<1>9. AtJump(Current(t), n + 1)
    BY <1>6, <1>7 DEF AtJump
<1> QED BY <1>4, <1>8, <1>9

LEMMA ResetTame ==
    ASSUME NEW s, Good(s), NEW t, NEW continue, NEW break, NEW loops,
           Reset(s, t, continue, break, loops),
           AtBreak(Current(s)) => AtJump(Current(s), break)
    PROVE  Tame(s, t) /\ Good(t)
<1>1. PICK c : c = Current(s)
    OBVIOUS
<1>2. PICK d : d = Current(t)
    OBVIOUS
<1>3. /\ d.code = c.code /\ d.upvalues = c.upvalues /\ d.last_break = break
      /\ Follows(s, t) /\ Good(t)
    BY <1>1, <1>2 DEF Reset, BesideLoops
<1>4. Len(c.code) \in Nat
    BY <1>1, CodeLength
<1>5. SameJumps(c, d)
    BY <1>3, <1>4 DEF SameJumps
<1>6. AtBreak(c) => AtBreak(d)
    BY <1>1, <1>3 DEF AtBreak, AtJump
<1>7. \A i \in 1..Len(d.code) : i \in 1..Len(c.code) /\ Unmoved(c.code[i], d.code[i])
    BY <1>3 DEF Unmoved
<1>8. Front(t.contexts) = Front(s.contexts) /\ t.error = s.error
    BY DEF Reset
<1> QED BY <1>1, <1>2, <1>3, <1>5, <1>6, <1>7, <1>8, FrontTame

(* A variable of that name is in sight.                                    *)
Found(s, name) ==
    \E j \in 1..Len(s.contexts) : \E i \in 1..Len(s.contexts[j].locals) :
        s.contexts[j].locals[i].name = name
Known(s, name) == s.error = NoError => name \in Names \/ Found(s, name)

(* A new instruction is sound, in contexts that are as before.             *)
LEMMA OneMoreTame ==
    ASSUME NEW s, Good(s), NEW op \in Operations, NEW arg \in Int, NEW name \in VariableNames,
           NEW t, t = EmitNamed(s, op, arg, name),
           s.error = NoError =>
              \A x : x.op = op /\ x.arg = arg /\ x.name = name => Sound(s.contexts, x)
    PROVE  Tame(s, t) /\ Good(t) /\ SameLocals(Current(s), Current(t))
<1>1. PICK c \in Contexts : c = Current(s)
    BY CurrentIsFine
<1>2. PICK d : d = Current(t)
    OBVIOUS
<1>3. /\ GoesOn(s, t) /\ t.error = s.error /\ Front(t.contexts) = Front(s.contexts)
      /\ OneMore(c, d, op, arg, name)
    BY <1>1, <1>2, EmitsOneMore
<1>4. Good(t) /\ Follows(s, t)
    BY <1>3 DEF GoesOn, Follows
<1>5. PICK m \in Nat : m = Len(c.code)
    BY <1>1, CodeLength
<1>6. Len(d.code) = m + 1 /\ \A i \in 1..m : d.code[i] = c.code[i]
    BY <1>3, <1>5 DEF OneMore
<1>7. PICK x : x = [op |-> op, arg |-> arg, name |-> name, h |-> c.height]
    OBVIOUS
<1>8. d.code[m + 1] = x
    BY <1>3, <1>5, <1>7 DEF OneMore
<1>9. PICK n \in Nat : n = Len(s.contexts) /\ n > 0
    BY CurrentIsFine
<1>10. /\ Len(t.contexts) = n /\ c = s.contexts[n] /\ d = t.contexts[n]
    BY <1>1, <1>2, <1>4, <1>9, CurrentIsFine DEF Follows
<1>11. \A j \in 1..n - 1 : t.contexts[j] = s.contexts[j]
    <2>1. s.contexts # <<>> /\ t.contexts # <<>>
          /\ s.contexts \in Seq(Contexts) /\ t.contexts \in Seq(Contexts)
        BY <1>4 DEF Good, States
    <2>2. \A j \in 1..n - 1 : /\ Front(s.contexts)[j] = s.contexts[j]
                              /\ Front(t.contexts)[j] = t.contexts[j]
        BY <1>9, <1>10, <2>1, FrontAndLast
    <2> QED BY <1>3, <2>2
<1>12. \A j \in 1..n : /\ Len(s.contexts[j].locals) \in Nat
                       /\ Len(s.contexts[j].upvalues) \in Nat
    <2>1. \A j \in 1..n : s.contexts[j] \in Contexts
        BY <1>9 DEF Good, Fine
    <2> QED BY <2>1, ContextTypes
<1>13. \A j \in 1..n - 1 : /\ Persists(s.contexts[j], t.contexts[j])
                           /\ t.contexts[j].code = s.contexts[j].code
    BY <1>11, <1>12 DEF Persists
<1>14. \A j \in 1..n : Lengthens(s.contexts[j], t.contexts[j])
    <2>1. d.upvalues = c.upvalues
        BY <1>3 DEF OneMore
    <2>2. \A j \in 1..n : t.contexts[j].upvalues = s.contexts[j].upvalues
        BY <1>10, <1>11, <2>1
    <2> QED BY <1>12, <2>2 DEF Lengthens
<1>20. \A y : Sound(s.contexts, y) => Sound(t.contexts, y)
    <2>1. s.contexts \in Seq(Contexts) /\ t.contexts \in Seq(Contexts)
        BY <1>4 DEF Good, States
    <2>2. ASSUME NEW at, NEW what, Resolved(s.contexts, n, at, what)
          PROVE  Resolved(t.contexts, n, at, what)
        <3>1. PICK cs \in Seq(Contexts) : cs = s.contexts
            BY <2>1
        <3>2. PICK ds \in Seq(Contexts) : ds = t.contexts
            BY <2>1
        <3>3. /\ \A j \in 1..n - 1 : Persists(cs[j], ds[j])
              /\ \A j \in 1..n : Lengthens(cs[j], ds[j])
              /\ n <= Len(cs) /\ n <= Len(ds) /\ Resolved(cs, n, at, what)
            BY <1>9, <1>10, <1>13, <1>14, <2>2, <3>1, <3>2
        <3>4. Resolved(ds, n, at, what)
            BY <3>3, ResolvedOn
        <3> QED BY <3>2, <3>4
    <2> QED BY <1>9, <1>10, <2>2 DEF Sound
<1>15. \A i \in 1..Len(d.code) :
        \/ i \in 1..Len(c.code) /\ Unmoved(c.code[i], d.code[i])
        \/ t.error = NoError => Sound(t.contexts, d.code[i])
    <2>1. TAKE i \in 1..Len(d.code)
    <2>2. CASE i \in 1..m
        BY <1>5, <1>6, <2>2 DEF Unmoved
    <2>3. CASE i = m + 1
        <3>1. d.code[i] = x /\ x.op = op /\ x.arg = arg /\ x.name = name
            BY <1>7, <1>8, <2>3
        <3> QED BY <1>3, <1>20, <3>1
    <2> QED BY <1>6, <2>2, <2>3
<1>16. Scoped(s) => Scoped(t)
    BY <1>3, <1>4, <1>9, <1>10, <1>13, <1>14, <1>15, ScopedOn
<1>17. SameJumps(c, d)
    BY <1>5, <1>6 DEF SameJumps
<1>18. AtBreak(c) => AtBreak(d)
    <2>1. d.last_break = c.last_break
        BY <1>3 DEF OneMore, Steady, SameSettings
    <2> QED BY <1>5, <1>6, <1>17, <2>1, AtJumpOn DEF AtBreak
<1>19. SameLocals(c, d)
    BY <1>3 DEF OneMore, Steady
<1> QED BY <1>1, <1>2, <1>3, <1>4, <1>16, <1>17, <1>18, <1>19 DEF Tame

LEMMA LookUpOps ==
    /\ LookUps \subseteq Operations
    /\ \A op \in {"GET_LOCAL", "SET_LOCAL"} : op \in Operations /\ op \notin LookUps
    /\ \A op \in UpvalueOps : op \in Operations /\ op \notin GlobalOps
    /\ \A op \in GlobalOps : op \in Operations /\ op \notin UpvalueOps
BY DEF LookUps, UpvalueOps, GlobalOps, Operations, Pushes, Keeps

LEMMA ReachesUpvalue ==
    ASSUME NEW s, Good(s), NEW n \in Nat, n = Len(s.contexts), NEW owner \in 1..n - 1,
           NEW name \in VariableNames, ResolveLocal(s.contexts[owner], name) # 0,
           \A m \in owner + 1..n : ResolveLocal(s.contexts[m], name) = 0,
           NEW r, r = ResolveUpvalue(s, owner, name), NEW op \in UpvalueOps,
           NEW t, t = EmitNamed(r.s, op, r.at, name)
    PROVE  Tame(s, t) /\ Good(t) /\ SameLocals(Current(s), Current(t))
<1>1. PICK slot : slot = ResolveLocal(s.contexts[owner], name)
    OBVIOUS
<1>2. PICK link : link = Links(s, owner, name)
    OBVIOUS
<1>3. slot # 0
    BY <1>1
<1>4. Way(s, owner, slot, link)
    BY <1>1, <1>2, <1>3, LinksAre
<1>5. PICK u : u = r.s
    OBVIOUS
<1>6. GetsWider(s, u) /\ r.at \in Slots /\ Threaded(s, u, owner, slot, link) /\ r.at = link[n].at
    BY <1>1, <1>2, <1>5, ResolvesUpvalue
<1>7. Follows(s, u) /\ Good(u) /\ Len(u.contexts) = n
    BY <1>6 DEF GetsWider, Follows
<1>8. \A j \in 1..n : /\ Persists(s.contexts[j], u.contexts[j])
                      /\ Lengthens(s.contexts[j], u.contexts[j])
    BY <1>1, <1>3, <1>4, <1>6, <1>7, ThreadedPersists
<1>9. PICK c \in Contexts : c = Current(s) /\ c = s.contexts[n]
    BY CurrentIsFine
<1>10. PICK d \in Contexts : d = Current(u) /\ d = u.contexts[n]
    BY <1>7, CurrentIsFine
<1>11. SameLocals(c, d) /\ d.code = c.code /\ d.last_break = c.last_break
    <2>1. Alike(Current(s), Current(u))
        BY <1>5, ResolvesUpvalue
    <2> QED BY <1>9, <1>10, <2>1 DEF Alike, SameSettings
<1>12. u.error = NoError => s.error = NoError
    BY <1>6 DEF Threaded
<1>13. Tame(s, u)
    <2>1. \A j \in 1..n - 1 : u.contexts[j].code = s.contexts[j].code
        BY <1>7 DEF Follows, Alike
    <2>2. \A i \in 1..Len(d.code) : i \in 1..Len(c.code) /\ Unmoved(c.code[i], d.code[i])
        BY <1>11 DEF Unmoved
    <2>3. \A j \in 1..n - 1 : /\ Persists(s.contexts[j], u.contexts[j])
                              /\ u.contexts[j].code = s.contexts[j].code
        BY <1>8, <2>1
    <2>4. Scoped(s) => Scoped(u)
        BY <1>7, <1>8, <1>9, <1>10, <1>12, <2>2, <2>3, ScopedOn
    <2>5. SameJumps(c, d)
        BY <1>9, <1>11, CodeLength DEF SameJumps
    <2>6. AtBreak(c) => AtBreak(d)
        BY <1>11 DEF AtBreak, AtJump
    <2> QED BY <1>7, <1>9, <1>10, <1>12, <2>4, <2>5, <2>6 DEF Tame
<1>14. u.error = NoError => Resolved(u.contexts, n, r.at, name)
    <2>1. \A m \in owner + 1..n - 1 : ResolveLocal(s.contexts[m], name) = 0
        OBVIOUS
    <2>2. u.error = NoError => Resolved(u.contexts, n, link[n].at, name)
        BY <1>1, <1>3, <1>4, <1>6, <1>7, <2>1, ThreadedResolves
    <2> QED BY <1>6, <2>2
<1>15. op \in Operations /\ op \notin GlobalOps
    BY LookUpOps
<1>16. u.error = NoError =>
        \A x : x.op = op /\ x.arg = r.at /\ x.name = name => Sound(u.contexts, x)
    BY <1>7, <1>14, <1>15 DEF Sound
<1>17. r.at \in Int
    <2>1. UINT8_COUNT \in Nat
        BY Limits
    <2> QED BY <1>6, <2>1 DEF Slots
<1>18. Tame(u, t) /\ Good(t) /\ SameLocals(Current(u), Current(t))
    BY <1>5, <1>7, <1>15, <1>16, <1>17, OneMoreTame
<1>19. SameLocals(c, Current(t))
    <2>1. PICK e : e = Current(t)
        OBVIOUS
    <2>2. SameLocals(c, d) /\ SameLocals(d, e)
        BY <1>10, <1>11, <1>18, <2>1
    <2>3. SameLocals(c, e)
        BY <2>2 DEF SameLocals
    <2> QED BY <2>1, <2>3
<1> QED BY <1>9, <1>13, <1>18, <1>19, TameOn

LEMMA LooksUpTame ==
    ASSUME NEW s, Good(s), NEW name \in VariableNames, Known(s, name), NEW canAssign,
           NEW t, t = NamedVariable(s, name, canAssign)
    PROVE  Tame(s, t) /\ Good(t) /\ SameLocals(Current(s), Current(t))
<1>1. PICK c \in Contexts : c = Current(s) /\ Fine(c)
    BY CurrentIsFine
<1>2. PICK n \in Nat : n = Len(s.contexts) /\ n # 0
    BY CurrentIsFine
<1>3. PICK slot : slot = ResolveLocal(c, name)
    OBVIOUS
<1>4. PICK S : S = {0} \cup {j \in 1..n - 1 : ResolveLocal(s.contexts[j], name) # 0}
    OBVIOUS
<1>5. PICK owner : owner = Max(S)
    OBVIOUS
<1>6. owner \in S /\ \A j \in S : j <= owner
    <2>1. S \subseteq 0..n /\ S # {}
        BY <1>4
    <2> QED BY <1>5, <2>1, MaxIs
<1>7. CASE slot # 0
    <2>1. PICK wrong : wrong = (c.locals[slot].depth = -1)
        OBVIOUS
    <2>2. PICK what \in Errors : what = "Can't read local variable in its own initializer"
        BY DEF Errors
    <2>3. PICK u : u = FailIf(s, wrong, what)
        OBVIOUS
    <2>4. PICK op : op = IF canAssign THEN "SET_LOCAL" ELSE "GET_LOCAL"
        OBVIOUS
    <2>5. t = EmitNamed(u, op, slot - 1, name)
        BY <1>1, <1>3, <1>7, <2>1, <2>2, <2>3, <2>4 DEF NamedVariable
    <2>6. op \in Operations /\ op \notin LookUps
        BY <2>4, LookUpOps
    <2>7. PICK at \in Int : at = slot - 1
        <3>1. slot \in 0..Len(c.locals) /\ Len(c.locals) \in Nat
            BY <1>3, Resolves, ContextTypes
        <3> QED BY <3>1
    <2>8. Good(u) /\ Tame(s, u) /\ Current(u) = c
        BY <1>1, <2>3, FailTame
    <2>9. Tame(u, t) /\ Good(t) /\ SameLocals(c, Current(t))
        BY <2>5, <2>6, <2>7, <2>8, EmitTame
    <2> QED BY <1>1, <2>8, <2>9, TameOn
<1>8. CASE slot = 0 /\ owner # 0
    <2>1. owner \in 1..n - 1 /\ ResolveLocal(s.contexts[owner], name) # 0
        BY <1>4, <1>6, <1>8
    <2>2. PICK found : found = ResolveUpvalue(s, owner, name)
        OBVIOUS
    <2>3. PICK op : op = IF canAssign THEN "SET_UPVALUE" ELSE "GET_UPVALUE"
        OBVIOUS
    <2>4. t = EmitNamed(found.s, op, found.at, name)
        BY <1>1, <1>2, <1>3, <1>4, <1>5, <1>8, <2>2, <2>3 DEF NamedVariable
    <2>5. op \in UpvalueOps
        BY <2>3 DEF UpvalueOps
    <2>6. \A m \in owner + 1..n : ResolveLocal(s.contexts[m], name) = 0
        <3>1. ASSUME NEW m \in owner + 1..n - 1, ResolveLocal(s.contexts[m], name) # 0 PROVE FALSE
            <4>1. m \in S
                BY <1>4, <2>1, <3>1
            <4>2. m <= owner
                BY <1>6, <4>1
            <4> QED BY <2>1, <4>2
        <3>2. ResolveLocal(s.contexts[n], name) = 0
            BY <1>1, <1>2, <1>3, <1>8, CurrentIsFine
        <3>3. \A m \in owner + 1..n : m \in owner + 1..n - 1 \/ m = n
            BY <2>1
        <3> QED BY <3>1, <3>2, <3>3
    <2> QED BY <1>2, <2>1, <2>2, <2>4, <2>5, <2>6, ReachesUpvalue
<1>9. CASE slot = 0 /\ owner = 0
    <2>1. PICK op : op = IF canAssign THEN "SET_GLOBAL" ELSE "GET_GLOBAL"
        OBVIOUS
    <2>2. t = EmitNamed(s, op, 0, name)
        BY <1>1, <1>2, <1>3, <1>4, <1>5, <1>9, <2>1 DEF NamedVariable
    <2>3. op \in GlobalOps
        BY <2>1 DEF GlobalOps
    <2>4. op \in Operations /\ op \notin UpvalueOps
        BY <2>3, LookUpOps
    <2>5. ~Found(s, name)
        <3> SUFFICES ASSUME NEW j \in 1..n, NEW i \in 1..Len(s.contexts[j].locals),
                            s.contexts[j].locals[i].name = name
                     PROVE  FALSE
            BY <1>2 DEF Found
        <3>1. s.contexts[j] \in Contexts
            BY <1>2 DEF Good, Fine
        <3>2. PICK at : at = ResolveLocal(s.contexts[j], name)
            OBVIOUS
        <3>3. i <= at /\ at \in 0..Len(s.contexts[j].locals)
            BY <3>1, <3>2, Resolves
        <3>4. at # 0
            BY <3>3
        <3>5. CASE j = n
            BY <1>1, <1>2, <1>3, <1>9, <3>2, <3>4, <3>5, CurrentIsFine
        <3>6. CASE j # n
            <4>1. j \in S
                BY <1>4, <3>2, <3>4, <3>6
            <4> QED BY <1>6, <1>9, <4>1
        <3> QED BY <3>5, <3>6
    <2>6. s.error = NoError => name \in Names
        BY <2>5 DEF Known
    <2>7. PICK zero \in Int : zero = 0
        OBVIOUS
    <2>8. s.error = NoError =>
            \A x : x.op = op /\ x.arg = zero /\ x.name = name => Sound(s.contexts, x)
        BY <2>4, <2>6 DEF Sound
    <2> QED BY <2>2, <2>4, <2>7, <2>8, OneMoreTame
<1> QED BY <1>7, <1>8, <1>9

-----------------------------------------------------------------------------
(* The locals of a function and the scopes still to end.                   *)

SameScope(c, d) == SameLocals(c, d) /\ d.scopeDepth = c.scopeDepth /\ d.visible = c.visible

(* A local may have been given its value.                                  *)
GetsValue(c, d) ==
    /\ Len(d.locals) = Len(c.locals) /\ d.scopeDepth = c.scopeDepth /\ d.visible = c.visible
    /\ \A i \in 1..Len(c.locals) :
        /\ d.locals[i].name = c.locals[i].name
        /\ \/ d.locals[i].depth = c.locals[i].depth
           \/ c.locals[i].depth = -1 /\ d.locals[i].depth = c.scopeDepth

LEMMA ScopeTypes ==
    ASSUME NEW c \in Contexts
    PROVE  /\ c.scopeDepth \in Nat /\ Len(c.locals) \in Nat /\ Len(c.visible) \in Nat
           /\ c.locals \in Seq(LocalRecords) /\ c.visible \in Seq(VariableNames)
           /\ \A i \in 1..Len(c.locals) :
                c.locals[i] \in LocalRecords /\ c.locals[i].depth \in Nat \cup {-1}
<1>1. c.scopeDepth \in Nat /\ c.locals \in Seq(LocalRecords) /\ c.visible \in Seq(VariableNames)
    BY DEF Contexts
<1>2. \A i \in 1..Len(c.locals) : c.locals[i] \in LocalRecords
    BY <1>1, ElementOfSeq
<1>3. \A x \in LocalRecords : x.depth \in Nat \cup {-1}
    BY DEF LocalRecords
<1>4. Len(c.locals) \in Nat /\ Len(c.visible) \in Nat
    BY <1>1
<1> QED BY <1>1, <1>2, <1>3, <1>4

LEMMA BaseOfScope ==
    ASSUME NEW t \in ScopeTasks
    PROVE  Base(t) \in Nat
BY BaseIsNat DEF ScopeTasks, Based, ForTasks, LoopTasks

LEMMA LaidOn ==
    ASSUME NEW strict \in BOOLEAN,
           NEW c \in Contexts, NEW d, GetsValue(c, d), NEW w \in Seq(Tasks), Laid(c, w, strict)
    PROVE  Laid(d, w, strict)
<1>1. PICK place \in [1..Len(c.locals) -> 1..Len(c.visible)],
           level \in [1..Len(w) + 1 -> 0..c.scopeDepth] :
        /\ Shown(c, place, strict) /\ Levels(c, w, level)
        /\ \A k \in 1..Len(w) : w[k] \in ScopeTasks => Bounds(c, place, level[k], Base(w[k]), strict)
    BY DEF Laid
<1>2. /\ Len(d.locals) = Len(c.locals) /\ d.scopeDepth = c.scopeDepth /\ d.visible = c.visible
      /\ Len(c.locals) \in Nat /\ c.scopeDepth \in Nat
    BY ScopeTypes DEF GetsValue
<1>3. \A i \in 1..Len(c.locals) :
        /\ d.locals[i].name = c.locals[i].name /\ Deep(d, i) = Deep(c, i)
        /\ d.locals[i].depth = -1 => c.locals[i].depth = -1
        /\ d.locals[i].depth = c.locals[i].depth \/ d.locals[i].depth = c.scopeDepth
        /\ c.locals[i].depth # -1 => d.locals[i].depth = c.locals[i].depth
    BY <1>2 DEF GetsValue, Deep
<1>4. Shown(d, place, strict)
    <2>1. ASSUME NEW i \in 1..Len(c.locals), NEW j \in 1..i - 1
          PROVE  d.locals[j].depth <= Deep(d, i)
        <3>1. c.locals[j].depth # -1 /\ j \in 1..Len(c.locals)
            BY <1>1, <1>2 DEF Shown
        <3> QED BY <1>1, <1>3, <3>1 DEF Shown
    <2>2. \A i \in 1..Len(c.locals) : d.locals[i].depth <= d.scopeDepth
        <3>1. \A i \in 1..Len(c.locals) : c.locals[i].depth <= c.scopeDepth
            BY <1>1 DEF Shown
        <3> QED BY <1>2, <1>3, <3>1
    <2> QED BY <1>1, <1>2, <1>3, <2>1, <2>2 DEF Shown
<1>5. \A k \in 1..Len(w) : w[k] \in ScopeTasks => Bounds(d, place, level[k], Base(w[k]), strict)
    BY <1>1, <1>2, <1>3 DEF Bounds
<1>6. Levels(d, w, level)
    BY <1>1, <1>2 DEF Levels
<1> QED BY <1>1, <1>2, <1>4, <1>5, <1>6 DEF Laid

LEMMA SameScopeGetsValue ==
    ASSUME NEW c, NEW d, SameScope(c, d)
    PROVE  GetsValue(c, d)
BY DEF SameScope, SameLocals, GetsValue

LEMMA LaidAdds ==
    ASSUME NEW strict \in BOOLEAN,
           NEW c \in Contexts, NoneWaits(c), NEW d, NEW name,
           d.locals = Append(c.locals, [name |-> name, depth |-> -1, captured |-> FALSE]),
           d.visible = Append(c.visible, name), d.scopeDepth = c.scopeDepth,
           NEW w \in Seq(Tasks), Laid(c, w, strict)
    PROVE  Laid(d, w, strict)
<1>1. PICK old \in [1..Len(c.locals) -> 1..Len(c.visible)],
           level \in [1..Len(w) + 1 -> 0..c.scopeDepth] :
        /\ Shown(c, old, strict) /\ Levels(c, w, level)
        /\ \A k \in 1..Len(w) : w[k] \in ScopeTasks => Bounds(c, old, level[k], Base(w[k]), strict)
    BY DEF Laid
<1>2. PICK n \in Nat : n = Len(c.locals)
    BY ScopeTypes
<1>3. PICK m \in Nat : m = Len(c.visible)
    BY ScopeTypes
<1>4. /\ Len(d.locals) = n + 1 /\ d.locals[n + 1].name = name /\ d.locals[n + 1].depth = -1
      /\ \A i \in 1..n : d.locals[i] = c.locals[i]
    <2>1. PICK x : x = [name |-> name, depth |-> -1, captured |-> FALSE]
        OBVIOUS
    <2>2. PICK old1 \in Seq(LocalRecords) : old1 = c.locals
        BY ScopeTypes
    <2>3. PICK new : new = Append(old1, x)
        OBVIOUS
    <2>4. Len(new) = n + 1 /\ new[n + 1] = x /\ \A i \in 1..n : new[i] = old1[i]
        BY <1>2, <2>2, <2>3
    <2> QED BY <2>1, <2>2, <2>3, <2>4
<1>5. /\ Len(d.visible) = m + 1 /\ d.visible[m + 1] = name
      /\ \A i \in 1..m : d.visible[i] = c.visible[i]
    <2>1. PICK was \in Seq(VariableNames) : was = c.visible
        BY ScopeTypes
    <2>2. PICK new : new = Append(was, name)
        OBVIOUS
    <2>3. Len(new) = m + 1 /\ new[m + 1] = name /\ \A i \in 1..m : new[i] = was[i]
        BY <1>3, <2>1, <2>2
    <2> QED BY <2>1, <2>2, <2>3
<1>6. c.scopeDepth \in Nat /\ \A i \in 1..n : c.locals[i].depth \in Nat
    BY <1>2, ScopeTypes DEF NoneWaits
<1>7. PICK place : place = [i \in 1..n + 1 |-> IF i = n + 1 THEN m + 1 ELSE old[i]]
    OBVIOUS
<1>8. \A i \in 1..n : old[i] \in i..m
    BY <1>1, <1>2, <1>3 DEF Shown
<1>9. /\ place \in [1..n + 1 -> 1..m + 1] /\ place[n + 1] = m + 1
      /\ \A i \in 1..n : place[i] = old[i]
    BY <1>7, <1>8
<1>10. n <= m
    <2>1. CASE n = 0
        BY <2>1
    <2>2. CASE n # 0
        <3>1. n \in 1..n
            BY <2>2
        <3>2. old[n] \in n..m
            BY <1>8, <3>1
        <3> QED BY <3>2
    <2> QED BY <2>1, <2>2
<1>11. /\ Deep(d, n + 1) = c.scopeDepth
       /\ \A i \in 1..n : Deep(d, i) = Deep(c, i) /\ Deep(c, i) = c.locals[i].depth
    BY <1>4, <1>6 DEF Deep
<1>12. \A i \in 1..n + 1 : i \in 1..n \/ i = n + 1
    OBVIOUS
<1>13. Shown(d, place, strict)
    <2>1. ASSUME NEW i \in 1..n
          PROVE  /\ place[i] \in i..m + 1 /\ d.visible[place[i]] = d.locals[i].name
                 /\ d.locals[i].depth <= c.scopeDepth
                 /\ d.locals[i].depth # -1
                 /\ \A j \in 1..i - 1 : d.locals[j].depth <= Deep(d, i)
        <3>1. /\ old[i] \in i..m /\ c.visible[old[i]] = c.locals[i].name
              /\ c.locals[i].depth <= c.scopeDepth
              /\ \A j \in 1..i - 1 : c.locals[j].depth <= Deep(c, i)
            BY <1>1, <1>2, <1>3 DEF Shown
        <3>2. \A j \in 1..i - 1 : d.locals[j] = c.locals[j]
            BY <1>4
        <3>3. d.visible[old[i]] = c.visible[old[i]]
            BY <1>5, <3>1
        <3>4. place[i] = old[i] /\ d.locals[i] = c.locals[i]
            BY <1>4, <1>9
        <3>5. place[i] \in i..m + 1
            BY <3>1, <3>4
        <3>6. c.locals[i].depth \in Nat
            BY <1>6
        <3>7. c.locals[i].depth # -1
            BY <3>6
        <3>8. Deep(d, i) = Deep(c, i)
            BY <1>11
        <3> QED BY <3>1, <3>2, <3>3, <3>4, <3>5, <3>7, <3>8
    <2>2. \A j \in 1..n : d.locals[j].depth <= c.scopeDepth
        BY <2>1
    <2>3. strict => m + 1 = n + 1 /\ \A i \in 1..n + 1 : place[i] = i
        <3>1. strict => m = n /\ \A i \in 1..n : old[i] = i
            BY <1>1, <1>2, <1>3 DEF Shown
        <3> QED BY <1>9, <1>12, <3>1
    <2>4. /\ place[n + 1] \in n + 1..m + 1 /\ d.visible[place[n + 1]] = d.locals[n + 1].name
          /\ d.locals[n + 1].depth <= c.scopeDepth
        BY <1>4, <1>5, <1>6, <1>9, <1>10
    <2>5. \A j \in 1..n + 1 - 1 : d.locals[j].depth <= Deep(d, n + 1)
        <3>1. TAKE j \in 1..n + 1 - 1
        <3>2. j \in 1..n
            OBVIOUS
        <3> QED BY <1>11, <2>2, <3>2
    <2> QED BY <1>4, <1>5, <1>12, <2>1, <2>3, <2>4, <2>5, SMTT(30) DEF Shown
<1>14. ASSUME NEW k \in 1..Len(w), w[k] \in ScopeTasks
       PROVE  Bounds(d, place, level[k], Base(w[k]), strict)
    <2>1. PICK base \in Nat : base = Base(w[k])
        BY <1>14, BaseOfScope
    <2>2. PICK l : l = level[k]
        OBVIOUS
    <2>3. Bounds(c, old, l, base, strict) /\ l <= c.scopeDepth
        BY <1>1, <1>14, <2>1, <2>2 DEF Levels
    <2>4. l \in Int
        <3>1. k \in 1..Len(w) + 1
            OBVIOUS
        <3> QED BY <1>1, <1>6, <2>2, <3>1
    <2>5. base <= m + 1 /\ (strict => base < n + 1)
        BY <1>1, <1>2, <1>3, <2>3 DEF Bounds, Shown
    <2>6. ~(c.scopeDepth < l)
        BY <1>6, <2>3, <2>4
    <2>7. ASSUME NEW i \in 1..n + 1
          PROVE  /\ Deep(d, i) < l => place[i] <= base
                 /\ strict /\ i <= base => Deep(d, i) < l
        <3>1. CASE i \in 1..n
            BY <1>2, <1>9, <1>11, <2>3, <3>1 DEF Bounds
        <3>2. CASE i = n + 1
            BY <1>11, <2>5, <2>6, <3>2
        <3> QED BY <1>12, <3>1, <3>2
    <2>8. Len(d.locals) = n + 1 /\ base <= Len(d.visible)
        BY <1>4, <1>5, <2>5
    <2>9. Bounds(d, place, l, base, strict)
        BY <2>7, <2>8 DEF Bounds
    <2> QED BY <2>1, <2>2, <2>9
<1>15. Levels(d, w, level)
    BY <1>1 DEF Levels
<1> QED BY <1>1, <1>4, <1>5, <1>9, <1>13, <1>14, <1>15 DEF Laid

(* A scope begins, and task t ends it.                                     *)
LEMMA LaidOpens ==
    ASSUME NEW strict \in BOOLEAN,
           NEW c \in Contexts, NoneWaits(c), NEW w \in Seq(Tasks), Laid(c, w, strict),
           NEW d, d.locals = c.locals, d.visible = c.visible, d.scopeDepth = c.scopeDepth + 1,
           NEW t \in ScopeTasks, Base(t) = Len(c.visible), NEW u, u = <<t>> \o w
    PROVE  Laid(d, u, strict)
<1>1. PICK place \in [1..Len(c.locals) -> 1..Len(c.visible)],
           old \in [1..Len(w) + 1 -> 0..c.scopeDepth] :
        /\ Shown(c, place, strict) /\ Levels(c, w, old)
        /\ \A k \in 1..Len(w) : w[k] \in ScopeTasks => Bounds(c, place, old[k], Base(w[k]), strict)
    BY DEF Laid
<1>2. /\ c.scopeDepth \in Nat /\ Len(c.locals) \in Nat /\ Len(c.visible) \in Nat
      /\ \A i \in 1..Len(c.locals) : c.locals[i].depth \in Nat
    BY ScopeTypes DEF NoneWaits
<1>3. PICK n \in Nat : n = Len(w)
    OBVIOUS
<1>4. Len(u) = n + 1 /\ u[1] = t /\ \A k \in 1..n : u[k + 1] = w[k]
    <2>1. t \in Tasks
        BY DEF ScopeTasks
    <2> QED BY <1>3, <2>1
<1>5. PICK level : level = [k \in 1..n + 2 |-> IF k = 1 THEN c.scopeDepth + 1 ELSE old[k - 1]]
    OBVIOUS
<1>6. \A k \in 1..n + 1 : old[k] \in 0..c.scopeDepth /\ level[k + 1] = old[k] /\ k + 1 \in 2..n + 2
    <2>1. TAKE k \in 1..n + 1
    <2>2. (k + 1) - 1 = k /\ k + 1 # 1 /\ k + 1 \in 1..n + 2 /\ k + 1 \in 2..n + 2
        OBVIOUS
    <2>3. old[k] \in 0..c.scopeDepth
        BY <1>1, <1>3
    <2> QED BY <1>5, <2>2, <2>3
<1>7. level[1] = c.scopeDepth + 1 /\ level[2] = c.scopeDepth /\ old[1] = c.scopeDepth
    <2>1. old[1] = c.scopeDepth
        BY <1>1 DEF Levels
    <2> QED BY <1>5, <2>1
<1>8. level \in [1..Len(u) + 1 -> 0..d.scopeDepth]
    <2>1. ASSUME NEW k \in 1..n + 2
          PROVE  (IF k = 1 THEN c.scopeDepth + 1 ELSE old[k - 1]) \in 0..c.scopeDepth + 1
        <3>1. CASE k = 1
            BY <1>2, <3>1
        <3>2. CASE k # 1
            <4>1. k - 1 \in 1..n + 1
                BY <3>2
            <4> QED BY <1>2, <1>6, <3>2, <4>1
        <3> QED BY <3>1, <3>2
    <2>2. Len(u) + 1 = n + 2
        BY <1>4
    <2> QED BY <1>5, <2>1, <2>2
<1>9. \A k \in 1..n + 1 : k = 1 \/ (k - 1 \in 1..n /\ k = (k - 1) + 1)
    OBVIOUS
<1>10. Levels(d, u, level)
    <2>1. ASSUME NEW k \in 1..n
          PROVE  /\ level[k + 1] = IF u[k + 1] \in ScopeTasks THEN level[k + 1 + 1] + 1 ELSE level[k + 1 + 1]
                 /\ level[k + 1] <= d.scopeDepth
        <3>1. k \in 1..n + 1 /\ k + 1 \in 1..n + 1
            OBVIOUS
        <3>2. /\ level[k + 1] = old[k] /\ level[k + 1 + 1] = old[k + 1] /\ u[k + 1] = w[k]
              /\ old[k] \in 0..c.scopeDepth
            BY <1>4, <1>6, <3>1
        <3>3. old[k] = IF w[k] \in ScopeTasks THEN old[k + 1] + 1 ELSE old[k + 1]
            BY <1>1, <1>3 DEF Levels
        <3>4. old[k] <= d.scopeDepth
            BY <1>2, <3>2
        <3> QED BY <3>2, <3>3, <3>4
    <2>2. \A k \in 1..Len(u) :
            /\ level[k] = IF u[k] \in ScopeTasks THEN level[k + 1] + 1 ELSE level[k + 1]
            /\ level[k] <= d.scopeDepth
        <3>1. TAKE k \in 1..Len(u)
        <3>2. CASE k = 1
            BY <1>2, <1>4, <1>7, <3>2
        <3>3. CASE k # 1
            <4>1. k - 1 \in 1..n /\ k = (k - 1) + 1
                BY <1>4, <3>3
            <4>2. PICK i \in 1..n : i = k - 1
                BY <4>1
            <4>3. k = i + 1
                BY <4>2
            <4> QED BY <2>1, <4>3
        <3> QED BY <3>2, <3>3
    <2> QED BY <1>7, <2>2 DEF Levels
<1>11. \A i \in 1..Len(c.locals) : Deep(c, i) = Deep(d, i) /\ Deep(c, i) <= c.scopeDepth
    BY <1>1, <1>2 DEF Deep, Shown
<1>12. Shown(d, place, strict)
    <2>1. \A i \in 1..Len(c.locals) : c.locals[i].depth <= d.scopeDepth
        <3>1. \A i \in 1..Len(c.locals) : c.locals[i].depth <= c.scopeDepth
            BY <1>1 DEF Shown
        <3> QED BY <1>2, <3>1
    <2> QED BY <1>1, <1>11, <2>1 DEF Shown
<1>13. ASSUME NEW k \in 1..Len(u), u[k] \in ScopeTasks
       PROVE  Bounds(d, place, level[k], Base(u[k]), strict)
    <2>1. CASE k = 1
        <3>1. Bounds(d, place, c.scopeDepth + 1, Len(c.visible), strict)
            <4>1. \A i \in 1..Len(c.locals) :
                    place[i] <= Len(c.visible) /\ Deep(d, i) < c.scopeDepth + 1
                <5>1. TAKE i \in 1..Len(c.locals)
                <5>2. place[i] \in 1..Len(c.visible) /\ c.locals[i].depth \in Nat
                    BY <1>1, <1>2
                <5>3. Deep(c, i) \in Nat /\ Deep(d, i) = Deep(c, i) /\ Deep(c, i) <= c.scopeDepth
                    BY <1>11, <5>2 DEF Deep
                <5> QED BY <1>2, <5>2, <5>3
            <4> QED BY <1>2, <4>1 DEF Bounds
        <3> QED BY <1>4, <1>7, <2>1, <3>1
    <2>2. CASE k # 1
        <3>1. PICK i \in 1..n : i = k - 1 /\ k = i + 1 /\ i \in 1..n + 1
            BY <1>4, <2>2
        <3>2. level[k] = old[i] /\ u[k] = w[i]
            BY <1>4, <1>6, <3>1
        <3>3. Bounds(c, place, old[i], Base(w[i]), strict)
            BY <1>1, <1>3, <1>13, <3>1, <3>2
        <3>4. Bounds(d, place, old[i], Base(w[i]), strict)
            BY <1>11, <3>3 DEF Bounds
        <3> QED BY <3>2, <3>4
    <2> QED BY <2>1, <2>2
<1> QED BY <1>1, <1>8, <1>10, <1>12, <1>13 DEF Laid

(* Work that ends no scope comes in front, or is done.                     *)
LEMMA LaidFront ==
    ASSUME NEW strict \in BOOLEAN,
           NEW c \in Contexts, NEW w \in Seq(Tasks), Laid(c, w, strict), NEW m \in Nat,
           NEW u \in Seq(Tasks), Len(u) = m + Len(w), \A k \in 1..Len(w) : u[m + k] = w[k],
           \A k \in 1..m : u[k] \notin ScopeTasks
    PROVE  Laid(c, u, strict)
<1>1. PICK place \in [1..Len(c.locals) -> 1..Len(c.visible)],
           old \in [1..Len(w) + 1 -> 0..c.scopeDepth] :
        /\ Shown(c, place, strict) /\ Levels(c, w, old)
        /\ \A k \in 1..Len(w) : w[k] \in ScopeTasks => Bounds(c, place, old[k], Base(w[k]), strict)
    BY DEF Laid
<1>2. PICK n \in Nat : n = Len(w)
    OBVIOUS
<1>3. PICK depth \in Nat : depth = c.scopeDepth
    BY ScopeTypes
<1>4. PICK level : level = [k \in 1..m + n + 1 |-> IF k <= m THEN depth ELSE old[k - m]]
    OBVIOUS
<1>5. old[1] = depth /\ old \in [1..n + 1 -> 0..depth]
    BY <1>1, <1>2, <1>3 DEF Levels
<1>6. \A k \in 1..m + 1 : level[k] = depth
    <2>1. TAKE k \in 1..m + 1
    <2>2. CASE k <= m
        BY <1>2, <1>4, <2>2
    <2>3. CASE k = m + 1
        <3>1. k - m = 1 /\ ~(k <= m) /\ k \in 1..m + n + 1
            BY <1>2, <2>3
        <3> QED BY <1>4, <1>5, <3>1
    <2> QED BY <2>2, <2>3
<1>7. \A i \in 1..n + 1 : level[m + i] = old[i] /\ old[i] \in 0..depth
    <2>1. TAKE i \in 1..n + 1
    <2>2. m + i - m = i /\ ~(m + i <= m) /\ m + i \in 1..m + n + 1
        OBVIOUS
    <2> QED BY <1>4, <1>5, <2>2
<1>8. level \in [1..m + n + 1 -> 0..depth]
    <2>1. ASSUME NEW k \in 1..m + n + 1
          PROVE  (IF k <= m THEN depth ELSE old[k - m]) \in 0..depth
        <3>1. CASE k <= m
            BY <3>1
        <3>2. CASE ~(k <= m)
            <4>1. k - m \in 1..n + 1
                BY <1>2, <3>2
            <4> QED BY <1>5, <3>2, <4>1
        <3> QED BY <3>1, <3>2
    <2> QED BY <1>4, <2>1
<1>9. ASSUME NEW k \in 1..Len(u)
      PROVE  k \in 1..m \/ \E i \in 1..n : k = m + i
    <2>1. k \in 1..m + n
        BY <1>2
    <2>2. CASE k <= m
        BY <2>1, <2>2
    <2>3. CASE ~(k <= m)
        <3>1. k - m \in 1..n /\ k = m + (k - m)
            BY <2>1, <2>3
        <3> QED BY <3>1
    <2> QED BY <2>2, <2>3
<1>10. Levels(c, u, level)
    <2>1. ASSUME NEW k \in 1..m
          PROVE  /\ level[k] = IF u[k] \in ScopeTasks THEN level[k + 1] + 1 ELSE level[k + 1]
                 /\ level[k] <= depth
        <3>1. k \in 1..m + 1 /\ k + 1 \in 1..m + 1
            OBVIOUS
        <3> QED BY <1>6, <3>1
    <2>2. ASSUME NEW i \in 1..n
          PROVE  /\ level[m + i] = IF u[m + i] \in ScopeTasks THEN level[m + i + 1] + 1
                                                             ELSE level[m + i + 1]
                 /\ level[m + i] <= depth
        <3>1. i \in 1..n + 1 /\ i + 1 \in 1..n + 1 /\ m + i + 1 = m + (i + 1)
            OBVIOUS
        <3>2. level[m + i] = old[i] /\ level[m + i + 1] = old[i + 1] /\ u[m + i] = w[i] /\ old[i] <= depth
            BY <1>2, <1>7, <3>1
        <3>3. old[i] = IF w[i] \in ScopeTasks THEN old[i + 1] + 1 ELSE old[i + 1]
            BY <1>1, <1>2 DEF Levels
        <3> QED BY <3>2, <3>3
    <2>3. level[1] = depth
        BY <1>6
    <2>4. \A k \in 1..Len(u) :
            /\ level[k] = IF u[k] \in ScopeTasks THEN level[k + 1] + 1 ELSE level[k + 1]
            /\ level[k] <= depth
        <3>1. TAKE k \in 1..Len(u)
        <3>2. CASE k \in 1..m
            BY <2>1, <3>2
        <3>3. CASE \E i \in 1..n : k = m + i
            BY <2>2, <3>3
        <3> QED BY <1>9, <3>2, <3>3
    <2> QED BY <1>3, <2>3, <2>4 DEF Levels
<1>11. ASSUME NEW k \in 1..Len(u), u[k] \in ScopeTasks
       PROVE  Bounds(c, place, level[k], Base(u[k]), strict)
    <2>1. PICK i \in 1..n : k = m + i
        BY <1>9, <1>11
    <2>2. i \in 1..n + 1 /\ u[k] = w[i]
        BY <1>2, <2>1
    <2>3. level[k] = old[i]
        BY <1>7, <2>1, <2>2
    <2> QED BY <1>1, <1>2, <1>11, <2>2, <2>3
<1>12. Len(u) + 1 = m + n + 1
    BY <1>2
<1> QED BY <1>1, <1>3, <1>8, <1>10, <1>11, <1>12 DEF Laid

LEMMA LaidBehind ==
    ASSUME NEW strict \in BOOLEAN,
           NEW c \in Contexts, NEW w \in Seq(Tasks), w # <<>>, Laid(c, w, strict),
           w[1] \notin ScopeTasks
    PROVE  Laid(c, Tail(w), strict)
<1>1. PICK place \in [1..Len(c.locals) -> 1..Len(c.visible)],
           old \in [1..Len(w) + 1 -> 0..c.scopeDepth] :
        /\ Shown(c, place, strict) /\ Levels(c, w, old)
        /\ \A k \in 1..Len(w) : w[k] \in ScopeTasks => Bounds(c, place, old[k], Base(w[k]), strict)
    BY DEF Laid
<1>2. PICK r \in Seq(Tasks) : r = Tail(w)
    BY TailOf
<1>3. PICK n \in Nat : n = Len(r)
    OBVIOUS
<1>4. Len(w) = n + 1 /\ \A k \in 1..n : r[k] = w[k + 1] /\ k + 1 \in 1..Len(w)
    BY <1>2, <1>3, TailOf
<1>5. PICK level : level = [k \in 1..n + 1 |-> old[k + 1]]
    OBVIOUS
<1>6. \A k \in 1..n + 1 : level[k] = old[k + 1] /\ old[k + 1] \in 0..c.scopeDepth
    <2>1. \A k \in 1..n + 1 : k + 1 \in 1..Len(w) + 1
        BY <1>4
    <2> QED BY <1>1, <1>5, <2>1
<1>7. level \in [1..n + 1 -> 0..c.scopeDepth]
    BY <1>5, <1>6
<1>8. level[1] = c.scopeDepth
    <2>1. old[1] = c.scopeDepth /\ old[1] = old[1 + 1]
        <3>1. 1 \in 1..Len(w)
            BY <1>4
        <3> QED BY <1>1, <3>1 DEF Levels
    <2>2. 1 \in 1..n + 1
        OBVIOUS
    <2> QED BY <1>6, <2>1, <2>2
<1>9. Levels(c, r, level)
    <2>1. ASSUME NEW k \in 1..n
          PROVE  /\ level[k] = IF r[k] \in ScopeTasks THEN level[k + 1] + 1 ELSE level[k + 1]
                 /\ level[k] <= c.scopeDepth
        <3>1. k \in 1..n + 1 /\ k + 1 \in 1..n + 1
            OBVIOUS
        <3>2. level[k] = old[k + 1] /\ level[k + 1] = old[k + 1 + 1]
            BY <1>6, <3>1
        <3>3. /\ old[k + 1] = IF w[k + 1] \in ScopeTasks THEN old[k + 1 + 1] + 1 ELSE old[k + 1 + 1]
              /\ old[k + 1] <= c.scopeDepth
            BY <1>1, <1>4 DEF Levels
        <3> QED BY <1>4, <3>2, <3>3
    <2> QED BY <1>3, <1>8, <2>1 DEF Levels
<1>10. ASSUME NEW k \in 1..n, r[k] \in ScopeTasks
       PROVE  Bounds(c, place, level[k], Base(r[k]), strict)
    <2>1. k \in 1..n + 1
        OBVIOUS
    <2>2. level[k] = old[k + 1] /\ r[k] = w[k + 1] /\ k + 1 \in 1..Len(w)
        BY <1>4, <1>6, <2>1
    <2> QED BY <1>1, <1>10, <2>2
<1>11. Laid(c, r, strict)
    BY <1>1, <1>3, <1>7, <1>9, <1>10 DEF Laid
<1> QED BY <1>2, <1>11

(* Another task ends the scope, as it goes on.                             *)
LEMMA LaidHead ==
    ASSUME NEW strict \in BOOLEAN,
           NEW c \in Contexts, NEW w \in Seq(Tasks), w # <<>>, Laid(c, w, strict),
           w[1] \in ScopeTasks,
           NEW t \in ScopeTasks, Base(t) = Base(w[1]), NEW u, u = <<t>> \o Tail(w)
    PROVE  Laid(c, u, strict)
<1>1. PICK place \in [1..Len(c.locals) -> 1..Len(c.visible)],
           level \in [1..Len(w) + 1 -> 0..c.scopeDepth] :
        /\ Shown(c, place, strict) /\ Levels(c, w, level)
        /\ \A k \in 1..Len(w) : w[k] \in ScopeTasks => Bounds(c, place, level[k], Base(w[k]), strict)
    BY DEF Laid
<1>2. PICK r \in Seq(Tasks) : r = Tail(w)
    BY TailOf
<1>3. Len(w) = Len(r) + 1 /\ \A k \in 1..Len(r) : r[k] = w[k + 1]
    BY <1>2, TailOf
<1>4. Len(u) = Len(w) /\ u[1] = t /\ \A k \in 1..Len(w) : k # 1 => u[k] = w[k]
    <2>1. t \in Tasks
        BY DEF ScopeTasks
    <2>2. Len(u) = Len(r) + 1 /\ u[1] = t /\ \A k \in 1..Len(r) : u[k + 1] = r[k]
        BY <1>2, <2>1
    <2>3. \A k \in 1..Len(w) : k # 1 => k - 1 \in 1..Len(r) /\ k = (k - 1) + 1
        BY <1>3
    <2> QED BY <1>3, <2>2, <2>3
<1>5. \A k \in 1..Len(w) : u[k] \in ScopeTasks <=> w[k] \in ScopeTasks
    BY <1>4
<1>6. Levels(c, u, level)
    BY <1>1, <1>4, <1>5 DEF Levels
<1>7. \A k \in 1..Len(w) : Base(u[k]) = Base(w[k])
    BY <1>4
<1>8. \A k \in 1..Len(u) : u[k] \in ScopeTasks => Bounds(c, place, level[k], Base(u[k]), strict)
    BY <1>1, <1>4, <1>5, <1>7
<1> QED BY <1>1, <1>4, <1>6, <1>8 DEF Laid

(* The locals of the scope that ends go, and the names it showed.          *)
LEMMA LaidCloses ==
    ASSUME NEW strict \in BOOLEAN,
           NEW c, Fine(c), NoneWaits(c), NEW w \in Seq(Tasks), w # <<>>, Laid(c, w, strict),
           w[1] \in ScopeTasks, NEW base, base = Base(w[1]),
           \A k \in 1..Len(Tail(w)) : Tail(w)[k] \in ScopeTasks => Base(Tail(w)[k]) <= base,
           NEW outer \in Nat, c.scopeDepth = outer + 1,
           NEW d, d.scopeDepth = outer, d.visible = SubSeq(c.visible, 1, base),
           d.locals = SubSeq(c.locals, 1, Kept(c, outer))
    PROVE  Laid(d, Tail(w), strict)
<1>1. PICK old \in [1..Len(c.locals) -> 1..Len(c.visible)],
           was \in [1..Len(w) + 1 -> 0..c.scopeDepth] :
        /\ Shown(c, old, strict) /\ Levels(c, w, was)
        /\ \A k \in 1..Len(w) : w[k] \in ScopeTasks => Bounds(c, old, was[k], Base(w[k]), strict)
    BY DEF Laid
<1>2. PICK r \in Seq(Tasks) : r = Tail(w)
    BY TailOf
<1>3. PICK n \in Nat : n = Len(r)
    OBVIOUS
<1>4. Len(w) = n + 1 /\ 1 \in 1..Len(w) /\ \A k \in 1..n : r[k] = w[k + 1] /\ k + 1 \in 1..Len(w)
    BY <1>2, <1>3, TailOf
<1>5. PICK keep : keep = Kept(c, outer)
    OBVIOUS
<1>6. /\ keep \in 1..Len(c.locals) /\ c.locals[keep].depth <= outer
      /\ \A i \in 1..Len(c.locals) : c.locals[i].depth <= outer => i <= keep
    BY <1>5, KeptLocals
<1>7. /\ c \in Contexts /\ Len(c.locals) \in Nat /\ Len(c.visible) \in Nat /\ base \in Nat
      /\ \A i \in 1..Len(c.locals) : c.locals[i].depth \in Nat /\ Deep(c, i) = c.locals[i].depth
    BY ScopeTypes, BaseOfScope DEF Fine, NoneWaits, Deep
<1>8. was[1] = outer + 1 /\ was[2] = outer /\ base <= Len(c.visible)
    <2>1. was[1] = outer + 1 /\ was[1] = was[2] + 1
        BY <1>1, <1>4 DEF Levels
    <2>2. 2 \in 1..Len(w) + 1
        BY <1>4
    <2>3. was[2] \in 0..c.scopeDepth
        BY <1>1, <2>2
    <2>4. base <= Len(c.visible)
        BY <1>1, <1>4 DEF Bounds
    <2> QED BY <2>1, <2>3, <2>4
<1>9. \A i \in 1..keep : i \in 1..Len(c.locals) /\ c.locals[i].depth <= outer
    <2>1. TAKE i \in 1..keep
    <2>2. i \in 1..Len(c.locals)
        BY <1>6, <1>7
    <2>3. CASE i = keep
        BY <1>6, <2>2, <2>3
    <2>4. CASE i # keep
        <3>1. i \in 1..keep - 1
            BY <1>6, <1>7, <2>4
        <3>2. c.locals[i].depth <= Deep(c, keep)
            BY <1>1, <1>6, <3>1 DEF Shown
        <3>3. c.locals[i].depth \in Nat /\ c.locals[keep].depth \in Nat /\ Deep(c, keep) = c.locals[keep].depth
            BY <1>6, <1>7, <2>2
        <3> QED BY <1>6, <2>2, <3>2, <3>3
    <2> QED BY <2>3, <2>4
<1>10. \A i \in 1..keep : old[i] <= base
    <2>1. TAKE i \in 1..keep
    <2>2. i \in 1..Len(c.locals) /\ Deep(c, i) < outer + 1
        <3>1. i \in 1..Len(c.locals) /\ c.locals[i].depth <= outer
            BY <1>9
        <3>2. Deep(c, i) = c.locals[i].depth /\ c.locals[i].depth \in Nat
            BY <1>7, <3>1
        <3> QED BY <3>1, <3>2
    <2>3. Bounds(c, old, outer + 1, base, strict)
        BY <1>1, <1>4, <1>8
    <2> QED BY <2>2, <2>3 DEF Bounds
<1>11. Len(d.locals) = keep /\ \A i \in 1..keep : d.locals[i] = c.locals[i]
    <2>1. PICK ls \in Seq(LocalRecords) : ls = c.locals
        BY <1>7, ScopeTypes
    <2> QED BY <1>5, <1>6, <2>1
<1>12. Len(d.visible) = base /\ \A i \in 1..base : d.visible[i] = c.visible[i]
    <2>1. PICK vs \in Seq(VariableNames) : vs = c.visible
        BY <1>7, ScopeTypes
    <2> QED BY <1>7, <1>8, <2>1
<1>13. PICK place : place = [i \in 1..keep |-> old[i]]
    OBVIOUS
<1>14. \A i \in 1..keep : place[i] = old[i] /\ old[i] \in 1..base /\ old[i] \in i..base
                          /\ c.visible[old[i]] = c.locals[i].name
    <2>1. TAKE i \in 1..keep
    <2>2. i \in 1..Len(c.locals)
        BY <1>9
    <2>3. old[i] \in i..Len(c.visible) /\ c.visible[old[i]] = c.locals[i].name
        BY <1>1, <2>2 DEF Shown
    <2> QED BY <1>7, <1>10, <1>13, <2>3
<1>15. place \in [1..keep -> 1..base]
    BY <1>13, <1>14
<1>16. \A i \in 1..keep : Deep(d, i) = Deep(c, i) /\ Deep(d, i) = c.locals[i].depth
    <2>1. TAKE i \in 1..keep
    <2>2. i \in 1..Len(c.locals) /\ d.locals[i] = c.locals[i]
        BY <1>9, <1>11
    <2>3. c.locals[i].depth # -1 /\ Deep(c, i) = c.locals[i].depth
        BY <1>7, <2>2 DEF NoneWaits
    <2>4. d.locals[i].depth = c.locals[i].depth
        BY <2>2
    <2> QED BY <2>3, <2>4 DEF Deep
<1>17. strict => base = keep
    <2> SUFFICES ASSUME strict PROVE base = keep
        OBVIOUS
    <2>1. Len(c.visible) = Len(c.locals) /\ \A i \in 1..Len(c.locals) : old[i] = i
        BY <1>1 DEF Shown
    <2>2. keep <= base
        BY <1>6, <1>7, <1>10, <2>1
    <2>3. CASE base = 0
        BY <1>6, <1>7, <2>2, <2>3
    <2>4. CASE base # 0
        <3>1. base \in 1..Len(c.locals)
            BY <1>7, <1>8, <2>1, <2>4
        <3>2. Bounds(c, old, outer + 1, base, strict)
            BY <1>1, <1>4, <1>8
        <3>3. Deep(c, base) < outer + 1
            BY <1>7, <3>1, <3>2 DEF Bounds
        <3>4. c.locals[base].depth <= outer
            BY <1>7, <3>1, <3>3
        <3>5. base <= keep
            BY <1>6, <3>1, <3>4
        <3> QED BY <1>6, <1>7, <2>2, <3>5
    <2> QED BY <2>3, <2>4
<1>18. Shown(d, place, strict)
    <2>1. ASSUME NEW i \in 1..keep
          PROVE  /\ place[i] \in i..base /\ d.visible[place[i]] = d.locals[i].name
                 /\ d.locals[i].depth <= outer /\ d.locals[i].depth # -1
                 /\ \A j \in 1..i - 1 : d.locals[j].depth <= Deep(d, i)
        <3>1. place[i] \in i..base /\ place[i] \in 1..base /\ c.visible[place[i]] = c.locals[i].name
            BY <1>14
        <3>2. d.visible[place[i]] = d.locals[i].name
            BY <1>11, <1>12, <3>1
        <3>3. d.locals[i].depth <= outer /\ d.locals[i].depth # -1
            <4>1. i \in 1..Len(c.locals) /\ c.locals[i].depth <= outer
                BY <1>9
            <4>2. d.locals[i].depth = c.locals[i].depth
                BY <1>11
            <4>3. c.locals[i].depth # -1
                BY <4>1 DEF NoneWaits
            <4> QED BY <4>1, <4>2, <4>3
        <3>4. ASSUME NEW j \in 1..i - 1
              PROVE  d.locals[j].depth <= Deep(d, i)
            <4>1. j \in 1..keep
                BY <1>6, <1>7
            <4>2. c.locals[j].depth <= Deep(c, i)
                BY <1>1, <1>9 DEF Shown
            <4> QED BY <1>11, <1>16, <4>1, <4>2
        <3> QED BY <3>1, <3>2, <3>3, <3>4
    <2>2. strict => \A i \in 1..keep : place[i] = i
        BY <1>1, <1>9, <1>14 DEF Shown
    <2> QED BY <1>11, <1>12, <1>17, <2>1, <2>2 DEF Shown
<1>19. PICK level : level = [k \in 1..n + 1 |-> was[k + 1]]
    OBVIOUS
<1>20. \A k \in 1..n + 1 : level[k] = was[k + 1] /\ level[k] \in 0..outer + 1
    <2>1. \A k \in 1..n + 1 : k + 1 \in 1..Len(w) + 1
        BY <1>4
    <2> QED BY <1>1, <1>19, <2>1
<1>21. level[1] = outer
    BY <1>8, <1>20
<1>22. ASSUME NEW k \in 1..n
       PROVE  /\ level[k] = IF r[k] \in ScopeTasks THEN level[k + 1] + 1 ELSE level[k + 1]
    <2>1. k \in 1..n + 1 /\ k + 1 \in 1..n + 1
        OBVIOUS
    <2>2. level[k] = was[k + 1] /\ level[k + 1] = was[k + 1 + 1]
        BY <1>20, <2>1
    <2>3. was[k + 1] = IF w[k + 1] \in ScopeTasks THEN was[k + 1 + 1] + 1 ELSE was[k + 1 + 1]
        BY <1>1, <1>4 DEF Levels
    <2> QED BY <1>4, <2>2, <2>3
<1>23. \A k \in 1..n + 1 : level[k] \in 0..outer
    <2>1. level[1] \in 0..outer
        BY <1>21
    <2>2. \A k \in 1 + 1..n + 1 : level[k - 1] \in 0..outer => level[k] \in 0..outer
        <3>1. TAKE k \in 1 + 1..n + 1
        <3>2. k - 1 \in 1..n /\ k = (k - 1) + 1 /\ k \in 1..n + 1
            OBVIOUS
        <3>3. PICK i \in 1..n : i = k - 1 /\ k = i + 1
            BY <3>2
        <3>4. level[i] = IF r[i] \in ScopeTasks THEN level[k] + 1 ELSE level[k]
            BY <1>22, <3>3
        <3>5. level[k] \in 0..outer + 1
            BY <1>20, <3>2
        <3> QED BY <3>3, <3>4, <3>5
    <2>3. \A k \in 1..n + 1 : level[k] \in 0..outer
        <3>1. PICK m \in Nat : m = n + 1
            OBVIOUS
        <3>2. PICK S : S = 0..outer
            OBVIOUS
        <3>3. level[1] \in S /\ \A k \in 1 + 1..m : level[k - 1] \in S => level[k] \in S
            BY <2>1, <2>2, <3>1, <3>2
        <3>4. \A k \in 1..m : level[k] \in S
            BY <3>3, Upward
        <3> QED BY <3>1, <3>2, <3>4
    <2> QED BY <2>3
<1>24. level \in [1..n + 1 -> 0..outer]
    BY <1>19, <1>20, <1>23
<1>25. Levels(d, r, level)
    <2>1. \A k \in 1..n : level[k] <= outer
        BY <1>23
    <2> QED BY <1>3, <1>21, <1>22, <2>1 DEF Levels
<1>26. ASSUME NEW k \in 1..n, r[k] \in ScopeTasks
       PROVE  Bounds(d, place, level[k], Base(r[k]), strict)
    <2>1. PICK l : l = level[k]
        OBVIOUS
    <2>2. PICK b : b = Base(r[k])
        OBVIOUS
    <2>3. Bounds(c, old, l, b, strict)
        <3>1. k \in 1..n + 1 /\ r[k] = w[k + 1] /\ k + 1 \in 1..Len(w)
            BY <1>4
        <3> QED BY <1>1, <1>20, <1>26, <2>1, <2>2, <3>1
    <2>4. b <= base
        BY <1>2, <1>3, <1>26, <2>2
    <2>5. Bounds(d, place, l, b, strict)
        BY <1>9, <1>11, <1>12, <1>14, <1>16, <2>3, <2>4 DEF Bounds
    <2> QED BY <2>1, <2>2, <2>5
<1>27. Laid(d, r, strict)
    BY <1>3, <1>11, <1>12, <1>15, <1>18, <1>24, <1>25, <1>26 DEF Laid
<1> QED BY <1>2, <1>27


(* A step that leaves the scopes and the locals of the current function.   *)
Calm(s, t) == Tame(s, t) /\ SameScope(Current(s), Current(t))

LEMMA CalmOn ==
    ASSUME NEW s, Good(s), NEW t, NEW u, Calm(s, t), Calm(t, u)
    PROVE  Calm(s, u)
<1>1. Tame(s, u)
    BY TameOn DEF Calm
<1>2. PICK c : c = Current(s)
    OBVIOUS
<1>3. PICK d : d = Current(t)
    OBVIOUS
<1>4. PICK e : e = Current(u)
    OBVIOUS
<1>5. SameScope(c, d) /\ SameScope(d, e)
    BY <1>2, <1>3, <1>4 DEF Calm
<1>6. SameScope(c, e)
    BY <1>5 DEF SameScope, SameLocals
<1> QED BY <1>1, <1>2, <1>4, <1>6 DEF Calm

LEMMA GoesOnCalmly ==
    ASSUME NEW s, NEW t, Tame(s, t), GoesOn(s, t)
    PROVE  Calm(s, t)
BY DEF Calm, GoesOn, Steady, SameScope, SameSettings

LEMMA CalmSelf ==
    ASSUME NEW s, Good(s)
    PROVE  Calm(s, s)
BY TameSelf, CodeLength DEF Calm, SameScope, SameLocals

LEMMA FailCalm ==
    ASSUME NEW s, Good(s), NEW condition, NEW what \in Errors, NEW t, t = FailIf(s, condition, what)
    PROVE  Calm(s, t) /\ Good(t) /\ Current(t) = Current(s) /\ t.contexts = s.contexts
<1>1. Tame(s, t) /\ Good(t) /\ Current(t) = Current(s) /\ t.contexts = s.contexts
    BY FailTame
<1>2. SameScope(Current(s), Current(t))
    BY <1>1, CodeLength DEF SameScope, SameLocals
<1> QED BY <1>1, <1>2 DEF Calm

LEMMA EmitsCalm ==
    ASSUME NEW s, Good(s), NEW op \in Operations, op \notin LookUps, NEW arg \in Int,
           NEW t, t = Emit(s, op, arg)
    PROVE  Calm(s, t) /\ Good(t) /\ SameLocals(Current(s), Current(t))
<1>1. Tame(s, t) /\ Good(t) /\ SameLocals(Current(s), Current(t))
    BY EmitsTame
<1>2. PICK name \in VariableNames : name = ""
    BY DEF VariableNames
<1>3. GoesOn(s, t)
    BY <1>2, EmitsNameless
<1> QED BY <1>1, <1>3, GoesOnCalmly

LEMMA PatchCalm ==
    ASSUME NEW s, Good(s), NEW jump \in Nat, jump # 0, AtJump(Current(s), jump),
           NEW t, t = PatchJump(s, jump)
    PROVE  Calm(s, t) /\ Good(t)
<1>1. Tame(s, t) /\ Good(t)
    BY PatchTame
<1>2. PICK c : c = Current(s)
    OBVIOUS
<1>3. jump \in 1..Len(c.code)
    BY <1>2 DEF AtJump
<1>4. GoesOn(s, t)
    BY <1>2, <1>3, Patches
<1> QED BY <1>1, <1>4, GoesOnCalmly

LEMMA JumpCalm ==
    ASSUME NEW s, Good(s), NEW op \in {"JUMP", "JUMP_IF_FALSE"}, NEW t, t = EmitJump(s, op)
    PROVE  /\ Calm(s, t) /\ Good(t) /\ Position(t) \in Nat /\ Position(t) # 0
           /\ AtJump(Current(t), Position(t))
<1>1. /\ Tame(s, t) /\ Good(t) /\ Position(t) \in Nat /\ Position(t) # 0
      /\ AtJump(Current(t), Position(t))
    BY JumpTame
<1>2. op \in Operations /\ op \notin LookUps
    BY DEF Operations, Keeps, Diverts, LookUps, UpvalueOps, GlobalOps
<1>3. PICK open \in Int : open = UNPATCHED
    BY DEF UNPATCHED
<1>4. t = Emit(s, op, open)
    BY <1>3 DEF EmitJump
<1>5. Calm(s, t)
    BY <1>2, <1>4, EmitsCalm
<1> QED BY <1>1, <1>5

LEMMA ResetCalm ==
    ASSUME NEW s, Good(s), NEW t, NEW continue, NEW break, NEW loops,
           Reset(s, t, continue, break, loops),
           AtBreak(Current(s)) => AtJump(Current(s), break)
    PROVE  Calm(s, t) /\ Good(t)
<1>1. Tame(s, t) /\ Good(t)
    BY ResetTame
<1>2. PICK c : c = Current(s)
    OBVIOUS
<1>3. PICK d : d = Current(t)
    OBVIOUS
<1>4. d.locals = c.locals /\ d.scopeDepth = c.scopeDepth /\ d.visible = c.visible
    BY <1>2, <1>3 DEF Reset, BesideLoops
<1>5. SameScope(c, d)
    BY <1>4 DEF SameScope, SameLocals
<1> QED BY <1>1, <1>2, <1>3, <1>5 DEF Calm

LEMMA EmitStays ==
    ASSUME NEW s, Good(s), NEW op \in Operations, NEW arg \in Int, NEW name \in VariableNames,
           NEW t, t = EmitNamed(s, op, arg, name)
    PROVE  SameScope(Current(s), Current(t))
<1>1. GoesOn(s, t)
    BY EmitsOneMore
<1> QED BY <1>1 DEF GoesOn, Steady, SameScope, SameSettings

LEMMA LooksUpCalm ==
    ASSUME NEW s, Good(s), NEW name \in VariableNames, Known(s, name), NEW canAssign,
           NEW t, t = NamedVariable(s, name, canAssign)
    PROVE  Calm(s, t) /\ Good(t) /\ SameLocals(Current(s), Current(t))
<1>1. Tame(s, t) /\ Good(t) /\ SameLocals(Current(s), Current(t))
    BY LooksUpTame
<1>2. PICK c \in Contexts : c = Current(s) /\ Fine(c)
    BY CurrentIsFine
<1>3. PICK n \in Nat : n = Len(s.contexts) /\ n # 0
    BY CurrentIsFine
<1>4. PICK slot : slot = ResolveLocal(c, name)
    OBVIOUS
<1>5. PICK S : S = {0} \cup {j \in 1..n - 1 : ResolveLocal(s.contexts[j], name) # 0}
    OBVIOUS
<1>6. PICK owner : owner = Max(S)
    OBVIOUS
<1>7. owner \in S
    <2>1. S \subseteq 0..n /\ S # {}
        BY <1>5
    <2> QED BY <1>6, <2>1, MaxIs
<1>8. CASE slot # 0
    <2>1. PICK wrong : wrong = (c.locals[slot].depth = -1)
        OBVIOUS
    <2>2. PICK what \in Errors : what = "Can't read local variable in its own initializer"
        BY DEF Errors
    <2>3. PICK u : u = FailIf(s, wrong, what)
        OBVIOUS
    <2>4. PICK op : op = IF canAssign THEN "SET_LOCAL" ELSE "GET_LOCAL"
        OBVIOUS
    <2>5. t = EmitNamed(u, op, slot - 1, name)
        BY <1>2, <1>4, <1>8, <2>1, <2>2, <2>3, <2>4 DEF NamedVariable
    <2>6. op \in Operations
        BY <2>4, LookUpOps
    <2>7. PICK at \in Int : at = slot - 1
        <3>1. slot \in 0..Len(c.locals) /\ Len(c.locals) \in Nat
            BY <1>4, Resolves, ContextTypes
        <3> QED BY <3>1
    <2>8. Good(u) /\ Current(u) = Current(s)
        BY <1>2, <2>3, FailCalm
    <2>9. SameScope(Current(u), Current(t))
        BY <2>5, <2>6, <2>7, <2>8, EmitStays
    <2> QED BY <1>1, <2>8, <2>9 DEF Calm
<1>9. CASE slot = 0 /\ owner # 0
    <2>1. owner \in 1..n - 1 /\ ResolveLocal(s.contexts[owner], name) # 0
        BY <1>5, <1>7, <1>9
    <2>2. PICK found : found = ResolveUpvalue(s, owner, name)
        OBVIOUS
    <2>3. PICK op : op = IF canAssign THEN "SET_UPVALUE" ELSE "GET_UPVALUE"
        OBVIOUS
    <2>4. t = EmitNamed(found.s, op, found.at, name)
        BY <1>2, <1>3, <1>4, <1>5, <1>6, <1>9, <2>2, <2>3 DEF NamedVariable
    <2>5. op \in Operations
        BY <2>3 DEF Operations, Pushes, Keeps
    <2>6. GetsWider(s, found.s) /\ found.at \in Slots /\ Alike(Current(s), Current(found.s))
        BY <1>3, <2>1, <2>2, ResolvesUpvalue
    <2>7. Good(found.s) /\ found.at \in Int
        <3>1. UINT8_COUNT \in Nat
            BY Limits
        <3> QED BY <2>6, <3>1 DEF GetsWider, Follows, Slots
    <2>8. PICK d : d = Current(found.s)
        OBVIOUS
    <2>9. SameScope(d, Current(t))
        BY <2>4, <2>5, <2>7, <2>8, EmitStays
    <2>10. PICK e : e = Current(t)
        OBVIOUS
    <2>11. SameScope(c, d) /\ SameScope(d, e)
        BY <1>2, <2>6, <2>8, <2>9, <2>10 DEF Alike, SameScope, SameSettings
    <2>12. SameScope(c, e)
        BY <2>11 DEF SameScope, SameLocals
    <2> QED BY <1>1, <1>2, <2>10, <2>12 DEF Calm
<1>10. CASE slot = 0 /\ owner = 0
    <2>1. PICK op : op = IF canAssign THEN "SET_GLOBAL" ELSE "GET_GLOBAL"
        OBVIOUS
    <2>2. PICK none \in Int : none = 0
        OBVIOUS
    <2>3. t = EmitNamed(s, op, none, name)
        BY <1>2, <1>3, <1>4, <1>5, <1>6, <1>10, <2>1, <2>2 DEF NamedVariable
    <2>4. op \in Operations
        BY <2>1 DEF Operations, Pushes, Keeps
    <2>5. SameScope(Current(s), Current(t))
        BY <2>3, <2>4, EmitStays
    <2> QED BY <1>1, <2>5 DEF Calm
<1> QED BY <1>8, <1>9, <1>10

-----------------------------------------------------------------------------
(* A step of the walk keeps Ordered.                                       *)

LandsAll(c, t) == \A i \in Landings(t) : AtJump(c, i)

LEMMA LandsOn ==
    ASSUME NEW s, Good(s), NEW t, Tame(s, t), NEW x, LandsAll(Current(s), x)
    PROVE  LandsAll(Current(t), x)
<1>1. Good(t)
    BY DEF Tame, Follows
<1>2. Len(Current(s).code) \in Nat /\ Len(Current(t).code) \in Nat
    BY <1>1, CodeLength
<1> QED BY <1>2, AtJumpOn DEF Tame, LandsAll

LEMMA WalkOrders ==
    ASSUME Inv, Ordered, todo # <<>>, NEW s, Becomes(s), Tame(Now, s), UNCHANGED functions,
           NEW u \in Seq(Tasks), todo' = Append(Front(todo), u),
           \A k \in 1..Len(u) : LandsAll(Current(s), u[k]),
           OpenClasses', SuperWaits'
    PROVE  Ordered'
<1>1. PICK n \in Nat \ {0} : n = Len(contexts)
    BY AtWork
<1>2. /\ Good(Now) /\ n \in 1..n /\ Len(todo) = n
      /\ contexts \in Seq(Contexts) /\ contexts # <<>> /\ todo \in Seq(Seq(Tasks))
      /\ Current(Now) = contexts[n] /\ Work = todo[n] /\ Now.contexts = contexts
    BY <1>1, AtWork
<1>3. Now.error = error
    BY DEF Now
<1>4. contexts' = s.contexts /\ error' = s.error
    BY DEF Becomes
<1>5. Follows(Now, s) /\ Good(s) /\ Len(s.contexts) = n
    BY <1>1, <1>2 DEF Tame, Follows
<1>6. Current(s) = s.contexts[n]
    BY <1>5, CurrentIsFine
<1>7. WithLast(todo', todo, u, Seq(Tasks))
    BY <1>2, LastReplaced
<1>8. todo'[n] = u /\ Last(todo') = u /\ \A j \in 1..n - 1 : todo'[j] = todo[j]
    BY <1>2, <1>7 DEF WithLast
<1>9. s.error = NoError => error = NoError
    BY <1>3 DEF Tame
<1>10. Scoped(Now)'
    <2>1. Scoped(s)
        BY DEF Tame, Ordered
    <2> QED BY <1>4, <2>1 DEF Scoped, Now
<1>11. ScopedFunctions'
    BY <1>4, <1>9 DEF Ordered, ScopedFunctions
<1>12. \A j \in 1..Len(contexts') : Lands(contexts'[j], todo'[j])
    <2>1. TAKE j \in 1..Len(contexts')
    <2>2. j \in 1..n
        BY <1>4, <1>5
    <2>3. CASE j = n
        <3>1. AtBreak(Current(s))
            BY <1>1, <1>2 DEF Tame, Ordered, Lands, AtBreak
        <3> QED BY <1>4, <1>6, <1>8, <2>3, <3>1 DEF Lands, AtBreak, LandsAll
    <2>4. CASE j # n
        <3>1. j \in 1..n - 1
            BY <2>2, <2>4
        <3>2. Alike(contexts[j], contexts'[j])
            BY <1>1, <1>2, <1>4, <1>5, <3>1 DEF Follows
        <3>3. Lands(contexts[j], todo[j])
            BY <1>1, <2>2 DEF Ordered
        <3>4. contexts'[j].code = contexts[j].code /\ contexts'[j].last_break = contexts[j].last_break
            BY <3>2 DEF Alike, SameSettings
        <3> QED BY <1>8, <3>1, <3>3, <3>4 DEF Lands, AtJump
    <2> QED BY <2>3, <2>4
<1> QED BY <1>10, <1>11, <1>12 DEF Ordered

LEMMA StepOrders ==
    ASSUME Inv, Ordered, todo # <<>>, NEW s, Becomes(s), Tame(Now, s),
           UNCHANGED <<currentClass, functions>>,
           NEW u \in Seq(Tasks), todo' = Append(Front(todo), u),
           \A k \in 1..Len(u) : LandsAll(Current(s), u[k]),
           Has(Work, "endClass") =>
                Has(u, "endClass") /\ (HasSuper(Current(Now)) => HasSuper(Current(s))),
           Has(u, "superInvoke") /\ s.error = NoError => InSubclass
    PROVE  Ordered'
<1>1. PICK n \in Nat \ {0} : n = Len(contexts)
    BY AtWork
<1>2. /\ Good(Now) /\ n \in 1..n /\ Len(todo) = n
      /\ contexts \in Seq(Contexts) /\ contexts # <<>> /\ todo \in Seq(Seq(Tasks))
      /\ Current(Now) = contexts[n] /\ Work = todo[n] /\ Now.contexts = contexts
    BY <1>1, AtWork
<1>3. Now.error = error
    BY DEF Now
<1>4. contexts' = s.contexts /\ error' = s.error
    BY DEF Becomes
<1>5. Follows(Now, s) /\ Good(s) /\ Len(s.contexts) = n
    BY <1>1, <1>2 DEF Tame, Follows
<1>6. Current(s) = s.contexts[n]
    BY <1>5, CurrentIsFine
<1>7. WithLast(todo', todo, u, Seq(Tasks))
    BY <1>2, LastReplaced
<1>8. todo'[n] = u /\ Last(todo') = u /\ \A j \in 1..n - 1 : todo'[j] = todo[j]
    BY <1>2, <1>7 DEF WithLast
<1>9. s.error = NoError => error = NoError
    BY <1>3 DEF Tame
<1>10. OpenClasses'
    <2> SUFFICES ASSUME error' = NoError
                 PROVE  \E at \in [1..Len(currentClass) -> 1..Len(contexts')] :
                            ClassesAt(contexts', todo', currentClass, at)
        BY DEF OpenClasses
    <2>1. error = NoError
        BY <1>4, <1>9
    <2>2. PICK at \in [1..Len(currentClass) -> 1..n] : ClassesAt(contexts, todo, currentClass, at)
        BY <1>1, <2>1 DEF Ordered, OpenClasses
    <2>3. ASSUME NEW k \in 1..Len(currentClass)
          PROVE  /\ Has(todo'[at[k]], "endClass")
                 /\ currentClass[k] => HasSuper(contexts'[at[k]])
        <3>1. at[k] \in 1..n
            BY <2>2
        <3>2. /\ Has(todo[at[k]], "endClass")
              /\ currentClass[k] => HasSuper(contexts[at[k]])
            BY <2>2 DEF ClassesAt
        <3>3. CASE at[k] = n
            BY <1>2, <1>4, <1>6, <1>8, <3>2, <3>3
        <3>4. CASE at[k] # n
            <4>1. at[k] \in 1..n - 1
                BY <3>1, <3>4
            <4>2. SameLocals(contexts[at[k]], contexts'[at[k]])
                BY <1>1, <1>2, <1>4, <1>5, <4>1 DEF Follows, Alike
            <4>3. HasSuper(contexts[at[k]]) => HasSuper(contexts'[at[k]])
                BY <4>2 DEF HasSuper, SameLocals
            <4> QED BY <1>8, <3>2, <4>1, <4>3
        <3> QED BY <3>3, <3>4
    <2>4. Len(contexts') = n
        BY <1>4, <1>5
    <2>5. ClassesAt(contexts', todo', currentClass, at)
        BY <1>1, <2>2, <2>3, <2>4 DEF ClassesAt
    <2> QED BY <2>2, <2>4, <2>5
<1>11. SuperWaits'
    BY <1>4, <1>8 DEF SuperWaits, Work, InSubclass
<1> QED BY <1>10, <1>11, WalkOrders

(* Tasks that any but the tasks of a class may leave.                      *)
Ready(s) ==
    {t \in Tasks : /\ LandsAll(Current(s), t) /\ t.k # "endClass"
                   /\ t.k = "superInvoke" /\ s.error = NoError => InSubclass}

LEMMA ClassIsFirst ==
    ASSUME Inv, todo # <<>>, Work[1].k \notin {"methods", "endClass"}
    PROVE  ~Has(Work, "endClass")
<1> SUFFICES ASSUME NEW k \in 1..Len(Work), Work[k].k = "endClass"
             PROVE  FALSE
    BY DEF Has
<1>1. Work \in Seq(Tasks) /\ Work # <<>> /\ Pending(Current(Now), Work)
    BY AtWork DEF Compiling
<1>2. Len(Work) \in Nat
    BY <1>1
<1>3. k # 1
    OBVIOUS
<1>4. 1 \in 1..k - 1
    BY <1>2, <1>3
<1>5. Before(Work[1], Work[k])
    BY <1>1, <1>4 DEF Pending
<1> QED BY <1>5 DEF Before

LEMMA TaskOrders ==
    ASSUME Inv, Ordered, todo # <<>>, Work[1].k \notin {"methods", "endClass"},
           NEW s, Becomes(s), Tame(Now, s), UNCHANGED <<currentClass, functions>>,
           NEW tasks \in Seq(Ready(s)), NEW r, r \in {Work, Tail(Work)},
           todo' = Append(Front(todo), tasks \o r)
    PROVE  Ordered'
<1>1. PICK n \in Nat \ {0} : n = Len(contexts)
    BY AtWork
<1>2. /\ Good(Now) /\ n \in 1..n /\ Current(Now) = contexts[n] /\ Work = todo[n]
      /\ Work \in Seq(Tasks) /\ Work # <<>>
    BY <1>1, AtWork
<1>3. tasks \in Seq(Tasks) /\ \A k \in 1..Len(tasks) : tasks[k] \in Ready(s)
    BY DEF Ready
<1>4. r \in Seq(Tasks) /\ \A k \in 1..Len(r) : \E i \in 1..Len(Work) : r[k] = Work[i]
    <2>1. CASE r = Work
        BY <1>2, <2>1
    <2>2. CASE r = Tail(Work)
        <3>1. PICK m \in Nat : m = Len(Work)
            BY <1>2
        <3>2. /\ r \in Seq(Tasks) /\ Len(r) = m - 1
              /\ \A k \in 1..m - 1 : k + 1 \in 1..m /\ r[k] = Work[k + 1]
            BY <1>2, <2>2, <3>1, TailOf
        <3> QED BY <3>1, <3>2
    <2> QED BY <2>1, <2>2
<1>5. PICK u : u = tasks \o r
    OBVIOUS
<1>6. u \in Seq(Tasks) /\ \A k \in 1..Len(u) : \/ \E i \in 1..Len(tasks) : u[k] = tasks[i]
                                               \/ \E i \in 1..Len(Work) : u[k] = Work[i]
    <2>1. PICK m : m = Len(tasks)
        OBVIOUS
    <2>2. PICK l : l = Len(r)
        OBVIOUS
    <2>3. /\ m \in Nat /\ l \in Nat /\ u \in Seq(Tasks) /\ Len(u) = m + l
          /\ \A i \in 1..m : i \in 1..Len(u) /\ u[i] = tasks[i]
          /\ \A i \in 1..l : m + i \in 1..Len(u) /\ u[m + i] = r[i]
        BY <1>3, <1>4, <1>5, <2>1, <2>2, Joined
    <2>4. ASSUME NEW k \in 1..Len(u)
          PROVE  \/ \E i \in 1..Len(tasks) : u[k] = tasks[i]
                 \/ \E i \in 1..Len(Work) : u[k] = Work[i]
        <3>1. k \in 1..m \/ \E i \in 1..l : k = m + i
            BY <2>3, InEither
        <3>2. CASE k \in 1..m
            BY <2>1, <2>3, <3>2
        <3>3. CASE \E i \in 1..l : k = m + i
            <4>1. PICK i \in 1..l : k = m + i
                BY <3>3
            <4> QED BY <1>4, <2>2, <2>3, <4>1
        <3> QED BY <3>1, <3>2, <3>3
    <2> QED BY <2>3, <2>4
<1>7. \A i \in 1..Len(Work) : LandsAll(Current(s), Work[i])
    <2>1. \A i \in 1..Len(Work) : LandsAll(Current(Now), Work[i])
        BY <1>1, <1>2 DEF Ordered, Lands, LandsAll
    <2> QED BY <1>2, <2>1, LandsOn
<1>8. \A k \in 1..Len(u) : LandsAll(Current(s), u[k])
    BY <1>3, <1>6, <1>7 DEF Ready
<1>9. ~Has(Work, "endClass")
    BY ClassIsFirst
<1>10. ASSUME Has(u, "superInvoke"), s.error = NoError PROVE InSubclass
    <2>1. PICK k \in 1..Len(u) : u[k].k = "superInvoke"
        BY <1>10 DEF Has
    <2>2. CASE \E i \in 1..Len(tasks) : u[k] = tasks[i]
        BY <1>3, <1>10, <2>1, <2>2 DEF Ready
    <2>3. CASE \E i \in 1..Len(Work) : u[k] = Work[i]
        <3>1. Has(Work, "superInvoke")
            BY <2>1, <2>3 DEF Has
        <3>2. error = NoError
            BY <1>10 DEF Tame, Now
        <3> QED BY <3>1, <3>2 DEF Ordered, SuperWaits
    <2> QED BY <1>6, <2>2, <2>3
<1> QED BY <1>5, <1>6, <1>8, <1>9, <1>10, StepOrders

-----------------------------------------------------------------------------
(* A step of the walk keeps Lexical.                                       *)

LEMMA HasJoined ==
    ASSUME NEW a \in Seq(Tasks), NEW b \in Seq(Tasks), NEW u, u = a \o b, NEW kind
    PROVE  Has(u, kind) <=> Has(a, kind) \/ Has(b, kind)
<1>1. PICK m : m = Len(a)
    OBVIOUS
<1>2. PICK n : n = Len(b)
    OBVIOUS
<1>3. /\ m \in Nat /\ n \in Nat /\ u \in Seq(Tasks) /\ Len(u) = m + n
      /\ \A i \in 1..m : i \in 1..Len(u) /\ u[i] = a[i]
      /\ \A i \in 1..n : m + i \in 1..Len(u) /\ u[m + i] = b[i]
    BY <1>1, <1>2, Joined
<1>4. ASSUME Has(u, kind) PROVE Has(a, kind) \/ Has(b, kind)
    <2>1. PICK k \in 1..Len(u) : u[k].k = kind
        BY <1>4 DEF Has
    <2>2. k \in 1..m \/ \E i \in 1..n : k = m + i
        BY <1>3, InEither
    <2> QED BY <1>1, <1>2, <1>3, <2>1, <2>2 DEF Has
<1>5. ASSUME Has(a, kind) PROVE Has(u, kind)
    <2>1. PICK k \in 1..m : a[k].k = kind
        BY <1>1, <1>5 DEF Has
    <2> QED BY <1>3, <2>1 DEF Has
<1>6. ASSUME Has(b, kind) PROVE Has(u, kind)
    <2>1. PICK k \in 1..n : b[k].k = kind
        BY <1>2, <1>6 DEF Has
    <2>2. m + k \in 1..Len(u) /\ u[m + k].k = kind
        BY <1>3, <2>1
    <2> QED BY <2>2 DEF Has
<1> QED BY <1>4, <1>5, <1>6

LEMMA HasTail ==
    ASSUME NEW w \in Seq(Tasks), w # <<>>, NEW r, r = Tail(w), NEW kind
    PROVE  Has(w, kind) <=> w[1].k = kind \/ Has(r, kind)
<1>1. PICK n \in Nat : n = Len(r)
    BY TailOf
<1>2. Len(w) = n + 1 /\ \A k \in 1..n : r[k] = w[k + 1] /\ k + 1 \in 1..Len(w)
    BY <1>1, TailOf
<1>3. ASSUME Has(w, kind) PROVE w[1].k = kind \/ Has(r, kind)
    <2>1. PICK k \in 1..n + 1 : w[k].k = kind
        BY <1>2, <1>3 DEF Has
    <2>2. CASE k = 1
        BY <2>1, <2>2
    <2>3. CASE k # 1
        <3>1. PICK i \in 1..n : k = i + 1
            <4>1. k - 1 \in 1..n /\ k = (k - 1) + 1
                BY <2>3
            <4> QED BY <4>1
        <3>2. r[i].k = kind
            BY <1>2, <2>1, <3>1
        <3> QED BY <1>1, <3>2 DEF Has
    <2> QED BY <2>2, <2>3
<1>4. ASSUME w[1].k = kind PROVE Has(w, kind)
    <2>1. 1 \in 1..Len(w)
        BY <1>2
    <2> QED BY <1>4, <2>1 DEF Has
<1>5. ASSUME Has(r, kind) PROVE Has(w, kind)
    <2>1. PICK k \in 1..n : r[k].k = kind
        BY <1>1, <1>5 DEF Has
    <2> QED BY <1>2, <2>1 DEF Has
<1> QED BY <1>3, <1>4, <1>5

LEMMA LaysTasks ==
    ASSUME NEW strict \in BOOLEAN, NEW c \in Contexts, NEW w \in Seq(Tasks), Laid(c, w, strict),
           NEW tasks \in Seq(Tasks), \A k \in 1..Len(tasks) : tasks[k] \notin ScopeTasks,
           NEW u, u = tasks \o w
    PROVE  Laid(c, u, strict)
<1>1. PICK m : m = Len(tasks)
    OBVIOUS
<1>2. PICK n : n = Len(w)
    OBVIOUS
<1>3. /\ m \in Nat /\ n \in Nat /\ u \in Seq(Tasks) /\ Len(u) = m + n
      /\ \A i \in 1..m : u[i] = tasks[i]
      /\ \A i \in 1..n : u[m + i] = w[i]
    BY <1>1, <1>2, Joined
<1>4. \A k \in 1..m : u[k] \notin ScopeTasks
    BY <1>1, <1>3
<1> QED BY <1>2, <1>3, <1>4, LaidFront

LEMMA AlikeLays ==
    ASSUME NEW strict \in BOOLEAN, NEW c, Fine(c), NEW d, SameScope(c, d), NEW w \in Seq(Tasks)
    PROVE  /\ Laid(c, w, strict) => Laid(d, w, strict)
           /\ Declaring(c, w) => Declaring(d, w)
           /\ Bound(c, w) => Bound(d, w)
<1>1. c \in Contexts /\ Len(c.locals) \in 1..Len(c.locals)
    <2>1. PICK n : n = Len(c.locals)
        OBVIOUS
    <2>2. n \in 1..UINT8_COUNT /\ UINT8_COUNT \in Nat
        BY <2>1, Limits DEF Fine
    <2>3. n \in 1..n
        BY <2>2
    <2> QED BY <2>1, <2>3 DEF Fine
<1>2. Laid(c, w, strict) => Laid(d, w, strict)
    BY <1>1, SameScopeGetsValue, LaidOn
<1>3. /\ d.locals[Len(d.locals)].depth = c.locals[Len(c.locals)].depth
      /\ d.scopeDepth = c.scopeDepth
    BY <1>1 DEF SameScope, SameLocals
<1> QED BY <1>2, <1>3 DEF Declaring, Bound

LEMMA StaysDisciplined ==
    ASSUME UNCHANGED family
    PROVE  Disciplined' = Disciplined /\ Disciplined \in BOOLEAN
BY DEF Disciplined, Without, Syntax

LEMMA StepLays ==
    ASSUME Inv, Lexical, todo # <<>>, NEW s, Becomes(s), Follows(Now, s),
           s.error = NoError => error = NoError,
           NEW u \in Seq(Tasks), todo' = Append(Front(todo), u),
           s.error = NoError => Laid(Current(s), u, Disciplined) /\ Declaring(Current(s), u)
    PROVE  Lexical'
<1>1. PICK n \in Nat \ {0} : n = Len(contexts)
    BY AtWork
<1>2. /\ Good(Now) /\ n \in 1..n /\ Len(todo) = n
      /\ contexts \in Seq(Contexts) /\ contexts # <<>> /\ todo \in Seq(Seq(Tasks))
      /\ Current(Now) = contexts[n] /\ Work = todo[n] /\ Now.contexts = contexts
    BY <1>1, AtWork
<1>3. contexts' = s.contexts /\ error' = s.error /\ UNCHANGED family
    BY DEF Becomes
<1>4. Good(s) /\ Len(s.contexts) = n /\ Current(s) = s.contexts[n]
    <2>1. Good(s) /\ Len(s.contexts) = n
        BY <1>1, <1>2 DEF Follows
    <2> QED BY <2>1, CurrentIsFine
<1>5. WithLast(todo', todo, u, Seq(Tasks))
    BY <1>2, LastReplaced
<1>6. todo'[n] = u /\ \A j \in 1..n - 1 : todo'[j] = todo[j] /\ todo[j] \in Seq(Tasks)
    BY <1>2, <1>5 DEF WithLast
<1>7. PICK strict \in BOOLEAN : strict = Disciplined /\ strict = Disciplined'
    BY <1>3, StaysDisciplined
<1> SUFFICES ASSUME error' = NoError
             PROVE  /\ \A j \in 1..n : /\ Laid(contexts'[j], todo'[j], strict)
                                       /\ Declaring(contexts'[j], todo'[j])
                    /\ \A j \in 1..n - 1 : Bound(contexts'[j], todo'[j])
    BY <1>3, <1>4, <1>7 DEF Lexical
<1>8. /\ \A j \in 1..n : Laid(contexts[j], todo[j], strict) /\ Declaring(contexts[j], todo[j])
      /\ \A j \in 1..n - 1 : Bound(contexts[j], todo[j])
    BY <1>1, <1>3, <1>7 DEF Lexical
<1>9. ASSUME NEW j \in 1..n - 1
      PROVE  /\ Laid(contexts'[j], todo'[j], strict) /\ Declaring(contexts'[j], todo'[j])
             /\ Bound(contexts'[j], todo'[j])
    <2>1. PICK c : c = contexts[j]
        OBVIOUS
    <2>2. PICK d : d = contexts'[j]
        OBVIOUS
    <2>3. PICK w \in Seq(Tasks) : w = todo[j] /\ w = todo'[j]
        BY <1>6
    <2>4. j \in 1..n
        OBVIOUS
    <2>5. Fine(c)
        BY <1>1, <1>2, <2>1, <2>4 DEF Good
    <2>6. Alike(c, d)
        BY <1>1, <1>2, <1>3, <2>1, <2>2 DEF Follows
    <2>7. SameScope(c, d)
        BY <2>6 DEF Alike, SameScope, SameSettings
    <2>8. Laid(c, w, strict) /\ Declaring(c, w) /\ Bound(c, w)
        BY <1>8, <2>1, <2>3, <2>4
    <2>9. Laid(d, w, strict) /\ Declaring(d, w) /\ Bound(d, w)
        BY <2>5, <2>7, <2>8, AlikeLays
    <2> QED BY <2>2, <2>3, <2>9
<1>10. Laid(contexts'[n], todo'[n], strict) /\ Declaring(contexts'[n], todo'[n])
    BY <1>3, <1>4, <1>6, <1>7
<1>11. \A j \in 1..n : j \in 1..n - 1 \/ j = n
    OBVIOUS
<1> QED BY <1>9, <1>10, <1>11

(* What is known of the current function.                                  *)
LEMMA WorkIsLaid ==
    ASSUME Inv, Lexical, todo # <<>>, error = NoError
    PROVE  /\ Laid(Current(Now), Work, Disciplined) /\ Declaring(Current(Now), Work)
           /\ Disciplined \in BOOLEAN
<1>1. PICK n \in Nat \ {0} : n = Len(contexts)
    BY AtWork
<1>2. n \in 1..n /\ Current(Now) = contexts[n] /\ Work = todo[n]
    BY <1>1, AtWork
<1>3. Disciplined \in BOOLEAN
    BY DEF Disciplined, Without, Syntax
<1> QED BY <1>1, <1>2, <1>3 DEF Lexical

(* Tasks that neither end a scope nor declare a variable.                  *)
Quiet(s) == {t \in Ready(s) : t \notin ScopeTasks /\ t.k # "define"}

LEMMA TaskLays ==
    ASSUME Inv, Lexical, todo # <<>>, Work[1] \notin ScopeTasks, Work[1].k # "define",
           NEW s, Becomes(s), Calm(Now, s),
           NEW tasks \in Seq(Tasks),
           \A k \in 1..Len(tasks) : tasks[k] \notin ScopeTasks /\ tasks[k].k # "define",
           NEW r, r \in {Work, Tail(Work)}, todo' = Append(Front(todo), tasks \o r)
    PROVE  Lexical'
<1>1. /\ Good(Now) /\ Work \in Seq(Tasks) /\ Work # <<>> /\ Follows(Now, s)
      /\ s.error = NoError => error = NoError
    BY AtWork DEF Calm, Tame, Now
<1>2. PICK c : c = Current(Now)
    OBVIOUS
<1>3. PICK d : d = Current(s)
    OBVIOUS
<1>4. Fine(c) /\ Fine(d) /\ c \in Contexts /\ d \in Contexts /\ SameScope(c, d)
    BY <1>1, <1>2, <1>3, CurrentIsFine DEF Calm, Follows
<1>5. r \in Seq(Tasks)
    BY <1>1, TailOf
<1>6. PICK u \in Seq(Tasks) : u = tasks \o r
    <2>1. PICK u : u = tasks \o r
        OBVIOUS
    <2>2. PICK m : m = Len(tasks)
        OBVIOUS
    <2>3. PICK n : n = Len(r)
        OBVIOUS
    <2>4. u \in Seq(Tasks)
        BY <1>5, <2>1, <2>2, <2>3, Joined
    <2> QED BY <2>1, <2>4
<1>7. ASSUME s.error = NoError
      PROVE  Laid(d, u, Disciplined) /\ Declaring(d, u)
    <2>1. PICK strict \in BOOLEAN : strict = Disciplined
        BY StaysDisciplined DEF Disciplined, Without, Syntax
    <2>2. Laid(c, Work, strict) /\ Declaring(c, Work)
        BY <1>1, <1>2, <1>7, <2>1, WorkIsLaid
    <2>3. Laid(c, r, strict)
        BY <1>1, <1>4, <2>2, LaidBehind
    <2>4. Laid(c, u, strict)
        BY <1>4, <1>5, <1>6, <2>3, LaysTasks
    <2>5. Has(u, "define") <=> Has(Work, "define")
        <3>1. Has(u, "define") <=> Has(r, "define")
            <4>1. ~Has(tasks, "define")
                BY DEF Has
            <4> QED BY <1>5, <1>6, <4>1, HasJoined
        <3>2. Has(r, "define") <=> Has(Work, "define")
            BY <1>1, HasTail
        <3> QED BY <3>1, <3>2
    <2>6. Declaring(c, u)
        BY <2>2, <2>5 DEF Declaring
    <2>7. Laid(d, u, strict) /\ Declaring(d, u)
        BY <1>4, <1>6, <2>4, <2>6, AlikeLays
    <2> QED BY <2>1, <2>7
<1> QED BY <1>1, <1>3, <1>6, <1>7, StepLays

LEMMA ShortSequences ==
    ASSUME NEW S
    PROVE  /\ <<>> \in Seq(S)
           /\ \A a \in S : <<a>> \in Seq(S)
           /\ \A a, b \in S : <<a, b>> \in Seq(S)
           /\ \A a, b, c \in S : <<a, b, c>> \in Seq(S)
           /\ \A a \in S, s \in Seq(S) : Append(s, a) \in Seq(S) /\ <<a>> \o s \in Seq(S)
<1>1. <<>> \in Seq(S)
    OBVIOUS
<1> QED BY <1>1

(* Work that is put in front of the rest one task after the other.         *)
LEMMA FrontsJoin ==
    ASSUME NEW S, NEW a \in S, NEW b \in S, NEW x \in S, NEW r \in Seq(S), NEW w, w = <<x>> \o r
    PROVE  /\ w \in Seq(S) /\ <<>> \o w = w /\ <<>> \o r = r
           /\ <<a, x>> \o r = <<a>> \o w
           /\ <<a, b, x>> \o r = <<a, b>> \o w
<1>1. <<x>> \in Seq(S) /\ <<a>> \in Seq(S) /\ <<a, b>> \in Seq(S) /\ w \in Seq(S)
    BY ShortSequences
<1>2. <<>> \o w = w /\ <<>> \o r = r
    BY <1>1, ConcatEmptySeq
<1>3. <<a, x>> = <<a>> \o <<x>> /\ <<a, b, x>> = <<a, b>> \o <<x>>
    OBVIOUS
<1>4. (<<a>> \o <<x>>) \o r = <<a>> \o w /\ (<<a, b>> \o <<x>>) \o r = <<a, b>> \o w
    BY <1>1, ConcatAssociative
<1> QED BY <1>1, <1>2, <1>3, <1>4

LEMMA ContinueOrders ==
    ASSUME Inv, Ordered, NEW kind, Doing(kind), kind \notin {"methods", "endClass"},
           NEW s, Tame(Now, s), NEW tasks \in Seq(Ready(s)), Continue(s, tasks)
    PROVE  Ordered'
<1>1. todo # <<>> /\ Head(Work).k = kind
    BY DEF Doing
<1>2. Work[1].k \notin {"methods", "endClass"}
    BY <1>1, AtWork
<1>3. /\ Becomes(s) /\ todo' = Append(Front(todo), tasks \o Tail(Work))
      /\ UNCHANGED <<currentClass, functions>>
    BY DEF Continue, Walk
<1>4. PICK r : r = Tail(Work)
    OBVIOUS
<1> QED BY <1>1, <1>2, <1>3, <1>4, TaskOrders

LEMMA StatementOrders ==
    ASSUME Inv, Ordered, AtStatement, NEW s, Tame(Now, s), NEW tasks \in Seq(Ready(s)),
           Statement(s, tasks)
    PROVE  Ordered'
<1>1. todo # <<>> /\ Head(Work).k \in {"stats", "stat"}
    BY DEF AtStatement, Doing
<1>2. Work[1].k \notin {"methods", "endClass"}
    BY <1>1, AtWork
<1>3. PICK r : r = IF Doing("stats") THEN Work ELSE Tail(Work)
    OBVIOUS
<1>4. /\ Becomes(s) /\ todo' = Append(Front(todo), tasks \o r)
      /\ UNCHANGED <<currentClass, functions>>
    BY <1>3 DEF Statement, Walk
<1>5. r \in {Work, Tail(Work)}
    BY <1>3
<1> QED BY <1>1, <1>2, <1>4, <1>5, TaskOrders

(* The tasks of a scope, and of a variable.                                *)
Scoping == ForTasks \cup {"methods", "endClass", "endScope", "define"}

LEMMA QuietTasks ==
    ASSUME NEW s, NEW tasks \in Seq(Quiet(s))
    PROVE  /\ tasks \in Seq(Ready(s)) /\ tasks \in Seq(Tasks)
           /\ \A k \in 1..Len(tasks) : tasks[k] \notin ScopeTasks /\ tasks[k].k # "define"
<1>1. \A k \in 1..Len(tasks) : tasks[k] \in Quiet(s)
    BY ElementOfSeq
<1>2. Quiet(s) \subseteq Ready(s) /\ Ready(s) \subseteq Tasks
    BY DEF Quiet, Ready
<1>3. tasks \in Seq(Ready(s)) /\ tasks \in Seq(Tasks)
    BY <1>2
<1> QED BY <1>1, <1>3 DEF Quiet

LEMMA StepsCalmly ==
    ASSUME Inv, Ordered, Lexical, todo # <<>>, Work[1].k \notin Scoping,
           NEW s, Becomes(s), Calm(Now, s), UNCHANGED <<currentClass, functions>>,
           NEW tasks \in Seq(Quiet(s)), NEW r, r \in {Work, Tail(Work)},
           todo' = Append(Front(todo), tasks \o r)
    PROVE  Ordered' /\ Lexical'
<1>1. /\ tasks \in Seq(Ready(s)) /\ tasks \in Seq(Tasks)
      /\ \A k \in 1..Len(tasks) : tasks[k] \notin ScopeTasks /\ tasks[k].k # "define"
    BY QuietTasks
<1>2. /\ Work[1].k \notin {"methods", "endClass"} /\ Work[1].k # "define"
      /\ Work[1] \notin ScopeTasks
    BY DEF Scoping, ScopeTasks
<1>3. Tame(Now, s)
    BY DEF Calm
<1>4. Ordered'
    BY <1>1, <1>2, <1>3, TaskOrders
<1>5. Lexical'
    BY <1>1, <1>2, TaskLays
<1> QED BY <1>4, <1>5

LEMMA EvaluateCalmly ==
    ASSUME Inv, Ordered, Lexical, AtExpr, NEW s, Calm(Now, s), NEW tasks \in Seq(Quiet(s)),
           Evaluate(s, tasks)
    PROVE  Ordered' /\ Lexical'
<1>1. todo # <<>> /\ Head(Work).k = "expr"
    BY DEF AtExpr, Doing
<1>2. Work[1].k \notin Scoping
    BY <1>1, AtWork DEF Scoping, ForTasks
<1>3. /\ Becomes(s) /\ todo' = Append(Front(todo), tasks \o Tail(Work))
      /\ UNCHANGED <<currentClass, functions>>
    BY DEF Evaluate, Walk
<1>4. PICK r : r = Tail(Work)
    OBVIOUS
<1> QED BY <1>1, <1>2, <1>3, <1>4, StepsCalmly

LEMMA ContinueCalmly ==
    ASSUME Inv, Ordered, Lexical, NEW kind, Doing(kind), kind \notin Scoping,
           NEW s, Calm(Now, s), NEW tasks \in Seq(Quiet(s)), Continue(s, tasks)
    PROVE  Ordered' /\ Lexical'
<1>1. todo # <<>> /\ Head(Work).k = kind
    BY DEF Doing
<1>2. Work[1].k \notin Scoping
    BY <1>1, AtWork
<1>3. /\ Becomes(s) /\ todo' = Append(Front(todo), tasks \o Tail(Work))
      /\ UNCHANGED <<currentClass, functions>>
    BY DEF Continue, Walk
<1>4. PICK r : r = Tail(Work)
    OBVIOUS
<1> QED BY <1>1, <1>2, <1>3, <1>4, StepsCalmly

LEMMA StatementCalmly ==
    ASSUME Inv, Ordered, Lexical, AtStatement, NEW s, Calm(Now, s), NEW tasks \in Seq(Quiet(s)),
           Statement(s, tasks)
    PROVE  Ordered' /\ Lexical'
<1>1. todo # <<>> /\ Head(Work).k \in {"stats", "stat"}
    BY DEF AtStatement, Doing
<1>2. Work[1].k \notin Scoping
    BY <1>1, AtWork DEF Scoping, ForTasks
<1>3. PICK r : r = IF Doing("stats") THEN Work ELSE Tail(Work)
    OBVIOUS
<1>4. /\ Becomes(s) /\ todo' = Append(Front(todo), tasks \o r)
      /\ UNCHANGED <<currentClass, functions>>
    BY <1>3 DEF Statement, Walk
<1>5. r \in {Work, Tail(Work)}
    BY <1>3
<1> QED BY <1>1, <1>2, <1>4, <1>5, StepsCalmly

Easy == {t \in Tasks : t.k \notin LoopTasks \cup {"patch", "ifElse", "endClass", "superInvoke"}}

LEMMA EasyIsReady ==
    ASSUME NEW s
    PROVE  Easy \subseteq Ready(s)
<1> SUFFICES ASSUME NEW t \in Easy
             PROVE  t \in Ready(s)
    OBVIOUS
<1>1. t \in Tasks /\ t.k \notin LoopTasks /\ t.k \notin {"patch", "ifElse", "endClass", "superInvoke"}
    BY DEF Easy
<1>2. JumpsOf(t) = {}
    BY <1>1 DEF JumpsOf, LoopTasks
<1>3. Landings(t) = {}
    BY <1>1, <1>2 DEF Landings
<1> QED BY <1>1, <1>3 DEF Ready, LandsAll

LEMMA EasyTasks ==
    /\ Expr \in Easy /\ \A b \in BOOLEAN : Target(b) \in Easy
    /\ \A op \in Emitted, n \in Nat : Then(op, n) \in Easy
    /\ \A k \in {"andJump", "orJump"}, b \in BOOLEAN : [k |-> k, canAssign |-> b] \in Easy
    /\ \A x \in Names : Define(x) \in Easy
    /\ \A k \in {"stat", "stats", "methods", "ifThen"} : Task(k) \in Easy
    /\ \A base \in Nat : Scope(base) \in Easy
<1>1. Expr \in Easy /\ \A b \in BOOLEAN : Target(b) \in Easy
    BY DEF Easy, Expr, Target, Tasks, LoopTasks
<1>2. \A op \in Emitted, n \in Nat : Then(op, n) \in Easy
    BY DEF Easy, Then, Tasks, LoopTasks
<1>3. \A k \in {"andJump", "orJump"}, b \in BOOLEAN : [k |-> k, canAssign |-> b] \in Easy
    BY DEF Easy, Tasks, LoopTasks
<1>4. \A x \in Names : Define(x) \in Easy
    BY DEF Easy, Define, Tasks, LoopTasks
<1>5. \A k \in {"stat", "stats", "methods", "ifThen"} : Task(k) \in Easy
    BY DEF Easy, Task, Tasks, LoopTasks
<1>6. \A base \in Nat : Scope(base) \in Easy
    BY DEF Easy, Scope, Tasks, LoopTasks
<1> QED BY <1>1, <1>2, <1>3, <1>4, <1>5, <1>6

LEMMA EasySequences ==
    ASSUME NEW s
    PROVE  /\ <<>> \in Seq(Ready(s)) /\ \A tasks \in Seq(Easy) : tasks \in Seq(Ready(s))
           /\ \A a \in Easy : <<a>> \in Seq(Ready(s)) /\ a \in Ready(s)
           /\ \A a, b \in Easy : <<a, b>> \in Seq(Ready(s))
           /\ \A a, b, c \in Easy : <<a, b, c>> \in Seq(Ready(s))
BY EasyIsReady, ShortSequences

(* Easy tasks that are quiet.                                              *)
Mild == {t \in Easy : t.k # "define" /\ t.k # "endScope"}

LEMMA MildIsQuiet ==
    ASSUME NEW s
    PROVE  Mild \subseteq Quiet(s)
<1> SUFFICES ASSUME NEW t \in Mild
             PROVE  t \in Quiet(s)
    OBVIOUS
<1>1. t \in Ready(s)
    BY EasyIsReady DEF Mild
<1>2. t \notin ScopeTasks
    BY DEF Mild, Easy, ScopeTasks, ForTasks, LoopTasks
<1> QED BY <1>1, <1>2 DEF Quiet, Mild

LEMMA MildTasks ==
    /\ Expr \in Mild /\ \A b \in BOOLEAN : Target(b) \in Mild
    /\ \A op \in Emitted, n \in Nat : Then(op, n) \in Mild
    /\ \A k \in {"andJump", "orJump"}, b \in BOOLEAN : [k |-> k, canAssign |-> b] \in Mild
    /\ \A k \in {"stat", "stats", "methods", "ifThen"} : Task(k) \in Mild
<1>1. Expr \in Mild /\ \A b \in BOOLEAN : Target(b) \in Mild
    BY EasyTasks DEF Mild, Expr, Target
<1>2. \A op \in Emitted, n \in Nat : Then(op, n) \in Mild
    BY EasyTasks DEF Mild, Then
<1>3. \A k \in {"andJump", "orJump"}, b \in BOOLEAN : [k |-> k, canAssign |-> b] \in Mild
    BY EasyTasks DEF Mild
<1>4. \A k \in {"stat", "stats", "methods", "ifThen"} : Task(k) \in Mild
    BY EasyTasks DEF Mild, Task
<1> QED BY <1>1, <1>2, <1>3, <1>4

LEMMA MildSequences ==
    ASSUME NEW s
    PROVE  /\ <<>> \in Seq(Quiet(s)) /\ \A tasks \in Seq(Mild) : tasks \in Seq(Quiet(s))
           /\ \A a \in Mild : <<a>> \in Seq(Quiet(s)) /\ a \in Quiet(s)
           /\ \A a, b \in Mild : <<a, b>> \in Seq(Quiet(s))
           /\ \A a, b, c \in Mild : <<a, b, c>> \in Seq(Quiet(s))
BY MildIsQuiet, ShortSequences

LEMMA ArgumentsAreMild ==
    ASSUME NEW n \in Nat
    PROVE  Arguments(n) \in Seq(Mild)
<1>1. Arguments(n) \in [1..n -> Mild]
    BY MildTasks DEF Arguments
<1> QED BY <1>1, FunctionIsSeq

LEMMA NowIsGood ==
    ASSUME Inv, NEW kind, Doing(kind)
    PROVE  /\ todo # <<>> /\ Good(Now) /\ Tame(Now, Now) /\ Calm(Now, Now) /\ Work[1] = Head(Work)
           /\ Work[1] \in Tasks /\ Work[1].k = kind /\ Now.contexts = contexts /\ Now.error = error
BY AtWork, TameSelf, CalmSelf DEF Doing, Now

-----------------------------------------------------------------------------
(* What `this' and `super' refer to.                                       *)

LEMMA FoundOn ==
    ASSUME NEW s, Good(s), NEW t, Tame(s, t), SameLocals(Current(s), Current(t)), NEW name,
           Found(s, name)
    PROVE  Found(t, name)
<1>1. PICK n : n = Len(s.contexts)
    OBVIOUS
<1>2. n \in Nat /\ Len(t.contexts) = n /\ Current(s) = s.contexts[n] /\ Current(t) = t.contexts[n]
    BY <1>1, CurrentIsFine DEF Tame, Follows
<1>3. PICK j \in 1..n : \E i \in 1..Len(s.contexts[j].locals) :
            s.contexts[j].locals[i].name = name
    BY <1>1 DEF Found
<1>4. SameLocals(s.contexts[j], t.contexts[j])
    <2>1. CASE j = n
        BY <1>2, <2>1
    <2>2. CASE j # n
        <3>1. j \in 1..Len(s.contexts) - 1
            BY <1>1, <1>2, <2>2
        <3> QED BY <3>1 DEF Tame, Follows, Alike
    <2> QED BY <2>1, <2>2
<1> QED BY <1>2, <1>3, <1>4, SMTT(30) DEF Found, SameLocals

LEMMA ThisIsFound ==
    ASSUME Inv, todo # <<>>
    PROVE  Found(Now, "this")
<1>1. PICK n \in Nat \ {0} : n = Len(contexts)
    BY AtWork
<1>2. 1 \in 1..n
    OBVIOUS
<1>3. contexts[1].type = "script"
    BY <1>1, <1>2 DEF Inv, Inside
<1>4. Fine(contexts[1]) /\ contexts[1] \in Contexts
    BY <1>1, <1>2 DEF Inv, Compiling, Fine
<1>5. contexts[1].locals[1].name = "this"
    BY <1>3, <1>4 DEF Fine
<1>6. 1 \in 1..Len(contexts[1].locals)
    <2>1. Len(contexts[1].locals) \in 1..UINT8_COUNT
        BY <1>4 DEF Fine
    <2>2. UINT8_COUNT \in Nat
        BY Limits
    <2> QED BY <2>1, <2>2
<1> QED BY <1>1, <1>2, <1>5, <1>6 DEF Found, Now

LEMMA SuperIsFound ==
    ASSUME Inv, Ordered, todo # <<>>, error = NoError, InSubclass
    PROVE  Found(Now, "super")
<1>1. PICK k : k = Len(currentClass)
    OBVIOUS
<1>2. k \in 1..Len(currentClass) /\ currentClass[k]
    <2>1. currentClass \in Seq(BOOLEAN) /\ currentClass # <<>>
        BY DEF Inv, Settings, InSubclass
    <2>2. k \in 1..Len(currentClass) /\ Last(currentClass) = currentClass[k]
        BY <1>1, <2>1, FrontAndLast
    <2> QED BY <2>2 DEF InSubclass
<1>3. PICK at \in [1..Len(currentClass) -> 1..Len(contexts)] :
            ClassesAt(contexts, todo, currentClass, at)
    BY DEF Ordered, OpenClasses
<1>4. HasSuper(contexts[at[k]]) /\ at[k] \in 1..Len(contexts)
    BY <1>2, <1>3 DEF ClassesAt
<1> QED BY <1>4 DEF Found, HasSuper, Now

-----------------------------------------------------------------------------
(* Expressions.                                                            *)

LEMMA PlainOps ==
    /\ \A op \in {"CONSTANT", "GET_SUPER", "SUPER_INVOKE", "NIL", "POP", "CLASS", "INHERIT",
                  "CLOSURE", "METHOD", "DEFINE_GLOBAL", "LOOP"} :
            op \in Operations /\ op \notin LookUps
    /\ \A op \in Emitted : op \in Operations /\ op \notin LookUps
BY DEF Operations, Pushes, Pops, Keeps, Diverts, Calls, LookUps, UpvalueOps, GlobalOps, Emitted

LEMMA LiteralOrders ==
    ASSUME Inv, Ordered, Lexical, Literal
    PROVE  Ordered' /\ Lexical'
<1>1. AtExpr
    BY DEF Literal, Leaf
<1>2. PICK op : op = "CONSTANT"
    OBVIOUS
<1>3. op \in Operations /\ op \notin LookUps
    BY <1>2, PlainOps
<1>4. PICK zero \in Int : zero = 0
    OBVIOUS
<1>5. PICK s : s = Emit(Now, op, zero)
    OBVIOUS
<1>6. Good(Now)
    BY <1>1, AtExprFacts
<1>7. Calm(Now, s)
    BY <1>3, <1>5, <1>6, EmitsCalm
<1>8. PICK tasks : tasks = <<>>
    OBVIOUS
<1>9. tasks \in Seq(Quiet(s))
    BY <1>8, MildSequences
<1>10. Evaluate(s, tasks)
    BY <1>2, <1>4, <1>5, <1>8 DEF Literal
<1> QED BY <1>1, <1>7, <1>9, <1>10, EvaluateCalmly

LEMMA VariableOrders ==
    ASSUME Inv, Ordered, Lexical, Variable
    PROVE  Ordered' /\ Lexical'
<1>1. AtExpr
    BY DEF Variable, Leaf
<1>2. PICK tasks : tasks = <<>>
    OBVIOUS
<1>3. PICK x \in Identifiers : Evaluate(NamedVariable(Now, x, CanAssign), tasks)
    BY <1>2 DEF Variable
<1>4. x \in Names /\ x \in VariableNames
    BY FamilyBounds
<1>5. PICK s : s = NamedVariable(Now, x, CanAssign)
    OBVIOUS
<1>6. Good(Now)
    BY <1>1, AtExprFacts
<1>7. Known(Now, x)
    BY <1>4 DEF Known
<1>8. Calm(Now, s)
    BY <1>4, <1>5, <1>6, <1>7, LooksUpCalm
<1>9. tasks \in Seq(Quiet(s))
    BY <1>2, MildSequences
<1> QED BY <1>1, <1>3, <1>5, <1>8, <1>9, EvaluateCalmly

LEMMA ThisOrders ==
    ASSUME Inv, Ordered, Lexical, This
    PROVE  Ordered' /\ Lexical'
<1>1. AtExpr /\ todo # <<>>
    BY DEF This, Leaf, AtExpr, Doing
<1>2. PICK tasks : tasks = <<>>
    OBVIOUS
<1>3. Good(Now)
    BY <1>1, AtExprFacts
<1>4. CASE currentClass = <<>>
    <2>1. PICK what \in Errors : what = "Can't use 'this' outside of a class"
        BY DEF Errors
    <2>2. PICK wrong : wrong = TRUE
        OBVIOUS
    <2>3. PICK s : s = FailIf(Now, wrong, what)
        OBVIOUS
    <2>4. Evaluate(s, tasks)
        BY <1>2, <1>4, <2>1, <2>2, <2>3 DEF This
    <2>5. Calm(Now, s)
        BY <1>3, <2>3, FailCalm
    <2>6. tasks \in Seq(Quiet(s))
        BY <1>2, MildSequences
    <2> QED BY <1>1, <2>4, <2>5, <2>6, EvaluateCalmly
<1>5. CASE currentClass # <<>>
    <2>1. PICK name \in VariableNames : name = "this"
        BY DEF VariableNames
    <2>2. PICK none : none = FALSE
        OBVIOUS
    <2>3. PICK s : s = NamedVariable(Now, name, none)
        OBVIOUS
    <2>4. Evaluate(s, tasks)
        BY <1>2, <1>5, <2>1, <2>2, <2>3 DEF This
    <2>5. Known(Now, name)
        BY <1>1, <2>1, ThisIsFound DEF Known
    <2>6. Calm(Now, s)
        BY <1>3, <2>3, <2>5, LooksUpCalm
    <2>7. tasks \in Seq(Quiet(s))
        BY <1>2, MildSequences
    <2> QED BY <1>1, <2>4, <2>6, <2>7, EvaluateCalmly
<1> QED BY <1>4, <1>5

LEMMA SuperOrders ==
    ASSUME Inv, Ordered, Lexical, Super
    PROVE  Ordered' /\ Lexical'
<1>1. AtExpr /\ todo # <<>>
    BY DEF Super, Compound, AtExpr, Doing
<1>2. Good(Now)
    BY <1>1, AtExprFacts
<1>3. PICK wrong : wrong = (currentClass = <<>> \/ ~Last(currentClass))
    OBVIOUS
<1>4. PICK what \in Errors : what = "Can't use 'super' here"
    BY DEF Errors
<1>5. PICK s : s = FailIf(Now, wrong, what)
    OBVIOUS
<1>6. Calm(Now, s) /\ Good(s) /\ Current(s) = Current(Now) /\ s.contexts = Now.contexts
    BY <1>2, <1>5, FailCalm
<1>7. s.error = NoError => error = NoError /\ InSubclass
    <2>1. s.error = IF wrong /\ Now.error = NoError THEN what ELSE Now.error
        BY <1>2, <1>5, Failed
    <2>2. what # NoError /\ Now.error = error
        BY <1>4 DEF NoError, Now
    <2>3. s.error = NoError => error = NoError /\ ~wrong
        BY <2>1, <2>2
    <2> QED BY <1>3, <2>3 DEF InSubclass
<1>8. PICK self \in VariableNames : self = "this"
    BY DEF VariableNames
<1>9. PICK super \in VariableNames : super = "super"
    BY DEF VariableNames
<1>10. PICK none : none = FALSE
    OBVIOUS
<1>11. PICK this : this = NamedVariable(s, self, none)
    OBVIOUS
<1>12. SameLocals(Current(Now), Current(s))
    BY <1>6, CodeLength, <1>2 DEF SameLocals
<1>13. Calm(s, this) /\ Good(this) /\ SameLocals(Current(s), Current(this))
    <2>1. Found(Now, self)
        BY <1>1, <1>8, ThisIsFound
    <2>2. Found(s, self)
        BY <1>2, <1>6, <1>12, <2>1, FoundOn DEF Calm
    <2> QED BY <1>6, <1>11, <2>2, LooksUpCalm DEF Known
<1>14. Calm(Now, this)
    BY <1>2, <1>6, <1>13, CalmOn
<1>15. Known(this, super)
    <2> SUFFICES ASSUME this.error = NoError
                 PROVE  Found(this, super)
        BY DEF Known
    <2>1. error = NoError /\ InSubclass
        BY <1>7, <1>13 DEF Calm, Tame
    <2>2. Found(Now, super)
        BY <1>1, <1>9, <2>1, SuperIsFound
    <2>3. Found(s, super)
        BY <1>2, <1>6, <1>12, <2>2, FoundOn DEF Calm
    <2> QED BY <1>6, <1>13, <2>3, FoundOn DEF Calm
<1>16. PICK one : one = NamedVariable(this, super, none)
    OBVIOUS
<1>17. Calm(this, one) /\ Good(one)
    BY <1>13, <1>15, <1>16, LooksUpCalm
<1>18. PICK op : op = "GET_SUPER"
    OBVIOUS
<1>19. op \in Operations /\ op \notin LookUps
    BY <1>18, PlainOps
<1>20. PICK zero \in Int : zero = 0
    OBVIOUS
<1>21. PICK t : t = Emit(one, op, zero)
    OBVIOUS
<1>22. Calm(one, t)
    BY <1>17, <1>19, <1>21, EmitsCalm
<1>23. Calm(Now, t)
    <2>1. Calm(Now, one)
        BY <1>2, <1>14, <1>17, CalmOn
    <2> QED BY <1>2, <1>22, <2>1, CalmOn
<1>24. PICK empty : empty = <<>>
    OBVIOUS
<1>25. \/ Evaluate(t, empty)
       \/ \E n \in 0..MaxArgs :
            Evaluate(this, Append(Arguments(n), [k |-> "superInvoke", args |-> n]))
    BY <1>3, <1>4, <1>5, <1>8, <1>9, <1>10, <1>11, <1>16, <1>18, <1>20, <1>21, <1>24 DEF Super
<1>26. CASE Evaluate(t, empty)
    <2>1. empty \in Seq(Quiet(t))
        BY <1>24, MildSequences
    <2> QED BY <1>1, <1>23, <1>26, <2>1, EvaluateCalmly
<1>27. CASE \E n \in 0..MaxArgs :
            Evaluate(this, Append(Arguments(n), [k |-> "superInvoke", args |-> n]))
    <2>1. PICK n \in 0..MaxArgs :
            Evaluate(this, Append(Arguments(n), [k |-> "superInvoke", args |-> n]))
        BY <1>27
    <2>2. n \in Nat
        BY FamilyBounds
    <2>3. PICK call : call = [k |-> "superInvoke", args |-> n]
        OBVIOUS
    <2>4. call \in Tasks /\ call.k = "superInvoke"
        BY <2>2, <2>3 DEF Tasks
    <2>5. Landings(call) = {}
        BY <2>4 DEF Landings, JumpsOf, LoopTasks
    <2>6. this.error = NoError => InSubclass
        BY <1>7, <1>13 DEF Calm, Tame
    <2>7. call \in Quiet(this)
        BY <2>4, <2>5, <2>6 DEF Quiet, Ready, LandsAll, ScopeTasks, ForTasks
    <2>8. PICK args : args = Arguments(n)
        OBVIOUS
    <2>9. args \in Seq(Quiet(this))
        BY <2>2, <2>8, ArgumentsAreMild, MildSequences
    <2>10. Append(args, call) \in Seq(Quiet(this))
        BY <2>7, <2>9, ShortSequences
    <2>11. Evaluate(this, Append(args, call))
        BY <2>1, <2>3, <2>8
    <2> QED BY <1>1, <1>14, <2>10, <2>11, EvaluateCalmly
<1> QED BY <1>25, <1>26, <1>27

LEMMA SuperInvokeOrders ==
    ASSUME Inv, Ordered, Lexical, SuperInvoke
    PROVE  Ordered' /\ Lexical'
<1>1. PICK kind : kind = "superInvoke"
    OBVIOUS
<1>2. Doing(kind) /\ kind \notin Scoping
    BY <1>1 DEF SuperInvoke, Scoping, ForTasks
<1>3. /\ todo # <<>> /\ Good(Now) /\ Work[1] = Head(Work) /\ Work[1] \in Tasks
      /\ Work[1].k = kind /\ Now.error = error
    BY <1>2, NowIsGood
<1>4. PICK super \in VariableNames : super = "super"
    BY DEF VariableNames
<1>5. Known(Now, super)
    <2> SUFFICES ASSUME error = NoError
                 PROVE  Found(Now, super)
        BY <1>3 DEF Known
    <2>1. Has(Work, "superInvoke")
        <3>1. Work \in Seq(Tasks) /\ Work # <<>>
            BY <1>3, AtWork
        <3>2. 1 \in 1..Len(Work)
            BY <3>1, TailOf
        <3> QED BY <1>1, <1>3, <3>2 DEF Has
    <2>2. InSubclass
        BY <1>3, <2>1 DEF Ordered, SuperWaits
    <2> QED BY <1>3, <1>4, <2>2, SuperIsFound
<1>6. PICK none : none = FALSE
    OBVIOUS
<1>7. PICK s : s = NamedVariable(Now, super, none)
    OBVIOUS
<1>8. Calm(Now, s) /\ Good(s)
    BY <1>3, <1>5, <1>7, LooksUpCalm
<1>18. PICK h \in Tasks : h = Head(Work) /\ h.k = "superInvoke"
    BY <1>1, <1>3
<1>9. PICK args \in Int : args = Head(Work).args
    <2>1. h.args \in Nat
        BY <1>18, TaskTypes
    <2> QED BY <1>18, <2>1
<1>10. PICK op : op = "SUPER_INVOKE"
    OBVIOUS
<1>11. op \in Operations /\ op \notin LookUps
    BY <1>10, PlainOps
<1>12. PICK t : t = Emit(s, op, args)
    OBVIOUS
<1>13. Calm(s, t)
    BY <1>8, <1>11, <1>12, EmitsCalm
<1>14. Calm(Now, t)
    BY <1>3, <1>8, <1>13, CalmOn
<1>15. PICK tasks : tasks = <<>>
    OBVIOUS
<1>16. Continue(t, tasks)
    BY <1>4, <1>6, <1>7, <1>9, <1>10, <1>12, <1>15 DEF SuperInvoke
<1>17. tasks \in Seq(Quiet(t))
    BY <1>15, MildSequences
<1> QED BY <1>2, <1>14, <1>16, <1>17, ContinueCalmly

LEMMA EasyOrders ==
    ASSUME Inv, Ordered, Lexical, AtExpr, NEW tasks \in Seq(Mild), Evaluate(Now, tasks)
    PROVE  Ordered' /\ Lexical'
<1>1. Calm(Now, Now)
    BY AtExprFacts, CalmSelf
<1>2. tasks \in Seq(Quiet(Now))
    BY MildSequences
<1> QED BY <1>1, <1>2, EvaluateCalmly

LEMMA OperandTasks ==
    ASSUME Inv, AtExpr
    PROVE  Target(CanAssign) \in Mild /\ Expr \in Mild
BY AtExprFacts, MildTasks

LEMMA UnaryOrders ==
    ASSUME Inv, Ordered, Lexical, Unary
    PROVE  Ordered' /\ Lexical'
<1>1. AtExpr /\ Evaluate(Now, <<Target(CanAssign), Then("UNARY", 0)>>)
    BY DEF Unary, Compound
<1>2. Then("UNARY", 0) \in Mild
    BY MildTasks DEF Emitted
<1>3. <<Target(CanAssign), Then("UNARY", 0)>> \in Seq(Mild)
    BY <1>1, <1>2, OperandTasks, ShortSequences
<1> QED BY <1>1, <1>3, EasyOrders

LEMMA BinaryOrders ==
    ASSUME Inv, Ordered, Lexical, Binary
    PROVE  Ordered' /\ Lexical'
<1>1. AtExpr /\ Evaluate(Now, <<Target(CanAssign), Target(CanAssign), Then("BINARY", 0)>>)
    BY DEF Binary, Compound
<1>2. Then("BINARY", 0) \in Mild
    BY MildTasks DEF Emitted
<1>3. <<Target(CanAssign), Target(CanAssign), Then("BINARY", 0)>> \in Seq(Mild)
    BY <1>1, <1>2, OperandTasks, ShortSequences
<1> QED BY <1>1, <1>3, EasyOrders

LEMMA LogicOrders ==
    ASSUME Inv, Ordered, Lexical, Logic
    PROVE  Ordered' /\ Lexical'
<1>1. AtExpr
    BY DEF Logic, Compound
<1>2. PICK jump \in {"andJump", "orJump"} :
        Evaluate(Now, <<Target(CanAssign), [k |-> jump, canAssign |-> CanAssign]>>)
    BY DEF Logic
<1>3. [k |-> jump, canAssign |-> CanAssign] \in Mild
    BY <1>1, AtExprFacts, MildTasks
<1>4. <<Target(CanAssign), [k |-> jump, canAssign |-> CanAssign]>> \in Seq(Mild)
    BY <1>1, <1>3, OperandTasks, ShortSequences
<1> QED BY <1>1, <1>2, <1>4, EasyOrders

LEMMA AssignOrders ==
    ASSUME Inv, Ordered, Lexical, Assign
    PROVE  Ordered' /\ Lexical'
<1>1. AtExpr /\ Evaluate(Now, <<Expr, Target(TRUE)>>)
    BY DEF Assign, Compound
<1>2. Target(TRUE) \in Mild
    BY MildTasks
<1>3. <<Expr, Target(TRUE)>> \in Seq(Mild)
    BY <1>1, <1>2, OperandTasks, ShortSequences
<1> QED BY <1>1, <1>3, EasyOrders

LEMMA CallTasks ==
    ASSUME NEW n \in Nat, NEW op \in Emitted, NEW t \in Mild
    PROVE  <<t>> \o Append(Arguments(n), Then(op, n)) \in Seq(Mild)
<1>1. Arguments(n) \in Seq(Mild)
    BY ArgumentsAreMild
<1>2. Then(op, n) \in Mild
    BY MildTasks
<1>3. Append(Arguments(n), Then(op, n)) \in Seq(Mild)
    BY <1>1, <1>2, ShortSequences
<1> QED BY <1>3, ShortSequences

LEMMA CallOrders ==
    ASSUME Inv, Ordered, Lexical, Call
    PROVE  Ordered' /\ Lexical'
<1>1. AtExpr
    BY DEF Call, Compound
<1>2. PICK n \in 0..MaxArgs : Evaluate(Now, <<Expr>> \o Append(Arguments(n), Then("CALL", n)))
    BY DEF Call
<1>3. n \in Nat
    BY FamilyBounds
<1>4. PICK op \in Emitted : op = "CALL"
    BY DEF Emitted
<1>5. <<Expr>> \o Append(Arguments(n), Then(op, n)) \in Seq(Mild)
    BY <1>1, <1>3, OperandTasks, CallTasks
<1> QED BY <1>1, <1>2, <1>4, <1>5, EasyOrders

LEMMA DotOrders ==
    ASSUME Inv, Ordered, Lexical, Dot
    PROVE  Ordered' /\ Lexical'
<1>1. AtExpr
    BY DEF Dot, Compound
<1>2. \/ Evaluate(Now, <<Target(CanAssign), Then("GET_PROPERTY", 0)>>)
      \/ Evaluate(Now, <<Target(CanAssign), Expr, Then("SET_PROPERTY", 0)>>)
      \/ \E n \in 0..MaxArgs :
            Evaluate(Now, <<Target(CanAssign)>> \o Append(Arguments(n), Then("INVOKE", n)))
    BY DEF Dot
<1>3. Target(CanAssign) \in Mild /\ Expr \in Mild
    BY <1>1, OperandTasks
<1>4. CASE Evaluate(Now, <<Target(CanAssign), Then("GET_PROPERTY", 0)>>)
    <2>1. Then("GET_PROPERTY", 0) \in Mild
        BY MildTasks DEF Emitted
    <2>2. <<Target(CanAssign), Then("GET_PROPERTY", 0)>> \in Seq(Mild)
        BY <1>3, <2>1, ShortSequences
    <2> QED BY <1>1, <1>4, <2>2, EasyOrders
<1>5. CASE Evaluate(Now, <<Target(CanAssign), Expr, Then("SET_PROPERTY", 0)>>)
    <2>1. Then("SET_PROPERTY", 0) \in Mild
        BY MildTasks DEF Emitted
    <2>2. <<Target(CanAssign), Expr, Then("SET_PROPERTY", 0)>> \in Seq(Mild)
        BY <1>3, <2>1, ShortSequences
    <2> QED BY <1>1, <1>5, <2>2, EasyOrders
<1>6. CASE \E n \in 0..MaxArgs :
            Evaluate(Now, <<Target(CanAssign)>> \o Append(Arguments(n), Then("INVOKE", n)))
    <2>1. PICK n \in 0..MaxArgs :
            Evaluate(Now, <<Target(CanAssign)>> \o Append(Arguments(n), Then("INVOKE", n)))
        BY <1>6
    <2>2. n \in Nat
        BY FamilyBounds
    <2>3. PICK op \in Emitted : op = "INVOKE"
        BY DEF Emitted
    <2>4. <<Target(CanAssign)>> \o Append(Arguments(n), Then(op, n)) \in Seq(Mild)
        BY <1>3, <2>2, CallTasks
    <2> QED BY <1>1, <2>1, <2>3, <2>4, EasyOrders
<1> QED BY <1>2, <1>4, <1>5, <1>6

LEMMA EmitOpOrders ==
    ASSUME Inv, Ordered, Lexical, EmitOp
    PROVE  Ordered' /\ Lexical'
<1>1. PICK kind : kind = "emit"
    OBVIOUS
<1>2. Doing(kind) /\ kind \notin Scoping
    BY <1>1 DEF EmitOp, Scoping, ForTasks
<1>3. Good(Now) /\ Work[1] = Head(Work) /\ Work[1] \in Tasks /\ Work[1].k = kind
    BY <1>2, NowIsGood
<1>4. PICK h \in Tasks : h = Head(Work) /\ h.k = "emit"
    BY <1>1, <1>3
<1>5. h.op \in Emitted /\ h.arg \in Nat
    BY <1>4, TaskTypes
<1>6. h.op \in Operations /\ h.op \notin LookUps /\ h.arg \in Int
    BY <1>5, PlainOps
<1>7. PICK s : s = Emit(Now, h.op, h.arg)
    OBVIOUS
<1>8. Calm(Now, s)
    BY <1>3, <1>6, <1>7, EmitsCalm
<1>9. PICK tasks : tasks = <<>>
    OBVIOUS
<1>10. Continue(s, tasks)
    BY <1>4, <1>7, <1>9 DEF EmitOp
<1>11. tasks \in Seq(Quiet(s))
    BY <1>9, MildSequences
<1> QED BY <1>2, <1>8, <1>10, <1>11, ContinueCalmly

(* Where a task says that there is a jump there is one.                    *)
LEMMA WorkLands ==
    ASSUME Inv, Ordered, NEW kind, Doing(kind)
    PROVE  LandsAll(Current(Now), Work[1]) /\ AtBreak(Current(Now))
<1>1. todo # <<>>
    BY DEF Doing
<1>2. PICK n \in Nat \ {0} : n = Len(contexts)
    BY AtWork, <1>1
<1>3. n \in 1..n /\ Current(Now) = contexts[n] /\ Work = todo[n] /\ Work \in Seq(Tasks)
      /\ Work # <<>>
    BY <1>1, <1>2, AtWork
<1>4. Lands(Current(Now), Work)
    BY <1>2, <1>3 DEF Ordered
<1>5. 1 \in 1..Len(Work)
    BY <1>3, TailOf
<1> QED BY <1>4, <1>5 DEF Lands, LandsAll, AtBreak

LEMMA JumpIsReady ==
    ASSUME NEW s, NEW kind \in {"patch", "ifElse"}, NEW jump \in Nat, AtJump(Current(s), jump),
           NEW t, t = [k |-> kind, jump |-> jump]
    PROVE  t \in Quiet(s)
<1>1. t \in Tasks /\ t.k = kind /\ JumpsOf(t) = {jump} /\ t.k \notin LoopTasks
    BY JumpTask
<1>2. Landings(t) = {jump}
    BY <1>1 DEF Landings
<1>3. t.k # "superInvoke" /\ t.k # "endClass"
    BY <1>1
<1> QED BY <1>1, <1>2, <1>3 DEF Quiet, Ready, LandsAll, ScopeTasks, ForTasks

LEMMA LandsOne ==
    ASSUME NEW c, NEW t \in Tasks, t.k \in {"patch", "ifElse"}, LandsAll(c, t)
    PROVE  t.jump \in Nat /\ AtJump(c, t.jump)
<1>1. t.jump \in Nat
    BY TaskTypes
<1>2. t.k \notin LoopTasks
    BY DEF LoopTasks
<1>3. JumpsOf(t) = {t.jump}
    BY DEF JumpsOf
<1>4. Landings(t) = {t.jump}
    BY <1>2, <1>3 DEF Landings
<1> QED BY <1>1, <1>4 DEF LandsAll

LEMMA PatchForwardOrders ==
    ASSUME Inv, Ordered, Lexical, PatchForward
    PROVE  Ordered' /\ Lexical'
<1>1. PICK kind : kind = "patch"
    OBVIOUS
<1>2. Doing(kind) /\ kind \notin Scoping
    BY <1>1 DEF PatchForward, Scoping, ForTasks
<1>3. Good(Now) /\ Work[1] = Head(Work) /\ Work[1] \in Tasks /\ Work[1].k = kind /\ todo # <<>>
    BY <1>2, NowIsGood
<1>4. PICK h \in Tasks : h = Head(Work) /\ h.k = "patch" /\ h = Work[1]
    BY <1>1, <1>3
<1>5. h.jump \in Nat /\ AtJump(Current(Now), h.jump)
    <2>1. LandsAll(Current(Now), h)
        BY <1>2, <1>4, WorkLands
    <2> QED BY <1>4, <2>1, LandsOne
<1>6. h.jump # 0
    <2>1. kind # "endFunction"
        BY <1>1
    <2>2. PICK r : r = Tail(Work)
        OBVIOUS
    <2>3. Fits(Current(Now), h)
        BY <1>2, <1>4, <2>1, <2>2, TaskBegins
    <2> QED BY <1>4, <1>5, <2>3 DEF Fits
<1>7. PICK s : s = PatchJump(Now, h.jump)
    OBVIOUS
<1>8. Calm(Now, s)
    BY <1>3, <1>5, <1>6, <1>7, PatchCalm
<1>9. PICK tasks : tasks = <<>>
    OBVIOUS
<1>10. Continue(s, tasks)
    BY <1>4, <1>7, <1>9 DEF PatchForward
<1>11. tasks \in Seq(Quiet(s))
    BY <1>9, MildSequences
<1> QED BY <1>2, <1>8, <1>10, <1>11, ContinueCalmly

LEMMA PopCalm ==
    ASSUME NEW s, Good(s), NEW t, t = Emit(s, "POP", 0)
    PROVE  Calm(s, t) /\ Good(t) /\ SameLocals(Current(s), Current(t))
<1>1. PICK op : op = "POP"
    OBVIOUS
<1>2. op \in Operations /\ op \notin LookUps
    BY <1>1, PlainOps
<1>3. PICK zero \in Int : zero = 0
    OBVIOUS
<1>4. t = Emit(s, op, zero)
    BY <1>1, <1>3
<1> QED BY <1>2, <1>4, EmitsCalm

LEMMA JumpStays ==
    ASSUME NEW s, Good(s), NEW t, Tame(s, t), NEW i, AtJump(Current(s), i)
    PROVE  AtJump(Current(t), i)
<1>1. Good(t)
    BY DEF Tame, Follows
<1>2. Len(Current(s).code) \in Nat /\ Len(Current(t).code) \in Nat
    BY <1>1, CodeLength
<1> QED BY <1>2, AtJumpOn DEF Tame

LEMMA AndJumpOrders ==
    ASSUME Inv, Ordered, Lexical, AndJump
    PROVE  Ordered' /\ Lexical'
<1>1. PICK kind : kind = "andJump"
    OBVIOUS
<1>2. Doing(kind) /\ kind \notin Scoping
    BY <1>1 DEF AndJump, Scoping, ForTasks
<1>3. Good(Now) /\ Work[1] = Head(Work) /\ Work[1] \in Tasks /\ Work[1].k = kind
    BY <1>2, NowIsGood
<1>4. PICK h \in Tasks : h = Head(Work) /\ h.k = "andJump"
    BY <1>1, <1>3
<1>5. PICK op \in {"JUMP", "JUMP_IF_FALSE"} : op = "JUMP_IF_FALSE"
    OBVIOUS
<1>6. PICK s : s = EmitJump(Now, op)
    OBVIOUS
<1>7. PICK jump : jump = Position(s)
    OBVIOUS
<1>8. Calm(Now, s) /\ Good(s) /\ jump \in Nat /\ jump # 0 /\ AtJump(Current(s), jump)
    BY <1>3, <1>6, <1>7, JumpCalm
<1>9. PICK t : t = Emit(s, "POP", 0)
    OBVIOUS
<1>10. Calm(s, t) /\ Good(t)
    BY <1>8, <1>9, PopCalm
<1>11. Calm(Now, t)
    BY <1>3, <1>8, <1>10, CalmOn
<1>12. AtJump(Current(t), jump)
    BY <1>8, <1>10, JumpStays DEF Calm
<1>13. PICK patch : patch = Patch(jump)
    OBVIOUS
<1>14. patch \in Quiet(t)
    BY <1>8, <1>12, <1>13, JumpIsReady DEF Patch
<1>15. PICK next : next = Target(CanAssign)
    OBVIOUS
<1>16. next \in Quiet(t)
    <2>1. h.canAssign \in BOOLEAN
        BY <1>4, CanAssignType
    <2> QED BY <1>4, <1>15, <2>1, MildTasks, MildSequences DEF CanAssign
<1>17. PICK tasks : tasks = <<next, patch>>
    OBVIOUS
<1>18. tasks \in Seq(Quiet(t))
    BY <1>14, <1>16, <1>17, ShortSequences
<1>19. Continue(t, tasks)
    BY <1>5, <1>6, <1>7, <1>9, <1>13, <1>15, <1>17 DEF AndJump
<1> QED BY <1>2, <1>11, <1>18, <1>19, ContinueCalmly

LEMMA OrJumpOrders ==
    ASSUME Inv, Ordered, Lexical, OrJump
    PROVE  Ordered' /\ Lexical'
<1>1. PICK kind : kind = "orJump"
    OBVIOUS
<1>2. Doing(kind) /\ kind \notin Scoping
    BY <1>1 DEF OrJump, Scoping, ForTasks
<1>3. Good(Now) /\ Work[1] = Head(Work) /\ Work[1] \in Tasks /\ Work[1].k = kind
    BY <1>2, NowIsGood
<1>4. PICK h \in Tasks : h = Head(Work) /\ h.k = "orJump"
    BY <1>1, <1>3
<1>5. PICK op \in {"JUMP", "JUMP_IF_FALSE"} : op = "JUMP_IF_FALSE"
    OBVIOUS
<1>20. PICK over \in {"JUMP", "JUMP_IF_FALSE"} : over = "JUMP"
    OBVIOUS
<1>6. PICK s : s = EmitJump(Now, op)
    OBVIOUS
<1>7. PICK jump : jump = Position(s)
    OBVIOUS
<1>8. Calm(Now, s) /\ Good(s) /\ jump \in Nat /\ jump # 0 /\ AtJump(Current(s), jump)
    BY <1>3, <1>6, <1>7, JumpCalm
<1>9. PICK t : t = EmitJump(s, over)
    OBVIOUS
<1>10. PICK end : end = Position(t)
    OBVIOUS
<1>11. Calm(s, t) /\ Good(t) /\ end \in Nat /\ end # 0 /\ AtJump(Current(t), end)
    BY <1>8, <1>9, <1>10, JumpCalm
<1>12. AtJump(Current(t), jump)
    BY <1>8, <1>11, JumpStays DEF Calm
<1>13. PICK u : u = PatchJump(t, jump)
    OBVIOUS
<1>14. Calm(t, u) /\ Good(u)
    BY <1>8, <1>11, <1>12, <1>13, PatchCalm
<1>15. PICK v : v = Emit(u, "POP", 0)
    OBVIOUS
<1>16. Calm(u, v) /\ Good(v)
    BY <1>14, <1>15, PopCalm
<1>17. Calm(t, v)
    BY <1>11, <1>14, <1>16, CalmOn
<1>18. Calm(Now, v)
    <2>1. Calm(Now, t)
        BY <1>3, <1>8, <1>11, CalmOn
    <2> QED BY <1>3, <1>17, <2>1, CalmOn
<1>19. AtJump(Current(v), end)
    BY <1>11, <1>17, JumpStays DEF Calm
<1>21. PICK patch : patch = Patch(end)
    OBVIOUS
<1>22. patch \in Quiet(v)
    BY <1>11, <1>19, <1>21, JumpIsReady DEF Patch
<1>23. PICK next : next = Target(CanAssign)
    OBVIOUS
<1>24. next \in Quiet(v)
    <2>1. h.canAssign \in BOOLEAN
        BY <1>4, CanAssignType
    <2> QED BY <1>4, <1>23, <2>1, MildTasks, MildSequences DEF CanAssign
<1>25. PICK tasks : tasks = <<next, patch>>
    OBVIOUS
<1>26. tasks \in Seq(Quiet(v))
    BY <1>22, <1>24, <1>25, ShortSequences
<1>27. Continue(v, tasks)
    BY <1>5, <1>6, <1>7, <1>9, <1>10, <1>13, <1>15, <1>20, <1>21, <1>23, <1>25 DEF OrJump
<1> QED BY <1>2, <1>18, <1>26, <1>27, ContinueCalmly

-----------------------------------------------------------------------------
(* Statements.                                                             *)

LEMMA AtStatementIsGood ==
    ASSUME Inv, AtStatement
    PROVE  Good(Now) /\ Tame(Now, Now) /\ Calm(Now, Now) /\ todo # <<>>
BY StatementBegins, TameSelf, CalmSelf

LEMMA EasyStatementOrders ==
    ASSUME Inv, Ordered, Lexical, AtStatement, NEW tasks \in Seq(Mild), Statement(Now, tasks)
    PROVE  Ordered' /\ Lexical'
<1>1. tasks \in Seq(Quiet(Now))
    BY MildSequences
<1> QED BY <1>1, AtStatementIsGood, StatementCalmly

LEMMA ReturnsCalmly ==
    ASSUME NEW s, Good(s), NEW t, t = EmitReturn(s)
    PROVE  Calm(s, t) /\ Good(t)
<1>1. PICK none \in Int : none = 0
    OBVIOUS
<1>2. PICK nil : nil = "NIL"
    OBVIOUS
<1>3. PICK self : self = "GET_LOCAL"
    OBVIOUS
<1>4. PICK return : return = "RETURN"
    OBVIOUS
<1>5. \A op \in {nil, self, return} : op \in Operations /\ op \notin LookUps
    BY <1>2, <1>3, <1>4 DEF Operations, Pushes, Diverts, LookUps, UpvalueOps, GlobalOps
<1>7. PICK v : /\ v = Emit(s, self, none) \/ v = Emit(s, nil, none)
               /\ t = Emit(v, return, none)
    BY <1>1, <1>2, <1>3, <1>4 DEF EmitReturn
<1>8. Calm(s, v) /\ Good(v)
    BY <1>5, <1>7, EmitsCalm
<1>9. Calm(v, t) /\ Good(t)
    BY <1>5, <1>7, <1>8, EmitsCalm
<1> QED BY <1>8, <1>9, CalmOn

LEMMA PrintStatementOrders ==
    ASSUME Inv, Ordered, Lexical, PrintStatement
    PROVE  Ordered' /\ Lexical'
<1>1. AtStatement /\ Statement(Now, <<Expr, Then("PRINT", 0)>>)
    BY SimpleNodeBegins DEF PrintStatement
<1>2. Then("PRINT", 0) \in Mild /\ Expr \in Mild
    BY MildTasks DEF Emitted
<1>3. <<Expr, Then("PRINT", 0)>> \in Seq(Mild)
    BY <1>2, ShortSequences
<1> QED BY <1>1, <1>3, EasyStatementOrders

LEMMA ExpressionStatementOrders ==
    ASSUME Inv, Ordered, Lexical, ExprStatement
    PROVE  Ordered' /\ Lexical'
<1>1. AtStatement /\ Statement(Now, <<Expr, Then("POP", 0)>>)
    BY SimpleNodeBegins DEF ExprStatement
<1>2. Then("POP", 0) \in Mild /\ Expr \in Mild
    BY MildTasks DEF Emitted
<1>3. <<Expr, Then("POP", 0)>> \in Seq(Mild)
    BY <1>2, ShortSequences
<1> QED BY <1>1, <1>3, EasyStatementOrders

LEMMA ReturnStatementOrders ==
    ASSUME Inv, Ordered, Lexical, ReturnStatement
    PROVE  Ordered' /\ Lexical'
<1>1. AtStatement
    BY SimpleNodeBegins DEF ReturnStatement
<1>2. Good(Now)
    BY <1>1, AtStatementIsGood
<1>3. PICK type : type = Current(Now).type
    OBVIOUS
<1>4. PICK top : top = (type = "script")
    OBVIOUS
<1>5. PICK what \in Errors : what = "Can't return from top-level code"
    BY DEF Errors
<1>6. PICK s : s = FailIf(Now, top, what)
    OBVIOUS
<1>7. Calm(Now, s) /\ Good(s)
    BY <1>2, <1>6, FailCalm
<1>8. PICK init : init = (type = "initializer")
    OBVIOUS
<1>9. PICK other \in Errors : other = "Can't return a value from an initializer"
    BY DEF Errors
<1>10. PICK t : t = FailIf(s, init, other)
    OBVIOUS
<1>11. Calm(Now, t)
    <2>1. Calm(s, t)
        BY <1>7, <1>10, FailCalm
    <2> QED BY <1>2, <1>7, <2>1, CalmOn
<1>12. PICK u : u = EmitReturn(s)
    OBVIOUS
<1>13. Calm(Now, u)
    <2>1. Calm(s, u)
        BY <1>7, <1>12, ReturnsCalmly
    <2> QED BY <1>2, <1>7, <2>1, CalmOn
<1>14. PICK empty : empty = <<>>
    OBVIOUS
<1>15. Statement(u, empty) \/ Statement(t, <<Expr, Then("RETURN", 0)>>)
    BY <1>3, <1>4, <1>5, <1>6, <1>8, <1>9, <1>10, <1>12, <1>14 DEF ReturnStatement
<1>16. CASE Statement(u, empty)
    <2>1. empty \in Seq(Quiet(u))
        BY <1>14, MildSequences
    <2> QED BY <1>1, <1>13, <1>16, <2>1, StatementCalmly
<1>17. CASE Statement(t, <<Expr, Then("RETURN", 0)>>)
    <2>1. Then("RETURN", 0) \in Mild /\ Expr \in Mild
        BY MildTasks DEF Emitted
    <2>2. <<Expr, Then("RETURN", 0)>> \in Seq(Quiet(t))
        BY <2>1, MildSequences
    <2> QED BY <1>1, <1>11, <1>17, <2>2, StatementCalmly
<1> QED BY <1>15, <1>16, <1>17

LEMMA IfStatementOrders ==
    ASSUME Inv, Ordered, Lexical, IfStatement
    PROVE  Ordered' /\ Lexical'
<1>1. AtStatement /\ Statement(Now, <<Expr, Task("ifThen")>>)
    BY DEF IfStatement
<1>2. Task("ifThen") \in Mild /\ Expr \in Mild
    BY MildTasks
<1>3. <<Expr, Task("ifThen")>> \in Seq(Mild)
    BY <1>2, ShortSequences
<1> QED BY <1>1, <1>3, EasyStatementOrders

LEMMA IfThenOrders ==
    ASSUME Inv, Ordered, Lexical, IfThen
    PROVE  Ordered' /\ Lexical'
<1>1. PICK kind : kind = "ifThen"
    OBVIOUS
<1>2. Doing(kind) /\ kind \notin Scoping
    BY <1>1 DEF IfThen, Scoping, ForTasks
<1>3. Good(Now)
    BY <1>2, NowIsGood
<1>5. PICK op \in {"JUMP", "JUMP_IF_FALSE"} : op = "JUMP_IF_FALSE"
    OBVIOUS
<1>6. PICK s : s = EmitJump(Now, op)
    OBVIOUS
<1>7. PICK jump : jump = Position(s)
    OBVIOUS
<1>8. Calm(Now, s) /\ Good(s) /\ jump \in Nat /\ jump # 0 /\ AtJump(Current(s), jump)
    BY <1>3, <1>6, <1>7, JumpCalm
<1>9. PICK t : t = Emit(s, "POP", 0)
    OBVIOUS
<1>10. Calm(s, t) /\ Good(t)
    BY <1>8, <1>9, PopCalm
<1>11. Calm(Now, t)
    BY <1>3, <1>8, <1>10, CalmOn
<1>12. AtJump(Current(t), jump)
    BY <1>8, <1>10, JumpStays DEF Calm
<1>13. PICK last \in {"patch", "ifElse"} : last = "ifElse"
    OBVIOUS
<1>14. PICK else : else = [k |-> last, jump |-> jump]
    OBVIOUS
<1>15. else \in Quiet(t)
    BY <1>8, <1>12, <1>14, JumpIsReady
<1>16. PICK next : next = Task("stat")
    OBVIOUS
<1>17. next \in Quiet(t)
    BY <1>16, MildTasks, MildSequences
<1>18. PICK tasks : tasks = <<next, else>>
    OBVIOUS
<1>19. tasks \in Seq(Quiet(t))
    BY <1>15, <1>17, <1>18, ShortSequences
<1>20. Continue(t, tasks)
    BY <1>5, <1>6, <1>7, <1>9, <1>13, <1>14, <1>16, <1>18 DEF IfThen
<1> QED BY <1>2, <1>11, <1>19, <1>20, ContinueCalmly

LEMMA IfElseOrders ==
    ASSUME Inv, Ordered, Lexical, IfElse
    PROVE  Ordered' /\ Lexical'
<1>1. PICK kind : kind = "ifElse"
    OBVIOUS
<1>2. Doing(kind) /\ kind \notin Scoping
    BY <1>1 DEF IfElse, Scoping, ForTasks
<1>3. Good(Now) /\ Work[1] = Head(Work) /\ Work[1] \in Tasks /\ Work[1].k = kind /\ todo # <<>>
    BY <1>2, NowIsGood
<1>4. PICK h \in Tasks : h = Head(Work) /\ h.k = "ifElse" /\ h = Work[1]
    BY <1>1, <1>3
<1>5. h.jump \in Nat /\ AtJump(Current(Now), h.jump)
    <2>1. LandsAll(Current(Now), h)
        BY <1>2, <1>4, WorkLands
    <2> QED BY <1>4, <2>1, LandsOne
<1>6. h.jump # 0
    <2>1. kind # "endFunction"
        BY <1>1
    <2>2. PICK r : r = Tail(Work)
        OBVIOUS
    <2>3. Fits(Current(Now), h)
        BY <1>2, <1>4, <2>1, <2>2, TaskBegins
    <2> QED BY <1>4, <1>5, <2>3 DEF Fits
<1>7. PICK over \in {"JUMP", "JUMP_IF_FALSE"} : over = "JUMP"
    OBVIOUS
<1>8. PICK s : s = EmitJump(Now, over)
    OBVIOUS
<1>9. PICK jump : jump = Position(s)
    OBVIOUS
<1>10. Calm(Now, s) /\ Good(s) /\ jump \in Nat /\ jump # 0 /\ AtJump(Current(s), jump)
    BY <1>3, <1>8, <1>9, JumpCalm
<1>11. AtJump(Current(s), h.jump)
    BY <1>3, <1>5, <1>10, JumpStays DEF Calm
<1>12. PICK u : u = PatchJump(s, h.jump)
    OBVIOUS
<1>13. Calm(s, u) /\ Good(u)
    BY <1>5, <1>6, <1>10, <1>11, <1>12, PatchCalm
<1>14. PICK t : t = Emit(u, "POP", 0)
    OBVIOUS
<1>15. Calm(u, t) /\ Good(t)
    BY <1>13, <1>14, PopCalm
<1>16. Calm(s, t)
    BY <1>10, <1>13, <1>15, CalmOn
<1>17. Calm(Now, t)
    BY <1>3, <1>10, <1>16, CalmOn
<1>18. AtJump(Current(t), jump)
    BY <1>10, <1>16, JumpStays DEF Calm
<1>19. PICK v : v = PatchJump(t, jump)
    OBVIOUS
<1>20. Calm(Now, v)
    <2>1. Calm(t, v)
        BY <1>10, <1>15, <1>18, <1>19, PatchCalm
    <2> QED BY <1>3, <1>17, <2>1, CalmOn
<1>21. PICK patch : patch = Patch(jump)
    OBVIOUS
<1>22. patch \in Quiet(t)
    BY <1>10, <1>18, <1>21, JumpIsReady DEF Patch
<1>23. PICK next : next = Task("stat")
    OBVIOUS
<1>24. next \in Quiet(t)
    BY <1>23, MildTasks, MildSequences
<1>25. PICK tasks : tasks = <<next, patch>>
    OBVIOUS
<1>26. tasks \in Seq(Quiet(t))
    BY <1>22, <1>24, <1>25, ShortSequences
<1>27. PICK empty : empty = <<>>
    OBVIOUS
<1>28. empty \in Seq(Quiet(v))
    BY <1>27, MildSequences
<1>29. Continue(t, tasks) \/ Continue(v, empty)
    BY <1>4, <1>7, <1>8, <1>9, <1>12, <1>14, <1>19, <1>21, <1>23, <1>25, <1>27 DEF IfElse
<1> QED BY <1>2, <1>17, <1>20, <1>26, <1>28, <1>29, ContinueCalmly
-----------------------------------------------------------------------------
(* Declarations and scopes.                                                *)

LEMMA WiderTame ==
    ASSUME NEW s, Good(s), NEW t, GetsWider(s, t), Plainly(s, t)
    PROVE  Tame(s, t) /\ Good(t)
<1>1. Follows(s, t)
    BY DEF GetsWider
<1>2. Good(t)
    BY <1>1 DEF Follows
<1> QED BY <1>1, <1>2, PlainlyTame

LEMMA FollowsTame ==
    ASSUME NEW s, Good(s), NEW t, Follows(s, t), Plainly(s, t)
    PROVE  Tame(s, t) /\ Good(t)
<1>1. Good(t)
    BY DEF Follows
<1> QED BY <1>1, PlainlyTame

LEMMA DeclaresTame ==
    ASSUME NEW s, Good(s), NEW name \in VariableNames, NEW t, t = DeclareVariable(s, name)
    PROVE  Tame(s, t) /\ Good(t) /\ CanDefine(Current(t))
<1>1. GetsWider(s, t) /\ CanDefine(Current(t)) /\ Plainly(s, t)
    BY DeclaresOne
<1> QED BY <1>1, WiderTame

LEMMA DefinesTame ==
    ASSUME NEW s, Good(s), CanDefine(Current(s)), NEW name \in VariableNames,
           NEW t, t = DefineVariable(s, name)
    PROVE  Tame(s, t) /\ Good(t)
<1>1. GetsWider(s, t) /\ Plainly(s, t)
    BY Defines
<1> QED BY <1>1, WiderTame

LEMMA NilOps ==
    /\ "NIL" \in PlainOperations /\ "NIL" \in Operations /\ "NIL" \notin LookUps
    /\ "CLASS" \in PlainOperations /\ "CLASS" \in Operations /\ "CLASS" \notin LookUps
BY DEF PlainOperations, Operations, Pushes, Jumping, LookUps, UpvalueOps, GlobalOps

(* A variable without an initial value is nil.                             *)
LEMMA NilTame ==
    ASSUME NEW s, Good(s), CanDefine(Current(s)), NEW x \in VariableNames,
           NEW t, t = DefineVariable(Emit(s, "NIL", 0), x)
    PROVE  Tame(s, t) /\ Good(t)
<1>1. PICK op \in PlainOperations : op = "NIL" /\ op \in Operations /\ op \notin LookUps
    BY NilOps
<1>2. PICK none \in Int : none = 0
    OBVIOUS
<1>3. PICK u : u = Emit(s, op, none)
    OBVIOUS
<1>4. GetsWider(s, u) /\ Good(u)
    BY <1>1, <1>2, <1>3, EmitsInPassing
<1>5. Tame(s, u)
    BY <1>1, <1>2, <1>3, EmitsTame
<1>6. CanDefine(Current(u))
    <2>1. Widens(Current(s), Current(u)) /\ Current(s) \in Contexts /\ Current(u) \in Contexts
        BY <1>4, CurrentIsFine DEF GetsWider
    <2> QED BY <2>1, CanStillDefine
<1>7. t = DefineVariable(u, x)
    BY <1>1, <1>2, <1>3
<1>8. Tame(u, t) /\ Good(t)
    BY <1>4, <1>6, <1>7, DefinesTame
<1> QED BY <1>5, <1>8, TameOn

LEMMA BlockIsStatement ==
    ASSUME Doing("stats")
    PROVE  AtStatement
BY DEF AtStatement

-----------------------------------------------------------------------------
(* What becomes of the locals while no variable waits for its value, and   *)
(* while the last one does.                                                *)

Held(c, w, strict) == Laid(c, w, strict) /\ NoneWaits(c)
Expecting(c, w, strict) ==
    /\ Laid(c, w, strict)
    /\ c.scopeDepth = 0 => NoneWaits(c)
    /\ c.scopeDepth > 0 => c.locals[Len(c.locals)].depth = -1
Holds(s, w, strict) == s.error = NoError => Held(Current(s), w, strict)
Waits(s, w, strict) == s.error = NoError => Expecting(Current(s), w, strict)

LEMMA InitialOf ==
    ASSUME NEW S, NEW s \in Seq(S), NEW n \in Nat, n <= Len(s), NEW t, t = SubSeq(s, 1, n)
    PROVE  /\ t \in Seq(S) /\ Len(t) = n
           /\ \A i \in 1..n : t[i] = s[i] /\ i \in 1..Len(s)
<1>1. PICK m \in Nat : m = Len(s)
    BY LenProperties
<1>2. \A i \in 1..n : i \in 1..m
    BY <1>1
<1>3. \A i \in 1..n : s[i] \in S
    BY <1>1, <1>2, ElementOfSeq
<1>4. /\ SubSeq(s, 1, n) \in Seq(S)
      /\ Len(SubSeq(s, 1, n)) = IF 1 <= n THEN n - 1 + 1 ELSE 0
      /\ \A i \in 1..n - 1 + 1 : SubSeq(s, 1, n)[i] = s[1 + i - 1]
    BY <1>3, SubSeqProperties
<1>5. Len(t) = n
    BY <1>4
<1>6. \A i \in 1..n : t[i] = s[i]
    <2>1. TAKE i \in 1..n
    <2>2. i \in 1..n - 1 + 1 /\ 1 + i - 1 = i
        OBVIOUS
    <2> QED BY <1>4, <2>2
<1> QED BY <1>1, <1>2, <1>4, <1>5, <1>6

LEMMA ScopeIsBased ==
    ASSUME NEW t \in ScopeTasks
    PROVE  t.k \in Based /\ t \in Tasks
BY DEF ScopeTasks, Based, ForTasks, LoopTasks

LEMMA DefinesCalmly ==
    ASSUME NEW s, Good(s), ~(Current(s).scopeDepth > 0), NEW name \in VariableNames,
           NEW t, t = DefineVariable(s, name)
    PROVE  Calm(s, t)
<1>1. CanDefine(Current(s))
    <2>1. Current(s).scopeDepth \in Nat
        BY CurrentIsFine, ScopeTypes
    <2> QED BY <2>1 DEF CanDefine
<1>2. Tame(s, t)
    BY <1>1, DefinesTame
<1>3. PICK none \in Int : none = 0
    OBVIOUS
<1>4. PICK op \in Operations : op = "DEFINE_GLOBAL"
    BY DEF Operations, Pops
<1>5. t = EmitNamed(s, op, none, name)
    BY <1>3, <1>4 DEF DefineVariable
<1>6. SameScope(Current(s), Current(t))
    BY <1>5, EmitStays
<1> QED BY <1>2, <1>6 DEF Calm

LEMMA LastIsThere ==
    ASSUME NEW c, Fine(c), NEW n, n = Len(c.locals)
    PROVE  n \in Nat /\ n \in 1..n /\ n >= 1
<1>1. n \in 1..UINT8_COUNT /\ UINT8_COUNT \in Nat
    BY Limits DEF Fine
<1> QED BY <1>1

LEMMA CalmHolds ==
    ASSUME NEW strict \in BOOLEAN, NEW w \in Seq(Tasks), NEW s, Good(s), NEW t, Calm(s, t)
    PROVE  /\ Holds(s, w, strict) => Holds(t, w, strict)
           /\ Waits(s, w, strict) => Waits(t, w, strict)
<1>1. PICK c : c = Current(s)
    OBVIOUS
<1>2. PICK d : d = Current(t)
    OBVIOUS
<1>3. Fine(c) /\ c \in Contexts /\ SameScope(c, d) /\ (t.error = NoError => s.error = NoError)
    BY <1>1, <1>2, CurrentIsFine DEF Calm, Tame
<1>4. PICK n \in Nat : n = Len(c.locals) /\ n \in 1..n /\ n = Len(d.locals)
    BY <1>3, LastIsThere DEF SameScope, SameLocals
<1>5. /\ \A i \in 1..n : d.locals[i].depth = c.locals[i].depth
      /\ d.scopeDepth = c.scopeDepth
    BY <1>3, <1>4 DEF SameScope, SameLocals
<1>6. NoneWaits(c) => NoneWaits(d)
    BY <1>4, <1>5 DEF NoneWaits
<1>7. Laid(c, w, strict) => Laid(d, w, strict)
    BY <1>3, AlikeLays
<1> QED BY <1>1, <1>2, <1>3, <1>4, <1>5, <1>6, <1>7 DEF Holds, Waits, Held, Expecting

(* A local is added, without a value yet.                                  *)
LEMMA AddsInside ==
    ASSUME NEW strict \in BOOLEAN, NEW w \in Seq(Tasks), NEW s, Good(s), Holds(s, w, strict),
           Current(s).scopeDepth > 0, NEW name \in VariableNames, NEW t, t = AddLocal(s, name)
    PROVE  Waits(t, w, strict) /\ (t.error = NoError => Current(t).scopeDepth > 0)
<1>1. PICK c : c = Current(s)
    OBVIOUS
<1>2. c \in Contexts /\ Fine(c) /\ c.scopeDepth \in Nat
    BY <1>1, CurrentIsFine, ScopeTypes
<1>3. PICK l : l = [name |-> name, depth |-> -1, captured |-> FALSE]
    OBVIOUS
<1>4. PICK d : d = [c EXCEPT !.locals = Append(c.locals, l), !.visible = Append(c.visible, name)]
    OBVIOUS
<1>5. CASE Len(c.locals) = UINT8_COUNT
    <2>1. PICK what \in Errors : what = "Too many local variables"
        BY DEF Errors
    <2>2. PICK condition : condition = TRUE
        OBVIOUS
    <2>3. t = FailIf(s, condition, what)
        BY <1>1, <1>5, <2>1, <2>2 DEF AddLocal
    <2>4. t.error = IF s.error = NoError THEN what ELSE s.error
        BY <2>2, <2>3 DEF FailIf, Good, States
    <2>5. t.error # NoError
        BY <2>1, <2>4 DEF NoError
    <2> QED BY <2>5 DEF Waits
<1>6. CASE Len(c.locals) # UINT8_COUNT
    <2>1. t = Update(s, d)
        BY <1>1, <1>3, <1>4, <1>6 DEF AddLocal
    <2>2. PICK old \in Seq(LocalRecords) : old = c.locals
        BY <1>2, ContextTypes
    <2>3. PICK n \in Nat : n = Len(old) /\ n >= 1 /\ n < UINT8_COUNT
        <3>1. Len(old) \in 1..UINT8_COUNT /\ UINT8_COUNT \in Nat
            BY <1>2, <2>2, Limits DEF Fine
        <3> QED BY <1>6, <2>2, <3>1
    <2>4. l \in LocalRecords /\ l.depth = -1
        BY <1>3 DEF LocalRecords, VariableNames
    <2>5. PICK locals : locals = Append(old, l)
        OBVIOUS
    <2>6. /\ locals \in Seq(LocalRecords) /\ Len(locals) = n + 1 /\ locals[n + 1] = l
          /\ locals[1] = old[1]
        <3>1. /\ locals \in Seq(LocalRecords) /\ Len(locals) = n + 1 /\ locals[n + 1] = l
              /\ \A i \in 1..n : locals[i] = old[i]
            BY <2>3, <2>4, <2>5, AppendProperties
        <3>2. 1 \in 1..n
            BY <2>3
        <3> QED BY <3>1, <3>2
    <2>7. PICK visible \in Seq(VariableNames) : visible = Append(c.visible, name)
        <3>1. c.visible \in Seq(VariableNames)
            BY <1>2, ScopeTypes
        <3>2. Append(c.visible, name) \in Seq(VariableNames)
            BY <3>1, AppendProperties
        <3> QED BY <3>2
    <2>8. /\ d \in Contexts /\ d.locals = locals /\ d.visible = visible
          /\ d.scopeDepth = c.scopeDepth /\ d.code = c.code /\ d.upvalues = c.upvalues
          /\ d.type = c.type /\ d.last_break = c.last_break /\ d.last_continue = c.last_continue
        BY <1>2, <1>4, <2>2, <2>5, <2>6, <2>7 DEF Contexts
    <2>9. Fine(d)
        <3>1. Len(d.locals) \in 1..UINT8_COUNT
            <4>1. Len(d.locals) = n + 1 /\ UINT8_COUNT \in Nat
                BY <2>6, <2>8, Limits
            <4> QED BY <2>3, <4>1
        <3> QED BY <1>2, <2>2, <2>6, <2>8, <3>1 DEF Fine
    <2>10. Current(t) = d /\ t.error = s.error
        BY <2>1, <2>9, Updated
    <2>11. ASSUME t.error = NoError
           PROVE  Expecting(d, w, strict)
        <3>1. Laid(c, w, strict) /\ NoneWaits(c)
            BY <1>1, <2>10, <2>11 DEF Holds, Held
        <3>2. /\ d.locals = Append(c.locals, [name |-> name, depth |-> -1, captured |-> FALSE])
              /\ d.visible = Append(c.visible, name)
            BY <1>3, <2>2, <2>5, <2>7, <2>8
        <3>3. Laid(d, w, strict)
            BY <1>2, <2>8, <3>1, <3>2, LaidAdds
        <3>4. d.locals[Len(d.locals)].depth = -1
            BY <2>4, <2>6, <2>8
        <3> QED BY <1>1, <1>2, <2>8, <3>3, <3>4 DEF Expecting
    <2> QED BY <1>1, <2>8, <2>10, <2>11 DEF Waits
<1> QED BY <1>5, <1>6

LEMMA DeclaresInside ==
    ASSUME NEW strict \in BOOLEAN, NEW w \in Seq(Tasks), NEW s, Good(s), Holds(s, w, strict),
           NEW name \in VariableNames, NEW t, t = DeclareVariable(s, name)
    PROVE  Waits(t, w, strict)
<1>1. PICK c : c = Current(s)
    OBVIOUS
<1>2. c.scopeDepth \in Nat
    BY <1>1, CurrentIsFine, ScopeTypes
<1>3. CASE c.scopeDepth = 0
    <2>1. t = s
        BY <1>1, <1>3 DEF DeclareVariable
    <2> QED BY <1>1, <1>3, <2>1 DEF Holds, Held, Waits, Expecting
<1>4. CASE c.scopeDepth # 0
    <2>1. PICK redeclared : redeclared =
            \E i \in 1..Len(c.locals) : InThisScope(c, i) /\ c.locals[i].name = name
        OBVIOUS
    <2>2. PICK what \in Errors : what = "Already a variable with this name"
        BY DEF Errors
    <2>3. PICK u : u = FailIf(s, redeclared, what)
        OBVIOUS
    <2>4. Calm(s, u) /\ Good(u) /\ Current(u) = c
        BY <1>1, <2>3, FailCalm
    <2>5. Holds(u, w, strict)
        BY <2>4, CalmHolds
    <2>6. t = AddLocal(u, name)
        BY <1>1, <1>4, <2>1, <2>2, <2>3 DEF DeclareVariable
    <2>7. c.scopeDepth > 0
        BY <1>2, <1>4
    <2> QED BY <2>4, <2>5, <2>6, <2>7, AddsInside
<1> QED BY <1>3, <1>4

(* The last local gets its value.                                          *)
LEMMA MarksInside ==
    ASSUME NEW s, Good(s), CanDefine(Current(s)), NEW t, t = MarkInitialized(s),
           NEW c, c = Current(s), NEW d, d = Current(t)
    PROVE  /\ t.error = s.error
           /\ c.scopeDepth = 0 => d = c
           /\ c.scopeDepth > 0 =>
                /\ Len(d.locals) = Len(c.locals) /\ d.scopeDepth = c.scopeDepth
                /\ d.visible = c.visible
                /\ \A i \in 1..Len(c.locals) :
                    /\ d.locals[i].name = c.locals[i].name
                    /\ d.locals[i].depth = IF i = Len(c.locals) THEN c.scopeDepth
                                                               ELSE c.locals[i].depth
<1>1. c \in Contexts /\ Fine(c) /\ c.scopeDepth \in Nat
    BY CurrentIsFine, ScopeTypes
<1>2. CASE c.scopeDepth = 0
    <2>1. t = s
        BY <1>2 DEF MarkInitialized
    <2> QED BY <1>2, <2>1
<1>3. CASE c.scopeDepth # 0
    <2>1. PICK old \in Seq(LocalRecords) : old = c.locals
        BY <1>1, ContextTypes
    <2>2. PICK n \in Nat : n = Len(old) /\ n \in 1..n /\ n > 1
        <3>1. Len(old) \in Nat /\ Len(old) > 1
            BY <1>1, <1>3, <2>1, LenProperties DEF CanDefine
        <3> QED BY <3>1
    <2>3. PICK depth \in Nat : depth = c.scopeDepth
        BY <1>1
    <2>4. PICK new : new = [old[n] EXCEPT !.depth = depth]
        OBVIOUS
    <2>5. new \in LocalRecords /\ new.name = old[n].name /\ new.depth = depth
        <3>1. old[n] \in LocalRecords
            BY <2>2, ElementOfSeq
        <3> QED BY <2>4, <3>1 DEF LocalRecords
    <2>6. PICK locals : locals = [old EXCEPT ![n] = new]
        OBVIOUS
    <2>7. /\ locals \in Seq(LocalRecords) /\ Len(locals) = n
          /\ \A i \in 1..n : locals[i] = IF i = n THEN new ELSE old[i]
        BY <2>2, <2>5, <2>6, ExceptSeq
    <2>8. PICK e : e = [c EXCEPT !.locals = locals]
        OBVIOUS
    <2>9. /\ e \in Contexts /\ e.locals = locals /\ e.visible = c.visible
          /\ e.scopeDepth = c.scopeDepth /\ e.code = c.code /\ e.upvalues = c.upvalues
          /\ e.type = c.type /\ e.last_break = c.last_break /\ e.last_continue = c.last_continue
        BY <1>1, <2>7, <2>8 DEF Contexts
    <2>10. Fine(e)
        <3>1. locals[1] = old[1]
            BY <2>2, <2>7
        <3> QED BY <1>1, <2>1, <2>2, <2>7, <2>9, <3>1 DEF Fine
    <2>11. t = Update(s, e)
        <3>1. [c EXCEPT !.locals[Len(c.locals)].depth = c.scopeDepth] = e
            BY <1>1, <2>1, <2>2, <2>3, <2>4, <2>6, <2>8 DEF Contexts
        <3> QED BY <1>3, <3>1 DEF MarkInitialized
    <2>12. d = e /\ t.error = s.error
        BY <2>10, <2>11, Updated
    <2>13. \A i \in 1..n : /\ locals[i].name = old[i].name
                           /\ locals[i].depth = IF i = n THEN depth ELSE old[i].depth
        BY <2>5, <2>7
    <2> QED BY <1>3, <2>1, <2>2, <2>3, <2>7, <2>9, <2>12, <2>13
<1> QED BY <1>2, <1>3

LEMMA MarkHolds ==
    ASSUME NEW strict \in BOOLEAN, NEW w \in Seq(Tasks), NEW s, Good(s), CanDefine(Current(s)),
           Waits(s, w, strict), NEW t, t = MarkInitialized(s)
    PROVE  /\ Holds(t, w, strict)
           /\ t.error = NoError /\ Current(t).scopeDepth > 0 =>
                Current(t).locals[Len(Current(t).locals)].depth = Current(t).scopeDepth
<1>1. PICK c : c = Current(s)
    OBVIOUS
<1>2. PICK d : d = Current(t)
    OBVIOUS
<1>3. c \in Contexts /\ Fine(c) /\ c.scopeDepth \in Nat
    BY <1>1, CurrentIsFine, ScopeTypes
<1>4. /\ t.error = s.error
      /\ c.scopeDepth = 0 => d = c
      /\ c.scopeDepth > 0 =>
            /\ Len(d.locals) = Len(c.locals) /\ d.scopeDepth = c.scopeDepth
            /\ d.visible = c.visible
            /\ \A i \in 1..Len(c.locals) :
                /\ d.locals[i].name = c.locals[i].name
                /\ d.locals[i].depth = IF i = Len(c.locals) THEN c.scopeDepth
                                                           ELSE c.locals[i].depth
    BY <1>1, <1>2, <1>3, MarksInside
<1> SUFFICES ASSUME t.error = NoError
             PROVE  /\ Held(d, w, strict)
                    /\ d.scopeDepth > 0 => d.locals[Len(d.locals)].depth = d.scopeDepth
    BY <1>2 DEF Holds
<1>5. Expecting(c, w, strict)
    BY <1>1, <1>4 DEF Waits
<1>6. CASE c.scopeDepth = 0
    BY <1>4, <1>5, <1>6 DEF Expecting, Held
<1>7. CASE c.scopeDepth # 0
    <2>1. PICK n \in Nat : n = Len(c.locals) /\ n \in 1..n /\ n = Len(d.locals)
        BY <1>3, <1>4, <1>7, LastIsThere
    <2>2. c.scopeDepth > 0 /\ c.locals[n].depth = -1
        BY <1>3, <1>5, <1>7, <2>1 DEF Expecting
    <2>3. GetsValue(c, d)
        BY <1>4, <2>1, <2>2 DEF GetsValue
    <2>4. Laid(d, w, strict)
        BY <1>3, <1>5, <2>3, LaidOn DEF Expecting
    <2>5. \A i \in 1..n : c.locals[i].depth = -1 => i = n
        BY <1>5, <2>1 DEF Expecting, Laid, Shown
    <2>6. \A i \in 1..n : d.locals[i].depth # -1
        BY <1>3, <1>4, <2>1, <2>2, <2>5
    <2>7. NoneWaits(d)
        BY <2>1, <2>6 DEF NoneWaits
    <2>8. d.locals[n].depth = d.scopeDepth
        BY <1>4, <2>1, <2>2
    <2> QED BY <2>1, <2>4, <2>7, <2>8 DEF Held
<1> QED BY <1>6, <1>7

LEMMA DefinesInside ==
    ASSUME NEW strict \in BOOLEAN, NEW w \in Seq(Tasks), NEW s, Good(s), CanDefine(Current(s)),
           Waits(s, w, strict), NEW name \in VariableNames, NEW t, t = DefineVariable(s, name)
    PROVE  Holds(t, w, strict)
<1>1. PICK c : c = Current(s)
    OBVIOUS
<1>2. c \in Contexts /\ Fine(c) /\ c.scopeDepth \in Nat
    BY <1>1, CurrentIsFine, ScopeTypes
<1>3. CASE c.scopeDepth > 0
    <2>1. t = MarkInitialized(s)
        BY <1>1, <1>3 DEF DefineVariable
    <2> QED BY <2>1, MarkHolds
<1>4. CASE ~(c.scopeDepth > 0)
    <2>1. Holds(s, w, strict)
        BY <1>1, <1>2, <1>4 DEF Waits, Expecting, Holds, Held
    <2>2. Calm(s, t)
        BY <1>1, <1>4, DefinesCalmly
    <2> QED BY <2>1, <2>2, CalmHolds
<1> QED BY <1>3, <1>4

(* A scope begins.                                                         *)
LEMMA OpensInside ==
    ASSUME NEW strict \in BOOLEAN, NEW w \in Seq(Tasks), NEW s, Good(s), Holds(s, w, strict),
           NEW t, t = BeginScope(s), NEW x \in ScopeTasks, Base(x) = Visible(s),
           NEW u, u = <<x>> \o w
    PROVE  Holds(t, u, strict)
<1>1. PICK c : c = Current(s)
    OBVIOUS
<1>2. PICK d : d = Current(t)
    OBVIOUS
<1>3. c \in Contexts /\ Fine(c)
    BY <1>1, CurrentIsFine
<1>4. /\ d.locals = c.locals /\ d.visible = c.visible /\ d.scopeDepth = c.scopeDepth + 1
      /\ t.error = s.error
    BY <1>1, <1>2, ScopeBegins
<1>5. Base(x) = Len(c.visible)
    BY <1>1 DEF Visible
<1>6. ASSUME Held(c, w, strict)
      PROVE  Held(d, u, strict)
    <2>1. Laid(d, u, strict)
        BY <1>3, <1>4, <1>5, <1>6, LaidOpens DEF Held
    <2> QED BY <1>4, <1>6, <2>1 DEF Held, NoneWaits
<1> QED BY <1>1, <1>2, <1>4, <1>6 DEF Holds

(* A scope ends.                                                           *)
LEMMA EndScopeIs ==
    ASSUME NEW s, Good(s), NEW outer \in Nat, Current(s).scopeDepth = outer + 1,
           NEW base \in Nat, base <= Len(Current(s).visible)
    PROVE  /\ EndScope(s, base).error = s.error /\ Current(EndScope(s, base)).scopeDepth = outer
           /\ Current(EndScope(s, base)).visible = SubSeq(Current(s).visible, 1, base)
           /\ Current(EndScope(s, base)).locals = SubSeq(Current(s).locals, 1, Kept(Current(s), outer))
<1> SUFFICES ASSUME NEW t, t = EndScope(s, base), NEW c, c = Current(s), NEW d, d = Current(t)
             PROVE  /\ t.error = s.error /\ d.scopeDepth = outer
                    /\ d.visible = SubSeq(c.visible, 1, base)
                    /\ d.locals = SubSeq(c.locals, 1, Kept(c, outer))
    OBVIOUS
<1>1. c \in Contexts /\ Fine(c) /\ c.scopeDepth = outer + 1 /\ base <= Len(c.visible)
    BY CurrentIsFine
<1>2. outer = c.scopeDepth - 1
    BY <1>1
<1>3. PICK visible \in Seq(VariableNames) : visible = SubSeq(c.visible, 1, base)
    BY <1>1, ScopeTypes, InitialOf
<1>4. PICK e : e = [c EXCEPT !.scopeDepth = outer, !.visible = visible]
    OBVIOUS
<1>5. /\ e \in Contexts /\ e.scopeDepth = outer /\ e.visible = visible /\ e.code = c.code
      /\ e.locals = c.locals /\ e.upvalues = c.upvalues
      /\ e.type = c.type /\ e.last_break = c.last_break /\ e.last_continue = c.last_continue
    BY <1>1, <1>4 DEF Contexts
<1>6. Fine(e)
    BY <1>1, <1>5 DEF Fine
<1>7. PICK u : u = Update(s, e)
    OBVIOUS
<1>8. Good(u) /\ Current(u) = e /\ u.error = s.error
    BY <1>6, <1>7, Updated DEF Follows
<1>9. t = AdjustLocals(u, outer)
    BY <1>1, <1>2, <1>3, <1>4, <1>7 DEF EndScope
<1>10. /\ t.error = u.error /\ Narrows(e, d) /\ d.locals = SubSeq(e.locals, 1, Kept(e, outer))
    BY <1>8, <1>9, Adjusts
<1>11. Kept(e, outer) = Kept(c, outer)
    BY <1>5 DEF Kept
<1>12. d.scopeDepth = e.scopeDepth /\ d.visible = e.visible
    BY <1>10 DEF Narrows
<1>13. d.locals = SubSeq(c.locals, 1, Kept(c, outer))
    BY <1>5, <1>10, <1>11, Zenon
<1>14. d.visible = SubSeq(c.visible, 1, base)
    BY <1>3, <1>5, <1>12, Zenon
<1>15. t.error = s.error
    BY <1>8, <1>10
<1>16. d.scopeDepth = outer
    BY <1>5, <1>12
<1> QED BY <1>13, <1>14, <1>15, <1>16

(* The scope that ends first began last.                                   *)
LEMMA InnermostBase ==
    ASSUME NEW c, NEW w, Pending(c, w), w[1] \in ScopeTasks
    PROVE  /\ Base(w[1]) \in Nat /\ Base(w[1]) <= Len(c.visible)
           /\ \A k \in 1..Len(Tail(w)) :
                Tail(w)[k] \in ScopeTasks => Base(Tail(w)[k]) <= Base(w[1])
<1>1. w \in Seq(Tasks) /\ w # <<>>
    BY DEF Pending
<1>2. PICK m \in Nat : m = Len(w) /\ 1 \in 1..m
    BY <1>1, TailOf
<1>3. Base(w[1]) \in Nat /\ Base(w[1]) <= Len(c.visible) /\ w[1].k \in Based
    <2>1. Fits(c, w[1])
        BY <1>2 DEF Pending
    <2>2. w[1].k \in Based
        BY ScopeIsBased
    <2> QED BY <2>1, <2>2, BaseOfScope DEF Fits
<1>4. PICK r \in Seq(Tasks) : r = Tail(w)
    BY <1>1, TailOf
<1>5. \A k \in 1..Len(r) : r[k] \in ScopeTasks => Base(r[k]) <= Base(w[1])
    <2>1. TAKE k \in 1..Len(r)
    <2>2. HAVE r[k] \in ScopeTasks
    <2>3. k + 1 \in 1..m /\ r[k] = w[k + 1] /\ 1 \in 1..(k + 1) - 1
        BY <1>1, <1>2, <1>4, TailOf
    <2>4. Before(w[1], w[k + 1])
        BY <1>2, <2>3 DEF Pending
    <2>5. w[k + 1].k \in Based
        BY <2>2, <2>3, ScopeIsBased
    <2> QED BY <1>3, <2>3, <2>4, <2>5 DEF Before
<1> QED BY <1>3, <1>4, <1>5

LEMMA ClosesInside ==
    ASSUME NEW strict \in BOOLEAN, NEW w \in Seq(Tasks), w # <<>>, NEW s, Good(s),
           Holds(s, w, strict), Current(s).scopeDepth > 0, w[1] \in ScopeTasks,
           NEW base \in Nat, base = Base(w[1]), base <= Len(Current(s).visible),
           NEW r, r = Tail(w), \A k \in 1..Len(r) : r[k] \in ScopeTasks => Base(r[k]) <= base,
           NEW t, t = EndScope(s, base)
    PROVE  Holds(t, r, strict)
<1>1. PICK c : c = Current(s)
    OBVIOUS
<1>2. PICK d : d = Current(t)
    OBVIOUS
<1>3. c \in Contexts /\ Fine(c) /\ c.scopeDepth \in Nat
    BY <1>1, CurrentIsFine, ScopeTypes
<1>4. PICK outer \in Nat : c.scopeDepth = outer + 1
    <2>1. c.scopeDepth - 1 \in Nat /\ c.scopeDepth = (c.scopeDepth - 1) + 1
        BY <1>1, <1>3
    <2> QED BY <2>1
<1>5. /\ t.error = s.error /\ d.scopeDepth = outer
      /\ d.visible = SubSeq(c.visible, 1, base)
      /\ d.locals = SubSeq(c.locals, 1, Kept(c, outer))
    <2>1. Current(s).scopeDepth = outer + 1
        BY <1>1, <1>4
    <2>2. /\ EndScope(s, base).error = s.error /\ Current(EndScope(s, base)).scopeDepth = outer
          /\ Current(EndScope(s, base)).visible = SubSeq(Current(s).visible, 1, base)
          /\ Current(EndScope(s, base)).locals = SubSeq(Current(s).locals, 1, Kept(Current(s), outer))
        BY <2>1, EndScopeIs
    <2> QED BY <1>1, <1>2, <2>2
<1>6. r \in Seq(Tasks)
    BY TailOf
<1>7. ASSUME Held(c, w, strict)
      PROVE  Held(d, r, strict)
    <2>1. Laid(d, r, strict)
        BY <1>3, <1>4, <1>5, <1>6, <1>7, LaidCloses DEF Held
    <2>2. PICK old \in Seq(LocalRecords) : old = c.locals
        BY <1>3, ScopeTypes
    <2>3. PICK keep : keep = Kept(c, outer)
        OBVIOUS
    <2>4. keep \in 1..Len(old)
        BY <1>3, <2>2, <2>3, KeptLocals
    <2>5. Len(d.locals) = keep /\ \A i \in 1..keep : d.locals[i] = old[i] /\ i \in 1..Len(old)
        <3>1. d.locals = SubSeq(old, 1, keep)
            BY <1>5, <2>2, <2>3
        <3> QED BY <2>4, <3>1, InitialOf
    <2>6. NoneWaits(d)
        BY <1>7, <2>2, <2>5 DEF Held, NoneWaits
    <2> QED BY <2>1, <2>6 DEF Held
<1> QED BY <1>1, <1>2, <1>5, <1>7 DEF Holds

(* Work that ends no scope comes in front, or is done.                     *)
LEMMA FrontHolds ==
    ASSUME NEW strict \in BOOLEAN, NEW w \in Seq(Tasks), NEW s, Good(s),
           NEW tasks \in Seq(Tasks), \A k \in 1..Len(tasks) : tasks[k] \notin ScopeTasks,
           NEW u, u = tasks \o w
    PROVE  /\ Holds(s, w, strict) => Holds(s, u, strict)
           /\ Waits(s, w, strict) => Waits(s, u, strict)
<1>1. Current(s) \in Contexts
    BY CurrentIsFine
<1>2. Laid(Current(s), w, strict) => Laid(Current(s), u, strict)
    BY <1>1, LaysTasks
<1> QED BY <1>2 DEF Holds, Waits, Held, Expecting

LEMMA BehindHolds ==
    ASSUME NEW strict \in BOOLEAN, NEW w \in Seq(Tasks), w # <<>>, w[1] \notin ScopeTasks,
           NEW s, Good(s)
    PROVE  /\ Holds(s, w, strict) => Holds(s, Tail(w), strict)
           /\ Waits(s, w, strict) => Waits(s, Tail(w), strict)
<1>1. Current(s) \in Contexts
    BY CurrentIsFine
<1>2. Laid(Current(s), w, strict) => Laid(Current(s), Tail(w), strict)
    BY <1>1, LaidBehind
<1> QED BY <1>2 DEF Holds, Waits, Held, Expecting

(* A step after which no variable waits, and one after which one does.     *)
LEMMA StepHolds ==
    ASSUME Inv, Lexical, todo # <<>>, NEW s, Becomes(s), Tame(Now, s), Good(s),
           NEW u \in Seq(Tasks), todo' = Append(Front(todo), u),
           \/ Holds(s, u, Disciplined) /\ ~Has(u, "define")
           \/ Waits(s, u, Disciplined) /\ Has(u, "define")
    PROVE  Lexical'
<1>1. Follows(Now, s) /\ (s.error = NoError => error = NoError)
    BY DEF Tame, Now
<1>2. PICK d : d = Current(s)
    OBVIOUS
<1>3. Fine(d) /\ d.scopeDepth \in Nat
    BY <1>2, CurrentIsFine, ScopeTypes
<1>4. PICK n \in Nat : n = Len(d.locals) /\ n \in 1..n
    BY <1>3, LastIsThere
<1>5. ASSUME s.error = NoError
      PROVE  Laid(d, u, Disciplined) /\ Declaring(d, u)
    <2>1. CASE Holds(s, u, Disciplined) /\ ~Has(u, "define")
        BY <1>2, <1>4, <1>5, <2>1 DEF Holds, Held, NoneWaits, Declaring
    <2>2. CASE Waits(s, u, Disciplined) /\ Has(u, "define")
        <3>1. Expecting(d, u, Disciplined)
            BY <1>2, <1>5, <2>2 DEF Waits
        <3>2. d.locals[n].depth = -1 <=> d.scopeDepth > 0
            BY <1>3, <1>4, <3>1 DEF Expecting, NoneWaits
        <3> QED BY <1>4, <2>2, <3>1, <3>2 DEF Expecting, Declaring
    <2> QED BY <2>1, <2>2
<1> QED BY <1>1, <1>2, <1>5, StepLays

(* Behind a statement no variable waits.                                   *)
LEMMA NothingWaits ==
    ASSUME Inv, Lexical, todo # <<>>, Work[1].k \notin ExprTasks
    PROVE  /\ Disciplined \in BOOLEAN
           /\ Work[1].k # "define" => ~Has(Work, "define") /\ Holds(Now, Work, Disciplined)
           /\ Work[1].k = "define" =>
                Waits(Now, Work, Disciplined) /\ ~Has(Tail(Work), "define")
<1>1. PICK c : c = Current(Now)
    OBVIOUS
<1>2. /\ Good(Now) /\ Work \in Seq(Tasks) /\ Work # <<>> /\ Pending(c, Work)
    BY <1>1, AtWork DEF Compiling
<1>3. Fine(c) /\ c.scopeDepth \in Nat /\ Disciplined \in BOOLEAN
    BY <1>1, <1>2, CurrentIsFine, ScopeTypes DEF Disciplined, Without, Syntax
<1>4. PICK n \in Nat : n = Len(c.locals) /\ n \in 1..n
    BY <1>3, LastIsThere
<1>5. PICK r \in Seq(Tasks) : r = Tail(Work)
    BY <1>2, TailOf
<1>6. ~Has(r, "define")
    <2> SUFFICES ASSUME NEW k \in 1..Len(r), r[k].k = "define"
                 PROVE  FALSE
        BY DEF Has
    <2>1. k + 1 \in 1..Len(Work) /\ r[k] = Work[k + 1] /\ 1 \in 1..(k + 1) - 1
        BY <1>2, <1>5, TailOf
    <2>2. Before(Work[1], Work[k + 1])
        BY <1>2, <2>1 DEF Pending
    <2> QED BY <2>1, <2>2 DEF Before, AfterExprs
<1>7. Has(Work, "define") <=> Work[1].k = "define"
    BY <1>2, <1>5, <1>6, HasTail
<1>8. ASSUME error = NoError
      PROVE  /\ Laid(c, Work, Disciplined) /\ Declaring(c, Work)
             /\ \A i \in 1..n : c.locals[i].depth = -1 => i = n
    <2>1. Laid(c, Work, Disciplined) /\ Declaring(c, Work)
        BY <1>1, <1>8, WorkIsLaid
    <2>2. \A i \in 1..n : c.locals[i].depth = -1 => i = n
        BY <1>4, <2>1 DEF Laid, Shown
    <2> QED BY <2>1, <2>2
<1>9. ASSUME error = NoError, Work[1].k # "define"
      PROVE  Held(c, Work, Disciplined)
    <2>1. c.locals[n].depth # -1
        BY <1>4, <1>7, <1>8, <1>9 DEF Declaring
    <2> QED BY <1>4, <1>8, <1>9, <2>1 DEF Held, NoneWaits
<1>10. ASSUME error = NoError, Work[1].k = "define"
       PROVE  Expecting(c, Work, Disciplined)
    <2>1. c.locals[n].depth = -1 <=> c.scopeDepth > 0
        BY <1>4, <1>7, <1>8, <1>10 DEF Declaring
    <2>2. c.scopeDepth = 0 => NoneWaits(c)
        BY <1>4, <1>8, <1>10, <2>1 DEF NoneWaits
    <2> QED BY <1>4, <1>8, <1>10, <2>1, <2>2 DEF Expecting
<1> QED BY <1>1, <1>3, <1>5, <1>6, <1>7, <1>9, <1>10 DEF Holds, Waits, Now


-----------------------------------------------------------------------------
(* The statements that begin and end scopes, and declare names.            *)

(* A step that is known to hold, with the tasks it adds to the rest.       *)
LEMMA WalkHolds ==
    ASSUME Inv, Lexical, todo # <<>>, NEW s, Tame(Now, s),
           NEW tasks \in Seq(Tasks), NEW r \in Seq(Tasks), ~Has(r, "define"), Walk(s, tasks, r),
           NEW u, u = tasks \o r,
           \/ Holds(s, u, Disciplined) /\ ~Has(tasks, "define")
           \/ Waits(s, u, Disciplined) /\ Has(tasks, "define")
    PROVE  Lexical'
<1>1. Good(s)
    BY DEF Tame, Follows
<1>2. u \in Seq(Tasks)
    BY ConcatProperties
<1>3. Has(u, "define") <=> Has(tasks, "define")
    BY HasJoined
<1>4. Becomes(s) /\ todo' = Append(Front(todo), u)
    BY DEF Walk
<1> QED BY <1>1, <1>2, <1>3, <1>4, StepHolds

LEMMA NoTasks ==
    ASSUME NEW empty, empty = <<>>
    PROVE  /\ empty \in Seq(Tasks) /\ ~Has(empty, "define")
           /\ \A r \in Seq(Tasks) : empty \o r = r
<1>1. empty \in Seq(Tasks) /\ Len(empty) = 0
    OBVIOUS
<1>2. \A r \in Seq(Tasks) : empty \o r = r
    BY ConcatEmptySeq
<1> QED BY <1>1, <1>2 DEF Has

LEMMA NextTasks ==
    ASSUME NEW a \in Tasks, NEW tasks, tasks = <<a>>
    PROVE  /\ tasks \in Seq(Tasks)
           /\ a.k # "define" => ~Has(tasks, "define")
           /\ a \notin ScopeTasks => \A k \in 1..Len(tasks) : tasks[k] \notin ScopeTasks
<1>1. tasks \in Seq(Tasks) /\ Len(tasks) = 1 /\ tasks[1] = a
    OBVIOUS
<1>2. \A k \in 1..1 : k = 1
    OBVIOUS
<1> QED BY <1>1, <1>2 DEF Has

LEMMA NextTwoTasks ==
    ASSUME NEW a \in Tasks, NEW b \in Tasks, NEW tasks, tasks = <<a, b>>
    PROVE  /\ tasks \in Seq(Tasks)
           /\ Has(tasks, "define") <=> a.k = "define" \/ b.k = "define"
           /\ a \notin ScopeTasks /\ b \notin ScopeTasks =>
                \A k \in 1..Len(tasks) : tasks[k] \notin ScopeTasks
<1>1. tasks \in Seq(Tasks) /\ Len(tasks) = 2 /\ tasks[1] = a /\ tasks[2] = b
    OBVIOUS
<1>2. \A k \in 1..2 : k = 1 \/ k = 2
    OBVIOUS
<1>3. 1 \in 1..2 /\ 2 \in 1..2
    OBVIOUS
<1> QED BY <1>1, <1>2, <1>3 DEF Has

LEMMA NextThreeTasks ==
    ASSUME NEW a \in Tasks, NEW b \in Tasks, NEW x \in Tasks, NEW tasks, tasks = <<a, b, x>>
    PROVE  /\ tasks \in Seq(Tasks)
           /\ Has(tasks, "define") <=> a.k = "define" \/ b.k = "define" \/ x.k = "define"
<1>1. tasks \in Seq(Tasks) /\ Len(tasks) = 3 /\ tasks[1] = a /\ tasks[2] = b /\ tasks[3] = x
    OBVIOUS
<1>2. \A k \in 1..3 : k = 1 \/ k = 2 \/ k = 3
    OBVIOUS
<1>3. 1 \in 1..3 /\ 2 \in 1..3 /\ 3 \in 1..3
    OBVIOUS
<1> QED BY <1>1, <1>2, <1>3 DEF Has

LEMMA TuplesJoin ==
    ASSUME NEW S, NEW a \in S, NEW b \in S, NEW x \in S
    PROVE  <<a, x>> = <<a>> \o <<x>> /\ <<a, b, x>> = <<a, b>> \o <<x>>
OBVIOUS

LEMMA FrontOfTwo ==
    ASSUME NEW a \in Tasks, NEW x \in Tasks, NEW r \in Seq(Tasks), NEW w, w = <<x>> \o r,
           NEW first, first = <<a>>, NEW tasks, tasks = <<a, x>>
    PROVE  w \in Seq(Tasks) /\ tasks \o r = first \o w
<1>1. PICK b \in Tasks : b = a
    OBVIOUS
<1>2. <<a, x>> = <<a>> \o <<x>>
    BY <1>1, TuplesJoin
<1>3. <<a>> \in Seq(Tasks) /\ <<x>> \in Seq(Tasks) /\ w \in Seq(Tasks)
    BY ShortSequences
<1>4. (<<a>> \o <<x>>) \o r = <<a>> \o (<<x>> \o r)
    BY <1>3, ConcatAssociative
<1> QED BY <1>2, <1>3, <1>4

LEMMA FrontOfThree ==
    ASSUME NEW a \in Tasks, NEW b \in Tasks, NEW x \in Tasks, NEW r \in Seq(Tasks),
           NEW w, w = <<x>> \o r,
           NEW first, first = <<a, b>>, NEW tasks, tasks = <<a, b, x>>
    PROVE  w \in Seq(Tasks) /\ tasks \o r = first \o w
BY FrontsJoin

(* Tasks that the declarations add.                                        *)
LEMMA DeclaringTasks ==
    /\ Expr \in Tasks /\ Expr \notin ScopeTasks /\ Expr.k # "define"
    /\ \A x \in Names : Define(x) \in Tasks /\ Define(x) \notin ScopeTasks /\ Define(x).k = "define"
    /\ \A k \in {"stats", "stat", "methods"} :
        Task(k) \in Tasks /\ Task(k) \notin ScopeTasks /\ Task(k).k # "define"
<1>1. Expr \in Tasks /\ Expr.k = "expr"
    BY EasyTasks DEF Easy, Expr
<1>2. \A x \in Names : Define(x) \in Tasks /\ Define(x).k = "define"
    BY EasyTasks DEF Easy, Define
<1>3. \A k \in {"stats", "stat", "methods"} : Task(k) \in Tasks /\ Task(k).k = k
    BY EasyTasks DEF Easy, Task
<1>4. \A t \in Tasks : t.k \in {"expr", "define", "stats", "stat", "methods"} => t \notin ScopeTasks
    BY DEF ScopeTasks, ForTasks
<1>5. Expr \notin ScopeTasks /\ Expr.k # "define"
    BY <1>1, <1>4
<1>6. \A x \in Names : Define(x) \notin ScopeTasks
    BY <1>2, <1>4
<1>7. \A k \in {"stats", "stat", "methods"} : Task(k) \notin ScopeTasks /\ Task(k).k # "define"
    <2>1. TAKE k \in {"stats", "stat", "methods"}
    <2>2. Task(k) \in Tasks /\ Task(k).k \in {"stats", "stat", "methods"}
        BY <1>3
    <2> QED BY <1>4, <2>2
<1> QED BY <1>1, <1>2, <1>3, <1>5, <1>6, <1>7

(* Where a statement begins, no variable waits.                            *)
LEMMA StatementHeld ==
    ASSUME Inv, Lexical, AtStatement, NEW r, r = IF Doing("stats") THEN Work ELSE Tail(Work)
    PROVE  /\ todo # <<>> /\ Good(Now) /\ r \in Seq(Tasks) /\ Disciplined \in BOOLEAN
           /\ ~Has(r, "define") /\ Holds(Now, r, Disciplined)
<1>1. PICK kind \in {"stats", "stat"} : Doing(kind)
    BY DEF AtStatement
<1>2. todo # <<>> /\ Good(Now) /\ Work[1] \in Tasks /\ Work[1].k = kind
    BY <1>1, NowIsGood
<1>3. Work \in Seq(Tasks) /\ Work # <<>>
    BY <1>2, AtWork
<1>4. Tail(Work) \in Seq(Tasks)
    BY <1>3, TailOf
<1>5. Work[1].k \notin ExprTasks /\ Work[1].k # "define" /\ Work[1] \notin ScopeTasks
    BY <1>2 DEF ExprTasks, ScopeTasks, ForTasks
<1>6. Disciplined \in BOOLEAN /\ ~Has(Work, "define") /\ Holds(Now, Work, Disciplined)
    BY <1>2, <1>5, NothingWaits
<1>7. Holds(Now, Tail(Work), Disciplined)
    BY <1>2, <1>3, <1>5, <1>6, BehindHolds
<1>8. ~Has(Tail(Work), "define")
    BY <1>3, <1>6, HasTail
<1> QED BY <1>2, <1>3, <1>4, <1>6, <1>7, <1>8

(* Where another task begins.                                              *)
LEMMA TaskHeld ==
    ASSUME Inv, Lexical, NEW kind, Doing(kind), kind \notin ExprTasks, kind # "define",
           NEW r, r = Tail(Work)
    PROVE  /\ todo # <<>> /\ Good(Now) /\ r \in Seq(Tasks) /\ Disciplined \in BOOLEAN
           /\ Work \in Seq(Tasks) /\ Work # <<>> /\ Work[1].k = kind /\ Head(Work) = Work[1]
           /\ Pending(Current(Now), Work)
           /\ ~Has(Work, "define") /\ ~Has(r, "define") /\ Holds(Now, Work, Disciplined)
<1>1. todo # <<>> /\ Good(Now) /\ Work[1] \in Tasks /\ Work[1].k = kind /\ Head(Work) = Work[1]
    BY NowIsGood
<1>2. Work \in Seq(Tasks) /\ Work # <<>> /\ Pending(Current(Now), Work)
    BY <1>1, AtWork DEF Compiling
<1>3. r \in Seq(Tasks)
    BY <1>2, TailOf
<1>4. Disciplined \in BOOLEAN /\ ~Has(Work, "define") /\ Holds(Now, Work, Disciplined)
    BY <1>1, NothingWaits
<1>5. ~Has(r, "define")
    BY <1>2, <1>4, HasTail
<1> QED BY <1>1, <1>2, <1>3, <1>4, <1>5

(* The end of a scope is left to another task.                             *)
LEMMA HeadHolds ==
    ASSUME NEW strict \in BOOLEAN, NEW w \in Seq(Tasks), w # <<>>, w[1] \in ScopeTasks,
           NEW s, Good(s), Holds(s, w, strict), NEW t \in ScopeTasks, Base(t) = Base(w[1]),
           NEW u, u = <<t>> \o Tail(w)
    PROVE  u \in Seq(Tasks) /\ Holds(s, u, strict)
<1>1. Current(s) \in Contexts
    BY CurrentIsFine
<1>2. Laid(Current(s), w, strict) => Laid(Current(s), u, strict)
    BY <1>1, LaidHead
<1>3. u \in Seq(Tasks)
    <2>1. Tail(w) \in Seq(Tasks)
        BY TailOf
    <2>2. <<t>> \in Seq(Tasks)
        BY ShortSequences DEF ScopeTasks
    <2> QED BY <2>1, <2>2, ConcatProperties
<1> QED BY <1>2, <1>3 DEF Holds, Held

(* A declaration without a value, which is nil.                            *)
LEMMA NilInside ==
    ASSUME NEW strict \in BOOLEAN, NEW w \in Seq(Tasks), NEW s, Good(s), CanDefine(Current(s)),
           Waits(s, w, strict), NEW x \in VariableNames,
           NEW t, t = DefineVariable(Emit(s, "NIL", 0), x)
    PROVE  Holds(t, w, strict)
<1>1. PICK op \in PlainOperations : op = "NIL" /\ op \in Operations /\ op \notin LookUps
    BY NilOps
<1>3. PICK none \in Int : none = 0
    OBVIOUS
<1>4. PICK u : u = Emit(s, op, none)
    OBVIOUS
<1>5. Calm(s, u) /\ Good(u)
    BY <1>1, <1>3, <1>4, EmitsCalm
<1>6. Waits(u, w, strict)
    BY <1>5, CalmHolds
<1>7. CanDefine(Current(u))
    BY <1>5 DEF Calm, SameScope, SameLocals, CanDefine
<1>8. t = DefineVariable(u, x)
    BY <1>1, <1>3, <1>4
<1> QED BY <1>5, <1>6, <1>7, <1>8, DefinesInside

LEMMA VarDeclarationOrders ==
    ASSUME Inv, Ordered, VarDeclaration
    PROVE  Ordered'
<1>1. AtStatement
    BY BlockIsStatement DEF VarDeclaration
<1>2. Good(Now)
    BY <1>1, AtStatementIsGood
<1>3. PICK x \in Identifiers :
        \/ Statement(DeclareVariable(Now, x), <<Expr, Define(x)>>)
        \/ Statement(DefineVariable(Emit(DeclareVariable(Now, x), "NIL", 0), x), <<>>)
    BY DEF VarDeclaration
<1>4. x \in Names /\ x \in VariableNames
    BY FamilyBounds
<1>5. PICK s : s = DeclareVariable(Now, x)
    OBVIOUS
<1>6. Tame(Now, s) /\ Good(s) /\ CanDefine(Current(s))
    BY <1>2, <1>4, <1>5, DeclaresTame
<1>7. CASE Statement(s, <<Expr, Define(x)>>)
    <2>1. Expr \in Easy /\ Define(x) \in Easy
        BY <1>4, EasyTasks
    <2>2. <<Expr, Define(x)>> \in Seq(Ready(s))
        BY <2>1, EasySequences
    <2> QED BY <1>1, <1>6, <1>7, <2>2, StatementOrders
<1>8. CASE Statement(DefineVariable(Emit(s, "NIL", 0), x), <<>>)
    <2>1. PICK t : t = DefineVariable(Emit(s, "NIL", 0), x)
        OBVIOUS
    <2>2. Tame(s, t)
        BY <1>4, <1>6, <2>1, NilTame
    <2>3. Tame(Now, t)
        BY <1>2, <1>6, <2>2, TameOn
    <2>4. PICK empty : empty = <<>>
        OBVIOUS
    <2>5. empty \in Seq(Ready(t))
        BY <2>4, EasySequences
    <2>6. Statement(t, empty)
        BY <1>8, <2>1, <2>4
    <2> QED BY <1>1, <2>3, <2>5, <2>6, StatementOrders
<1> QED BY <1>3, <1>5, <1>7, <1>8

(* A step that is done with its task, and adds none.                       *)
LEMMA DoneOrders ==
    ASSUME Inv, Ordered, NEW kind, Doing(kind), kind \notin {"methods", "endClass"},
           NEW s, Tame(Now, s), Continue(s, <<>>)
    PROVE  Ordered'
<1>1. PICK empty : empty = <<>>
    OBVIOUS
<1>2. empty \in Seq(Ready(s))
    BY <1>1, EasySequences
<1> QED BY <1>1, <1>2, ContinueOrders

LEMMA DoneCalmly ==
    ASSUME Inv, Ordered, Lexical, NEW kind, Doing(kind), kind \notin Scoping,
           NEW s, Calm(Now, s), Continue(s, <<>>)
    PROVE  Ordered' /\ Lexical'
<1>1. PICK empty : empty = <<>>
    OBVIOUS
<1>2. empty \in Seq(Quiet(s))
    BY <1>1, MildSequences
<1> QED BY <1>1, <1>2, ContinueCalmly

LEMMA EndDeclarationOrders ==
    ASSUME Inv, Ordered, EndDeclaration
    PROVE  Ordered'
<1>1. PICK kind : kind = "define"
    OBVIOUS
<1>2. Doing(kind) /\ kind \notin {"methods", "endClass"} /\ kind # "endFunction"
    BY <1>1 DEF EndDeclaration
<1>3. PICK r : r = Tail(Work)
    OBVIOUS
<1>4. PICK h : h = Work[1]
    OBVIOUS
<1>5. Good(Now) /\ Head(Work) = h /\ h.k = kind /\ h \in Tasks /\ Fits(Current(Now), h)
    BY <1>2, <1>3, <1>4, TaskBegins
<1>6. h.name \in Names /\ h.name \in VariableNames
    BY <1>1, <1>5, TaskTypes DEF VariableNames
<1>7. CanDefine(Current(Now))
    BY <1>1, <1>5 DEF Fits
<1>8. PICK s : s = DefineVariable(Now, h.name)
    OBVIOUS
<1>9. Tame(Now, s)
    BY <1>5, <1>6, <1>7, <1>8, DefinesTame
<1>10. Continue(s, <<>>)
    BY <1>5, <1>8 DEF EndDeclaration
<1> QED BY <1>2, <1>9, <1>10, DoneOrders

LEMMA EndOfBlockOrders ==
    ASSUME Inv, Ordered, Lexical, EndOfBlock
    PROVE  Ordered' /\ Lexical'
<1>1. PICK kind : kind = "stats"
    OBVIOUS
<1>2. Doing(kind) /\ kind \notin Scoping /\ Continue(Now, <<>>)
    BY <1>1 DEF EndOfBlock, Scoping, ForTasks
<1>3. Calm(Now, Now)
    BY <1>2, NowIsGood
<1> QED BY <1>2, <1>3, DoneCalmly

LEMMA BlockOrders ==
    ASSUME Inv, Ordered, Block
    PROVE  Ordered'
<1>1. AtStatement /\ Statement(BeginScope(Now), <<Task("stats"), Scope(Visible(Now))>>)
    BY DEF Block
<1>2. Good(Now)
    BY <1>1, AtStatementIsGood
<1>3. PICK s : s = BeginScope(Now)
    OBVIOUS
<1>4. Tame(Now, s)
    <2>1. Follows(Now, s) /\ Plainly(Now, s)
        BY <1>2, <1>3, ScopeBegins
    <2> QED BY <1>2, <2>1, FollowsTame
<1>5. Visible(Now) \in Nat
    BY <1>2, LoopFields DEF Visible
<1>6. Task("stats") \in Easy /\ Scope(Visible(Now)) \in Easy
    BY <1>5, EasyTasks
<1>7. PICK tasks : tasks = <<Task("stats"), Scope(Visible(Now))>>
    OBVIOUS
<1>8. tasks \in Seq(Ready(s))
    BY <1>6, <1>7, EasySequences
<1> QED BY <1>1, <1>3, <1>4, <1>7, <1>8, StatementOrders

LEMMA ScopeEndsTamely ==
    ASSUME NEW s, Good(s), Current(s).scopeDepth > 0,
           NEW base \in Nat, base <= Len(Current(s).visible), NEW t, t = EndScope(s, base)
    PROVE  Tame(s, t) /\ Good(t)
<1>1. EndsScope(s, t, base)
    BY ScopeEnds
<1> QED BY <1>1, FollowsTame DEF EndsScope
(* The end of a scope is compiled inside of it, that of a loop too.        *)
LEMMA ScopeIsOpen ==
    ASSUME Inv, NEW kind, Doing(kind), kind # "endFunction"
    PROVE  /\ Work[1] \in ScopeTasks => Current(Now).scopeDepth > 0
           /\ Work[1] \in LoopEndTasks => Current(Now).enclosing_loop > 0
<1>1. PICK h : h = Work[1]
    OBVIOUS
<1>2. PICK r : r = Tail(Work)
    OBVIOUS
<1>3. PICK c : c = Current(Now)
    OBVIOUS
<1>4. Midway(c, r, Last(Work), One(h, ScopeTasks), One(h, LoopEndTasks), JumpsOf(h)) /\ Good(Now)
    BY <1>1, <1>2, <1>3, TaskBegins
<1>5. /\ Pending(c, r)
      /\ c.scopeDepth = Outermost(c) + Cardinality(Marked(r, ScopeTasks)) + One(h, ScopeTasks)
      /\ c.enclosing_loop = Cardinality(Marked(r, LoopEndTasks)) + One(h, LoopEndTasks)
    BY <1>4 DEF Midway
<1>6. /\ Cardinality(Marked(r, ScopeTasks)) \in Nat /\ Cardinality(Marked(r, LoopEndTasks)) \in Nat
      /\ Outermost(c) \in Nat
    BY <1>5, MarksAreNat DEF Outermost
<1>7. ASSUME h \in ScopeTasks
      PROVE  c.scopeDepth > 0
    <2>1. One(h, ScopeTasks) = 1
        BY <1>7 DEF One
    <2> QED BY <1>5, <1>6, <2>1
<1>8. ASSUME h \in LoopEndTasks
      PROVE  c.enclosing_loop > 0
    <2>1. One(h, LoopEndTasks) = 1
        BY <1>8 DEF One
    <2> QED BY <1>5, <1>6, <2>1
<1> QED BY <1>1, <1>3, <1>7, <1>8

LEMMA EndBlockOrders ==
    ASSUME Inv, Ordered, EndBlock
    PROVE  Ordered'
<1>1. PICK kind : kind = "endScope"
    OBVIOUS
<1>2. Doing(kind) /\ kind \notin {"methods", "endClass"} /\ kind # "endFunction"
    BY <1>1 DEF EndBlock
<1>3. PICK r : r = Tail(Work)
    OBVIOUS
<1>4. PICK h : h = Work[1]
    OBVIOUS
<1>5. Good(Now) /\ Head(Work) = h /\ h.k = kind /\ h \in Tasks /\ Fits(Current(Now), h)
    BY <1>2, <1>3, <1>4, TaskBegins
<1>6. h.base \in Nat /\ h.base <= Len(Current(Now).visible)
    <2>1. h.base \in Nat
        BY <1>1, <1>5, TaskTypes
    <2>2. h.k \in Based /\ Base(h) = h.base
        BY <1>1, <1>5 DEF Based, Base, LoopTasks
    <2> QED BY <1>5, <2>1, <2>2 DEF Fits
<1>7. Current(Now).scopeDepth > 0
    <2>1. h \in ScopeTasks
        BY <1>1, <1>5 DEF ScopeTasks
    <2> QED BY <1>2, <1>4, <2>1, ScopeIsOpen
<1>8. PICK s : s = EndScope(Now, h.base)
    OBVIOUS
<1>9. Tame(Now, s)
    BY <1>5, <1>6, <1>7, <1>8, ScopeEndsTamely
<1>10. Continue(s, <<>>)
    BY <1>5, <1>8 DEF EndBlock
<1> QED BY <1>2, <1>9, <1>10, DoneOrders

-----------------------------------------------------------------------------
(* Loops.                                                                  *)

(* The jumps that a loop remembers are where it says.                      *)
LoopLands(c, loop) ==
    AtJump(c, loop.exit) /\ AtJump(c, loop.body) /\ AtJump(c, loop.saved.break)

LEMMA LoopIsReady ==
    ASSUME NEW s, NEW kind \in LoopTasks, NEW loop \in Loops, LoopLands(Current(s), loop),
           NEW t, t = Loop(kind, loop)
    PROVE  t \in Ready(s)
<1>1. t \in Tasks /\ t.k = kind /\ t.loop = loop /\ t.k \in LoopTasks
    BY LoopTask
<1>2. Landings(t) = {loop.exit, loop.body, loop.saved.break}
    BY <1>1 DEF Landings
<1>3. LandsAll(Current(s), t)
    BY <1>2 DEF LandsAll, LoopLands
<1>4. kind # "endClass" /\ kind # "superInvoke"
    BY DEF LoopTasks
<1> QED BY <1>1, <1>3, <1>4 DEF Ready

LEMMA LoopIsQuiet ==
    ASSUME NEW s, NEW kind \in LoopTasks \ ForTasks, NEW loop \in Loops,
           LoopLands(Current(s), loop), NEW t, t = Loop(kind, loop)
    PROVE  t \in Quiet(s)
<1>1. t \in Ready(s)
    BY LoopIsReady
<1>2. t.k = kind
    BY LoopTask
<1> QED BY <1>1, <1>2 DEF Quiet, ScopeTasks, LoopTasks

LEMMA LoopLandsOn ==
    ASSUME NEW s, Good(s), NEW t, Tame(s, t), NEW loop, LoopLands(Current(s), loop)
    PROVE  LoopLands(Current(t), loop)
BY JumpStays DEF LoopLands

(* What is known where the task of a loop begins.                          *)
LEMMA LoopGoesOn ==
    ASSUME Inv, Ordered, NEW kind \in LoopTasks, Doing(kind), NEW h, h = Work[1]
    PROVE  /\ Good(Now) /\ Head(Work) = h /\ h \in Tasks /\ h.k = kind /\ h.loop \in Loops
           /\ LoopFits(Current(Now), h.loop) /\ LoopLands(Current(Now), h.loop)
           /\ AtBreak(Current(Now)) /\ kind \notin {"methods", "endClass"} /\ kind # "endFunction"
           /\ h.loop.base \in Nat /\ h.loop.base <= Len(Current(Now).visible)
<1>1. PICK c : c = Current(Now)
    OBVIOUS
<1>2. PICK r : r = Tail(Work)
    OBVIOUS
<1>3. /\ Good(Now) /\ Head(Work) = h /\ h.k = kind /\ h \in Tasks
      /\ LoopFits(c, h.loop) /\ h.loop.base <= Len(c.visible) /\ h.loop.base \in Nat
    BY <1>1, <1>2, LoopBegins
<1>4. LandsAll(c, h) /\ AtBreak(c)
    BY <1>1, WorkLands
<1>5. Landings(h) = {h.loop.exit, h.loop.body, h.loop.saved.break}
    BY <1>3 DEF Landings
<1>6. LoopLands(c, h.loop)
    BY <1>4, <1>5 DEF LandsAll, LoopLands
<1>7. kind \notin {"methods", "endClass"} /\ kind # "endFunction"
    BY DEF LoopTasks
<1> QED BY <1>1, <1>3, <1>4, <1>6, <1>7 DEF LoopFits

(* Another task of a for statement takes over the end of its scope.        *)
LEMMA ForContinues ==
    ASSUME Inv, Ordered, Lexical, NEW kind \in ForTasks, Doing(kind), NEW h, h = Work[1],
           NEW s, Calm(Now, s), NEW x \in ForTasks, NEW loop \in Loops,
           LoopLands(Current(s), loop), loop.base = h.loop.base, NEW t, t = Loop(x, loop),
           NEW next \in Mild, NEW tasks, tasks = <<t>> \/ tasks = <<next, t>>, Continue(s, tasks)
    PROVE  Ordered' /\ Lexical'
<1>1. kind \in LoopTasks /\ x \in LoopTasks
    BY DEF ForTasks, LoopTasks
<1>2. t \in Ready(s) /\ t \in Tasks /\ t.k = x /\ t.k # "define" /\ Base(t) = loop.base
    BY <1>1, LoopIsReady, LoopTask DEF ForTasks
<1>3. next \in Ready(s) /\ next \in Tasks /\ next \notin ScopeTasks /\ next.k # "define"
    BY MildIsQuiet DEF Quiet, Ready
<1>4. tasks \in Seq(Ready(s))
    BY <1>2, <1>3, ShortSequences
<1>5. Ordered'
    <2>1. kind \notin {"methods", "endClass"}
        BY DEF ForTasks
    <2> QED BY <1>4, <2>1, ContinueOrders DEF Calm
<1>6. PICK r : r = Tail(Work)
    OBVIOUS
<1>7. kind \notin ExprTasks /\ kind # "define"
    BY DEF ForTasks, ExprTasks
<1>8. PICK strict \in BOOLEAN : strict = Disciplined
    BY <1>6, <1>7, TaskHeld
<1>9. /\ todo # <<>> /\ Good(Now) /\ Work \in Seq(Tasks) /\ Work # <<>> /\ r \in Seq(Tasks)
      /\ ~Has(r, "define") /\ Holds(Now, Work, strict)
    BY <1>6, <1>7, <1>8, TaskHeld
<1>10. h \in ScopeTasks /\ t \in ScopeTasks /\ Base(t) = Base(h)
    <2>1. h \in Tasks /\ h.k = kind
        BY <1>1, LoopGoesOn
    <2> QED BY <1>1, <1>2, <2>1 DEF ScopeTasks, Base
<1>11. PICK w : w = <<t>> \o r
    OBVIOUS
<1>12. w \in Seq(Tasks) /\ Holds(Now, w, strict)
    BY <1>6, <1>9, <1>10, <1>11, HeadHolds
<1>13. Tame(Now, s) /\ Good(s) /\ Holds(s, w, strict)
    BY <1>9, <1>12, CalmHolds DEF Calm, Tame, Follows
<1>14. Walk(s, tasks, r)
    BY <1>6 DEF Continue
<1>15. CASE tasks = <<t>>
    <2>1. tasks \in Seq(Tasks) /\ ~Has(tasks, "define")
        BY <1>2, <1>15, NextTasks
    <2> QED BY <1>5, <1>8, <1>9, <1>11, <1>13, <1>14, <1>15, <2>1, WalkHolds
<1>16. CASE tasks = <<next, t>>
    <2>1. tasks \in Seq(Tasks) /\ ~Has(tasks, "define")
        BY <1>2, <1>3, <1>16, NextTwoTasks
    <2>2. PICK front : front = <<next>>
        OBVIOUS
    <2>3. front \in Seq(Tasks) /\ \A k \in 1..Len(front) : front[k] \notin ScopeTasks
        BY <1>3, <2>2, NextTasks
    <2>4. PICK u : u = tasks \o r
        OBVIOUS
    <2>5. u = front \o w
        BY <1>2, <1>3, <1>9, <1>11, <1>16, <2>2, <2>4, FrontOfTwo
    <2>6. Holds(s, u, strict)
        BY <1>12, <1>13, <2>3, <2>5, FrontHolds
    <2> QED BY <1>5, <1>8, <1>9, <1>13, <1>14, <2>1, <2>4, <2>6, WalkHolds
<1> QED BY <1>15, <1>16

LEMMA NoJumpAtZero ==
    ASSUME NEW c, NEW i, i = 0
    PROVE  AtJump(c, i)
BY DEF AtJump

LEMMA EnclosesCalm ==
    ASSUME NEW s, Good(s), NEW change \in Int, Current(s).enclosing_loop + change \in Nat,
           NEW t, t = Enclose(s, change)
    PROVE  Calm(s, t) /\ Good(t)
<1>1. PICK c : c = Current(s)
    OBVIOUS
<1>2. Reset(s, t, c.last_continue, c.last_break, c.enclosing_loop + change)
    BY <1>1, Encloses
<1>3. PICK break : break = c.last_break
    OBVIOUS
<1>4. PICK continue : continue = c.last_continue
    OBVIOUS
<1>5. PICK loops : loops = c.enclosing_loop + change
    OBVIOUS
<1>6. AtBreak(Current(s)) => AtJump(Current(s), break)
    BY <1>1, <1>3 DEF AtBreak
<1> QED BY <1>2, <1>3, <1>4, <1>5, <1>6, ResetCalm

LEMMA EnclosesOneCalm ==
    ASSUME NEW s, Good(s), NEW t, t = Enclose(s, 1)
    PROVE  Calm(s, t) /\ Good(t)
<1>1. PICK one \in Int : one = 1
    OBVIOUS
<1>2. Current(s).enclosing_loop + one \in Nat
    <2>1. Current(s).enclosing_loop \in Nat
        BY LoopFields
    <2> QED BY <1>1, <2>1
<1> QED BY <1>1, <1>2, EnclosesCalm

LEMMA ContinuesCalm ==
    ASSUME NEW s, Good(s), NEW p \in Nat, p <= Len(Current(s).code), NEW t, t = ContinueAt(s, p)
    PROVE  Calm(s, t) /\ Good(t)
<1>1. PICK c : c = Current(s)
    OBVIOUS
<1>2. PICK break : break = c.last_break
    OBVIOUS
<1>3. PICK loops : loops = c.enclosing_loop
    OBVIOUS
<1>4. Reset(s, t, p, break, loops)
    BY <1>1, <1>2, <1>3, ContinuesAt
<1>5. AtBreak(Current(s)) => AtJump(Current(s), break)
    BY <1>1, <1>2 DEF AtBreak
<1> QED BY <1>4, <1>5, ResetCalm

LEMMA SavesCalm ==
    ASSUME NEW s, Good(s), NEW t, t = SaveBreakContext(s)
    PROVE  Calm(s, t) /\ Good(t)
<1>1. PICK c : c = Current(s)
    OBVIOUS
<1>2. PICK break : break = c.last_break
    OBVIOUS
<1>3. PICK continue : continue = c.last_continue
    OBVIOUS
<1>4. PICK loops : loops = c.enclosing_loop
    OBVIOUS
<1>5. Reset(s, t, continue, break, loops)
    BY <1>1, <1>2, <1>3, <1>4, SavesBreakContext
<1>6. AtBreak(Current(s)) => AtJump(Current(s), break)
    BY <1>1, <1>2 DEF AtBreak
<1> QED BY <1>5, <1>6, ResetCalm

(* A new loop remembers the break before it.                               *)
LEMMA NewLoopLands ==
    ASSUME NEW s, Good(s), AtBreak(Current(s)), NEW start \in Nat,
           start <= Len(Current(s).code), NEW loop, loop = NewLoop(s, start)
    PROVE  loop \in Loops /\ LoopLands(Current(s), loop)
<1>1. PICK c : c = Current(s)
    OBVIOUS
<1>2. LoopFits(c, loop) /\ loop.exit = 0 /\ loop.body = 0
    BY <1>1, NewLoopFits
<1>3. loop.saved.break = c.last_break
    BY <1>1 DEF NewLoop, BreakContext
<1> QED BY <1>1, <1>2, <1>3, NoJumpAtZero DEF LoopFits, LoopLands, AtBreak

LEMMA WhileStatementOrders ==
    ASSUME Inv, Ordered, Lexical, WhileStatement
    PROVE  Ordered' /\ Lexical'
<1>1. AtStatement
    BY DEF WhileStatement
<1>2. Good(Now) /\ todo # <<>> /\ AtBreak(Current(Now))
    <2>1. PICK kind : Doing(kind)
        BY <1>1 DEF AtStatement
    <2>2. AtBreak(Current(Now))
        BY <2>1, WorkLands
    <2> QED BY <1>1, <2>2, AtStatementIsGood
<1>3. PICK p : p = Position(Now)
    OBVIOUS
<1>4. p \in Nat /\ p <= Len(Current(Now).code) /\ Len(Current(Now).code) \in Nat
    BY <1>2, <1>3, LoopFields DEF Position
<1>5. PICK loop : loop = NewLoop(Now, p)
    OBVIOUS
<1>6. loop \in Loops /\ LoopLands(Current(Now), loop)
    BY <1>2, <1>4, <1>5, NewLoopLands
<1>7. PICK s : s = SaveBreakContext(Now)
    OBVIOUS
<1>8. Calm(Now, s) /\ Good(s)
    BY <1>2, <1>7, SavesCalm
<1>9. PICK t : t = ContinueAt(s, p)
    OBVIOUS
<1>10. p <= Len(Current(s).code)
    <2>1. PICK c : c = Current(Now)
        OBVIOUS
    <2>2. Current(s).code = Current(Now).code
        BY <1>2, <1>7, <2>1, SavesBreakContext, ResetGrows
    <2> QED BY <1>4, <2>2
<1>11. Calm(s, t) /\ Good(t)
    BY <1>4, <1>8, <1>9, <1>10, ContinuesCalm
<1>12. Calm(Now, t)
    BY <1>2, <1>8, <1>11, CalmOn
<1>13. LoopLands(Current(t), loop)
    BY <1>2, <1>6, <1>12, LoopLandsOn DEF Calm
<1>14. PICK kind \in LoopTasks \ ForTasks : kind = "whileBody"
    BY DEF LoopTasks, ForTasks
<1>15. PICK task : task = Loop(kind, loop)
    OBVIOUS
<1>16. task \in Quiet(t)
    BY <1>6, <1>13, <1>14, <1>15, LoopIsQuiet
<1>17. Expr \in Quiet(t)
    BY MildTasks, MildSequences
<1>18. PICK tasks : tasks = <<Expr, task>>
    OBVIOUS
<1>19. tasks \in Seq(Quiet(t))
    BY <1>16, <1>17, <1>18, ShortSequences
<1>20. Statement(t, tasks)
    BY <1>3, <1>5, <1>7, <1>9, <1>14, <1>15, <1>18 DEF WhileStatement
<1> QED BY <1>1, <1>12, <1>19, <1>20, StatementCalmly

LEMMA WhileBodyOrders ==
    ASSUME Inv, Ordered, Lexical, WhileBody
    PROVE  Ordered' /\ Lexical'
<1>1. PICK kind \in LoopTasks \ ForTasks : kind = "whileBody"
    BY DEF LoopTasks, ForTasks
<1>2. Doing(kind)
    BY <1>1 DEF WhileBody
<1>3. PICK h : h = Work[1]
    OBVIOUS
<1>4. /\ Good(Now) /\ Head(Work) = h /\ h.loop \in Loops /\ LoopLands(Current(Now), h.loop)
      /\ kind \notin {"methods", "endClass"}
    BY <1>1, <1>2, <1>3, LoopGoesOn
<1>5. PICK op \in {"JUMP", "JUMP_IF_FALSE"} : op = "JUMP_IF_FALSE"
    OBVIOUS
<1>6. PICK s : s = EmitJump(Now, op)
    OBVIOUS
<1>7. PICK jump : jump = Position(s)
    OBVIOUS
<1>8. Calm(Now, s) /\ Good(s) /\ jump \in Nat /\ jump # 0 /\ AtJump(Current(s), jump)
    BY <1>4, <1>6, <1>7, JumpCalm
<1>9. PICK t : t = Emit(s, "POP", 0)
    OBVIOUS
<1>10. Calm(s, t) /\ Good(t)
    BY <1>8, <1>9, PopCalm
<1>11. PICK u : u = Enclose(t, 1)
    OBVIOUS
<1>12. Calm(t, u) /\ Good(u)
    BY <1>10, <1>11, EnclosesOneCalm
<1>13. Calm(s, u)
    BY <1>8, <1>10, <1>12, CalmOn
<1>14. Calm(Now, u)
    BY <1>4, <1>8, <1>13, CalmOn
<1>15. AtJump(Current(u), jump)
    BY <1>8, <1>13, JumpStays DEF Calm
<1>16. PICK loop : loop = [h.loop EXCEPT !.exit = jump]
    OBVIOUS
<1>17. loop \in Loops /\ LoopLands(Current(u), loop)
    <2>1. /\ loop \in Loops /\ loop.exit = jump /\ loop.body = h.loop.body
          /\ loop.saved = h.loop.saved
        BY <1>4, <1>8, <1>16, LoopChanges
    <2>2. LoopLands(Current(u), h.loop)
        BY <1>4, <1>14, LoopLandsOn DEF Calm
    <2> QED BY <1>15, <2>1, <2>2 DEF LoopLands
<1>18. PICK end \in LoopTasks \ ForTasks : end = "whileEnd"
    BY DEF LoopTasks, ForTasks
<1>19. PICK task : task = Loop(end, loop)
    OBVIOUS
<1>20. task \in Quiet(u)
    BY <1>17, <1>18, <1>19, LoopIsQuiet
<1>21. PICK next : next = Task("stat")
    OBVIOUS
<1>22. next \in Quiet(u)
    BY <1>21, MildTasks, MildSequences
<1>23. PICK tasks : tasks = <<next, task>>
    OBVIOUS
<1>24. tasks \in Seq(Quiet(u))
    BY <1>20, <1>22, <1>23, ShortSequences
<1>25. Continue(u, tasks)
    BY <1>4, <1>5, <1>6, <1>7, <1>9, <1>11, <1>16, <1>18, <1>19, <1>21, <1>23 DEF WhileBody
<1>40. kind \notin Scoping
    BY <1>1 DEF Scoping, ForTasks
<1> QED BY <1>2, <1>4, <1>14, <1>24, <1>25, <1>40, ContinueCalmly
LEMMA LoopCalm ==
    ASSUME NEW s, Good(s), NEW start \in Nat, NEW t, t = EmitLoop(s, start)
    PROVE  Calm(s, t) /\ Good(t)
<1>1. PICK op \in Operations : op = "LOOP" /\ op \notin LookUps
    BY PlainOps
<1>2. t = Emit(s, op, start) /\ start \in Int
    BY <1>1 DEF EmitLoop
<1> QED BY <1>1, <1>2, EmitsCalm

(* patchBreak: the jump of the last break of the loop leads here.          *)
LEMMA PatchBreakCalm ==
    ASSUME NEW s, Good(s), AtBreak(Current(s)), NEW t, t = PatchBreak(s)
    PROVE  Calm(s, t) /\ Good(t)
<1>1. PICK jump : jump = Current(s).last_break
    OBVIOUS
<1>2. jump \in Nat /\ AtJump(Current(s), jump)
    BY <1>1, LoopFields DEF AtBreak
<1>3. CASE jump = 0
    <2>1. t = s
        BY <1>1, <1>3 DEF PatchBreak
    <2> QED BY <2>1, CalmSelf
<1>4. CASE jump # 0
    <2>1. PICK p : p = PatchJump(s, jump)
        OBVIOUS
    <2>2. Calm(s, p) /\ Good(p)
        BY <1>2, <1>4, <2>1, PatchCalm
    <2>3. PICK n \in Nat : n = 0
        OBVIOUS
    <2>4. PICK c : c = Current(p)
        OBVIOUS
    <2>5. PICK continue : continue = c.last_continue
        OBVIOUS
    <2>6. PICK loops : loops = c.enclosing_loop
        OBVIOUS
    <2>7. t = Update(p, [c EXCEPT !.last_break = n])
        BY <1>1, <1>4, <2>1, <2>3, <2>4 DEF PatchBreak
    <2>8. n <= Len(c.code)
        BY <2>2, <2>3, <2>4, LoopFields
    <2>9. Reset(p, t, continue, n, loops)
        BY <2>2, <2>4, <2>5, <2>6, <2>7, <2>8, BreaksAt
    <2>10. AtJump(Current(p), n)
        BY <2>3, NoJumpAtZero
    <2>11. Calm(p, t) /\ Good(t)
        BY <2>2, <2>9, <2>10, ResetCalm
    <2> QED BY <2>2, <2>11, CalmOn
<1> QED BY <1>3, <1>4

LEMMA ClosesCalm ==
    ASSUME NEW s, Good(s), Current(s).enclosing_loop > 0, AtBreak(Current(s)),
           NEW loop, LoopFits(Current(s), loop), LoopLands(Current(s), loop),
           NEW t, t = CloseLoop(s, loop)
    PROVE  Calm(s, t) /\ Good(t)
<1>1. PICK c : c = Current(s)
    OBVIOUS
<1>2. /\ c.enclosing_loop \in Nat /\ Len(c.code) \in Nat /\ loop \in Loops
      /\ loop.start \in Nat /\ loop.exit \in Nat
      /\ loop.saved \in [continue : Nat, break : Nat, depth : Nat]
      /\ loop.saved.continue \in Nat /\ loop.saved.break \in Nat
      /\ loop.saved.continue <= Len(c.code) /\ loop.saved.break <= Len(c.code)
    BY <1>1, LoopFields, LoopTypes DEF LoopFits
<1>3. PICK less \in Int : less = -1
    OBVIOUS
<1>4. PICK a : a = Enclose(s, less)
    OBVIOUS
<1>5. Calm(s, a) /\ Good(a)
    <2>1. Current(s).enclosing_loop + less \in Nat
        BY <1>1, <1>2, <1>3
    <2> QED BY <1>4, <2>1, EnclosesCalm
<1>6. PICK b : b = EmitLoop(a, loop.start)
    OBVIOUS
<1>7. Calm(a, b) /\ Good(b)
    BY <1>2, <1>5, <1>6, LoopCalm
<1>8. Calm(s, b)
    BY <1>5, <1>7, CalmOn
<1>9. PICK x : t = Restore(x, loop.saved) /\ Calm(s, x) /\ Good(x)
    <2>1. CASE loop.exit = 0
        <3>1. t = Restore(b, loop.saved)
            BY <1>3, <1>4, <1>6, <2>1 DEF CloseLoop, NONE
        <3> QED BY <1>7, <1>8, <3>1
    <2>2. CASE loop.exit # 0
        <3>1. PICK p : p = PatchJump(b, loop.exit)
            OBVIOUS
        <3>2. PICK q : q = PatchBreak(p)
            OBVIOUS
        <3>3. PICK e : e = Emit(q, "POP", 0)
            OBVIOUS
        <3>4. t = Restore(e, loop.saved)
            BY <1>3, <1>4, <1>6, <2>2, <3>1, <3>2, <3>3 DEF CloseLoop, NONE
        <3>5. AtJump(Current(b), loop.exit)
            <4>1. AtJump(Current(s), loop.exit)
                BY DEF LoopLands
            <4> QED BY <1>8, <4>1, JumpStays DEF Calm
        <3>6. Calm(b, p) /\ Good(p)
            BY <1>2, <1>7, <2>2, <3>1, <3>5, PatchCalm
        <3>7. Calm(s, p)
            BY <1>8, <3>6, CalmOn
        <3>8. AtBreak(Current(p))
            BY <3>7 DEF Calm, Tame
        <3>9. Calm(p, q) /\ Good(q)
            BY <3>2, <3>6, <3>8, PatchBreakCalm
        <3>10. Calm(s, q)
            BY <3>7, <3>9, CalmOn
        <3>11. Calm(q, e) /\ Good(e)
            BY <3>3, <3>9, PopCalm
        <3>12. Calm(s, e)
            BY <3>10, <3>11, CalmOn
        <3> QED BY <3>4, <3>11, <3>12
    <2> QED BY <2>1, <2>2
<1>10. PICK d : d = Current(x)
    OBVIOUS
<1>11. PICK break : break = loop.saved.break
    OBVIOUS
<1>12. PICK continue : continue = loop.saved.continue
    OBVIOUS
<1>13. PICK loops : loops = d.enclosing_loop
    OBVIOUS
<1>14. AtJump(Current(x), break)
    <2>1. AtJump(Current(s), break)
        BY <1>11 DEF LoopLands
    <2> QED BY <1>9, <2>1, JumpStays DEF Calm
<1>15. Len(d.code) \in Nat /\ Len(d.code) >= Len(c.code)
    BY <1>1, <1>9, <1>10, LoopFields DEF Calm, Tame, SameJumps
<1>16. loop.saved.continue <= Len(d.code) /\ loop.saved.break <= Len(d.code)
    BY <1>2, <1>15
<1>17. Reset(x, t, continue, break, loops)
    BY <1>2, <1>9, <1>10, <1>11, <1>12, <1>13, <1>16, Restores
<1>18. Calm(x, t) /\ Good(t)
    BY <1>9, <1>14, <1>17, ResetCalm
<1> QED BY <1>9, <1>18, CalmOn

LEMMA WhileEndOrders ==
    ASSUME Inv, Ordered, Lexical, WhileEnd
    PROVE  Ordered' /\ Lexical'
<1>1. PICK kind \in LoopTasks \ ForTasks : kind = "whileEnd"
    BY DEF LoopTasks, ForTasks
<1>2. Doing(kind)
    BY <1>1 DEF WhileEnd
<1>3. PICK h : h = Work[1]
    OBVIOUS
<1>4. /\ Good(Now) /\ Head(Work) = h /\ h \in Tasks /\ h.k = kind
      /\ LoopFits(Current(Now), h.loop) /\ LoopLands(Current(Now), h.loop)
      /\ AtBreak(Current(Now)) /\ kind \notin {"methods", "endClass"} /\ kind # "endFunction"
    BY <1>1, <1>2, <1>3, LoopGoesOn
<1>5. Current(Now).enclosing_loop > 0
    <2>1. h \in LoopEndTasks
        BY <1>1, <1>4 DEF LoopEndTasks, LoopEnds
    <2> QED BY <1>2, <1>3, <1>4, <2>1, ScopeIsOpen
<1>6. PICK s : s = CloseLoop(Now, h.loop)
    OBVIOUS
<1>7. Calm(Now, s)
    BY <1>4, <1>5, <1>6, ClosesCalm
<1>8. Continue(s, <<>>)
    BY <1>4, <1>6 DEF WhileEnd
<1>40. kind \notin Scoping
    BY <1>1 DEF Scoping, ForTasks
<1> QED BY <1>2, <1>4, <1>7, <1>8, <1>40, DoneCalmly

LEMMA ForEndOrders ==
    ASSUME Inv, Ordered, ForEnd
    PROVE  Ordered'
<1>1. PICK kind \in LoopTasks : kind = "forEnd"
    BY DEF LoopTasks
<1>2. Doing(kind)
    BY <1>1 DEF ForEnd
<1>3. PICK h : h = Work[1]
    OBVIOUS
<1>4. PICK c : c = Current(Now)
    OBVIOUS
<1>5. /\ Good(Now) /\ Head(Work) = h /\ h \in Tasks /\ h.k = kind
      /\ LoopFits(c, h.loop) /\ LoopLands(c, h.loop) /\ AtBreak(c)
      /\ kind \notin {"methods", "endClass"} /\ kind # "endFunction"
      /\ h.loop.base \in Nat /\ h.loop.base <= Len(c.visible)
    BY <1>1, <1>2, <1>3, <1>4, LoopGoesOn
<1>6. c.enclosing_loop > 0 /\ c.scopeDepth > 0
    <2>1. h \in LoopEndTasks /\ h \in ScopeTasks
        BY <1>1, <1>5 DEF LoopEndTasks, LoopEnds, ScopeTasks, ForTasks
    <2> QED BY <1>2, <1>3, <1>4, <1>5, <2>1, ScopeIsOpen
<1>7. PICK s : s = CloseLoop(Now, h.loop)
    OBVIOUS
<1>8. Tame(Now, s) /\ Good(s)
    BY <1>4, <1>5, <1>6, <1>7, ClosesCalm DEF Calm
<1>9. PICK base : base = h.loop.base
    OBVIOUS
<1>10. PICK d : d = Current(s)
    OBVIOUS
<1>11. d.scopeDepth > 0 /\ base \in Nat /\ base <= Len(d.visible)
    <2>1. Proceeds(Now, s, -1)
        BY <1>4, <1>5, <1>6, <1>7, <1>10, ClosesLoop
    <2>2. d.scopeDepth = c.scopeDepth /\ Len(d.visible) >= Len(c.visible)
        BY <1>4, <1>10, <2>1 DEF Proceeds, Passes
    <2>3. Len(d.visible) \in Nat /\ Len(c.visible) \in Nat
        BY <1>4, <1>5, <1>8, <1>10, LoopFields
    <2> QED BY <1>5, <1>6, <1>9, <2>2, <2>3
<1>12. PICK t : t = EndScope(s, base)
    OBVIOUS
<1>13. Tame(s, t)
    BY <1>8, <1>10, <1>11, <1>12, ScopeEndsTamely
<1>14. Tame(Now, t)
    BY <1>5, <1>8, <1>13, TameOn
<1>15. Continue(t, <<>>)
    BY <1>5, <1>7, <1>9, <1>12 DEF ForEnd
<1> QED BY <1>2, <1>5, <1>14, <1>15, DoneOrders

LEMMA ForConditionOrders ==
    ASSUME Inv, Ordered, Lexical, ForCondition
    PROVE  Ordered' /\ Lexical'
<1>1. PICK kind \in LoopTasks \cap ForTasks : kind = "forCond"
    BY DEF LoopTasks, ForTasks
<1>2. Doing(kind)
    BY <1>1 DEF ForCondition
<1>3. PICK h : h = Work[1]
    OBVIOUS
<1>4. /\ Good(Now) /\ Head(Work) = h /\ h.loop \in Loops /\ LoopLands(Current(Now), h.loop)
      /\ kind \notin {"methods", "endClass"}
    BY <1>1, <1>2, <1>3, LoopGoesOn
<1>5. PICK start : start = Position(Now)
    OBVIOUS
<1>6. start \in Nat
    BY <1>4, <1>5, LoopFields DEF Position
<1>7. PICK loop : loop = [h.loop EXCEPT !.start = start]
    OBVIOUS
<1>8. loop \in Loops /\ LoopLands(Current(Now), loop) /\ loop.base = h.loop.base
    <2>1. /\ loop \in Loops /\ loop.exit = h.loop.exit /\ loop.body = h.loop.body
          /\ loop.saved = h.loop.saved /\ loop.base = h.loop.base
        BY <1>4, <1>6, <1>7, LoopChanges
    <2> QED BY <1>4, <2>1 DEF LoopLands
<1>9. PICK iter \in LoopTasks \cap ForTasks : iter = "forIter"
    BY DEF LoopTasks, ForTasks
<1>10. PICK exit \in LoopTasks \cap ForTasks : exit = "forExit"
    BY DEF LoopTasks, ForTasks
<1>11. PICK first : first = Loop(iter, loop)
    OBVIOUS
<1>12. PICK second : second = Loop(exit, loop)
    OBVIOUS
<1>13. PICK value \in Mild : value = Expr
    BY MildTasks
<1>14. Continue(Now, <<first>>) \/ Continue(Now, <<value, second>>)
    BY <1>4, <1>5, <1>7, <1>9, <1>10, <1>11, <1>12, <1>13 DEF ForCondition
<1>15. Calm(Now, Now)
    BY <1>4, CalmSelf
<1>16. CASE Continue(Now, <<first>>)
    BY <1>1, <1>2, <1>3, <1>8, <1>9, <1>11, <1>13, <1>15, <1>16, ForContinues
<1>17. CASE Continue(Now, <<value, second>>)
    BY <1>1, <1>2, <1>3, <1>8, <1>10, <1>12, <1>13, <1>15, <1>17, ForContinues
<1> QED BY <1>14, <1>16, <1>17

LEMMA ForExitOrders ==
    ASSUME Inv, Ordered, Lexical, ForExit
    PROVE  Ordered' /\ Lexical'
<1>1. PICK kind \in LoopTasks \cap ForTasks : kind = "forExit"
    BY DEF LoopTasks, ForTasks
<1>2. Doing(kind)
    BY <1>1 DEF ForExit
<1>3. PICK h : h = Work[1]
    OBVIOUS
<1>4. /\ Good(Now) /\ Head(Work) = h /\ h.loop \in Loops /\ LoopLands(Current(Now), h.loop)
      /\ kind \notin {"methods", "endClass"}
    BY <1>1, <1>2, <1>3, LoopGoesOn
<1>5. PICK op \in {"JUMP", "JUMP_IF_FALSE"} : op = "JUMP_IF_FALSE"
    OBVIOUS
<1>6. PICK s : s = EmitJump(Now, op)
    OBVIOUS
<1>7. PICK jump : jump = Position(s)
    OBVIOUS
<1>8. Calm(Now, s) /\ Good(s) /\ jump \in Nat /\ AtJump(Current(s), jump)
    BY <1>4, <1>6, <1>7, JumpCalm
<1>9. PICK t : t = Emit(s, "POP", 0)
    OBVIOUS
<1>10. Calm(s, t) /\ Good(t)
    BY <1>8, <1>9, PopCalm
<1>11. Calm(Now, t)
    BY <1>4, <1>8, <1>10, CalmOn
<1>12. AtJump(Current(t), jump)
    BY <1>8, <1>10, JumpStays DEF Calm
<1>13. PICK loop : loop = [h.loop EXCEPT !.exit = jump]
    OBVIOUS
<1>14. loop \in Loops /\ LoopLands(Current(t), loop) /\ loop.base = h.loop.base
    <2>1. /\ loop \in Loops /\ loop.exit = jump /\ loop.body = h.loop.body
          /\ loop.saved = h.loop.saved /\ loop.base = h.loop.base
        BY <1>4, <1>8, <1>13, LoopChanges
    <2>2. LoopLands(Current(t), h.loop)
        BY <1>4, <1>11, LoopLandsOn DEF Calm
    <2> QED BY <1>12, <2>1, <2>2 DEF LoopLands
<1>15. PICK iter \in LoopTasks \cap ForTasks : iter = "forIter"
    BY DEF LoopTasks, ForTasks
<1>16. PICK task : task = Loop(iter, loop)
    OBVIOUS
<1>17. PICK next \in Mild : next = Expr
    BY MildTasks
<1>18. PICK tasks : tasks = <<task>>
    OBVIOUS
<1>19. Continue(t, tasks)
    BY <1>4, <1>5, <1>6, <1>7, <1>9, <1>13, <1>15, <1>16, <1>18 DEF ForExit
<1> QED BY <1>1, <1>2, <1>3, <1>11, <1>14, <1>15, <1>16, <1>17, <1>18, <1>19, ForContinues
LEMMA ReheightedCalm ==
    ASSUME NEW s, Good(s), NEW height \in Int,
           NEW t, t = Update(s, [Current(s) EXCEPT !.height = height])
    PROVE  Calm(s, t) /\ Good(t)
<1>1. PICK c : c = Current(s)
    OBVIOUS
<1>2. PICK d : d = [c EXCEPT !.height = height]
    OBVIOUS
<1>3. Fine(c) /\ c \in Contexts
    BY <1>1, CurrentIsFine
<1>4. /\ d \in Contexts /\ d.type = c.type /\ d.locals = c.locals /\ d.upvalues = c.upvalues
      /\ d.last_continue = c.last_continue /\ d.last_break = c.last_break /\ d.code = c.code
      /\ d.visible = c.visible /\ d.scopeDepth = c.scopeDepth
    BY <1>2, <1>3 DEF Contexts
<1>5. Fine(d)
    BY <1>3, <1>4 DEF Fine
<1>6. t = Update(s, d)
    BY <1>1, <1>2
<1>7. Plainly(s, t)
    BY <1>1, <1>4, <1>5, <1>6, PlainestUpdate
<1>8. Follows(s, t)
    BY <1>5, <1>6, Updated
<1>9. SameScope(c, d)
    BY <1>4 DEF SameScope, SameLocals
<1>10. Current(t) = d
    BY <1>5, <1>6, Updated
<1>11. Tame(s, t)
    BY <1>7, <1>8, FollowsTame
<1> QED BY <1>1, <1>8, <1>9, <1>10, <1>11 DEF Calm, Follows

(* The body of a for statement, once it is known how it goes on.           *)
LEMMA BodyContinues ==
    ASSUME Inv, Ordered, Lexical, NEW kind \in ForTasks, Doing(kind), NEW h, h = Work[1],
           NEW s, Calm(Now, s), NEW loop \in Loops, LoopLands(Current(s), loop),
           loop.base = h.loop.base, Continue(s, ForBody(loop))
    PROVE  Ordered' /\ Lexical'
<1>1. PICK end \in ForTasks : end = "forEnd"
    BY DEF ForTasks
<1>2. PICK task : task = Loop(end, loop)
    OBVIOUS
<1>3. PICK next \in Mild : next = Task("stat")
    BY MildTasks
<1>4. PICK tasks : tasks = <<next, task>>
    OBVIOUS
<1>5. Continue(s, tasks)
    BY <1>1, <1>2, <1>3, <1>4 DEF ForBody
<1> QED BY <1>2, <1>3, <1>4, <1>5, ForContinues

LEMMA ForIterationOrders ==
    ASSUME Inv, Ordered, Lexical, ForIteration
    PROVE  Ordered' /\ Lexical'
<1>1. PICK kind \in LoopTasks \cap ForTasks : kind = "forIter"
    BY DEF LoopTasks, ForTasks
<1>2. Doing(kind)
    BY <1>1 DEF ForIteration
<1>3. PICK h : h = Work[1]
    OBVIOUS
<1>4. /\ Good(Now) /\ Head(Work) = h /\ h.loop \in Loops /\ LoopLands(Current(Now), h.loop)
      /\ kind \notin {"methods", "endClass"}
    BY <1>1, <1>2, <1>3, LoopGoesOn
<1>5. CASE Continue(Enclose(Now, 1), ForBody(h.loop))
    <2>1. PICK s : s = Enclose(Now, 1)
        OBVIOUS
    <2>2. Calm(Now, s)
        BY <1>4, <2>1, EnclosesOneCalm
    <2>3. LoopLands(Current(s), h.loop)
        BY <1>4, <2>2, LoopLandsOn DEF Calm
    <2> QED BY <1>1, <1>2, <1>3, <1>4, <1>5, <2>1, <2>2, <2>3, BodyContinues
<1>6. PICK op \in {"JUMP", "JUMP_IF_FALSE"} : op = "JUMP"
    OBVIOUS
<1>7. PICK s : s = EmitJump(Now, op)
    OBVIOUS
<1>8. PICK jump : jump = Position(s)
    OBVIOUS
<1>9. Calm(Now, s) /\ Good(s) /\ jump \in Nat /\ AtJump(Current(s), jump)
    BY <1>4, <1>7, <1>8, JumpCalm
<1>10. PICK height \in Int : height = Current(Now).height
    BY <1>4, CurrentIsFine, ContextTypes
<1>11. PICK t : t = Update(s, [Current(s) EXCEPT !.height = height])
    OBVIOUS
<1>12. Calm(s, t) /\ Good(t) /\ Current(t).code = Current(s).code
    BY <1>9, <1>11, ReheightedCalm, Reheighted
<1>13. PICK u : u = ContinueAt(t, jump)
    OBVIOUS
<1>14. Calm(t, u)
    <2>1. Len(Current(s).code) \in Nat
        BY <1>9, CodeLength
    <2>2. jump <= Len(Current(t).code)
        BY <1>8, <1>12, <2>1 DEF Position
    <2> QED BY <1>9, <1>12, <1>13, <2>2, ContinuesCalm
<1>15. Calm(s, u)
    BY <1>9, <1>12, <1>14, CalmOn
<1>16. Calm(Now, u)
    BY <1>4, <1>9, <1>15, CalmOn
<1>17. AtJump(Current(u), jump)
    BY <1>9, <1>15, JumpStays DEF Calm
<1>18. PICK loop : loop = [h.loop EXCEPT !.body = jump]
    OBVIOUS
<1>19. loop \in Loops /\ LoopLands(Current(u), loop) /\ loop.base = h.loop.base
    <2>1. /\ loop \in Loops /\ loop.exit = h.loop.exit /\ loop.body = jump
          /\ loop.saved = h.loop.saved /\ loop.base = h.loop.base
        BY <1>4, <1>9, <1>18, LoopChanges
    <2>2. LoopLands(Current(u), h.loop)
        BY <1>4, <1>16, LoopLandsOn DEF Calm
    <2> QED BY <1>17, <2>1, <2>2 DEF LoopLands
<1>20. PICK body \in LoopTasks \cap ForTasks : body = "forBody"
    BY DEF LoopTasks, ForTasks
<1>21. PICK task : task = Loop(body, loop)
    OBVIOUS
<1>22. PICK value \in Mild : value = Expr
    BY MildTasks
<1>23. PICK tasks : tasks = <<value, task>>
    OBVIOUS
<1>24. CASE Continue(u, tasks)
    BY <1>1, <1>2, <1>3, <1>16, <1>19, <1>20, <1>21, <1>22, <1>23, <1>24, ForContinues
<1>25. Continue(Enclose(Now, 1), ForBody(h.loop)) \/ Continue(u, tasks)
    BY <1>4, <1>6, <1>7, <1>8, <1>10, <1>11, <1>13, <1>18, <1>20, <1>21, <1>22, <1>23 DEF ForIteration
<1> QED BY <1>5, <1>24, <1>25

LEMMA ForIteratedOrders ==
    ASSUME Inv, Ordered, Lexical, ForIterated
    PROVE  Ordered' /\ Lexical'
<1>1. PICK kind \in LoopTasks \cap ForTasks : kind = "forBody"
    BY DEF LoopTasks, ForTasks
<1>2. Doing(kind)
    BY <1>1 DEF ForIterated
<1>3. PICK h : h = Work[1]
    OBVIOUS
<1>4. /\ Good(Now) /\ Head(Work) = h /\ h \in Tasks /\ h.k = kind /\ h.loop \in Loops
      /\ LoopLands(Current(Now), h.loop) /\ kind \notin {"methods", "endClass"}
      /\ kind # "endFunction"
    BY <1>1, <1>2, <1>3, LoopGoesOn
<1>5. /\ h.loop.start \in Nat /\ h.loop.body \in Nat /\ h.loop.body # 0
    <2>1. PICK r : r = Tail(Work)
        OBVIOUS
    <2>2. Fits(Current(Now), h)
        BY <1>2, <1>3, <1>4, <2>1, TaskBegins
    <2>3. h.loop.body > 0
        BY <1>1, <1>4, <2>2 DEF Fits
    <2> QED BY <1>4, <2>3, LoopTypes
<1>6. PICK a : a = Emit(Now, "POP", 0)
    OBVIOUS
<1>7. Calm(Now, a) /\ Good(a)
    BY <1>4, <1>6, PopCalm
<1>8. PICK b : b = EmitLoop(a, h.loop.start)
    OBVIOUS
<1>9. Calm(a, b) /\ Good(b)
    BY <1>5, <1>7, <1>8, LoopCalm
<1>10. Calm(Now, b)
    BY <1>4, <1>7, <1>9, CalmOn
<1>11. PICK s : s = PatchJump(b, h.loop.body)
    OBVIOUS
<1>12. Calm(b, s) /\ Good(s)
    <2>1. LoopLands(Current(b), h.loop)
        BY <1>4, <1>10, LoopLandsOn DEF Calm
    <2>2. AtJump(Current(b), h.loop.body)
        BY <2>1 DEF LoopLands
    <2> QED BY <1>5, <1>9, <1>11, <2>2, PatchCalm
<1>13. Calm(Now, s)
    BY <1>4, <1>10, <1>12, CalmOn
<1>14. PICK u : u = Enclose(s, 1)
    OBVIOUS
<1>15. Calm(s, u)
    BY <1>12, <1>14, EnclosesOneCalm
<1>16. Calm(Now, u)
    BY <1>4, <1>13, <1>15, CalmOn
<1>17. PICK loop : loop = [h.loop EXCEPT !.start = h.loop.body]
    OBVIOUS
<1>18. loop \in Loops /\ LoopLands(Current(u), loop) /\ loop.base = h.loop.base
    <2>1. /\ loop \in Loops /\ loop.exit = h.loop.exit /\ loop.body = h.loop.body
          /\ loop.saved = h.loop.saved /\ loop.base = h.loop.base
        BY <1>4, <1>5, <1>17, LoopChanges, ZenonT(30)
    <2>2. LoopLands(Current(u), h.loop)
        BY <1>4, <1>16, LoopLandsOn DEF Calm
    <2> QED BY <2>1, <2>2 DEF LoopLands
<1>19. Continue(u, ForBody(loop))
    BY <1>4, <1>6, <1>8, <1>11, <1>14, <1>17 DEF ForIterated
<1> QED BY <1>1, <1>2, <1>3, <1>16, <1>18, <1>19, BodyContinues

LEMMA ForLoopLands ==
    ASSUME Good(Now), AtBreak(Current(Now)), NEW b, b = BeginScope(Now), NEW loop,
           loop = [NewLoop(b, 0) EXCEPT !.base = Visible(Now)]
    PROVE  Good(b) /\ Tame(Now, b) /\ loop \in Loops /\ LoopLands(Current(b), loop)
<1>1. Good(b) /\ Tame(Now, b)
    BY ScopeBegins, FollowsTame
<1>2. AtBreak(Current(b))
    BY <1>1 DEF Tame
<1>3. PICK none \in Nat : none = 0
    OBVIOUS
<1>4. PICK new : new = NewLoop(b, none)
    OBVIOUS
<1>5. new \in Loops /\ LoopLands(Current(b), new)
    <2>1. none <= Len(Current(b).code)
        BY <1>1, <1>3, LoopFields
    <2> QED BY <1>1, <1>2, <1>4, <2>1, NewLoopLands
<1>6. PICK base \in Nat : base = Visible(Now)
    BY LoopFields DEF Visible
<1>7. loop = [new EXCEPT !.base = base]
    BY <1>3, <1>4, <1>6
<1>8. loop \in Loops /\ loop.exit = new.exit /\ loop.body = new.body /\ loop.saved = new.saved
    BY <1>5, <1>7 DEF Loops
<1> QED BY <1>1, <1>5, <1>8 DEF LoopLands

(* The condition of a for statement, behind its initializer.               *)
LEMMA ForConditionWaits ==
    ASSUME NEW s, Good(s), NEW t, Tame(s, t), NEW loop \in Loops, LoopLands(Current(s), loop),
           NEW cond, cond = Loop("forCond", loop)
    PROVE  /\ <<cond>> \in Seq(Ready(t)) /\ <<Expr, cond>> \in Seq(Ready(t))
           /\ \A x \in Names : <<Expr, Define(x), cond>> \in Seq(Ready(t))
<1>1. PICK kind \in LoopTasks : kind = "forCond"
    BY DEF LoopTasks
<1>2. LoopLands(Current(t), loop)
    BY LoopLandsOn
<1>3. cond = Loop(kind, loop)
    BY <1>1
<1>4. cond \in Ready(t)
    BY <1>2, <1>3, LoopIsReady
<1>5. Expr \in Ready(t) /\ \A x \in Names : Define(x) \in Ready(t)
    BY EasyTasks, EasySequences
<1> QED BY <1>4, <1>5, ShortSequences

LEMMA ForStatementOrders ==
    ASSUME Inv, Ordered, ForStatement
    PROVE  Ordered'
<1>1. AtStatement
    BY DEF ForStatement
<1>2. Good(Now) /\ AtBreak(Current(Now))
    <2>1. PICK kind : Doing(kind)
        BY <1>1 DEF AtStatement
    <2>2. AtBreak(Current(Now))
        BY <2>1, WorkLands
    <2> QED BY <1>1, <2>2, AtStatementIsGood
<1>3. PICK b : b = BeginScope(Now)
    OBVIOUS
<1>4. PICK loop : loop = [NewLoop(b, 0) EXCEPT !.base = Visible(Now)]
    OBVIOUS
<1>5. Good(b) /\ Tame(Now, b) /\ loop \in Loops /\ LoopLands(Current(b), loop)
    BY <1>2, <1>3, <1>4, ForLoopLands
<1>6. PICK s : s = SaveBreakContext(b)
    OBVIOUS
<1>7. Tame(b, s) /\ Good(s)
    BY <1>5, <1>6, SavesCalm DEF Calm
<1>8. Tame(Now, s)
    BY <1>2, <1>5, <1>7, TameOn
<1>9. PICK cond : cond = Loop("forCond", loop)
    OBVIOUS
<1>10. CASE Statement(s, <<cond>>) \/ Statement(s, <<Expr, cond>>)
    <2>1. <<cond>> \in Seq(Ready(s)) /\ <<Expr, cond>> \in Seq(Ready(s))
        BY <1>5, <1>7, <1>9, ForConditionWaits
    <2> QED BY <1>1, <1>8, <1>10, <2>1, StatementOrders
<1>11. ASSUME NEW x \in Identifiers,
              \/ Statement(DeclareVariable(s, x), <<Expr, Define(x), cond>>)
              \/ Statement(DefineVariable(Emit(DeclareVariable(s, x), "NIL", 0), x), <<cond>>)
       PROVE  Ordered'
    <2>1. x \in Names /\ x \in VariableNames
        BY FamilyBounds
    <2>2. PICK t : t = DeclareVariable(s, x)
        OBVIOUS
    <2>3. Tame(s, t) /\ Good(t) /\ CanDefine(Current(t))
        BY <1>7, <2>1, <2>2, DeclaresTame
    <2>4. Tame(b, t)
        BY <1>5, <1>7, <2>3, TameOn
    <2>5. Tame(Now, t)
        BY <1>2, <1>5, <2>4, TameOn
    <2>6. CASE Statement(t, <<Expr, Define(x), cond>>)
        <3>1. <<Expr, Define(x), cond>> \in Seq(Ready(t))
            BY <1>5, <1>9, <2>1, <2>4, ForConditionWaits
        <3> QED BY <1>1, <2>5, <2>6, <3>1, StatementOrders
    <2>7. PICK u : u = DefineVariable(Emit(t, "NIL", 0), x)
        OBVIOUS
    <2>8. CASE Statement(u, <<cond>>)
        <3>1. Tame(t, u)
            BY <2>1, <2>3, <2>7, NilTame
        <3>2. Tame(b, u)
            BY <1>5, <2>4, <3>1, TameOn
        <3>3. Tame(Now, u)
            BY <1>2, <1>5, <3>2, TameOn
        <3>4. <<cond>> \in Seq(Ready(u))
            BY <1>5, <1>9, <3>2, ForConditionWaits
        <3> QED BY <1>1, <2>8, <3>3, <3>4, StatementOrders
    <2> QED BY <1>11, <2>2, <2>6, <2>7, <2>8
<1>12. \/ Statement(s, <<cond>>) \/ Statement(s, <<Expr, cond>>)
       \/ \E x \in Identifiers :
            \/ Statement(DeclareVariable(s, x), <<Expr, Define(x), cond>>)
            \/ Statement(DefineVariable(Emit(DeclareVariable(s, x), "NIL", 0), x), <<cond>>)
    BY <1>3, <1>4, <1>6, <1>9 DEF ForStatement
<1> QED BY <1>10, <1>11, <1>12

LEMMA AdjustsTame ==
    ASSUME NEW s, Good(s), NEW depth \in Nat, NEW t, t = AdjustLocals(s, depth)
    PROVE  Tame(s, t) /\ Good(t)
<1>1. Follows(s, t) /\ Plainly(s, t)
    BY Adjusts
<1> QED BY <1>1, FollowsTame

LEMMA NotInLoopTame ==
    ASSUME Good(Now), NEW s, s = NotInLoop(Now)
    PROVE  Tame(Now, s) /\ Good(s) /\ Current(s) = Current(Now)
<1>1. PICK condition : condition = (Current(Now).enclosing_loop = 0)
    OBVIOUS
<1>2. PICK what \in Errors : what = "must be used in a loop"
    BY DEF Errors
<1>3. s = FailIf(Now, condition, what)
    BY <1>1, <1>2 DEF NotInLoop
<1> QED BY <1>3, FailTame

LEMMA BreakStatementOrders ==
    ASSUME Inv, Ordered, BreakStatement
    PROVE  Ordered'
<1>1. AtStatement
    BY SimpleNodeBegins DEF BreakStatement
<1>2. Good(Now)
    BY <1>1, AtStatementIsGood
<1>3. PICK s : s = NotInLoop(Now)
    OBVIOUS
<1>4. Tame(Now, s) /\ Good(s)
    BY <1>2, <1>3, NotInLoopTame
<1>5. PICK depth \in Nat : depth = Current(s).scopeDepth
    BY <1>4, LoopFields
<1>6. PICK a : a = AdjustLocals(s, depth)
    OBVIOUS
<1>7. Tame(s, a) /\ Good(a)
    BY <1>4, <1>6, AdjustsTame
<1>8. Tame(Now, a)
    BY <1>2, <1>4, <1>7, TameOn
<1>9. PICK op \in {"JUMP", "JUMP_IF_FALSE"} : op = "JUMP"
    OBVIOUS
<1>10. PICK t : t = EmitJump(a, op)
    OBVIOUS
<1>11. PICK jump : jump = Position(t)
    OBVIOUS
<1>12. Tame(a, t) /\ Good(t) /\ jump \in Nat /\ AtJump(Current(t), jump)
    BY <1>7, <1>10, <1>11, JumpTame
<1>13. Tame(Now, t)
    BY <1>2, <1>8, <1>12, TameOn
<1>14. PICK c : c = Current(t)
    OBVIOUS
<1>15. PICK continue : continue = c.last_continue
    OBVIOUS
<1>16. PICK loops : loops = c.enclosing_loop
    OBVIOUS
<1>17. PICK u : u = Update(t, [c EXCEPT !.last_break = jump])
    OBVIOUS
<1>18. Reset(t, u, continue, jump, loops)
    <2>1. Len(c.code) \in Nat
        BY <1>12, <1>14, CodeLength
    <2>2. jump <= Len(c.code)
        BY <1>11, <1>14, <2>1 DEF Position
    <2> QED BY <1>12, <1>14, <1>15, <1>16, <1>17, <2>2, BreaksAt
<1>19. Tame(t, u)
    BY <1>12, <1>18, ResetTame
<1>20. Tame(Now, u)
    BY <1>2, <1>13, <1>19, TameOn
<1>21. PICK empty : empty = <<>>
    OBVIOUS
<1>22. empty \in Seq(Ready(u))
    BY <1>21, EasySequences
<1>23. Statement(u, empty)
    BY <1>3, <1>5, <1>6, <1>9, <1>10, <1>11, <1>14, <1>17, <1>21 DEF BreakStatement
<1> QED BY <1>1, <1>20, <1>22, <1>23, StatementOrders

LEMMA ContinueStatementOrders ==
    ASSUME Inv, Ordered, ContinueStatement
    PROVE  Ordered'
<1>1. AtStatement
    BY SimpleNodeBegins DEF ContinueStatement
<1>2. Good(Now)
    BY <1>1, AtStatementIsGood
<1>3. PICK s : s = NotInLoop(Now)
    OBVIOUS
<1>4. Tame(Now, s) /\ Good(s)
    BY <1>2, <1>3, NotInLoopTame
<1>5. PICK c : c = Current(s)
    OBVIOUS
<1>6. c.last_scope_depth \in Nat /\ c.last_continue \in Nat
    BY <1>4, <1>5, LoopFields
<1>7. PICK a : a = AdjustLocals(s, c.last_scope_depth)
    OBVIOUS
<1>8. Tame(s, a) /\ Good(a)
    BY <1>4, <1>6, <1>7, AdjustsTame
<1>9. Tame(Now, a)
    BY <1>2, <1>4, <1>8, TameOn
<1>10. PICK t : t = EmitLoop(a, c.last_continue)
    OBVIOUS
<1>11. Tame(a, t) /\ Good(t)
    BY <1>6, <1>8, <1>10, LoopCalm DEF Calm
<1>12. Tame(Now, t)
    BY <1>2, <1>9, <1>11, TameOn
<1>13. PICK none \in Nat : none = 0
    OBVIOUS
<1>14. PICK u : u = ContinueAt(t, none)
    OBVIOUS
<1>15. Tame(t, u)
    <2>1. none <= Len(Current(t).code)
        BY <1>11, <1>13, CodeLength
    <2> QED BY <1>11, <1>14, <2>1, ContinuesCalm DEF Calm
<1>16. Tame(Now, u)
    BY <1>2, <1>12, <1>15, TameOn
<1>17. PICK empty : empty = <<>>
    OBVIOUS
<1>18. empty \in Seq(Ready(u)) /\ empty \in Seq(Ready(s))
    BY <1>17, EasySequences
<1>19. Statement(s, empty) \/ Statement(u, empty)
    BY <1>3, <1>5, <1>7, <1>10, <1>13, <1>14, <1>17 DEF ContinueStatement
<1> QED BY <1>1, <1>4, <1>16, <1>18, <1>19, StatementOrders

LEMMA VarDeclarationScopes ==
    ASSUME Inv, Lexical, VarDeclaration
    PROVE  Lexical'
<1>1. PICK r : r = IF Doing("stats") THEN Work ELSE Tail(Work)
    OBVIOUS
<1>2. AtStatement
    BY BlockIsStatement DEF VarDeclaration
<1>3. PICK strict \in BOOLEAN : strict = Disciplined
    BY <1>1, <1>2, StatementHeld
<1>4. /\ todo # <<>> /\ Good(Now) /\ r \in Seq(Tasks) /\ ~Has(r, "define")
      /\ Holds(Now, r, strict)
    BY <1>1, <1>2, <1>3, StatementHeld
<1>5. PICK x \in Identifiers :
        \/ Statement(DeclareVariable(Now, x), <<Expr, Define(x)>>)
        \/ Statement(DefineVariable(Emit(DeclareVariable(Now, x), "NIL", 0), x), <<>>)
    BY DEF VarDeclaration
<1>6. x \in Names /\ x \in VariableNames
    BY FamilyBounds
<1>7. PICK s : s = DeclareVariable(Now, x)
    OBVIOUS
<1>8. Tame(Now, s) /\ Good(s) /\ CanDefine(Current(s)) /\ Waits(s, r, strict)
    BY <1>4, <1>6, <1>7, DeclaresTame, DeclaresInside
<1>9. CASE Statement(s, <<Expr, Define(x)>>)
    <2>1. PICK tasks : tasks = <<Expr, Define(x)>>
        OBVIOUS
    <2>2. /\ tasks \in Seq(Tasks) /\ Has(tasks, "define")
          /\ \A k \in 1..Len(tasks) : tasks[k] \notin ScopeTasks
        BY <1>6, <2>1, DeclaringTasks, NextTwoTasks
    <2>3. PICK u : u = tasks \o r
        OBVIOUS
    <2>4. Waits(s, u, strict)
        BY <1>4, <1>8, <2>2, <2>3, FrontHolds
    <2>5. Walk(s, tasks, r)
        BY <1>1, <1>9, <2>1 DEF Statement
    <2> QED BY <1>3, <1>4, <1>8, <2>2, <2>3, <2>4, <2>5, WalkHolds
<1>10. CASE Statement(DefineVariable(Emit(s, "NIL", 0), x), <<>>)
    <2>1. PICK empty : empty = <<>>
        OBVIOUS
    <2>2. empty \in Seq(Tasks) /\ ~Has(empty, "define") /\ empty \o r = r
        BY <1>4, <2>1, NoTasks
    <2>3. PICK t : t = DefineVariable(Emit(s, "NIL", 0), x)
        OBVIOUS
    <2>4. Tame(s, t) /\ Holds(t, r, strict)
        BY <1>4, <1>6, <1>8, <2>3, NilTame, NilInside
    <2>5. Tame(Now, t)
        BY <1>4, <1>8, <2>4, TameOn
    <2>6. Walk(t, empty, r)
        BY <1>1, <1>10, <2>1, <2>3 DEF Statement
    <2> QED BY <1>3, <1>4, <2>2, <2>4, <2>5, <2>6, WalkHolds
<1> QED BY <1>5, <1>7, <1>9, <1>10

LEMMA EndDeclarationScopes ==
    ASSUME Inv, Lexical, EndDeclaration
    PROVE  Lexical'
<1>1. PICK kind : kind = "define"
    OBVIOUS
<1>2. Doing(kind) /\ kind # "endFunction"
    BY <1>1 DEF EndDeclaration
<1>3. PICK r : r = Tail(Work)
    OBVIOUS
<1>4. PICK h : h = Work[1]
    OBVIOUS
<1>5. /\ Good(Now) /\ Head(Work) = h /\ h.k = kind /\ h \in Tasks /\ Fits(Current(Now), h)
      /\ todo # <<>>
    BY <1>2, <1>3, <1>4, TaskBegins
<1>6. h.name \in VariableNames
    <2>1. h.name \in Names
        BY <1>1, <1>5, TaskTypes
    <2> QED BY <2>1 DEF VariableNames
<1>7. CanDefine(Current(Now))
    BY <1>1, <1>5 DEF Fits
<1>8. h.k \notin ExprTasks /\ h \notin ScopeTasks
    BY <1>1, <1>5 DEF ExprTasks, ScopeTasks, ForTasks
<1>9. PICK strict \in BOOLEAN : strict = Disciplined
    BY <1>4, <1>5, <1>8, NothingWaits
<1>10. Waits(Now, Work, strict) /\ ~Has(r, "define")
    BY <1>1, <1>3, <1>4, <1>5, <1>8, <1>9, NothingWaits
<1>11. Work \in Seq(Tasks) /\ Work # <<>> /\ r \in Seq(Tasks)
    BY <1>3, <1>5, AtWork, TailOf
<1>12. Waits(Now, r, strict)
    BY <1>3, <1>4, <1>5, <1>8, <1>10, <1>11, BehindHolds
<1>13. PICK s : s = DefineVariable(Now, h.name)
    OBVIOUS
<1>14. Tame(Now, s) /\ Holds(s, r, strict)
    BY <1>5, <1>6, <1>7, <1>11, <1>12, <1>13, DefinesTame, DefinesInside
<1>15. PICK empty : empty = <<>>
    OBVIOUS
<1>16. empty \in Seq(Tasks) /\ ~Has(empty, "define") /\ empty \o r = r
    BY <1>11, <1>15, NoTasks
<1>17. Walk(s, empty, r)
    BY <1>3, <1>5, <1>13, <1>15 DEF EndDeclaration, Continue
<1> QED BY <1>5, <1>9, <1>10, <1>11, <1>14, <1>16, <1>17, WalkHolds

LEMMA BlockScopes ==
    ASSUME Inv, Lexical, Block
    PROVE  Lexical'
<1>1. PICK r : r = IF Doing("stats") THEN Work ELSE Tail(Work)
    OBVIOUS
<1>2. AtStatement /\ Statement(BeginScope(Now), <<Task("stats"), Scope(Visible(Now))>>)
    BY DEF Block
<1>3. PICK strict \in BOOLEAN : strict = Disciplined
    BY <1>1, <1>2, StatementHeld
<1>4. /\ todo # <<>> /\ Good(Now) /\ r \in Seq(Tasks) /\ ~Has(r, "define")
      /\ Holds(Now, r, strict)
    BY <1>1, <1>2, <1>3, StatementHeld
<1>5. PICK s : s = BeginScope(Now)
    OBVIOUS
<1>6. Tame(Now, s) /\ Good(s)
    <2>1. Follows(Now, s) /\ Plainly(Now, s)
        BY <1>4, <1>5, ScopeBegins
    <2> QED BY <1>4, <2>1, FollowsTame DEF Follows
<1>7. PICK base \in Nat : base = Visible(Now)
    BY <1>4, LoopFields DEF Visible
<1>8. PICK x : x = Scope(base)
    OBVIOUS
<1>9. x \in ScopeTasks /\ Base(x) = base /\ x \in Tasks /\ x.k # "define"
    <2>1. x \in Tasks /\ x.k = "endScope" /\ x.base = base
        BY <1>8, EasyTasks DEF Easy, Scope
    <2> QED BY <2>1 DEF ScopeTasks, Base, LoopTasks
<1>10. PICK w : w = <<x>> \o r
    OBVIOUS
<1>11. Holds(s, w, strict)
    BY <1>4, <1>5, <1>7, <1>9, <1>10, OpensInside
<1>12. PICK stats \in Tasks : stats = Task("stats") /\ stats \notin ScopeTasks /\ stats.k # "define"
    BY DeclaringTasks
<1>13. PICK tasks : tasks = <<stats, x>>
    OBVIOUS
<1>14. tasks \in Seq(Tasks) /\ ~Has(tasks, "define")
    BY <1>9, <1>12, <1>13, NextTwoTasks
<1>15. PICK first : first = <<stats>>
    OBVIOUS
<1>16. first \in Seq(Tasks) /\ \A k \in 1..Len(first) : first[k] \notin ScopeTasks
    BY <1>12, <1>15, NextTasks
<1>17. PICK u : u = tasks \o r
    OBVIOUS
<1>18. w \in Seq(Tasks) /\ u = first \o w
    BY <1>4, <1>9, <1>10, <1>12, <1>13, <1>15, <1>17, FrontOfTwo
<1>19. Holds(s, u, strict)
    BY <1>6, <1>11, <1>16, <1>18, FrontHolds
<1>20. Walk(s, tasks, r)
    BY <1>1, <1>2, <1>5, <1>7, <1>8, <1>12, <1>13 DEF Statement
<1> QED BY <1>3, <1>4, <1>6, <1>14, <1>17, <1>19, <1>20, WalkHolds

(* The scope that a task ends, with what it leaves.                        *)
LEMMA ScopeCloses ==
    ASSUME Inv, Lexical, NEW kind, Doing(kind), kind # "endFunction",
           NEW h, h = Work[1], h \in ScopeTasks, NEW base, base = Base(h),
           NEW r, r = Tail(Work), NEW s, Calm(Now, s), Good(s),
           NEW t, t = EndScope(s, base)
    PROVE  /\ Tame(Now, t) /\ Good(t) /\ ~Has(r, "define") /\ r \in Seq(Tasks)
           /\ Disciplined \in BOOLEAN /\ Holds(t, r, Disciplined) /\ todo # <<>>
<1>1. h \in Tasks /\ h.k \in Based /\ h.k \notin ExprTasks /\ h.k # "define" /\ h.k = kind
    <2>1. h \in Tasks /\ h.k \in Based /\ h.k = kind
        BY ScopeIsBased, NowIsGood
    <2> QED BY <2>1 DEF Based, LoopTasks, ExprTasks
<1>2. /\ todo # <<>> /\ Good(Now) /\ r \in Seq(Tasks) /\ Disciplined \in BOOLEAN
      /\ Work \in Seq(Tasks) /\ Work # <<>> /\ Pending(Current(Now), Work)
      /\ ~Has(r, "define") /\ Holds(Now, Work, Disciplined)
    BY <1>1, TaskHeld
<1>3. PICK strict \in BOOLEAN : strict = Disciplined
    BY <1>2
<1>4. Current(Now).scopeDepth > 0
    BY ScopeIsOpen
<1>5. /\ base \in Nat /\ base <= Len(Current(Now).visible)
      /\ \A k \in 1..Len(r) : r[k] \in ScopeTasks => Base(r[k]) <= base
    BY <1>2, InnermostBase
<1>6. SameScope(Current(Now), Current(s)) /\ Tame(Now, s)
    BY DEF Calm
<1>7. Current(s).scopeDepth > 0 /\ base <= Len(Current(s).visible)
    BY <1>4, <1>5, <1>6 DEF SameScope
<1>8. Holds(s, Work, strict)
    BY <1>2, <1>3, CalmHolds
<1>9. Holds(t, r, strict)
    BY <1>2, <1>5, <1>7, <1>8, ClosesInside
<1>10. Tame(s, t) /\ Good(t)
    BY <1>5, <1>7, ScopeEndsTamely
<1>11. Tame(Now, t)
    BY <1>2, <1>6, <1>10, TameOn
<1> QED BY <1>2, <1>3, <1>9, <1>10, <1>11

LEMMA EndBlockScopes ==
    ASSUME Inv, Lexical, EndBlock
    PROVE  Lexical'
<1>1. PICK kind : kind = "endScope"
    OBVIOUS
<1>2. Doing(kind) /\ kind # "endFunction"
    BY <1>1 DEF EndBlock
<1>3. PICK r : r = Tail(Work)
    OBVIOUS
<1>4. PICK h : h = Work[1]
    OBVIOUS
<1>5. Good(Now) /\ Head(Work) = h /\ h.k = kind /\ h \in Tasks
    BY <1>2, <1>3, <1>4, TaskBegins
<1>6. h \in ScopeTasks /\ Base(h) = h.base
    BY <1>1, <1>5 DEF ScopeTasks, Base, LoopTasks
<1>7. PICK s : s = EndScope(Now, h.base)
    OBVIOUS
<1>8. Calm(Now, Now)
    BY <1>2, NowIsGood
<1>9. /\ Tame(Now, s) /\ Good(s) /\ ~Has(r, "define") /\ r \in Seq(Tasks) /\ todo # <<>>
      /\ Holds(s, r, Disciplined)
    BY <1>2, <1>3, <1>4, <1>5, <1>6, <1>7, <1>8, ScopeCloses
<1>10. PICK empty : empty = <<>>
    OBVIOUS
<1>11. empty \in Seq(Tasks) /\ ~Has(empty, "define") /\ empty \o r = r
    BY <1>9, <1>10, NoTasks
<1>12. Walk(s, empty, r)
    BY <1>3, <1>5, <1>7, <1>10 DEF EndBlock, Continue
<1> QED BY <1>9, <1>11, <1>12, WalkHolds


LEMMA ForStatementScopes ==
    ASSUME Inv, Ordered, Lexical, ForStatement
    PROVE  Lexical'
<1>1. PICK r : r = IF Doing("stats") THEN Work ELSE Tail(Work)
    OBVIOUS
<1>2. AtStatement
    BY DEF ForStatement
<1>3. PICK strict \in BOOLEAN : strict = Disciplined
    BY <1>1, <1>2, StatementHeld
<1>4. /\ todo # <<>> /\ Good(Now) /\ r \in Seq(Tasks) /\ ~Has(r, "define")
      /\ Holds(Now, r, strict)
    BY <1>1, <1>2, <1>3, StatementHeld
<1>5. AtBreak(Current(Now))
    <2>1. PICK kind : Doing(kind)
        BY <1>2 DEF AtStatement
    <2> QED BY <2>1, WorkLands
<1>6. PICK b : b = BeginScope(Now)
    OBVIOUS
<1>7. PICK loop : loop = [NewLoop(b, 0) EXCEPT !.base = Visible(Now)]
    OBVIOUS
<1>8. Good(b) /\ Tame(Now, b) /\ loop \in Loops
    BY <1>4, <1>5, <1>6, <1>7, ForLoopLands
<1>9. PICK kind \in LoopTasks \cap ForTasks : kind = "forCond"
    BY DEF LoopTasks, ForTasks
<1>10. PICK cond : cond = Loop(kind, loop)
    OBVIOUS
<1>11. cond \in Tasks /\ cond \in ScopeTasks /\ Base(cond) = Visible(Now) /\ cond.k # "define"
    <2>1. cond \in Tasks /\ cond.k = kind /\ Base(cond) = loop.base
        BY <1>8, <1>9, <1>10, LoopTask
    <2>2. loop.base = Visible(Now)
        BY <1>7 DEF NewLoop
    <2> QED BY <1>9, <2>1, <2>2 DEF ScopeTasks
<1>12. PICK w : w = <<cond>> \o r
    OBVIOUS
<1>13. w \in Seq(Tasks) /\ Holds(b, w, strict)
    <2>1. w \in Seq(Tasks)
        BY <1>4, <1>11, <1>12, ShortSequences, ConcatProperties
    <2> QED BY <1>4, <1>6, <1>11, <1>12, <2>1, OpensInside
<1>14. PICK s : s = SaveBreakContext(b)
    OBVIOUS
<1>15. Calm(b, s) /\ Good(s) /\ Tame(b, s)
    BY <1>8, <1>14, SavesCalm DEF Calm
<1>16. Tame(Now, s) /\ Holds(s, w, strict)
    BY <1>4, <1>8, <1>13, <1>15, TameOn, CalmHolds
<1>17. PICK value \in Tasks : value = Expr /\ value \notin ScopeTasks /\ value.k # "define"
    BY DeclaringTasks
<1>18. PICK one : one = <<cond>>
    OBVIOUS
<1>19. one \in Seq(Tasks) /\ ~Has(one, "define")
    BY <1>11, <1>18, NextTasks
<1>20. CASE Statement(s, one)
    <2>1. Walk(s, one, r)
        BY <1>1, <1>20 DEF Statement
    <2> QED BY <1>3, <1>4, <1>12, <1>16, <1>18, <1>19, <2>1, WalkHolds
<1>21. CASE Statement(s, <<value, cond>>)
    <2>1. PICK tasks : tasks = <<value, cond>>
        OBVIOUS
    <2>2. tasks \in Seq(Tasks) /\ ~Has(tasks, "define")
        BY <1>11, <1>17, <2>1, NextTwoTasks
    <2>3. PICK front : front = <<value>>
        OBVIOUS
    <2>4. front \in Seq(Tasks) /\ \A k \in 1..Len(front) : front[k] \notin ScopeTasks
        BY <1>17, <2>3, NextTasks
    <2>5. PICK u : u = tasks \o r
        OBVIOUS
    <2>6. u = front \o w
        BY <1>4, <1>11, <1>12, <1>17, <2>1, <2>3, <2>5, FrontOfTwo
    <2>7. Holds(s, u, strict)
        BY <1>13, <1>15, <1>16, <2>4, <2>6, FrontHolds
    <2>8. Walk(s, tasks, r)
        BY <1>1, <1>21, <2>1 DEF Statement
    <2> QED BY <1>3, <1>4, <1>16, <2>2, <2>5, <2>7, <2>8, WalkHolds
<1>22. ASSUME NEW x \in Identifiers,
              \/ Statement(DeclareVariable(s, x), <<value, Define(x), cond>>)
              \/ Statement(DefineVariable(Emit(DeclareVariable(s, x), "NIL", 0), x), one)
       PROVE  Lexical'
    <2>1. x \in Names /\ x \in VariableNames
        BY FamilyBounds
    <2>2. PICK t : t = DeclareVariable(s, x)
        OBVIOUS
    <2>3. Tame(s, t) /\ Good(t) /\ CanDefine(Current(t))
        BY <1>15, <2>1, <2>2, DeclaresTame
    <2>4. Tame(Now, t) /\ Waits(t, w, strict)
        <3>1. Tame(Now, t)
            BY <1>4, <1>16, <2>3, TameOn
        <3> QED BY <1>13, <1>15, <1>16, <2>1, <2>2, <3>1, DeclaresInside
    <2>5. CASE Statement(t, <<value, Define(x), cond>>)
        <3>1. PICK define \in Tasks : define = Define(x) /\ define \notin ScopeTasks /\ define.k = "define"
            BY <2>1, DeclaringTasks
        <3>2. PICK tasks : tasks = <<value, define, cond>>
            OBVIOUS
        <3>3. tasks \in Seq(Tasks) /\ Has(tasks, "define")
            BY <1>11, <1>17, <3>1, <3>2, NextThreeTasks
        <3>4. PICK front : front = <<value, define>>
            OBVIOUS
        <3>5. front \in Seq(Tasks) /\ \A k \in 1..Len(front) : front[k] \notin ScopeTasks
            BY <1>17, <3>1, <3>4, NextTwoTasks
        <3>6. PICK u : u = tasks \o r
            OBVIOUS
        <3>7. u = front \o w
            BY <1>4, <1>11, <1>12, <1>17, <3>1, <3>2, <3>4, <3>6, FrontOfThree
        <3>8. Waits(t, u, strict)
            BY <1>13, <2>3, <2>4, <3>5, <3>7, FrontHolds
        <3>9. Walk(t, tasks, r)
            BY <1>1, <2>5, <3>1, <3>2 DEF Statement
        <3> QED BY <1>3, <1>4, <2>4, <3>3, <3>6, <3>8, <3>9, WalkHolds
    <2>6. PICK v : v = DefineVariable(Emit(t, "NIL", 0), x)
        OBVIOUS
    <2>7. CASE Statement(v, one)
        <3>1. Tame(t, v) /\ Holds(v, w, strict)
            BY <1>13, <2>1, <2>3, <2>4, <2>6, NilTame, NilInside
        <3>2. Tame(Now, v)
            BY <1>4, <2>4, <3>1, TameOn
        <3>3. Walk(v, one, r)
            BY <1>1, <2>7 DEF Statement
        <3> QED BY <1>3, <1>4, <1>12, <1>18, <1>19, <3>1, <3>2, <3>3, WalkHolds
    <2> QED BY <1>22, <2>2, <2>5, <2>6, <2>7
<1>23. \/ Statement(s, one) \/ Statement(s, <<value, cond>>)
       \/ \E x \in Identifiers :
            \/ Statement(DeclareVariable(s, x), <<value, Define(x), cond>>)
            \/ Statement(DefineVariable(Emit(DeclareVariable(s, x), "NIL", 0), x), one)
    BY <1>6, <1>7, <1>9, <1>10, <1>14, <1>17, <1>18 DEF ForStatement
<1> QED BY <1>20, <1>21, <1>22, <1>23

LEMMA ForEndScopes ==
    ASSUME Inv, Ordered, Lexical, ForEnd
    PROVE  Lexical'
<1>1. PICK kind \in LoopTasks : kind = "forEnd"
    BY DEF LoopTasks
<1>2. Doing(kind)
    BY <1>1 DEF ForEnd
<1>3. PICK h : h = Work[1]
    OBVIOUS
<1>4. PICK c : c = Current(Now)
    OBVIOUS
<1>5. /\ Good(Now) /\ Head(Work) = h /\ h \in Tasks /\ h.k = kind
      /\ LoopFits(c, h.loop) /\ LoopLands(c, h.loop) /\ AtBreak(c) /\ kind # "endFunction"
    BY <1>1, <1>2, <1>3, <1>4, LoopGoesOn
<1>6. h \in LoopEndTasks /\ h \in ScopeTasks /\ Base(h) = h.loop.base
    BY <1>1, <1>5 DEF LoopEndTasks, LoopEnds, ScopeTasks, ForTasks, Base
<1>7. c.enclosing_loop > 0
    BY <1>2, <1>3, <1>4, <1>5, <1>6, ScopeIsOpen
<1>8. PICK s : s = CloseLoop(Now, h.loop)
    OBVIOUS
<1>9. Calm(Now, s) /\ Good(s)
    BY <1>4, <1>5, <1>7, <1>8, ClosesCalm
<1>10. PICK t : t = EndScope(s, h.loop.base)
    OBVIOUS
<1>11. PICK r : r = Tail(Work)
    OBVIOUS
<1>12. /\ Tame(Now, t) /\ ~Has(r, "define") /\ r \in Seq(Tasks) /\ todo # <<>>
       /\ Holds(t, r, Disciplined)
    BY <1>2, <1>3, <1>5, <1>6, <1>9, <1>10, <1>11, ScopeCloses
<1>13. PICK empty : empty = <<>>
    OBVIOUS
<1>14. empty \in Seq(Tasks) /\ ~Has(empty, "define") /\ empty \o r = r
    BY <1>12, <1>13, NoTasks
<1>15. Walk(t, empty, r)
    BY <1>5, <1>8, <1>10, <1>11, <1>13 DEF ForEnd, Continue
<1> QED BY <1>12, <1>14, <1>15, WalkHolds

(* Locals are dropped, whose names are still visible.                      *)
LEMMA LaidDrops ==
    ASSUME NEW c \in Contexts, NEW w, Laid(c, w, FALSE), NoneWaits(c),
           NEW keep \in Nat, keep <= Len(c.locals),
           NEW d, d.locals = SubSeq(c.locals, 1, keep),
           d.visible = c.visible, d.scopeDepth = c.scopeDepth
    PROVE  Laid(d, w, FALSE) /\ NoneWaits(d)
<1>1. PICK old \in [1..Len(c.locals) -> 1..Len(c.visible)],
           level \in [1..Len(w) + 1 -> 0..c.scopeDepth] :
        /\ Shown(c, old, FALSE) /\ Levels(c, w, level)
        /\ \A k \in 1..Len(w) : w[k] \in ScopeTasks => Bounds(c, old, level[k], Base(w[k]), FALSE)
    BY DEF Laid
<1>2. PICK n \in Nat : n = Len(c.locals)
    BY ScopeTypes
<1>3. Len(d.locals) = keep /\ \A i \in 1..keep : d.locals[i] = c.locals[i] /\ i \in 1..n
    <2>1. PICK was \in Seq(LocalRecords) : was = c.locals
        BY ScopeTypes
    <2>2. Len(d.locals) = keep /\ \A i \in 1..keep : d.locals[i] = was[i] /\ i \in 1..Len(was)
        BY <2>1, InitialOf
    <2> QED BY <1>2, <2>1, <2>2
<1>4. PICK place : place = [i \in 1..keep |-> old[i]]
    OBVIOUS
<1>5. place \in [1..keep -> 1..Len(c.visible)] /\ \A i \in 1..keep : place[i] = old[i]
    BY <1>2, <1>3, <1>4
<1>6. \A i \in 1..keep : d.locals[i].depth # -1
    BY <1>2, <1>3 DEF NoneWaits
<1>7. \A i \in 1..keep : Deep(d, i) = Deep(c, i)
    BY <1>3 DEF Deep
<1>8. Shown(d, place, FALSE)
    <2>1. ASSUME NEW i \in 1..keep
          PROVE  /\ place[i] \in i..Len(c.visible) /\ c.visible[place[i]] = d.locals[i].name
                 /\ d.locals[i].depth <= c.scopeDepth
                 /\ \A j \in 1..i - 1 : d.locals[j].depth <= Deep(d, i)
        <3>1. i \in 1..n /\ d.locals[i] = c.locals[i] /\ place[i] = old[i] /\ Deep(d, i) = Deep(c, i)
            BY <1>3, <1>5, <1>7
        <3>2. /\ old[i] \in i..Len(c.visible) /\ c.visible[old[i]] = c.locals[i].name
              /\ c.locals[i].depth <= c.scopeDepth
              /\ \A j \in 1..i - 1 : c.locals[j].depth <= Deep(c, i)
            BY <1>1, <1>2, <3>1 DEF Shown
        <3>3. \A j \in 1..i - 1 : j \in 1..keep
            OBVIOUS
        <3>4. \A j \in 1..i - 1 : d.locals[j] = c.locals[j]
            BY <1>3, <3>3
        <3> QED BY <3>1, <3>2, <3>4
    <2> QED BY <1>3, <1>6, <2>1 DEF Shown
<1>9. Levels(d, w, level)
    BY <1>1 DEF Levels
<1>10. ASSUME NEW k \in 1..Len(w), w[k] \in ScopeTasks
       PROVE  Bounds(d, place, level[k], Base(w[k]), FALSE)
    <2>1. Bounds(c, old, level[k], Base(w[k]), FALSE)
        BY <1>1, <1>10
    <2>2. \A i \in 1..keep : Deep(d, i) < level[k] => place[i] <= Base(w[k])
        BY <1>2, <1>3, <1>5, <1>7, <2>1 DEF Bounds
    <2> QED BY <1>3, <2>1, <2>2 DEF Bounds
<1>11. Laid(d, w, FALSE)
    BY <1>1, <1>3, <1>5, <1>8, <1>9, <1>10 DEF Laid
<1> QED BY <1>3, <1>6, <1>11 DEF NoneWaits

LEMMA AdjustsLoosely ==
    ASSUME NEW w \in Seq(Tasks), NEW s, Good(s), Holds(s, w, FALSE), NEW depth \in Nat,
           NEW t, t = AdjustLocals(s, depth)
    PROVE  Holds(t, w, FALSE)
<1>1. PICK c : c = Current(s)
    OBVIOUS
<1>2. PICK d : d = Current(t)
    OBVIOUS
<1>3. Fine(c) /\ c \in Contexts
    BY <1>1, CurrentIsFine
<1>4. PICK keep : keep = Kept(c, depth)
    OBVIOUS
<1>5. /\ t.error = s.error /\ d.visible = c.visible /\ d.scopeDepth = c.scopeDepth
      /\ d.locals = SubSeq(c.locals, 1, keep)
    BY <1>1, <1>2, <1>4, Adjusts DEF Narrows
<1>6. keep \in Nat /\ keep <= Len(c.locals)
    <2>1. keep \in 1..Len(c.locals) /\ Len(c.locals) \in Nat
        BY <1>3, <1>4, KeptLocals, ScopeTypes
    <2> QED BY <2>1
<1>7. ASSUME Held(c, w, FALSE)
      PROVE  Held(d, w, FALSE)
    BY <1>3, <1>5, <1>6, <1>7, LaidDrops DEF Held
<1> QED BY <1>1, <1>2, <1>5, <1>7 DEF Holds

(* Nothing is dropped where all locals are of the scope or around it.      *)
LEMMA AdjustsNothing ==
    ASSUME NEW strict \in BOOLEAN, NEW w \in Seq(Tasks), NEW s, Good(s), Holds(s, w, strict),
           NEW depth \in Nat, depth = Current(s).scopeDepth, NEW t, t = AdjustLocals(s, depth)
    PROVE  Holds(t, w, strict)
<1>1. PICK c : c = Current(s)
    OBVIOUS
<1>2. PICK d : d = Current(t)
    OBVIOUS
<1>3. Fine(c) /\ c \in Contexts
    BY <1>1, CurrentIsFine
<1>4. PICK keep : keep = Kept(c, depth)
    OBVIOUS
<1>5. /\ t.error = s.error /\ d.visible = c.visible /\ d.scopeDepth = c.scopeDepth
      /\ d.locals = SubSeq(c.locals, 1, keep)
    BY <1>1, <1>2, <1>4, Adjusts DEF Narrows
<1>6. PICK n \in Nat : n = Len(c.locals) /\ n \in 1..n
    BY <1>3, LastIsThere
<1>7. ASSUME Held(c, w, strict)
      PROVE  Held(d, w, strict)
    <2>1. c.locals[n].depth <= depth
        BY <1>1, <1>6, <1>7 DEF Held, Laid, Shown
    <2>2. keep = n
        <3>1. keep \in 1..n /\ n <= keep
            BY <1>3, <1>4, <1>6, <2>1, KeptLocals
        <3> QED BY <3>1
    <2>3. Len(d.locals) = n /\ \A i \in 1..n : d.locals[i] = c.locals[i]
        <3>1. PICK was \in Seq(LocalRecords) : was = c.locals
            BY <1>3, ScopeTypes
        <3>2. n <= Len(was) /\ d.locals = SubSeq(was, 1, n)
            BY <1>5, <1>6, <2>2, <3>1
        <3> QED BY <3>1, <3>2, InitialOf
    <2>4. SameScope(c, d)
        BY <1>5, <1>6, <2>3 DEF SameScope, SameLocals
    <2>5. Laid(d, w, strict)
        BY <1>3, <1>7, <2>4, AlikeLays DEF Held
    <2> QED BY <1>6, <1>7, <2>3, <2>5 DEF Held, NoneWaits
<1> QED BY <1>1, <1>2, <1>5, <1>7 DEF Holds

LEMMA NotInLoopCalm ==
    ASSUME Good(Now), NEW s, s = NotInLoop(Now)
    PROVE  Calm(Now, s) /\ Good(s) /\ Current(s) = Current(Now)
<1>1. PICK condition : condition = (Current(Now).enclosing_loop = 0)
    OBVIOUS
<1>2. PICK what \in Errors : what = "must be used in a loop"
    BY DEF Errors
<1>3. s = FailIf(Now, condition, what)
    BY <1>1, <1>2 DEF NotInLoop
<1> QED BY <1>3, FailCalm

LEMMA BreakStatementScopes ==
    ASSUME Inv, Lexical, BreakStatement
    PROVE  Lexical'
<1>1. PICK r : r = IF Doing("stats") THEN Work ELSE Tail(Work)
    OBVIOUS
<1>2. AtStatement
    BY SimpleNodeBegins DEF BreakStatement
<1>3. PICK strict \in BOOLEAN : strict = Disciplined
    BY <1>1, <1>2, StatementHeld
<1>4. /\ todo # <<>> /\ Good(Now) /\ r \in Seq(Tasks) /\ ~Has(r, "define")
      /\ Holds(Now, r, strict)
    BY <1>1, <1>2, <1>3, StatementHeld
<1>5. PICK s : s = NotInLoop(Now)
    OBVIOUS
<1>6. Calm(Now, s) /\ Good(s) /\ Tame(Now, s)
    BY <1>4, <1>5, NotInLoopCalm DEF Calm
<1>7. Holds(s, r, strict)
    BY <1>4, <1>6, CalmHolds
<1>8. PICK depth \in Nat : depth = Current(s).scopeDepth
    BY <1>6, LoopFields
<1>9. PICK a : a = AdjustLocals(s, depth)
    OBVIOUS
<1>10. Tame(s, a) /\ Good(a) /\ Holds(a, r, strict)
    BY <1>4, <1>6, <1>7, <1>8, <1>9, AdjustsTame, AdjustsNothing
<1>11. Tame(Now, a)
    BY <1>4, <1>6, <1>10, TameOn
<1>12. PICK op \in {"JUMP", "JUMP_IF_FALSE"} : op = "JUMP"
    OBVIOUS
<1>13. PICK t : t = EmitJump(a, op)
    OBVIOUS
<1>14. PICK jump : jump = Position(t)
    OBVIOUS
<1>15. Calm(a, t) /\ Good(t) /\ jump \in Nat /\ AtJump(Current(t), jump)
    BY <1>10, <1>12, <1>13, <1>14, JumpCalm
<1>16. PICK c : c = Current(t)
    OBVIOUS
<1>17. PICK u : u = Update(t, [c EXCEPT !.last_break = jump])
    OBVIOUS
<1>18. Calm(t, u) /\ Good(u)
    <2>1. PICK continue : continue = c.last_continue
        OBVIOUS
    <2>2. PICK loops : loops = c.enclosing_loop
        OBVIOUS
    <2>3. Len(c.code) \in Nat
        BY <1>15, <1>16, CodeLength
    <2>4. jump <= Len(c.code)
        BY <1>14, <1>16, <2>3 DEF Position
    <2>5. Reset(t, u, continue, jump, loops)
        BY <1>15, <1>16, <1>17, <2>1, <2>2, <2>4, BreaksAt
    <2> QED BY <1>15, <2>5, ResetCalm
<1>19. Calm(a, u)
    BY <1>10, <1>15, <1>18, CalmOn
<1>20. Holds(u, r, strict) /\ Tame(Now, u)
    <2>1. Tame(Now, u)
        BY <1>4, <1>11, <1>19, TameOn DEF Calm
    <2> QED BY <1>4, <1>10, <1>19, <2>1, CalmHolds
<1>21. PICK empty : empty = <<>>
    OBVIOUS
<1>22. empty \in Seq(Tasks) /\ ~Has(empty, "define") /\ empty \o r = r
    BY <1>4, <1>21, NoTasks
<1>23. Walk(u, empty, r)
    BY <1>1, <1>5, <1>8, <1>9, <1>12, <1>13, <1>14, <1>16, <1>17, <1>21
       DEF BreakStatement, Statement
<1> QED BY <1>3, <1>4, <1>20, <1>22, <1>23, WalkHolds

LEMMA ContinueStatementScopes ==
    ASSUME Inv, Lexical, ContinueStatement
    PROVE  Lexical'
<1>1. PICK r : r = IF Doing("stats") THEN Work ELSE Tail(Work)
    OBVIOUS
<1>2. AtStatement
    BY SimpleNodeBegins DEF ContinueStatement
<1>3. Disciplined = FALSE
    <2>1. "continue" \in Syntax
        BY DEF ContinueStatement, SimpleNode, Node
    <2> QED BY <2>1 DEF Disciplined, Without
<1>4. /\ todo # <<>> /\ Good(Now) /\ r \in Seq(Tasks) /\ ~Has(r, "define")
      /\ Holds(Now, r, FALSE)
    BY <1>1, <1>2, <1>3, StatementHeld
<1>5. PICK s : s = NotInLoop(Now)
    OBVIOUS
<1>6. Calm(Now, s) /\ Good(s) /\ Tame(Now, s)
    BY <1>4, <1>5, NotInLoopCalm DEF Calm
<1>7. Holds(s, r, FALSE)
    BY <1>4, <1>6, CalmHolds
<1>8. PICK c : c = Current(s)
    OBVIOUS
<1>9. PICK depth \in Nat : depth = c.last_scope_depth
    BY <1>6, <1>8, LoopFields
<1>10. PICK start \in Nat : start = c.last_continue
    BY <1>6, <1>8, LoopFields
<1>11. PICK a : a = AdjustLocals(s, depth)
    OBVIOUS
<1>12. Tame(s, a) /\ Good(a) /\ Holds(a, r, FALSE)
    BY <1>4, <1>6, <1>7, <1>11, AdjustsTame, AdjustsLoosely
<1>13. PICK t : t = EmitLoop(a, start)
    OBVIOUS
<1>14. Calm(a, t) /\ Good(t)
    BY <1>12, <1>13, LoopCalm
<1>15. PICK none \in Nat : none = 0
    OBVIOUS
<1>16. PICK u : u = ContinueAt(t, none)
    OBVIOUS
<1>17. Calm(t, u) /\ Good(u)
    <2>1. none <= Len(Current(t).code)
        BY <1>14, <1>15, CodeLength
    <2> QED BY <1>14, <1>16, <2>1, ContinuesCalm
<1>18. Calm(a, u)
    BY <1>12, <1>14, <1>17, CalmOn
<1>19. Holds(u, r, FALSE) /\ Tame(Now, u)
    <2>1. Tame(Now, a)
        BY <1>4, <1>6, <1>12, TameOn
    <2>2. Tame(Now, u)
        BY <1>4, <1>18, <2>1, TameOn DEF Calm
    <2> QED BY <1>4, <1>12, <1>18, <2>2, CalmHolds
<1>20. PICK empty : empty = <<>>
    OBVIOUS
<1>21. empty \in Seq(Tasks) /\ ~Has(empty, "define") /\ empty \o r = r
    BY <1>4, <1>20, NoTasks
<1>22. Statement(s, empty) \/ Statement(u, empty)
    BY <1>5, <1>8, <1>9, <1>10, <1>11, <1>13, <1>15, <1>16, <1>20 DEF ContinueStatement
<1>23. PICK v : (v = s \/ v = u) /\ Statement(v, empty)
    BY <1>22
<1>24. Walk(v, empty, r)
    BY <1>1, <1>23 DEF Statement
<1>25. Holds(v, r, FALSE) /\ Tame(Now, v)
    BY <1>6, <1>7, <1>19, <1>23
<1> QED BY <1>3, <1>4, <1>21, <1>24, <1>25, WalkHolds

-----------------------------------------------------------------------------
(* Classes and functions.                                                  *)

LEMMA TailIsLeft ==
    ASSUME Inv, Ordered, todo # <<>>, NEW u, u = Tail(Work)
    PROVE  /\ u \in Seq(Tasks) /\ <<>> \o u = u
           /\ \A k \in 1..Len(u) : LandsAll(Current(Now), u[k])
           /\ \A kind : Has(u, kind) => Has(Work, kind)
           /\ \A kind : Has(Work, kind) /\ Work[1].k # kind => Has(u, kind)
<1>1. PICK n \in Nat \ {0} : n = Len(contexts)
    BY AtWork
<1>2. /\ n \in 1..n /\ Current(Now) = contexts[n] /\ Work = todo[n]
      /\ Work \in Seq(Tasks) /\ Work # <<>>
    BY <1>1, AtWork
<1>3. PICK m \in Nat : m = Len(Work)
    BY <1>2
<1>4. /\ u \in Seq(Tasks) /\ Len(u) = m - 1
      /\ \A k \in 1..m - 1 : k + 1 \in 1..m /\ u[k] = Work[k + 1]
      /\ \A k \in 1..m : k = 1 \/ \E i \in 1..m - 1 : k = i + 1
    BY <1>2, <1>3, TailOf
<1>5. \A k \in 1..m : LandsAll(Current(Now), Work[k])
    BY <1>1, <1>2, <1>3 DEF Ordered, Lands, LandsAll
<1>6. \A k \in 1..Len(u) : LandsAll(Current(Now), u[k])
    BY <1>4, <1>5
<1>7. \A kind : Has(u, kind) => Has(Work, kind)
    BY <1>3, <1>4 DEF Has
<1>8. ASSUME NEW kind, Has(Work, kind), Work[1].k # kind
      PROVE  Has(u, kind)
    <2>1. PICK k \in 1..m : Work[k].k = kind
        BY <1>3, <1>8 DEF Has
    <2>2. PICK i \in 1..m - 1 : k = i + 1
        BY <1>4, <1>8, <2>1
    <2> QED BY <1>4, <2>1, <2>2 DEF Has
<1> QED BY <1>4, <1>6, <1>7, <1>8

LEMMA EndOfMethodsOrders ==
    ASSUME Inv, Ordered, EndOfMethods
    PROVE  Ordered'
<1>1. PICK kind : kind = "methods"
    OBVIOUS
<1>2. Doing(kind) /\ Continue(Now, <<>>)
    BY <1>1 DEF EndOfMethods
<1>3. /\ todo # <<>> /\ Good(Now) /\ Tame(Now, Now) /\ Work[1].k = kind /\ Now.error = error
    BY <1>2, NowIsGood
<1>4. PICK u : u = Tail(Work)
    OBVIOUS
<1>5. PICK class : class = "endClass"
    OBVIOUS
<1>6. PICK super : super = "superInvoke"
    OBVIOUS
<1>7. /\ u \in Seq(Tasks) /\ <<>> \o u = u
      /\ \A k \in 1..Len(u) : LandsAll(Current(Now), u[k])
      /\ Has(u, super) => Has(Work, super)
      /\ Has(Work, class) /\ Work[1].k # class => Has(u, class)
    BY <1>3, <1>4, TailIsLeft
<1>8. Has(Work, "endClass") => Has(u, "endClass")
    BY <1>1, <1>3, <1>5, <1>7
<1>9. Has(u, "superInvoke") /\ Now.error = NoError => InSubclass
    BY <1>3, <1>6, <1>7 DEF Ordered, SuperWaits
<1>10. /\ Becomes(Now) /\ todo' = Append(Front(todo), u) /\ UNCHANGED <<currentClass, functions>>
    BY <1>2, <1>4, <1>7 DEF Continue, Walk
<1> QED BY <1>3, <1>7, <1>8, <1>9, <1>10, StepOrders

(* Nothing but an expression comes before a call of super.                 *)
LEMMA NoSuperBehind ==
    ASSUME NEW c, NEW w, Pending(c, w), w[1].k \notin ExprTasks
    PROVE  ~Has(w, "superInvoke")
<1> SUFFICES ASSUME NEW k \in 1..Len(w), w[k].k = "superInvoke"
             PROVE  FALSE
    BY DEF Has
<1>1. Len(w) \in Nat
    BY DEF Pending
<1>2. k # 1
    BY DEF ExprTasks
<1>3. 1 \in 1..k - 1
    BY <1>1, <1>2
<1>4. Before(w[1], w[k])
    BY <1>3 DEF Pending
<1> QED BY <1>4 DEF Before, AfterExprs

LEMMA NoClassBehind ==
    ASSUME NEW c, NEW w, Pending(c, w), w[1].k \notin {"methods", "endClass"}
    PROVE  ~Has(w, "endClass")
<1> SUFFICES ASSUME NEW k \in 1..Len(w), w[k].k = "endClass"
             PROVE  FALSE
    BY DEF Has
<1>1. Len(w) \in Nat
    BY DEF Pending
<1>2. k # 1
    OBVIOUS
<1>3. 1 \in 1..k - 1
    BY <1>1, <1>2
<1>4. Before(w[1], w[k])
    BY <1>3 DEF Pending
<1> QED BY <1>4 DEF Before

(* One more function begins inside of the current one.                     *)
LEMMA ScopedInside ==
    ASSUME NEW s, Good(s), NEW n \in Nat, n = Len(s.contexts), NEW t, Good(t),
           Len(t.contexts) = n + 1, \A j \in 1..n : t.contexts[j] = s.contexts[j],
           \A i \in 1..Len(t.contexts[n + 1].code) : t.contexts[n + 1].code[i].op \notin LookUps,
           t.error = NoError => s.error = NoError, Scoped(s)
    PROVE  Scoped(t)
<1> DEFINE cs == s.contexts
           ds == t.contexts
<1> SUFFICES ASSUME t.error = NoError
             PROVE  Upvalues(ds) /\ \A j \in 1..n + 1 : Globals(ds[j].code)
    BY DEF Scoped
<1>1. Upvalues(cs) /\ \A j \in 1..n : Globals(cs[j].code)
    BY DEF Scoped
<1>2. cs \in Seq(Contexts) /\ ds \in Seq(Contexts)
    BY DEF Good, States
<1>3. \A m \in 1..n : Persists(cs[m], ds[m]) /\ Lengthens(cs[m], ds[m])
    <2>1. TAKE m \in 1..n
    <2>2. cs[m] \in Contexts /\ ds[m] = cs[m]
        BY <1>2
    <2>3. Len(cs[m].upvalues) \in Nat
        BY <2>2, ContextTypes
    <2> QED BY <2>2, <2>3 DEF Persists, Lengthens
<1>4. ASSUME NEW j \in 1..n, NEW i \in 1..Len(ds[j].code), ds[j].code[i].op \in UpvalueOps
      PROVE  Resolved(ds, j, ds[j].code[i].arg, ds[j].code[i].name)
    <2>1. PICK x : x = cs[j].code[i]
        OBVIOUS
    <2>2. Resolved(cs, j, x.arg, x.name) /\ x = ds[j].code[i]
        BY <1>1, <1>4, <2>1 DEF Upvalues
    <2>3. /\ \A m \in 1..j - 1 : Persists(cs[m], ds[m])
          /\ \A m \in 1..j : Lengthens(cs[m], ds[m])
        <3>1. \A m \in 1..j - 1 : m \in 1..n
            OBVIOUS
        <3>2. \A m \in 1..j : m \in 1..n
            OBVIOUS
        <3> QED BY <1>3, <3>1, <3>2
    <2>4. j \in Nat /\ j <= Len(cs) /\ j <= Len(ds)
        OBVIOUS
    <2> HIDE DEF cs, ds
    <2> QED BY <1>2, <2>2, <2>3, <2>4, ResolvedOn
<1>5. \A j \in 1..n + 1 : j \in 1..n \/ j = n + 1
    OBVIOUS
<1>6. Upvalues(ds)
    BY <1>4, <1>5 DEF Upvalues, LookUps
<1>7. \A j \in 1..n + 1 : Globals(ds[j].code)
    BY <1>1, <1>5 DEF Globals, LookUps
<1> QED BY <1>6, <1>7

LEMMA DescendOrders ==
    ASSUME Inv, Ordered, todo # <<>>, NEW s, Tame(Now, s),
           Has(Work, "endClass") /\ HasSuper(Current(Now)) => HasSuper(Current(s)),
           NEW type \in InnerTypes, NEW m \in Nat, NEW parameters \in [1..m -> VariableNames],
           NEW t, t = BeginFunction(s, type, parameters), NEW e \in EndTasks,
           NEW tasks, tasks = <<Task("stats"), e>>, Descend(t, tasks)
    PROVE  Ordered'
<1>1. PICK n \in Nat \ {0} : n = Len(contexts)
    BY AtWork
<1>2. /\ Good(Now) /\ n \in 1..n /\ Len(todo) = n /\ todo \in Seq(Seq(Tasks))
      /\ Current(Now) = contexts[n] /\ Work = todo[n] /\ Now.contexts = contexts
      /\ Work \in Seq(Tasks)
    BY <1>1, AtWork
<1>3. Now.error = error
    BY DEF Now
<1>4. /\ contexts' = t.contexts /\ error' = t.error
      /\ todo' = Append(todo, tasks) /\ currentClass' = currentClass /\ functions' = functions
    BY DEF Descend, Becomes
<1>5. /\ Follows(Now, s) /\ Good(s) /\ Len(s.contexts) = n
      /\ \A j \in 1..n - 1 : Alike(contexts[j], s.contexts[j])
    BY <1>1, <1>2 DEF Tame, Follows
<1>6. Current(s) = s.contexts[n]
    BY <1>5, CurrentIsFine
<1>7. PICK d : d = Current(t)
    OBVIOUS
<1>8. type \in FunctionTypes
    BY DEF InnerTypes
<1>9. /\ Good(t) /\ Len(t.contexts) = n + 1 /\ d = t.contexts[n + 1]
      /\ \A j \in 1..n : t.contexts[j] = s.contexts[j]
      /\ t.error = NoError => s.error = NoError
      /\ d.last_break = 0 /\ \A i \in 1..Len(d.code) : d.code[i].op \notin LookUps
    <2>1. n = Len(s.contexts)
        BY <1>5
    <2>2. /\ Good(t) /\ Len(t.contexts) = n + 1 /\ d = t.contexts[n + 1]
          /\ t.error = NoError => s.error = NoError
          /\ d.last_break = 0
        BY <1>5, <1>7, <1>8, <2>1, FunctionBegins
    <2>3. ASSUME NEW j \in 1..n
          PROVE  t.contexts[j] = s.contexts[j]
        BY <1>5, <1>7, <1>8, <2>1, FunctionBegins, SMTT(30)
    <2>4. \A i \in 1..Len(d.code) : d.code[i].op \notin LookUps
        BY <1>5, <1>7, <1>8, <2>1, FunctionBegins
    <2> QED BY <2>2, <2>3, <2>4
<1>10. t.error = NoError => error = NoError
    BY <1>3, <1>9 DEF Tame
<1>11. /\ Len(todo') = n + 1 /\ todo'[n + 1] = tasks /\ Last(todo') = tasks
       /\ \A j \in 1..n : todo'[j] = todo[j]
    <2>1. tasks \in Seq(Tasks)
        BY WorkBegins
    <2>2. PICK old \in Seq(Seq(Tasks)) : old = todo
        BY <1>2
    <2>3. PICK new : new = Append(old, tasks)
        OBVIOUS
    <2>4. /\ new \in Seq(Seq(Tasks)) /\ Len(new) = n + 1 /\ new[n + 1] = tasks
          /\ \A j \in 1..n : new[j] = old[j]
        BY <1>2, <2>1, <2>2, <2>3, AppendProperties
    <2>5. new # <<>>
        BY <2>4, EmptySeq
    <2>6. Last(new) = new[n + 1]
        BY <2>4, <2>5, FrontAndLast
    <2> QED BY <1>4, <2>2, <2>3, <2>4, <2>6
<1>12. tasks[1].k = "stats" /\ tasks[2].k = "endFunction" /\ Len(tasks) = 2
    <2>1. Len(tasks) = 2 /\ tasks[1] = Task("stats") /\ tasks[2] = e
        BY WorkBegins
    <2> QED BY <2>1 DEF Task, EndTasks
<1>13. Scoped(Now)'
    <2>1. Scoped(s)
        BY DEF Tame, Ordered
    <2>2. Scoped(t)
        BY <1>5, <1>9, <2>1, ScopedInside
    <2> QED BY <1>4, <2>2 DEF Scoped, Now
<1>14. ScopedFunctions'
    BY <1>4, <1>10 DEF Ordered, ScopedFunctions
<1>15. \A j \in 1..n + 1 : Lands(t.contexts[j], todo'[j])
    <2>1. TAKE j \in 1..n + 1
    <2>2. CASE j \in 1..n - 1
        <3>1. Alike(contexts[j], t.contexts[j])
            BY <1>5, <1>9, <2>2
        <3>2. Lands(contexts[j], todo[j])
            BY <1>1, <2>2 DEF Ordered
        <3>3. t.contexts[j].code = contexts[j].code /\ t.contexts[j].last_break = contexts[j].last_break
            BY <3>1 DEF Alike, SameSettings
        <3>4. todo'[j] = todo[j]
            BY <1>11, <2>2
        <3> QED BY <3>2, <3>3, <3>4 DEF Lands, AtJump
    <2>3. CASE j = n
        <3>1. AtBreak(Current(Now)) /\ \A k \in 1..Len(Work) : LandsAll(Current(Now), Work[k])
            BY <1>1, <1>2 DEF Ordered, Lands, AtBreak, LandsAll
        <3>2. \A k \in 1..Len(Work) : LandsAll(Current(s), Work[k])
            BY <1>2, <3>1, LandsOn
        <3>3. AtBreak(Current(s))
            BY <3>1 DEF Tame
        <3>4. t.contexts[j] = Current(s) /\ todo'[j] = Work
            BY <1>2, <1>6, <1>9, <1>11, <2>3
        <3> QED BY <3>2, <3>3, <3>4 DEF Lands, AtBreak, LandsAll
    <2>4. CASE j = n + 1
        <3>1. t.contexts[j] = d /\ todo'[j] = tasks
            BY <1>9, <1>11, <2>4
        <3>2. AtJump(d, d.last_break)
            BY <1>9, NoJumpAtZero
        <3>3. \A k \in 1..Len(tasks) : tasks[k].k \in {"stats", "endFunction"}
            BY <1>12
        <3>4. \A k \in 1..Len(tasks) : Landings(tasks[k]) = {}
            BY <3>3 DEF Landings, LoopTasks, JumpsOf
        <3> QED BY <3>1, <3>2, <3>4 DEF Lands
    <2> QED BY <2>2, <2>3, <2>4
<1>16. OpenClasses'
    <2> SUFFICES ASSUME error' = NoError
                 PROVE  \E at \in [1..Len(currentClass) -> 1..n + 1] :
                            ClassesAt(t.contexts, todo', currentClass, at)
        BY <1>4, <1>9 DEF OpenClasses
    <2>1. error = NoError
        BY <1>4, <1>10
    <2>2. PICK at \in [1..Len(currentClass) -> 1..n] : ClassesAt(contexts, todo, currentClass, at)
        BY <1>1, <2>1 DEF Ordered, OpenClasses
    <2>3. ASSUME NEW k \in 1..Len(currentClass)
          PROVE  /\ Has(todo'[at[k]], "endClass")
                 /\ currentClass[k] => HasSuper(t.contexts[at[k]])
        <3>1. PICK j \in 1..n : j = at[k]
            BY <2>2
        <3>2. /\ Has(todo[j], "endClass")
              /\ currentClass[k] => HasSuper(contexts[j])
            BY <2>2, <3>1 DEF ClassesAt
        <3>3. todo'[j] = todo[j] /\ t.contexts[j] = s.contexts[j]
            BY <1>9, <1>11
        <3>4. CASE j = n
            BY <1>2, <1>6, <3>1, <3>2, <3>3, <3>4
        <3>5. CASE j # n
            <4>1. j \in 1..n - 1
                BY <3>5
            <4>2. SameLocals(contexts[j], s.contexts[j])
                BY <1>5, <4>1 DEF Alike
            <4>3. HasSuper(contexts[j]) => HasSuper(s.contexts[j])
                BY <4>2 DEF HasSuper, SameLocals
            <4> QED BY <3>1, <3>2, <3>3, <4>3
        <3> QED BY <3>4, <3>5
    <2>4. at \in [1..Len(currentClass) -> 1..n + 1]
        BY <2>2
    <2>5. ClassesAt(t.contexts, todo', currentClass, at)
        BY <1>9, <2>2, <2>3, <2>4 DEF ClassesAt
    <2> QED BY <2>4, <2>5
<1>17. SuperWaits'
    <2>1. ~Has(tasks, "superInvoke")
        BY <1>12 DEF Has
    <2> QED BY <1>11, <2>1 DEF SuperWaits, Work
<1> QED BY <1>4, <1>9, <1>13, <1>14, <1>15, <1>16, <1>17 DEF Ordered

LEMMA FunDeclarationOrders ==
    ASSUME Inv, Ordered, FunDeclaration
    PROVE  Ordered'
<1>1. Doing("stats")
    BY DEF FunDeclaration
<1>2. PICK x \in Identifiers, parameters \in Parameters :
        Descend(BeginFunction(MarkInitialized(DeclareVariable(Now, x)), "function", parameters),
                <<Task("stats"), Function("function", x)>>)
    BY DEF FunDeclaration
<1>3. todo # <<>> /\ Good(Now) /\ Work[1].k = "stats" /\ Pending(Current(Now), Work)
    <2>1. todo # <<>> /\ Head(Work).k = "stats"
        BY <1>1 DEF Doing
    <2> QED BY <2>1, AtWork DEF Compiling
<1>4. ~Has(Work, "endClass")
    BY <1>3, ClassIsFirst
<1>5. x \in Names /\ x \in VariableNames
    BY <1>2, FamilyBounds
<1>6. PICK r : r = DeclareVariable(Now, x)
    OBVIOUS
<1>7. PICK s : s = MarkInitialized(r)
    OBVIOUS
<1>8. Tame(Now, r) /\ Good(r) /\ CanDefine(Current(r))
    BY <1>3, <1>5, <1>6, DeclaresTame
<1>9. Tame(r, s)
    <2>1. GetsWider(r, s) /\ Plainly(r, s)
        BY <1>7, <1>8, MarksInitialized
    <2> QED BY <1>8, <2>1, WiderTame
<1>10. Tame(Now, s)
    BY <1>3, <1>8, <1>9, TameOn
<1>11. PICK type : type = "function"
    OBVIOUS
<1>12. type \in InnerTypes
    BY <1>11 DEF InnerTypes, FunctionTypes
<1>13. PICK m \in Nat : parameters \in [1..m -> VariableNames]
    BY <1>2, ParametersAre
<1>14. PICK e : e = Function("function", x)
    OBVIOUS
<1>15. e \in EndTasks
    BY <1>5, <1>14, EndTaskTypes
<1>16. PICK t : t = BeginFunction(s, type, parameters)
    OBVIOUS
<1>17. PICK tasks : tasks = <<Task("stats"), e>>
    OBVIOUS
<1>18. Descend(t, tasks)
    BY <1>2, <1>6, <1>7, <1>11, <1>14, <1>16, <1>17
<1> QED BY <1>3, <1>4, <1>10, <1>12, <1>13, <1>15, <1>16, <1>17, <1>18, DescendOrders

LEMMA MethodOrders ==
    ASSUME Inv, Ordered, Method
    PROVE  Ordered'
<1>1. PICK kind : kind = "methods"
    OBVIOUS
<1>2. Doing(kind)
    BY <1>1 DEF Method
<1>3. PICK type \in MethodTypes, parameters \in Parameters :
        Descend(BeginFunction(Now, type, parameters), <<Task("stats"), Function("method", "")>>)
    BY DEF Method, MethodTypes
<1>4. PICK s : s = Now
    OBVIOUS
<1>5. todo # <<>> /\ Tame(Now, s)
    BY <1>2, <1>4, NowIsGood
<1>6. type \in InnerTypes
    BY <1>3 DEF InnerTypes, MethodTypes, FunctionTypes
<1>7. PICK m \in Nat : parameters \in [1..m -> VariableNames]
    BY <1>3, ParametersAre
<1>8. PICK e : e = Function("method", "")
    OBVIOUS
<1>9. e \in EndTasks
    BY <1>8, EndTaskTypes
<1>10. PICK t : t = BeginFunction(s, type, parameters)
    OBVIOUS
<1>11. PICK tasks : tasks = <<Task("stats"), e>>
    OBVIOUS
<1>12. Descend(t, tasks)
    BY <1>3, <1>4, <1>8, <1>10, <1>11
<1> QED BY <1>4, <1>5, <1>6, <1>7, <1>9, <1>10, <1>11, <1>12, DescendOrders

(* A function ends: the globals it looks up are named, and the function    *)
(* around it goes on as it was.                                            *)
LEMMA ScopedOutside ==
    ASSUME NEW s, Good(s), NEW n \in Nat, n = Len(s.contexts), NEW o, Good(o),
           Len(o.contexts) = n - 1, \A j \in 1..n - 1 : o.contexts[j] = s.contexts[j],
           o.error = NoError => s.error = NoError, Scoped(s)
    PROVE  Scoped(o)
<1> DEFINE cs == s.contexts
           ds == o.contexts
<1> SUFFICES ASSUME o.error = NoError
             PROVE  Upvalues(ds) /\ \A j \in 1..n - 1 : Globals(ds[j].code)
    BY DEF Scoped
<1>1. Upvalues(cs) /\ \A j \in 1..n : Globals(cs[j].code)
    BY DEF Scoped
<1>2. cs \in Seq(Contexts) /\ ds \in Seq(Contexts)
    BY DEF Good, States
<1>3. \A m \in 1..n - 1 : Persists(cs[m], ds[m]) /\ Lengthens(cs[m], ds[m])
    <2>1. TAKE m \in 1..n - 1
    <2>2. cs[m] \in Contexts /\ ds[m] = cs[m]
        BY <1>2
    <2>3. Len(cs[m].upvalues) \in Nat
        BY <2>2, ContextTypes
    <2> QED BY <2>2, <2>3 DEF Persists, Lengthens
<1>4. ASSUME NEW j \in 1..n - 1, NEW i \in 1..Len(ds[j].code), ds[j].code[i].op \in UpvalueOps
      PROVE  Resolved(ds, j, ds[j].code[i].arg, ds[j].code[i].name)
    <2>1. PICK x : x = cs[j].code[i]
        OBVIOUS
    <2>2. Resolved(cs, j, x.arg, x.name) /\ x = ds[j].code[i]
        BY <1>1, <1>4, <2>1, SMTT(30) DEF Upvalues
    <2>3. /\ \A m \in 1..j - 1 : Persists(cs[m], ds[m])
          /\ \A m \in 1..j : Lengthens(cs[m], ds[m])
        <3>1. \A m \in 1..j - 1 : m \in 1..n - 1
            OBVIOUS
        <3>2. \A m \in 1..j : m \in 1..n - 1
            OBVIOUS
        <3> QED BY <1>3, <3>1, <3>2
    <2>4. j \in Nat /\ j <= Len(cs) /\ j <= Len(ds)
        OBVIOUS
    <2> HIDE DEF cs, ds
    <2> QED BY <1>2, <2>2, <2>3, <2>4, ResolvedOn
<1>5. Upvalues(ds)
    BY <1>4 DEF Upvalues
<1>6. \A j \in 1..n - 1 : Globals(ds[j].code)
    BY <1>1, SMTT(30) DEF Globals
<1> QED BY <1>5, <1>6

LEMMA ClosureIsTame ==
    ASSUME NEW o, Good(o), NEW at \in Nat, NEW h \in Tasks, h.k = "endFunction",
           h.kind = "function" => CanDefine(Current(o)) /\ h.name \in Names,
           NEW made, made = Emit(o, "CLOSURE", at)
    PROVE  /\ h.kind = "function" => Tame(o, DefineVariable(made, h.name))
           /\ h.kind = "method" =>
                /\ Tame(o, Emit(made, "METHOD", 0))
                /\ SameLocals(Current(o), Current(Emit(made, "METHOD", 0)))
<1>1. PICK closure : closure = "CLOSURE"
    OBVIOUS
<1>2. PICK method : method = "METHOD"
    OBVIOUS
<1>3. PICK none \in Int : none = 0
    OBVIOUS
<1>4. PICK i \in Int : i = at
    OBVIOUS
<1>5. /\ closure \in Operations /\ closure \notin LookUps /\ closure \in PlainOperations
      /\ method \in Operations /\ method \notin LookUps
    <2>1. closure \in PlainOperations
        BY <1>1 DEF PlainOperations, Operations, Jumping, Pushes
    <2> QED BY <1>1, <1>2, <2>1, PlainOps
<1>6. made = Emit(o, closure, i)
    BY <1>1, <1>4
<1>7. Tame(o, made) /\ Good(made) /\ SameLocals(Current(o), Current(made))
    BY <1>4, <1>5, <1>6, EmitsTame
<1>8. ASSUME h.kind = "function"
      PROVE  Tame(o, DefineVariable(made, h.name))
    <2>1. PICK x \in VariableNames : x = h.name
        BY <1>8 DEF VariableNames
    <2>2. GetsWider(o, made)
        BY <1>4, <1>5, <1>6, EmitsInPassing
    <2>3. CanDefine(Current(made))
        <3>1. Widens(Current(o), Current(made))
            BY <2>2 DEF GetsWider
        <3>2. Current(o) \in Contexts /\ Current(made) \in Contexts
            BY <1>7, CurrentIsFine
        <3> QED BY <1>8, <3>1, <3>2, CanStillDefine
    <2>4. PICK t : t = DefineVariable(made, x)
        OBVIOUS
    <2>5. Tame(made, t)
        BY <1>7, <2>1, <2>3, <2>4, DefinesTame
    <2>6. Tame(o, t)
        BY <1>7, <2>5, TameOn
    <2> QED BY <2>1, <2>4, <2>6
<1>9. PICK t : t = Emit(made, method, none)
    OBVIOUS
<1>10. Tame(made, t) /\ SameLocals(Current(made), Current(t))
    BY <1>3, <1>5, <1>7, <1>9, EmitsTame
<1>11. Tame(o, t)
    BY <1>7, <1>10, TameOn
<1>12. SameLocals(Current(o), Current(t))
    BY <1>7, <1>10 DEF SameLocals
<1>13. t = Emit(made, "METHOD", 0)
    BY <1>2, <1>3, <1>9
<1> QED BY <1>8, <1>11, <1>12, <1>13

LEMMA FinishedIsScoped ==
    ASSUME Inv, Ordered, todo # <<>>, NEW s, s = EmitReturn(Now), NEW f,
           f.code = Current(s).code, functions' = Append(functions, f),
           error' = NoError => s.error = NoError
    PROVE  ScopedFunctions'
<1>1. Good(Now)
    BY AtWork
<1>2. Tame(Now, s) /\ Good(s)
    <2>1. GetsWider(Now, s) /\ Plainly(Now, s)
        BY <1>1, Returns
    <2> QED BY <1>1, <2>1, WiderTame
<1>3. /\ Current(s) = s.contexts[Len(s.contexts)]
      /\ Len(s.contexts) \in 1..Len(s.contexts)
    BY <1>2, CurrentIsFine
<1>4. s.error = NoError => error = NoError /\ Globals(f.code)
    <2>1. Scoped(s)
        BY <1>2 DEF Tame, Ordered
    <2>2. s.error = NoError => Now.error = NoError
        BY <1>2 DEF Tame
    <2> QED BY <1>3, <2>1, <2>2 DEF Scoped, Now
<1>5. PICK F : F = Finished \cup {f}
    OBVIOUS
<1>6. functions \in Seq(F) /\ f \in F
    <2>1. functions \in Seq(Finished)
        BY DEF Inv, Settings
    <2> QED BY <1>5, <2>1
<1>7. PICK m \in Nat : m = Len(functions)
    BY <1>6
<1>8. /\ Len(functions') = m + 1 /\ functions'[m + 1] = f
      /\ \A j \in 1..m : functions'[j] = functions[j]
    BY <1>6, <1>7, AppendProperties
<1>9. error = NoError => \A j \in 1..m : Globals(functions[j].code)
    BY <1>7 DEF Ordered, ScopedFunctions
<1>10. ASSUME error' = NoError, NEW j \in 1..m + 1
       PROVE  Globals(functions'[j].code)
    <2>1. CASE j = m + 1
        BY <1>4, <1>8, <1>10, <2>1
    <2>2. CASE j # m + 1
        <3>1. j \in 1..m
            BY <2>2
        <3> QED BY <1>4, <1>8, <1>9, <1>10, <3>1
    <2> QED BY <2>1, <2>2
<1> QED BY <1>8, <1>10 DEF ScopedFunctions

(* The function around waits at a declaration or for its next method.      *)
LEMMA OuterWaits ==
    ASSUME Inv, todo # <<>>, NEW n \in Nat, n = Len(contexts), n > 1, NEW w, w = todo[n - 1]
    PROVE  /\ Pending(contexts[n - 1], w) /\ w[1].k \in {"stats", "methods"}
           /\ Last(Work).kind = "function" => w[1].k = "stats"
<1>1. n \in 1..n /\ n - 1 \in 1..n
    OBVIOUS
<1>2. Work = todo[n]
    BY AtWork
<1>3. /\ Pending(contexts[n - 1], w) /\ w \in Seq(Tasks) /\ w # <<>>
      /\ Pending(contexts[n], Work)
    BY <1>1, <1>2 DEF Inv, Compiling, Pending
<1>4. Head(w) = w[1]
    BY <1>3, TailOf
<1>5. PICK e \in Tasks : e = Last(Work) /\ e.k = "endFunction"
    <2>1. Last(Work) \in Tasks
        BY <1>3, FrontAndLast DEF Pending
    <2> QED BY <1>3, <2>1 DEF Pending
<1>6. e.kind \in {"script", "function", "method"}
    BY <1>5, TaskTypes
<1>7. /\ e.kind = "script" <=> n = 1
      /\ e.kind = "method" => Head(w).k = "methods"
      /\ e.kind = "function" => Head(w).k = "stats"
    BY <1>1, <1>2, <1>5 DEF Inv, Inside
<1> QED BY <1>3, <1>4, <1>5, <1>6, <1>7

LEMMA AscendOrders ==
    ASSUME Inv, Ordered, todo # <<>>, Work[1].k = "endFunction",
           NEW n \in Nat, n = Len(contexts), n > 1,
           NEW o, Good(o), o.contexts = Front(contexts), o.error = error,
           NEW t, Tame(o, t), Becomes(t),
           Has(todo[n - 1], "endClass") /\ HasSuper(Current(o)) => HasSuper(Current(t)),
           todo' = Front(todo), UNCHANGED currentClass, ScopedFunctions'
    PROVE  Ordered'
<1>1. /\ Good(Now) /\ n \in 1..n /\ Len(todo) = n /\ Work = todo[n] /\ Now.contexts = contexts
      /\ contexts \in Seq(Contexts) /\ contexts # <<>> /\ todo \in Seq(Seq(Tasks))
    BY AtWork
<1>2. Now.error = error
    BY DEF Now
<1>3. contexts' = t.contexts /\ error' = t.error
    BY DEF Becomes
<1>4. PICK m \in Nat \ {0} : m = n - 1
    OBVIOUS
<1>5. /\ Len(o.contexts) = m /\ \A j \in 1..m : o.contexts[j] = contexts[j] /\ j \in 1..n
    BY <1>1, <1>4, FrontAndLast, ZenonT(30)
<1>6. Len(todo') = m /\ Last(todo') = todo[m] /\ \A j \in 1..m : todo'[j] = todo[j]
    <2>1. PICK old \in Seq(Seq(Tasks)) : old = todo
        BY <1>1
    <2>2. old # <<>>
        BY <2>1
    <2>3. PICK new : new = Front(old)
        OBVIOUS
    <2>4. /\ new \in Seq(Seq(Tasks)) /\ Len(new) = Len(old) - 1
          /\ \A j \in 1..Len(old) - 1 : new[j] = old[j]
        <3>1. /\ Front(old) \in Seq(Seq(Tasks)) /\ Len(Front(old)) = Len(old) - 1
              /\ \A j \in 1..Len(old) - 1 : Front(old)[j] = old[j]
            BY <2>2, FrontAndLast
        <3> QED BY <2>3, <3>1
    <2>5. Len(old) - 1 = m
        BY <1>1, <1>4, <2>1
    <2>6. new # <<>>
        BY <2>4, <2>5, EmptySeq
    <2>7. Last(new) = new[m]
        BY <2>4, <2>5, <2>6, FrontAndLast
    <2>8. \A j \in 1..m : new[j] = old[j]
        BY <2>4, <2>5
    <2>9. Last(new) = old[m] /\ Len(new) = m
        <3>1. Len(new) = m
            BY <2>4, <2>5
        <3>2. m \in 1..m
            BY <1>4
        <3> QED BY <2>7, <2>8, <3>1, <3>2
    <2>10. todo' = new
        BY <2>1, <2>3
    <2> QED BY <2>1, <2>8, <2>9, <2>10
<1>7. /\ Good(t) /\ Len(t.contexts) = m
      /\ \A j \in 1..m - 1 : Alike(o.contexts[j], t.contexts[j])
    BY <1>5 DEF Tame, Follows
<1>8. Current(o) = contexts[m] /\ Current(t) = t.contexts[m]
    BY <1>4, <1>5, <1>7, CurrentIsFine
<1>9. t.error = NoError => error = NoError
    BY DEF Tame
<1>10. Scoped(Now)'
    <2>1. Scoped(Now)
        BY DEF Ordered
    <2>2. Len(Now.contexts) = n /\ Len(o.contexts) = n - 1
        BY <1>1, <1>4, <1>5
    <2>3. \A j \in 1..n - 1 : o.contexts[j] = Now.contexts[j]
        BY <1>1, <1>4, <1>5
    <2>4. Scoped(o)
        BY <1>1, <1>2, <2>1, <2>2, <2>3, ScopedOutside
    <2>5. Scoped(t)
        BY <2>4 DEF Tame
    <2> QED BY <1>3, <2>5 DEF Scoped, Now
<1>11. \A j \in 1..m : Lands(t.contexts[j], todo'[j])
    <2>1. TAKE j \in 1..m
    <2>2. Lands(contexts[j], todo[j]) /\ todo'[j] = todo[j]
        BY <1>5, <1>6 DEF Ordered
    <2>3. CASE j = m
        <3>1. AtBreak(Current(o)) /\ \A k \in 1..Len(todo[j]) : LandsAll(Current(o), todo[j][k])
            BY <1>8, <2>2, <2>3 DEF Lands, AtBreak, LandsAll
        <3>2. \A k \in 1..Len(todo[j]) : LandsAll(Current(t), todo[j][k])
            BY <3>1, LandsOn
        <3>3. AtBreak(Current(t))
            BY <3>1 DEF Tame
        <3> QED BY <1>8, <2>2, <2>3, <3>2, <3>3 DEF Lands, AtBreak, LandsAll
    <2>4. CASE j # m
        <3>1. j \in 1..m - 1
            BY <1>4, <2>4
        <3>2. Alike(contexts[j], t.contexts[j])
            BY <1>5, <1>7, <3>1
        <3>3. t.contexts[j].code = contexts[j].code /\ t.contexts[j].last_break = contexts[j].last_break
            BY <3>2 DEF Alike, SameSettings
        <3> QED BY <2>2, <3>3 DEF Lands, AtJump
    <2> QED BY <2>3, <2>4
<1>12. OpenClasses'
    <2> SUFFICES ASSUME error' = NoError
                 PROVE  \E at \in [1..Len(currentClass) -> 1..m] :
                            ClassesAt(t.contexts, todo', currentClass, at)
        BY <1>3, <1>7 DEF OpenClasses
    <2>1. error = NoError
        BY <1>3, <1>9
    <2>2. PICK at \in [1..Len(currentClass) -> 1..n] : ClassesAt(contexts, todo, currentClass, at)
        BY <2>1 DEF Ordered, OpenClasses
    <2>3. ~Has(Work, "endClass")
        BY ClassIsFirst
    <2>4. ASSUME NEW k \in 1..Len(currentClass)
          PROVE  /\ at[k] \in 1..m
                 /\ Has(todo'[at[k]], "endClass")
                 /\ currentClass[k] => HasSuper(t.contexts[at[k]])
        <3>1. PICK j \in 1..n : j = at[k]
            BY <2>2
        <3>2. /\ Has(todo[j], "endClass")
              /\ currentClass[k] => HasSuper(contexts[j])
            BY <2>2, <3>1 DEF ClassesAt
        <3>3. j \in 1..m
            <4>1. j # n
                BY <1>1, <2>3, <3>2
            <4> QED BY <1>4, <4>1
        <3>4. todo'[j] = todo[j]
            BY <1>6, <3>3
        <3>5. CASE j = m
            <4>1. Has(todo[n - 1], "endClass")
                BY <1>4, <3>2, <3>5
            <4> QED BY <1>8, <3>1, <3>2, <3>3, <3>4, <3>5, <4>1
        <3>6. CASE j # m
            <4>1. j \in 1..m - 1
                BY <1>4, <3>3, <3>6
            <4>2. SameLocals(contexts[j], t.contexts[j])
                BY <1>5, <1>7, <4>1 DEF Alike
            <4>3. HasSuper(contexts[j]) => HasSuper(t.contexts[j])
                BY <4>2 DEF HasSuper, SameLocals
            <4> QED BY <3>1, <3>2, <3>3, <3>4, <4>3
        <3> QED BY <3>5, <3>6
    <2>5. at \in [1..Len(currentClass) -> 1..m]
        BY <2>2, <2>4
    <2>6. ClassesAt(t.contexts, todo', currentClass, at)
        BY <1>7, <2>2, <2>4, <2>5 DEF ClassesAt
    <2> QED BY <2>5, <2>6
<1>13. SuperWaits'
    <2>1. PICK w : w = todo[n - 1]
        OBVIOUS
    <2>2. Pending(contexts[n - 1], w) /\ w[1].k \in {"stats", "methods"}
        BY <2>1, OuterWaits
    <2>3. w[1].k \notin ExprTasks
        BY <2>2 DEF ExprTasks
    <2>4. ~Has(w, "superInvoke")
        BY <2>2, <2>3, NoSuperBehind
    <2>5. Last(todo') = w
        BY <1>4, <1>6, <2>1
    <2> QED BY <2>4, <2>5 DEF SuperWaits, Work
<1> QED BY <1>3, <1>7, <1>10, <1>11, <1>12, <1>13 DEF Ordered

LEMMA EndFunctionOrders ==
    ASSUME Inv, Ordered, EndFunction
    PROVE  Ordered'
<1>1. PICK h : h = Work[1]
    OBVIOUS
<1>2. Doing("endFunction")
    BY DEF EndFunction
<1>3. /\ todo # <<>> /\ h \in Tasks /\ h.k = "endFunction" /\ Head(Work) = h /\ Last(Work) = h
    BY <1>1, <1>2, WorkEnds
<1>4. PICK n \in Nat \ {0} : n = Len(contexts)
    BY <1>3, AtWork
<1>5. /\ Good(Now) /\ n \in 1..n /\ Len(todo) = n /\ Work = todo[n]
      /\ contexts \in Seq(Contexts) /\ contexts # <<>> /\ todo \in Seq(Seq(Tasks))
      /\ Now.contexts = contexts
    BY <1>3, <1>4, AtWork
<1>6. PICK s : s = EmitReturn(Now)
    OBVIOUS
<1>7. PICK c : c = Current(s)
    OBVIOUS
<1>8. PICK o : o = [s EXCEPT !.contexts = Front(s.contexts)]
    OBVIOUS
<1>9. PICK made : made = Emit(o, "CLOSURE", Len(functions) + 1)
    OBVIOUS
<1>10. PICK t : t = CASE h.kind = "script" -> o
                      [] h.kind = "function" -> DefineVariable(made, h.name)
                      [] h.kind = "method" -> Emit(made, "METHOD", 0)
    OBVIOUS
<1>11. PICK f : f = [type |-> c.type, arity |-> c.arity, upvalues |-> c.upvalues, code |-> c.code]
    OBVIOUS
<1>12. /\ functions' = Append(functions, f) /\ f.code = Current(s).code
       /\ Becomes(t) /\ todo' = Front(todo) /\ UNCHANGED currentClass
    BY <1>3, <1>6, <1>7, <1>8, <1>9, <1>10, <1>11 DEF EndFunction
<1>13. /\ Good(s) /\ s.error = error
       /\ Front(s.contexts) = Front(contexts)
    BY <1>5, <1>6, Returns DEF GetsWider, Follows, Now
<1>14. s \in States /\ s.error \in Errors
    BY <1>13, CurrentIsFine DEF Good
<1>15. PICK outer \in Seq(Contexts) : outer = Front(contexts)
    BY <1>5, FrontAndLast
<1>16. o \in States /\ o.contexts = outer /\ o.error = s.error /\ o.error = error
    BY <1>8, <1>13, <1>14, <1>15 DEF States
<1>17. /\ h.kind \in {"script", "function", "method"}
       /\ h.kind = "script" <=> n = 1
       /\ h.kind = "function" => CanDefine(contexts[n - 1]) /\ h.name \in Names
    <2>1. n \in 1..Len(contexts)
        BY <1>4, <1>5
    <2>2. /\ h.kind = "script" <=> n = 1
          /\ h.kind = "function" => CanDefine(contexts[n - 1]) /\ h.name \in Names
        BY <1>3, <1>5, <2>1 DEF Inv, Inside
    <2> QED BY <1>3, <2>2, TaskTypes
<1>18. Len(outer) = n - 1 /\ \A j \in 1..n - 1 : outer[j] = contexts[j]
    <2>1. /\ Len(Front(contexts)) = Len(contexts) - 1
          /\ \A j \in 1..Len(contexts) - 1 : Front(contexts)[j] = contexts[j]
        BY <1>5, FrontAndLast
    <2> QED BY <1>4, <1>15, <2>1
<1>19. Work[1].k = "endFunction" /\ Work[1].k \notin {"methods", "endClass"}
    BY <1>1, <1>3
<1>20. CASE n = 1
    <2>1. t = o
        BY <1>10, <1>17, <1>20
    <2>2. contexts' = outer /\ error' = error /\ Len(outer) = 0
        BY <1>4, <1>12, <1>16, <1>18, <1>20, <2>1 DEF Becomes
    <2>3. todo' = <<>>
        <3>1. PICK old \in Seq(Seq(Tasks)) : old = todo
            BY <1>5
        <3>2. old # <<>>
            BY <1>3, <3>1
        <3>3. Front(old) \in Seq(Seq(Tasks)) /\ Len(Front(old)) = Len(old) - 1
            BY <3>2, FrontAndLast
        <3>4. Len(old) - 1 = 0
            BY <1>5, <1>20, <3>1
        <3>5. Front(old) = <<>>
            BY <3>3, <3>4, EmptySeq
        <3> QED BY <1>12, <3>1, <3>5
    <2>4. \A j \in 1..Len(contexts') : FALSE
        BY <2>2
    <2>5. Scoped(Now)'
        BY <2>4 DEF Scoped, Now, Upvalues
    <2>6. ScopedFunctions'
        <3>1. error' = NoError => s.error = NoError
            BY <1>13, <2>2
        <3> QED BY <1>3, <1>6, <1>12, <3>1, FinishedIsScoped
    <2>7. OpenClasses'
        <3> SUFFICES ASSUME error' = NoError
                     PROVE  \E at \in [1..Len(currentClass) -> 1..0] :
                                ClassesAt(contexts', todo', currentClass, at)
            BY <1>12, <2>2 DEF OpenClasses
        <3>1. PICK at \in [1..Len(currentClass) -> 1..n] : ClassesAt(contexts, todo, currentClass, at)
            BY <1>4, <2>2 DEF Ordered, OpenClasses
        <3>2. ~Has(Work, "endClass")
            BY <1>3, <1>19, ClassIsFirst
        <3>3. ASSUME NEW k \in 1..Len(currentClass) PROVE FALSE
            <4>1. at[k] = n
                BY <1>20, <3>1
            <4>2. Has(todo[at[k]], "endClass")
                BY <3>1 DEF ClassesAt
            <4> QED BY <1>5, <3>2, <4>1, <4>2
        <3>4. at \in [1..Len(currentClass) -> 1..0]
            BY <3>1, <3>3
        <3>5. ClassesAt(contexts', todo', currentClass, at)
            BY <2>2, <3>3, <3>4 DEF ClassesAt
        <3> QED BY <3>4, <3>5
    <2>8. SuperWaits'
        BY <2>3 DEF SuperWaits
    <2> QED BY <2>4, <2>5, <2>6, <2>7, <2>8 DEF Ordered
<1>21. CASE n # 1
    <2>1. n > 1 /\ n - 1 \in 1..n - 1 /\ n - 1 \in Nat \ {0}
        BY <1>5, <1>21
    <2>2. Good(o)
        <3>1. outer # <<>>
            BY <1>15, <2>1, <1>18, EmptySeq
        <3>2. \A j \in 1..n : Fine(contexts[j])
            BY <1>4, <1>5 DEF Good
        <3>3. \A j \in 1..n - 1 : j \in 1..n
            BY <1>5
        <3>4. \A j \in 1..Len(outer) : Fine(outer[j])
            BY <1>18, <3>2, <3>3
        <3> QED BY <1>16, <3>1, <3>4 DEF Good
    <2>3. Current(o) = contexts[n - 1]
        <3>1. Current(o) = o.contexts[Len(o.contexts)]
            BY <2>2, CurrentIsFine
        <3> QED BY <1>16, <1>18, <2>1, <3>1
    <2>4. PICK at \in Nat : at = Len(functions) + 1
        <3>1. functions \in Seq(Finished)
            BY DEF Inv, Settings
        <3>2. Len(functions) \in Nat
            BY <3>1, LenProperties
        <3> QED BY <3>2
    <2>5. made = Emit(o, "CLOSURE", at)
        BY <1>9, <2>4
    <2>6. h.kind = "function" => CanDefine(Current(o)) /\ h.name \in Names
        BY <1>17, <2>3
    <2>7. /\ h.kind = "function" => Tame(o, DefineVariable(made, h.name))
          /\ h.kind = "method" =>
                /\ Tame(o, Emit(made, "METHOD", 0))
                /\ SameLocals(Current(o), Current(Emit(made, "METHOD", 0)))
        BY <1>3, <2>2, <2>4, <2>5, <2>6, ClosureIsTame
    <2>8. ASSUME h.kind = "function"
          PROVE  Tame(o, t) /\ (Has(todo[n - 1], "endClass") /\ HasSuper(Current(o)) => HasSuper(Current(t)))
        <3>1. t = DefineVariable(made, h.name)
            BY <1>10, <2>8
        <3>2. Tame(o, t)
            BY <2>7, <2>8, <3>1
        <3>3. PICK w : w = todo[n - 1]
            OBVIOUS
        <3>4. Pending(contexts[n - 1], w) /\ w[1].k = "stats"
            BY <1>3, <1>4, <2>1, <2>8, <3>3, OuterWaits
        <3>5. ~Has(todo[n - 1], "endClass")
            BY <3>3, <3>4, NoClassBehind
        <3> QED BY <3>2, <3>5
    <2>9. ASSUME h.kind = "method"
          PROVE  Tame(o, t) /\ (Has(todo[n - 1], "endClass") /\ HasSuper(Current(o)) => HasSuper(Current(t)))
        <3>1. t = Emit(made, "METHOD", 0)
            BY <1>10, <2>9
        <3>2. Tame(o, t) /\ SameLocals(Current(o), Current(t))
            BY <2>7, <2>9, <3>1
        <3>3. HasSuper(Current(o)) => HasSuper(Current(t))
            BY <3>2 DEF HasSuper, SameLocals
        <3> QED BY <3>2, <3>3
    <2>10. Tame(o, t) /\ (Has(todo[n - 1], "endClass") /\ HasSuper(Current(o)) => HasSuper(Current(t)))
        BY <1>17, <1>21, <2>8, <2>9
    <2>11. ScopedFunctions'
        <3>1. t.error = NoError => o.error = NoError
            BY <2>10 DEF Tame
        <3>2. error' = NoError => s.error = NoError
            BY <1>12, <1>16, <3>1 DEF Becomes
        <3> QED BY <1>3, <1>6, <1>12, <3>2, FinishedIsScoped
    <2>12. o.contexts = Front(contexts)
        BY <1>15, <1>16
    <2> QED BY <1>3, <1>4, <1>12, <1>16, <1>19, <2>1, <2>2, <2>10, <2>11, <2>12, AscendOrders
<1> QED BY <1>20, <1>21

LEMMA SuperStays ==
    ASSUME NEW c, NEW d, SameLocals(c, d), HasSuper(c)
    PROVE  HasSuper(d)
BY DEF SameLocals, HasSuper

LEMMA AddsSuper ==
    ASSUME NEW s, Good(s), NEW name \in VariableNames, name = "super", NEW t, t = AddLocal(s, name)
    PROVE  /\ Tame(s, t) /\ Good(t) /\ CanDefine(Current(t))
           /\ t.error = NoError => HasSuper(Current(t))
<1>1. GetsWider(s, t) /\ Len(Current(t).locals) > 1 /\ Plainly(s, t)
    BY AddsLocal
<1>2. Tame(s, t) /\ Good(t) /\ CanDefine(Current(t))
    BY <1>1, WiderTame DEF CanDefine
<1>3. PICK c : c = Current(s)
    OBVIOUS
<1>4. PICK condition : condition = TRUE
    OBVIOUS
<1>5. PICK what \in Errors : what = "Too many local variables"
    BY DEF Errors
<1>6. c \in Contexts /\ Fine(c)
    BY <1>3, CurrentIsFine
<1>7. PICK l : l = [name |-> name, depth |-> -1, captured |-> FALSE]
    OBVIOUS
<1>8. PICK d : d = [c EXCEPT !.locals = Append(c.locals, l), !.visible = Append(c.visible, name)]
    OBVIOUS
<1>9. CASE Len(c.locals) = UINT8_COUNT
    <2>1. t = FailIf(s, condition, what)
        BY <1>3, <1>4, <1>5, <1>9 DEF AddLocal
    <2>2. t.error = IF s.error = NoError THEN what ELSE s.error
        BY <1>4, <2>1 DEF FailIf, Good, States
    <2>3. t.error # NoError
        BY <1>5, <2>2 DEF NoError
    <2> QED BY <1>2, <2>3
<1>10. CASE Len(c.locals) # UINT8_COUNT
    <2>1. t = Update(s, d)
        BY <1>3, <1>7, <1>8, <1>10 DEF AddLocal
    <2>2. Current(t) = d
        <3>1. PICK old \in Seq(Contexts) : old = s.contexts /\ old # <<>>
            BY DEF Good, States
        <3>2. l \in LocalRecords
            BY <1>7 DEF LocalRecords, VariableNames
        <3>3. d \in Contexts
            <4>1. /\ c.locals \in Seq(LocalRecords) /\ c.visible \in Seq(VariableNames)
                BY <1>6, ContextTypes
            <4>2. Append(c.locals, l) \in Seq(LocalRecords) /\ Append(c.visible, name) \in Seq(VariableNames)
                BY <3>2, <4>1
            <4> QED BY <1>6, <1>8, <4>2 DEF Contexts
        <3>4. t.contexts = Append(Front(old), d)
            BY <2>1, <3>1 DEF Update, Good, States
        <3>5. WithLast(t.contexts, old, d, Contexts)
            BY <3>1, <3>3, <3>4, LastReplaced
        <3> QED BY <3>5 DEF WithLast, Current
    <2>3. c.locals \in Seq(LocalRecords) /\ l \in LocalRecords /\ l.name = "super"
        BY <1>6, <1>7, ContextTypes DEF LocalRecords, VariableNames
    <2>4. PICK k \in Nat : k = Len(c.locals)
        BY <2>3
    <2>5. PICK more : more = Append(c.locals, l)
        OBVIOUS
    <2>6. Len(more) = k + 1 /\ more[k + 1] = l
        BY <2>3, <2>4, <2>5, AppendProperties
    <2>7. d.locals = more
        BY <1>6, <1>8, <2>5 DEF Contexts
    <2>8. k + 1 \in 1..Len(d.locals) /\ d.locals[k + 1].name = "super"
        BY <2>3, <2>4, <2>6, <2>7
    <2> QED BY <1>2, <2>2, <2>8 DEF HasSuper
<1> QED BY <1>9, <1>10

LEMMA MarksSuper ==
    ASSUME NEW s, Good(s), CanDefine(Current(s)), NEW t, t = MarkInitialized(s)
    PROVE  /\ Tame(s, t) /\ Good(t)
           /\ HasSuper(Current(s)) => HasSuper(Current(t))
<1>1. Tame(s, t) /\ Good(t)
    <2>1. GetsWider(s, t) /\ Plainly(s, t)
        BY MarksInitialized
    <2> QED BY <2>1, WiderTame
<1>2. PICK c : c = Current(s)
    OBVIOUS
<1>3. c \in Contexts /\ Fine(c)
    BY <1>2, CurrentIsFine
<1>4. CASE c.scopeDepth = 0
    <2>1. t = s
        BY <1>2, <1>4 DEF MarkInitialized
    <2> QED BY <1>1, <2>1
<1>5. CASE c.scopeDepth # 0
    <2>1. PICK old \in Seq(LocalRecords) : old = c.locals
        BY <1>3, ContextTypes
    <2>2. PICK n \in Nat : n = Len(old) /\ n \in 1..Len(old)
        <3>1. Len(old) \in Nat /\ Len(old) > 1
            BY <1>2, <1>5, <2>1, LenProperties DEF CanDefine
        <3> QED BY <3>1
    <2>3. PICK depth \in Nat : depth = c.scopeDepth
        BY <1>3, ContextTypes
    <2>4. PICK new : new = [old[n] EXCEPT !.depth = depth]
        OBVIOUS
    <2>5. new \in LocalRecords /\ new.name = old[n].name
        <3>1. old[n] \in LocalRecords
            BY <2>2, ElementOfSeq
        <3> QED BY <2>4, <3>1 DEF LocalRecords
    <2>6. PICK locals : locals = [old EXCEPT ![n] = new]
        OBVIOUS
    <2>7. /\ locals \in Seq(LocalRecords) /\ Len(locals) = n
          /\ \A i \in 1..n : locals[i] = IF i = n THEN new ELSE old[i]
        BY <2>2, <2>5, <2>6, ExceptSeq
    <2>10. PICK d : d = [c EXCEPT !.locals = locals]
        OBVIOUS
    <2>11. d \in Contexts /\ d.locals = locals
        BY <1>3, <2>7, <2>10 DEF Contexts
    <2>12. t = Update(s, d)
        <3>1. [c EXCEPT !.locals[Len(c.locals)].depth = c.scopeDepth] = d
            BY <1>3, <2>1, <2>2, <2>3, <2>4, <2>6, <2>10 DEF Contexts
        <3> QED BY <1>2, <1>5, <3>1 DEF MarkInitialized
    <2>8. Current(t) = d
        <3>1. PICK all \in Seq(Contexts) : all = s.contexts /\ all # <<>>
            BY DEF Good, States
        <3>2. t.contexts = Append(Front(all), d)
            BY <2>12, <3>1 DEF Update, Good, States
        <3>3. WithLast(t.contexts, all, d, Contexts)
            BY <2>11, <3>1, <3>2, LastReplaced
        <3> QED BY <3>3 DEF WithLast, Current
    <2>9. HasSuper(c) => HasSuper(d)
        <3>1. \A i \in 1..n : locals[i].name = old[i].name
            BY <2>5, <2>7
        <3> QED BY <2>1, <2>2, <2>7, <2>11, <3>1 DEF HasSuper
    <2> QED BY <1>1, <1>2, <2>8, <2>9
<1> QED BY <1>4, <1>5

LEMMA ScopeBeginsTamely ==
    ASSUME NEW s, Good(s), NEW t, t = BeginScope(s)
    PROVE  Tame(s, t) /\ Good(t)
BY ScopeBegins, FollowsTame

(* A class begins: its methods wait in front of what else its function has *)
(* to do.                                                                  *)
LEMMA ClassTasks ==
    ASSUME Inv, Ordered, todo # <<>>, NEW v, Tame(Now, v), NEW base \in Nat,
           NEW inherits \in BOOLEAN,
           NEW u, u = <<Task("methods"), Class(base, inherits)>> \o Work
    PROVE  /\ u \in Seq(Tasks) /\ Has(u, "endClass")
           /\ Has(u, "superInvoke") => Has(Work, "superInvoke")
           /\ \A k \in 1..Len(u) : LandsAll(Current(v), u[k])
<1>1. PICK n \in Nat \ {0} : n = Len(contexts)
    BY AtWork
<1>2. /\ Good(Now) /\ n \in 1..n /\ Current(Now) = contexts[n] /\ Work = todo[n]
      /\ Work \in Seq(Tasks)
    BY <1>1, AtWork
<1>3. PICK a : a = Task("methods")
    OBVIOUS
<1>4. PICK b : b = Class(base, inherits)
    OBVIOUS
<1>5. a \in Tasks /\ b \in Tasks /\ a.k = "methods" /\ b.k = "endClass"
    BY <1>3, <1>4 DEF Task, Class, Tasks
<1>6. PICK tasks : tasks = <<a, b>>
    OBVIOUS
<1>7. tasks \in Seq(Tasks) /\ Len(tasks) = 2 /\ tasks[1] = a /\ tasks[2] = b
    BY <1>5, <1>6
<1>8. PICK l : l = Len(Work)
    OBVIOUS
<1>9. PICK m : m = Len(tasks)
    OBVIOUS
<1>10. u = tasks \o Work
    BY <1>3, <1>4, <1>6
<1>11. /\ m \in Nat /\ l \in Nat /\ u \in Seq(Tasks) /\ Len(u) = m + l
       /\ \A i \in 1..m : i \in 1..Len(u) /\ u[i] = tasks[i]
       /\ \A i \in 1..l : m + i \in 1..Len(u) /\ u[m + i] = Work[i]
    BY <1>2, <1>7, <1>8, <1>9, <1>10, Joined
<1>12. m = 2
    BY <1>7, <1>9
<1>13. \A k \in 1..Len(u) : k \in 1..m \/ \E i \in 1..l : k = m + i
    BY <1>11, InEither
<1>14. Has(u, "endClass")
    <2>1. 2 \in 1..m
        BY <1>12
    <2>2. 2 \in 1..Len(u) /\ u[2] = b
        BY <1>7, <1>11, <2>1
    <2> QED BY <1>5, <2>2 DEF Has
<1>15. \A k \in 1..m : u[k] = a \/ u[k] = b
    BY <1>7, <1>11, <1>12
<1>16. ASSUME Has(u, "superInvoke")
       PROVE  Has(Work, "superInvoke")
    <2>1. PICK k \in 1..Len(u) : u[k].k = "superInvoke"
        BY <1>16 DEF Has
    <2>2. k \notin 1..m
        BY <1>5, <1>15, <2>1
    <2>3. PICK i \in 1..l : k = m + i
        BY <1>13, <2>1, <2>2
    <2> QED BY <1>8, <1>11, <2>1, <2>3 DEF Has
<1>17. \A i \in 1..l : LandsAll(Current(v), Work[i])
    <2>1. \A i \in 1..l : LandsAll(Current(Now), Work[i])
        BY <1>1, <1>2, <1>8 DEF Ordered, Lands, LandsAll
    <2> QED BY <1>2, <2>1, LandsOn
<1>18. LandsAll(Current(v), a) /\ LandsAll(Current(v), b)
    <2>1. Landings(a) = {} /\ Landings(b) = {}
        BY <1>5 DEF Landings, LoopTasks, JumpsOf
    <2> QED BY <2>1 DEF LandsAll
<1>19. \A k \in 1..Len(u) : LandsAll(Current(v), u[k])
    <2>1. TAKE k \in 1..Len(u)
    <2>2. CASE k \in 1..m
        BY <1>15, <1>18, <2>2
    <2>3. CASE \E i \in 1..l : k = m + i
        <3>1. PICK i \in 1..l : k = m + i
            BY <2>3
        <3> QED BY <1>11, <1>17, <3>1
    <2> QED BY <1>13, <2>2, <2>3
<1> QED BY <1>11, <1>14, <1>16, <1>19

LEMMA ClassOrders ==
    ASSUME Inv, Ordered, todo # <<>>, Work[1].k = "stats", NEW v, Tame(Now, v),
           NEW inherits \in BOOLEAN,
           inherits /\ v.error = NoError => HasSuper(Current(v)), NEW base \in Nat,
           Walk(v, <<Task("methods"), Class(base, inherits)>>, Work),
           currentClass' = Append(currentClass, inherits), UNCHANGED functions
    PROVE  Ordered'
<1>1. PICK n \in Nat \ {0} : n = Len(contexts)
    BY AtWork
<1>2. /\ Good(Now) /\ n \in 1..n /\ Len(todo) = n
      /\ contexts \in Seq(Contexts) /\ contexts # <<>> /\ todo \in Seq(Seq(Tasks))
      /\ Current(Now) = contexts[n] /\ Work = todo[n] /\ Now.contexts = contexts
      /\ Pending(Current(Now), Work)
    BY <1>1, AtWork DEF Compiling
<1>3. PICK u : u = <<Task("methods"), Class(base, inherits)>> \o Work
    OBVIOUS
<1>4. /\ u \in Seq(Tasks) /\ Has(u, "endClass")
      /\ Has(u, "superInvoke") => Has(Work, "superInvoke")
      /\ \A k \in 1..Len(u) : LandsAll(Current(v), u[k])
    BY <1>3, ClassTasks
<1>5. Becomes(v) /\ todo' = Append(Front(todo), u)
    BY <1>3 DEF Walk
<1>6. contexts' = v.contexts /\ error' = v.error
    BY <1>5 DEF Becomes
<1>7. Follows(Now, v) /\ Good(v) /\ Len(v.contexts) = n
    BY <1>1, <1>2 DEF Tame, Follows
<1>8. Current(v) = v.contexts[n]
    BY <1>7, CurrentIsFine
<1>9. WithLast(todo', todo, u, Seq(Tasks))
    BY <1>2, <1>4, <1>5, LastReplaced
<1>10. todo'[n] = u /\ Last(todo') = u /\ \A j \in 1..n - 1 : todo'[j] = todo[j]
    BY <1>2, <1>9 DEF WithLast
<1>11. ~Has(Work, "endClass") /\ ~Has(Work, "superInvoke")
    <2>1. Work[1].k \notin ExprTasks
        BY DEF ExprTasks
    <2> QED BY <1>2, <2>1, NoClassBehind, NoSuperBehind
<1>12. SuperWaits'
    BY <1>4, <1>10, <1>11 DEF SuperWaits, Work
<1>13. OpenClasses'
    <2> SUFFICES ASSUME error' = NoError
                 PROVE  \E at \in [1..Len(currentClass') -> 1..n] :
                            ClassesAt(v.contexts, todo', currentClass', at)
        BY <1>6, <1>7 DEF OpenClasses
    <2>1. error = NoError
        BY <1>6 DEF Tame, Now
    <2>2. PICK at \in [1..Len(currentClass) -> 1..n] : ClassesAt(contexts, todo, currentClass, at)
        BY <1>1, <2>1 DEF Ordered, OpenClasses
    <2>3. PICK old \in Seq(BOOLEAN) : old = currentClass
        BY DEF Inv, Settings
    <2>4. PICK l \in Nat : l = Len(old)
        BY <2>3
    <2>5. PICK new : new = Append(old, inherits)
        OBVIOUS
    <2>6. Len(new) = l + 1 /\ new[l + 1] = inherits /\ \A k \in 1..l : new[k] = old[k]
        BY <2>3, <2>4, <2>5, AppendProperties
    <2>7. PICK to : to = [k \in 1..l + 1 |-> IF k = l + 1 THEN n ELSE at[k]]
        OBVIOUS
    <2>8. ASSUME NEW k \in 1..l
          PROVE  /\ at[k] \in 1..n - 1 /\ k \in 1..l + 1 /\ to[k] = at[k]
                 /\ Has(todo'[at[k]], "endClass")
                 /\ new[k] => HasSuper(v.contexts[at[k]])
        <3>1. PICK j \in 1..n : j = at[k]
            BY <2>2, <2>3, <2>4
        <3>2. /\ Has(todo[j], "endClass")
              /\ old[k] => HasSuper(contexts[j])
            BY <2>2, <2>3, <2>4, <3>1 DEF ClassesAt
        <3>3. j # n
            BY <1>2, <1>11, <3>2
        <3>4. j \in 1..n - 1
            BY <3>3
        <3>5. SameLocals(contexts[j], v.contexts[j])
            BY <1>1, <1>2, <1>7, <3>4 DEF Follows, Alike
        <3>6. HasSuper(contexts[j]) => HasSuper(v.contexts[j])
            BY <3>5, SuperStays
        <3> QED BY <1>10, <2>6, <2>7, <3>1, <3>2, <3>4, <3>6, SMTT(30)
    <2>9. to[l + 1] = n /\ l + 1 \in 1..l + 1
        BY <2>4, <2>7
    <2>10. \A k \in 1..l + 1 : k \in 1..l \/ k = l + 1
        BY <2>4
    <2>11. to \in [1..l + 1 -> 1..n]
        <3>1. \A k \in 1..l + 1 : (IF k = l + 1 THEN n ELSE at[k]) \in 1..n
            BY <2>8, <2>10
        <3> QED BY <2>7, <3>1
    <2>12. ASSUME NEW k \in 1..l + 1, NEW m \in 1..k - 1
           PROVE  to[m] < to[k]
        <3>1. m \in 1..l
            BY <2>4
        <3>2. to[m] = at[m] /\ at[m] \in 1..n - 1
            BY <2>8, <3>1
        <3>3. CASE k = l + 1
            BY <2>9, <3>2, <3>3
        <3>4. CASE k # l + 1
            <4>1. k \in 1..l
                BY <2>10, <3>4
            <4>2. at[m] < at[k]
                BY <2>2, <2>3, <2>4, <4>1 DEF ClassesAt
            <4> QED BY <2>8, <3>2, <4>1, <4>2
        <3> QED BY <3>3, <3>4
    <2>13. ASSUME NEW k \in 1..l + 1
           PROVE  /\ Has(todo'[to[k]], "endClass")
                  /\ new[k] => HasSuper(v.contexts[to[k]])
        <3>1. CASE k = l + 1
            <4>1. new[k] => inherits
                BY <2>6, <3>1
            <4>2. to[k] = n
                BY <2>9, <3>1
            <4>3. v.error = NoError
                BY <1>6
            <4> QED BY <1>4, <1>8, <1>10, <4>1, <4>2, <4>3
        <3>2. CASE k # l + 1
            <4>1. k \in 1..l
                BY <2>10, <3>2
            <4> QED BY <2>8, <4>1
        <3> QED BY <3>1, <3>2
    <2>14. ClassesAt(v.contexts, todo', new, to)
        BY <1>7, <2>6, <2>11, <2>12, <2>13 DEF ClassesAt
    <2>15. currentClass' = new
        BY <2>3, <2>5
    <2> QED BY <2>6, <2>11, <2>14, <2>15
<1> QED BY <1>4, <1>5, <1>12, <1>13, WalkOrders

LEMMA ClassDeclarationOrders ==
    ASSUME Inv, Ordered, ClassDeclaration
    PROVE  Ordered'
<1>1. PICK kind : kind = "stats"
    OBVIOUS
<1>2. Doing(kind) /\ UNCHANGED functions
    BY <1>1 DEF ClassDeclaration
<1>3. PICK x \in Identifiers, inherits \in BOOLEAN :
        \E y \in IF inherits THEN Identifiers \ {x} ELSE {x} :
        LET declared == Emit(DeclareVariable(Now, x), "CLASS", 0)
            defined == DefineVariable(declared, x)
            super == BeginScope(NamedVariable(defined, y, FALSE))
            scoped == MarkInitialized(AddLocal(super, "super"))
            s == IF inherits THEN Emit(NamedVariable(scoped, x, FALSE), "INHERIT", 0) ELSE defined
        IN  /\ Walk(NamedVariable(s, x, FALSE),
                    <<Task("methods"), Class(Visible(defined), inherits)>>, Work)
            /\ currentClass' = Append(currentClass, inherits)
    BY DEF ClassDeclaration
<1>4. PICK y \in Identifiers :
        LET declared == Emit(DeclareVariable(Now, x), "CLASS", 0)
            defined == DefineVariable(declared, x)
            super == BeginScope(NamedVariable(defined, y, FALSE))
            scoped == MarkInitialized(AddLocal(super, "super"))
            s == IF inherits THEN Emit(NamedVariable(scoped, x, FALSE), "INHERIT", 0) ELSE defined
        IN  /\ Walk(NamedVariable(s, x, FALSE),
                    <<Task("methods"), Class(Visible(defined), inherits)>>, Work)
            /\ currentClass' = Append(currentClass, inherits)
    BY <1>3
<1>5. x \in VariableNames /\ y \in VariableNames /\ \A s : Known(s, x) /\ Known(s, y)
    <2>1. x \in Names /\ y \in Names /\ x \in VariableNames /\ y \in VariableNames
        BY <1>3, <1>4, FamilyBounds
    <2> QED BY <2>1 DEF Known
<1>6. PICK class : class = "CLASS"
    OBVIOUS
<1>7. PICK inherit : inherit = "INHERIT"
    OBVIOUS
<1>8. /\ class \in Operations /\ class \notin LookUps /\ class \in PlainOperations
      /\ inherit \in Operations /\ inherit \notin LookUps
    <2>1. class \in PlainOperations
        BY <1>6 DEF PlainOperations, Operations, Jumping, Pushes
    <2> QED BY <1>6, <1>7, <2>1, PlainOps
<1>9. PICK none \in Int : none = 0
    OBVIOUS
<1>10. PICK no : no = FALSE
    OBVIOUS
<1>11. PICK name \in VariableNames : name = "super"
    BY DEF VariableNames
<1>12. PICK a : a = DeclareVariable(Now, x)
    OBVIOUS
<1>13. PICK declared : declared = Emit(a, class, none)
    OBVIOUS
<1>14. PICK defined : defined = DefineVariable(declared, x)
    OBVIOUS
<1>15. PICK b : b = NamedVariable(defined, y, no)
    OBVIOUS
<1>16. PICK super : super = BeginScope(b)
    OBVIOUS
<1>17. PICK added : added = AddLocal(super, name)
    OBVIOUS
<1>18. PICK scoped : scoped = MarkInitialized(added)
    OBVIOUS
<1>19. PICK e : e = NamedVariable(scoped, x, no)
    OBVIOUS
<1>20. PICK f : f = Emit(e, inherit, none)
    OBVIOUS
<1>21. PICK s : s = IF inherits THEN f ELSE defined
    OBVIOUS
<1>22. PICK v : v = NamedVariable(s, x, no)
    OBVIOUS
<1>23. PICK base : base = Visible(defined)
    OBVIOUS
<1>24. /\ Walk(v, <<Task("methods"), Class(base, inherits)>>, Work)
       /\ currentClass' = Append(currentClass, inherits)
    BY <1>4, <1>6, <1>7, <1>9, <1>10, <1>11, <1>12, <1>13, <1>14, <1>15, <1>16, <1>17, <1>18,
       <1>19, <1>20, <1>21, <1>22, <1>23
<1>25. todo # <<>> /\ Good(Now) /\ Work[1].k = "stats"
    BY <1>1, <1>2, NowIsGood
<1>26. Tame(Now, a) /\ Good(a) /\ CanDefine(Current(a))
    BY <1>5, <1>12, <1>25, DeclaresTame
<1>27. Tame(a, declared) /\ Good(declared) /\ CanDefine(Current(declared))
    <2>1. Tame(a, declared) /\ Good(declared)
        BY <1>8, <1>9, <1>13, <1>26, EmitsTame
    <2>2. GetsWider(a, declared)
        BY <1>8, <1>9, <1>13, <1>26, EmitsInPassing
    <2>3. Widens(Current(a), Current(declared))
        BY <2>2 DEF GetsWider
    <2>4. Current(a) \in Contexts /\ Current(declared) \in Contexts
        BY <1>26, <2>1, CurrentIsFine
    <2> QED BY <1>26, <2>1, <2>3, <2>4, CanStillDefine
<1>28. Tame(declared, defined) /\ Good(defined)
    BY <1>5, <1>14, <1>27, DefinesTame
<1>29. Tame(Now, defined)
    <2>1. Tame(Now, declared)
        BY <1>25, <1>26, <1>27, TameOn
    <2> QED BY <1>25, <1>28, <2>1, TameOn
<1>30. base \in Nat
    <2>1. Current(defined) \in Contexts
        BY <1>28, CurrentIsFine
    <2> QED BY <1>23, <2>1, ContextTypes DEF Visible
<1>31. CASE ~inherits
    <2>1. v = NamedVariable(defined, x, no)
        BY <1>21, <1>22, <1>31
    <2>2. Tame(defined, v)
        BY <1>5, <1>28, <2>1, LooksUpTame
    <2>3. Tame(Now, v)
        BY <1>25, <1>29, <2>2, TameOn
    <2> QED BY <1>2, <1>24, <1>25, <1>30, <1>31, <2>3, ClassOrders
<1>32. CASE inherits
    <2>1. Tame(defined, b) /\ Good(b)
        BY <1>5, <1>15, <1>28, LooksUpTame
    <2>2. Tame(b, super) /\ Good(super)
        BY <1>16, <2>1, ScopeBeginsTamely
    <2>3. /\ Tame(super, added) /\ Good(added) /\ CanDefine(Current(added))
          /\ added.error = NoError => HasSuper(Current(added))
        BY <1>11, <1>17, <2>2, AddsSuper
    <2>4. /\ Tame(added, scoped) /\ Good(scoped)
          /\ HasSuper(Current(added)) => HasSuper(Current(scoped))
        BY <1>18, <2>3, MarksSuper
    <2>5. Tame(scoped, e) /\ Good(e) /\ SameLocals(Current(scoped), Current(e))
        BY <1>5, <1>19, <2>4, LooksUpTame
    <2>6. Tame(e, f) /\ Good(f) /\ SameLocals(Current(e), Current(f))
        BY <1>8, <1>9, <1>20, <2>5, EmitsTame
    <2>7. v = NamedVariable(f, x, no)
        BY <1>21, <1>22, <1>32
    <2>8. Tame(f, v) /\ Good(v) /\ SameLocals(Current(f), Current(v))
        BY <1>5, <2>6, <2>7, LooksUpTame
    <2>9. Tame(Now, v)
        <3>1. Tame(Now, b)
            BY <1>25, <1>29, <2>1, TameOn
        <3>2. Tame(Now, super)
            BY <1>25, <2>2, <3>1, TameOn
        <3>3. Tame(Now, added)
            BY <1>25, <2>3, <3>2, TameOn
        <3>4. Tame(Now, scoped)
            BY <1>25, <2>4, <3>3, TameOn
        <3>5. Tame(Now, e)
            BY <1>25, <2>5, <3>4, TameOn
        <3>6. Tame(Now, f)
            BY <1>25, <2>6, <3>5, TameOn
        <3> QED BY <1>25, <2>8, <3>6, TameOn
    <2>10. v.error = NoError => HasSuper(Current(v))
        <3>1. v.error = NoError => added.error = NoError
            BY <2>4, <2>5, <2>6, <2>8 DEF Tame
        <3>2. HasSuper(Current(scoped)) => HasSuper(Current(e))
            BY <2>5, SuperStays
        <3>3. HasSuper(Current(e)) => HasSuper(Current(f))
            BY <2>6, SuperStays
        <3>4. HasSuper(Current(f)) => HasSuper(Current(v))
            BY <2>8, SuperStays
        <3> QED BY <2>3, <2>4, <3>1, <3>2, <3>3, <3>4
    <2> QED BY <1>2, <1>24, <1>25, <1>30, <2>9, <2>10, ClassOrders
<1> QED BY <1>31, <1>32

LEMMA EndClassOrders ==
    ASSUME Inv, Ordered, EndClass
    PROVE  Ordered'
<1>1. PICK kind : kind = "endClass"
    OBVIOUS
<1>2. Doing(kind) /\ UNCHANGED functions /\ currentClass' = Front(currentClass)
    BY <1>1 DEF EndClass
<1>3. kind # "endFunction"
    BY <1>1
<1>4. PICK h \in Tasks : h = Work[1] /\ h.k = "endClass" /\ h = Head(Work)
    BY <1>1, <1>2, NowIsGood
<1>5. PICK n \in Nat \ {0} : n = Len(contexts)
    BY <1>2, NowIsGood, AtWork
<1>6. /\ Good(Now) /\ n \in 1..n /\ Len(todo) = n /\ todo # <<>>
      /\ contexts \in Seq(Contexts) /\ contexts # <<>> /\ todo \in Seq(Seq(Tasks))
      /\ Current(Now) = contexts[n] /\ Work = todo[n] /\ Now.contexts = contexts
      /\ Pending(Current(Now), Work) /\ Work \in Seq(Tasks) /\ Work # <<>>
    BY <1>2, <1>5, NowIsGood, AtWork DEF Compiling
<1>7. PICK base : base = h.base
    OBVIOUS
<1>8. base \in Nat /\ base <= Len(Current(Now).visible)
    <2>1. base \in Nat
        BY <1>4, <1>7, TaskTypes
    <2>2. 1 \in 1..Len(Work)
        BY <1>6, TailOf
    <2>3. Fits(Current(Now), h)
        BY <1>4, <1>6, <2>2 DEF Pending
    <2>4. Base(h) = base /\ h.k \in Based
        BY <1>4, <1>7 DEF Base, Based, LoopTasks
    <2> QED BY <2>1, <2>3, <2>4 DEF Fits
<1>9. PICK s : s = Emit(Now, "POP", 0)
    OBVIOUS
<1>10. Tame(Now, s) /\ Good(s)
    BY <1>6, <1>9, PopCalm DEF Calm
<1>11. PICK v : v = IF h.hasSuperclass THEN EndScope(s, base) ELSE s
    OBVIOUS
<1>12. Tame(Now, v)
    <2>1. CASE h.hasSuperclass
        <3>1. Current(Now).scopeDepth > 0
            <4>1. h \in ScopeTasks
                BY <1>4, <2>1 DEF ScopeTasks
            <4> QED BY <1>2, <1>3, <1>4, <4>1, ScopeIsOpen
        <3>2. GetsWider(Now, s) /\ GoesOn(Now, s)
            <4>1. PICK op \in Operations : op = "POP" /\ op \notin Jumping
                BY DEF Operations, Pops, Jumping
            <4>2. PICK none \in Int : none = 0
                OBVIOUS
            <4>3. s = Emit(Now, op, none)
                BY <1>9, <4>1, <4>2
            <4> QED BY <1>6, <4>1, <4>2, <4>3, EmitsPlain
        <3>3. Current(s).scopeDepth = Current(Now).scopeDepth /\ Current(s).visible = Current(Now).visible
            BY <3>2 DEF GoesOn, Steady, SameSettings
        <3>4. v = EndScope(s, base)
            BY <1>11, <2>1
        <3>5. Tame(s, v)
            BY <1>8, <1>10, <3>1, <3>3, <3>4, ScopeEndsTamely
        <3> QED BY <1>6, <1>10, <3>5, TameOn
    <2>2. CASE ~h.hasSuperclass
        BY <1>10, <1>11, <2>2
    <2> QED BY <2>1, <2>2
<1>13. PICK u : u = Tail(Work)
    OBVIOUS
<1>14. PICK kind2 : kind2 = "superInvoke"
    OBVIOUS
<1>15. /\ u \in Seq(Tasks) /\ <<>> \o u = u
       /\ \A k \in 1..Len(u) : LandsAll(Current(Now), u[k])
       /\ Has(u, kind2) => Has(Work, kind2)
    BY <1>6, <1>13, TailIsLeft
<1>16. \A k \in 1..Len(u) : LandsAll(Current(v), u[k])
    BY <1>6, <1>12, <1>15, LandsOn
<1>17. Becomes(v) /\ todo' = Append(Front(todo), u)
    <2>1. Walk(v, <<>>, Tail(Work))
        BY <1>4, <1>7, <1>9, <1>11 DEF EndClass
    <2> QED BY <1>13, <1>15, <2>1 DEF Walk
<1>18. contexts' = v.contexts /\ error' = v.error
    BY <1>17 DEF Becomes
<1>19. Follows(Now, v) /\ Len(v.contexts) = n
    BY <1>5, <1>6, <1>12 DEF Tame, Follows
<1>20. WithLast(todo', todo, u, Seq(Tasks))
    BY <1>6, <1>15, <1>17, LastReplaced
<1>21. Last(todo') = u /\ \A j \in 1..n - 1 : todo'[j] = todo[j]
    BY <1>6, <1>20 DEF WithLast
<1>22. SuperWaits'
    <2>1. Work[1].k \notin ExprTasks
        BY <1>4 DEF ExprTasks
    <2>2. ~Has(Work, "superInvoke")
        BY <1>6, <2>1, NoSuperBehind
    <2>3. ~Has(u, "superInvoke")
        BY <1>14, <1>15, <2>2
    <2> QED BY <1>21, <2>3 DEF SuperWaits, Work
<1>23. OpenClasses'
    <2> SUFFICES ASSUME error' = NoError
                 PROVE  \E at \in [1..Len(currentClass') -> 1..n] :
                            ClassesAt(v.contexts, todo', currentClass', at)
        BY <1>18, <1>19 DEF OpenClasses
    <2>1. error = NoError
        BY <1>12, <1>18 DEF Tame, Now
    <2>2. PICK at \in [1..Len(currentClass) -> 1..n] : ClassesAt(contexts, todo, currentClass, at)
        BY <1>5, <2>1 DEF Ordered, OpenClasses
    <2>3. PICK old \in Seq(BOOLEAN) : old = currentClass
        BY DEF Inv, Settings
    <2>4. PICK new : new = Front(old)
        OBVIOUS
    <2>5. PICK l \in Nat : l = Len(new)
        <3>1. new \in Seq(BOOLEAN)
            BY <2>3, <2>4, FrontIsSeq
        <3> QED BY <3>1
    <2>6. ASSUME NEW k \in 1..l
          PROVE  /\ k \in 1..Len(old) /\ new[k] = old[k]
                 /\ at[k] \in 1..n - 1
        <3>1. old # <<>>
            <4>1. SUFFICES ASSUME old = <<>> PROVE FALSE
                OBVIOUS
            <4>2. new = SubSeq(old, 1, -1)
                BY <2>4, <4>1 DEF Front
            <4>3. Len(new) = 0
                BY <2>3, <4>2
            <4> QED BY <2>5, <4>3
        <3>2. /\ Len(old) \in 1..Len(old) /\ Len(old) \in Nat /\ l = Len(old) - 1
              /\ \A j \in 1..Len(old) - 1 : new[j] = old[j]
            BY <2>3, <2>4, <2>5, <3>1, FrontAndLast, SMTT(30)
        <3>3. k \in 1..Len(old) - 1 /\ k \in 1..Len(old)
            BY <3>2
        <3>4. at[k] < at[Len(old)]
            BY <2>2, <2>3, <3>2, <3>3 DEF ClassesAt
        <3>5. at[k] \in 1..n /\ at[Len(old)] \in 1..n
            BY <2>2, <2>3, <3>2, <3>3
        <3>6. at[k] \in 1..n - 1
            BY <3>4, <3>5
        <3> QED BY <3>2, <3>3, <3>6
    <2>7. PICK to : to = [k \in 1..l |-> at[k]]
        OBVIOUS
    <2>8. to \in [1..l -> 1..n] /\ \A k \in 1..l : to[k] = at[k]
        <3>1. \A k \in 1..l : at[k] \in 1..n
            BY <2>6
        <3> QED BY <2>7, <3>1
    <2>9. ASSUME NEW k \in 1..l, NEW m \in 1..k - 1
          PROVE  to[m] < to[k]
        <3>1. m \in 1..l
            OBVIOUS
        <3>2. at[m] < at[k]
            BY <2>2, <2>3, <2>6 DEF ClassesAt
        <3> QED BY <2>8, <3>1, <3>2
    <2>10. ASSUME NEW k \in 1..l
           PROVE  /\ Has(todo'[to[k]], "endClass")
                  /\ new[k] => HasSuper(v.contexts[to[k]])
        <3>1. PICK j \in 1..n - 1 : j = at[k]
            BY <2>6
        <3>2. /\ Has(todo[j], "endClass")
              /\ old[k] => HasSuper(contexts[j])
            BY <2>2, <2>3, <2>6, <3>1 DEF ClassesAt
        <3>3. SameLocals(contexts[j], v.contexts[j])
            BY <1>5, <1>6, <1>19 DEF Follows, Alike
        <3>4. HasSuper(contexts[j]) => HasSuper(v.contexts[j])
            BY <3>3, SuperStays
        <3>5. to[k] = j /\ todo'[j] = todo[j]
            BY <1>21, <2>8, <3>1
        <3> QED BY <2>6, <3>2, <3>4, <3>5
    <2>11. ClassesAt(v.contexts, todo', new, to)
        BY <1>19, <2>5, <2>8, <2>9, <2>10 DEF ClassesAt
    <2>12. currentClass' = new
        BY <1>2, <2>3, <2>4
    <2> QED BY <2>5, <2>8, <2>11, <2>12
<1> QED BY <1>2, <1>6, <1>12, <1>15, <1>16, <1>17, <1>22, <1>23, WalkOrders

LEMMA EndOfMethodsScopes ==
    ASSUME Inv, Lexical, EndOfMethods
    PROVE  Lexical'
<1>1. PICK kind : kind = "methods"
    OBVIOUS
<1>2. Doing(kind) /\ kind \notin ExprTasks /\ kind # "define" /\ kind \notin ForTasks \cup {"endScope", "endClass"}
    BY <1>1 DEF EndOfMethods, ExprTasks, ForTasks
<1>3. PICK r : r = Tail(Work)
    OBVIOUS
<1>4. PICK strict \in BOOLEAN : strict = Disciplined
    BY <1>2, <1>3, TaskHeld
<1>5. /\ todo # <<>> /\ Good(Now) /\ r \in Seq(Tasks) /\ Work \in Seq(Tasks) /\ Work # <<>>
      /\ Work[1].k = kind /\ ~Has(r, "define") /\ Holds(Now, Work, strict)
    BY <1>2, <1>3, <1>4, TaskHeld
<1>6. Work[1] \notin ScopeTasks
    BY <1>2, <1>5 DEF ScopeTasks
<1>7. Holds(Now, r, strict)
    BY <1>3, <1>5, <1>6, BehindHolds
<1>8. Tame(Now, Now)
    BY <1>2, NowIsGood
<1>9. PICK empty : empty = <<>>
    OBVIOUS
<1>10. empty \in Seq(Tasks) /\ ~Has(empty, "define") /\ empty \o r = r
    BY <1>5, <1>9, NoTasks
<1>11. Walk(Now, empty, r)
    BY <1>3, <1>9 DEF EndOfMethods, Continue
<1> QED BY <1>4, <1>5, <1>7, <1>8, <1>10, <1>11, WalkHolds

LEMMA EndClassScopes ==
    ASSUME Inv, Lexical, EndClass
    PROVE  Lexical'
<1>1. PICK kind : kind = "endClass"
    OBVIOUS
<1>2. Doing(kind) /\ kind \notin ExprTasks /\ kind # "define" /\ kind # "endFunction"
    BY <1>1 DEF EndClass, ExprTasks
<1>3. PICK r : r = Tail(Work)
    OBVIOUS
<1>4. PICK h \in Tasks : h = Work[1] /\ h.k = kind /\ h = Head(Work)
    BY <1>2, NowIsGood
<1>5. PICK strict \in BOOLEAN : strict = Disciplined
    BY <1>2, <1>3, TaskHeld
<1>6. /\ todo # <<>> /\ Good(Now) /\ r \in Seq(Tasks) /\ Work \in Seq(Tasks) /\ Work # <<>>
      /\ ~Has(r, "define") /\ Holds(Now, Work, strict)
    BY <1>2, <1>3, <1>5, TaskHeld
<1>7. PICK s : s = Emit(Now, "POP", 0)
    OBVIOUS
<1>8. Calm(Now, s) /\ Good(s) /\ Tame(Now, s)
    BY <1>6, <1>7, PopCalm DEF Calm
<1>9. PICK empty : empty = <<>>
    OBVIOUS
<1>10. empty \in Seq(Tasks) /\ ~Has(empty, "define") /\ empty \o r = r
    BY <1>6, <1>9, NoTasks
<1>11. CASE h.hasSuperclass
    <2>1. PICK base : base = Base(h)
        OBVIOUS
    <2>2. h \in ScopeTasks /\ base = h.base
        BY <1>1, <1>4, <1>11, <2>1 DEF ScopeTasks, Base, LoopTasks
    <2>3. PICK t : t = EndScope(s, base)
        OBVIOUS
    <2>4. Tame(Now, t) /\ Holds(t, r, strict)
        BY <1>2, <1>3, <1>4, <1>5, <1>8, <2>1, <2>2, <2>3, ScopeCloses
    <2>5. Walk(t, empty, r)
        BY <1>3, <1>4, <1>7, <1>9, <1>11, <2>2, <2>3 DEF EndClass
    <2> QED BY <1>5, <1>6, <1>10, <2>4, <2>5, WalkHolds
<1>12. CASE ~h.hasSuperclass
    <2>1. h \notin ScopeTasks
        BY <1>1, <1>4, <1>12 DEF ScopeTasks, ForTasks
    <2>2. Holds(Now, r, strict)
        BY <1>3, <1>4, <1>6, <2>1, BehindHolds
    <2>3. Holds(s, r, strict)
        BY <1>6, <1>8, <2>2, CalmHolds
    <2>4. Walk(s, empty, r)
        BY <1>3, <1>4, <1>7, <1>9, <1>12 DEF EndClass
    <2> QED BY <1>5, <1>6, <1>8, <1>10, <2>3, <2>4, WalkHolds
<1> QED BY <1>11, <1>12

(* The class is defined; its superclass is a local around the methods.     *)
LEMMA ClassIsDefined ==
    ASSUME NEW strict \in BOOLEAN, NEW w \in Seq(Tasks), NEW n, Good(n), Holds(n, w, strict),
           NEW x \in VariableNames, NEW class \in PlainOperations, class \in Operations,
           class \notin LookUps, NEW none \in Int, NEW a, a = DeclareVariable(n, x),
           NEW declared, declared = Emit(a, class, none),
           NEW defined, defined = DefineVariable(declared, x)
    PROVE  Holds(defined, w, strict) /\ Tame(n, defined) /\ Good(defined)
<1>1. Tame(n, a) /\ Good(a) /\ CanDefine(Current(a)) /\ Waits(a, w, strict)
    BY DeclaresTame, DeclaresInside
<1>2. Calm(a, declared) /\ Good(declared) /\ Tame(a, declared)
    BY <1>1, EmitsCalm DEF Calm
<1>3. Waits(declared, w, strict) /\ CanDefine(Current(declared))
    <2>1. Waits(declared, w, strict)
        BY <1>1, <1>2, CalmHolds
    <2> QED BY <1>1, <1>2, <2>1 DEF Calm, SameScope, SameLocals, CanDefine
<1>4. Holds(defined, w, strict) /\ Tame(declared, defined) /\ Good(defined)
    BY <1>2, <1>3, DefinesInside, DefinesTame
<1>5. Tame(n, declared)
    BY <1>1, <1>2, TameOn
<1>6. Tame(n, defined)
    BY <1>4, <1>5, TameOn
<1> QED BY <1>4, <1>6

LEMMA SuperIsDefined ==
    ASSUME NEW strict \in BOOLEAN, NEW w \in Seq(Tasks), NEW b, Good(b), Holds(b, w, strict),
           NEW t \in ScopeTasks, Base(t) = Visible(b), NEW u, u = <<t>> \o w,
           NEW super, super = BeginScope(b), NEW name \in VariableNames, name = "super",
           NEW added, added = AddLocal(super, name),
           NEW scoped, scoped = MarkInitialized(added)
    PROVE  Holds(scoped, u, strict) /\ Tame(b, scoped) /\ Good(scoped) /\ u \in Seq(Tasks)
<1>1. u \in Seq(Tasks)
    <2>1. <<t>> \in Seq(Tasks)
        BY ShortSequences DEF ScopeTasks
    <2> QED BY <2>1, ConcatProperties
<1>2. Tame(b, super) /\ Good(super) /\ Holds(super, u, strict)
    BY ScopeBeginsTamely, OpensInside
<1>3. Current(super).scopeDepth > 0
    <2>1. Current(b).scopeDepth \in Nat /\ Current(super).scopeDepth = Current(b).scopeDepth + 1
        BY LoopFields, ScopeBegins
    <2> QED BY <2>1
<1>4. Waits(added, u, strict) /\ Tame(super, added) /\ Good(added) /\ CanDefine(Current(added))
    BY <1>1, <1>2, <1>3, AddsInside, AddsSuper
<1>5. Holds(scoped, u, strict) /\ Tame(added, scoped) /\ Good(scoped)
    BY <1>1, <1>4, MarkHolds, MarksSuper
<1>6. Tame(b, added)
    BY <1>2, <1>4, TameOn
<1>7. Tame(b, scoped)
    BY <1>5, <1>6, TameOn
<1> QED BY <1>1, <1>5, <1>7

LEMMA ClassDeclarationScopes ==
    ASSUME Inv, Ordered, Lexical, ClassDeclaration
    PROVE  Lexical'
<1>1. PICK kind : kind = "stats"
    OBVIOUS
<1>2. Doing(kind) /\ AtStatement
    BY <1>1 DEF ClassDeclaration, AtStatement
<1>3. PICK x \in Identifiers, inherits \in BOOLEAN :
        \E y \in IF inherits THEN Identifiers \ {x} ELSE {x} :
        LET declared == Emit(DeclareVariable(Now, x), "CLASS", 0)
            defined == DefineVariable(declared, x)
            super == BeginScope(NamedVariable(defined, y, FALSE))
            scoped == MarkInitialized(AddLocal(super, "super"))
            s == IF inherits THEN Emit(NamedVariable(scoped, x, FALSE), "INHERIT", 0) ELSE defined
        IN  Walk(NamedVariable(s, x, FALSE),
                 <<Task("methods"), Class(Visible(defined), inherits)>>, Work)
    BY DEF ClassDeclaration
<1>4. PICK y \in Identifiers :
        LET declared == Emit(DeclareVariable(Now, x), "CLASS", 0)
            defined == DefineVariable(declared, x)
            super == BeginScope(NamedVariable(defined, y, FALSE))
            scoped == MarkInitialized(AddLocal(super, "super"))
            s == IF inherits THEN Emit(NamedVariable(scoped, x, FALSE), "INHERIT", 0) ELSE defined
        IN  Walk(NamedVariable(s, x, FALSE),
                 <<Task("methods"), Class(Visible(defined), inherits)>>, Work)
    BY <1>3
<1>5. x \in VariableNames /\ y \in VariableNames /\ \A s : Known(s, x) /\ Known(s, y)
    <2>1. x \in Names /\ y \in Names /\ x \in VariableNames /\ y \in VariableNames
        BY <1>3, <1>4, FamilyBounds
    <2> QED BY <2>1 DEF Known
<1>6. PICK class : class = "CLASS"
    OBVIOUS
<1>7. PICK inherit : inherit = "INHERIT"
    OBVIOUS
<1>8. /\ class \in Operations /\ class \notin LookUps /\ class \in PlainOperations
      /\ inherit \in Operations /\ inherit \notin LookUps
    <2>1. class \in PlainOperations
        BY <1>6 DEF PlainOperations, Operations, Jumping, Pushes
    <2> QED BY <1>6, <1>7, <2>1, PlainOps
<1>9. PICK none \in Int : none = 0
    OBVIOUS
<1>10. PICK no : no = FALSE
    OBVIOUS
<1>11. PICK name \in VariableNames : name = "super"
    BY DEF VariableNames
<1>12. PICK a : a = DeclareVariable(Now, x)
    OBVIOUS
<1>13. PICK declared : declared = Emit(a, class, none)
    OBVIOUS
<1>14. PICK defined : defined = DefineVariable(declared, x)
    OBVIOUS
<1>15. PICK b : b = NamedVariable(defined, y, no)
    OBVIOUS
<1>16. PICK super : super = BeginScope(b)
    OBVIOUS
<1>17. PICK added : added = AddLocal(super, name)
    OBVIOUS
<1>18. PICK scoped : scoped = MarkInitialized(added)
    OBVIOUS
<1>19. PICK e : e = NamedVariable(scoped, x, no)
    OBVIOUS
<1>20. PICK f : f = Emit(e, inherit, none)
    OBVIOUS
<1>21. PICK s : s = IF inherits THEN f ELSE defined
    OBVIOUS
<1>22. PICK v : v = NamedVariable(s, x, no)
    OBVIOUS
<1>23. PICK base : base = Visible(defined)
    OBVIOUS
<1>24. PICK end : end = Class(base, inherits)
    OBVIOUS
<1>25. Walk(v, <<Task("methods"), end>>, Work)
    BY <1>4, <1>6, <1>7, <1>9, <1>10, <1>11, <1>12, <1>13, <1>14, <1>15, <1>16, <1>17, <1>18,
       <1>19, <1>20, <1>21, <1>22, <1>23, <1>24
<1>26. PICK w : w = IF Doing("stats") THEN Work ELSE Tail(Work)
    OBVIOUS
<1>27. w = Work
    BY <1>1, <1>2, <1>26
<1>28. PICK strict \in BOOLEAN : strict = Disciplined
    BY <1>2, <1>26, StatementHeld
<1>29. /\ todo # <<>> /\ Good(Now) /\ w \in Seq(Tasks) /\ ~Has(w, "define")
       /\ Holds(Now, w, strict)
    BY <1>2, <1>26, <1>28, StatementHeld
<1>30. Holds(defined, w, strict) /\ Tame(Now, defined) /\ Good(defined)
    BY <1>5, <1>8, <1>9, <1>12, <1>13, <1>14, <1>29, ClassIsDefined
<1>31. PICK methods \in Tasks : methods = Task("methods") /\ methods \notin ScopeTasks /\ methods.k # "define"
    BY DeclaringTasks
<1>32. base \in Nat
    BY <1>23, <1>30, LoopFields DEF Visible
<1>33. /\ end \in Tasks /\ end.k # "define" /\ Base(end) = base /\ (end \in ScopeTasks <=> inherits)
    <2>1. end.k = "endClass" /\ end.base = base /\ end.hasSuperclass = inherits /\ end \in Tasks
        BY <1>3, <1>24, <1>32 DEF Class, Tasks
    <2> QED BY <2>1 DEF ScopeTasks, ForTasks, Base, LoopTasks
<1>34. PICK tasks : tasks = <<methods, end>>
    OBVIOUS
<1>35. tasks \in Seq(Tasks) /\ ~Has(tasks, "define") /\ Walk(v, tasks, w)
    BY <1>25, <1>27, <1>31, <1>33, <1>34, NextTwoTasks
<1>36. PICK u : u = tasks \o w
    OBVIOUS
<1>37. CASE ~inherits
    <2>1. v = NamedVariable(defined, x, no)
        BY <1>21, <1>22, <1>37
    <2>2. Calm(defined, v) /\ Tame(defined, v) /\ Good(v)
        BY <1>5, <1>30, <2>1, LooksUpCalm DEF Calm
    <2>3. Tame(Now, v) /\ Holds(v, w, strict)
        BY <1>29, <1>30, <2>2, TameOn, CalmHolds
    <2>4. \A k \in 1..Len(tasks) : tasks[k] \notin ScopeTasks
        BY <1>31, <1>33, <1>34, <1>37, NextTwoTasks
    <2>5. Holds(v, u, strict)
        BY <1>29, <1>35, <1>36, <2>2, <2>3, <2>4, FrontHolds
    <2> QED BY <1>28, <1>29, <1>35, <1>36, <2>3, <2>5, WalkHolds
<1>38. CASE inherits
    <2>1. Calm(defined, b) /\ Tame(defined, b) /\ Good(b)
        BY <1>5, <1>15, <1>30, LooksUpCalm DEF Calm
    <2>2. Tame(Now, b) /\ Holds(b, w, strict)
        BY <1>29, <1>30, <2>1, TameOn, CalmHolds
    <2>3. Base(end) = Visible(b)
        BY <1>23, <1>33, <2>1 DEF Calm, SameScope, Visible
    <2>4. PICK inner : inner = <<end>> \o w
        OBVIOUS
    <2>5. Holds(scoped, inner, strict) /\ Tame(b, scoped) /\ Good(scoped) /\ inner \in Seq(Tasks)
        BY <1>11, <1>16, <1>17, <1>18, <1>29, <1>33, <1>38, <2>1, <2>2, <2>3, <2>4, SuperIsDefined, ZenonT(30)
    <2>6. Tame(Now, scoped)
        BY <1>29, <2>2, <2>5, TameOn
    <2>7. Calm(scoped, e) /\ Good(e)
        BY <1>5, <1>19, <2>5, LooksUpCalm
    <2>8. Calm(e, f) /\ Good(f)
        BY <1>8, <1>9, <1>20, <2>7, EmitsCalm
    <2>9. v = NamedVariable(f, x, no)
        BY <1>21, <1>22, <1>38
    <2>10. Calm(f, v) /\ Good(v)
        BY <1>5, <2>8, <2>9, LooksUpCalm
    <2>11. Calm(scoped, v)
        <3>1. Calm(scoped, f)
            BY <2>5, <2>7, <2>8, CalmOn
        <3> QED BY <2>5, <2>10, <3>1, CalmOn
    <2>12. Tame(Now, v) /\ Holds(v, inner, strict)
        <3>1. Tame(Now, v)
            BY <1>29, <2>6, <2>11, TameOn DEF Calm
        <3> QED BY <2>5, <2>11, <3>1, CalmHolds
    <2>13. PICK front : front = <<methods>>
        OBVIOUS
    <2>14. front \in Seq(Tasks) /\ \A k \in 1..Len(front) : front[k] \notin ScopeTasks
        BY <1>31, <2>13, NextTasks
    <2>15. u = front \o inner
        BY <1>29, <1>31, <1>33, <1>34, <1>36, <2>4, <2>13, FrontOfTwo
    <2>16. Holds(v, u, strict)
        BY <2>5, <2>10, <2>12, <2>14, <2>15, FrontHolds
    <2> QED BY <1>28, <1>29, <1>35, <1>36, <2>12, <2>16, WalkHolds
<1> QED BY <1>37, <1>38

-----------------------------------------------------------------------------
(* The locals of a function that begins, and of the one it is declared in. *)

(* With one local and one name, and no scope that a task ends.             *)
LEMMA FirstIsLaid ==
    ASSUME NEW strict \in BOOLEAN, NEW c \in Contexts, Len(c.locals) = 1, Len(c.visible) = 1,
           c.locals[1].depth = 0, c.locals[1].name = c.visible[1],
           NEW w \in Seq(Tasks), \A k \in 1..Len(w) : w[k] \notin ScopeTasks
    PROVE  Held(c, w, strict)
<1>1. PICK depth \in Nat : depth = c.scopeDepth
    BY ScopeTypes
<1>2. PICK n \in Nat : n = Len(w)
    OBVIOUS
<1>3. PICK place : place = [i \in 1..1 |-> 1]
    OBVIOUS
<1>4. PICK level : level = [k \in 1..n + 1 |-> depth]
    OBVIOUS
<1>5. place \in [1..1 -> 1..1] /\ place[1] = 1 /\ \A i \in 1..1 : i = 1
    BY <1>3
<1>6. /\ level \in [1..n + 1 -> 0..depth] /\ level[1] = depth
      /\ \A k \in 1..n : level[k] = depth /\ level[k + 1] = depth
    <2>1. \A k \in 1..n : k \in 1..n + 1 /\ k + 1 \in 1..n + 1
        BY <1>2
    <2>2. 1 \in 1..n + 1 /\ depth \in 0..depth
        BY <1>1, <1>2
    <2> QED BY <1>4, <2>1, <2>2
<1>7. \A i \in 1..1 : \A j \in 1..i - 1 : FALSE
    OBVIOUS
<1>8. 1 \in 1..1 /\ 0 <= depth /\ 0 # -1
    BY <1>1
<1>9. Shown(c, place, strict)
    BY <1>1, <1>5, <1>7, <1>8 DEF Shown
<1>10. Levels(c, w, level)
    BY <1>1, <1>2, <1>6 DEF Levels
<1>11. Laid(c, w, strict)
    BY <1>1, <1>2, <1>5, <1>6, <1>9, <1>10 DEF Laid
<1> QED BY <1>5, <1>8, <1>11 DEF Held, NoneWaits

(* What a Context begins with.                                             *)
LEMMA NewContextHas ==
    ASSUME NEW type, NEW c, c = NewContext(type)
    PROVE  /\ Len(c.locals) = 1 /\ Len(c.visible) = 1
           /\ c.locals[1].depth = 0 /\ c.locals[1].name = c.visible[1]
<1>1. PICK self : self = IF type = "function" THEN "" ELSE "this"
    OBVIOUS
<1>2. PICK local : local = [name |-> self, depth |-> 0, captured |-> FALSE]
    OBVIOUS
<1>3. c.locals = <<local>> /\ c.visible = <<self>>
    BY <1>1, <1>2 DEF NewContext
<1>4. PICK locals : locals = <<local>>
    OBVIOUS
<1>5. PICK visible : visible = <<self>>
    OBVIOUS
<1>6. Len(locals) = 1 /\ locals[1] = local /\ Len(visible) = 1 /\ visible[1] = self
    BY <1>4, <1>5
<1> QED BY <1>2, <1>3, <1>4, <1>5, <1>6

LEMMA ParametersAreHeld ==
    ASSUME NEW strict \in BOOLEAN, NEW w \in Seq(Tasks),
           NEW b, Good(b), Holds(b, w, strict),
           NEW n \in Nat, NEW parameters \in [1..n -> VariableNames],
           NEW declare, declare = CHOOSE f : f = [i \in 0..n |->
                IF i = 0 THEN b
                ELSE DefineVariable(DeclareVariable(f[i - 1], parameters[i]), parameters[i])]
    PROVE  Holds(declare[n], w, strict) /\ Good(declare[n])
<1>1. PICK T : T = {s \in States : Good(s) /\ Holds(s, w, strict)}
    OBVIOUS
<1>2. ASSUME NEW s \in T, NEW x \in VariableNames,
             NEW t, t = DeclareVariable(s, x), NEW u, u = DefineVariable(t, x)
      PROVE  u \in T
    <2>1. Good(s) /\ Holds(s, w, strict)
        BY <1>1
    <2>2. Good(t) /\ CanDefine(Current(t))
        BY <1>2, <2>1, DeclaresTame
    <2>3. Waits(t, w, strict)
        BY <1>2, <2>1, DeclaresInside
    <2>4. Holds(u, w, strict)
        BY <1>2, <2>2, <2>3, DefinesInside
    <2>5. Good(u)
        BY <1>2, <2>2, DefinesTame
    <2> QED BY <1>1, <2>4, <2>5 DEF Good
<1>3. b \in T
    BY <1>1 DEF Good
<1>4. \A s \in T : \A x \in VariableNames : DefineVariable(DeclareVariable(s, x), x) \in T
    BY <1>2
<1>5. declare[n] \in T
    BY <1>3, <1>4, ParametersStay
<1> QED BY <1>1, <1>5

LEMMA FunctionHolds ==
    ASSUME NEW strict \in BOOLEAN, NEW s, Good(s), NEW type \in FunctionTypes, NEW m \in Nat,
           NEW parameters \in [1..m -> VariableNames],
           NEW t, t = BeginFunction(s, type, parameters),
           NEW w \in Seq(Tasks), \A k \in 1..Len(w) : w[k] \notin ScopeTasks
    PROVE  Holds(t, w, strict)
<1>1. Len(parameters) = m
    BY FunctionIsSeq
<1>2. PICK a : a = InitCompiler(s, type)
    OBVIOUS
<1>3. PICK c : c = NewContext(type)
    OBVIOUS
<1>4. Good(a) /\ Current(a) = c
    BY <1>2, <1>3, ContextIsPushed
<1>5. /\ Len(c.locals) = 1 /\ Len(c.visible) = 1
      /\ c.locals[1].depth = 0 /\ c.locals[1].name = c.visible[1]
    BY <1>3, NewContextHas
<1>6. PICK b : b = BeginScope(a)
    OBVIOUS
<1>7. PICK f : f = Current(b)
    OBVIOUS
<1>8. Good(b) /\ f.locals = c.locals /\ f.visible = c.visible
    BY <1>4, <1>6, <1>7, ScopeBegins DEF Follows
<1>9. f \in Contexts
    BY <1>7, <1>8, CurrentIsFine
<1>10. Holds(b, w, strict)
    <2>1. Held(f, w, strict)
        BY <1>5, <1>8, <1>9, FirstIsLaid
    <2> QED BY <1>7, <2>1 DEF Holds
<1>11. PICK declare : declare = CHOOSE g : g = [i \in 0..m |->
                IF i = 0 THEN b
                ELSE DefineVariable(DeclareVariable(g[i - 1], parameters[i]), parameters[i])]
    OBVIOUS
<1>12. PICK e : e = declare[m]
    OBVIOUS
<1>13. Holds(e, w, strict) /\ Good(e)
    <2>1. Good(b)
        BY <1>8
    <2>2. Holds(declare[m], w, strict) /\ Good(declare[m])
        BY <1>10, <1>11, <2>1, ParametersAreHeld, SMTT(60)
    <2> QED BY <1>12, <2>2
<1>14. PICK h \in Contexts : h = Current(e) /\ Fine(h)
    BY <1>13, CurrentIsFine
<1>15. PICK height \in Int : height = m + 1
    OBVIOUS
<1>16. PICK k : k = [h EXCEPT !.arity = m, !.height = height]
    OBVIOUS
<1>17. t = Update(e, k)
    BY <1>1, <1>2, <1>6, <1>11, <1>12, <1>14, <1>15, <1>16 DEF BeginFunction
<1>18. /\ k \in Contexts /\ k.type = h.type /\ k.scopeDepth = h.scopeDepth
       /\ k.last_continue = h.last_continue /\ k.last_break = h.last_break /\ k.code = h.code
       /\ k.locals = h.locals /\ k.upvalues = h.upvalues /\ k.visible = h.visible
    BY <1>15, <1>16 DEF Contexts
<1>19. Fine(k)
    BY <1>14, <1>18 DEF Fine
<1>20. Current(t) = k /\ t.error = e.error
    BY <1>13, <1>17, <1>19, Updated
<1>21. SameScope(h, k)
    BY <1>18 DEF SameScope, SameLocals
<1>22. Held(h, w, strict) => Held(k, w, strict)
    <2>1. Laid(h, w, strict) => Laid(k, w, strict)
        BY <1>14, <1>21, AlikeLays
    <2> QED BY <1>18, <2>1 DEF Held, NoneWaits
<1> QED BY <1>13, <1>14, <1>20, <1>22 DEF Holds



LEMMA DescendLays ==
    ASSUME Inv, Lexical, todo # <<>>, ~Has(Work, "define"),
           NEW s, Tame(Now, s), Holds(s, Work, Disciplined),
           s.error = NoError => Bound(Current(s), Work),
           NEW type \in InnerTypes, NEW m \in Nat, NEW parameters \in [1..m -> VariableNames],
           NEW t, t = BeginFunction(s, type, parameters), NEW e \in EndTasks,
           NEW tasks, tasks = <<Task("stats"), e>>, Descend(t, tasks)
    PROVE  Lexical'
<1>1. PICK n \in Nat \ {0} : n = Len(contexts)
    BY AtWork
<1>2. /\ Good(Now) /\ n \in 1..n /\ Len(todo) = n /\ todo \in Seq(Seq(Tasks))
      /\ contexts \in Seq(Contexts) /\ Current(Now) = contexts[n] /\ Work = todo[n]
      /\ Now.contexts = contexts /\ Work \in Seq(Tasks) /\ Now.error = error
    BY <1>1, AtWork DEF Now
<1>3. /\ contexts' = t.contexts /\ error' = t.error /\ todo' = Append(todo, tasks)
      /\ UNCHANGED family
    BY DEF Descend, Becomes
<1>4. PICK strict \in BOOLEAN : strict = Disciplined /\ strict = Disciplined'
    BY <1>3, StaysDisciplined
<1>5. /\ Good(s) /\ Len(s.contexts) = n /\ Current(s) = s.contexts[n]
      /\ \A j \in 1..n - 1 : Alike(contexts[j], s.contexts[j])
    <2>1. /\ Good(s) /\ Len(s.contexts) = n
          /\ \A j \in 1..n - 1 : Alike(contexts[j], s.contexts[j])
        BY <1>1, <1>2 DEF Tame, Follows
    <2> QED BY <2>1, CurrentIsFine
<1>6. type \in FunctionTypes
    BY DEF InnerTypes
<1>7. PICK d : d = Current(t)
    OBVIOUS
<1>8. /\ Good(t) /\ Len(t.contexts) = n + 1 /\ d = t.contexts[n + 1] /\ Fine(d)
      /\ t.error = NoError => s.error = NoError
    BY <1>5, <1>6, <1>7, FunctionBegins
<1>9. \A j \in 1..n : t.contexts[j] = s.contexts[j]
    BY <1>5, <1>6, <1>7, FunctionBegins, SMTT(30)
<1>10. t.error = NoError => error = NoError
    BY <1>2, <1>8 DEF Tame
<1>11. /\ tasks \in Seq(Tasks) /\ \A k \in 1..Len(tasks) : tasks[k].k \in {"stats", "endFunction"}
    <2>1. tasks \in Seq(Tasks) /\ Len(tasks) = 2 /\ tasks[1] = Task("stats") /\ tasks[2] = e
        BY WorkBegins
    <2>2. tasks[1].k = "stats" /\ tasks[2].k = "endFunction"
        BY <2>1 DEF Task, EndTasks
    <2>3. \A k \in 1..2 : k = 1 \/ k = 2
        OBVIOUS
    <2> QED BY <2>1, <2>2, <2>3
<1>12. todo'[n + 1] = tasks /\ \A j \in 1..n : todo'[j] = todo[j] /\ todo[j] \in Seq(Tasks)
    <2>1. PICK old \in Seq(Seq(Tasks)) : old = todo
        BY <1>2
    <2>2. PICK new : new = Append(old, tasks)
        OBVIOUS
    <2>3. new[n + 1] = tasks /\ \A j \in 1..n : new[j] = old[j]
        BY <1>2, <1>11, <2>1, <2>2, AppendProperties
    <2>4. \A j \in 1..n : old[j] \in Seq(Tasks)
        BY <1>2, <2>1
    <2> QED BY <1>3, <2>1, <2>2, <2>3, <2>4
<1>13. \A k \in 1..Len(tasks) : tasks[k] \notin ScopeTasks
    BY <1>11 DEF ScopeTasks, ForTasks
<1>14. ~Has(tasks, "define")
    BY <1>11 DEF Has
<1>15. Holds(t, tasks, strict)
    BY <1>5, <1>6, <1>11, <1>13, FunctionHolds
<1> SUFFICES ASSUME error' = NoError
             PROVE  /\ \A j \in 1..n + 1 : /\ Laid(contexts'[j], todo'[j], strict)
                                           /\ Declaring(contexts'[j], todo'[j])
                    /\ \A j \in 1..n : Bound(contexts'[j], todo'[j])
    <2>1. Len(contexts') = n + 1 /\ Len(contexts') - 1 = n
        BY <1>1, <1>3, <1>8
    <2> QED BY <1>4, <2>1 DEF Lexical
<1>16. error = NoError /\ s.error = NoError
    BY <1>3, <1>8, <1>10
<1>17. ASSUME NEW j \in 1..n - 1
       PROVE  /\ Laid(contexts'[j], todo'[j], strict) /\ Declaring(contexts'[j], todo'[j])
              /\ Bound(contexts'[j], todo'[j])
    <2>1. PICK c : c = contexts[j]
        OBVIOUS
    <2>2. PICK f : f = contexts'[j]
        OBVIOUS
    <2>3. j \in 1..n
        OBVIOUS
    <2>4. PICK w \in Seq(Tasks) : w = todo[j] /\ w = todo'[j]
        BY <1>12, <2>3
    <2>5. Fine(c)
        BY <1>1, <1>2, <2>1, <2>3 DEF Good
    <2>6. Alike(c, f)
        BY <1>3, <1>5, <1>9, <2>1, <2>2, <2>3
    <2>7. SameScope(c, f)
        BY <2>6 DEF Alike, SameScope, SameSettings
    <2>8. Laid(c, w, strict) /\ Declaring(c, w) /\ Bound(c, w)
        BY <1>1, <1>4, <1>16, <2>1, <2>3, <2>4 DEF Lexical
    <2>9. Laid(f, w, strict) /\ Declaring(f, w) /\ Bound(f, w)
        BY <2>5, <2>7, <2>8, AlikeLays
    <2> QED BY <2>2, <2>4, <2>9
<1>18. /\ Laid(contexts'[n], todo'[n], strict) /\ Declaring(contexts'[n], todo'[n])
       /\ Bound(contexts'[n], todo'[n])
    <2>1. contexts'[n] = Current(s) /\ todo'[n] = Work
        BY <1>2, <1>3, <1>5, <1>9, <1>12
    <2>2. Held(Current(s), Work, strict) /\ Bound(Current(s), Work)
        BY <1>4, <1>16 DEF Holds
    <2>3. Fine(Current(s))
        BY <1>5, CurrentIsFine
    <2>4. PICK l \in Nat : l = Len(Current(s).locals) /\ l \in 1..l
        BY <2>3, LastIsThere
    <2>5. Declaring(Current(s), Work)
        BY <2>2, <2>4 DEF Held, NoneWaits, Declaring
    <2> QED BY <2>1, <2>2, <2>5 DEF Held
<1>19. Laid(contexts'[n + 1], todo'[n + 1], strict) /\ Declaring(contexts'[n + 1], todo'[n + 1])
    <2>1. contexts'[n + 1] = d /\ todo'[n + 1] = tasks
        BY <1>3, <1>8, <1>12
    <2>2. Held(d, tasks, strict)
        BY <1>3, <1>7, <1>15 DEF Holds
    <2>3. PICK l \in Nat : l = Len(d.locals) /\ l \in 1..l
        BY <1>8, LastIsThere
    <2>4. Declaring(d, tasks)
        BY <1>14, <2>2, <2>3 DEF Held, NoneWaits, Declaring
    <2> QED BY <2>1, <2>2, <2>4 DEF Held
<1>20. \A j \in 1..n + 1 : j \in 1..n - 1 \/ j = n \/ j = n + 1
    OBVIOUS
<1>21. \A j \in 1..n : j \in 1..n - 1 \/ j = n
    OBVIOUS
<1> QED BY <1>17, <1>18, <1>19, <1>20, <1>21

LEMMA FunDeclarationScopes ==
    ASSUME Inv, Lexical, FunDeclaration
    PROVE  Lexical'
<1>1. PICK kind : kind = "stats"
    OBVIOUS
<1>2. Doing(kind) /\ kind \notin ExprTasks /\ kind # "define"
    BY <1>1 DEF FunDeclaration, ExprTasks
<1>3. PICK x \in Identifiers, parameters \in Parameters :
        Descend(BeginFunction(MarkInitialized(DeclareVariable(Now, x)), "function", parameters),
                <<Task("stats"), Function("function", x)>>)
    BY DEF FunDeclaration
<1>4. PICK rest : rest = Tail(Work)
    OBVIOUS
<1>5. PICK strict \in BOOLEAN : strict = Disciplined
    BY <1>2, <1>4, TaskHeld
<1>6. /\ todo # <<>> /\ Good(Now) /\ Work \in Seq(Tasks) /\ ~Has(Work, "define")
      /\ Holds(Now, Work, strict)
    BY <1>2, <1>4, <1>5, TaskHeld
<1>7. x \in Names /\ x \in VariableNames
    BY <1>3, FamilyBounds
<1>8. PICK r : r = DeclareVariable(Now, x)
    OBVIOUS
<1>9. PICK s : s = MarkInitialized(r)
    OBVIOUS
<1>10. Tame(Now, r) /\ Good(r) /\ CanDefine(Current(r)) /\ Waits(r, Work, strict)
    BY <1>6, <1>7, <1>8, DeclaresTame, DeclaresInside
<1>11. Tame(Now, s)
    <2>1. GetsWider(r, s) /\ Plainly(r, s)
        BY <1>9, <1>10, MarksInitialized
    <2>2. Tame(r, s)
        BY <1>10, <2>1, WiderTame
    <2> QED BY <1>6, <1>10, <2>2, TameOn
<1>12. /\ Holds(s, Work, strict)
       /\ s.error = NoError /\ Current(s).scopeDepth > 0 =>
            Current(s).locals[Len(Current(s).locals)].depth = Current(s).scopeDepth
    BY <1>6, <1>9, <1>10, MarkHolds
<1>13. s.error = NoError => Bound(Current(s), Work)
    BY <1>12 DEF Bound
<1>14. PICK type : type = "function"
    OBVIOUS
<1>15. type \in InnerTypes
    BY <1>14 DEF InnerTypes, FunctionTypes
<1>16. PICK m \in Nat : parameters \in [1..m -> VariableNames]
    BY <1>3, ParametersAre
<1>17. PICK e : e = Function("function", x)
    OBVIOUS
<1>18. e \in EndTasks
    BY <1>7, <1>17, EndTaskTypes
<1>19. PICK t : t = BeginFunction(s, type, parameters)
    OBVIOUS
<1>20. PICK tasks : tasks = <<Task("stats"), e>>
    OBVIOUS
<1>21. Descend(t, tasks)
    BY <1>3, <1>8, <1>9, <1>14, <1>17, <1>19, <1>20
<1>22. Holds(s, Work, Disciplined)
    BY <1>5, <1>12
<1> QED BY <1>6, <1>11, <1>13, <1>15, <1>16, <1>18, <1>19, <1>20, <1>21, <1>22, DescendLays

LEMMA MethodScopes ==
    ASSUME Inv, Lexical, Method
    PROVE  Lexical'
<1>1. PICK kind : kind = "methods"
    OBVIOUS
<1>2. Doing(kind) /\ kind \notin ExprTasks /\ kind # "define"
    BY <1>1 DEF Method, ExprTasks
<1>3. PICK type \in MethodTypes, parameters \in Parameters :
        Descend(BeginFunction(Now, type, parameters), <<Task("stats"), Function("method", "")>>)
    BY DEF Method, MethodTypes
<1>4. PICK rest : rest = Tail(Work)
    OBVIOUS
<1>5. /\ todo # <<>> /\ ~Has(Work, "define") /\ Work[1].k = kind
      /\ Holds(Now, Work, Disciplined)
    BY <1>2, <1>4, TaskHeld
<1>6. PICK s : s = Now
    OBVIOUS
<1>7. Tame(Now, s) /\ Holds(s, Work, Disciplined)
    BY <1>2, <1>5, <1>6, NowIsGood
<1>8. Bound(Current(s), Work)
    BY <1>1, <1>5 DEF Bound
<1>9. type \in InnerTypes
    BY <1>3 DEF InnerTypes, MethodTypes, FunctionTypes
<1>10. PICK m \in Nat : parameters \in [1..m -> VariableNames]
    BY <1>3, ParametersAre
<1>11. PICK e : e = Function("method", "")
    OBVIOUS
<1>12. e \in EndTasks
    BY <1>11, EndTaskTypes
<1>13. PICK t : t = BeginFunction(s, type, parameters)
    OBVIOUS
<1>14. PICK tasks : tasks = <<Task("stats"), e>>
    OBVIOUS
<1>15. Descend(t, tasks)
    BY <1>3, <1>6, <1>11, <1>13, <1>14
<1> QED BY <1>5, <1>7, <1>8, <1>9, <1>10, <1>12, <1>13, <1>14, <1>15, DescendLays



(* The function around the one that ends is as it was.                     *)
LEMMA AscendLays ==
    ASSUME Inv, Lexical, todo # <<>>, NEW n \in Nat, n = Len(contexts), n > 1,
           NEW o, Good(o), o.contexts = Front(contexts), o.error = error,
           NEW t, Tame(o, t), Becomes(t),
           t.error = NoError => SameScope(Current(o), Current(t)),
           todo' = Front(todo)
    PROVE  Lexical'
<1>1. /\ n \in 1..n /\ Len(todo) = n
      /\ contexts \in Seq(Contexts) /\ contexts # <<>> /\ todo \in Seq(Seq(Tasks))
    BY AtWork
<1>2. contexts' = t.contexts /\ error' = t.error /\ UNCHANGED family
    BY DEF Becomes
<1>3. PICK strict \in BOOLEAN : strict = Disciplined /\ strict = Disciplined'
    BY <1>2, StaysDisciplined
<1>4. PICK m \in Nat \ {0} : m = n - 1
    OBVIOUS
<1>5. Len(o.contexts) = m /\ \A j \in 1..m : o.contexts[j] = contexts[j] /\ j \in 1..n
    BY <1>1, <1>4, FrontAndLast, ZenonT(30)
<1>6. \A j \in 1..m : todo'[j] = todo[j] /\ todo[j] \in Seq(Tasks)
    <2>1. PICK old \in Seq(Seq(Tasks)) : old = todo
        BY <1>1
    <2>2. \A j \in 1..Len(old) - 1 : Front(old)[j] = old[j]
        <3>1. old # <<>>
            BY <2>1
        <3> QED BY <3>1, FrontAndLast
    <2>3. \A j \in 1..m : j \in 1..Len(old) - 1 /\ j \in 1..Len(old)
        BY <1>1, <1>4, <2>1
    <2>4. \A j \in 1..Len(old) : old[j] \in Seq(Tasks)
        BY <2>1
    <2> QED BY <2>1, <2>2, <2>3, <2>4
<1>7. /\ Good(t) /\ Len(t.contexts) = m
      /\ \A j \in 1..m - 1 : Alike(o.contexts[j], t.contexts[j])
    BY <1>5 DEF Tame, Follows
<1>8. Current(o) = contexts[m] /\ Current(t) = t.contexts[m]
    BY <1>4, <1>5, <1>7, CurrentIsFine
<1>9. t.error = NoError => error = NoError
    BY DEF Tame
<1> SUFFICES ASSUME error' = NoError
             PROVE  /\ \A j \in 1..m : /\ Laid(contexts'[j], todo'[j], strict)
                                       /\ Declaring(contexts'[j], todo'[j])
                    /\ \A j \in 1..m - 1 : Bound(contexts'[j], todo'[j])
    BY <1>2, <1>3, <1>7 DEF Lexical
<1>10. error = NoError /\ t.error = NoError
    BY <1>2, <1>9
<1>11. ASSUME NEW j \in 1..m
       PROVE  /\ Laid(contexts'[j], todo'[j], strict) /\ Declaring(contexts'[j], todo'[j])
              /\ Bound(contexts'[j], todo'[j])
    <2>1. PICK c : c = contexts[j]
        OBVIOUS
    <2>2. PICK d : d = contexts'[j]
        OBVIOUS
    <2>3. j \in 1..n /\ j \in 1..n - 1
        BY <1>4, <1>5
    <2>4. PICK w \in Seq(Tasks) : w = todo[j] /\ w = todo'[j]
        BY <1>6
    <2>5. Fine(c)
        BY <1>5, <2>1 DEF Good
    <2>6. SameScope(c, d)
        <3>1. CASE j = m
            BY <1>2, <1>8, <1>10, <2>1, <2>2, <3>1
        <3>2. CASE j # m
            <4>1. j \in 1..m - 1
                BY <3>2
            <4>2. Alike(c, d)
                BY <1>2, <1>5, <1>7, <2>1, <2>2, <4>1
            <4> QED BY <4>2 DEF Alike, SameScope, SameSettings
        <3> QED BY <3>1, <3>2
    <2>7. Laid(c, w, strict) /\ Declaring(c, w) /\ Bound(c, w)
        BY <1>3, <1>10, <2>1, <2>3, <2>4 DEF Lexical
    <2>8. Laid(d, w, strict) /\ Declaring(d, w) /\ Bound(d, w)
        BY <2>5, <2>6, <2>7, AlikeLays
    <2> QED BY <2>2, <2>4, <2>8
<1>12. \A j \in 1..m - 1 : j \in 1..m
    OBVIOUS
<1> QED BY <1>11, <1>12

(* The closure is made, and the variable it is bound to has its value.     *)
LEMMA ClosureStays ==
    ASSUME NEW o, Good(o), NEW at \in Nat, NEW made, made = Emit(o, "CLOSURE", at)
    PROVE  /\ Good(made) /\ made.error = o.error /\ SameScope(Current(o), Current(made))
           /\ SameScope(Current(o), Current(Emit(made, "METHOD", 0)))
<1>1. PICK closure \in Operations : closure = "CLOSURE"
    BY DEF Operations, Pushes
<1>2. PICK method \in Operations : method = "METHOD"
    BY DEF Operations, Pops
<1>3. closure \notin LookUps /\ method \notin LookUps
    BY <1>1, <1>2 DEF LookUps, UpvalueOps, GlobalOps
<1>4. PICK i \in Int : i = at
    OBVIOUS
<1>5. PICK none \in Int : none = 0
    OBVIOUS
<1>6. PICK blank \in VariableNames : blank = ""
    BY DEF VariableNames
<1>7. made = EmitNamed(o, closure, i, blank)
    BY <1>1, <1>4, <1>6 DEF Emit
<1>8. Calm(o, made) /\ Good(made)
    BY <1>1, <1>3, <1>4, EmitsCalm
<1>9. made.error = o.error
    BY <1>7, EmitsOneMore
<1>10. PICK t : t = Emit(made, method, none)
    OBVIOUS
<1>11. Calm(made, t)
    BY <1>3, <1>8, <1>10, EmitsCalm
<1>12. Calm(o, t)
    BY <1>8, <1>11, CalmOn
<1> QED BY <1>2, <1>5, <1>8, <1>9, <1>10, <1>12 DEF Calm

LEMMA DefinedAlready ==
    ASSUME NEW s, Good(s), CanDefine(Current(s)), NEW c, c = Current(s),
           c.scopeDepth > 0 => c.locals[Len(c.locals)].depth = c.scopeDepth,
           NEW name \in VariableNames, NEW t, t = DefineVariable(s, name)
    PROVE  SameScope(c, Current(t))
<1>1. c \in Contexts /\ Fine(c) /\ c.scopeDepth \in Nat
    BY CurrentIsFine, ScopeTypes
<1>2. CASE c.scopeDepth > 0
    <2>1. PICK d : d = Current(t)
        OBVIOUS
    <2>2. t = MarkInitialized(s)
        BY <1>2 DEF DefineVariable
    <2>3. /\ Len(d.locals) = Len(c.locals) /\ d.scopeDepth = c.scopeDepth
          /\ d.visible = c.visible
          /\ \A i \in 1..Len(c.locals) :
              /\ d.locals[i].name = c.locals[i].name
              /\ d.locals[i].depth = IF i = Len(c.locals) THEN c.scopeDepth ELSE c.locals[i].depth
        BY <1>2, <2>1, <2>2, MarksInside
    <2> QED BY <1>2, <2>1, <2>3 DEF SameScope, SameLocals
<1>3. CASE ~(c.scopeDepth > 0)
    BY <1>3, DefinesCalmly DEF Calm
<1> QED BY <1>2, <1>3

LEMMA EndFunctionScopes ==
    ASSUME Inv, Lexical, EndFunction
    PROVE  Lexical'
<1>1. PICK h : h = Work[1]
    OBVIOUS
<1>2. Doing("endFunction")
    BY DEF EndFunction
<1>3. /\ todo # <<>> /\ h \in Tasks /\ h.k = "endFunction" /\ Head(Work) = h /\ Last(Work) = h
    BY <1>1, <1>2, WorkEnds
<1>4. PICK n \in Nat \ {0} : n = Len(contexts)
    BY <1>3, AtWork
<1>5. /\ Good(Now) /\ n \in 1..n /\ Len(todo) = n /\ Work = todo[n]
      /\ contexts \in Seq(Contexts) /\ contexts # <<>> /\ Now.contexts = contexts
    BY <1>3, <1>4, AtWork
<1>6. PICK s : s = EmitReturn(Now)
    OBVIOUS
<1>7. PICK c : c = Current(s)
    OBVIOUS
<1>8. PICK o : o = [s EXCEPT !.contexts = Front(s.contexts)]
    OBVIOUS
<1>9. PICK made : made = Emit(o, "CLOSURE", Len(functions) + 1)
    OBVIOUS
<1>10. PICK t : t = CASE h.kind = "script" -> o
                      [] h.kind = "function" -> DefineVariable(made, h.name)
                      [] h.kind = "method" -> Emit(made, "METHOD", 0)
    OBVIOUS
<1>11. Becomes(t) /\ todo' = Front(todo)
    BY <1>3, <1>6, <1>7, <1>8, <1>9, <1>10 DEF EndFunction
<1>12. /\ Good(s) /\ s.error = error
       /\ Front(s.contexts) = Front(contexts)
    BY <1>5, <1>6, Returns DEF GetsWider, Follows, Now
<1>13. s \in States /\ s.error \in Errors
    BY <1>12, CurrentIsFine DEF Good
<1>14. PICK outer \in Seq(Contexts) : outer = Front(contexts)
    BY <1>5, FrontAndLast
<1>15. o \in States /\ o.contexts = outer /\ o.error = error
    BY <1>8, <1>12, <1>13, <1>14 DEF States
<1>16. /\ h.kind \in {"script", "function", "method"}
       /\ h.kind = "script" <=> n = 1
       /\ h.kind = "function" => CanDefine(contexts[n - 1]) /\ h.name \in Names
    <2>1. n \in 1..Len(contexts)
        BY <1>4, <1>5
    <2>2. /\ h.kind = "script" <=> n = 1
          /\ h.kind = "function" => CanDefine(contexts[n - 1]) /\ h.name \in Names
        BY <1>3, <1>5, <2>1 DEF Inv, Inside
    <2> QED BY <1>3, <2>2, TaskTypes
<1>17. Len(outer) = n - 1 /\ \A j \in 1..n - 1 : outer[j] = contexts[j]
    <2>1. /\ Len(Front(contexts)) = Len(contexts) - 1
          /\ \A j \in 1..Len(contexts) - 1 : Front(contexts)[j] = contexts[j]
        BY <1>5, FrontAndLast
    <2> QED BY <1>4, <1>14, <2>1
<1>18. CASE n = 1
    <2>1. t = o
        BY <1>10, <1>16, <1>18
    <2>2. Len(contexts') = 0
        BY <1>11, <1>15, <1>17, <1>18, <2>1 DEF Becomes
    <2>3. \A j \in 1..Len(contexts') : FALSE
        BY <2>2
    <2>4. \A j \in 1..Len(contexts') - 1 : FALSE
        BY <2>2
    <2> QED BY <2>3, <2>4 DEF Lexical
<1>19. CASE n # 1
    <2>1. n > 1 /\ n - 1 \in 1..n - 1 /\ n - 1 \in Nat \ {0}
        BY <1>5, <1>19
    <2>2. Good(o)
        <3>1. outer # <<>>
            BY <1>14, <1>17, <2>1, EmptySeq
        <3>2. \A j \in 1..n : Fine(contexts[j])
            BY <1>4, <1>5 DEF Good
        <3>3. \A j \in 1..n - 1 : j \in 1..n
            BY <1>5
        <3>4. \A j \in 1..Len(outer) : Fine(outer[j])
            BY <1>17, <3>2, <3>3
        <3> QED BY <1>15, <3>1, <3>4 DEF Good
    <2>3. Current(o) = contexts[n - 1]
        <3>1. Current(o) = o.contexts[Len(o.contexts)]
            BY <2>2, CurrentIsFine
        <3> QED BY <1>15, <1>17, <2>1, <3>1
    <2>4. PICK at \in Nat : at = Len(functions) + 1
        <3>1. functions \in Seq(Finished)
            BY DEF Inv, Settings
        <3>2. Len(functions) \in Nat
            BY <3>1, LenProperties
        <3> QED BY <3>2
    <2>5. made = Emit(o, "CLOSURE", at)
        BY <1>9, <2>4
    <2>6. h.kind = "function" => CanDefine(Current(o)) /\ h.name \in Names
        BY <1>16, <2>3
    <2>7. /\ h.kind = "function" => Tame(o, DefineVariable(made, h.name))
          /\ h.kind = "method" => Tame(o, Emit(made, "METHOD", 0))
        BY <1>3, <2>2, <2>4, <2>5, <2>6, ClosureIsTame
    <2>8. /\ Good(made) /\ made.error = error /\ SameScope(Current(o), Current(made))
          /\ SameScope(Current(o), Current(Emit(made, "METHOD", 0)))
        BY <1>15, <2>2, <2>4, <2>5, ClosureStays
    <2>9. ASSUME h.kind = "method"
          PROVE  Tame(o, t) /\ SameScope(Current(o), Current(t))
        <3>1. t = Emit(made, "METHOD", 0)
            BY <1>10, <2>9
        <3> QED BY <2>7, <2>8, <2>9, <3>1
    <2>10. ASSUME h.kind = "function"
           PROVE  Tame(o, t) /\ (t.error = NoError => SameScope(Current(o), Current(t)))
        <3>1. t = DefineVariable(made, h.name)
            BY <1>10, <2>10
        <3>2. Tame(o, t)
            BY <2>7, <2>10, <3>1
        <3>3. ASSUME t.error = NoError
              PROVE  SameScope(Current(o), Current(t))
            <4>1. error = NoError
                BY <1>15, <3>2, <3>3 DEF Tame
            <4>2. PICK b : b = Current(o)
                OBVIOUS
            <4>3. PICK d : d = Current(made)
                OBVIOUS
            <4>4. Bound(b, todo[n - 1])
                BY <1>4, <2>1, <2>3, <4>1, <4>2 DEF Lexical
            <4>5. todo[n - 1][1].k = "stats"
                BY <1>3, <1>4, <2>1, <2>10, OuterWaits
            <4>6. Fine(b) /\ SameScope(b, d)
                BY <2>2, <2>8, <4>2, <4>3, CurrentIsFine
            <4>7. PICK l \in Nat : l = Len(b.locals) /\ l \in 1..l
                BY <4>6, LastIsThere
            <4>8. d.scopeDepth > 0 => d.locals[Len(d.locals)].depth = d.scopeDepth
                BY <4>4, <4>5, <4>6, <4>7 DEF Bound, SameScope, SameLocals
            <4>9. CanDefine(d)
                BY <2>6, <2>10, <4>2, <4>6 DEF CanDefine, SameScope, SameLocals
            <4>10. PICK x \in VariableNames : x = h.name
                BY <2>6, <2>10 DEF VariableNames
            <4>11. SameScope(d, Current(t))
                BY <2>8, <3>1, <4>3, <4>8, <4>9, <4>10, DefinedAlready
            <4> QED BY <4>2, <4>6, <4>7, <4>11 DEF SameScope, SameLocals
        <3> QED BY <3>2, <3>3
    <2>11. Tame(o, t) /\ (t.error = NoError => SameScope(Current(o), Current(t)))
        BY <1>16, <1>19, <2>9, <2>10
    <2>12. o.contexts = Front(contexts)
        BY <1>14, <1>15
    <2> QED BY <1>3, <1>4, <1>11, <1>15, <2>1, <2>2, <2>11, <2>12, AscendLays
<1> QED BY <1>18, <1>19

LEMMA InitLexical ==
    ASSUME Init
    PROVE  Lexical
<1>1. PICK script \in FunctionTypes : script = "script"
    BY DEF FunctionTypes
<1>2. PICK c : c = NewContext(script)
    OBVIOUS
<1>3. c \in Contexts /\ Fine(c) /\ c.scopeDepth = 0
    BY <1>2, NewContextIsFine
<1>4. PICK e : e = Function("script", "")
    OBVIOUS
<1>5. e \in EndTasks
    BY <1>4, EndTaskTypes
<1>6. PICK u : u = <<Task("stats"), e>>
    OBVIOUS
<1>7. u \in Seq(Tasks) /\ \A k \in 1..Len(u) : u[k].k \in {"stats", "endFunction"}
    <2>1. u \in Seq(Tasks) /\ Len(u) = 2 /\ u[1] = Task("stats") /\ u[2] = e
        BY <1>5, <1>6, WorkBegins
    <2>2. u[1].k = "stats" /\ u[2].k = "endFunction"
        BY <1>5, <2>1 DEF Task, EndTasks
    <2>3. \A k \in 1..2 : k = 1 \/ k = 2
        OBVIOUS
    <2> QED BY <2>1, <2>2, <2>3
<1>8. contexts = <<c>> /\ todo = <<u>>
    BY <1>1, <1>2, <1>4, <1>6 DEF Init
<1>9. Len(contexts) = 1 /\ contexts[1] = c /\ \A j \in 1..Len(contexts) : j = 1
    BY <1>3, <1>8, OneElement
<1>10. todo[1] = u
    BY <1>7, <1>8, OneElement
<1>11. PICK strict \in BOOLEAN : strict = Disciplined
    BY DEF Disciplined, Without, Syntax
<1>12. \A k \in 1..Len(u) : u[k] \notin ScopeTasks
    BY <1>7 DEF ScopeTasks, ForTasks
<1>13. Held(c, u, strict)
    BY <1>2, <1>3, <1>7, <1>12, NewContextHas, FirstIsLaid
<1>14. PICK l \in Nat : l = Len(c.locals) /\ l \in 1..l
    BY <1>3, LastIsThere
<1>15. Declaring(c, u)
    BY <1>3, <1>13, <1>14 DEF Declaring, Held, NoneWaits
<1>16. \A j \in 1..Len(contexts) - 1 : FALSE
    BY <1>9
<1> QED BY <1>9, <1>10, <1>11, <1>13, <1>15, <1>16 DEF Lexical, Held

LEMMA UnchangedLexical ==
    ASSUME Lexical, UNCHANGED vars
    PROVE  Lexical'
<1>1. UNCHANGED <<contexts, todo, error, family>>
    BY DEF vars
<1>2. Disciplined' = Disciplined
    BY <1>1, StaysDisciplined
<1> QED BY <1>1, <1>2 DEF Lexical

-----------------------------------------------------------------------------
(* The theorems.                                                           *)

LEMMA InitOrdered ==
    ASSUME Init
    PROVE  Ordered
<1>1. PICK script \in FunctionTypes : script = "script"
    BY DEF FunctionTypes
<1>2. PICK c : c = NewContext(script)
    OBVIOUS
<1>3. c \in Contexts /\ c.code = <<>> /\ c.last_break = 0
    BY <1>2, NewContextIsFine
<1>4. PICK e : e = Function("script", "")
    OBVIOUS
<1>5. e \in EndTasks
    BY <1>4, EndTaskTypes
<1>6. PICK u : u = <<Task("stats"), e>>
    OBVIOUS
<1>7. u \in Seq(Tasks) /\ Len(u) = 2 /\ u[1].k = "stats" /\ u[2].k = "endFunction"
    BY <1>5, <1>6, WorkBegins DEF Task, EndTasks
<1>8. contexts = <<c>> /\ todo = <<u>>
    BY <1>1, <1>2, <1>4, <1>6 DEF Init
<1>9. /\ contexts \in Seq(Contexts) /\ Len(contexts) = 1 /\ contexts[1] = c
      /\ \A j \in 1..Len(contexts) : j = 1
    BY <1>3, <1>8, OneElement
<1>10. /\ todo \in Seq(Seq(Tasks)) /\ Len(todo) = 1 /\ todo[1] = u
    BY <1>7, <1>8, OneElement
<1>11. currentClass = <<>> /\ functions = <<>>
    BY Zenon DEF Init
<1>12. \A i \in 1..Len(c.code) : FALSE
    BY <1>3
<1>13. Scoped(Now)
    BY <1>9, <1>12 DEF Scoped, Upvalues, Globals, Now
<1>14. ScopedFunctions
    BY <1>11 DEF ScopedFunctions
<1>15. \A k \in 1..Len(u) : u[k].k \in {"stats", "endFunction"}
    BY <1>7
<1>16. \A j \in 1..Len(contexts) : Lands(contexts[j], todo[j])
    <2>1. AtJump(c, c.last_break)
        BY <1>3, NoJumpAtZero
    <2>2. \A k \in 1..Len(u) : Landings(u[k]) = {}
        BY <1>15 DEF Landings, LoopTasks, JumpsOf
    <2>3. Lands(c, u)
        BY <2>1, <2>2 DEF Lands
    <2> QED BY <1>9, <1>10, <2>3
<1>17. OpenClasses
    <2>1. PICK at : at = [k \in 1..Len(currentClass) |-> 1]
        OBVIOUS
    <2>2. \A k \in 1..Len(currentClass) : FALSE
        BY <1>11
    <2>3. at \in [1..Len(currentClass) -> 1..Len(contexts)]
        BY <2>1, <2>2
    <2>4. ClassesAt(contexts, todo, currentClass, at)
        BY <2>2, <2>3 DEF ClassesAt
    <2> QED BY <2>3, <2>4 DEF OpenClasses
<1>18. SuperWaits
    <2>1. Work = u
        <3>1. todo \in Seq(Seq(Tasks)) /\ todo # << >> /\ Len(todo) = 1
            BY <1>10, EmptySeq
        <3>2. Last(todo) = todo[1]
            BY <3>1, FrontAndLast
        <3> QED BY <3>2, <1>10 DEF Work
    <2>2. ~Has(u, "superInvoke")
        BY <1>15 DEF Has
    <2> QED BY <2>1, <2>2 DEF SuperWaits
<1> QED BY <1>13, <1>14, <1>16, <1>17, <1>18 DEF Ordered

LEMMA UnchangedOrders ==
    ASSUME Inv, Ordered, UNCHANGED vars
    PROVE  Ordered'
BY Zenon DEF Ordered, ScopedFunctions, OpenClasses, SuperWaits, Scoped, Now, Work, InSubclass, vars

LEMMA NextKeepsOrdered ==
    ASSUME Inv, Ordered, Lexical, [Next]_vars
    PROVE  Ordered' /\ Lexical'
<1>1. CASE VarDeclaration
    BY <1>1, VarDeclarationOrders, VarDeclarationScopes
<1>2. CASE EndDeclaration
    BY <1>2, EndDeclarationOrders, EndDeclarationScopes
<1>3. CASE FunDeclaration
    BY <1>3, FunDeclarationOrders, FunDeclarationScopes
<1>4. CASE EndFunction
    BY <1>4, EndFunctionOrders, EndFunctionScopes
<1>5. CASE ClassDeclaration
    BY <1>5, ClassDeclarationOrders, ClassDeclarationScopes
<1>6. CASE Method
    BY <1>6, MethodOrders, MethodScopes
<1>7. CASE EndOfMethods
    BY <1>7, EndOfMethodsOrders, EndOfMethodsScopes
<1>8. CASE EndClass
    BY <1>8, EndClassOrders, EndClassScopes
<1>9. CASE EndOfBlock
    BY <1>9, EndOfBlockOrders
<1>10. CASE Block
    BY <1>10, BlockOrders, BlockScopes
<1>11. CASE EndBlock
    BY <1>11, EndBlockOrders, EndBlockScopes
<1>12. CASE PrintStatement
    BY <1>12, PrintStatementOrders
<1>13. CASE ExprStatement
    BY <1>13, ExpressionStatementOrders
<1>14. CASE ReturnStatement
    BY <1>14, ReturnStatementOrders
<1>15. CASE IfStatement
    BY <1>15, IfStatementOrders
<1>16. CASE IfThen
    BY <1>16, IfThenOrders
<1>17. CASE IfElse
    BY <1>17, IfElseOrders
<1>18. CASE WhileStatement
    BY <1>18, WhileStatementOrders
<1>19. CASE WhileBody
    BY <1>19, WhileBodyOrders
<1>20. CASE WhileEnd
    BY <1>20, WhileEndOrders
<1>21. CASE ForStatement
    BY <1>21, ForStatementOrders, ForStatementScopes
<1>22. CASE ForCondition
    BY <1>22, ForConditionOrders
<1>23. CASE ForExit
    BY <1>23, ForExitOrders
<1>24. CASE ForIteration
    BY <1>24, ForIterationOrders
<1>25. CASE ForIterated
    BY <1>25, ForIteratedOrders
<1>26. CASE ForEnd
    BY <1>26, ForEndOrders, ForEndScopes
<1>27. CASE BreakStatement
    BY <1>27, BreakStatementOrders, BreakStatementScopes
<1>28. CASE ContinueStatement
    BY <1>28, ContinueStatementOrders, ContinueStatementScopes
<1>29. CASE Literal
    BY <1>29, LiteralOrders
<1>30. CASE Variable
    BY <1>30, VariableOrders
<1>31. CASE This
    BY <1>31, ThisOrders
<1>32. CASE Super
    BY <1>32, SuperOrders
<1>33. CASE SuperInvoke
    BY <1>33, SuperInvokeOrders
<1>34. CASE Unary
    BY <1>34, UnaryOrders
<1>35. CASE Binary
    BY <1>35, BinaryOrders
<1>36. CASE Logic
    BY <1>36, LogicOrders
<1>37. CASE AndJump
    BY <1>37, AndJumpOrders
<1>38. CASE OrJump
    BY <1>38, OrJumpOrders
<1>39. CASE Assign
    BY <1>39, AssignOrders
<1>40. CASE Call
    BY <1>40, CallOrders
<1>41. CASE Dot
    BY <1>41, DotOrders
<1>42. CASE EmitOp
    BY <1>42, EmitOpOrders
<1>43. CASE PatchForward
    BY <1>43, PatchForwardOrders
<1>44. CASE Compiled
    BY <1>44, UnchangedOrders, UnchangedLexical DEF Compiled
<1>45. CASE UNCHANGED vars
    BY <1>45, UnchangedOrders, UnchangedLexical
<1> QED  BY <1>1, <1>2, <1>3, <1>4, <1>5, <1>6, <1>7, <1>8, <1>9, <1>10, <1>11, <1>12, <1>13,
          <1>14, <1>15, <1>16, <1>17, <1>18, <1>19, <1>20, <1>21, <1>22, <1>23, <1>24,
          <1>25, <1>26, <1>27, <1>28, <1>29, <1>30, <1>31, <1>32, <1>33, <1>34, <1>35,
          <1>36, <1>37, <1>38, <1>39, <1>40, <1>41, <1>42, <1>43, <1>44, <1>45, Zenon DEF Next

(* The code generator keeps to the scopes of the program's text: in every  *)
(* state of every program each upvalue an instruction uses is the          *)
(* innermost enclosing variable of its name and captured, each global is   *)
(* an identifier of the program, around every open subclass there is a     *)
(* local `super', and the locals of each function are, by their depths,    *)
(* among the names of the scopes that are still to end.                    *)
THEOREM NamesAreOrdered == Spec => [](Ordered /\ Lexical)
<1>1. Init => Ordered /\ Lexical
    BY InitOrdered, InitLexical
<1>2. Inv /\ (Ordered /\ Lexical) /\ [Next]_vars => (Ordered /\ Lexical)'
    BY NextKeepsOrdered
<1> QED BY <1>1, <1>2, CompilerInvariantHolds, PTL DEF Spec

(* `this' and `super' are never looked up as globals, however classes and  *)
(* functions are nested.                                                   *)
THEOREM ThisIsNeverGlobal == Spec => []NoGlobalThis
<1>1. ASSUME Ordered PROVE NoGlobalThis
    <2> SUFFICES ASSUME error = NoError, NEW code \in AllCode, NEW i \in 1..Len(code),
                        code[i].op \in GlobalOps
                 PROVE  code[i].name \in Names
        BY DEF NoGlobalThis, Settled, GlobalOps
    <2>1. \A j \in 1..Len(contexts) : Globals(contexts[j].code)
        BY <1>1 DEF Ordered, Scoped, Now
    <2>2. \A j \in 1..Len(functions) : Globals(functions[j].code)
        BY <1>1 DEF Ordered, ScopedFunctions
    <2> QED BY <2>1, <2>2 DEF AllCode, Globals
<1> QED BY <1>1, NamesAreOrdered, PTL

(* An upvalue reaches the innermost enclosing variable of its name through *)
(* every function in between, and that variable is marked captured: it is  *)
(* closed when its scope ends, never just popped.                          *)
THEOREM UpvaluesReachTheirVariables == Spec => []UpvaluesResolve
<1>1. ASSUME Ordered PROVE UpvaluesResolve
    BY <1>1 DEF Ordered, Scoped, Now, UpvaluesResolve, Settled, Upvalues, UpvalueOps
<1> QED BY <1>1, NamesAreOrdered, PTL

(* Without break and continue the locals the compiler resolves names       *)
(* against are, one for one, the names of the blocks that are open, in     *)
(* every function that is being compiled.                                  *)
THEOREM LocalsAreTheNamesInScope == Spec => []LexicalScopeInOrder
<1>1. ASSUME Inv, Lexical PROVE LexicalScopeInOrder
    <2> SUFFICES ASSUME error = NoError, Disciplined, NEW j \in 1..Len(contexts)
                 PROVE  NamesInScope(contexts[j])
        BY DEF LexicalScopeInOrder, Settled, Disciplined
    <2>1. PICK c \in Contexts : c = contexts[j]
        BY <1>1 DEF Inv, Compiling, Fine
    <2>2. Laid(c, todo[j], TRUE)
        BY <1>1, <2>1 DEF Lexical
    <2>3. PICK place : Shown(c, place, TRUE)
        BY <2>2 DEF Laid
    <2>4. PICK n \in Nat : n = Len(c.locals)
        BY ScopeTypes
    <2>5. Len(c.visible) = n /\ \A i \in 1..n : c.visible[i] = c.locals[i].name
        BY <2>3, <2>4 DEF Shown
    <2>6. c.visible \in [1..n -> VariableNames]
        <3>1. PICK visible \in Seq(VariableNames) : visible = c.visible
            BY ScopeTypes
        <3> QED BY <2>5, <3>1
    <2>7. c.visible = [i \in 1..n |-> c.locals[i].name]
        BY <2>5, <2>6
    <2> QED BY <2>1, <2>4, <2>7 DEF NamesInScope
<1> QED BY <1>1, NamesAreOrdered, CompilerInvariantHolds, PTL

(* No local outlives its scope, whatever break and continue have dropped:  *)
(* every local is among the names of the blocks that are open.             *)
THEOREM LocalsDieWithTheirScope == Spec => []NothingOutlivesItsScope
<1>1. ASSUME Lexical PROVE NothingOutlivesItsScope
    <2> SUFFICES ASSUME error = NoError, NEW j \in 1..Len(contexts),
                        NEW i \in 1..Len(contexts[j].locals)
                 PROVE  \E k \in i..Len(contexts[j].visible) :
                            contexts[j].visible[k] = contexts[j].locals[i].name
        BY DEF NothingOutlivesItsScope, Settled
    <2>1. Laid(contexts[j], todo[j], Disciplined)
        BY <1>1 DEF Lexical
    <2>2. PICK place : Shown(contexts[j], place, Disciplined)
        BY <2>1 DEF Laid
    <2> QED BY <2>2 DEF Shown
<1> QED BY <1>1, NamesAreOrdered, PTL

=============================================================================
