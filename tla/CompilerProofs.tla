--------------------------- MODULE CompilerProofs ---------------------------
(***************************************************************************)
(* Inv of module CompilerInvariant is inductive, so that its parts hold of *)
(* the compilation of every program, whatever the limits are.              *)
(***************************************************************************)
EXTENDS CompilerInvariant, SequenceTheorems, FiniteSetTheorems, WellFoundedInduction, TLAPS


-----------------------------------------------------------------------------
(* Sequences.                                                              *)

LEMMA FrontAndLast ==
    ASSUME NEW S, NEW s \in Seq(S), s # <<>>
    PROVE  /\ Len(s) \in Nat \ {0} /\ Len(s) \in 1..Len(s) /\ Last(s) = s[Len(s)] /\ Last(s) \in S
           /\ Front(s) \in Seq(S) /\ Len(Front(s)) = Len(s) - 1
           /\ \A j \in 1..Len(s) - 1 : Front(s)[j] = s[j] /\ j \in 1..Len(s)
<1>1. PICK n : n = Len(s)
    OBVIOUS
<1>2. n \in Nat \ {0} /\ n \in 1..n /\ \A i \in 1..n : s[i] \in S
    BY <1>1, EmptySeq, ElementOfSeq
<1>3. \A i \in 1..n - 1 : s[i] \in S
    BY <1>2
<1>4. /\ SubSeq(s, 1, n - 1) \in Seq(S)
      /\ Len(SubSeq(s, 1, n - 1)) = IF 1 <= n - 1 THEN (n - 1) - 1 + 1 ELSE 0
      /\ \A i \in 1..(n - 1) - 1 + 1 : SubSeq(s, 1, n - 1)[i] = s[1 + i - 1]
    BY <1>2, <1>3, SubSeqProperties
<1>5. Front(s) = SubSeq(s, 1, n - 1)
    BY <1>1 DEF Front
<1> HIDE DEF Front
<1>6. Len(Front(s)) = n - 1 /\ \A j \in 1..n - 1 : Front(s)[j] = s[j]
    BY <1>2, <1>4, <1>5
<1> QED BY <1>1, <1>2, <1>4, <1>5, <1>6 DEF Last

(* The last element is put in place of another.                            *)
WithLast(t, s, e, S) ==
    /\ t \in Seq(S) /\ t # <<>> /\ Len(t) = Len(s) /\ Last(t) = e /\ t[Len(s)] = e
    /\ \A j \in 1..Len(s) - 1 : t[j] = s[j]
    /\ Front(t) = Front(s)

LEMMA LastReplaced ==
    ASSUME NEW S, NEW s \in Seq(S), s # <<>>, NEW e \in S
    PROVE  WithLast(Append(Front(s), e), s, e, S)
<1> DEFINE t == Append(Front(s), e)
<1> HIDE DEF t
<1>1. PICK f : f = Front(s)
    OBVIOUS
<1>2. PICK n : n = Len(s)
    OBVIOUS
<1>3. /\ n \in Nat \ {0} /\ f \in Seq(S) /\ Len(f) = n - 1
      /\ \A j \in 1..n - 1 : f[j] = s[j]
    BY <1>1, <1>2, FrontAndLast
<1>4. /\ t \in Seq(S) /\ t # <<>> /\ Len(t) = n
      /\ \A j \in 1..n - 1 : t[j] = f[j]
      /\ t[n] = e
    <2>1. /\ t \in Seq(S) /\ t # <<>> /\ Len(t) = Len(f) + 1
          /\ \A i \in 1..Len(f) : t[i] = f[i]
          /\ t[Len(f) + 1] = e
        BY <1>1, <1>3, AppendProperties DEF t
    <2> QED BY <1>3, <2>1
<1>5. Last(t) = e
    BY <1>4 DEF Last
<1>6. Front(t) = f
    <2>1. Front(t) \in Seq(S) /\ Len(Front(t)) = n - 1 /\ \A j \in 1..n - 1 : Front(t)[j] = t[j]
        BY <1>4, FrontAndLast
    <2> QED BY <1>3, <1>4, <2>1, SeqEqual
<1> QED BY <1>1, <1>2, <1>3, <1>4, <1>5, <1>6 DEF WithLast, t

(* What is in front of the rest, and behind.                               *)
LEMMA Joined ==
    ASSUME NEW S, NEW s \in Seq(S), NEW t \in Seq(S), NEW u, u = s \o t,
           NEW m, m = Len(s), NEW n, n = Len(t)
    PROVE  /\ m \in Nat /\ n \in Nat /\ u \in Seq(S) /\ Len(u) = m + n
           /\ \A i \in 1..m : i \in 1..Len(u) /\ u[i] = s[i]
           /\ \A i \in 1..n : m + i \in 1..Len(u) /\ u[m + i] = t[i]
<1>1. m \in Nat /\ n \in Nat
    BY LenProperties
<1>2. /\ u \in Seq(S) /\ Len(u) = m + n
      /\ \A i \in 1..m + n : u[i] = IF i <= m THEN s[i] ELSE t[i - m]
    BY ConcatProperties
<1>3. \A i \in 1..m : i \in 1..Len(u) /\ u[i] = s[i]
    BY <1>1, <1>2
<1>4. ASSUME NEW i \in 1..n PROVE m + i \in 1..Len(u) /\ u[m + i] = t[i]
    <2>1. m + i \in 1..m + n /\ ~(m + i <= m) /\ (m + i) - m = i
        BY <1>1
    <2> QED BY <1>2, <2>1
<1> QED BY <1>1, <1>2, <1>3, <1>4

LEMMA InEither ==
    ASSUME NEW m \in Nat, NEW n \in Nat, NEW k \in 1..m + n
    PROVE  k \in 1..m \/ \E i \in 1..n : k = m + i
<1>1. ASSUME k \notin 1..m PROVE \E i \in 1..n : k = m + i
    <2>1. k - m \in 1..n /\ k = m + (k - m)
        BY <1>1
    <2> QED BY <2>1
<1> QED BY <1>1

LEMMA TailOf ==
    ASSUME NEW S, NEW s \in Seq(S), s # <<>>, NEW t, t = Tail(s), NEW n, n = Len(s)
    PROVE  /\ n \in Nat \ {0} /\ 1 \in 1..n /\ Head(s) = s[1] /\ s[1] \in S
           /\ t \in Seq(S) /\ Len(t) = n - 1
           /\ \A i \in 1..n - 1 : i + 1 \in 1..n /\ t[i] = s[i + 1]
           /\ \A k \in 1..n : k = 1 \/ \E i \in 1..n - 1 : k = i + 1
<1>1. n \in Nat \ {0} /\ 1 \in 1..n
    BY EmptySeq
<1>2. s[1] \in S
    BY <1>1, ElementOfSeq
<1>3. t \in Seq(S) /\ Len(t) = n - 1 /\ \A i \in 1..Len(t) : t[i] = s[i + 1]
    BY HeadTailProperties
<1>4. ASSUME NEW k \in 1..n, k # 1 PROVE \E i \in 1..n - 1 : k = i + 1
    <2>1. k - 1 \in 1..n - 1 /\ k = (k - 1) + 1
        BY <1>1, <1>4
    <2> QED BY <2>1
<1>5. Head(s) = s[1]
    OBVIOUS
<1>6. \A i \in 1..n - 1 : i + 1 \in 1..n
    BY <1>1
<1> QED BY <1>1, <1>2, <1>3, <1>4, <1>5, <1>6
-----------------------------------------------------------------------------
(* The assumptions on the constants, one by one.                           *)
LEMMA Limits ==
    /\ UINT8_COUNT \in Nat /\ UINT8_COUNT >= 2
    /\ "" \notin Names /\ "this" \notin Names /\ "super" \notin Names
    /\ \A f \in Families :
        f.syntax \subseteq AllSyntax /\ f.names \subseteq Names /\ f.nodes \in Nat /\ f.arguments \in Nat
<1>1. UINT8_COUNT \in Nat \ {0, 1}
    BY CompilerAssumption DEF CompilerAssumption
<1>2. {"", "this", "super"} \cap Names = {}
    BY CompilerAssumption DEF CompilerAssumption
<1>3. \A f \in Families :
        f.syntax \subseteq AllSyntax /\ f.names \subseteq Names /\ f.nodes \in Nat /\ f.arguments \in Nat
    BY CompilerAssumption DEF CompilerAssumption
<1>4. UINT8_COUNT \in Nat /\ UINT8_COUNT >= 2
    BY <1>1
<1>5. "" \notin Names /\ "this" \notin Names /\ "super" \notin Names
    BY <1>2
<1> QED BY <1>3, <1>4, <1>5

-----------------------------------------------------------------------------
(* Tasks.  Of a function's work w the first is done, which leaves Tail(w); *)
(* tasks that come before the rest.                                        *)

LEMMA PendingTail ==
    ASSUME NEW c, NEW w, Pending(c, w), w[1].k # "endFunction"
    PROVE  /\ Pending(c, Tail(w)) /\ Last(Tail(w)) = Last(w)
           /\ \A i \in 1..Len(Tail(w)) : Before(w[1], Tail(w)[i])
           /\ \A p : OpenLoop(w, 1, p) => OpenLoop(Tail(w), 0, p)
<1>1. PICK t : t = Tail(w)
    OBVIOUS
<1>2. PICK n : n = Len(w)
    OBVIOUS
<1>3. w \in Seq(Tasks) /\ w # <<>>
    BY DEF Pending
<1>4. /\ n \in Nat \ {0} /\ t \in Seq(Tasks) /\ Len(t) = n - 1
      /\ \A i \in 1..n - 1 : i + 1 \in 1..n /\ t[i] = w[i + 1]
    BY <1>1, <1>2, <1>3, TailOf
<1>5. n # 1 /\ Last(t) = Last(w)
    <2>1. w[n].k = "endFunction"
        BY <1>2 DEF Pending, Last
    <2>2. n # 1
        BY <2>1
    <2>3. t[n - 1] = w[n - 1 + 1] /\ n - 1 + 1 = n
        BY <1>4, <2>2
    <2> QED BY <1>2, <1>4, <2>2, <2>3 DEF Last
<1>6. t # <<>>
    <2>1. n - 1 # 0
        BY <1>4, <1>5
    <2> QED BY <1>4, <2>1, EmptySeq
<1>7. ASSUME NEW k \in 1..n - 1, NEW i \in 1..k - 1 PROVE Before(t[i], t[k])
    <2>1. k + 1 \in 1..n /\ i + 1 \in 1..(k + 1) - 1 /\ i \in 1..n - 1
        BY <1>4
    <2>2. Before(w[i + 1], w[k + 1])
        BY <1>2, <2>1 DEF Pending
    <2> QED BY <1>4, <2>1, <2>2
<1>8. \A i \in 1..n - 1 : Fits(c, t[i])
    BY <1>2, <1>4 DEF Pending
<1>9. ASSUME NEW i \in 0..n - 1, NEW p, OpenLoop(w, i + 1, p) PROVE OpenLoop(t, i, p)
    <2>1. CASE p = 0
        BY <2>1 DEF OpenLoop
    <2>2. CASE \E k \in (i + 1) + 1..n : StartsAt(w[k], p)
        <3>1. PICK k \in (i + 1) + 1..n : StartsAt(w[k], p)
            BY <2>2
        <3>2. k - 1 \in i + 1..n - 1 /\ k - 1 \in 1..n - 1 /\ (k - 1) + 1 = k
            BY <1>4
        <3> QED BY <1>4, <3>1, <3>2 DEF OpenLoop
    <2> QED BY <1>2, <1>9, <2>1, <2>2 DEF OpenLoop
<1>10. ASSUME NEW i \in 1..n - 1, t[i].k \in LoopTasks
       PROVE  OpenLoop(t, i, t[i].loop.saved.continue)
    <2>1. t[i] = w[i + 1] /\ i + 1 \in 1..n /\ i \in 0..n - 1
        BY <1>4
    <2>2. OpenLoop(w, i + 1, t[i].loop.saved.continue)
        BY <1>2, <1>10, <2>1 DEF Pending
    <2> QED BY <1>9, <2>1, <2>2
<1>11. Pending(c, t)
    BY <1>3, <1>4, <1>5, <1>6, <1>7, <1>8, <1>10 DEF Pending
<1>12. \A i \in 1..n - 1 : Before(w[1], t[i])
    <2> SUFFICES ASSUME NEW i \in 1..n - 1 PROVE Before(w[1], t[i])
        OBVIOUS
    <2>1. i + 1 \in 1..n /\ 1 \in 1..(i + 1) - 1 /\ t[i] = w[i + 1]
        BY <1>4
    <2> QED BY <1>2, <2>1 DEF Pending
<1>13. \A p : OpenLoop(w, 1, p) => OpenLoop(t, 0, p)
    <2>1. 0 \in 0..n - 1 /\ 0 + 1 = 1
        BY <1>4
    <2> QED BY <1>9, <2>1
<1> QED BY <1>1, <1>4, <1>5, <1>11, <1>12, <1>13

(* New tasks in front of the rest r.                                       *)
Fitting(c, tasks, r) ==
    /\ tasks \in Seq(Tasks)
    /\ \A k \in 1..Len(tasks) :
        /\ Fits(c, tasks[k])
        /\ \A i \in 1..k - 1 : Before(tasks[i], tasks[k])
        /\ \A i \in 1..Len(r) : Before(tasks[k], r[i])
        /\ tasks[k].k \in LoopTasks => OpenLoop(r, 0, tasks[k].loop.saved.continue)

LEMMA OpenLoopBehind ==
    ASSUME NEW tasks \in Seq(Tasks), NEW r \in Seq(Tasks), NEW p, NEW i \in 0..Len(tasks),
           OpenLoop(r, 0, p)
    PROVE  OpenLoop(tasks \o r, i, p)
<1>1. PICK m : m = Len(tasks)
    OBVIOUS
<1>2. PICK n : n = Len(r)
    OBVIOUS
<1>3. PICK u : u = tasks \o r
    OBVIOUS
<1>4. /\ m \in Nat /\ n \in Nat /\ Len(u) = m + n
      /\ \A l \in 1..n : m + l \in 1..Len(u) /\ u[m + l] = r[l]
    BY <1>1, <1>2, <1>3, Joined
<1>5. CASE p = 0
    BY <1>5 DEF OpenLoop
<1>6. CASE \E k \in 1..n : StartsAt(r[k], p)
    <2>1. PICK k \in 1..n : StartsAt(r[k], p)
        BY <1>6
    <2>2. m + k \in i + 1..Len(u)
        BY <1>1, <1>4
    <2> QED BY <1>3, <1>4, <2>1, <2>2 DEF OpenLoop
<1>7. p = 0 \/ \E k \in 1..n : StartsAt(r[k], p)
    BY <1>2 DEF OpenLoop
<1> QED BY <1>5, <1>6, <1>7

LEMMA PendingPushed ==
    ASSUME NEW c, NEW r, Pending(c, r), NEW tasks, Fitting(c, tasks, r)
    PROVE  /\ Pending(c, tasks \o r) /\ Last(tasks \o r) = Last(r)
           /\ Len(tasks \o r) = Len(tasks) + Len(r)
           /\ \A k \in 1..Len(tasks) : (tasks \o r)[k] = tasks[k]
<1>1. PICK m : m = Len(tasks)
    OBVIOUS
<1>2. PICK n : n = Len(r)
    OBVIOUS
<1>3. PICK u : u = tasks \o r
    OBVIOUS
<1>4. tasks \in Seq(Tasks) /\ r \in Seq(Tasks) /\ r # <<>>
    BY DEF Pending, Fitting
<1>5. /\ m \in Nat /\ n \in Nat /\ u \in Seq(Tasks) /\ Len(u) = m + n
      /\ \A i \in 1..m : i \in 1..Len(u) /\ u[i] = tasks[i]
      /\ \A i \in 1..n : m + i \in 1..Len(u) /\ u[m + i] = r[i]
      /\ \A k \in 1..Len(u) : k \in 1..m \/ \E i \in 1..n : k = m + i
    <2>1. tasks \in Seq(Tasks) /\ r \in Seq(Tasks)
        BY <1>4
    <2>2. /\ m \in Nat /\ n \in Nat /\ u \in Seq(Tasks) /\ Len(u) = m + n
          /\ \A i \in 1..m : i \in 1..Len(u) /\ u[i] = tasks[i]
        BY <1>1, <1>2, <1>3, <2>1, Joined
    <2>3. \A i \in 1..n : m + i \in 1..Len(u) /\ u[m + i] = r[i]
        BY <1>1, <1>2, <1>3, <2>1, Joined
    <2>4. \A k \in 1..Len(u) : k \in 1..m \/ \E i \in 1..n : k = m + i
        BY <2>2, InEither
    <2> QED BY <2>2, <2>3, <2>4
<1>6. n # 0
    BY <1>2, <1>4, EmptySeq
<1>7. Last(u) = Last(r) /\ u # <<>>
    <2>1. n \in 1..n
        BY <1>5, <1>6
    <2>2. m + n # 0
        BY <1>5, <1>6
    <2> QED BY <1>2, <1>5, <2>1, <2>2, EmptySeq DEF Last
<1>8. ASSUME NEW k \in 1..Len(u), NEW i \in 1..k - 1 PROVE Before(u[i], u[k])
    <2>1. i \in 1..Len(u)
        BY <1>5
    <2>2. CASE k \in 1..m
        <3>1. i \in 1..m
            BY <1>5, <2>2
        <3> QED BY <1>1, <1>5, <2>2, <3>1 DEF Fitting
    <2>3. CASE i \in 1..m /\ \E l \in 1..n : k = m + l
        <3>1. PICK l \in 1..n : k = m + l
            BY <2>3
        <3> QED BY <1>1, <1>2, <1>5, <2>3, <3>1 DEF Fitting
    <2>4. CASE \E j \in 1..n, l \in 1..n : i = m + j /\ k = m + l
        <3>1. PICK j \in 1..n, l \in 1..n : i = m + j /\ k = m + l
            BY <2>4
        <3>2. j \in 1..l - 1
            BY <1>5, <3>1
        <3> QED BY <1>2, <1>5, <3>1, <3>2 DEF Pending
    <2> QED BY <1>5, <2>1, <2>2, <2>3, <2>4
<1>9. ASSUME NEW k \in 1..Len(u) PROVE Fits(c, u[k])
    <2>1. CASE k \in 1..m
        BY <1>1, <1>5, <2>1 DEF Fitting
    <2>2. CASE \E i \in 1..n : k = m + i
        BY <1>2, <1>5, <2>2 DEF Pending
    <2> QED BY <1>5, <2>1, <2>2
<1>10. ASSUME NEW k \in 1..Len(u), u[k].k \in LoopTasks
       PROVE  OpenLoop(u, k, u[k].loop.saved.continue)
    <2>1. CASE k \in 1..m
        <3>1. OpenLoop(r, 0, u[k].loop.saved.continue) /\ k \in 0..m
            BY <1>1, <1>5, <1>10, <2>1 DEF Fitting
        <3> QED BY <1>1, <1>3, <1>4, <3>1, OpenLoopBehind
    <2>2. CASE \E i \in 1..n : k = m + i
        <3>1. PICK i \in 1..n : k = m + i
            BY <2>2
        <3>2. PICK p : p = u[k].loop.saved.continue
            OBVIOUS
        <3>3. OpenLoop(r, i, p)
            BY <1>2, <1>5, <1>10, <3>1, <3>2 DEF Pending
        <3>4. CASE \E l \in i + 1..n : StartsAt(r[l], p)
            <4>1. PICK l \in i + 1..n : StartsAt(r[l], p)
                BY <3>4
            <4>2. l \in 1..n /\ m + l \in k + 1..m + n
                BY <1>5, <3>1
            <4> QED BY <1>5, <3>2, <4>1, <4>2 DEF OpenLoop
        <3>5. CASE p = 0
            BY <3>2, <3>5 DEF OpenLoop
        <3> QED BY <1>2, <3>3, <3>4, <3>5 DEF OpenLoop
    <2> QED BY <1>5, <2>1, <2>2
<1>11. Pending(c, u)
    <2>1. Last(u).k = "endFunction"
        BY <1>7 DEF Pending
    <2> QED BY <1>5, <1>7, <1>8, <1>9, <1>10, <2>1 DEF Pending
<1> QED BY <1>1, <1>2, <1>3, <1>5, <1>7, <1>11

(* The same work for a Context that has gone on.                           *)
LEMMA PendingGoesOn ==
    ASSUME NEW c \in Contexts, NEW d \in Contexts, NEW w, Pending(c, w),
           Len(d.code) >= Len(c.code),
           \A i \in 1..Len(w) : w[i].k \in Based => Base(w[i]) <= Len(d.visible),
           \A i \in 1..Len(w) : w[i].k = "define" => CanDefine(d)
    PROVE  Pending(d, w)
<1>1. PICK n : n = Len(c.code)
    OBVIOUS
<1>2. PICK m : m = Len(d.code)
    OBVIOUS
<1>3. n \in Nat /\ m \in Nat /\ n <= m
    <2>1. c.code \in Seq(Instructions) /\ d.code \in Seq(Instructions)
        BY DEF Contexts
    <2> QED BY <1>1, <1>2, <2>1, LenProperties
<1>4. ASSUME NEW i \in 1..Len(w) PROVE Fits(d, w[i])
    <2>1. w[i] \in Tasks /\ Fits(c, w[i])
        BY ElementOfSeq DEF Pending
    <2>2. w[i].k \in {"patch", "ifElse"} => w[i].jump \in 1..m
        BY <1>1, <1>3, <2>1 DEF Fits
    <2>3. ASSUME w[i].k \in LoopTasks
          PROVE  /\ w[i].loop.start <= m /\ w[i].loop.exit <= m /\ w[i].loop.body <= m
                 /\ w[i].loop.saved.break <= m /\ w[i].loop.saved.continue <= m
        <3>1. w[i].loop \in Loops
            BY <2>1, <2>3 DEF Tasks, LoopTasks
        <3>2. PICK l \in Loops : l = w[i].loop
            BY <3>1
        <3>3. /\ l.start \in Nat /\ l.exit \in Nat /\ l.body \in Nat
              /\ l.saved.break \in Nat /\ l.saved.continue \in Nat
            BY DEF Loops
        <3>4. /\ l.start <= n /\ l.exit <= n /\ l.body <= n
              /\ l.saved.break <= n /\ l.saved.continue <= n
            BY <1>1, <2>1, <2>3, <3>2 DEF Fits
        <3> QED BY <1>3, <3>2, <3>3, <3>4
    <2> QED BY <1>2, <2>1, <2>2, <2>3 DEF Fits
<1> QED BY <1>4 DEF Pending
-----------------------------------------------------------------------------
(* Counting tasks.                                                         *)

LEMMA MarkedIsFinite ==
    ASSUME NEW S, NEW w \in Seq(S), NEW K
    PROVE  IsFiniteSet(Marked(w, K)) /\ Cardinality(Marked(w, K)) \in Nat
<1>1. Len(w) \in Nat
    BY LenProperties
<1>2. IsFiniteSet(1..Len(w))
    BY <1>1, FS_Interval
<1>3. Marked(w, K) \in SUBSET (1..Len(w))
    BY DEF Marked
<1>4. IsFiniteSet(Marked(w, K))
    BY <1>2, <1>3, FS_Subset
<1> QED BY <1>4, FS_CardinalityType

(* As many numbers when n is added to each.                                *)
LEMMA Shifted ==
    ASSUME NEW n \in Nat, NEW A \in SUBSET Nat, IsFiniteSet(A), NEW B,
           B = {n + i : i \in A}
    PROVE  IsFiniteSet(B) /\ Cardinality(B) = Cardinality(A)
<1>1. PICK f : f = [i \in A |-> n + i]
    OBVIOUS
<1>2. f \in Injection(A, B)
    <2>1. f \in [A -> B]
        BY <1>1
    <2>2. \A i, j \in A : f[i] = f[j] => i = j
        BY <1>1
    <2> QED BY <2>1, <2>2 DEF Injection, IsInjective
<1>3. f \in Surjection(A, B)
    <2>1. f \in [A -> B]
        BY <1>1
    <2>2. \A b \in B : \E i \in A : f[i] = b
        BY <1>1
    <2> QED BY <2>1, <2>2 DEF Surjection
<1>4. ExistsBijection(A, B)
    BY <1>2, <1>3 DEF ExistsBijection, Bijection
<1> QED BY <1>4, FS_Bijection

LEMMA MarkedJoined ==
    ASSUME NEW S, NEW s \in Seq(S), NEW t \in Seq(S), NEW K
    PROVE  Cardinality(Marked(s \o t, K)) = Cardinality(Marked(s, K)) + Cardinality(Marked(t, K))
<1>1. PICK m : m = Len(s)
    OBVIOUS
<1>2. PICK n : n = Len(t)
    OBVIOUS
<1>3. PICK u : u = s \o t
    OBVIOUS
<1>4. /\ m \in Nat /\ n \in Nat /\ Len(u) = m + n
      /\ \A i \in 1..m : i \in 1..Len(u) /\ u[i] = s[i]
    BY <1>1, <1>2, <1>3, Joined
<1>5. \A i \in 1..n : m + i \in 1..Len(u) /\ u[m + i] = t[i]
    BY <1>1, <1>2, <1>3, Joined
<1>6. PICK B : B = {m + i : i \in Marked(t, K)}
    OBVIOUS
<1>7. Marked(u, K) = Marked(s, K) \cup B
    <2>1. ASSUME NEW k \in Marked(u, K) PROVE k \in Marked(s, K) \cup B
        <3>1. k \in 1..m + n /\ u[k] \in K
            BY <1>4 DEF Marked
        <3>2. CASE k \in 1..m
            BY <1>1, <1>4, <3>1, <3>2 DEF Marked
        <3>3. CASE \E i \in 1..n : k = m + i
            <4>1. PICK i \in 1..n : k = m + i
                BY <3>3
            <4>2. i \in Marked(t, K)
                BY <1>2, <1>5, <3>1, <4>1 DEF Marked
            <4> QED BY <1>6, <4>1, <4>2
        <3> QED BY <1>4, <3>1, <3>2, <3>3, InEither
    <2>2. ASSUME NEW k \in Marked(s, K) PROVE k \in Marked(u, K)
        BY <1>1, <1>4 DEF Marked
    <2>3. ASSUME NEW k \in B PROVE k \in Marked(u, K)
        <3>1. PICK i \in Marked(t, K) : k = m + i
            BY <1>6
        <3>2. i \in 1..n /\ t[i] \in K
            BY <1>2 DEF Marked
        <3> QED BY <1>5, <3>1, <3>2 DEF Marked
    <2> QED BY <2>1, <2>2, <2>3
<1>8. Marked(s, K) \cap B = {}
    <2> SUFFICES ASSUME NEW k \in Marked(s, K), k \in B PROVE FALSE
        OBVIOUS
    <2>1. k \in 1..m
        BY <1>1 DEF Marked
    <2>2. PICK i \in Marked(t, K) : k = m + i
        BY <1>6
    <2>3. i \in 1..n
        BY <1>2 DEF Marked
    <2> QED BY <1>4, <2>1, <2>2, <2>3
<1>9. /\ IsFiniteSet(Marked(s, K)) /\ Cardinality(Marked(s, K)) \in Nat
      /\ IsFiniteSet(Marked(t, K)) /\ Cardinality(Marked(t, K)) \in Nat
    BY MarkedIsFinite
<1>10. IsFiniteSet(B) /\ Cardinality(B) = Cardinality(Marked(t, K))
    <2>1. Marked(t, K) \in SUBSET Nat
        BY <1>2 DEF Marked
    <2> QED BY <1>4, <1>6, <1>9, <2>1, Shifted
<1>11. Cardinality(Marked(u, K))
        = Cardinality(Marked(s, K)) + Cardinality(B) - Cardinality({})
    BY <1>7, <1>8, <1>9, <1>10, FS_Union
<1>12. Cardinality({}) = 0
    BY FS_EmptySet
<1> QED BY <1>3, <1>9, <1>10, <1>11, <1>12

(* The head of the work counts or not.                                     *)
LEMMA MarkedTail ==
    ASSUME NEW S, NEW w \in Seq(S), w # <<>>, NEW K
    PROVE  Cardinality(Marked(w, K)) =
                Cardinality(Marked(Tail(w), K)) + (IF w[1] \in K THEN 1 ELSE 0)
<1>1. w[1] \in S /\ Tail(w) \in Seq(S)
    BY TailOf
<1>2. PICK h : h = <<w[1]>>
    OBVIOUS
<1>3. h \in Seq(S) /\ Len(h) = 1 /\ h[1] = w[1]
    BY <1>1, <1>2
<1>4. w = h \o Tail(w)
    <2>1. PICK n : n = Len(w)
        OBVIOUS
    <2>2. PICK t : t = Tail(w)
        OBVIOUS
    <2>3. /\ n \in Nat \ {0} /\ Len(t) = n - 1 /\ t \in Seq(S)
          /\ \A i \in 1..n - 1 : t[i] = w[i + 1]
          /\ \A k \in 1..n : k = 1 \/ \E i \in 1..n - 1 : k = i + 1
        BY <2>1, <2>2, TailOf
    <2>4. PICK u : u = h \o t
        OBVIOUS
    <2>5. PICK m : m = Len(h)
        OBVIOUS
    <2>6. PICK l : l = Len(t)
        OBVIOUS
    <2> h \in Seq(S) /\ t \in Seq(S)
        BY <1>3, <2>3
    <2>7. /\ u \in Seq(S) /\ Len(u) = m + l
          /\ \A i \in 1..m : i \in 1..Len(u) /\ u[i] = h[i]
        BY <2>4, <2>5, <2>6, Joined
    <2>8. \A i \in 1..l : m + i \in 1..Len(u) /\ u[m + i] = t[i]
        BY <2>4, <2>5, <2>6, Joined
    <2>9. m = 1 /\ l = n - 1 /\ Len(u) = n /\ u \in Seq(S)
        BY <1>3, <2>3, <2>5, <2>6, <2>7
    <2>10. ASSUME NEW k \in 1..n PROVE u[k] = w[k]
        <3>1. CASE k = 1
            BY <1>3, <2>7, <2>9, <3>1
        <3>2. CASE \E i \in 1..n - 1 : k = i + 1
            <4>1. PICK i \in 1..n - 1 : k = i + 1
                BY <3>2
            <4>2. u[1 + i] = t[i] /\ 1 + i = k
                BY <2>3, <2>8, <2>9, <4>1
            <4> QED BY <2>3, <4>1, <4>2
        <3> QED BY <2>3, <3>1, <3>2
    <2> QED BY <2>1, <2>2, <2>4, <2>9, <2>10, SeqEqual
<1>5. Cardinality(Marked(h, K)) = IF w[1] \in K THEN 1 ELSE 0
    <2>1. Marked(h, K) = IF w[1] \in K THEN {1} ELSE {}
        BY <1>3 DEF Marked
    <2> QED BY <2>1, FS_Singleton, FS_EmptySet
<1>6. Cardinality(Marked(w, K)) = Cardinality(Marked(h, K)) + Cardinality(Marked(Tail(w), K))
    BY <1>1, <1>3, <1>4, MarkedJoined
<1>7. Cardinality(Marked(Tail(w), K)) \in Nat
    BY <1>1, MarkedIsFinite
<1> QED BY <1>5, <1>6, <1>7

(* How many of the new tasks count: none, or one.                          *)
LEMMA NoneMarked ==
    ASSUME NEW tasks, NEW K, \A k \in 1..Len(tasks) : tasks[k] \notin K
    PROVE  Cardinality(Marked(tasks, K)) = 0
<1>1. Marked(tasks, K) = {}
    BY DEF Marked
<1> QED BY <1>1, FS_EmptySet

(* What the tasks will patch.                                              *)
LEMMA JumpsJoined ==
    ASSUME NEW S, NEW s \in Seq(S), NEW t \in Seq(S)
    PROVE  JumpsIn(s \o t) = JumpsIn(s) \cup JumpsIn(t)
<1>1. PICK m : m = Len(s)
    OBVIOUS
<1>2. PICK n : n = Len(t)
    OBVIOUS
<1>3. PICK u : u = s \o t
    OBVIOUS
<1>4. /\ m \in Nat /\ n \in Nat /\ Len(u) = m + n
      /\ \A i \in 1..m : i \in 1..Len(u) /\ u[i] = s[i]
    BY <1>1, <1>2, <1>3, Joined
<1>5. \A i \in 1..n : m + i \in 1..Len(u) /\ u[m + i] = t[i]
    BY <1>1, <1>2, <1>3, Joined
<1>6. ASSUME NEW j \in JumpsIn(u) PROVE j \in JumpsIn(s) \cup JumpsIn(t)
    <2>1. PICK k \in 1..m + n : j \in JumpsOf(u[k])
        BY <1>4 DEF JumpsIn
    <2>2. CASE k \in 1..m
        BY <1>1, <1>4, <2>1, <2>2 DEF JumpsIn
    <2>3. CASE \E i \in 1..n : k = m + i
        BY <1>2, <1>5, <2>1, <2>3 DEF JumpsIn
    <2> QED BY <1>4, <2>2, <2>3, InEither
<1>7. ASSUME NEW j \in JumpsIn(s) PROVE j \in JumpsIn(u)
    BY <1>1, <1>4 DEF JumpsIn
<1>8. ASSUME NEW j \in JumpsIn(t) PROVE j \in JumpsIn(u)
    BY <1>2, <1>5 DEF JumpsIn
<1> QED BY <1>3, <1>6, <1>7, <1>8

LEMMA JumpsTail ==
    ASSUME NEW S, NEW w \in Seq(S), w # <<>>
    PROVE  JumpsIn(w) = JumpsOf(w[1]) \cup JumpsIn(Tail(w))
<1>1. PICK n : n = Len(w)
    OBVIOUS
<1>2. PICK t : t = Tail(w)
    OBVIOUS
<1>3. /\ n \in Nat \ {0} /\ Len(t) = n - 1
      /\ \A i \in 1..n - 1 : i + 1 \in 1..n /\ t[i] = w[i + 1]
      /\ \A k \in 1..n : k = 1 \/ \E i \in 1..n - 1 : k = i + 1
    BY <1>1, <1>2, TailOf
<1>4. ASSUME NEW j \in JumpsIn(w) PROVE j \in JumpsOf(w[1]) \cup JumpsIn(t)
    <2>1. PICK k \in 1..n : j \in JumpsOf(w[k])
        BY <1>1 DEF JumpsIn
    <2>2. CASE \E i \in 1..n - 1 : k = i + 1
        <3>1. PICK i \in 1..n - 1 : k = i + 1
            BY <2>2
        <3>2. j \in JumpsOf(t[i]) /\ i \in 1..Len(t)
            BY <1>3, <2>1, <3>1
        <3> QED BY <3>2 DEF JumpsIn
    <2> QED BY <1>3, <2>1, <2>2
<1>5. ASSUME NEW j \in JumpsIn(t) PROVE j \in JumpsIn(w)
    <2>1. PICK i \in 1..n - 1 : j \in JumpsOf(t[i])
        BY <1>3 DEF JumpsIn
    <2> QED BY <1>1, <1>3, <2>1 DEF JumpsIn
<1>6. ASSUME NEW j \in JumpsOf(w[1]) PROVE j \in JumpsIn(w)
    <2>1. 1 \in 1..Len(w)
        BY <1>1, <1>3
    <2> QED BY <2>1 DEF JumpsIn
<1> QED BY <1>2, <1>4, <1>5, <1>6
-----------------------------------------------------------------------------
(* Least and greatest numbers, and functions that are defined step by step *)
(* along an interval.                                                      *)

LEMMA LeastNumber ==
    ASSUME NEW S, S \subseteq Nat, S # {}
    PROVE  \E i \in S : \A j \in S : i <= j
<1>1. PICK i \in S : \A j \in S : <<j, i>> \notin OpToRel(<, Nat)
    BY WFMin, NatLessThanWellFounded, Zenon
<1>2. \A j \in S : j \in Nat /\ i \in Nat /\ ~(j < i)
    BY <1>1, Zenon DEF OpToRel
<1>3. \A j \in S : i <= j
    BY <1>2
<1> QED BY <1>3

LEMMA MinIs ==
    ASSUME NEW S, S \subseteq Nat, S # {}
    PROVE  Min(S) \in S /\ \A y \in S : Min(S) <= y
<1>1. \E x \in S : \A y \in S : x <= y
    BY LeastNumber
<1> QED BY <1>1 DEF Min

LEMMA MaxIs ==
    ASSUME NEW n \in Nat, NEW S, S \subseteq 0..n, S # {}
    PROVE  Max(S) \in S /\ Max(S) \in 0..n /\ \A y \in S : Max(S) >= y
<1>1. PICK T : T = {n - y : y \in S}
    OBVIOUS
<1>2. T \subseteq Nat /\ T # {}
    <2>1. \A y \in S : n - y \in Nat
        OBVIOUS
    <2>2. T # {}
        BY <1>1
    <2> QED BY <1>1, <2>1, <2>2
<1>3. PICK l \in T : \A j \in T : l <= j
    BY <1>2, LeastNumber
<1>4. PICK x \in S : l = n - x
    BY <1>1, <1>3
<1>5. ASSUME NEW y \in S PROVE x >= y
    <2>1. n - x <= n - y
        BY <1>1, <1>3, <1>4
    <2>2. x \in 0..n /\ y \in 0..n
        BY <1>4
    <2> QED BY <2>1, <2>2
<1>6. Max(S) \in S /\ \A y \in S : Max(S) >= y
    BY <1>5 DEF Max
<1> QED BY <1>6

(* What holds at the beginning of an interval and goes from each number to *)
(* the next holds of all.                                                  *)
LEMMA Upward ==
    ASSUME NEW a \in Nat, NEW n \in Nat, NEW S, NEW h, h[a] \in S,
           \A i \in a + 1..n : h[i - 1] \in S => h[i] \in S
    PROVE  \A i \in a..n : h[i] \in S
<1> SUFFICES ASSUME NEW k \in a..n, h[k] \notin S PROVE FALSE
    OBVIOUS
<1>1. PICK T : T = {i \in a..n : h[i] \notin S}
    OBVIOUS
<1>2. T \subseteq Nat /\ T # {}
    BY <1>1
<1>3. PICK l \in T : \A j \in T : l <= j
    BY <1>2, LeastNumber
<1>4. l \in a..n /\ h[l] \notin S
    BY <1>1, <1>3
<1>5. l \in a + 1..n /\ l - 1 \in a..n
    BY <1>4
<1>6. l - 1 \notin T
    BY <1>3, <1>4
<1>7. h[l - 1] \in S
    BY <1>1, <1>5, <1>6
<1> QED BY <1>4, <1>5, <1>7

(* A function that is defined step by step exists.                         *)
Stepwise(f, a, n, x, g) == f[a] = x /\ \A i \in a + 1..n : f[i] = g[<<i, f[i - 1]>>]

LEMMA StepByStep ==
    ASSUME NEW a \in Nat, NEW n \in Nat, a <= n, NEW S, NEW x \in S,
           NEW g \in [Nat \X S -> S]
    PROVE  \E f \in [a..n -> S] : Stepwise(f, a, n, x, g)
<1> DEFINE Steps(f, m) == f[a] = x /\ \A i \in a + 1..m : f[i] = g[<<i, f[i - 1]>>]
<1> USE DEF Stepwise
<1>1. PICK T : T = {m \in a..n : ~ \E f \in [a..m -> S] : Steps(f, m)}
    OBVIOUS
<1>2. SUFFICES ASSUME T # {} PROVE FALSE
    <2>1. n \in a..n
        OBVIOUS
    <2>2. \E f \in [a..n -> S] : Steps(f, n)
        BY <1>1, <1>2, <2>1
    <2> QED BY <2>2
<1>3. PICK m \in T : \A j \in T : m <= j
    <2>1. T \subseteq Nat
        BY <1>1
    <2> QED BY <1>2, <2>1, LeastNumber
<1>4. m \in a..n /\ ~ \E f \in [a..m -> S] : Steps(f, m)
    BY <1>1, <1>3
<1>5. CASE m = a
    <2>1. PICK f : f = [i \in a..a |-> x]
        OBVIOUS
    <2>2. f \in [a..a -> S] /\ f[a] = x /\ a + 1..a = {}
        BY <2>1
    <2>3. Steps(f, a)
        BY <2>2
    <2> QED BY <1>4, <1>5, <2>2, <2>3
<1>6. CASE m # a
    <2>1. m - 1 \in a..n /\ m - 1 \notin T /\ m \in Nat
        BY <1>3, <1>4, <1>6
    <2>2. PICK f \in [a..m - 1 -> S] : Steps(f, m - 1)
        BY <1>1, <2>1
    <2>3. m - 1 \in a..m - 1 /\ f[m - 1] \in S
        BY <2>1
    <2>4. PICK y \in S : y = g[<<m, f[m - 1]>>]
        BY <2>1, <2>3
    <2>5. PICK h : h = [i \in a..m |-> IF i = m THEN y ELSE f[i]]
        OBVIOUS
    <2>6. h \in [a..m -> S]
        <3>1. \A i \in a..m : i = m \/ i \in a..m - 1
            BY <2>1
        <3> QED BY <2>4, <2>5, <3>1
    <2>7. h[a] = x
        <3>1. a \in a..m /\ a # m
            BY <1>4, <1>6
        <3> QED BY <2>2, <2>5, <3>1
    <2>8. ASSUME NEW i \in a + 1..m PROVE h[i] = g[<<i, h[i - 1]>>]
        <3>1. i \in a..m /\ i - 1 \in a..m /\ i - 1 # m
            BY <1>4
        <3>2. h[i - 1] = f[i - 1]
            BY <2>5, <3>1
        <3>3. CASE i = m
            BY <2>4, <2>5, <3>1, <3>2, <3>3
        <3>4. CASE i # m
            <4>1. i \in a + 1..m - 1
                BY <1>4, <3>4
            <4>2. h[i] = f[i]
                BY <2>5, <3>1, <3>4
            <4> QED BY <2>2, <3>2, <4>1, <4>2
        <3> QED BY <3>3, <3>4
    <2>9. Steps(h, m)
        BY <2>7, <2>8
    <2> QED BY <1>4, <2>6, <2>9
<1> QED BY <1>5, <1>6
-----------------------------------------------------------------------------
(* What helpers do to the contexts and the error manager.                  *)

States == [contexts : Seq(Contexts), error : Errors]
Good(s) ==
    /\ s \in States /\ s.contexts # <<>>
    /\ \A j \in 1..Len(s.contexts) : Fine(s.contexts[j])

(* Another function may have one of its locals captured, or get upvalues.  *)
SameLocals(c, d) ==
    /\ Len(d.locals) = Len(c.locals)
    /\ \A i \in 1..Len(c.locals) :
        d.locals[i].name = c.locals[i].name /\ d.locals[i].depth = c.locals[i].depth
SameSettings(c, d) ==
    /\ d.type = c.type /\ d.arity = c.arity /\ d.scopeDepth = c.scopeDepth
    /\ d.last_continue = c.last_continue /\ d.last_break = c.last_break
    /\ d.last_scope_depth = c.last_scope_depth /\ d.enclosing_loop = c.enclosing_loop
    /\ d.visible = c.visible
Alike(c, d) ==
    SameLocals(c, d) /\ SameSettings(c, d) /\ d.code = c.code /\ d.height = c.height

(* The current one may have grown by instructions.                         *)
Steady(c, d) == SameLocals(c, d) /\ SameSettings(c, d) /\ Len(d.code) >= Len(c.code)

Follows(s, t) ==
    /\ Good(t) /\ Len(t.contexts) = Len(s.contexts)
    /\ \A j \in 1..Len(s.contexts) - 1 : Alike(s.contexts[j], t.contexts[j])
GoesOn(s, t) == Follows(s, t) /\ Steady(Current(s), Current(t))

LEMMA ContextTypes ==
    ASSUME NEW c \in Contexts
    PROVE  /\ c.type \in FunctionTypes /\ c.arity \in Nat
           /\ c.locals \in Seq(LocalRecords) /\ Len(c.locals) \in Nat
           /\ c.upvalues \in Seq(UpvalueRecords) /\ Len(c.upvalues) \in Nat
           /\ c.scopeDepth \in Nat /\ c.last_continue \in Nat /\ c.last_break \in Nat
           /\ c.last_scope_depth \in Nat /\ c.enclosing_loop \in Nat
           /\ c.code \in Seq(Instructions) /\ Len(c.code) \in Nat
           /\ c.height \in Int /\ c.visible \in Seq(VariableNames) /\ Len(c.visible) \in Nat
BY LenProperties DEF Contexts

LEMMA CurrentIsFine ==
    ASSUME NEW s, Good(s)
    PROVE  /\ Fine(Current(s)) /\ Current(s) \in Contexts
           /\ Current(s) = s.contexts[Len(s.contexts)]
           /\ Len(s.contexts) \in Nat \ {0} /\ Len(s.contexts) \in 1..Len(s.contexts)
           /\ s.contexts \in Seq(Contexts) /\ s.error \in Errors
<1>1. s.contexts \in Seq(Contexts) /\ s.contexts # <<>> /\ s.error \in Errors
    BY DEF Good, States
<1>2. /\ Len(s.contexts) \in Nat \ {0} /\ Len(s.contexts) \in 1..Len(s.contexts)
      /\ Current(s) = s.contexts[Len(s.contexts)]
    BY <1>1, FrontAndLast DEF Current
<1> QED BY <1>1, <1>2 DEF Good, Fine

LEMMA Updated ==
    ASSUME NEW s, Good(s), NEW c, Fine(c), NEW t, t = Update(s, c)
    PROVE  /\ Follows(s, t) /\ Current(t) = c /\ t.error = s.error
           /\ Front(t.contexts) = Front(s.contexts)
<1>1. /\ s \in States /\ s.contexts \in Seq(Contexts) /\ s.contexts # <<>>
      /\ c \in Contexts
    BY DEF Good, States, Fine
<1>2. PICK cs : cs = Append(Front(s.contexts), c)
    OBVIOUS
<1>3. PICK n : n = Len(s.contexts)
    OBVIOUS
<1>4. /\ cs \in Seq(Contexts) /\ cs # <<>> /\ Len(cs) = n /\ Last(cs) = c /\ cs[n] = c
      /\ \A j \in 1..n - 1 : cs[j] = s.contexts[j]
      /\ Front(cs) = Front(s.contexts)
    <2>1. PICK old \in Seq(Contexts) : old = s.contexts
        BY <1>1
    <2>2. n = Len(old) /\ cs = Append(Front(old), c)
        BY <1>2, <1>3, <2>1
    <2> old # <<>> /\ c \in Contexts
        BY <1>1, <2>1
    <2>3. WithLast(cs, old, c, Contexts)
        BY <2>2, LastReplaced
    <2> QED BY <2>1, <2>2, <2>3 DEF WithLast
<1>5. t = [s EXCEPT !.contexts = cs]
    BY <1>2 DEF Update
<1>6. t \in States /\ t.contexts = cs /\ t.error = s.error
    BY <1>1, <1>4, <1>5 DEF States
<1>7. n \in Nat \ {0}
    BY <1>1, <1>3, EmptySeq
<1>8. ASSUME NEW j \in 1..n PROVE Fine(cs[j])
    BY <1>3, <1>4, <1>7 DEF Good
<1>9. Good(t)
    BY <1>4, <1>6, <1>8 DEF Good
<1>10. \A j \in 1..n - 1 : Alike(s.contexts[j], t.contexts[j])
    BY <1>4, <1>6 DEF Alike, SameLocals, SameSettings
<1> QED BY <1>3, <1>4, <1>6, <1>9, <1>10 DEF Follows, Current

LEMMA FollowsOn ==
    ASSUME NEW s, NEW t, NEW u, Follows(s, t), Follows(t, u)
    PROVE  Follows(s, u)
<1>1. PICK n : n = Len(s.contexts)
    OBVIOUS
<1>2. Len(t.contexts) = n /\ Len(u.contexts) = n /\ Good(u)
    BY <1>1 DEF Follows
<1>3. ASSUME NEW j \in 1..n - 1 PROVE Alike(s.contexts[j], u.contexts[j])
    <2>1. Alike(s.contexts[j], t.contexts[j]) /\ Alike(t.contexts[j], u.contexts[j])
        BY <1>1, <1>2 DEF Follows
    <2> QED BY <2>1 DEF Alike, SameLocals, SameSettings
<1> QED BY <1>1, <1>2, <1>3 DEF Follows

LEMMA SteadyOn ==
    ASSUME NEW c \in Contexts, NEW d \in Contexts, NEW e \in Contexts, Steady(c, d), Steady(d, e)
    PROVE  Steady(c, e)
<1>1. Len(e.code) >= Len(c.code)
    BY ContextTypes DEF Steady
<1> QED BY <1>1 DEF Steady, SameLocals, SameSettings

LEMMA FollowsSelf ==
    ASSUME NEW s, Good(s)
    PROVE  Follows(s, s) /\ GoesOn(s, s)
<1>1. Follows(s, s)
    BY DEF Follows, Alike, SameLocals, SameSettings
<1>2. Steady(Current(s), Current(s))
    BY CurrentIsFine, ContextTypes DEF Steady, SameLocals, SameSettings
<1> QED BY <1>1, <1>2 DEF GoesOn

LEMMA GoesOnOn ==
    ASSUME NEW s, NEW t, NEW u, Good(s), GoesOn(s, t), GoesOn(t, u)
    PROVE  GoesOn(s, u)
<1>1. Good(t) /\ Good(u)
    BY DEF GoesOn, Follows
<1>2. Current(s) \in Contexts /\ Current(t) \in Contexts /\ Current(u) \in Contexts
    BY <1>1, CurrentIsFine
<1>3. Steady(Current(s), Current(u))
    BY <1>2, SteadyOn DEF GoesOn
<1> QED BY <1>3, FollowsOn DEF GoesOn

LEMMA Failed ==
    ASSUME NEW s, Good(s), NEW condition, NEW what \in Errors, NEW t, t = FailIf(s, condition, what)
    PROVE  /\ Good(t) /\ t.contexts = s.contexts /\ GoesOn(s, t) /\ Current(t) = Current(s)
           /\ t.error = IF condition /\ s.error = NoError THEN what ELSE s.error
<1>1. s \in States
    BY DEF Good
<1>2. /\ t \in States /\ t.contexts = s.contexts
      /\ t.error = IF condition /\ s.error = NoError THEN what ELSE s.error
    BY <1>1 DEF States, FailIf
<1>3. Good(t)
    BY <1>2 DEF Good
<1>4. Current(t) = Current(s)
    BY <1>2 DEF Current
<1>5. GoesOn(s, t)
    BY <1>2, <1>3, <1>4, FollowsSelf DEF GoesOn, Follows
<1> QED BY <1>2, <1>3, <1>4, <1>5
-----------------------------------------------------------------------------
(* Code generation.                                                        *)

Jumping == {"JUMP", "JUMP_IF_FALSE", "LOOP"}

LEMMA AfterType ==
    ASSUME NEW op \in Operations, NEW arg \in Int, NEW h \in Int
    PROVE  After(op, arg, h) \in Int
<1>1. CASE h = DEAD \/ op \in Diverts
    BY <1>1 DEF After, DEAD
<1>2. CASE ~(h = DEAD \/ op \in Diverts)
    <2>1. Effect(op, arg) \in Int
        <3>1. CASE op \in Pushes
            BY <3>1 DEF Effect
        <3>2. CASE op \in Pops
            BY <3>2 DEF Effect, Pushes, Pops
        <3>3. CASE op \in Keeps
            BY <3>3 DEF Effect, Pushes, Pops, Keeps
        <3>4. CASE op \in {"CALL", "INVOKE"}
            BY <3>4 DEF Effect, Pushes, Pops, Keeps
        <3>5. CASE op = "SUPER_INVOKE"
            BY <3>5 DEF Effect, Pushes, Pops, Keeps
        <3> QED BY <1>2, <3>1, <3>2, <3>3, <3>4, <3>5 DEF Operations, Calls
    <2> QED BY <1>2, <2>1 DEF After
<1> QED BY <1>1, <1>2

(* One more instruction, and nothing else.                                 *)
OneMore(c, d, op, arg, name) ==
    /\ Steady(c, d) /\ d.locals = c.locals /\ d.upvalues = c.upvalues
    /\ d.code = Append(c.code, [op |-> op, arg |-> arg, name |-> name, h |-> c.height])
    /\ d.height = After(op, arg, c.height)
    /\ Len(d.code) = Len(c.code) + 1
    /\ d.code[Len(c.code) + 1] = [op |-> op, arg |-> arg, name |-> name, h |-> c.height]
    /\ \A i \in 1..Len(c.code) : d.code[i] = c.code[i]

LEMMA EmitsOneMore ==
    ASSUME NEW s, Good(s), NEW op \in Operations, NEW arg \in Int, NEW name \in VariableNames,
           NEW t, t = EmitNamed(s, op, arg, name)
    PROVE  /\ GoesOn(s, t) /\ t.error = s.error /\ Front(t.contexts) = Front(s.contexts)
           /\ OneMore(Current(s), Current(t), op, arg, name)
<1>1. PICK c : c = Current(s)
    OBVIOUS
<1>2. Fine(c) /\ c \in Contexts
    BY <1>1, CurrentIsFine
<1>3. PICK new : new = [op |-> op, arg |-> arg, name |-> name, h |-> c.height]
    OBVIOUS
<1>4. new \in Instructions
    BY <1>2, <1>3, ContextTypes DEF Instructions
<1>5. PICK code : code = Append(c.code, new)
    OBVIOUS
<1>6. /\ code \in Seq(Instructions) /\ Len(code) = Len(c.code) + 1
      /\ \A i \in 1..Len(c.code) : code[i] = c.code[i]
      /\ code[Len(c.code) + 1] = new
    <2>1. PICK old \in Seq(Instructions) : old = c.code
        BY <1>2, ContextTypes
    <2>2. /\ Append(old, new) \in Seq(Instructions) /\ Len(Append(old, new)) = Len(old) + 1
          /\ \A i \in 1..Len(old) : Append(old, new)[i] = old[i]
          /\ Append(old, new)[Len(old) + 1] = new
        BY <1>4, AppendProperties
    <2> QED BY <1>5, <2>1, <2>2
<1>7. PICK height \in Int : height = After(op, arg, c.height)
    BY <1>2, AfterType, ContextTypes
<1>8. PICK d : d = [c EXCEPT !.code = code, !.height = height]
    OBVIOUS
<1>9. /\ d \in Contexts /\ d.code = code /\ d.height = height
      /\ d.locals = c.locals /\ d.upvalues = c.upvalues /\ SameSettings(c, d)
    BY <1>2, <1>6, <1>8 DEF Contexts, SameSettings
<1>10. SameLocals(c, d)
    BY <1>9 DEF SameLocals
<1>11. Fine(d)
    <2>1. PICK n \in Nat : n = Len(c.code)
        BY <1>2, ContextTypes
    <2>2. Len(d.code) = n + 1
        BY <1>6, <1>9, <2>1
    <2>3. c.last_break \in Nat /\ c.last_continue \in Nat /\ c.last_break <= n /\ c.last_continue <= n
        BY <1>2, <2>1, ContextTypes DEF Fine
    <2>4. d.last_break <= Len(d.code) /\ d.last_continue <= Len(d.code)
        BY <1>9, <2>2, <2>3 DEF SameSettings
    <2> QED BY <1>2, <1>9, <2>4 DEF Fine, SameSettings
<1>12. t = Update(s, d)
    BY <1>1, <1>3, <1>5, <1>7, <1>8 DEF EmitNamed
<1>13. /\ Follows(s, t) /\ Current(t) = d /\ t.error = s.error
       /\ Front(t.contexts) = Front(s.contexts)
    BY <1>11, <1>12, Updated
<1>14. Len(d.code) >= Len(c.code)
    BY <1>2, <1>6, <1>9, ContextTypes
<1>15. Steady(c, d)
    BY <1>9, <1>10, <1>14 DEF Steady
<1>16. OneMore(c, d, op, arg, name)
    BY <1>3, <1>5, <1>6, <1>7, <1>9, <1>15 DEF OneMore
<1> QED BY <1>1, <1>13, <1>15, <1>16 DEF GoesOn

LEMMA EmitsNameless ==
    ASSUME NEW s, Good(s), NEW op \in Operations, NEW arg \in Int, NEW t, t = Emit(s, op, arg)
    PROVE  /\ GoesOn(s, t) /\ t.error = s.error /\ Front(t.contexts) = Front(s.contexts)
           /\ OneMore(Current(s), Current(t), op, arg, "")
<1>1. "" \in VariableNames
    BY DEF VariableNames
<1>2. t = EmitNamed(s, op, arg, "")
    BY DEF Emit
<1> QED BY <1>1, <1>2, EmitsOneMore

(* What waits for its target after another instruction.                    *)
LEMMA WaitsOneMore ==
    ASSUME NEW c, NEW d, NEW op, NEW arg \in Int, NEW name, NEW jumps, NEW more,
           Len(c.code) \in Nat, c.code \in Seq(Instructions),
           OneMore(c, d, op, arg, name), WaitFor(c, jumps), jumps \subseteq more,
           op \in Jumping => arg \in 0..Len(c.code) \/ Len(c.code) + 1 \in more
    PROVE  WaitFor(d, more)
<1>1. PICK n \in Nat : n = Len(c.code)
    OBVIOUS
<1>2. Len(d.code) = n + 1 /\ \A i \in 1..n : d.code[i] = c.code[i]
    BY <1>1 DEF OneMore
<1>3. d.code[n + 1].op = op /\ d.code[n + 1].arg = arg
    BY <1>1 DEF OneMore
<1>4. ASSUME NEW i \in 1..n + 1, IsJump(d.code[i])
      PROVE  d.code[i].arg \in 0..n + 1 \/ i \in more
    <2>1. CASE i \in 1..n
        <3>1. c.code[i].arg \in 0..n \/ i \in jumps
            BY <1>1, <1>2, <1>4, <2>1 DEF WaitFor
        <3> QED BY <1>2, <2>1, <3>1
    <2>2. CASE i = n + 1
        <3>1. op \in Jumping
            BY <1>3, <1>4, <2>2 DEF IsJump, Jumping
        <3> QED BY <1>1, <1>3, <2>2, <3>1
    <2> QED BY <2>1, <2>2
<1> QED BY <1>2, <1>4 DEF WaitFor

(* patchJump.                                                              *)
Patched(c, d, jump) ==
    /\ Steady(c, d) /\ d.locals = c.locals /\ d.upvalues = c.upvalues
    /\ Len(d.code) = Len(c.code)
    /\ \A i \in 1..Len(c.code) : i # jump => d.code[i] = c.code[i]
    /\ d.code[jump] = [c.code[jump] EXCEPT !.arg = Len(c.code)]
    /\ d.height = IF c.height = DEAD THEN c.code[jump].h ELSE c.height

LEMMA Patches ==
    ASSUME NEW s, Good(s), NEW jump \in 1..Len(Current(s).code), NEW t, t = PatchJump(s, jump)
    PROVE  /\ GoesOn(s, t) /\ t.error = s.error /\ Front(t.contexts) = Front(s.contexts)
           /\ Patched(Current(s), Current(t), jump)
<1>1. PICK c : c = Current(s)
    OBVIOUS
<1>2. Fine(c) /\ c \in Contexts
    BY <1>1, CurrentIsFine
<1>3. PICK old \in Seq(Instructions) : old = c.code
    BY <1>2, ContextTypes
<1>4. old[jump] \in Instructions /\ Len(old) \in Nat /\ jump \in 1..Len(old)
    BY <1>1, <1>3, ElementOfSeq, LenProperties
<1>5. PICK new : new = [old[jump] EXCEPT !.arg = Len(old)]
    OBVIOUS
<1>6. new \in Instructions
    BY <1>4, <1>5 DEF Instructions
<1>7. PICK code : code = [old EXCEPT ![jump] = new]
    OBVIOUS
<1>8. /\ code \in Seq(Instructions) /\ Len(code) = Len(old)
      /\ \A i \in 1..Len(old) : code[i] = IF i = jump THEN new ELSE old[i]
    BY <1>4, <1>6, <1>7, ExceptSeq
<1>9. PICK height \in Int : height = IF c.height = DEAD THEN old[jump].h ELSE c.height
    <2>1. old[jump].h \in Int /\ c.height \in Int
        BY <1>2, <1>4, ContextTypes DEF Instructions
    <2> QED BY <2>1
<1>10. PICK d : d = [c EXCEPT !.code = code, !.height = height]
    OBVIOUS
<1>11. /\ d \in Contexts /\ d.code = code /\ d.height = height
       /\ d.locals = c.locals /\ d.upvalues = c.upvalues /\ SameSettings(c, d)
    BY <1>2, <1>8, <1>10 DEF Contexts, SameSettings
<1>12. SameLocals(c, d)
    BY <1>11 DEF SameLocals
<1>13. Fine(d)
    BY <1>2, <1>3, <1>8, <1>11, ContextTypes DEF Fine, SameSettings
<1>14. t = Update(s, d)
    <2>1. [c EXCEPT !.code[jump].arg = Len(c.code),
                    !.height = IF @ = DEAD THEN c.code[jump].h ELSE @] = d
        BY <1>2, <1>3, <1>4, <1>5, <1>7, <1>9, <1>10 DEF Contexts, Instructions
    <2> QED BY <1>1, <2>1 DEF PatchJump
<1>15. /\ Follows(s, t) /\ Current(t) = d /\ t.error = s.error
       /\ Front(t.contexts) = Front(s.contexts)
    BY <1>13, <1>14, Updated
<1>16. Steady(c, d)
    BY <1>3, <1>4, <1>8, <1>11, <1>12 DEF Steady
<1>17. Patched(c, d, jump)
    BY <1>3, <1>4, <1>5, <1>8, <1>9, <1>11, <1>16 DEF Patched
<1> QED BY <1>1, <1>15, <1>16, <1>17 DEF GoesOn

LEMMA WaitsPatched ==
    ASSUME NEW c, NEW d, NEW jump \in 1..Len(c.code), NEW jumps, NEW less,
           c.code \in Seq(Instructions), Patched(c, d, jump), WaitFor(c, jumps),
           jumps \subseteq less \cup {jump}
    PROVE  WaitFor(d, less)
<1>1. PICK n \in Nat : n = Len(c.code)
    BY LenProperties
<1>2. Len(d.code) = n /\ \A i \in 1..n : i # jump => d.code[i] = c.code[i]
    BY <1>1 DEF Patched
<1>3. d.code[jump].arg = n
    <2>1. c.code[jump] \in Instructions
        BY ElementOfSeq
    <2> QED BY <1>1, <2>1 DEF Patched, Instructions
<1>4. ASSUME NEW i \in 1..n, IsJump(d.code[i]) PROVE d.code[i].arg \in 0..n \/ i \in less
    <2>1. CASE i = jump
        BY <1>1, <1>3, <2>1
    <2>2. CASE i # jump
        BY <1>1, <1>2, <1>4, <2>2 DEF WaitFor
    <2> QED BY <2>1, <2>2
<1> QED BY <1>2, <1>4 DEF WaitFor
-----------------------------------------------------------------------------
(* Scopes and locals.                                                      *)

LEMMA FunctionIsSeq ==
    ASSUME NEW S, NEW n \in Nat, NEW f \in [1..n -> S]
    PROVE  f \in Seq(S) /\ Len(f) = n
<1>1. f \in Seq(S)
    BY SeqDef
<1>2. DOMAIN f = 1..n /\ DOMAIN f = 1..Len(f) /\ Len(f) \in Nat
    BY <1>1, LenProperties
<1> QED BY <1>1, <1>2

(* What changes beside the loops.                                          *)
SameLoops(c, d) ==
    /\ d.type = c.type /\ d.arity = c.arity
    /\ d.last_continue = c.last_continue /\ d.last_break = c.last_break
    /\ d.last_scope_depth = c.last_scope_depth /\ d.enclosing_loop = c.enclosing_loop

(* Jumps wait for as much as before.                                       *)
KeepsJumps(c, d) == \A jumps : WaitFor(c, jumps) => WaitFor(d, jumps)

(* More code, more locals, more names, in the same scope.                  *)
Widens(c, d) ==
    /\ SameLoops(c, d) /\ KeepsJumps(c, d)
    /\ d.scopeDepth = c.scopeDepth
    /\ Len(d.code) >= Len(c.code) /\ Len(d.visible) >= Len(c.visible)
    /\ Len(d.locals) >= Len(c.locals)
GetsWider(s, t) == Follows(s, t) /\ Widens(Current(s), Current(t))

LEMMA WidensOn ==
    ASSUME NEW c \in Contexts, NEW d \in Contexts, NEW e \in Contexts, Widens(c, d), Widens(d, e)
    PROVE  Widens(c, e)
<1>1. /\ Len(e.code) >= Len(c.code) /\ Len(e.visible) >= Len(c.visible)
      /\ Len(e.locals) >= Len(c.locals)
    BY ContextTypes DEF Widens
<1>2. KeepsJumps(c, e)
    BY DEF Widens, KeepsJumps
<1> QED BY <1>1, <1>2 DEF Widens, SameLoops

LEMMA GetsWiderOn ==
    ASSUME NEW s, NEW t, NEW u, Good(s), GetsWider(s, t), GetsWider(t, u)
    PROVE  GetsWider(s, u)
<1>1. Good(t) /\ Good(u)
    BY DEF GetsWider, Follows
<1>2. Current(s) \in Contexts /\ Current(t) \in Contexts /\ Current(u) \in Contexts
    BY <1>1, CurrentIsFine
<1>3. Widens(Current(s), Current(u))
    BY <1>2, WidensOn DEF GetsWider
<1> QED BY <1>3, FollowsOn DEF GetsWider

LEMMA SteadyWidens ==
    ASSUME NEW s, NEW t, Good(s), GoesOn(s, t), KeepsJumps(Current(s), Current(t))
    PROVE  GetsWider(s, t)
<1>1. PICK c \in Contexts : c = Current(s)
    BY CurrentIsFine
<1>2. PICK d : d = Current(t)
    OBVIOUS
<1>3. Steady(c, d) /\ Follows(s, t) /\ KeepsJumps(c, d)
    BY <1>1, <1>2 DEF GoesOn
<1>4. Len(d.locals) >= Len(c.locals) /\ Len(d.visible) >= Len(c.visible)
    BY <1>3, ContextTypes DEF Steady, SameLocals, SameSettings
<1> QED BY <1>1, <1>2, <1>3, <1>4 DEF GetsWider, Widens, Steady, SameSettings, SameLoops

(* An instruction that is no open jump.                                    *)
LEMMA EmitsAnother ==
    ASSUME NEW s, Good(s), NEW op \in Operations, NEW arg \in Int, NEW name \in VariableNames,
           op \in Jumping => arg \in 0..Len(Current(s).code),
           NEW t, t = EmitNamed(s, op, arg, name)
    PROVE  /\ GetsWider(s, t) /\ GoesOn(s, t) /\ t.error = s.error
           /\ Front(t.contexts) = Front(s.contexts)
           /\ OneMore(Current(s), Current(t), op, arg, name)
<1>1. /\ GoesOn(s, t) /\ t.error = s.error /\ Front(t.contexts) = Front(s.contexts)
      /\ OneMore(Current(s), Current(t), op, arg, name)
    BY EmitsOneMore
<1>2. Current(s).code \in Seq(Instructions) /\ Len(Current(s).code) \in Nat
    BY CurrentIsFine, ContextTypes
<1>3. KeepsJumps(Current(s), Current(t))
    <2> SUFFICES ASSUME NEW jumps, WaitFor(Current(s), jumps) PROVE WaitFor(Current(t), jumps)
        BY DEF KeepsJumps
    <2> QED BY <1>1, <1>2, WaitsOneMore
<1> QED BY <1>1, <1>3, SteadyWidens

LEMMA EmitsPlain ==
    ASSUME NEW s, Good(s), NEW op \in Operations, NEW arg \in Int, op \notin Jumping,
           NEW t, t = Emit(s, op, arg)
    PROVE  /\ GetsWider(s, t) /\ GoesOn(s, t) /\ t.error = s.error
           /\ Front(t.contexts) = Front(s.contexts)
           /\ OneMore(Current(s), Current(t), op, arg, "")
<1>1. "" \in VariableNames
    BY DEF VariableNames
<1>2. t = EmitNamed(s, op, arg, "")
    BY DEF Emit
<1> QED BY <1>1, <1>2, EmitsAnother

(* What does not look a name up: the code gets longer by instructions that *)
(* do not either, in the current function alone, and an error stays.       *)
Extends(old, new) ==
    /\ Len(new) >= Len(old)
    /\ \A i \in 1..Len(old) : new[i] = old[i]
    /\ \A i \in 1..Len(new) : i \in 1..Len(old) \/ new[i].op \notin LookUps
Plainly(s, t) ==
    /\ Front(t.contexts) = Front(s.contexts)
    /\ t.error = NoError => s.error = NoError
    /\ Current(t).upvalues = Current(s).upvalues
    /\ Current(t).last_break = Current(s).last_break
    /\ Extends(Current(s).code, Current(t).code)

LEMMA ExtendsOn ==
    ASSUME NEW S, NEW a \in Seq(S), NEW b \in Seq(S), NEW c \in Seq(S), Extends(a, b), Extends(b, c)
    PROVE  Extends(a, c)
<1>1. Len(a) \in Nat /\ Len(b) \in Nat /\ Len(c) \in Nat
    BY LenProperties
<1>2. \A i \in 1..Len(a) : i \in 1..Len(b)
    BY <1>1 DEF Extends
<1> QED BY <1>1, <1>2 DEF Extends

LEMMA ExtendsSelf ==
    ASSUME NEW S, NEW a \in Seq(S)
    PROVE  Extends(a, a)
BY LenProperties DEF Extends

LEMMA PlainlyOn ==
    ASSUME NEW s, NEW t, NEW u, Good(s), Good(t), Good(u), Plainly(s, t), Plainly(t, u)
    PROVE  Plainly(s, u)
<1>1. /\ Current(s).code \in Seq(Instructions) /\ Current(t).code \in Seq(Instructions)
      /\ Current(u).code \in Seq(Instructions)
    BY CurrentIsFine, ContextTypes
<1>2. Extends(Current(s).code, Current(u).code)
    BY <1>1, ExtendsOn DEF Plainly
<1> QED BY <1>2 DEF Plainly

LEMMA PlainlySelf ==
    ASSUME NEW s, Good(s)
    PROVE  Plainly(s, s)
<1>1. Current(s).code \in Seq(Instructions)
    BY CurrentIsFine, ContextTypes
<1> QED BY <1>1, ExtendsSelf DEF Plainly

LEMMA PlainUpdate ==
    ASSUME NEW s, Good(s), NEW d, Fine(d), NEW t, t = Update(s, d),
           d.upvalues = Current(s).upvalues, d.last_break = Current(s).last_break,
           Extends(Current(s).code, d.code)
    PROVE  Plainly(s, t)
BY Updated DEF Plainly

(* For an Update that leaves the code alone.                               *)
LEMMA PlainestUpdate ==
    ASSUME NEW s, Good(s), NEW d, Fine(d), NEW t, t = Update(s, d),
           d.upvalues = Current(s).upvalues, d.last_break = Current(s).last_break,
           d.code = Current(s).code
    PROVE  Plainly(s, t)
<1>1. Current(s).code \in Seq(Instructions)
    BY CurrentIsFine, ContextTypes
<1> QED BY <1>1, ExtendsSelf, PlainUpdate

LEMMA EmitsPlainly ==
    ASSUME NEW s, Good(s), NEW op \in Operations, op \notin LookUps, NEW arg \in Int,
           NEW name \in VariableNames, NEW t, t = EmitNamed(s, op, arg, name)
    PROVE  Plainly(s, t) /\ Good(t)
<1>1. /\ GoesOn(s, t) /\ t.error = s.error /\ Front(t.contexts) = Front(s.contexts)
      /\ OneMore(Current(s), Current(t), op, arg, name)
    BY EmitsOneMore
<1>2. PICK c : c = Current(s)
    OBVIOUS
<1>3. PICK d : d = Current(t)
    OBVIOUS
<1>4. PICK n \in Nat : n = Len(c.code)
    BY <1>2, CurrentIsFine, ContextTypes
<1>5. Len(d.code) = n + 1 /\ d.code[n + 1].op = op /\ \A i \in 1..n : d.code[i] = c.code[i]
    BY <1>1, <1>2, <1>3, <1>4 DEF OneMore
<1>6. Extends(c.code, d.code)
    <2>1. \A i \in 1..n + 1 : i \in 1..n \/ i = n + 1
        BY <1>4
    <2> QED BY <1>4, <1>5, <2>1 DEF Extends
<1>7. d.upvalues = c.upvalues /\ d.last_break = c.last_break
    BY <1>1, <1>2, <1>3 DEF OneMore, Steady, SameSettings
<1> QED BY <1>1, <1>2, <1>3, <1>6, <1>7 DEF Plainly, GoesOn, Follows

LEMMA FailedWidens ==
    ASSUME NEW s, Good(s), NEW condition, NEW what \in Errors, NEW t, t = FailIf(s, condition, what)
    PROVE  /\ Good(t) /\ GetsWider(s, t) /\ Plainly(s, t)
           /\ Current(t) = Current(s) /\ t.contexts = s.contexts
<1>1. /\ Good(t) /\ GoesOn(s, t) /\ Current(t) = Current(s) /\ t.contexts = s.contexts
      /\ t.error = IF condition /\ s.error = NoError THEN what ELSE s.error
    BY Failed
<1>2. KeepsJumps(Current(s), Current(t))
    BY <1>1 DEF KeepsJumps
<1>3. t.error = NoError => s.error = NoError
    BY <1>1
<1>4. Plainly(s, t)
    BY <1>1, <1>3, PlainlySelf DEF Plainly
<1> QED BY <1>1, <1>2, <1>4, SteadyWidens

(* beginScope.                                                             *)
LEMMA ScopeBegins ==
    ASSUME NEW s, Good(s), NEW t, t = BeginScope(s)
    PROVE  /\ Follows(s, t) /\ t.error = s.error
           /\ Current(t) = [Current(s) EXCEPT !.scopeDepth = @ + 1]
           /\ Current(t).scopeDepth = Current(s).scopeDepth + 1
           /\ Current(t).code = Current(s).code /\ Current(t).visible = Current(s).visible
           /\ Current(t).locals = Current(s).locals /\ SameLoops(Current(s), Current(t))
           /\ Plainly(s, t)
<1>1. PICK c \in Contexts : c = Current(s) /\ Fine(c)
    BY CurrentIsFine
<1>2. PICK depth \in Nat : depth = c.scopeDepth + 1
    BY ContextTypes
<1> PICK d : d = [c EXCEPT !.scopeDepth = depth]
    OBVIOUS
<1>3. /\ d \in Contexts /\ d.scopeDepth = depth /\ d.code = c.code
      /\ d.visible = c.visible /\ d.locals = c.locals /\ d.upvalues = c.upvalues
      /\ SameLoops(c, d)
    BY DEF Contexts, SameLoops
<1>4. Fine(d)
    BY <1>1, <1>3 DEF Fine, SameLoops
<1>5. t = Update(s, d)
    BY <1>1, <1>2 DEF BeginScope
<1>6. Follows(s, t) /\ Current(t) = d /\ t.error = s.error
    BY <1>4, <1>5, Updated
<1>7. Plainly(s, t)
    BY <1>1, <1>3, <1>4, <1>5, PlainestUpdate DEF SameLoops
<1> QED BY <1>1, <1>2, <1>3, <1>6, <1>7

(* The last local of a scope no deeper than depth.                         *)
Kept(c, depth) == Max({0} \cup {i \in 1..Len(c.locals) : c.locals[i].depth <= depth})

LEMMA KeptLocals ==
    ASSUME NEW c, Fine(c), NEW depth \in Nat, NEW keep, keep = Kept(c, depth)
    PROVE  /\ keep \in 1..Len(c.locals) /\ c.locals[keep].depth <= depth
           /\ \A i \in 1..Len(c.locals) : c.locals[i].depth <= depth => i <= keep
<1>1. PICK n \in Nat : n = Len(c.locals)
    BY ContextTypes DEF Fine
<1>2. 1 \in 1..n /\ c.locals[1].depth <= depth
    <2>1. n \in 1..UINT8_COUNT /\ c.locals[1].depth = 0
        BY <1>1 DEF Fine
    <2>2. UINT8_COUNT \in Nat
        BY Limits
    <2>3. 1 \in 1..n
        BY <2>1, <2>2
    <2>4. 0 <= depth
        OBVIOUS
    <2> QED BY <2>1, <2>3, <2>4
<1>3. PICK S : S = {0} \cup {i \in 1..n : c.locals[i].depth <= depth}
    OBVIOUS
<1>4. S \subseteq 0..n /\ S # {}
    BY <1>3
<1>5. keep \in S /\ keep \in 0..n /\ \A i \in S : keep >= i
    <2>1. keep = Max(S)
        BY <1>1, <1>3 DEF Kept
    <2> QED BY <1>4, <2>1, MaxIs
<1>6. keep >= 1
    BY <1>2, <1>3, <1>5
<1>7. keep # 0
    BY <1>6
<1>8. \A i \in 1..n : c.locals[i].depth <= depth => i <= keep
    BY <1>3, <1>5
<1> QED BY <1>1, <1>3, <1>5, <1>7, <1>8

(* adjust_locals.                                                          *)
LEMMA InstructionType ==
    ASSUME NEW op \in Operations, NEW arg \in Int, NEW name \in VariableNames, NEW h \in Int
    PROVE  [op |-> op, arg |-> arg, name |-> name, h |-> h] \in Instructions
BY DEF Instructions

Narrows(c, d) ==
    /\ SameLoops(c, d) /\ KeepsJumps(c, d)
    /\ d.scopeDepth = c.scopeDepth /\ d.visible = c.visible /\ d.upvalues = c.upvalues
    /\ Len(d.code) >= Len(c.code)

LEMMA Adjusts ==
    ASSUME NEW s, Good(s), NEW depth \in Nat, NEW t, t = AdjustLocals(s, depth)
    PROVE  /\ Follows(s, t) /\ t.error = s.error /\ Narrows(Current(s), Current(t))
           /\ Current(t).locals = SubSeq(Current(s).locals, 1, Kept(Current(s), depth))
           /\ Plainly(s, t)
<1>1. PICK c \in Contexts : c = Current(s) /\ Fine(c)
    BY CurrentIsFine
<1>2. PICK count \in Nat : count = Len(c.locals)
    BY ContextTypes
<1>3. PICK keep : keep = Kept(c, depth)
    OBVIOUS
<1>4. keep \in 1..count
    BY <1>1, <1>2, <1>3, KeptLocals
<1>5. PICK more : more = [i \in 1..(count - keep) |->
                    [op |-> IF c.locals[count + 1 - i].captured THEN "CLOSE_UPVALUE" ELSE "POP",
                     arg |-> 0, name |-> "",
                     h |-> IF c.height = DEAD THEN DEAD ELSE c.height + 1 - i]]
    OBVIOUS
<1>6. PICK number \in Nat : number = count - keep
    BY <1>4
<1>7. more \in Seq(Instructions) /\ Len(more) = number
      /\ \A i \in 1..number : more[i] \in Instructions /\ more[i].op \in {"CLOSE_UPVALUE", "POP"}
    <2>1. ASSUME NEW i \in 1..number
          PROVE  more[i] \in Instructions /\ more[i].op \in {"CLOSE_UPVALUE", "POP"}
        <3>1. PICK end \in {"CLOSE_UPVALUE", "POP"} :
                end = IF c.locals[count + 1 - i].captured THEN "CLOSE_UPVALUE" ELSE "POP"
            OBVIOUS
        <3>2. PICK h \in Int : h = IF c.height = DEAD THEN DEAD ELSE c.height + 1 - i
            BY ContextTypes DEF DEAD
        <3>3. PICK one : one = [op |-> end, arg |-> 0, name |-> "", h |-> h]
            OBVIOUS
        <3>4. end \in Operations /\ "" \in VariableNames
            BY DEF Operations, Pops, VariableNames
        <3>5. one \in Instructions /\ one.op = end
            <4>1. one \in Instructions
                <5>1. 0 \in Int
                    OBVIOUS
                <5> QED BY <3>3, <3>4, <5>1, InstructionType, Zenon
            <4>2. one.op = end
                BY <3>3
            <4> QED BY <4>1, <4>2
        <3>6. more[i] = one
            BY <1>5, <1>6, <3>1, <3>2, <3>3
        <3> QED BY <3>5, <3>6
    <2>2. more \in [1..number -> Instructions]
        BY <1>5, <1>6, <2>1
    <2> QED BY <2>1, <2>2, FunctionIsSeq
<1>8. PICK locals \in Seq(LocalRecords) : /\ locals = SubSeq(c.locals, 1, keep)
                                          /\ Len(locals) = keep /\ locals[1] = c.locals[1]
    <2>1. PICK old \in Seq(LocalRecords) : old = c.locals
        BY ContextTypes
    <2>2. \A i \in 1..keep : old[i] \in LocalRecords
        BY <1>2, <1>4, <2>1, ElementOfSeq
    <2>3. /\ SubSeq(old, 1, keep) \in Seq(LocalRecords)
          /\ Len(SubSeq(old, 1, keep)) = IF 1 <= keep THEN keep - 1 + 1 ELSE 0
          /\ \A i \in 1..keep - 1 + 1 : SubSeq(old, 1, keep)[i] = old[1 + i - 1]
        BY <1>4, <2>2, SubSeqProperties
    <2>4. Len(SubSeq(old, 1, keep)) = keep /\ SubSeq(old, 1, keep)[1] = old[1]
        BY <1>4, <2>3
    <2> QED BY <2>1, <2>3, <2>4
<1>9. PICK code \in Seq(Instructions) : code = c.code \o more
    BY <1>7, ContextTypes, ConcatProperties
<1>10. PICK n \in Nat : n = Len(c.code)
    BY ContextTypes
<1>11. /\ Len(code) = n + number
       /\ \A i \in 1..n : code[i] = c.code[i]
       /\ \A i \in 1..number : code[n + i] = more[i]
    <2>1. PICK old \in Seq(Instructions) : old = c.code
        BY ContextTypes
    <2>2. code = old \o more /\ n = Len(old) /\ number = Len(more)
        BY <1>7, <1>9, <1>10, <2>1
    <2> more \in Seq(Instructions)
        BY <1>7
    <2>3. Len(code) = n + number /\ \A i \in 1..n : code[i] = old[i]
        BY <2>2, Joined
    <2>4. \A i \in 1..number : code[n + i] = more[i]
        BY <2>2, Joined
    <2> QED BY <2>1, <2>3, <2>4
<1>12. PICK height \in Int : height = IF c.height = DEAD THEN DEAD ELSE c.height - (count - keep)
    BY <1>6, ContextTypes DEF DEAD
<1>13. PICK d : d = [c EXCEPT !.locals = locals, !.code = code, !.height = height]
    OBVIOUS
<1>14. /\ d \in Contexts /\ d.locals = locals /\ d.code = code
       /\ SameLoops(c, d) /\ d.scopeDepth = c.scopeDepth
       /\ d.visible = c.visible /\ d.upvalues = c.upvalues
    BY <1>13 DEF Contexts, SameLoops
<1>15. Fine(d)
    <2>1. Len(d.locals) \in 1..UINT8_COUNT
        <3>1. count \in 1..UINT8_COUNT /\ UINT8_COUNT \in Nat
            BY <1>1, <1>2, Limits DEF Fine
        <3> QED BY <1>4, <1>8, <1>14, <3>1
    <2>2. d.last_break <= Len(d.code) /\ d.last_continue <= Len(d.code)
        <3>1. c.last_break \in Nat /\ c.last_continue \in Nat /\ c.last_break <= n /\ c.last_continue <= n
            BY <1>1, <1>10, ContextTypes DEF Fine
        <3> QED BY <1>11, <1>14, <3>1 DEF SameLoops
    <2> QED BY <1>1, <1>8, <1>14, <2>1, <2>2 DEF Fine, SameLoops
<1>16. KeepsJumps(c, d)
    <2> SUFFICES ASSUME NEW jumps, WaitFor(c, jumps), NEW i \in 1..n + number, IsJump(code[i])
                 PROVE  code[i].arg \in 0..n + number \/ i \in jumps
        BY <1>11, <1>14 DEF KeepsJumps, WaitFor
    <2>1. CASE i \in 1..n
        <3>1. c.code[i].arg \in 0..n \/ i \in jumps
            BY <1>10, <1>11, <2>1 DEF WaitFor
        <3> QED BY <1>11, <2>1, <3>1
    <2>2. CASE \E l \in 1..number : i = n + l
        <3>1. PICK l \in 1..number : i = n + l
            BY <2>2
        <3>2. code[i].op \in {"CLOSE_UPVALUE", "POP"}
            BY <1>7, <1>11, <3>1
        <3> QED BY <3>2 DEF IsJump
    <2> QED BY <2>1, <2>2, InEither
<1>17. t = Update(s, d)
    BY <1>1, <1>2, <1>3, <1>5, <1>8, <1>9, <1>12, <1>13 DEF AdjustLocals, Kept
<1>18. Follows(s, t) /\ Current(t) = d /\ t.error = s.error
    BY <1>15, <1>17, Updated
<1>19. Len(d.code) >= Len(c.code)
    BY <1>10, <1>11, <1>14
<1>20. Extends(c.code, d.code)
    <2>1. ASSUME NEW i \in 1..n + number PROVE i \in 1..n \/ code[i].op \notin LookUps
        <3>1. CASE \E l \in 1..number : i = n + l
            <4>1. code[i].op \in {"CLOSE_UPVALUE", "POP"}
                BY <1>7, <1>11, <3>1
            <4> QED BY <4>1 DEF LookUps, UpvalueOps, GlobalOps
        <3> QED BY <3>1, InEither
    <2> QED BY <1>10, <1>11, <1>14, <1>19, <2>1 DEF Extends
<1>21. Plainly(s, t)
    BY <1>1, <1>14, <1>15, <1>17, <1>20, PlainUpdate DEF SameLoops
<1> QED BY <1>1, <1>3, <1>8, <1>14, <1>16, <1>18, <1>19, <1>21 DEF Narrows

(* endScope.                                                               *)
EndsScope(s, t, base) ==
    /\ Follows(s, t) /\ t.error = s.error /\ Plainly(s, t)
    /\ SameLoops(Current(s), Current(t)) /\ KeepsJumps(Current(s), Current(t))
    /\ Current(t).scopeDepth = Current(s).scopeDepth - 1
    /\ Len(Current(t).visible) = base /\ Len(Current(t).code) >= Len(Current(s).code)

LEMMA ScopeEnds ==
    ASSUME NEW s, Good(s), Current(s).scopeDepth > 0,
           NEW base \in Nat, base <= Len(Current(s).visible), NEW t, t = EndScope(s, base)
    PROVE  EndsScope(s, t, base)
<1>1. PICK c \in Contexts : c = Current(s) /\ Fine(c)
    BY CurrentIsFine
<1>2. PICK outer \in Nat : outer = c.scopeDepth - 1
    BY <1>1, ContextTypes
<1>3. PICK visible \in Seq(VariableNames) : visible = SubSeq(c.visible, 1, base) /\ Len(visible) = base
    <2>1. PICK old \in Seq(VariableNames) : old = c.visible
        BY ContextTypes
    <2>2. base <= Len(old) /\ Len(old) \in Nat
        BY <1>1, <2>1, LenProperties
    <2>3. \A i \in 1..base : old[i] \in VariableNames
        BY <2>2, ElementOfSeq
    <2>4. /\ SubSeq(old, 1, base) \in Seq(VariableNames)
          /\ Len(SubSeq(old, 1, base)) = IF 1 <= base THEN base - 1 + 1 ELSE 0
        BY <2>3, SubSeqProperties
    <2>5. Len(SubSeq(old, 1, base)) = base
        BY <2>4
    <2> QED BY <2>1, <2>4, <2>5
<1>4. PICK d : d = [c EXCEPT !.scopeDepth = outer, !.visible = visible]
    OBVIOUS
<1>5. /\ d \in Contexts /\ d.scopeDepth = outer /\ d.visible = visible /\ d.code = c.code
      /\ d.locals = c.locals /\ d.upvalues = c.upvalues /\ SameLoops(c, d)
    BY <1>4 DEF Contexts, SameLoops
<1>6. Fine(d)
    BY <1>1, <1>5 DEF Fine, SameLoops
<1>7. PICK u : u = Update(s, d)
    OBVIOUS
<1>8. Follows(s, u) /\ Current(u) = d /\ u.error = s.error
    BY <1>6, <1>7, Updated
<1>9. t = AdjustLocals(u, outer)
    BY <1>1, <1>2, <1>3, <1>4, <1>7 DEF EndScope
<1>10. Follows(u, t) /\ t.error = u.error /\ Narrows(d, Current(t)) /\ Plainly(u, t)
    <2>1. Good(u)
        BY <1>8 DEF Follows
    <2> QED BY <1>8, <1>9, <2>1, Adjusts
<1>11. Follows(s, t)
    BY <1>8, <1>10, FollowsOn
<1>12. KeepsJumps(c, Current(t))
    BY <1>5, <1>10 DEF Narrows, KeepsJumps, WaitFor
<1>13. Plainly(s, t)
    <2>1. Plainly(s, u)
        BY <1>1, <1>5, <1>6, <1>7, PlainestUpdate DEF SameLoops
    <2>2. Good(u) /\ Good(t)
        BY <1>8, <1>10 DEF Follows
    <2> QED BY <1>10, <2>1, <2>2, PlainlyOn
<1> QED BY <1>1, <1>2, <1>3, <1>5, <1>8, <1>10, <1>11, <1>12, <1>13 DEF EndsScope, Narrows, SameLoops

(* What the current Context becomes when it is put in place and the code   *)
(* stays.                                                                  *)
LEMMA WidensByLocals ==
    ASSUME NEW s, Good(s), NEW d, d.code = Current(s).code, SameLoops(Current(s), d), Fine(d),
           d.scopeDepth = Current(s).scopeDepth,
           Len(d.visible) >= Len(Current(s).visible), Len(d.locals) >= Len(Current(s).locals),
           NEW t, t = Update(s, d)
    PROVE  /\ GetsWider(s, t) /\ Current(t) = d /\ t.error = s.error
           /\ (d.upvalues = Current(s).upvalues => Plainly(s, t))
<1>1. Follows(s, t) /\ Current(t) = d /\ t.error = s.error
    BY Updated
<1>2. KeepsJumps(Current(s), d)
    BY DEF KeepsJumps, WaitFor
<1>3. Len(d.code) >= Len(Current(s).code)
    BY CurrentIsFine, ContextTypes
<1>4. d.upvalues = Current(s).upvalues => Plainly(s, t)
    BY PlainestUpdate DEF SameLoops
<1> QED BY <1>1, <1>2, <1>3, <1>4 DEF GetsWider, Widens

LEMMA CanStillDefine ==
    ASSUME NEW c \in Contexts, NEW d \in Contexts, Widens(c, d), CanDefine(c)
    PROVE  CanDefine(d)
BY ContextTypes DEF Widens, CanDefine

(* addLocal.                                                               *)
LEMMA AddsLocal ==
    ASSUME NEW s, Good(s), NEW name \in VariableNames, NEW t, t = AddLocal(s, name)
    PROVE  GetsWider(s, t) /\ Len(Current(t).locals) > 1 /\ Plainly(s, t)
<1>1. PICK c \in Contexts : c = Current(s) /\ Fine(c)
    BY CurrentIsFine
<1>2. PICK n \in Nat : n = Len(c.locals)
    BY ContextTypes
<1>3. n >= 1 /\ n <= UINT8_COUNT /\ UINT8_COUNT \in Nat /\ UINT8_COUNT >= 2
    <2>1. n \in 1..UINT8_COUNT
        BY <1>1, <1>2 DEF Fine
    <2>2. UINT8_COUNT \in Nat /\ UINT8_COUNT >= 2
        BY Limits
    <2> QED BY <2>1, <2>2
<1>4. CASE n = UINT8_COUNT
    <2>1. PICK full : full = TRUE /\ t = FailIf(s, full, "Too many local variables")
        BY <1>1, <1>2, <1>4 DEF AddLocal
    <2>2. "Too many local variables" \in Errors
        BY DEF Errors
    <2>3. GetsWider(s, t) /\ Current(t) = Current(s) /\ Plainly(s, t)
        <3>1. PICK what \in Errors : t = FailIf(s, full, what)
            BY <2>1, <2>2
        <3>2. GetsWider(s, t) /\ Good(t) /\ Current(t) = Current(s) /\ Plainly(s, t)
            BY <3>1, FailedWidens
        <3> QED BY <3>2
    <2>4. Len(Current(t).locals) = n /\ n > 1
        <3>1. Len(Current(t).locals) = n
            BY <1>1, <1>2, <2>3
        <3>2. n > 1
            BY <1>3, <1>4
        <3> QED BY <3>1, <3>2
    <2> QED BY <2>3, <2>4
<1>5. CASE n # UINT8_COUNT
    <2>1. PICK new : new = [name |-> name, depth |-> -1, captured |-> FALSE]
        OBVIOUS
    <2>2. new \in LocalRecords
        BY <2>1 DEF LocalRecords, VariableNames
    <2>3. PICK old \in Seq(LocalRecords) : old = c.locals
        BY <1>1, ContextTypes
    <2>4. PICK locals \in Seq(LocalRecords) : /\ locals = Append(c.locals, new)
                                              /\ Len(locals) = n + 1 /\ locals[1] = c.locals[1]
        <3>1. /\ Append(old, new) \in Seq(LocalRecords) /\ Len(Append(old, new)) = Len(old) + 1
              /\ \A i \in 1..Len(old) : Append(old, new)[i] = old[i]
            BY <2>2, AppendProperties
        <3>2. 1 \in 1..Len(old)
            BY <1>2, <1>3, <2>3
        <3> QED BY <1>2, <2>3, <3>1, <3>2
    <2>5. PICK visible \in Seq(VariableNames) : /\ visible = Append(c.visible, name)
                                                /\ Len(visible) >= Len(c.visible)
        <3>1. PICK v \in Seq(VariableNames) : v = c.visible
            BY <1>1, ContextTypes
        <3>2. Append(v, name) \in Seq(VariableNames) /\ Len(Append(v, name)) = Len(v) + 1
            BY AppendProperties
        <3>3. Len(v) \in Nat
            BY LenProperties
        <3>4. Len(Append(v, name)) >= Len(v)
            BY <3>2, <3>3
        <3> QED BY <3>1, <3>2, <3>4
    <2>6. PICK d : d = [c EXCEPT !.locals = locals, !.visible = visible]
        OBVIOUS
    <2>7. /\ d \in Contexts /\ d.locals = locals /\ d.visible = visible /\ d.code = c.code
          /\ d.upvalues = c.upvalues /\ d.scopeDepth = c.scopeDepth /\ SameLoops(c, d)
        BY <2>6 DEF Contexts, SameLoops
    <2>8. Fine(d)
        <3>1. Len(d.locals) \in 1..UINT8_COUNT
            BY <1>3, <1>5, <2>4, <2>7
        <3> QED BY <1>1, <2>4, <2>7, <3>1 DEF Fine, SameLoops
    <2>9. t = Update(s, d)
        BY <1>1, <1>2, <1>5, <2>1, <2>4, <2>5, <2>6 DEF AddLocal
    <2>10. Len(d.locals) = n + 1 /\ n + 1 >= Len(Current(s).locals) /\ n + 1 > 1
        BY <1>1, <1>2, <1>3, <2>4, <2>7
    <2>11. Len(d.visible) >= Len(Current(s).visible)
        BY <1>1, <2>5, <2>7
    <2>12. GetsWider(s, t) /\ Current(t) = d /\ Plainly(s, t)
        <3> Good(s) /\ t = Update(s, d) /\ Fine(d) /\ d.upvalues = Current(s).upvalues
            BY <1>1, <2>7, <2>8, <2>9
        <3>1. SameLoops(Current(s), d) /\ d.code = Current(s).code /\ d.scopeDepth = Current(s).scopeDepth
            BY <1>1, <2>7
        <3>2. Len(d.locals) >= Len(Current(s).locals)
            BY <2>10
        <3> QED BY <2>11, <3>1, <3>2, WidensByLocals
    <2> QED BY <2>10, <2>12
<1> QED BY <1>4, <1>5

(* declareVariable.                                                        *)
LEMMA DeclaresOne ==
    ASSUME NEW s, Good(s), NEW name \in VariableNames, NEW t, t = DeclareVariable(s, name)
    PROVE  GetsWider(s, t) /\ CanDefine(Current(t)) /\ Plainly(s, t)
<1>1. CASE Current(s).scopeDepth = 0
    <2>1. t = s
        BY <1>1 DEF DeclareVariable
    <2>2. KeepsJumps(Current(s), Current(s))
        BY DEF KeepsJumps
    <2>3. GetsWider(s, t) /\ CanDefine(Current(t))
        BY <1>1, <2>1, <2>2, FollowsSelf, SteadyWidens DEF CanDefine
    <2> QED BY <2>1, <2>3, PlainlySelf
<1>2. CASE Current(s).scopeDepth # 0
    <2>1. PICK redeclared : redeclared =
            \E i \in 1..Len(Current(s).locals) :
                InThisScope(Current(s), i) /\ Current(s).locals[i].name = name
        OBVIOUS
    <2>2. "Already a variable with this name" \in Errors
        BY DEF Errors
    <2>3. PICK u : u = FailIf(s, redeclared, "Already a variable with this name")
        OBVIOUS
    <2>4. Good(u) /\ GetsWider(s, u) /\ Plainly(s, u)
        BY <2>2, <2>3, Failed, FailedWidens
    <2>5. t = AddLocal(u, name)
        BY <1>2, <2>1, <2>3 DEF DeclareVariable
    <2>6. GetsWider(u, t) /\ Len(Current(t).locals) > 1 /\ Plainly(u, t)
        BY <2>4, <2>5, AddsLocal
    <2>7. GetsWider(s, t)
        BY <2>4, <2>6, GetsWiderOn
    <2>8. Good(t)
        BY <2>6 DEF GetsWider, Follows
    <2>9. Plainly(s, t)
        BY <2>4, <2>6, <2>8, PlainlyOn
    <2> QED BY <2>6, <2>7, <2>9 DEF CanDefine
<1> QED BY <1>1, <1>2

(* markInitialized.                                                        *)
LEMMA MarksInitialized ==
    ASSUME NEW s, Good(s), CanDefine(Current(s)), NEW t, t = MarkInitialized(s)
    PROVE  GetsWider(s, t) /\ Plainly(s, t)
<1>1. CASE Current(s).scopeDepth = 0
    <2>1. t = s
        BY <1>1 DEF MarkInitialized
    <2>2. KeepsJumps(Current(s), Current(s))
        BY DEF KeepsJumps
    <2> QED BY <2>1, <2>2, FollowsSelf, SteadyWidens, PlainlySelf
<1>2. CASE Current(s).scopeDepth # 0
    <2>1. PICK c \in Contexts : c = Current(s) /\ Fine(c)
        BY CurrentIsFine
    <2>2. PICK old \in Seq(LocalRecords) : old = c.locals
        BY ContextTypes
    <2>3. PICK n \in Nat : n = Len(old) /\ n > 1 /\ n \in 1..Len(old)
        <3>1. Len(old) \in Nat /\ Len(old) > 1
            BY <1>2, <2>1, <2>2, LenProperties DEF CanDefine
        <3> QED BY <3>1
    <2>4. PICK depth \in Nat : depth = c.scopeDepth
        BY ContextTypes
    <2>5. PICK new : new = [old[n] EXCEPT !.depth = depth]
        OBVIOUS
    <2>6. new \in LocalRecords
        <3>1. old[n] \in LocalRecords
            BY <2>3, ElementOfSeq
        <3> QED BY <2>5, <3>1 DEF LocalRecords
    <2>7. PICK locals : locals = [old EXCEPT ![n] = new]
        OBVIOUS
    <2>8. /\ locals \in Seq(LocalRecords) /\ Len(locals) = n
          /\ \A i \in 1..n : locals[i] = IF i = n THEN new ELSE old[i]
        BY <2>3, <2>6, <2>7, ExceptSeq
    <2>9. locals[1] = old[1]
        BY <2>3, <2>8
    <2>10. PICK d : d = [c EXCEPT !.locals = locals]
        OBVIOUS
    <2>11. /\ d \in Contexts /\ d.locals = locals /\ d.visible = c.visible /\ d.code = c.code
           /\ d.upvalues = c.upvalues /\ d.scopeDepth = c.scopeDepth /\ SameLoops(c, d)
        BY <2>8, <2>10 DEF Contexts, SameLoops
    <2>12. Fine(d)
        BY <2>1, <2>2, <2>3, <2>8, <2>9, <2>11 DEF Fine, SameLoops
    <2>13. t = Update(s, d)
        <3>1. [c EXCEPT !.locals[Len(c.locals)].depth = c.scopeDepth] = d
            BY <2>2, <2>3, <2>4, <2>5, <2>7, <2>10 DEF Contexts
        <3> QED BY <1>2, <2>1, <3>1 DEF MarkInitialized
    <2>14. GetsWider(s, t) /\ Plainly(s, t)
        <3> Good(s) /\ t = Update(s, d) /\ Fine(d) /\ d.upvalues = Current(s).upvalues
            BY <2>1, <2>11, <2>12, <2>13
        <3>1. SameLoops(Current(s), d) /\ d.code = Current(s).code /\ d.scopeDepth = Current(s).scopeDepth
            BY <2>1, <2>11
        <3>2. Len(d.locals) >= Len(Current(s).locals) /\ Len(d.visible) >= Len(Current(s).visible)
            BY <2>1, <2>2, <2>3, <2>8, <2>11, ContextTypes
        <3> QED BY <3>1, <3>2, WidensByLocals
    <2> QED BY <2>14
<1> QED BY <1>1, <1>2

(* defineVariable.                                                         *)
LEMMA Defines ==
    ASSUME NEW s, Good(s), CanDefine(Current(s)), NEW name \in VariableNames,
           NEW t, t = DefineVariable(s, name)
    PROVE  GetsWider(s, t) /\ Plainly(s, t)
<1>1. CASE Current(s).scopeDepth > 0
    BY <1>1, MarksInitialized DEF DefineVariable
<1>2. CASE ~(Current(s).scopeDepth > 0)
    <2>1. PICK op : op = "DEFINE_GLOBAL"
        OBVIOUS
    <2>2. PICK zero \in Int : zero = 0
        OBVIOUS
    <2>3. t = EmitNamed(s, op, zero, name)
        BY <1>2, <2>1, <2>2 DEF DefineVariable
    <2>4. op \in Operations /\ op \notin Jumping /\ op \notin LookUps
        BY <2>1 DEF Operations, Pops, Jumping, LookUps, UpvalueOps, GlobalOps
    <2>5. GetsWider(s, t)
        BY <2>3, <2>4, EmitsAnother
    <2>6. Plainly(s, t)
        BY <2>3, <2>4, EmitsPlainly
    <2> QED BY <2>5, <2>6
<1> QED BY <1>1, <1>2
-----------------------------------------------------------------------------
(* Names.                                                                  *)

(* resolveLocal.                                                           *)
LEMMA Resolves ==
    ASSUME NEW c \in Contexts, NEW name, NEW slot, slot = ResolveLocal(c, name)
    PROVE  /\ slot \in 0..Len(c.locals)
           /\ slot # 0 => slot \in 1..Len(c.locals) /\ c.locals[slot].name = name
           /\ \A i \in 1..Len(c.locals) : c.locals[i].name = name => i <= slot
<1>1. PICK n \in Nat : n = Len(c.locals)
    BY ContextTypes
<1>2. PICK S : S = {0} \cup {i \in 1..n : c.locals[i].name = name}
    OBVIOUS
<1>3. S \subseteq 0..n /\ S # {}
    BY <1>2
<1>4. slot \in S /\ slot \in 0..n /\ \A i \in S : slot >= i
    <2>1. slot = Max(S)
        BY <1>1, <1>2 DEF ResolveLocal
    <2> QED BY <1>3, <2>1, MaxIs
<1>5. \A i \in 1..n : c.locals[i].name = name => i <= slot
    BY <1>2, <1>4
<1>6. slot # 0 => slot \in 1..n /\ c.locals[slot].name = name
    BY <1>2, <1>4
<1> QED BY <1>1, <1>4, <1>5, <1>6

(* addUpvalue.                                                             *)
Slots == 0..UINT8_COUNT - 1
Added ==
    {r \in [at : Slots, upvalues : Seq(UpvalueRecords), full : BOOLEAN] :
        Len(r.upvalues) <= UINT8_COUNT}

LEMMA AddsUpvalue ==
    ASSUME NEW upvalues \in Seq(UpvalueRecords), Len(upvalues) <= UINT8_COUNT,
           NEW index \in Slots, NEW isLocal \in BOOLEAN
    PROVE  AddUpvalue(upvalues, index, isLocal) \in Added
<1>1. PICK u : u = [index |-> index, isLocal |-> isLocal]
    OBVIOUS
<1>2. u \in UpvalueRecords
    BY <1>1 DEF UpvalueRecords, Slots
<1>3. PICK n \in Nat : n = Len(upvalues)
    BY LenProperties
<1>4. UINT8_COUNT \in Nat /\ UINT8_COUNT >= 2 /\ n <= UINT8_COUNT
    BY <1>3, Limits
<1>5. PICK same : same = {i \in 1..n : upvalues[i] = u}
    OBVIOUS
<1>6. PICK full \in BOOLEAN : full = (same = {} /\ n = UINT8_COUNT)
    OBVIOUS
<1>7. PICK at : at = CASE same # {} -> Min(same) - 1 [] full -> 0 [] OTHER -> n
    OBVIOUS
<1>8. PICK all : all = IF same # {} \/ full THEN upvalues ELSE Append(upvalues, u)
    OBVIOUS
<1>9. at \in Slots
    <2>1. CASE same # {}
        <3>1. same \subseteq Nat
            BY <1>5
        <3>2. Min(same) \in 1..n
            BY <1>5, <2>1, <3>1, MinIs
        <3>3. at = Min(same) - 1
            BY <1>6, <1>7, <2>1, Zenon
        <3> QED BY <1>4, <3>2, <3>3 DEF Slots
    <2>2. CASE same = {} /\ n = UINT8_COUNT
        <3>1. at = 0
            BY <1>6, <1>7, <2>2
        <3> QED BY <1>4, <3>1 DEF Slots
    <2>3. CASE same = {} /\ n # UINT8_COUNT
        <3>1. at = n
            BY <1>6, <1>7, <2>3
        <3> QED BY <1>4, <2>3, <3>1 DEF Slots
    <2> QED BY <2>1, <2>2, <2>3
<1>10. all \in Seq(UpvalueRecords) /\ Len(all) <= UINT8_COUNT
    <2>1. CASE same # {} \/ full
        BY <1>3, <1>4, <1>8, <2>1
    <2>2. CASE same = {} /\ ~full
        <3>1. all = Append(upvalues, u) /\ n # UINT8_COUNT
            BY <1>6, <1>8, <2>2
        <3>2. Append(upvalues, u) \in Seq(UpvalueRecords) /\ Len(Append(upvalues, u)) = n + 1
            BY <1>2, <1>3, AppendProperties
        <3> QED BY <1>4, <3>1, <3>2
    <2> QED BY <2>1, <2>2
<1>11. PICK r : r = [at |-> at, upvalues |-> all, full |-> full]
    OBVIOUS
<1>12. r \in Added
    BY <1>9, <1>10, <1>11 DEF Added
<1>13. AddUpvalue(upvalues, index, isLocal) = r
    BY <1>1, <1>3, <1>5, <1>6, <1>7, <1>8, <1>11 DEF AddUpvalue
<1> QED BY <1>12, <1>13

(* The upvalues on the way from the owner of a variable are as the code    *)
(* says, one function after the other.                                     *)
Way(s, owner, slot, link) ==
    /\ link \in [owner + 1..Len(s.contexts) -> Added]
    /\ link[owner + 1] = AddUpvalue(s.contexts[owner + 1].upvalues, slot - 1, TRUE)
    /\ \A j \in owner + 2..Len(s.contexts) :
        link[j] = AddUpvalue(s.contexts[j].upvalues, link[j - 1].at, FALSE)

LEMMA LinksAre ==
    ASSUME NEW s, Good(s), NEW n \in Nat, n = Len(s.contexts), NEW owner \in 1..n - 1, NEW name,
           NEW slot, slot = ResolveLocal(s.contexts[owner], name), slot # 0,
           NEW link, link = Links(s, owner, name)
    PROVE  Way(s, owner, slot, link)
<1>1. \A j \in 1..n : Fine(s.contexts[j]) /\ s.contexts[j] \in Contexts
    BY DEF Good, Fine
<1>2. slot - 1 \in Slots
    <2>1. s.contexts[owner] \in Contexts /\ Fine(s.contexts[owner])
        BY <1>1
    <2>2. slot \in 1..Len(s.contexts[owner].locals)
        BY <2>1, Resolves
    <2>3. Len(s.contexts[owner].locals) \in 1..UINT8_COUNT /\ UINT8_COUNT \in Nat
        BY <2>1, Limits DEF Fine
    <2>4. PICK l \in 1..UINT8_COUNT : l = Len(s.contexts[owner].locals)
        BY <2>3
    <2> QED BY <2>2, <2>3, <2>4 DEF Slots
<1>3. ASSUME NEW j \in 1..n, NEW at \in Slots, NEW isLocal \in BOOLEAN
      PROVE  AddUpvalue(s.contexts[j].upvalues, at, isLocal) \in Added
    <2>1. s.contexts[j].upvalues \in Seq(UpvalueRecords) /\ Len(s.contexts[j].upvalues) <= UINT8_COUNT
        BY <1>1, ContextTypes DEF Fine
    <2> QED BY <2>1, AddsUpvalue
<1> \A j \in 1..n : \A at \in Slots :
        /\ AddUpvalue(s.contexts[j].upvalues, at, TRUE) \in Added
        /\ AddUpvalue(s.contexts[j].upvalues, at, FALSE) \in Added
    BY <1>3, TRUE \in BOOLEAN, FALSE \in BOOLEAN, Zenon
<1>4. PICK a \in 2..n : a = owner + 1
    OBVIOUS
<1>5. PICK x \in Added : x = AddUpvalue(s.contexts[a].upvalues, slot - 1, TRUE)
    <2>1. a \in 1..n
        OBVIOUS
    <2> QED BY <1>2, <2>1
<1>6. PICK g : g = [p \in Nat \X Added |->
                    IF p[1] \in a + 1..n
                    THEN AddUpvalue(s.contexts[p[1]].upvalues, p[2].at, FALSE) ELSE p[2]]
    OBVIOUS
<1>7. g \in [Nat \X Added -> Added]
    <2>1. ASSUME NEW p \in Nat \X Added PROVE g[p] \in Added
        <3>1. p[2] \in Added /\ p[2].at \in Slots /\ p[1] \in Nat
            BY DEF Added
        <3>2. CASE p[1] \in a + 1..n
            <4>1. AddUpvalue(s.contexts[p[1]].upvalues, p[2].at, FALSE) \in Added
                <5>1. p[1] \in 1..n
                    BY <3>2
                <5> QED BY <3>1, <5>1
            <4> QED BY <1>6, <3>2, <4>1
        <3>3. CASE p[1] \notin a + 1..n
            BY <1>6, <3>1, <3>3
        <3> QED BY <3>2, <3>3
    <2> QED BY <1>6, <2>1
<1>8. PICK f \in [a..n -> Added] : f[a] = x /\ \A i \in a + 1..n : f[i] = g[<<i, f[i - 1]>>]
    <2>1. a \in Nat /\ a <= n
        BY <1>4
    <2>2. \E f \in [a..n -> Added] : Stepwise(f, a, n, x, g)
        BY <1>7, <2>1, StepByStep, Zenon
    <2> QED BY <2>2 DEF Stepwise
<1>9. ASSUME NEW i \in a + 1..n
      PROVE  f[i] = AddUpvalue(s.contexts[i].upvalues, f[i - 1].at, FALSE)
    <2>1. i - 1 \in a..n /\ i \in Nat /\ f[i - 1] \in Added
        BY <1>4, <1>8
    <2>2. g[<<i, f[i - 1]>>] = AddUpvalue(s.contexts[i].upvalues, f[i - 1].at, FALSE)
        BY <1>6, <2>1
    <2> QED BY <1>8, <2>2
<1> DEFINE Step(h) == [j \in a..n |->
                        AddUpvalue(s.contexts[j].upvalues,
                                   IF j = a THEN slot - 1 ELSE h[j - 1].at, j = a)]
<1>10. f = Step(f)
    <2>1. ASSUME NEW j \in a..n
          PROVE  f[j] = AddUpvalue(s.contexts[j].upvalues,
                                   IF j = a THEN slot - 1 ELSE f[j - 1].at, j = a)
        <3>1. CASE j = a
            <4>1. (j = a) = TRUE
                BY <3>1
            <4> QED BY <1>5, <1>8, <3>1, <4>1
        <3>2. CASE j # a
            <4>1. j \in a + 1..n
                BY <1>4, <3>2
            <4>2. (j = a) = FALSE
                BY <3>2
            <4> QED BY <1>9, <3>2, <4>1, <4>2
        <3> QED BY <3>1, <3>2
    <2> QED BY <1>8, <2>1
<1>11. link = CHOOSE h : h = Step(h)
    BY <1>4 DEF Links
<1>12. link = Step(link)
    BY <1>10, <1>11
<1> HIDE DEF Step
<1>13. \A j \in a..n : link[j] = AddUpvalue(s.contexts[j].upvalues,
                                   IF j = a THEN slot - 1 ELSE link[j - 1].at, j = a)
    BY <1>12 DEF Step
<1>14. link[a] = x
    <2>1. a \in a..n /\ (a = a) = TRUE
        BY <1>4
    <2> QED BY <1>5, <1>13, <2>1
<1>15. ASSUME NEW j \in a + 1..n
       PROVE  link[j] = AddUpvalue(s.contexts[j].upvalues, link[j - 1].at, FALSE)
    <2>1. j \in a..n /\ j # a
        BY <1>4
    <2>2. (j = a) = FALSE
        BY <2>1
    <2> QED BY <1>13, <2>1, <2>2
<1>16. \A j \in a..n : link[j] \in Added
    <2>1. ASSUME NEW j \in a + 1..n, link[j - 1] \in Added PROVE link[j] \in Added
        <3>1. link[j - 1].at \in Slots /\ j \in 1..n
            BY <1>4, <2>1 DEF Added
        <3> QED BY <1>3, <1>15, <3>1
    <2>2. link[a] \in Added /\ a \in Nat
        BY <1>4, <1>14
    <2> QED BY <2>1, <2>2, Upward
<1>17. link \in [a..n -> Added]
    <2>1. link = [j \in a..n |-> link[j]]
        BY <1>12, <1>13 DEF Step
    <2> QED BY <1>16, <2>1
<1>18. owner + 2 = a + 1
    BY <1>4
<1> QED BY <1>4, <1>5, <1>14, <1>15, <1>17, <1>18 DEF Way

(* resolveUpvalue: some other functions get an upvalue, and a local of the *)
(* owner is captured.                                                      *)
Threaded(s, t, owner, slot, link) ==
    /\ t.error = NoError =>
        s.error = NoError /\ \A j \in owner + 1..Len(s.contexts) : ~link[j].full
    /\ \A j \in 1..owner - 1 : t.contexts[j] = s.contexts[j]
    /\ t.contexts[owner].upvalues = s.contexts[owner].upvalues
    /\ t.contexts[owner].locals[slot].captured
    /\ \A i \in 1..Len(s.contexts[owner].locals) :
        s.contexts[owner].locals[i].captured => t.contexts[owner].locals[i].captured
    /\ \A j \in owner + 1..Len(s.contexts) :
        /\ t.contexts[j].locals = s.contexts[j].locals
        /\ t.contexts[j].upvalues = link[j].upvalues
LEMMA ResolvesUpvalue ==
    ASSUME NEW s, Good(s), NEW n \in Nat, n = Len(s.contexts), NEW owner \in 1..n - 1, NEW name,
           ResolveLocal(s.contexts[owner], name) # 0,
           NEW r, r = ResolveUpvalue(s, owner, name)
    PROVE  /\ GetsWider(s, r.s) /\ r.at \in Slots /\ Alike(Current(s), Current(r.s))
           /\ \A slot, link :
                slot = ResolveLocal(s.contexts[owner], name) /\ link = Links(s, owner, name) =>
                    Threaded(s, r.s, owner, slot, link) /\ r.at = link[n].at
<1>1. \A j \in 1..n : Fine(s.contexts[j]) /\ s.contexts[j] \in Contexts
    BY DEF Good, Fine
<1> DEFINE slot == ResolveLocal(s.contexts[owner], name)
<1> DEFINE link == Links(s, owner, name)
<1> HIDE DEF slot, link
<1>2. slot = ResolveLocal(s.contexts[owner], name)
    BY DEF slot
<1>3. link = Links(s, owner, name)
    BY DEF link
<1>4. link \in [owner + 1..n -> Added]
    BY <1>2, <1>3, LinksAre DEF Way
<1>5. PICK uninitialized : uninitialized = (s.contexts[owner].locals[slot].depth = -1)
    OBVIOUS
<1>6. PICK full : full = \E j \in owner + 1..n : link[j].full
    OBVIOUS
<1>7. PICK t : t = FailIf(s, uninitialized, "Can't read local variable in its own initializer")
    OBVIOUS
<1>8. PICK u : u = FailIf(t, full, "Too many closure variables")
    OBVIOUS
<1>9. /\ Good(u) /\ u.contexts = s.contexts
      /\ u.error = NoError => s.error = NoError /\ ~full
    <2>1. PICK what \in Errors : what = "Can't read local variable in its own initializer"
        BY DEF Errors
    <2>2. PICK other \in Errors : other = "Too many closure variables"
        BY DEF Errors
    <2>3. t = FailIf(s, uninitialized, what) /\ u = FailIf(t, full, other)
        BY <1>7, <1>8, <2>1, <2>2
    <2>4. Good(t) /\ t.contexts = s.contexts /\ Plainly(s, t)
        BY <2>3, FailedWidens
    <2>5. Good(u) /\ u.contexts = t.contexts
          /\ u.error = IF full /\ t.error = NoError THEN other ELSE t.error
        BY <2>3, <2>4, Failed
    <2>6. other # NoError
        BY <2>2 DEF NoError
    <2>7. u.error = NoError => t.error = NoError /\ ~full
        BY <2>5, <2>6
    <2> QED BY <2>4, <2>5, <2>7 DEF Plainly
<1> DEFINE linked(j) ==
        CASE j < owner -> s.contexts[j]
          [] j = owner -> [s.contexts[j] EXCEPT !.locals[slot].captured = TRUE]
          [] OTHER -> [s.contexts[j] EXCEPT !.upvalues = link[j].upvalues]
<1>10. ASSUME NEW j \in 1..n
       PROVE  /\ j < owner => linked(j) = s.contexts[j]
              /\ j = owner => linked(j) = [s.contexts[j] EXCEPT !.locals[slot].captured = TRUE]
              /\ j > owner => linked(j) = [s.contexts[j] EXCEPT !.upvalues = link[j].upvalues]
    <2>1. j \in Nat /\ owner \in Nat
        OBVIOUS
    <2> QED BY <2>1
<1> HIDE DEF linked
<1>11. PICK cs : cs = [j \in 1..n |-> linked(j)]
    OBVIOUS
<1>12. r = [s |-> [u EXCEPT !.contexts = cs], at |-> link[n].at]
    <2>1. r = [s |-> [FailIf(FailIf(s, s.contexts[owner].locals[slot].depth = -1,
                                    "Can't read local variable in its own initializer"),
                             \E j \in owner + 1..Len(s.contexts) : link[j].full,
                             "Too many closure variables")
                        EXCEPT !.contexts = [j \in 1..Len(s.contexts) |-> linked(j)]],
               at |-> link[Len(s.contexts)].at]
        BY Zenon DEF ResolveUpvalue, linked, slot, link
    <2> QED BY <1>5, <1>6, <1>7, <1>8, <1>11, <2>1
<1>13. ASSUME NEW j \in 1..n
       PROVE  /\ Fine(cs[j]) /\ Alike(s.contexts[j], cs[j])
              /\ j < owner => cs[j] = s.contexts[j]
              /\ j = owner => /\ cs[j].upvalues = s.contexts[j].upvalues
                              /\ cs[j].locals[slot].captured
                              /\ \A i \in 1..Len(s.contexts[j].locals) :
                                    s.contexts[j].locals[i].captured => cs[j].locals[i].captured
              /\ j > owner => /\ cs[j].locals = s.contexts[j].locals
                              /\ cs[j].upvalues = link[j].upvalues
    <2>1. PICK c \in Contexts : c = s.contexts[j] /\ Fine(c)
        BY <1>1
    <2>2. CASE j < owner
        <3>1. cs[j] = c
            BY <1>10, <1>11, <2>1, <2>2
        <3>2. ~(j = owner) /\ ~(j > owner)
            BY <2>2
        <3> QED BY <2>1, <3>1, <3>2 DEF Alike, SameLocals, SameSettings
    <2>3. CASE j = owner
        <3>1. PICK old \in Seq(LocalRecords) : old = c.locals
            BY ContextTypes
        <3>2. slot \in 1..Len(old)
            BY <1>2, <2>1, <2>3, <3>1, Resolves
        <3>3. PICK new : new = [old[slot] EXCEPT !.captured = TRUE]
            OBVIOUS
        <3>4. /\ new \in LocalRecords /\ new.name = old[slot].name /\ new.depth = old[slot].depth
              /\ new.captured
            <4>1. old[slot] \in LocalRecords
                BY <3>2, ElementOfSeq
            <4> QED BY <3>3, <4>1 DEF LocalRecords
        <3>5. PICK locals : locals = [old EXCEPT ![slot] = new]
            OBVIOUS
        <3>6. /\ locals \in Seq(LocalRecords) /\ Len(locals) = Len(old)
              /\ \A i \in 1..Len(old) : locals[i] = IF i = slot THEN new ELSE old[i]
            BY <3>2, <3>4, <3>5, ExceptSeq
        <3>7. \A i \in 1..Len(old) : locals[i].name = old[i].name /\ locals[i].depth = old[i].depth
            BY <3>4, <3>6
        <3>8. PICK d : d = [c EXCEPT !.locals = locals]
            OBVIOUS
        <3>9. /\ d \in Contexts /\ d.locals = locals /\ d.upvalues = c.upvalues
              /\ d.code = c.code /\ d.height = c.height /\ SameSettings(c, d)
            BY <3>6, <3>8 DEF Contexts, SameSettings
        <3>10. cs[j] = d
            <4>1. [c EXCEPT !.locals[slot].captured = TRUE] = d
                BY <3>1, <3>2, <3>3, <3>5, <3>8 DEF Contexts
            <4> QED BY <1>10, <1>11, <2>1, <2>3, <4>1
        <3>11. 1 \in 1..Len(old)
            BY <3>2
        <3>12. Fine(d)
            BY <2>1, <3>1, <3>6, <3>7, <3>9, <3>11 DEF Fine, SameSettings
        <3>13. Alike(c, d)
            BY <3>1, <3>6, <3>7, <3>9 DEF Alike, SameLocals
        <3>14. /\ locals[slot].captured
               /\ \A i \in 1..Len(old) : old[i].captured => locals[i].captured
            BY <3>2, <3>4, <3>6
        <3>15. ~(j < owner) /\ ~(j > owner)
            BY <2>3
        <3> QED BY <2>1, <3>1, <3>9, <3>10, <3>12, <3>13, <3>14, <3>15
    <2>4. CASE j > owner
        <3>1. link[j] \in Added
            <4>1. j \in owner + 1..n
                BY <2>4
            <4> QED BY <1>4, <4>1
        <3>2. PICK upvalues \in Seq(UpvalueRecords) : /\ upvalues = link[j].upvalues
                                                      /\ Len(upvalues) <= UINT8_COUNT
            BY <3>1 DEF Added
        <3>3. PICK d : d = [c EXCEPT !.upvalues = upvalues]
            OBVIOUS
        <3>4. /\ d \in Contexts /\ d.locals = c.locals /\ d.upvalues = upvalues
              /\ d.code = c.code /\ d.height = c.height /\ SameSettings(c, d)
            BY <3>3 DEF Contexts, SameSettings
        <3>5. cs[j] = d
            BY <1>10, <1>11, <2>1, <2>4, <3>2, <3>3
        <3>6. Fine(d)
            BY <2>1, <3>2, <3>4 DEF Fine, SameSettings
        <3>7. Alike(c, d)
            BY <3>4 DEF Alike, SameLocals
        <3>8. ~(j < owner) /\ ~(j = owner)
            BY <2>4
        <3> QED BY <2>1, <3>2, <3>4, <3>5, <3>6, <3>7, <3>8
    <2>5. j < owner \/ j = owner \/ j > owner
        OBVIOUS
    <2> QED BY <2>2, <2>3, <2>4, <2>5
<1>14. cs \in Seq(Contexts) /\ Len(cs) = n
    <2>1. \A j \in 1..n : cs[j] \in Contexts
        BY <1>13 DEF Fine
    <2>2. cs \in [1..n -> Contexts]
        BY <1>11, <2>1
    <2> QED BY <2>2, FunctionIsSeq
<1>15. PICK v : v = [u EXCEPT !.contexts = cs]
    OBVIOUS
<1>16. v \in States /\ v.contexts = cs /\ v.error = u.error
    BY <1>9, <1>14, <1>15 DEF Good, States
<1>17. cs # <<>>
    BY <1>14
<1>18. Good(v)
    BY <1>13, <1>14, <1>16, <1>17 DEF Good
<1>19. Follows(s, v)
    BY <1>13, <1>14, <1>16, <1>18 DEF Follows
<1>20. Alike(Current(s), Current(v))
    <2>1. Current(s) = s.contexts[n] /\ n \in 1..n
        BY CurrentIsFine
    <2>2. Current(v) = cs[n]
        BY <1>14, <1>16, <1>18, CurrentIsFine
    <2> QED BY <1>13, <2>1, <2>2
<1>21. GoesOn(s, v) /\ KeepsJumps(Current(s), Current(v))
    <2>1. Len(Current(v).code) >= Len(Current(s).code)
        BY <1>20, CurrentIsFine, ContextTypes DEF Alike
    <2>2. KeepsJumps(Current(s), Current(v))
        BY <1>20 DEF Alike, KeepsJumps, WaitFor
    <2> QED BY <1>19, <1>20, <2>1, <2>2 DEF GoesOn, Steady, Alike
<1>22. link[n].at \in Slots
    <2>1. n \in owner + 1..n
        OBVIOUS
    <2> QED BY <1>4, <2>1 DEF Added
<1>23. Threaded(s, v, owner, slot, link)
    <2>1. v.error = NoError =>
            s.error = NoError /\ \A j \in owner + 1..Len(s.contexts) : ~link[j].full
        BY <1>6, <1>9, <1>16
    <2>2. \A j \in 1..owner - 1 : v.contexts[j] = s.contexts[j]
        <3>1. \A j \in 1..owner - 1 : j \in 1..n /\ j < owner
            OBVIOUS
        <3> QED BY <1>13, <1>16, <3>1
    <2>3. /\ v.contexts[owner].upvalues = s.contexts[owner].upvalues
          /\ v.contexts[owner].locals[slot].captured
          /\ \A i \in 1..Len(s.contexts[owner].locals) :
                s.contexts[owner].locals[i].captured => v.contexts[owner].locals[i].captured
        <3>1. owner \in 1..n
            OBVIOUS
        <3> QED BY <1>13, <1>16, <3>1
    <2>4. \A j \in owner + 1..Len(s.contexts) :
            /\ v.contexts[j].locals = s.contexts[j].locals
            /\ v.contexts[j].upvalues = link[j].upvalues
        <3>1. \A j \in owner + 1..n : j \in 1..n /\ j > owner
            OBVIOUS
        <3> QED BY <1>13, <1>16, <3>1
    <2> QED BY <2>1, <2>2, <2>3, <2>4 DEF Threaded
<1>24. r.s = v /\ r.at = link[n].at
    BY <1>12, <1>15
<1>25. GetsWider(s, r.s) /\ r.at \in Slots
    BY <1>21, <1>22, <1>24, SteadyWidens
<1> QED BY <1>2, <1>3, <1>20, <1>23, <1>24, <1>25

(* namedVariable.                                                          *)
LEMMA LooksUp ==
    ASSUME NEW s, Good(s), NEW name \in VariableNames, NEW canAssign,
           NEW t, t = NamedVariable(s, name, canAssign)
    PROVE  GetsWider(s, t)
<1>1. PICK c \in Contexts : c = Current(s) /\ Fine(c)
    BY CurrentIsFine
<1>2. PICK n \in Nat : n = Len(s.contexts) /\ n # 0
    BY CurrentIsFine
<1>3. PICK slot : slot = ResolveLocal(c, name)
    OBVIOUS
<1>4. PICK S : S = {0} \cup {j \in 1..n - 1 : ResolveLocal(s.contexts[j], name) # 0}
    OBVIOUS
<1>5. PICK owner : owner = Max(S)
    OBVIOUS
<1>6. owner \in S
    <2>1. S \subseteq 0..n /\ S # {}
        BY <1>4
    <2> QED BY <1>5, <2>1, MaxIs
<1>7. CASE slot # 0
    <2>1. PICK wrong : wrong = (c.locals[slot].depth = -1)
        OBVIOUS
    <2>2. PICK what \in Errors : what = "Can't read local variable in its own initializer"
        BY DEF Errors
    <2>3. PICK u : u = FailIf(s, wrong, what)
        OBVIOUS
    <2>4. PICK op : op = IF canAssign THEN "SET_LOCAL" ELSE "GET_LOCAL"
        OBVIOUS
    <2>5. t = EmitNamed(u, op, slot - 1, name)
        BY <1>1, <1>3, <1>7, <2>1, <2>2, <2>3, <2>4 DEF NamedVariable
    <2>6. op \in Operations /\ op \notin Jumping
        BY <2>4 DEF Operations, Pushes, Keeps, Jumping
    <2>7. slot - 1 \in Int
        <3>1. slot \in 0..Len(c.locals) /\ Len(c.locals) \in Nat
            BY <1>3, Resolves, ContextTypes
        <3> QED BY <3>1
    <2>8. Good(u) /\ GetsWider(s, u)
        BY <2>3, FailedWidens
    <2>9. GetsWider(u, t)
        BY <2>5, <2>6, <2>7, <2>8, EmitsAnother
    <2> QED BY <2>8, <2>9, GetsWiderOn
<1>8. CASE slot = 0 /\ owner # 0
    <2>1. owner \in 1..n - 1 /\ ResolveLocal(s.contexts[owner], name) # 0
        BY <1>4, <1>6, <1>8
    <2>2. PICK found : found = ResolveUpvalue(s, owner, name)
        OBVIOUS
    <2>3. PICK op : op = IF canAssign THEN "SET_UPVALUE" ELSE "GET_UPVALUE"
        OBVIOUS
    <2>4. t = EmitNamed(found.s, op, found.at, name)
        BY <1>1, <1>2, <1>3, <1>4, <1>5, <1>8, <2>2, <2>3 DEF NamedVariable
    <2>5. op \in Operations /\ op \notin Jumping
        BY <2>3 DEF Operations, Pushes, Keeps, Jumping
    <2>6. GetsWider(s, found.s) /\ found.at \in Slots
        BY <1>2, <2>1, <2>2, ResolvesUpvalue
    <2>7. Good(found.s) /\ found.at \in Int
        <3>1. UINT8_COUNT \in Nat
            BY Limits
        <3> QED BY <2>6, <3>1 DEF GetsWider, Follows, Slots
    <2>8. GetsWider(found.s, t)
        BY <2>4, <2>5, <2>7, EmitsAnother
    <2> QED BY <2>6, <2>8, GetsWiderOn
<1>9. CASE slot = 0 /\ owner = 0
    <2>1. PICK op : op = IF canAssign THEN "SET_GLOBAL" ELSE "GET_GLOBAL"
        OBVIOUS
    <2>2. t = EmitNamed(s, op, 0, name)
        BY <1>1, <1>2, <1>3, <1>4, <1>5, <1>9, <2>1 DEF NamedVariable
    <2>3. op \in Operations /\ op \notin Jumping /\ 0 \in Int
        BY <2>1 DEF Operations, Pushes, Keeps, Jumping
    <2> QED BY <2>2, <2>3, EmitsAnother
<1> QED BY <1>7, <1>8, <1>9
-----------------------------------------------------------------------------
(* Returns, jumps and loops.                                               *)

LEMMA OneMoreCode ==
    ASSUME NEW c, NEW d, NEW op, NEW arg, NEW name, OneMore(c, d, op, arg, name),
           NEW n, n = Len(c.code)
    PROVE  /\ Len(d.code) = n + 1 /\ \A i \in 1..n : d.code[i] = c.code[i]
           /\ d.code[n + 1].op = op /\ d.code[n + 1].arg = arg /\ d.locals = c.locals
BY DEF OneMore

(* emitReturn.                                                             *)
Returned(c, d) ==
    /\ Len(d.code) = Len(c.code) + 2
    /\ \A i \in 1..Len(d.code) : IsJump(d.code[i]) => i <= Len(c.code) /\ d.code[i] = c.code[i]

LEMMA Returns ==
    ASSUME NEW s, Good(s), NEW t, t = EmitReturn(s)
    PROVE  /\ GetsWider(s, t) /\ t.error = s.error /\ Front(t.contexts) = Front(s.contexts)
           /\ Returned(Current(s), Current(t)) /\ Current(t).upvalues = Current(s).upvalues
           /\ Plainly(s, t)
<1>1. PICK op \in Operations :
        op = IF Current(s).type = "initializer" THEN "GET_LOCAL" ELSE "NIL"
    BY DEF Operations, Pushes
<1>2. PICK return \in Operations : return = "RETURN"
    BY DEF Operations, Diverts
<1>3. PICK zero \in Int : zero = 0
    OBVIOUS
<1>4. op \notin Jumping /\ return \notin Jumping
    BY <1>1, <1>2 DEF Jumping
<1>blank. PICK name \in VariableNames : name = ""
    BY DEF VariableNames
<1>u. PICK u : u = EmitNamed(s, op, zero, name)
    OBVIOUS
<1>t. t = EmitNamed(u, return, zero, name)
    BY <1>1, <1>2, <1>3, <1>blank, <1>u DEF EmitReturn, Emit
<1>5. /\ GetsWider(s, u) /\ u.error = s.error /\ Front(u.contexts) = Front(s.contexts)
      /\ OneMore(Current(s), Current(u), op, zero, name)
    BY <1>4, <1>u, EmitsAnother
<1>6. Good(u)
    BY <1>5 DEF GetsWider, Follows
<1>7. /\ GetsWider(u, t) /\ t.error = u.error /\ Front(t.contexts) = Front(u.contexts)
      /\ OneMore(Current(u), Current(t), return, zero, name)
    BY <1>4, <1>6, <1>t, EmitsAnother
<1>8. PICK n \in Nat : n = Len(Current(s).code)
    BY CurrentIsFine, ContextTypes
<1>9. PICK before : before = Current(s).code
    OBVIOUS
<1>10. PICK between : between = Current(u).code
    OBVIOUS
<1>11. PICK after : after = Current(t).code
    OBVIOUS
<1>12. /\ Len(between) = n + 1 /\ \A i \in 1..n : between[i] = before[i]
       /\ between[n + 1].op = op
    BY <1>5, <1>8, <1>9, <1>10, OneMoreCode
<1>13. /\ Len(after) = n + 2 /\ \A i \in 1..n + 1 : after[i] = between[i]
       /\ after[n + 2].op = return
    <2>1. /\ Len(after) = Len(between) + 1 /\ \A i \in 1..Len(between) : after[i] = between[i]
          /\ after[Len(between) + 1].op = return
        <3>1. PICK l : l = Len(Current(u).code)
            OBVIOUS
        <3>2. /\ Len(after) = l + 1 /\ \A i \in 1..l : after[i] = between[i]
              /\ after[l + 1].op = return
            BY <1>7, <1>10, <1>11, <3>1, OneMoreCode
        <3> QED BY <1>10, <3>1, <3>2
    <2> QED BY <1>12, <2>1
<1>14. ASSUME NEW i \in 1..n + 2, IsJump(after[i]) PROVE i <= n /\ after[i] = before[i]
    <2>1. after[i].op \in Jumping
        BY <1>14 DEF IsJump, Jumping
    <2>2. i # n + 2
        BY <1>4, <1>13, <2>1
    <2>3. i # n + 1
        <3>1. after[n + 1].op = op
            BY <1>12, <1>13
        <3> QED BY <1>4, <2>1, <3>1
    <2>4. i \in 1..n
        BY <2>2, <2>3
    <2> QED BY <1>12, <1>13, <2>4
<1>15. Returned(Current(s), Current(t))
    BY <1>8, <1>9, <1>11, <1>13, <1>14 DEF Returned
<1>16. Current(t).upvalues = Current(s).upvalues
    BY <1>5, <1>7 DEF OneMore
<1>17. Plainly(s, t)
    <2>1. op \notin LookUps /\ return \notin LookUps
        BY <1>1, <1>2 DEF LookUps, UpvalueOps, GlobalOps
    <2>2. Plainly(s, u)
        BY <1>u, <2>1, EmitsPlainly
    <2>3. Plainly(u, t) /\ Good(t)
        BY <1>6, <1>t, <2>1, EmitsPlainly
    <2> QED BY <1>6, <2>2, <2>3, PlainlyOn
<1> QED BY <1>5, <1>7, <1>15, <1>16, <1>17, GetsWiderOn

(* emitJump: the jump is the one more to wait for.                         *)
Branches(s, t, jump) ==
    /\ GoesOn(s, t) /\ t.error = s.error
    /\ jump = Len(Current(s).code) + 1 /\ Len(Current(t).code) = jump
    /\ jump \in 1..Len(Current(t).code)
    /\ Current(t).locals = Current(s).locals
    /\ \A jumps : WaitFor(Current(s), jumps) => WaitFor(Current(t), jumps \cup {jump})

LEMMA EmitsJump ==
    ASSUME NEW s, Good(s), NEW op \in {"JUMP", "JUMP_IF_FALSE"}, NEW t, t = EmitJump(s, op)
    PROVE  Branches(s, t, Position(t)) /\ Good(t)
<1>1. PICK arg \in Int : arg = UNPATCHED
    BY DEF UNPATCHED
<1>blank. PICK name \in VariableNames : name = ""
    BY DEF VariableNames
<1>any. PICK any \in Operations : any = op
    BY DEF Operations, Keeps, Diverts
<1>2. /\ GoesOn(s, t) /\ t.error = s.error
      /\ OneMore(Current(s), Current(t), any, arg, name)
    <2>1. t = EmitNamed(s, any, arg, name)
        BY <1>1, <1>any, <1>blank DEF EmitJump, Emit
    <2> QED BY <2>1, EmitsOneMore
<1>3. PICK n \in Nat : n = Len(Current(s).code)
    BY CurrentIsFine, ContextTypes
<1>4. Len(Current(t).code) = n + 1 /\ Position(t) = n + 1
    BY <1>2, <1>3, OneMoreCode DEF Position
<1>5. ASSUME NEW jumps, WaitFor(Current(s), jumps)
      PROVE  WaitFor(Current(t), jumps \cup {n + 1})
    <2>1. PICK more : more = jumps \cup {n + 1}
        OBVIOUS
    <2>2. jumps \subseteq more /\ Len(Current(s).code) + 1 \in more
        BY <1>3, <2>1
    <2>3. Len(Current(s).code) \in Nat /\ Current(s).code \in Seq(Instructions)
        BY CurrentIsFine, ContextTypes
    <2>4. WaitFor(Current(t), more)
        BY <1>2, <1>5, <2>2, <2>3, WaitsOneMore
    <2> QED BY <2>1, <2>4
<1>6. Current(t).locals = Current(s).locals
    BY <1>2 DEF OneMore
<1>7. n + 1 \in 1..n + 1
    BY <1>3
<1>8. Good(t)
    BY <1>2 DEF GoesOn, Follows
<1> QED BY <1>2, <1>3, <1>4, <1>5, <1>6, <1>7, <1>8 DEF Branches

(* patchJump: a jump less to wait for.                                     *)
LEMMA LandsHere ==
    ASSUME NEW s, Good(s), NEW jump \in 1..Len(Current(s).code), NEW t, t = PatchJump(s, jump)
    PROVE  /\ GoesOn(s, t) /\ t.error = s.error /\ Good(t) /\ GetsWider(s, t)
           /\ Len(Current(t).code) = Len(Current(s).code)
           /\ Current(t).locals = Current(s).locals
           /\ \A jumps, less : WaitFor(Current(s), jumps) /\ jumps \subseteq less \cup {jump} =>
                WaitFor(Current(t), less)
<1>1. GoesOn(s, t) /\ t.error = s.error /\ Patched(Current(s), Current(t), jump)
    BY Patches
<1>2. Current(s).code \in Seq(Instructions)
    BY CurrentIsFine, ContextTypes
<1>3. ASSUME NEW jumps, NEW less, WaitFor(Current(s), jumps), jumps \subseteq less \cup {jump}
      PROVE  WaitFor(Current(t), less)
    BY <1>1, <1>2, <1>3, WaitsPatched
<1>4. KeepsJumps(Current(s), Current(t))
    BY <1>3 DEF KeepsJumps
<1>5. GetsWider(s, t)
    BY <1>1, <1>4, SteadyWidens
<1> QED BY <1>1, <1>3, <1>5 DEF Patched, GoesOn, Follows

(* emitLoop.                                                               *)
LEMMA EmitsLoop ==
    ASSUME NEW s, Good(s), NEW start \in 0..Len(Current(s).code), NEW t, t = EmitLoop(s, start)
    PROVE  /\ GoesOn(s, t) /\ t.error = s.error /\ Good(t) /\ GetsWider(s, t)
           /\ Len(Current(t).code) = Len(Current(s).code) + 1
           /\ Current(t).code[Len(Current(s).code) + 1].arg = start
           /\ Current(t).locals = Current(s).locals
<1>1. PICK op \in Operations : op = "LOOP"
    BY DEF Operations, Diverts
<1>blank. PICK name \in VariableNames : name = ""
    BY DEF VariableNames
<1>2. start \in Int
    BY CurrentIsFine, ContextTypes
<1>3. t = EmitNamed(s, op, start, name)
    BY <1>1, <1>blank DEF EmitLoop, Emit
<1>4. /\ GoesOn(s, t) /\ t.error = s.error /\ GetsWider(s, t)
      /\ OneMore(Current(s), Current(t), op, start, name)
    BY <1>2, <1>3, EmitsAnother
<1>5. Good(t)
    BY <1>4 DEF GoesOn, Follows
<1> QED BY <1>4, <1>5, OneMoreCode

(* What the loops keep in the Context.                                     *)
Relooped(c, continue, break, depth, loops) ==
    [c EXCEPT !.last_continue = continue, !.last_break = break,
              !.last_scope_depth = depth, !.enclosing_loop = loops]
BesideLoops(c, d) ==
    /\ d.type = c.type /\ d.arity = c.arity /\ d.locals = c.locals /\ d.upvalues = c.upvalues
    /\ d.scopeDepth = c.scopeDepth /\ d.code = c.code /\ d.visible = c.visible
    /\ d.height = c.height

LEMMA Reloops ==
    ASSUME NEW s, Good(s), NEW continue \in Nat, continue <= Len(Current(s).code),
           NEW break \in Nat, break <= Len(Current(s).code), NEW depth \in Nat, NEW loops \in Nat,
           NEW t, t = Update(s, Relooped(Current(s), continue, break, depth, loops))
    PROVE  /\ Follows(s, t) /\ t.error = s.error /\ Good(t)
           /\ Front(t.contexts) = Front(s.contexts)
           /\ BesideLoops(Current(s), Current(t))
           /\ Current(t).last_continue = continue /\ Current(t).last_break = break
           /\ Current(t).last_scope_depth = depth /\ Current(t).enclosing_loop = loops
<1>1. PICK c \in Contexts : c = Current(s) /\ Fine(c)
    BY CurrentIsFine
<1>2. PICK d : d = Relooped(c, continue, break, depth, loops)
    OBVIOUS
<1>3. /\ d \in Contexts /\ BesideLoops(c, d)
      /\ d.last_continue = continue /\ d.last_break = break
      /\ d.last_scope_depth = depth /\ d.enclosing_loop = loops
    BY <1>2 DEF Contexts, Relooped, BesideLoops
<1>4. Fine(d)
    BY <1>1, <1>3 DEF Fine, BesideLoops
<1>5. /\ Follows(s, t) /\ Current(t) = d /\ t.error = s.error
      /\ Front(t.contexts) = Front(s.contexts)
    BY <1>1, <1>2, <1>4, Updated
<1> QED BY <1>1, <1>3, <1>5 DEF Follows
-----------------------------------------------------------------------------
(* In the middle of a step: tasks taken and not put back yet, with what    *)
(* they counted for and the jumps they would have patched.                 *)

One(t, K) == IF t \in K THEN 1 ELSE 0
Midway(c, w, end, scopes, loops, jumps) ==
    /\ Fine(c) /\ Pending(c, w) /\ Last(w) = end
    /\ c.scopeDepth = Outermost(c) + Cardinality(Marked(w, ScopeTasks)) + scopes
    /\ c.enclosing_loop = Cardinality(Marked(w, LoopEndTasks)) + loops
    /\ Without({"break"}) => WaitFor(c, JumpsIn(w) \cup jumps)

LEMMA MarksAreNat ==
    ASSUME NEW c, NEW w, Pending(c, w)
    PROVE  /\ Cardinality(Marked(w, ScopeTasks)) \in Nat
           /\ Cardinality(Marked(w, LoopEndTasks)) \in Nat
<1>1. w \in Seq(Tasks)
    BY DEF Pending
<1> QED BY <1>1, MarkedIsFinite

LEMMA Starts ==
    ASSUME NEW c, NEW w, Compiling(c, w), w[1].k # "endFunction",
           NEW h, h = w[1], NEW r, r = Tail(w)
    PROVE  /\ Midway(c, r, Last(w), One(h, ScopeTasks), One(h, LoopEndTasks), JumpsOf(h))
           /\ h \in Tasks /\ Fits(c, h) /\ \A i \in 1..Len(r) : Before(h, r[i])
           /\ \A p : OpenLoop(w, 0, p) /\ ~StartsAt(h, p) => OpenLoop(r, 0, p)
           /\ h.k \in LoopTasks => OpenLoop(r, 0, h.loop.saved.continue)
<1>1. /\ Fine(c) /\ Pending(c, w) /\ Counted(c, w)
      /\ Without({"break"}) => WaitFor(c, JumpsIn(w))
    BY DEF Compiling
<1>2. w \in Seq(Tasks) /\ w # <<>>
    BY <1>1 DEF Pending
<1>3. /\ Pending(c, r) /\ Last(r) = Last(w)
      /\ \A i \in 1..Len(r) : Before(h, r[i])
      /\ \A p : OpenLoop(w, 1, p) => OpenLoop(r, 0, p)
    BY <1>1, PendingTail
<1>4. Cardinality(Marked(w, ScopeTasks)) = Cardinality(Marked(r, ScopeTasks)) + One(h, ScopeTasks)
    BY <1>2, MarkedTail DEF One
<1>5. Cardinality(Marked(w, LoopEndTasks)) = Cardinality(Marked(r, LoopEndTasks)) + One(h, LoopEndTasks)
    BY <1>2, MarkedTail DEF One
<1>6. JumpsIn(w) = JumpsIn(r) \cup JumpsOf(h)
    BY <1>2, JumpsTail
<1>7. /\ c.scopeDepth = Outermost(c) + Cardinality(Marked(r, ScopeTasks)) + One(h, ScopeTasks)
      /\ c.enclosing_loop = Cardinality(Marked(r, LoopEndTasks)) + One(h, LoopEndTasks)
    <2>1. PICK m \in Nat : m = Cardinality(Marked(r, ScopeTasks))
        BY <1>3, MarksAreNat
    <2>2. PICK o \in Nat : o = Outermost(c)
        BY DEF Outermost
    <2>3. PICK x \in Nat : x = One(h, ScopeTasks)
        BY DEF One
    <2>4. c.scopeDepth = o + (m + x)
        BY <1>1, <1>4, <2>1, <2>2, <2>3 DEF Counted
    <2>5. o + (m + x) = (o + m) + x
        OBVIOUS
    <2> QED BY <1>1, <1>5, <2>1, <2>2, <2>3, <2>4, <2>5 DEF Counted
<1>8. Midway(c, r, Last(w), One(h, ScopeTasks), One(h, LoopEndTasks), JumpsOf(h))
    BY <1>1, <1>3, <1>6, <1>7 DEF Midway
<1>9. 1 \in 1..Len(w) /\ h \in Tasks /\ Len(w) \in Nat
    BY <1>2, TailOf
<1>10. Fits(c, h)
    BY <1>1, <1>9 DEF Pending
<1>11. ASSUME NEW p, OpenLoop(w, 0, p), ~StartsAt(h, p) PROVE OpenLoop(r, 0, p)
    <2>1. CASE p = 0
        BY <2>1 DEF OpenLoop
    <2>2. CASE \E k \in 0 + 1..Len(w) : StartsAt(w[k], p)
        <3>1. PICK k \in 0 + 1..Len(w) : StartsAt(w[k], p)
            BY <2>2
        <3>2. k # 1
            BY <1>11, <3>1
        <3>3. k \in 1 + 1..Len(w)
            BY <1>9, <3>2
        <3>4. OpenLoop(w, 1, p)
            BY <3>1, <3>3 DEF OpenLoop
        <3> QED BY <1>3, <3>4
    <2> QED BY <1>11, <2>1, <2>2 DEF OpenLoop
<1>12. h.k \in LoopTasks => OpenLoop(r, 0, h.loop.saved.continue)
    <2>1. h.k \in LoopTasks => OpenLoop(w, 1, h.loop.saved.continue)
        BY <1>1, <1>9 DEF Pending
    <2> QED BY <1>3, <2>1
<1> QED BY <1>3, <1>8, <1>9, <1>10, <1>11, <1>12

(* The Context changes.                                                    *)
LEMMA Moves ==
    ASSUME NEW c, NEW r, NEW end, NEW scopes \in Int, NEW loops \in Int, NEW jumps,
           Midway(c, r, end, scopes, loops, jumps),
           NEW d, Fine(d), d.type = c.type, Len(d.code) >= Len(c.code),
           \A i \in 1..Len(r) : r[i].k \in Based => Base(r[i]) <= Len(d.visible),
           \A i \in 1..Len(r) : r[i].k = "define" => CanDefine(d),
           NEW x \in Int, d.scopeDepth = c.scopeDepth + x,
           NEW y \in Int, d.enclosing_loop = c.enclosing_loop + y,
           NEW now, WaitFor(c, JumpsIn(r) \cup jumps) => WaitFor(d, JumpsIn(r) \cup now)
    PROVE  Midway(d, r, end, scopes + x, loops + y, now)
<1>1. Fine(c) /\ Pending(c, r) /\ Last(r) = end
    BY DEF Midway
<1>2. c \in Contexts /\ d \in Contexts
    BY <1>1 DEF Fine
<1>3. Pending(d, r)
    BY <1>1, <1>2, PendingGoesOn
<1>4. PICK m \in Nat : m = Cardinality(Marked(r, ScopeTasks))
    BY <1>3, MarksAreNat
<1>5. PICK n \in Nat : n = Cardinality(Marked(r, LoopEndTasks))
    BY <1>3, MarksAreNat
<1>6. PICK o \in Nat : o = Outermost(c) /\ o = Outermost(d)
    BY DEF Outermost
<1>7. d.scopeDepth = o + m + (scopes + x)
    <2>1. d.scopeDepth = (o + m + scopes) + x
        BY <1>4, <1>6 DEF Midway
    <2> QED BY <2>1
<1>8. d.enclosing_loop = n + (loops + y)
    <2>1. d.enclosing_loop = (n + loops) + y
        BY <1>5 DEF Midway
    <2> QED BY <2>1
<1>9. Without({"break"}) => WaitFor(d, JumpsIn(r) \cup now)
    BY DEF Midway
<1> QED BY <1>1, <1>3, <1>4, <1>5, <1>6, <1>7, <1>8, <1>9 DEF Midway

LEMMA BaseIsNat ==
    ASSUME NEW t \in Tasks, t.k \in Based
    PROVE  Base(t) \in Nat
<1>1. CASE t.k \in LoopTasks
    <2>1. t.loop \in Loops
        BY <1>1 DEF Tasks, LoopTasks
    <2>2. t.loop.base \in Nat
        BY <2>1 DEF Loops
    <2> QED BY <1>1, <2>2 DEF Base
<1>2. CASE t.k \in {"endScope", "endClass"}
    <2>1. t.base \in Nat
        BY <1>2 DEF Tasks, LoopTasks
    <2> QED BY <1>2, <2>1 DEF Base, LoopTasks
<1> QED BY <1>1, <1>2 DEF Based

LEMMA MovesWider ==
    ASSUME NEW c, NEW r, NEW end, NEW scopes \in Int, NEW loops \in Int, NEW jumps,
           Midway(c, r, end, scopes, loops, jumps),
           NEW d, Fine(d), Widens(c, d)
    PROVE  Midway(d, r, end, scopes, loops, jumps)
<1>1. Fine(c) /\ Pending(c, r) /\ c \in Contexts /\ d \in Contexts
    BY DEF Midway, Fine
<1>2. ASSUME NEW i \in 1..Len(r), r[i].k \in Based PROVE Base(r[i]) <= Len(d.visible)
    <2>1. r[i] \in Tasks /\ Fits(c, r[i])
        BY <1>1, ElementOfSeq DEF Pending
    <2>2. Base(r[i]) \in Nat
        BY <1>2, <2>1, BaseIsNat
    <2>3. Base(r[i]) <= Len(c.visible)
        BY <1>2, <2>1 DEF Fits
    <2> QED BY <1>1, <2>2, <2>3, ContextTypes DEF Widens
<1>3. \A i \in 1..Len(r) : r[i].k = "define" => CanDefine(d)
    <2>1. \A i \in 1..Len(r) : r[i].k = "define" => CanDefine(c)
        BY <1>1 DEF Pending, Fits
    <2> QED BY <1>1, <2>1, CanStillDefine
<1>4. d.type = c.type /\ Len(d.code) >= Len(c.code) /\ 0 \in Int
    BY DEF Widens, SameLoops
<1>5. d.scopeDepth = c.scopeDepth + 0 /\ d.enclosing_loop = c.enclosing_loop + 0
    BY <1>1, ContextTypes DEF Widens, SameLoops
<1>6. WaitFor(c, JumpsIn(r) \cup jumps) => WaitFor(d, JumpsIn(r) \cup jumps)
    BY DEF Widens, KeepsJumps
<1>7. Midway(d, r, end, scopes + 0, loops + 0, jumps)
    BY <1>2, <1>3, <1>4, <1>5, <1>6, Moves
<1> QED BY <1>7

(* A task is put in front.                                                 *)
Ahead(t, r) == <<t>> \o r
Pushable(c, t, r) ==
    /\ t \in Tasks /\ Fits(c, t) /\ \A i \in 1..Len(r) : Before(t, r[i])
    /\ t.k \in LoopTasks => OpenLoop(r, 0, t.loop.saved.continue)

InFront(u, t, r) ==
    /\ u \in Seq(Tasks) /\ u # <<>> /\ Len(u) = Len(r) + 1 /\ u[1] = t /\ Len(r) \in Nat
    /\ \A i \in 1..Len(r) : u[i + 1] = r[i]
    /\ \A k \in 1..Len(u) : k = 1 \/ \E i \in 1..Len(r) : k = i + 1 /\ u[k] = r[i]
    /\ Tail(u) = r

LEMMA OneInFront ==
    ASSUME NEW t \in Tasks, NEW r \in Seq(Tasks), NEW u, u = Ahead(t, r)
    PROVE  InFront(u, t, r)
<1>0. PICK one : one = <<t>>
    OBVIOUS
<1>1. one \in Seq(Tasks) /\ one = <<t>> /\ Len(one) = 1 /\ one[1] = t
    BY <1>0
<1> one \in Seq(Tasks)
    BY <1>1
<1>2. PICK n : n = Len(r)
    OBVIOUS
<1>3. PICK m : m = Len(one)
    OBVIOUS
<1>4. u = one \o r
    BY <1>1 DEF Ahead
<1>5. m \in Nat /\ n \in Nat /\ u \in Seq(Tasks) /\ Len(u) = m + n /\ \A i \in 1..m : u[i] = one[i]
    BY <1>2, <1>3, <1>4, Joined
<1>6. \A i \in 1..n : u[m + i] = r[i]
    BY <1>2, <1>3, <1>4, Joined
<1>7. m = 1 /\ Len(u) = n + 1 /\ u[1] = t /\ n \in Nat /\ u \in Seq(Tasks)
    BY <1>1, <1>3, <1>5
<1>8. \A i \in 1..n : u[i + 1] = r[i]
    <2>1. \A i \in 1..n : m + i = i + 1
        BY <1>7
    <2> QED BY <1>6, <2>1
<1>9. ASSUME NEW k \in 1..n + 1, k # 1 PROVE \E i \in 1..n : k = i + 1 /\ u[k] = r[i]
    <2>1. k - 1 \in 1..n /\ k = (k - 1) + 1
        BY <1>7, <1>9
    <2> QED BY <1>8, <2>1
<1>10. u # <<>>
    <2>1. Len(u) # 0
        BY <1>7
    <2> QED BY <1>7, <2>1, EmptySeq
<1>11. Tail(u) = r
    <2>1. /\ Tail(u) \in Seq(Tasks) /\ Len(Tail(u)) = (n + 1) - 1
          /\ \A i \in 1..(n + 1) - 1 : Tail(u)[i] = u[i + 1]
        BY <1>7, <1>10, TailOf
    <2>2. Len(Tail(u)) = n /\ \A i \in 1..n : Tail(u)[i] = u[i + 1]
        BY <1>7, <2>1
    <2> QED BY <1>2, <1>8, <2>1, <2>2, SeqEqual
<1> QED BY <1>2, <1>7, <1>8, <1>9, <1>10, <1>11 DEF InFront

LEMMA PutsInFront ==
    ASSUME NEW c, NEW r, NEW end, NEW scopes \in Int, NEW loops \in Int, NEW jumps,
           Midway(c, r, end, scopes, loops, jumps),
           NEW t, Pushable(c, t, r), NEW now, jumps \subseteq JumpsOf(t) \cup now
    PROVE  /\ Midway(c, Ahead(t, r), end, scopes - One(t, ScopeTasks), loops - One(t, LoopEndTasks), now)
           /\ \A p : OpenLoop(r, 0, p) => OpenLoop(Ahead(t, r), 0, p)
           /\ \A p : StartsAt(t, p) => OpenLoop(Ahead(t, r), 0, p)
           /\ \A e : Before(e, t) /\ (\A i \in 1..Len(r) : Before(e, r[i])) =>
                \A i \in 1..Len(Ahead(t, r)) : Before(e, Ahead(t, r)[i])
<1>1. Pending(c, r) /\ Last(r) = end /\ Fine(c)
    BY DEF Midway
<1>2. t \in Tasks /\ r \in Seq(Tasks)
    BY <1>1 DEF Pushable, Pending
<1>3. PICK u : u = Ahead(t, r)
    OBVIOUS
<1>4. /\ u \in Seq(Tasks) /\ u # <<>> /\ Len(u) = Len(r) + 1 /\ u[1] = t /\ Len(r) \in Nat
      /\ \A i \in 1..Len(r) : u[i + 1] = r[i]
      /\ \A k \in 1..Len(u) : k = 1 \/ \E i \in 1..Len(r) : k = i + 1 /\ u[k] = r[i]
      /\ Tail(u) = r
    <2>1. InFront(u, t, r)
        BY <1>2, <1>3, OneInFront
    <2> QED BY <2>1 DEF InFront
<1>5. PICK one : one = <<t>>
    OBVIOUS
<1>6. Len(one) = 1 /\ one[1] = t /\ one \in Seq(Tasks)
    BY <1>2, <1>5
<1>7. Fitting(c, one, r)
    <2>1. ASSUME NEW k \in 1..1
          PROVE  /\ Fits(c, one[k])
                 /\ \A i \in 1..k - 1 : Before(one[i], one[k])
                 /\ \A i \in 1..Len(r) : Before(one[k], r[i])
                 /\ one[k].k \in LoopTasks => OpenLoop(r, 0, one[k].loop.saved.continue)
        <3>1. k = 1 /\ one[k] = t /\ 1..k - 1 = {}
            BY <1>6
        <3> QED BY <3>1 DEF Pushable
    <2> QED BY <1>6, <2>1 DEF Fitting
<1>8. Pending(c, u) /\ Last(u) = Last(r)
    BY <1>1, <1>3, <1>5, <1>7, PendingPushed DEF Ahead
<1>9. Cardinality(Marked(u, ScopeTasks)) = Cardinality(Marked(r, ScopeTasks)) + One(t, ScopeTasks)
    BY <1>4, MarkedTail DEF One
<1>10. Cardinality(Marked(u, LoopEndTasks)) = Cardinality(Marked(r, LoopEndTasks)) + One(t, LoopEndTasks)
    BY <1>4, MarkedTail DEF One
<1>11. JumpsIn(u) = JumpsIn(r) \cup JumpsOf(t)
    BY <1>4, JumpsTail
<1>12. PICK m \in Nat : m = Cardinality(Marked(r, ScopeTasks))
    BY <1>1, MarksAreNat
<1>13. PICK n \in Nat : n = Cardinality(Marked(r, LoopEndTasks))
    BY <1>1, MarksAreNat
<1>14. PICK o \in Nat : o = Outermost(c)
    BY DEF Outermost
<1>15. PICK x \in Int : x = One(t, ScopeTasks)
    BY DEF One
<1>16. PICK y \in Int : y = One(t, LoopEndTasks)
    BY DEF One
<1>17. c.scopeDepth = o + (m + x) + (scopes - x)
    <2>1. c.scopeDepth = o + m + scopes
        BY <1>12, <1>14 DEF Midway
    <2> QED BY <2>1
<1>18. c.enclosing_loop = (n + y) + (loops - y)
    <2>1. c.enclosing_loop = n + loops
        BY <1>13 DEF Midway
    <2> QED BY <2>1
<1>19. Without({"break"}) => WaitFor(c, JumpsIn(u) \cup now)
    <2>1. ASSUME WaitFor(c, JumpsIn(r) \cup jumps) PROVE WaitFor(c, JumpsIn(u) \cup now)
        BY <1>11, <2>1 DEF WaitFor
    <2> QED BY <2>1 DEF Midway
<1>20. Midway(c, u, end, scopes - One(t, ScopeTasks), loops - One(t, LoopEndTasks), now)
    BY <1>1, <1>8, <1>9, <1>10, <1>12, <1>13, <1>14, <1>15, <1>16, <1>17, <1>18, <1>19 DEF Midway
<1>21. ASSUME NEW p, OpenLoop(r, 0, p) PROVE OpenLoop(u, 0, p)
    <2>1. 0 \in 0..Len(one)
        BY <1>6
    <2> QED BY <1>2, <1>3, <1>5, <1>6, <1>21, <2>1, OpenLoopBehind DEF Ahead
<1>22. ASSUME NEW p, StartsAt(t, p) PROVE OpenLoop(u, 0, p)
    <2>1. 1 \in 0 + 1..Len(u) /\ StartsAt(u[1], p)
        BY <1>4, <1>22
    <2> QED BY <2>1 DEF OpenLoop
<1>23. ASSUME NEW e, Before(e, t), \A i \in 1..Len(r) : Before(e, r[i]), NEW k \in 1..Len(u)
       PROVE  Before(e, u[k])
    BY <1>4, <1>23
<1> QED BY <1>3, <1>20, <1>21, <1>22, <1>23

(* Two and three of them.                                                  *)
LEMMA TwoInFront ==
    ASSUME NEW a \in Tasks, NEW b \in Tasks, NEW r \in Seq(Tasks)
    PROVE  <<a, b>> \o r = Ahead(a, Ahead(b, r))
<1>1. PICK x : x = <<a>>
    OBVIOUS
<1>2. PICK y : y = <<b>>
    OBVIOUS
<1>3. x \in Seq(Tasks) /\ y \in Seq(Tasks)
    BY <1>1, <1>2
<1>4. x \o y = <<a, b>>
    <2>1. Len(x) = 1 /\ x[1] = a /\ Len(y) = 1 /\ y[1] = b
        BY <1>1, <1>2
    <2>2. PICK u \in Seq(Tasks) : u = x \o y
        BY <1>3, ConcatProperties
    <2>3. Len(u) = 2 /\ u[1] = a /\ u[2] = b
        <3>1. /\ Len(u) = Len(x) + Len(y)
              /\ \A i \in 1..Len(x) + Len(y) : u[i] = IF i <= Len(x) THEN x[i] ELSE y[i - Len(x)]
            BY <1>3, <2>2, ConcatProperties
        <3>2. Len(u) = 2 /\ \A i \in 1..2 : u[i] = IF i <= 1 THEN x[i] ELSE y[i - 1]
            BY <2>1, <3>1
        <3>3. u[1] = x[1] /\ u[2] = y[1]
            BY <3>2
        <3> QED BY <2>1, <3>2, <3>3
    <2>4. PICK v : v = <<a, b>>
        OBVIOUS
    <2>5. v \in Seq(Tasks) /\ Len(v) = 2 /\ v[1] = a /\ v[2] = b
        BY <2>4
    <2>6. \A i \in 1..2 : u[i] = v[i]
        <3>1. \A i \in 1..2 : i = 1 \/ i = 2
            OBVIOUS
        <3> QED BY <2>3, <2>5, <3>1
    <2>7. u = v
        BY <2>3, <2>5, <2>6, SeqEqual
    <2> QED BY <2>2, <2>4, <2>7
<1>5. (x \o y) \o r = x \o (y \o r)
    BY <1>3, ConcatAssociative
<1> QED BY <1>1, <1>2, <1>4, <1>5 DEF Ahead

LEMMA ThreeInFront ==
    ASSUME NEW a \in Tasks, NEW b \in Tasks, NEW c \in Tasks, NEW r \in Seq(Tasks)
    PROVE  <<a, b, c>> \o r = Ahead(a, Ahead(b, Ahead(c, r)))
<1>1. PICK x : x = <<a>>
    OBVIOUS
<1>2. PICK y : y = <<b, c>>
    OBVIOUS
<1>3. x \in Seq(Tasks) /\ y \in Seq(Tasks)
    BY <1>1, <1>2
<1>4. x \o y = <<a, b, c>>
    <2>1. Len(x) = 1 /\ x[1] = a /\ Len(y) = 2 /\ y[1] = b /\ y[2] = c
        BY <1>1, <1>2
    <2>2. PICK u \in Seq(Tasks) : u = x \o y
        BY <1>3, ConcatProperties
    <2>3. Len(u) = 3 /\ u[1] = a /\ u[2] = b /\ u[3] = c
        <3>1. /\ Len(u) = Len(x) + Len(y)
              /\ \A i \in 1..Len(x) + Len(y) : u[i] = IF i <= Len(x) THEN x[i] ELSE y[i - Len(x)]
            BY <1>3, <2>2, ConcatProperties
        <3>2. Len(u) = 3 /\ \A i \in 1..3 : u[i] = IF i <= 1 THEN x[i] ELSE y[i - 1]
            BY <2>1, <3>1
        <3>3. u[1] = x[1] /\ u[2] = y[1] /\ u[3] = y[2]
            BY <3>2
        <3> QED BY <2>1, <3>2, <3>3
    <2>4. PICK v : v = <<a, b, c>>
        OBVIOUS
    <2>5. v \in Seq(Tasks) /\ Len(v) = 3 /\ v[1] = a /\ v[2] = b /\ v[3] = c
        BY <2>4
    <2>6. \A i \in 1..3 : u[i] = v[i]
        <3>1. \A i \in 1..3 : i = 1 \/ i = 2 \/ i = 3
            OBVIOUS
        <3> QED BY <2>3, <2>5, <3>1
    <2>7. u = v
        BY <2>3, <2>5, <2>6, SeqEqual
    <2> QED BY <2>2, <2>4, <2>7
<1>5. (x \o y) \o r = x \o (y \o r)
    BY <1>3, ConcatAssociative
<1>6. y \o r = Ahead(b, Ahead(c, r))
    BY <1>2, TwoInFront
<1> QED BY <1>1, <1>4, <1>5, <1>6 DEF Ahead
-----------------------------------------------------------------------------
(* One step of the walk.                                                   *)

LEMMA AlikeGoesOn ==
    ASSUME NEW c, NEW d, NEW w, Pending(c, w), Fine(c), Fine(d), Alike(c, d)
    PROVE  /\ Pending(d, w) /\ (Counted(c, w) => Counted(d, w))
           /\ (OpenLoop(w, 0, c.last_continue) => OpenLoop(w, 0, d.last_continue))
           /\ \A jumps : WaitFor(c, jumps) => WaitFor(d, jumps)
           /\ (CanDefine(c) => CanDefine(d)) /\ d.type = c.type
<1>1. c \in Contexts /\ d \in Contexts
    BY DEF Fine
<1>2. /\ d.code = c.code /\ d.visible = c.visible /\ d.type = c.type
      /\ d.scopeDepth = c.scopeDepth /\ d.enclosing_loop = c.enclosing_loop
      /\ Len(d.locals) = Len(c.locals) /\ d.last_continue = c.last_continue
    BY DEF Alike, SameLocals, SameSettings
<1>3. CanDefine(c) => CanDefine(d)
    BY <1>2 DEF CanDefine
<1>4. Pending(d, w)
    <2>1. Len(d.code) >= Len(c.code)
        BY <1>1, <1>2, ContextTypes
    <2>2. \A i \in 1..Len(w) : w[i].k \in Based => Base(w[i]) <= Len(d.visible)
        BY <1>2 DEF Pending, Fits
    <2>3. \A i \in 1..Len(w) : w[i].k = "define" => CanDefine(d)
        BY <1>3 DEF Pending, Fits
    <2> QED BY <1>1, <2>1, <2>2, <2>3, PendingGoesOn
<1>5. Counted(c, w) => Counted(d, w)
    BY <1>2 DEF Counted, Outermost
<1>6. \A jumps : WaitFor(c, jumps) => WaitFor(d, jumps)
    BY <1>2 DEF WaitFor
<1> QED BY <1>2, <1>3, <1>4, <1>5, <1>6

(* The function being compiled and its work.                               *)
LEMMA AtWork ==
    ASSUME Inv, todo # <<>>, NEW n, n = Len(contexts)
    PROVE  /\ Good(Now) /\ n \in Nat \ {0} /\ n \in 1..n /\ Len(todo) = n
           /\ contexts \in Seq(Contexts) /\ contexts # <<>> /\ todo \in Seq(Seq(Tasks))
           /\ Current(Now) = contexts[n] /\ Work = todo[n] /\ Now.contexts = contexts
           /\ Work \in Seq(Tasks) /\ Work # <<>> /\ Head(Work) = Work[1] /\ Work[1] \in Tasks
           /\ Compiling(Current(Now), Work)
<1>1. /\ contexts \in Seq(Contexts) /\ todo \in Seq(Seq(Tasks)) /\ error \in Errors
      /\ Len(todo) = n
      /\ \A j \in 1..n : Compiling(contexts[j], todo[j])
    BY DEF Inv, Settings, Inside
<1>2. n \in Nat \ {0} /\ n \in 1..n /\ Work = todo[n]
    <2>1. PICK old \in Seq(Seq(Tasks)) : old = todo
        BY <1>1
    <2>2. old # <<>>
        BY <2>1
    <2>3. Len(old) \in Nat \ {0} /\ Len(old) \in 1..Len(old) /\ Last(old) = old[Len(old)]
        BY <2>2, FrontAndLast
    <2> QED BY <1>1, <2>1, <2>3 DEF Work
<1>3. contexts # <<>>
    BY <1>2
<1>4. Now.contexts = contexts /\ Now.error = error /\ Now \in States
    BY <1>1 DEF Now, States
<1>5. Good(Now)
    BY <1>1, <1>3, <1>4 DEF Good, Compiling
<1>6. Current(Now) = contexts[n]
    BY <1>4, <1>5, CurrentIsFine
<1>7. Compiling(Current(Now), Work)
    BY <1>1, <1>2, <1>6
<1>8. Work \in Seq(Tasks) /\ Work # <<>>
    BY <1>7 DEF Compiling, Pending
<1>9. Head(Work) = Work[1] /\ Work[1] \in Tasks
    BY <1>8, TailOf
<1> QED BY <1>1, <1>2, <1>3, <1>4, <1>5, <1>6, <1>7, <1>8, <1>9

(* The parts of Inv that are about the program and not the walk.           *)
Onward ==
    /\ budget' \in 0..MaxNodes /\ currentClass' \in Seq(BOOLEAN)
    /\ functions' = functions

LEMMA WalkKeeps ==
    ASSUME Inv, todo # <<>>, NEW s, Becomes(s), Follows(Now, s), Onward,
           NEW u, todo' = Append(Front(todo), u),
           Midway(Current(s), u, Last(Work), 0, 0, {}),
           OpenLoop(u, 0, Current(s).last_continue),
           Current(s).type = Current(Now).type
    PROVE  Inv'
<1>1. PICK n : n = Len(contexts)
    OBVIOUS
<1>2. /\ Good(Now) /\ n \in Nat \ {0} /\ n \in 1..n /\ Len(todo) = n
      /\ contexts \in Seq(Contexts) /\ todo \in Seq(Seq(Tasks))
      /\ Current(Now) = contexts[n] /\ Work = todo[n] /\ Now.contexts = contexts
    BY <1>1, AtWork
<1>3. contexts' = s.contexts /\ error' = s.error /\ family' = family
    BY DEF Becomes
<1>4. /\ Good(s) /\ Len(s.contexts) = n
      /\ \A j \in 1..n - 1 : Alike(contexts[j], s.contexts[j])
    BY <1>1, <1>2 DEF Follows
<1>5. /\ Current(s) = s.contexts[n] /\ s.contexts \in Seq(Contexts) /\ s.error \in Errors
    BY <1>4, CurrentIsFine
<1>6. u \in Seq(Tasks)
    BY DEF Midway, Pending
<1>7. /\ todo' \in Seq(Seq(Tasks)) /\ Len(todo') = n /\ todo'[n] = u
      /\ \A j \in 1..n - 1 : todo'[j] = todo[j]
    <2>1. PICK old \in Seq(Seq(Tasks)) : old = todo
        BY <1>2
    <2>2. PICK new : new = Append(Front(old), u)
        OBVIOUS
    <2>3. WithLast(new, old, u, Seq(Tasks))
        BY <1>6, <2>1, <2>2, LastReplaced
    <2> QED BY <1>2, <2>1, <2>2, <2>3 DEF WithLast
<1>8. Settings'
    <2>1. /\ currentClass \in Seq(BOOLEAN) /\ family \in Families /\ functions \in Seq(Finished)
        BY DEF Inv, Settings
    <2>2. budget' \in 0..MaxNodes'
        BY <1>3 DEF Onward, MaxNodes
    <2> QED BY <1>3, <1>5, <1>7, <2>1, <2>2 DEF Settings, Onward
<1>9. ASSUME NEW j \in 1..n
      PROVE  /\ Compiling(contexts[j], todo[j])' /\ contexts'[j].type = contexts[j].type
             /\ Last(todo'[j]) = Last(todo[j])
             /\ j < n => todo'[j] = todo[j] /\ (CanDefine(contexts[j]) => CanDefine(contexts'[j]))
    <2>1. Compiling(contexts[j], todo[j])
        BY <1>1 DEF Inv
    <2>2. CASE j < n
        <3>1. PICK c : c = contexts[j]
            OBVIOUS
        <3>2. PICK d : d = s.contexts[j]
            OBVIOUS
        <3>3. PICK w : w = todo[j]
            OBVIOUS
        <3>4. Alike(c, d) /\ Fine(d) /\ todo'[j] = w
            <4>1. j \in 1..n - 1
                BY <1>2, <2>2
            <4> QED BY <1>4, <1>7, <3>1, <3>2, <3>3, <4>1 DEF Good
        <3>5. /\ Fine(c) /\ Pending(c, w) /\ Counted(c, w) /\ OpenLoop(w, 0, c.last_continue)
              /\ Without({"break"}) => WaitFor(c, JumpsIn(w))
            BY <2>1, <3>1, <3>3 DEF Compiling
        <3>6. /\ Pending(d, w) /\ Counted(d, w) /\ OpenLoop(w, 0, d.last_continue)
              /\ \A jumps : WaitFor(c, jumps) => WaitFor(d, jumps)
              /\ (CanDefine(c) => CanDefine(d)) /\ d.type = c.type
            BY <3>4, <3>5, AlikeGoesOn
        <3>7. Without({"break"})' => WaitFor(d, JumpsIn(w))
            BY <1>3, <3>5, <3>6 DEF Without, Syntax
        <3>8. Compiling(contexts[j], todo[j])'
            BY <1>3, <3>2, <3>4, <3>6, <3>7 DEF Compiling
        <3> QED BY <1>3, <3>1, <3>2, <3>3, <3>4, <3>6, <3>8
    <2>3. CASE j = n
        <3>1. PICK d : d = Current(s)
            OBVIOUS
        <3>2. d = contexts'[n] /\ u = todo'[n] /\ OpenLoop(u, 0, d.last_continue)
            BY <1>3, <1>5, <1>7, <3>1
        <3>3. Fine(d) /\ Pending(d, u) /\ Last(u) = Last(Work)
            BY <3>1 DEF Midway
        <3>4. Counted(d, u)
            <4>1. PICK m \in Nat : m = Cardinality(Marked(u, ScopeTasks))
                BY <3>3, MarksAreNat
            <4>2. PICK l \in Nat : l = Cardinality(Marked(u, LoopEndTasks))
                BY <3>3, MarksAreNat
            <4>3. PICK o \in Nat : o = Outermost(d)
                BY DEF Outermost
            <4>4. d.scopeDepth = o + m + 0 /\ d.enclosing_loop = l + 0
                BY <3>1, <4>1, <4>2, <4>3 DEF Midway
            <4>5. d.scopeDepth = o + m /\ d.enclosing_loop = l
                BY <4>4
            <4> QED BY <4>1, <4>2, <4>3, <4>5 DEF Counted
        <3>5. Without({"break"})' => WaitFor(d, JumpsIn(u))
            <4>1. Without({"break"}) => WaitFor(d, JumpsIn(u) \cup {})
                BY <3>1 DEF Midway
            <4>2. JumpsIn(u) \cup {} = JumpsIn(u)
                OBVIOUS
            <4> QED BY <1>3, <4>1, <4>2 DEF Without, Syntax
        <3>6. Compiling(contexts[j], todo[j])'
            BY <2>3, <3>2, <3>3, <3>4, <3>5 DEF Compiling
        <3>7. contexts'[n].type = contexts[n].type
            BY <1>2, <3>1, <3>2
        <3>8. Last(todo'[n]) = Last(todo[n])
            BY <1>2, <3>2, <3>3
        <3>9. ~(j < n)
            BY <1>2, <2>3
        <3> QED BY <2>3, <3>6, <3>7, <3>8, <3>9
    <2>4. j < n \/ j = n
        BY <1>2
    <2> QED BY <2>2, <2>3, <2>4
<1>10. Inside'
    <2>1. Len(todo') = Len(contexts')
        BY <1>3, <1>4, <1>7
    <2>2. ASSUME NEW j \in 1..n, NEW kind, kind = Last(todo'[j]).kind
          PROVE  /\ kind = "script" <=> j = 1
                 /\ contexts'[j].type = "script" <=> j = 1
                 /\ kind = "method" <=> contexts'[j].type \in {"method", "initializer"}
                 /\ kind = "function" => CanDefine(contexts'[j - 1]) /\ Last(todo'[j]).name \in Names
                 /\ kind = "method" <=> j > 1 /\ Head(todo'[j - 1]).k = "methods"
                 /\ kind = "function" <=> j > 1 /\ Head(todo'[j - 1]).k = "stats"
        <3>1. Last(todo'[j]) = Last(todo[j]) /\ contexts'[j].type = contexts[j].type
            BY <1>9
        <3>2. /\ kind = "script" <=> j = 1
              /\ contexts[j].type = "script" <=> j = 1
              /\ kind = "method" <=> contexts[j].type \in {"method", "initializer"}
              /\ kind = "function" => CanDefine(contexts[j - 1]) /\ Last(todo[j]).name \in Names
              /\ kind = "method" <=> j > 1 /\ Head(todo[j - 1]).k = "methods"
              /\ kind = "function" <=> j > 1 /\ Head(todo[j - 1]).k = "stats"
            BY <1>1, <2>2, <3>1 DEF Inv, Inside
        <3>3. CASE j = 1
            BY <3>1, <3>2, <3>3
        <3>4. CASE j # 1
            <4>1. j - 1 \in 1..n /\ j - 1 < n
                BY <1>2, <3>4
            <4>2. todo'[j - 1] = todo[j - 1] /\ (CanDefine(contexts[j - 1]) => CanDefine(contexts'[j - 1]))
                BY <1>9, <4>1
            <4> QED BY <3>1, <3>2, <4>2
        <3> QED BY <3>3, <3>4
    <2> QED BY <1>3, <1>4, <2>1, <2>2 DEF Inside
<1>11. JumpsPatched'
    <2>1. JumpsPatched
        BY DEF Inv
    <2> QED BY <1>3, <2>1 DEF JumpsPatched, Onward, Without, Syntax, IsJump
<1> QED BY <1>3, <1>4, <1>8, <1>9, <1>10, <1>11 DEF Inv
-----------------------------------------------------------------------------
(* Expressions.                                                            *)

LEMMA StaysOnward ==
    ASSUME Inv, UNCHANGED budget \/ (budget > 0 /\ budget' = budget - 1),
           UNCHANGED <<currentClass, functions>>
    PROVE  Onward
<1>1. budget \in 0..MaxNodes /\ currentClass \in Seq(BOOLEAN) /\ family \in Families
    BY DEF Inv, Settings
<1>2. MaxNodes \in Nat
    BY <1>1, Limits DEF MaxNodes
<1>. QED  BY <1>1, <1>2 DEF Onward

LEMMA WaitsForMore ==
    ASSUME NEW c, NEW jumps, NEW more, WaitFor(c, jumps), jumps \subseteq more
    PROVE  WaitFor(c, more)
BY DEF WaitFor

(* What both GetsWider and GoesOn say but of the jumps.                    *)
Grows(c, d) ==
    /\ SameLoops(c, d) /\ d.scopeDepth = c.scopeDepth
    /\ Len(d.code) >= Len(c.code) /\ Len(d.visible) >= Len(c.visible)
    /\ Len(d.locals) >= Len(c.locals)

LEMMA WidensGrows ==
    ASSUME NEW c, NEW d, Widens(c, d)
    PROVE  Grows(c, d)
BY DEF Widens, Grows

LEMMA SteadyGrows ==
    ASSUME NEW c \in Contexts, NEW d \in Contexts, Steady(c, d)
    PROVE  Grows(c, d)
BY ContextTypes DEF Steady, SameSettings, SameLocals, SameLoops, Grows

LEMMA MovesGrown ==
    ASSUME NEW c, NEW r, NEW end, NEW scopes \in Int, NEW loops \in Int, NEW jumps,
           Midway(c, r, end, scopes, loops, jumps),
           NEW d, Fine(d), Grows(c, d),
           NEW now, WaitFor(c, JumpsIn(r) \cup jumps) => WaitFor(d, JumpsIn(r) \cup now)
    PROVE  Midway(d, r, end, scopes, loops, now)
<1>1. Fine(c) /\ Pending(c, r)
    BY DEF Midway
<1>2. c \in Contexts /\ d \in Contexts
    BY <1>1 DEF Fine
<1>3. Len(d.code) >= Len(c.code) /\ Len(d.visible) >= Len(c.visible) /\ d.type = c.type
      /\ d.scopeDepth = c.scopeDepth + 0 /\ d.enclosing_loop = c.enclosing_loop + 0
    BY <1>2, ContextTypes DEF Grows, SameLoops
<1>4. ASSUME NEW i \in 1..Len(r), r[i].k \in Based
      PROVE  Base(r[i]) <= Len(d.visible)
    <2>1. Base(r[i]) <= Len(c.visible) /\ r[i] \in Tasks
        BY <1>1, <1>4 DEF Pending, Fits
    <2>2. Base(r[i]) \in Nat /\ Len(c.visible) \in Nat /\ Len(d.visible) \in Nat
        BY <2>1, <1>2, <1>4, BaseIsNat, ContextTypes
    <2>. QED  BY <2>1, <2>2, <1>3
<1>5. ASSUME NEW i \in 1..Len(r), r[i].k = "define"
      PROVE  CanDefine(d)
    <2>1. CanDefine(c)
        BY <1>1, <1>5 DEF Pending, Fits
    <2>2. Len(c.locals) \in Nat /\ Len(d.locals) \in Nat
        BY <1>2, ContextTypes
    <2>. QED  BY <2>1, <2>2 DEF CanDefine, Grows
<1>6. Midway(d, r, end, scopes + 0, loops + 0, now)
    <2>. DEFINE none == 0
    <2>1. none \in Int /\ d.scopeDepth = c.scopeDepth + none
          /\ d.enclosing_loop = c.enclosing_loop + none
        BY <1>3
    <2>. HIDE DEF none
    <2>2. Midway(d, r, end, scopes + none, loops + none, now)
        BY <2>1, <1>3, <1>4, <1>5, Moves
    <2>. QED  BY <2>2 DEF none
<1>. QED  BY <1>6

(* Tasks of an expression are put in place of one.                         *)
SimpleTasks == {t \in Tasks : t.k \in ExprTasks}

LEMMA SimpleIsUnmarked ==
    ASSUME NEW t \in SimpleTasks
    PROVE  /\ t \notin ScopeTasks /\ t \notin LoopEndTasks /\ t.k \notin LoopTasks
           /\ t.k \notin Based /\ t \in Tasks /\ t.k \in ExprTasks /\ t.k # "endFunction"
           /\ \A p : ~StartsAt(t, p)
BY DEF SimpleTasks, ExprTasks, ScopeTasks, LoopEndTasks, LoopEnds, LoopTasks, ForTasks, Based, StartsAt

LEMMA SimpleBefore ==
    ASSUME NEW t \in SimpleTasks, NEW h, h.k \in ExprTasks, NEW x, Before(h, x)
    PROVE  Before(t, x)
BY SimpleIsUnmarked DEF Before, ExprTasks

LEMMA SimpleBeforeSimple ==
    ASSUME NEW t \in SimpleTasks, NEW x \in SimpleTasks
    PROVE  Before(t, x)
BY SimpleIsUnmarked DEF Before, ExprTasks

LEMMA ExpressionKeeps ==
    ASSUME Inv, todo # <<>>, NEW h, h = Work[1], h.k \in ExprTasks,
           NEW s, Becomes(s), Onward, Follows(Now, s), Grows(Current(Now), Current(s)),
           NEW tasks \in Seq(SimpleTasks), \A k \in 1..Len(tasks) : Fits(Current(s), tasks[k]),
           \A jumps : WaitFor(Current(Now), jumps \cup JumpsOf(h)) =>
                        WaitFor(Current(s), jumps \cup JumpsIn(tasks)),
           todo' = Append(Front(todo), tasks \o Tail(Work))
    PROVE  Inv'
<1>. DEFINE c == Current(Now)
            d == Current(s)
            w == Work
            r == Tail(w)
            end == Last(w)
            u == tasks \o r
<1>1. Compiling(c, w) /\ h \in Tasks /\ Good(Now) /\ w \in Seq(Tasks) /\ w # <<>>
    BY AtWork
<1>2. Fine(d) /\ Good(s)
    BY CurrentIsFine DEF Follows
<1>3. h \in SimpleTasks
    BY <1>1 DEF SimpleTasks
<1>4. h.k # "endFunction" /\ One(h, ScopeTasks) = 0 /\ One(h, LoopEndTasks) = 0
    BY <1>3, SimpleIsUnmarked DEF One
<1>5. /\ Midway(c, r, end, 0, 0, JumpsOf(h))
      /\ \A i \in 1..Len(r) : Before(h, r[i])
      /\ \A p : OpenLoop(w, 0, p) /\ ~StartsAt(h, p) => OpenLoop(r, 0, p)
    <2>. HIDE DEF c, w, r, end
    <2>1. /\ Midway(c, r, Last(w), One(h, ScopeTasks), One(h, LoopEndTasks), JumpsOf(h))
          /\ \A i \in 1..Len(r) : Before(h, r[i])
          /\ \A p : OpenLoop(w, 0, p) /\ ~StartsAt(h, p) => OpenLoop(r, 0, p)
        <3>1. h = w[1] /\ r = Tail(w)
            BY DEF w, r
        <3>. QED  BY <3>1, <1>1, <1>4, Starts
    <2>. QED  BY <2>1, <1>4 DEF end
<1>6. Midway(d, r, end, 0, 0, JumpsIn(tasks))
    <2>1. WaitFor(c, JumpsIn(r) \cup JumpsOf(h)) => WaitFor(d, JumpsIn(r) \cup JumpsIn(tasks))
        OBVIOUS
    <2>. HIDE DEF c, d, r, end
    <2>2. Grows(c, d)
        BY DEF c, d
    <2>. DEFINE none == 0
                before == JumpsOf(h)
                now == JumpsIn(tasks)
    <2>3. none \in Int /\ Midway(c, r, end, none, none, before)
          /\ (WaitFor(c, JumpsIn(r) \cup before) => WaitFor(d, JumpsIn(r) \cup now))
        BY <2>1, <1>5
    <2>. HIDE DEF none, before, now
    <2>4. Midway(d, r, end, none, none, now)
        BY <2>2, <2>3, <1>2, MovesGrown
    <2>. QED  BY <2>4 DEF none, now
<1>7. Pending(d, r) /\ Last(r) = end /\ r \in Seq(Tasks) /\ tasks \in Seq(Tasks)
    <2>1. Pending(d, r) /\ Last(r) = end
        BY <1>6 DEF Midway
    <2>2. SimpleTasks \subseteq Tasks
        BY DEF SimpleTasks
    <2>. QED  BY <2>1, <2>2 DEF Pending
<1>8. \A k \in 1..Len(tasks) : tasks[k] \in SimpleTasks
    OBVIOUS
<1>9. Fitting(d, tasks, r)
    <2>. HIDE DEF r, d
    <2>1. ASSUME NEW k \in 1..Len(tasks)
          PROVE  /\ Fits(d, tasks[k])
                 /\ \A i \in 1..k - 1 : Before(tasks[i], tasks[k])
                 /\ \A i \in 1..Len(r) : Before(tasks[k], r[i])
                 /\ tasks[k].k \notin LoopTasks
        <3>1. Fits(d, tasks[k])
            BY DEF d
        <3>2. ASSUME NEW i \in 1..k - 1
              PROVE  Before(tasks[i], tasks[k])
            <4>1. i \in 1..Len(tasks)
                OBVIOUS
            <4>. QED  BY <4>1, <1>8, SimpleBeforeSimple
        <3>. QED  BY <3>1, <3>2, <1>5, <1>8, SimpleBefore, SimpleIsUnmarked
    <2>. QED  BY <2>1, <1>7 DEF Fitting
<1>10. Pending(d, u) /\ Last(u) = end
    <2>. HIDE DEF r, d
    <2>. QED  BY <1>7, <1>9, PendingPushed
<1>11. ASSUME NEW K, \A t \in SimpleTasks : t \notin K
       PROVE  Cardinality(Marked(u, K)) = Cardinality(Marked(r, K))
    <2>. HIDE DEF r
    <2>1. Cardinality(Marked(tasks, K)) = 0
        BY <1>8, <1>11, NoneMarked
    <2>2. Cardinality(Marked(u, K)) = Cardinality(Marked(tasks, K)) + Cardinality(Marked(r, K))
        BY <1>7, MarkedJoined
    <2>3. Cardinality(Marked(r, K)) \in Nat
        BY <1>7, MarkedIsFinite
    <2>. QED  BY <2>1, <2>2, <2>3
<1>12. Midway(d, u, end, 0, 0, {})
    <2>. HIDE DEF d, r, end
    <2>1. Cardinality(Marked(u, ScopeTasks)) = Cardinality(Marked(r, ScopeTasks))
          /\ Cardinality(Marked(u, LoopEndTasks)) = Cardinality(Marked(r, LoopEndTasks))
        BY <1>11, SimpleIsUnmarked
    <2>2. JumpsIn(u) \cup {} = JumpsIn(r) \cup JumpsIn(tasks)
        BY <1>7, JumpsJoined
    <2>. HIDE DEF u
    <2>. QED  BY <2>1, <2>2, <1>6, <1>10 DEF Midway
<1>13. OpenLoop(u, 0, d.last_continue)
    <2>1. OpenLoop(w, 0, c.last_continue) /\ d.last_continue = c.last_continue
        BY <1>1 DEF Compiling, Grows, SameLoops
    <2>2. \A p : ~StartsAt(h, p)
        BY <1>3, SimpleIsUnmarked
    <2>3. OpenLoop(r, 0, d.last_continue)
        <3>. HIDE DEF r, w, c, d
        <3>. QED  BY <2>1, <2>2, <1>5
    <2>. HIDE DEF r, d
    <2>. DEFINE p == d.last_continue
    <2>4. Len(tasks) \in Nat /\ 0 \in 0..Len(tasks) /\ OpenLoop(r, 0, p)
        BY <2>3
    <2>. HIDE DEF p
    <2>5. OpenLoop(tasks \o r, 0, p)
        BY <2>4, <1>7, OpenLoopBehind
    <2>. QED  BY <2>5 DEF p
<1>14. d.type = c.type
    BY DEF Grows, SameLoops
<1>. HIDE DEF u
<1>15. todo' = Append(Front(todo), u)
    BY DEF u
<1>. QED  BY <1>12, <1>13, <1>14, <1>15, WalkKeeps

(* An expression's tasks that are no patches, and code that opens no jump. *)
PlainTasks == {t \in SimpleTasks : t.k # "patch"}
PlainOperations == Operations \ Jumping

LEMMA EmitsInPassing ==
    ASSUME NEW s, Good(s), NEW op \in PlainOperations, NEW arg \in Int, NEW t, t = Emit(s, op, arg)
    PROVE  GetsWider(s, t) /\ Good(t)
<1>1. op \in Operations /\ op \notin Jumping
    BY DEF PlainOperations
<1>2. GetsWider(s, t)
    BY <1>1, EmitsPlain
<1>. QED  BY <1>2 DEF GetsWider, Follows

LEMMA ExpressionWider ==
    ASSUME Inv, todo # <<>>, NEW h, h = Work[1], h.k \in ExprTasks, h.k # "patch",
           NEW s, Becomes(s), Onward, GetsWider(Now, s), NEW tasks \in Seq(PlainTasks),
           todo' = Append(Front(todo), tasks \o Tail(Work))
    PROVE  Inv'
<1>1. Follows(Now, s) /\ Grows(Current(Now), Current(s)) /\ KeepsJumps(Current(Now), Current(s))
    BY WidensGrows DEF GetsWider, Widens
<1>2. tasks \in Seq(SimpleTasks) /\ \A k \in 1..Len(tasks) : tasks[k] \in PlainTasks
    BY DEF PlainTasks
<1>3. ASSUME NEW k \in 1..Len(tasks)
      PROVE  Fits(Current(s), tasks[k])
    <2>1. tasks[k] \in SimpleTasks /\ tasks[k].k # "patch"
        BY <1>2 DEF PlainTasks
    <2>2. tasks[k].k \in ExprTasks /\ tasks[k].k \notin LoopTasks /\ tasks[k].k \notin Based
        BY <2>1, SimpleIsUnmarked
    <2>. QED  BY <2>1, <2>2 DEF Fits, ExprTasks
<1>4. ASSUME NEW jumps, WaitFor(Current(Now), jumps \cup JumpsOf(h))
      PROVE  WaitFor(Current(s), jumps \cup JumpsIn(tasks))
    <2>1. JumpsOf(h) = {}
        BY Zenon DEF JumpsOf, ExprTasks
    <2>2. WaitFor(Current(s), jumps)
        BY <1>1, <1>4, <2>1 DEF KeepsJumps
    <2>. QED  BY <2>2, WaitsForMore
<1>. QED  BY <1>1, <1>2, <1>3, <1>4, ExpressionKeeps

LEMMA PlainTypes ==
    /\ \A b \in BOOLEAN : Target(b) \in PlainTasks
    /\ Expr \in PlainTasks
    /\ \A op \in Emitted, n \in Nat : Then(op, n) \in PlainTasks
    /\ \A n \in Nat : [k |-> "superInvoke", args |-> n] \in PlainTasks
    /\ \A k \in {"andJump", "orJump"}, b \in BOOLEAN : [k |-> k, canAssign |-> b] \in PlainTasks
<1>1. \A t \in Tasks : t.k \in ExprTasks /\ t.k # "patch" => t \in PlainTasks
    BY DEF PlainTasks, SimpleTasks
<1>2. ASSUME NEW b \in BOOLEAN
      PROVE  Target(b) \in Tasks /\ Target(b).k = "expr"
    BY DEF Target, Tasks
<1>3. Expr \in Tasks /\ Expr.k = "expr"
    BY DEF Expr, Tasks
<1>4. ASSUME NEW op \in Emitted, NEW n \in Nat
      PROVE  Then(op, n) \in Tasks /\ Then(op, n).k = "emit"
    BY DEF Then, Tasks
<1>5. ASSUME NEW n \in Nat
      PROVE  [k |-> "superInvoke", args |-> n] \in Tasks
    BY DEF Tasks
<1>6. ASSUME NEW k \in {"andJump", "orJump"}, NEW b \in BOOLEAN
      PROVE  [k |-> k, canAssign |-> b] \in Tasks
    BY DEF Tasks
<1>. QED  BY <1>1, <1>2, <1>3, <1>4, <1>5, <1>6 DEF ExprTasks

LEMMA ArgumentsArePlain ==
    ASSUME NEW n \in Nat
    PROVE  Arguments(n) \in Seq(PlainTasks)
<1>1. Arguments(n) \in [1..n -> PlainTasks]
    BY PlainTypes DEF Arguments
<1>. QED  BY <1>1, FunctionIsSeq

LEMMA PlainSequences ==
    /\ <<>> \in Seq(PlainTasks)
    /\ \A a \in PlainTasks : <<a>> \in Seq(PlainTasks)
    /\ \A a, b \in PlainTasks : <<a, b>> \in Seq(PlainTasks)
    /\ \A a, b, c \in PlainTasks : <<a, b, c>> \in Seq(PlainTasks)
    /\ \A a \in PlainTasks, s \in Seq(PlainTasks) :
        Append(s, a) \in Seq(PlainTasks) /\ <<a>> \o s \in Seq(PlainTasks)
<1>1. \A a \in PlainTasks : <<a>> \in Seq(PlainTasks)
    OBVIOUS
<1>2. \A a, b \in PlainTasks : <<a, b>> \in Seq(PlainTasks)
    OBVIOUS
<1>3. \A a, b, c \in PlainTasks : <<a, b, c>> \in Seq(PlainTasks)
    OBVIOUS
<1>4. ASSUME NEW a \in PlainTasks, NEW s \in Seq(PlainTasks)
      PROVE  Append(s, a) \in Seq(PlainTasks) /\ <<a>> \o s \in Seq(PlainTasks)
    <2>1. PICK front \in Seq(PlainTasks) : front = <<a>>
        BY <1>1
    <2>2. Append(s, a) \in Seq(PlainTasks)
        OBVIOUS
    <2>3. front \o s \in Seq(PlainTasks)
        OBVIOUS
    <2>. QED  BY <2>1, <2>2, <2>3
<1>5. <<>> \in Seq(PlainTasks)
    OBVIOUS
<1>. QED  BY <1>1, <1>2, <1>3, <1>4, <1>5

LEMMA TaskTypes ==
    ASSUME NEW t \in Tasks
    PROVE  /\ t.k = "emit" => t.op \in Emitted /\ t.arg \in Nat
           /\ t.k = "superInvoke" => t.args \in Nat
           /\ t.k \in {"patch", "ifElse"} => t.jump \in Nat
           /\ t.k = "define" => t.name \in Names
           /\ t.k = "endScope" => t.base \in Nat
           /\ t.k = "endClass" => t.base \in Nat /\ t.hasSuperclass \in BOOLEAN
           /\ t.k \in LoopTasks => t.loop \in Loops
           /\ t.k = "endFunction" =>
                t.kind \in {"script", "function", "method"} /\ t.name \in Names \cup {""}
<1>1. t.k = "emit" => t.op \in Emitted /\ t.arg \in Nat
    BY DEF Tasks, LoopTasks
<1>2. t.k = "superInvoke" => t.args \in Nat
    BY DEF Tasks, LoopTasks
<1>3. t.k \in {"patch", "ifElse"} => t.jump \in Nat
    BY DEF Tasks, LoopTasks
<1>4. t.k = "define" => t.name \in Names
    BY DEF Tasks, LoopTasks
<1>5. t.k = "endScope" => t.base \in Nat
    BY DEF Tasks, LoopTasks
<1>6. t.k = "endClass" => t.base \in Nat /\ t.hasSuperclass \in BOOLEAN
    BY DEF Tasks, LoopTasks
<1>7. t.k \in LoopTasks => t.loop \in Loops
    BY DEF Tasks, LoopTasks
<1>8. t.k = "endFunction" =>
        t.kind \in {"script", "function", "method"} /\ t.name \in Names \cup {""}
    BY DEF Tasks, LoopTasks
<1>. QED  BY <1>1, <1>2, <1>3, <1>4, <1>5, <1>6, <1>7, <1>8

LEMMA CanAssignType ==
    ASSUME NEW t \in Tasks, t.k \in {"expr", "andJump", "orJump"}
    PROVE  t.canAssign \in BOOLEAN
BY DEF Tasks, LoopTasks

LEMMA FamilyBounds ==
    ASSUME Inv
    PROVE  Identifiers \subseteq Names /\ Identifiers \subseteq VariableNames /\ MaxArgs \in Nat
<1>1. family \in Families
    BY DEF Inv, Settings
<1>. QED  BY <1>1, Limits DEF Identifiers, MaxArgs, VariableNames

(* The evaluation of an expression begins.                                 *)
Advances == UNCHANGED budget \/ (budget > 0 /\ budget' = budget - 1)

LEMMA EvaluateKeeps ==
    ASSUME Inv, AtExpr, NEW s, GetsWider(Now, s), NEW tasks \in Seq(PlainTasks),
           Evaluate(s, tasks), Advances
    PROVE  Inv'
<1>1. todo # <<>> /\ Head(Work).k = "expr"
    BY DEF AtExpr, Doing
<1>2. Head(Work) = Work[1]
    BY <1>1, AtWork
<1>3. Work[1].k \in ExprTasks /\ Work[1].k # "patch"
    BY <1>1, <1>2 DEF ExprTasks
<1>4. Becomes(s) /\ todo' = Append(Front(todo), tasks \o Tail(Work))
      /\ UNCHANGED <<currentClass, functions>>
    BY DEF Evaluate, Walk
<1>5. Onward
    BY <1>4, StaysOnward DEF Advances
<1>. QED  BY <1>1, <1>3, <1>4, <1>5, ExpressionWider

LEMMA LeafAdvances ==
    ASSUME NEW kind, Leaf(kind)
    PROVE  AtExpr /\ Advances
BY DEF Leaf, Advances

LEMMA CompoundAdvances ==
    ASSUME NEW kind, Compound(kind)
    PROVE  AtExpr /\ Advances
BY DEF Compound, Node, Advances

LEMMA AtExprFacts ==
    ASSUME Inv, AtExpr
    PROVE  Good(Now) /\ CanAssign \in BOOLEAN /\ GetsWider(Now, Now)
<1>1. todo # <<>> /\ Head(Work).k = "expr"
    BY DEF AtExpr, Doing
<1>2. Good(Now) /\ Head(Work) \in Tasks
    BY <1>1, AtWork
<1>3. CanAssign \in BOOLEAN
    BY <1>1, <1>2, CanAssignType DEF CanAssign
<1>4. GoesOn(Now, Now) /\ KeepsJumps(Current(Now), Current(Now))
    BY <1>2, FollowsSelf DEF KeepsJumps
<1>. QED  BY <1>2, <1>3, <1>4, SteadyWidens

LEMMA LiteralKeeps ==
    ASSUME Inv, Literal
    PROVE  Inv'
<1>1. AtExpr /\ Advances /\ Evaluate(Emit(Now, "CONSTANT", 0), <<>>)
    BY LeafAdvances DEF Literal
<1>2. Good(Now)
    BY <1>1, AtExprFacts
<1>3. PICK op \in PlainOperations : op = "CONSTANT"
    BY DEF PlainOperations, Operations, Pushes, Jumping
<1>4. PICK s : s = Emit(Now, op, 0)
    OBVIOUS
<1>5. GetsWider(Now, s)
    BY <1>2, <1>4, EmitsInPassing
<1>6. PICK tasks \in Seq(PlainTasks) : tasks = <<>>
    BY PlainSequences
<1>7. Evaluate(s, tasks)
    BY <1>1, <1>3, <1>4, <1>6
<1>. QED  BY <1>1, <1>5, <1>7, EvaluateKeeps

LEMMA VariableKeeps ==
    ASSUME Inv, Variable
    PROVE  Inv'
<1>1. PICK x \in Identifiers : Evaluate(NamedVariable(Now, x, CanAssign), <<>>)
    BY DEF Variable
<1>2. AtExpr /\ Advances
    BY LeafAdvances DEF Variable
<1>3. Good(Now) /\ x \in VariableNames
    BY <1>2, AtExprFacts, FamilyBounds
<1>4. PICK s : s = NamedVariable(Now, x, CanAssign)
    OBVIOUS
<1>5. GetsWider(Now, s)
    BY <1>3, <1>4, LooksUp
<1>6. PICK tasks \in Seq(PlainTasks) : tasks = <<>>
    BY PlainSequences
<1>7. Evaluate(s, tasks)
    BY <1>1, <1>4, <1>6
<1>. QED  BY <1>2, <1>5, <1>7, EvaluateKeeps

LEMMA ThisKeeps ==
    ASSUME Inv, This
    PROVE  Inv'
<1>1. AtExpr /\ Advances
    BY LeafAdvances DEF This
<1>2. Good(Now)
    BY <1>1, AtExprFacts
<1>3. PICK tasks \in Seq(PlainTasks) : tasks = <<>>
    BY PlainSequences
<1>4. PICK s : GetsWider(Now, s) /\ Evaluate(s, tasks)
    <2>1. CASE currentClass = <<>>
        <3>1. PICK what \in Errors : what = "Can't use 'this' outside of a class"
            BY DEF Errors
        <3>2. PICK s : s = FailIf(Now, TRUE, what)
            OBVIOUS
        <3>3. GetsWider(Now, s)
            BY <1>2, <3>2, FailedWidens
        <3>4. Evaluate(s, tasks)
            BY <1>3, <2>1, <3>1, <3>2 DEF This
        <3>. QED  BY <3>3, <3>4
    <2>2. CASE currentClass # <<>>
        <3>1. PICK name \in VariableNames : name = "this"
            BY DEF VariableNames
        <3>2. PICK s : s = NamedVariable(Now, name, FALSE)
            OBVIOUS
        <3>3. GetsWider(Now, s)
            BY <1>2, <3>2, LooksUp
        <3>4. Evaluate(s, tasks)
            BY <1>3, <2>2, <3>1, <3>2 DEF This
        <3>. QED  BY <3>3, <3>4
    <2>. QED  BY <2>1, <2>2
<1>. QED  BY <1>1, <1>4, EvaluateKeeps

LEMMA SuperKeeps ==
    ASSUME Inv, Super
    PROVE  Inv'
<1>1. AtExpr /\ Advances
    BY CompoundAdvances DEF Super
<1>2. Good(Now)
    BY <1>1, AtExprFacts
<1>3. PICK what \in Errors : what = "Can't use 'super' here"
    BY DEF Errors
<1>4. PICK this \in VariableNames : this = "this"
    BY DEF VariableNames
<1>5. PICK super \in VariableNames : super = "super"
    BY DEF VariableNames
<1>6. PICK s : s = FailIf(Now, currentClass = <<>> \/ ~Last(currentClass), what)
    OBVIOUS
<1>7. PICK t : t = NamedVariable(s, this, FALSE)
    OBVIOUS
<1>8. PICK f : f = NamedVariable(t, super, FALSE)
    OBVIOUS
<1>9. PICK op \in PlainOperations : op = "GET_SUPER"
    BY DEF PlainOperations, Operations, Pops, Jumping
<1>10. PICK g : g = Emit(f, op, 0)
    OBVIOUS
<1>11. GetsWider(Now, s) /\ Good(s)
    BY <1>2, <1>6, FailedWidens
<1>12. GetsWider(s, t) /\ Good(t)
    <2>1. GetsWider(s, t)
        BY <1>7, <1>11, LooksUp
    <2>. QED  BY <2>1 DEF GetsWider, Follows
<1>13. GetsWider(t, f) /\ Good(f)
    <2>1. GetsWider(t, f)
        BY <1>8, <1>12, LooksUp
    <2>. QED  BY <2>1 DEF GetsWider, Follows
<1>14. GetsWider(f, g)
    BY <1>10, <1>13, EmitsInPassing
<1>15. GetsWider(Now, t)
    BY <1>2, <1>11, <1>12, GetsWiderOn
<1>16. GetsWider(Now, g)
    <2>1. GetsWider(Now, f)
        BY <1>2, <1>15, <1>13, GetsWiderOn
    <2>. QED  BY <1>2, <2>1, <1>14, GetsWiderOn
<1>17. CASE Evaluate(g, <<>>)
    <2>1. PICK tasks \in Seq(PlainTasks) : tasks = <<>>
        BY PlainSequences
    <2>. QED  BY <1>1, <1>16, <1>17, <2>1, EvaluateKeeps
<1>18. ASSUME NEW n \in 0..MaxArgs,
              Evaluate(t, Append(Arguments(n), [k |-> "superInvoke", args |-> n]))
       PROVE  Inv'
    <2>1. n \in Nat
        BY FamilyBounds
    <2>2. PICK last \in PlainTasks : last = [k |-> "superInvoke", args |-> n]
        BY <2>1, PlainTypes
    <2>3. PICK tasks \in Seq(PlainTasks) : tasks = Append(Arguments(n), last)
        BY <2>1, ArgumentsArePlain, PlainSequences
    <2>4. Evaluate(t, tasks)
        BY <1>18, <2>2, <2>3
    <2>. QED  BY <1>1, <1>15, <2>4, EvaluateKeeps
<1>19. Evaluate(g, <<>>) \/ \E n \in 0..MaxArgs :
            Evaluate(t, Append(Arguments(n), [k |-> "superInvoke", args |-> n]))
    <2>1. t = NamedVariable(FailIf(Now, currentClass = <<>> \/ ~Last(currentClass),
                                   "Can't use 'super' here"), "this", FALSE)
        BY <1>3, <1>4, <1>6, <1>7
    <2>2. g = Emit(NamedVariable(t, "super", FALSE), "GET_SUPER", 0)
        BY <1>5, <1>8, <1>9, <1>10
    <2>. QED  BY <2>1, <2>2 DEF Super
<1>. QED  BY <1>17, <1>18, <1>19

LEMMA EvaluateSameKeeps ==
    ASSUME Inv, AtExpr, NEW tasks \in Seq(PlainTasks), Evaluate(Now, tasks), Advances
    PROVE  Inv'
BY AtExprFacts, EvaluateKeeps

LEMMA UnaryKeeps ==
    ASSUME Inv, Unary
    PROVE  Inv'
<1>1. AtExpr /\ Advances
    BY CompoundAdvances DEF Unary
<1>2. PICK a \in PlainTasks : a = Target(CanAssign)
    BY <1>1, AtExprFacts, PlainTypes
<1>3. PICK b \in PlainTasks : b = Then("UNARY", 0)
    <2>1. "UNARY" \in Emitted /\ 0 \in Nat
        BY DEF Emitted
    <2>. QED  BY <2>1, PlainTypes
<1>4. PICK tasks \in Seq(PlainTasks) : tasks = <<a, b>>
    BY PlainSequences
<1>5. Evaluate(Now, tasks)
    BY <1>2, <1>3, <1>4 DEF Unary
<1>. QED  BY <1>1, <1>5, EvaluateSameKeeps

LEMMA BinaryKeeps ==
    ASSUME Inv, Binary
    PROVE  Inv'
<1>1. AtExpr /\ Advances
    BY CompoundAdvances DEF Binary
<1>2. PICK a \in PlainTasks : a = Target(CanAssign)
    BY <1>1, AtExprFacts, PlainTypes
<1>3. PICK b \in PlainTasks : b = Then("BINARY", 0)
    <2>1. "BINARY" \in Emitted /\ 0 \in Nat
        BY DEF Emitted
    <2>. QED  BY <2>1, PlainTypes
<1>4. PICK tasks \in Seq(PlainTasks) : tasks = <<a, a, b>>
    BY PlainSequences
<1>5. Evaluate(Now, tasks)
    BY <1>2, <1>3, <1>4 DEF Binary
<1>. QED  BY <1>1, <1>5, EvaluateSameKeeps

LEMMA LogicKeeps ==
    ASSUME Inv, Logic
    PROVE  Inv'
<1>1. AtExpr /\ Advances
    BY CompoundAdvances DEF Logic
<1>2. PICK jump \in {"andJump", "orJump"} :
            Evaluate(Now, <<Target(CanAssign), [k |-> jump, canAssign |-> CanAssign]>>)
    BY DEF Logic
<1>3. PICK a \in PlainTasks : a = Target(CanAssign)
    BY <1>1, AtExprFacts, PlainTypes
<1>4. PICK b \in PlainTasks : b = [k |-> jump, canAssign |-> CanAssign]
    BY <1>1, AtExprFacts, PlainTypes
<1>5. PICK tasks \in Seq(PlainTasks) : tasks = <<a, b>>
    BY PlainSequences
<1>6. Evaluate(Now, tasks)
    BY <1>2, <1>3, <1>4, <1>5
<1>. QED  BY <1>1, <1>6, EvaluateSameKeeps

LEMMA AssignKeeps ==
    ASSUME Inv, Assign
    PROVE  Inv'
<1>1. AtExpr /\ Advances
    BY CompoundAdvances DEF Assign
<1>2. PICK a \in PlainTasks : a = Expr
    BY PlainTypes
<1>3. PICK b \in PlainTasks : b = Target(TRUE)
    BY Zenon, PlainTypes
<1>4. PICK tasks \in Seq(PlainTasks) : tasks = <<a, b>>
    BY PlainSequences
<1>5. Evaluate(Now, tasks)
    BY <1>2, <1>3, <1>4 DEF Assign
<1>. QED  BY <1>1, <1>5, EvaluateSameKeeps

LEMMA CallKeeps ==
    ASSUME Inv, Call
    PROVE  Inv'
<1>1. AtExpr /\ Advances
    BY CompoundAdvances DEF Call
<1>2. PICK n \in 0..MaxArgs : Evaluate(Now, <<Expr>> \o Append(Arguments(n), Then("CALL", n)))
    BY DEF Call
<1>3. n \in Nat /\ "CALL" \in Emitted
    BY FamilyBounds DEF Emitted
<1>4. PICK a \in PlainTasks : a = Expr
    BY PlainTypes
<1>5. PICK b \in PlainTasks : b = Then("CALL", n)
    BY <1>3, PlainTypes
<1>6. PICK arguments \in Seq(PlainTasks) : arguments = Append(Arguments(n), b)
    BY <1>3, ArgumentsArePlain, PlainSequences
<1>7. PICK tasks \in Seq(PlainTasks) : tasks = <<a>> \o arguments
    BY PlainSequences
<1>8. Evaluate(Now, tasks)
    BY <1>2, <1>4, <1>5, <1>6, <1>7
<1>. QED  BY <1>1, <1>8, EvaluateSameKeeps

LEMMA DotKeeps ==
    ASSUME Inv, Dot
    PROVE  Inv'
<1>1. AtExpr /\ Advances
    BY CompoundAdvances DEF Dot
<1>2. PICK a \in PlainTasks : a = Target(CanAssign)
    BY <1>1, AtExprFacts, PlainTypes
<1>3. {"GET_PROPERTY", "SET_PROPERTY", "INVOKE"} \subseteq Emitted /\ 0 \in Nat
    BY DEF Emitted
<1>4. CASE Evaluate(Now, <<Target(CanAssign), Then("GET_PROPERTY", 0)>>)
    <2>1. PICK b \in PlainTasks : b = Then("GET_PROPERTY", 0)
        BY <1>3, PlainTypes
    <2>2. PICK tasks \in Seq(PlainTasks) : tasks = <<a, b>>
        BY PlainSequences
    <2>3. Evaluate(Now, tasks)
        BY <1>2, <1>4, <2>1, <2>2
    <2>. QED  BY <1>1, <2>3, EvaluateSameKeeps
<1>5. CASE Evaluate(Now, <<Target(CanAssign), Expr, Then("SET_PROPERTY", 0)>>)
    <2>1. PICK c \in PlainTasks : c = Then("SET_PROPERTY", 0)
        BY <1>3, PlainTypes
    <2>2. PICK b \in PlainTasks : b = Expr
        BY PlainTypes
    <2>3. PICK tasks \in Seq(PlainTasks) : tasks = <<a, b, c>>
        BY PlainSequences
    <2>4. Evaluate(Now, tasks)
        BY <1>2, <1>5, <2>1, <2>2, <2>3
    <2>. QED  BY <1>1, <2>4, EvaluateSameKeeps
<1>6. ASSUME NEW n \in 0..MaxArgs,
             Evaluate(Now, <<Target(CanAssign)>> \o Append(Arguments(n), Then("INVOKE", n)))
      PROVE  Inv'
    <2>1. n \in Nat
        BY FamilyBounds
    <2>2. PICK b \in PlainTasks : b = Then("INVOKE", n)
        BY <1>3, <2>1, PlainTypes
    <2>3. PICK arguments \in Seq(PlainTasks) : arguments = Append(Arguments(n), b)
        BY <2>1, ArgumentsArePlain, PlainSequences
    <2>4. PICK tasks \in Seq(PlainTasks) : tasks = <<a>> \o arguments
        BY PlainSequences
    <2>5. Evaluate(Now, tasks)
        BY <1>2, <1>6, <2>2, <2>3, <2>4
    <2>. QED  BY <1>1, <2>5, EvaluateSameKeeps
<1>. QED  BY <1>4, <1>5, <1>6 DEF Dot

(* A task of an expression is done.                                        *)
LEMMA ContinueBegins ==
    ASSUME Inv, NEW kind, Doing(kind), NEW s, NEW tasks, Continue(s, tasks)
    PROVE  /\ todo # <<>> /\ Good(Now) /\ Work[1] = Head(Work) /\ Work[1].k = kind
           /\ Work[1] \in Tasks /\ Fits(Current(Now), Work[1]) /\ Onward /\ Becomes(s)
           /\ todo' = Append(Front(todo), tasks \o Tail(Work))
           /\ UNCHANGED <<currentClass, functions, budget>>
<1>1. todo # <<>> /\ Head(Work).k = kind
    BY DEF Doing
<1>2. Good(Now) /\ Work[1] = Head(Work) /\ Work[1] \in Tasks /\ Compiling(Current(Now), Work)
      /\ Work \in Seq(Tasks) /\ Work # <<>>
    BY <1>1, AtWork
<1>3. Fits(Current(Now), Work[1])
    BY <1>2, FrontAndLast DEF Compiling, Pending
<1>4. Becomes(s) /\ todo' = Append(Front(todo), tasks \o Tail(Work))
      /\ UNCHANGED <<currentClass, functions, budget>>
    BY DEF Continue, Walk
<1>. QED  BY <1>1, <1>2, <1>3, <1>4, StaysOnward

LEMMA SuperInvokeKeeps ==
    ASSUME Inv, SuperInvoke
    PROVE  Inv'
<1>1. Doing("superInvoke")
      /\ Continue(Emit(NamedVariable(Now, "super", FALSE), "SUPER_INVOKE", Head(Work).args), <<>>)
    BY DEF SuperInvoke
<1>2. PICK n : n = Head(Work).args
    OBVIOUS
<1>3. PICK name \in VariableNames : name = "super"
    BY DEF VariableNames
<1>4. PICK op \in PlainOperations : op = "SUPER_INVOKE"
    BY DEF PlainOperations, Operations, Calls, Jumping
<1>5. PICK s : s = NamedVariable(Now, name, FALSE)
    OBVIOUS
<1>6. PICK t : t = Emit(s, op, n)
    OBVIOUS
<1>7. PICK tasks \in Seq(PlainTasks) : tasks = <<>>
    BY PlainSequences
<1>8. Doing("superInvoke") /\ Continue(t, tasks)
    BY <1>1, <1>2, <1>3, <1>4, <1>5, <1>6, <1>7
<1>9. /\ todo # <<>> /\ Good(Now) /\ Work[1] = Head(Work) /\ Work[1].k = "superInvoke"
      /\ Work[1] \in Tasks /\ Onward /\ Becomes(t)
      /\ todo' = Append(Front(todo), tasks \o Tail(Work))
    BY <1>8, ContinueBegins
<1>10. n \in Int /\ Work[1].k \in ExprTasks /\ Work[1].k # "patch"
    <2>1. n \in Nat
        BY <1>2, <1>9, TaskTypes
    <2>. QED  BY <1>9, <2>1 DEF ExprTasks
<1>11. GetsWider(Now, s)
    BY <1>5, <1>9, LooksUp
<1>12. Good(s)
    BY <1>11 DEF GetsWider, Follows
<1>13. GetsWider(s, t)
    BY <1>6, <1>10, <1>12, EmitsInPassing
<1>14. GetsWider(Now, t)
    BY <1>9, <1>11, <1>13, GetsWiderOn
<1>. QED  BY <1>9, <1>10, <1>14, ExpressionWider

LEMMA EmitOpKeeps ==
    ASSUME Inv, EmitOp
    PROVE  Inv'
<1>1. Doing("emit") /\ Continue(Emit(Now, Head(Work).op, Head(Work).arg), <<>>)
    BY DEF EmitOp
<1>2. PICK op : op = Head(Work).op
    OBVIOUS
<1>3. PICK n : n = Head(Work).arg
    OBVIOUS
<1>4. PICK t : t = Emit(Now, op, n)
    OBVIOUS
<1>5. PICK tasks \in Seq(PlainTasks) : tasks = <<>>
    BY PlainSequences
<1>6. Doing("emit") /\ Continue(t, tasks)
    BY <1>1, <1>2, <1>3, <1>4, <1>5
<1>7. /\ todo # <<>> /\ Good(Now) /\ Work[1] = Head(Work) /\ Work[1].k = "emit"
      /\ Work[1] \in Tasks /\ Onward /\ Becomes(t)
      /\ todo' = Append(Front(todo), tasks \o Tail(Work))
    BY <1>6, ContinueBegins
<1>8. n \in Int /\ op \in Emitted /\ Work[1].k \in ExprTasks /\ Work[1].k # "patch"
    <2>1. op \in Emitted /\ n \in Nat
        BY <1>2, <1>3, <1>7, TaskTypes
    <2>. QED  BY <1>7, <2>1 DEF ExprTasks
<1>9. op \in PlainOperations
    BY <1>8 DEF Emitted, PlainOperations, Operations, Pops, Keeps, Diverts, Calls, Jumping
<1>10. GetsWider(Now, t)
    BY <1>4, <1>7, <1>8, <1>9, EmitsInPassing
<1>. QED  BY <1>7, <1>8, <1>10, ExpressionWider

(* Tasks that patch the jumps which the code has begun with.               *)
LEMMA PatchTypes ==
    ASSUME NEW jump \in Nat
    PROVE  Patch(jump) \in SimpleTasks /\ JumpsOf(Patch(jump)) = {jump}
           /\ Patch(jump).k = "patch" /\ Patch(jump).jump = jump
<1>1. Patch(jump) \in Tasks /\ Patch(jump).k = "patch" /\ Patch(jump).jump = jump
    BY DEF Patch, Tasks
<1>2. JumpsOf(Patch(jump)) = {Patch(jump).jump}
    BY <1>1, Zenon DEF JumpsOf
<1>. QED  BY <1>1, <1>2 DEF SimpleTasks, ExprTasks

LEMMA PlainJumps ==
    ASSUME NEW t \in PlainTasks
    PROVE  JumpsOf(t) = {} /\ t \in SimpleTasks /\ \A c : Fits(c, t)
<1>1. t \in SimpleTasks /\ t.k # "patch"
    BY DEF PlainTasks
<1>2. t.k \in ExprTasks /\ t.k \notin LoopTasks /\ t.k \notin Based
    BY <1>1, SimpleIsUnmarked
<1>3. JumpsOf(t) = {}
    BY <1>1, <1>2, Zenon DEF JumpsOf, ExprTasks
<1>. QED  BY <1>1, <1>2, <1>3 DEF Fits, ExprTasks

(* An operand and the jump over it, which the code before has left open.   *)
LEMMA OperandKeeps ==
    ASSUME Inv, NEW kind \in {"andJump", "orJump"}, Doing(kind), NEW s,
           GoesOn(Now, s), NEW jump \in 1..Len(Current(s).code),
           \A jumps : WaitFor(Current(Now), jumps) => WaitFor(Current(s), jumps \cup {jump}),
           Continue(s, <<Target(CanAssign), Patch(jump)>>)
    PROVE  Inv'
<1>1. /\ todo # <<>> /\ Good(Now) /\ Work[1] = Head(Work) /\ Work[1].k = kind
      /\ Work[1] \in Tasks /\ Onward /\ Becomes(s)
      /\ todo' = Append(Front(todo), <<Target(CanAssign), Patch(jump)>> \o Tail(Work))
    BY ContinueBegins
<1>2. Follows(Now, s) /\ Good(s) /\ Current(Now) \in Contexts /\ Current(s) \in Contexts
    BY <1>1, CurrentIsFine DEF GoesOn, Follows
<1>3. Grows(Current(Now), Current(s))
    BY <1>2, SteadyGrows DEF GoesOn
<1>4. jump \in Nat
    BY <1>2, ContextTypes
<1>5. CanAssign \in BOOLEAN
    BY <1>1, CanAssignType DEF CanAssign
<1>6. PICK a \in PlainTasks : a = Target(CanAssign)
    BY <1>5, PlainTypes
<1>7. PICK b \in SimpleTasks : b = Patch(jump)
    BY <1>4, PatchTypes
<1>8. PICK tasks : tasks = <<a, b>>
    OBVIOUS
<1>9. a \in SimpleTasks /\ tasks \in Seq(SimpleTasks)
    BY <1>8, PlainJumps
<1>10. Len(tasks) = 2 /\ tasks[1] = a /\ tasks[2] = b
    BY <1>8
<1>11. JumpsOf(a) = {} /\ JumpsOf(b) = {jump} /\ Fits(Current(s), a) /\ b.k = "patch" /\ b.jump = jump
    BY <1>4, <1>7, PlainJumps, PatchTypes
<1>12. Fits(Current(s), b)
    BY <1>11 DEF Fits, LoopTasks, Based
<1>13. \A k \in 1..Len(tasks) : Fits(Current(s), tasks[k])
    BY <1>10, <1>11, <1>12
<1>14. JumpsIn(tasks) = {jump}
    <2>1. \A k \in 1..2 : k = 1 \/ k = 2
        OBVIOUS
    <2>2. JumpsIn(tasks) = JumpsOf(a) \cup JumpsOf(b)
        BY <1>10, <2>1 DEF JumpsIn
    <2>. QED  BY <1>11, <2>2
<1>15. JumpsOf(Work[1]) = {}
    BY <1>1, Zenon DEF JumpsOf
<1>16. ASSUME NEW jumps, WaitFor(Current(Now), jumps \cup JumpsOf(Work[1]))
       PROVE  WaitFor(Current(s), jumps \cup JumpsIn(tasks))
    <2>1. jumps \cup JumpsOf(Work[1]) = jumps
        BY <1>15
    <2>. QED  BY <1>14, <1>16, <2>1
<1>17. Work[1].k \in ExprTasks
    BY <1>1 DEF ExprTasks
<1>18. todo' = Append(Front(todo), tasks \o Tail(Work))
    BY <1>1, <1>6, <1>7, <1>8
<1>. QED  BY <1>1, <1>2, <1>3, <1>9, <1>13, <1>16, <1>17, <1>18, ExpressionKeeps

LEMMA PopsInPassing ==
    ASSUME NEW s, Good(s), NEW t, t = Emit(s, "POP", 0)
    PROVE  /\ GetsWider(s, t) /\ GoesOn(s, t) /\ Good(t)
           /\ Len(Current(t).code) = Len(Current(s).code) + 1
           /\ \A jumps : WaitFor(Current(s), jumps) => WaitFor(Current(t), jumps)
<1>1. PICK op \in Operations : op = "POP"
    BY DEF Operations, Pops
<1>2. op \notin Jumping
    BY <1>1 DEF Jumping
<1>3. t = Emit(s, op, 0)
    BY <1>1
<1>4. GetsWider(s, t) /\ GoesOn(s, t) /\ OneMore(Current(s), Current(t), op, 0, "")
    <2>1. PICK zero \in Int : zero = 0
        OBVIOUS
    <2>2. t = Emit(s, op, zero)
        BY <1>3, <2>1
    <2>3. GetsWider(s, t) /\ GoesOn(s, t) /\ OneMore(Current(s), Current(t), op, zero, "")
        BY <1>2, <2>2, EmitsPlain
    <2>. QED  BY <2>1, <2>3
<1>. QED  BY <1>4 DEF GetsWider, Widens, KeepsJumps, Follows, OneMore

LEMMA AndJumpKeeps ==
    ASSUME Inv, AndJump
    PROVE  Inv'
<1>1. PICK s : s = EmitJump(Now, "JUMP_IF_FALSE")
    OBVIOUS
<1>2. PICK t : t = Emit(s, "POP", 0)
    OBVIOUS
<1>3. PICK jump : jump = Position(s)
    OBVIOUS
<1>4. Doing("andJump") /\ Continue(t, <<Target(CanAssign), Patch(jump)>>)
    BY <1>1, <1>2, <1>3 DEF AndJump
<1>5. Good(Now)
    BY <1>4, ContinueBegins
<1>6. Branches(Now, s, jump) /\ Good(s)
    BY <1>1, <1>3, <1>5, EmitsJump
<1>7. GoesOn(s, t) /\ Good(t) /\ Len(Current(t).code) = Len(Current(s).code) + 1
      /\ \A jumps : WaitFor(Current(s), jumps) => WaitFor(Current(t), jumps)
    BY <1>2, <1>6, PopsInPassing
<1>8. GoesOn(Now, t)
    BY <1>5, <1>6, <1>7, GoesOnOn DEF Branches
<1>9. jump \in 1..Len(Current(t).code)
    <2>1. Len(Current(s).code) \in Nat
        BY <1>6, CurrentIsFine, ContextTypes
    <2>. QED  BY <1>6, <1>7, <2>1 DEF Branches
<1>10. \A jumps : WaitFor(Current(Now), jumps) => WaitFor(Current(t), jumps \cup {jump})
    BY <1>6, <1>7 DEF Branches
<1>. QED  BY <1>4, <1>8, <1>9, <1>10, OperandKeeps

LEMMA OrJumpKeeps ==
    ASSUME Inv, OrJump
    PROVE  Inv'
<1>1. PICK s : s = EmitJump(Now, "JUMP_IF_FALSE")
    OBVIOUS
<1>2. PICK t : t = EmitJump(s, "JUMP")
    OBVIOUS
<1>3. PICK else : else = Position(s)
    OBVIOUS
<1>4. PICK jump : jump = Position(t)
    OBVIOUS
<1>5. PICK p : p = PatchJump(t, else)
    OBVIOUS
<1>6. PICK q : q = Emit(p, "POP", 0)
    OBVIOUS
<1>7. Doing("orJump") /\ Continue(q, <<Target(CanAssign), Patch(jump)>>)
    BY <1>1, <1>2, <1>3, <1>4, <1>5, <1>6 DEF OrJump
<1>8. Good(Now)
    BY <1>7, ContinueBegins
<1>9. Branches(Now, s, else) /\ Good(s)
    BY <1>1, <1>3, <1>8, EmitsJump
<1>10. Branches(s, t, jump) /\ Good(t)
    BY <1>2, <1>4, <1>9, EmitsJump
<1>11. Len(Current(s).code) \in Nat
    BY <1>9, CurrentIsFine, ContextTypes
<1>12. else \in 1..Len(Current(t).code)
    BY <1>9, <1>10, <1>11 DEF Branches
<1>13. GoesOn(t, p) /\ Good(p) /\ Len(Current(p).code) = Len(Current(t).code)
       /\ \A jumps, less : WaitFor(Current(t), jumps) /\ jumps \subseteq less \cup {else} =>
            WaitFor(Current(p), less)
    BY <1>5, <1>10, <1>12, LandsHere
<1>14. GoesOn(p, q) /\ Good(q) /\ Len(Current(q).code) = Len(Current(p).code) + 1
       /\ \A jumps : WaitFor(Current(p), jumps) => WaitFor(Current(q), jumps)
    BY <1>6, <1>13, PopsInPassing
<1>15. GoesOn(Now, q)
    <2>1. GoesOn(Now, t)
        BY <1>8, <1>9, <1>10, GoesOnOn DEF Branches
    <2>2. GoesOn(Now, p)
        BY <1>8, <2>1, <1>13, GoesOnOn
    <2>. QED  BY <1>8, <2>2, <1>14, GoesOnOn
<1>16. jump \in 1..Len(Current(q).code)
    <2>1. Len(Current(t).code) \in Nat
        BY <1>10, CurrentIsFine, ContextTypes
    <2>. QED  BY <1>10, <1>13, <1>14, <2>1 DEF Branches
<1>17. ASSUME NEW jumps, WaitFor(Current(Now), jumps)
       PROVE  WaitFor(Current(q), jumps \cup {jump})
    <2>1. WaitFor(Current(t), (jumps \cup {else}) \cup {jump})
        BY <1>9, <1>10, <1>17 DEF Branches
    <2>2. WaitFor(Current(p), jumps \cup {jump})
        BY <1>13, <2>1
    <2>. QED  BY <1>14, <2>2
<1>. QED  BY <1>7, <1>15, <1>16, <1>17, OperandKeeps

LEMMA PatchForwardKeeps ==
    ASSUME Inv, PatchForward
    PROVE  Inv'
<1>1. PICK jump : jump = Head(Work).jump
    OBVIOUS
<1>2. PICK s : s = PatchJump(Now, jump)
    OBVIOUS
<1>none. <<>> \in Seq(SimpleTasks)
    OBVIOUS
<1>3. PICK tasks \in Seq(SimpleTasks) : tasks = <<>>
    BY <1>none
<1>4. Doing("patch") /\ Continue(s, tasks)
    BY <1>1, <1>2, <1>3 DEF PatchForward
<1>5. /\ todo # <<>> /\ Good(Now) /\ Work[1] = Head(Work) /\ Work[1].k = "patch"
      /\ Fits(Current(Now), Work[1]) /\ Onward /\ Becomes(s)
      /\ todo' = Append(Front(todo), tasks \o Tail(Work))
    BY <1>4, ContinueBegins
<1>6. jump \in 1..Len(Current(Now).code)
    BY <1>1, <1>5 DEF Fits
<1>7. GoesOn(Now, s) /\ Good(s) /\ GetsWider(Now, s)
      /\ \A jumps, less : WaitFor(Current(Now), jumps) /\ jumps \subseteq less \cup {jump} =>
            WaitFor(Current(s), less)
    BY <1>2, <1>5, <1>6, LandsHere
<1>8. Follows(Now, s) /\ Grows(Current(Now), Current(s))
    BY <1>7, WidensGrows DEF GetsWider
<1>9. Work[1].k \in ExprTasks
    BY <1>5 DEF ExprTasks
<1>10. JumpsOf(Work[1]) = {jump}
    <2>1. JumpsOf(Work[1]) = {Work[1].jump}
        BY <1>5, Zenon DEF JumpsOf
    <2>. QED  BY <1>1, <1>5, <2>1
<1>11. ASSUME NEW jumps, WaitFor(Current(Now), jumps \cup JumpsOf(Work[1]))
       PROVE  WaitFor(Current(s), jumps \cup JumpsIn(tasks))
    BY <1>7, <1>10, <1>11
<1>12. \A k \in 1..Len(tasks) : Fits(Current(s), tasks[k])
    BY <1>3
<1>. QED  BY <1>5, <1>8, <1>9, <1>11, <1>12, ExpressionKeeps
-----------------------------------------------------------------------------
(* Statements.                                                             *)

Rest == IF Doing("stats") THEN Work ELSE Tail(Work)

(* What may be left to do behind a statement.                              *)
Strict == {"methods", "forIter", "endClass"}
Waiting == AfterExprs \cup Strict \cup {"forCond"}
Resting(r) == \A i \in 1..Len(r) : r[i].k \notin Waiting
Outside(r, base) == \A i \in 1..Len(r) : r[i].k \in Based => Base(r[i]) <= base

LEMMA StatementBegins ==
    ASSUME Inv, AtStatement
    PROVE  /\ todo # <<>> /\ Good(Now) /\ Work # <<>>
           /\ Midway(Current(Now), Rest, Last(Work), 0, 0, {}) /\ Rest \in Seq(Tasks)
           /\ OpenLoop(Rest, 0, Current(Now).last_continue)
           /\ Resting(Rest) /\ Outside(Rest, Len(Current(Now).visible))
<1>1. todo # <<>> /\ Head(Work).k \in {"stats", "stat"}
    BY DEF AtStatement, Doing
<1>2. /\ Good(Now) /\ Work \in Seq(Tasks) /\ Work # <<>> /\ Head(Work) = Work[1]
      /\ Work[1] \in Tasks /\ Compiling(Current(Now), Work)
    BY <1>1, AtWork
<1>. DEFINE c == Current(Now)
            w == Work
            h == w[1]
            end == Last(w)
<1>3. h.k \in {"stats", "stat"} /\ h.k # "endFunction"
    BY <1>1, <1>2
<1>4. One(h, ScopeTasks) = 0 /\ One(h, LoopEndTasks) = 0 /\ \A p : ~StartsAt(h, p)
    BY <1>3 DEF One, ScopeTasks, LoopEndTasks, LoopEnds, ForTasks, StartsAt
<1>5. JumpsOf(h) = {}
    BY <1>3, Zenon DEF JumpsOf
<1>6. ASSUME NEW x, Before(h, x)
      PROVE  x.k \notin Waiting
    BY <1>3, <1>6 DEF Before, Strict, ExprTasks, Waiting
<1>7. Compiling(c, w) /\ Pending(c, w) /\ Fine(c) /\ Counted(c, w)
    BY <1>2 DEF Compiling
<1>8. CASE h.k = "stats"
    <2>1. Rest = w
        BY <1>1, <1>2, <1>8 DEF Rest, Doing
    <2>2. Midway(c, w, end, 0, 0, {})
        <3>1. Cardinality(Marked(w, ScopeTasks)) \in Nat /\ Cardinality(Marked(w, LoopEndTasks)) \in Nat
            BY <1>7, MarksAreNat
        <3>2. Outermost(c) \in Nat
            BY DEF Outermost
        <3>3. JumpsIn(w) \cup {} = JumpsIn(w)
            OBVIOUS
        <3>. QED  BY <1>7, <3>1, <3>2, <3>3 DEF Midway, Counted, Compiling
    <2>3. ASSUME NEW i \in 1..Len(w)
          PROVE  w[i].k \notin Waiting
        <3>1. CASE i = 1
            BY <1>8, <3>1 DEF AfterExprs, Strict, Waiting
        <3>2. CASE i # 1
            <4>1. 1 \in 1..i - 1
                BY <3>2
            <4>2. Before(h, w[i])
                BY <1>7, <4>1 DEF Pending
            <4>. QED  BY <4>2, <1>6
        <3>. QED  BY <3>1, <3>2
    <2>4. Outside(w, Len(c.visible))
        BY <1>7 DEF Pending, Outside, Fits
    <2>. QED  BY <1>1, <1>2, <2>1, <2>2, <2>3, <2>4 DEF Resting, Compiling
<1>9. CASE h.k = "stat"
    <2>1. PICK r : r = Tail(w)
        OBVIOUS
    <2>2. Rest = r
        BY <1>1, <1>2, <1>9, <2>1 DEF Rest, Doing
    <2>3. /\ Midway(c, r, end, One(h, ScopeTasks), One(h, LoopEndTasks), JumpsOf(h))
          /\ \A i \in 1..Len(r) : Before(h, r[i])
          /\ \A p : OpenLoop(w, 0, p) /\ ~StartsAt(h, p) => OpenLoop(r, 0, p)
        <3>. HIDE DEF c, w
        <3>. QED  BY <1>3, <1>7, <2>1, Starts
    <2>4. Midway(c, r, end, 0, 0, {})
        BY <2>3, <1>4, <1>5
    <2>5. OpenLoop(w, 0, c.last_continue) /\ Pending(c, r)
        BY <1>7, <2>4 DEF Compiling, Midway
    <2>6. Outside(r, Len(c.visible)) /\ r \in Seq(Tasks)
        BY <2>5 DEF Pending, Outside, Fits
    <2>7. Resting(r)
        BY <2>3, <1>6 DEF Resting
    <2>8. OpenLoop(r, 0, c.last_continue)
        BY <2>3, <2>5, <1>4
    <2>. QED  BY <1>1, <1>2, <2>2, <2>4, <2>6, <2>7, <2>8
<1>. QED  BY <1>3, <1>8, <1>9

LEMMA StatementKeeps ==
    ASSUME Inv, AtStatement, Advances, NEW s, NEW tasks, Statement(s, tasks), Follows(Now, s),
           NEW u, u = tasks \o Rest, Midway(Current(s), u, Last(Work), 0, 0, {}),
           OpenLoop(u, 0, Current(s).last_continue), Current(s).type = Current(Now).type
    PROVE  Inv'
<1>1. Becomes(s) /\ todo' = Append(Front(todo), u) /\ UNCHANGED <<currentClass, functions>>
    BY DEF Statement, Walk, Rest
<1>2. todo # <<>>
    BY StatementBegins
<1>3. Onward
    BY <1>1, StaysOnward DEF Advances
<1>. QED  BY <1>1, <1>2, <1>3, WalkKeeps

LEMMA BareStatementKeeps ==
    ASSUME Inv, AtStatement, Advances, NEW s, GetsWider(Now, s), Statement(s, <<>>)
    PROVE  Inv'
<1>. DEFINE end == Last(Work)
            u == <<>> \o Rest
            none == 0
            empty == {}
<1>1. Good(Now) /\ Midway(Current(Now), Rest, end, none, none, empty)
      /\ none \in Int /\ OpenLoop(Rest, 0, Current(Now).last_continue) /\ Rest \in Seq(Tasks)
    BY StatementBegins
<1>2. Follows(Now, s) /\ Widens(Current(Now), Current(s)) /\ Fine(Current(s))
    BY CurrentIsFine DEF GetsWider, Follows
<1>3. Midway(Current(s), Rest, end, none, none, empty)
    <2>. HIDE DEF none, empty, end
    <2>. QED  BY <1>1, <1>2, MovesWider
<1>4. u = Rest
    BY <1>1
<1>5. Current(s).type = Current(Now).type /\ Current(s).last_continue = Current(Now).last_continue
    BY <1>2 DEF Widens, SameLoops
<1>6. Midway(Current(s), u, end, 0, 0, {}) /\ OpenLoop(u, 0, Current(s).last_continue)
    BY <1>1, <1>3, <1>4, <1>5
<1>. HIDE DEF u
<1>7. u = <<>> \o Rest
    BY DEF u
<1>. QED  BY <1>2, <1>5, <1>6, <1>7, StatementKeeps

(* Before the rest of the statements any task of a statement may come.     *)
LEMMA BeforeResting ==
    ASSUME NEW t, t.k # "endFunction", NEW r, Resting(r),
           \A i \in 1..Len(r) : t.k \in Based /\ r[i].k \in Based => Base(r[i]) <= Base(t)
    PROVE  \A i \in 1..Len(r) : Before(t, r[i])
BY DEF Resting, Before, Strict, Waiting

(* An expression is compiled first, for the task that waits for its value. *)
LEMMA ExprInFront ==
    ASSUME NEW c, NEW r, NEW end, NEW scopes \in Int, NEW loops \in Int, NEW jumps,
           Midway(c, r, end, scopes, loops, jumps), NEW t, Pushable(c, t, r), t.k \notin Strict,
           \A i \in 1..Len(r) : r[i].k \notin Strict,
           NEW now, jumps \subseteq JumpsOf(t) \cup now, NEW u, u = <<Expr, t>> \o r
    PROVE  /\ Midway(c, u, end, scopes - One(t, ScopeTasks), loops - One(t, LoopEndTasks), now)
           /\ \A p : OpenLoop(r, 0, p) => OpenLoop(u, 0, p)
           /\ \A p : StartsAt(t, p) => OpenLoop(u, 0, p)
<1>1. Pending(c, r) /\ r \in Seq(Tasks) /\ t \in Tasks
    BY DEF Midway, Pending, Pushable
<1>2. PICK e \in PlainTasks : e = Expr
    BY PlainTypes
<1>3. PICK v : v = Ahead(t, r)
    OBVIOUS
<1>4. PICK x \in Int : x = scopes - One(t, ScopeTasks)
    BY DEF One
<1>5. PICK y \in Int : y = loops - One(t, LoopEndTasks)
    BY DEF One
<1>6. e \in SimpleTasks /\ e.k \in ExprTasks /\ \A d : Fits(d, e)
    BY <1>2, PlainJumps DEF SimpleTasks
<1>7. e \in Tasks /\ e \notin ScopeTasks /\ e \notin LoopEndTasks
      /\ e.k \notin LoopTasks /\ e.k \notin Based /\ e.k # "endFunction"
    BY <1>6, SimpleIsUnmarked
<1>8. ASSUME NEW x1, x1.k \notin Strict
      PROVE  Before(e, x1)
    BY <1>6, <1>7, <1>8 DEF Before, Strict
<1>9. /\ Midway(c, v, end, x, y, now)
      /\ \A p : OpenLoop(r, 0, p) => OpenLoop(v, 0, p)
      /\ \A p : StartsAt(t, p) => OpenLoop(v, 0, p)
      /\ \A d : Before(d, t) /\ (\A i \in 1..Len(r) : Before(d, r[i])) =>
            \A i \in 1..Len(v) : Before(d, v[i])
    BY <1>3, <1>4, <1>5, PutsInFront
<1>10. \A i \in 1..Len(v) : Before(e, v[i])
    BY <1>8, <1>9
<1>11. Pushable(c, e, v)
    BY <1>6, <1>7, <1>10 DEF Pushable
<1>12. u = Ahead(e, v)
    BY <1>1, <1>2, <1>3, <1>7, TwoInFront
<1>13. /\ Midway(c, u, end, x - One(e, ScopeTasks), y - One(e, LoopEndTasks), now)
       /\ \A p : OpenLoop(v, 0, p) => OpenLoop(u, 0, p)
    <2>1. now \subseteq JumpsOf(e) \cup now
        OBVIOUS
    <2>. QED  BY <1>9, <1>11, <1>12, <2>1, PutsInFront
<1>14. x - One(e, ScopeTasks) = x /\ y - One(e, LoopEndTasks) = y
    BY <1>7 DEF One
<1>15. Midway(c, u, end, x, y, now)
    BY <1>13, <1>14
<1>. QED  BY <1>4, <1>5, <1>9, <1>13, <1>15

LEMMA ExprStatementKeeps ==
    ASSUME Inv, AtStatement, Advances, NEW s, GetsWider(Now, s),
           NEW t \in Tasks, Fits(Current(s), t), t.k \in {"emit", "define", "ifThen"},
           Statement(s, <<Expr, t>>)
    PROVE  Inv'
<1>. DEFINE end == Last(Work)
            u == <<Expr, t>> \o Rest
            none == 0
            empty == {}
            c == Current(s)
<1>1. Good(Now) /\ Midway(Current(Now), Rest, end, none, none, empty)
      /\ none \in Int /\ OpenLoop(Rest, 0, Current(Now).last_continue) /\ Rest \in Seq(Tasks)
      /\ Resting(Rest)
    BY StatementBegins
<1>2. Follows(Now, s) /\ Widens(Current(Now), c) /\ Fine(c)
    BY CurrentIsFine DEF GetsWider, Follows
<1>3. Midway(c, Rest, end, none, none, empty)
    <2>. HIDE DEF none, empty, end, c
    <2>. QED  BY <1>1, <1>2, MovesWider
<1>4. t.k # "endFunction" /\ t.k \notin LoopTasks /\ t.k \notin Based /\ t.k \notin Strict
      /\ t \notin ScopeTasks /\ t \notin LoopEndTasks
    BY DEF LoopTasks, Based, Strict, ScopeTasks, LoopEndTasks, LoopEnds, ForTasks
<1>5. Pushable(c, t, Rest)
    BY <1>1, <1>4, BeforeResting DEF Pushable
<1>6. \A i \in 1..Len(Rest) : Rest[i].k \notin Strict
    BY <1>1 DEF Resting, Waiting
<1>7. /\ Midway(c, u, end, none - One(t, ScopeTasks), none - One(t, LoopEndTasks), empty)
      /\ \A p : OpenLoop(Rest, 0, p) => OpenLoop(u, 0, p)
    <2>1. empty \subseteq JumpsOf(t) \cup empty
        OBVIOUS
    <2>2. u = <<Expr, t>> \o Rest
        OBVIOUS
    <2>. HIDE DEF none, empty, end, c, u
    <2>. QED  BY <1>1, <1>3, <1>4, <1>5, <1>6, <2>1, <2>2, ExprInFront
<1>8. Midway(c, u, end, 0, 0, {})
    <2>1. One(t, ScopeTasks) = 0 /\ One(t, LoopEndTasks) = 0
        BY <1>4 DEF One
    <2>2. none - One(t, ScopeTasks) = 0 /\ none - One(t, LoopEndTasks) = 0
        BY <2>1
    <2>. HIDE DEF none, c, u, end
    <2>. QED  BY <1>7, <2>2
<1>9. c.type = Current(Now).type /\ c.last_continue = Current(Now).last_continue
    BY <1>2 DEF Widens, SameLoops
<1>10. OpenLoop(u, 0, c.last_continue)
    BY <1>1, <1>7, <1>9
<1>. HIDE DEF u
<1>11. u = <<Expr, t>> \o Rest
    BY DEF u
<1>. QED  BY <1>2, <1>8, <1>9, <1>10, <1>11, StatementKeeps

LEMMA SimpleNodeBegins ==
    ASSUME NEW kind, SimpleNode(kind)
    PROVE  AtStatement /\ Advances
BY DEF SimpleNode, AtStatement, Advances, Node

LEMMA ThenTask ==
    ASSUME NEW op \in Emitted
    PROVE  Then(op, 0) \in Tasks /\ Then(op, 0).k = "emit" /\ \A c : Fits(c, Then(op, 0))
<1>1. PICK n \in Nat : n = 0
    OBVIOUS
<1>2. Then(op, n) \in PlainTasks
    BY PlainTypes
<1>3. Then(op, n) \in Tasks /\ \A c : Fits(c, Then(op, n))
    BY <1>2, PlainJumps DEF SimpleTasks
<1>4. Then(op, n).k = "emit"
    BY DEF Then
<1>. QED  BY <1>1, <1>3, <1>4

LEMMA WidensSelf ==
    ASSUME NEW s, Good(s)
    PROVE  GetsWider(s, s)
BY FollowsSelf, SteadyWidens DEF KeepsJumps

LEMMA PrintStatementKeeps ==
    ASSUME Inv, PrintStatement
    PROVE  Inv'
<1>1. AtStatement /\ Advances /\ Statement(Now, <<Expr, Then("PRINT", 0)>>)
    BY SimpleNodeBegins DEF PrintStatement
<1>2. PICK op \in Emitted : op = "PRINT"
    BY DEF Emitted
<1>3. PICK t : t = Then(op, 0)
    OBVIOUS
<1>4. Statement(Now, <<Expr, t>>)
    BY <1>1, <1>2, <1>3
<1>5. t \in Tasks /\ t.k \in {"emit", "define", "ifThen"} /\ Fits(Current(Now), t)
    BY <1>3, ThenTask
<1>6. GetsWider(Now, Now)
    BY <1>1, StatementBegins, WidensSelf
<1>. QED  BY <1>1, <1>4, <1>5, <1>6, ExprStatementKeeps

LEMMA ExpressionStatementKeeps ==
    ASSUME Inv, ExprStatement
    PROVE  Inv'
<1>1. AtStatement /\ Advances /\ Statement(Now, <<Expr, Then("POP", 0)>>)
    BY SimpleNodeBegins DEF ExprStatement
<1>2. PICK op \in Emitted : op = "POP"
    BY DEF Emitted
<1>3. PICK t : t = Then(op, 0)
    OBVIOUS
<1>4. Statement(Now, <<Expr, t>>)
    BY <1>1, <1>2, <1>3
<1>5. t \in Tasks /\ t.k \in {"emit", "define", "ifThen"} /\ Fits(Current(Now), t)
    BY <1>3, ThenTask
<1>6. GetsWider(Now, Now)
    BY <1>1, StatementBegins, WidensSelf
<1>. QED  BY <1>1, <1>4, <1>5, <1>6, ExprStatementKeeps

LEMMA ReturnStatementKeeps ==
    ASSUME Inv, ReturnStatement
    PROVE  Inv'
<1>1. AtStatement /\ Advances
    BY SimpleNodeBegins DEF ReturnStatement
<1>2. Good(Now)
    BY <1>1, StatementBegins
<1>3. PICK outside \in Errors : outside = "Can't return from top-level code"
    BY DEF Errors
<1>4. PICK value \in Errors : value = "Can't return a value from an initializer"
    BY DEF Errors
<1>5. PICK s : s = FailIf(Now, Current(Now).type = "script", outside)
    OBVIOUS
<1>6. PICK t : t = FailIf(s, Current(Now).type = "initializer", value)
    OBVIOUS
<1>7. PICK r : r = EmitReturn(s)
    OBVIOUS
<1>8. Statement(r, <<>>) \/ Statement(t, <<Expr, Then("RETURN", 0)>>)
    BY <1>3, <1>4, <1>5, <1>6, <1>7 DEF ReturnStatement
<1>9. Good(s) /\ GetsWider(Now, s)
    BY <1>2, <1>5, FailedWidens
<1>10. CASE Statement(r, <<>>)
    <2>1. GetsWider(s, r)
        BY <1>7, <1>9, Returns
    <2>2. GetsWider(Now, r)
        BY <1>2, <1>9, <2>1, GetsWiderOn
    <2>. QED  BY <1>1, <1>10, <2>2, BareStatementKeeps
<1>11. CASE Statement(t, <<Expr, Then("RETURN", 0)>>)
    <2>1. GetsWider(s, t)
        BY <1>6, <1>9, FailedWidens
    <2>2. GetsWider(Now, t)
        BY <1>2, <1>9, <2>1, GetsWiderOn
    <2>3. PICK op \in Emitted : op = "RETURN"
        BY DEF Emitted
    <2>4. PICK task : task = Then(op, 0)
        OBVIOUS
    <2>5. Statement(t, <<Expr, task>>)
        BY <1>11, <2>3, <2>4
    <2>6. task \in Tasks /\ task.k \in {"emit", "define", "ifThen"} /\ Fits(Current(t), task)
        BY <2>4, ThenTask
    <2>. QED  BY <1>1, <2>2, <2>5, <2>6, ExprStatementKeeps
<1>. QED  BY <1>8, <1>10, <1>11

LEMMA IfStatementKeeps ==
    ASSUME Inv, IfStatement
    PROVE  Inv'
<1>1. AtStatement /\ Advances /\ Statement(Now, <<Expr, Task("ifThen")>>)
    BY DEF IfStatement, Node, Advances
<1>2. PICK t : t = Task("ifThen")
    OBVIOUS
<1>3. t \in Tasks /\ t.k = "ifThen"
    BY <1>2 DEF Task, Tasks
<1>4. t.k \in {"emit", "define", "ifThen"} /\ Fits(Current(Now), t)
    BY <1>3 DEF Fits, LoopTasks, Based
<1>5. GetsWider(Now, Now)
    BY <1>1, StatementBegins, WidensSelf
<1>6. Statement(Now, <<Expr, t>>)
    BY <1>1, <1>2
<1>. QED  BY <1>1, <1>3, <1>4, <1>5, <1>6, ExprStatementKeeps

(* The variable x is declared, and defined behind its value.               *)
LEMMA DefineTask ==
    ASSUME NEW x \in Names
    PROVE  /\ Define(x) \in Tasks /\ Define(x).k = "define"
           /\ \A c : CanDefine(c) => Fits(c, Define(x))
<1>1. Define(x) \in Tasks /\ Define(x).k = "define"
    BY DEF Define, Tasks
<1>. QED  BY <1>1 DEF Fits, LoopTasks, Based

(* With no value it is nil.                                                *)
LEMMA DefinesNil ==
    ASSUME NEW s, Good(s), CanDefine(Current(s)), NEW x \in VariableNames,
           NEW t, t = DefineVariable(Emit(s, "NIL", 0), x)
    PROVE  GetsWider(s, t)
<1>1. PICK op \in PlainOperations : op = "NIL"
    BY DEF PlainOperations, Operations, Pushes, Jumping
<1>2. PICK e : e = Emit(s, op, 0)
    OBVIOUS
<1>3. GetsWider(s, e) /\ Good(e)
    BY <1>2, EmitsInPassing
<1>4. CanDefine(Current(e))
    BY <1>3, CurrentIsFine, CanStillDefine DEF GetsWider
<1>5. t = DefineVariable(e, x)
    BY <1>1, <1>2
<1>6. GetsWider(e, t)
    BY <1>3, <1>4, <1>5, Defines
<1>. QED  BY <1>3, <1>6, GetsWiderOn

LEMMA VarDeclarationKeeps ==
    ASSUME Inv, VarDeclaration
    PROVE  Inv'
<1>1. AtStatement /\ Advances
    BY DEF VarDeclaration, AtStatement, Node, Advances
<1>2. PICK x \in Identifiers :
        \/ Statement(DeclareVariable(Now, x), <<Expr, Define(x)>>)
        \/ Statement(DefineVariable(Emit(DeclareVariable(Now, x), "NIL", 0), x), <<>>)
    BY DEF VarDeclaration
<1>3. Good(Now) /\ x \in Names /\ x \in VariableNames
    BY <1>1, StatementBegins, FamilyBounds
<1>4. PICK s : s = DeclareVariable(Now, x)
    OBVIOUS
<1>5. GetsWider(Now, s) /\ CanDefine(Current(s))
    BY <1>3, <1>4, DeclaresOne
<1>6. Good(s)
    BY <1>5 DEF GetsWider, Follows
<1>7. CASE Statement(s, <<Expr, Define(x)>>)
    <2>1. PICK t : t = Define(x)
        OBVIOUS
    <2>2. t \in Tasks /\ t.k \in {"emit", "define", "ifThen"} /\ Fits(Current(s), t)
        BY <1>3, <1>5, <2>1, DefineTask
    <2>3. Statement(s, <<Expr, t>>)
        BY <1>7, <2>1
    <2>. QED  BY <1>1, <1>5, <2>2, <2>3, ExprStatementKeeps
<1>8. ASSUME NEW t, t = DefineVariable(Emit(s, "NIL", 0), x), Statement(t, <<>>)
      PROVE  Inv'
    <2>1. GetsWider(s, t)
        BY <1>3, <1>5, <1>6, <1>8, DefinesNil
    <2>2. GetsWider(Now, t)
        BY <1>3, <1>5, <2>1, GetsWiderOn
    <2>. QED  BY <1>1, <1>8, <2>2, BareStatementKeeps
<1>. QED  BY <1>2, <1>4, <1>7, <1>8
-----------------------------------------------------------------------------
(* The rest of a statement.                                                *)

LEMMA TaskBegins ==
    ASSUME Inv, NEW kind, Doing(kind), kind # "endFunction", NEW h, h = Work[1],
           NEW r, r = Tail(Work)
    PROVE  /\ Good(Now) /\ Head(Work) = h /\ h.k = kind /\ h \in Tasks
           /\ Fits(Current(Now), h) /\ r \in Seq(Tasks) /\ todo # <<>>
           /\ Midway(Current(Now), r, Last(Work), One(h, ScopeTasks), One(h, LoopEndTasks), JumpsOf(h))
           /\ \A i \in 1..Len(r) : Before(h, r[i])
           /\ Outside(r, Len(Current(Now).visible))
           /\ (~StartsAt(h, Current(Now).last_continue) => OpenLoop(r, 0, Current(Now).last_continue))
           /\ (h.k \in LoopTasks => OpenLoop(r, 0, h.loop.saved.continue))
<1>1. todo # <<>> /\ Head(Work).k = kind
    BY DEF Doing
<1>2. PICK w : w = Work
    OBVIOUS
<1>3. PICK c : c = Current(Now)
    OBVIOUS
<1>4. /\ Good(Now) /\ w \in Seq(Tasks) /\ w # <<>> /\ Head(w) = w[1]
      /\ w[1] \in Tasks /\ Compiling(c, w) /\ h = w[1] /\ h.k = kind /\ r = Tail(w)
    BY <1>1, <1>2, <1>3, AtWork
<1>5. h.k # "endFunction"
    BY <1>4
<1>6. /\ Midway(c, r, Last(w), One(h, ScopeTasks), One(h, LoopEndTasks), JumpsOf(h))
      /\ h \in Tasks /\ Fits(c, h) /\ \A i \in 1..Len(r) : Before(h, r[i])
      /\ \A p : OpenLoop(w, 0, p) /\ ~StartsAt(h, p) => OpenLoop(r, 0, p)
      /\ h.k \in LoopTasks => OpenLoop(r, 0, h.loop.saved.continue)
    BY <1>4, <1>5, Starts
<1>7. OpenLoop(w, 0, c.last_continue)
    BY <1>4 DEF Compiling
<1>8. Outside(r, Len(c.visible)) /\ r \in Seq(Tasks)
    BY <1>6 DEF Midway, Pending, Outside, Fits
<1>9. ~StartsAt(h, c.last_continue) => OpenLoop(r, 0, c.last_continue)
    BY <1>6, <1>7
<1>. QED  BY <1>1, <1>2, <1>3, <1>4, <1>6, <1>8, <1>9

LEMMA ContinueKeeps ==
    ASSUME Inv, NEW kind, Doing(kind), NEW s, NEW tasks, Continue(s, tasks), Follows(Now, s),
           NEW u, u = tasks \o Tail(Work), Midway(Current(s), u, Last(Work), 0, 0, {}),
           OpenLoop(u, 0, Current(s).last_continue), Current(s).type = Current(Now).type
    PROVE  Inv'
<1>1. todo # <<>> /\ Onward /\ Becomes(s) /\ todo' = Append(Front(todo), u)
    BY ContinueBegins
<1>. QED  BY <1>1, WalkKeeps

LEMMA DoneKeeps ==
    ASSUME Inv, NEW kind, Doing(kind), NEW s, Continue(s, <<>>), Follows(Now, s),
           NEW r, r = Tail(Work), Midway(Current(s), r, Last(Work), 0, 0, {}),
           OpenLoop(r, 0, Current(s).last_continue), Current(s).type = Current(Now).type
    PROVE  Inv'
<1>1. r \in Seq(Tasks)
    BY DEF Midway, Pending
<1>2. r = <<>> \o Tail(Work)
    BY <1>1
<1>. QED  BY <1>2, ContinueKeeps

LEMMA Uncounted ==
    ASSUME NEW h, h.k \notin ForTasks \cup {"endScope", "endClass"}, h.k \notin LoopEnds
    PROVE  One(h, ScopeTasks) = 0 /\ One(h, LoopEndTasks) = 0
BY DEF One, ScopeTasks, LoopEndTasks

LEMMA PlainlyDoneKeeps ==
    ASSUME Inv, NEW kind, Doing(kind), kind \in {"stats", "define", "methods"},
           NEW s, GetsWider(Now, s), Continue(s, <<>>)
    PROVE  Inv'
<1>1. PICK h : h = Work[1]
    OBVIOUS
<1>2. PICK r : r = Tail(Work)
    OBVIOUS
<1>3. PICK c : c = Current(Now)
    OBVIOUS
<1>4. PICK end : end = Last(Work)
    OBVIOUS
<1>5. kind # "endFunction"
    OBVIOUS
<1>6. /\ h.k = kind /\ Midway(c, r, end, One(h, ScopeTasks), One(h, LoopEndTasks), JumpsOf(h))
      /\ (~StartsAt(h, c.last_continue) => OpenLoop(r, 0, c.last_continue))
    BY <1>1, <1>2, <1>3, <1>4, <1>5, TaskBegins
<1>7. One(h, ScopeTasks) = 0 /\ One(h, LoopEndTasks) = 0 /\ ~StartsAt(h, c.last_continue)
    BY <1>6, Uncounted DEF ForTasks, LoopEnds, StartsAt
<1>8. JumpsOf(h) = {}
    BY <1>6, Zenon DEF JumpsOf
<1>9. PICK d : d = Current(s)
    OBVIOUS
<1>10. Follows(Now, s) /\ Widens(c, d) /\ Fine(d)
    BY <1>3, <1>9, CurrentIsFine DEF GetsWider, Follows
<1>11. Midway(d, r, end, 0, 0, {})
    <2>1. PICK none \in Int : none = 0
        OBVIOUS
    <2>2. PICK empty : empty = {}
        OBVIOUS
    <2>3. Midway(c, r, end, none, none, empty)
        BY <1>6, <1>7, <1>8, <2>1, <2>2
    <2>4. Midway(d, r, end, none, none, empty)
        BY <1>10, <2>3, MovesWider
    <2>. QED  BY <2>1, <2>2, <2>4
<1>12. OpenLoop(r, 0, d.last_continue) /\ d.type = c.type
    BY <1>6, <1>7, <1>10 DEF Widens, SameLoops
<1>. QED  BY <1>2, <1>3, <1>4, <1>9, <1>10, <1>11, <1>12, DoneKeeps

LEMMA EndDeclarationKeeps ==
    ASSUME Inv, EndDeclaration
    PROVE  Inv'
<1>1. PICK name : name = Head(Work).name
    OBVIOUS
<1>2. PICK s : s = DefineVariable(Now, name)
    OBVIOUS
<1>3. Doing("define") /\ Continue(s, <<>>)
    BY <1>1, <1>2 DEF EndDeclaration
<1>4. Good(Now) /\ Work[1] = Head(Work) /\ Work[1] \in Tasks /\ Work[1].k = "define"
      /\ Fits(Current(Now), Work[1])
    BY <1>3, ContinueBegins
<1>5. name \in VariableNames
    BY <1>1, <1>4, TaskTypes DEF VariableNames
<1>6. CanDefine(Current(Now))
    BY <1>4 DEF Fits
<1>7. GetsWider(Now, s)
    BY <1>2, <1>4, <1>5, <1>6, Defines
<1>8. PICK kind \in {"stats", "define", "methods"} : kind = "define"
    OBVIOUS
<1>9. Doing(kind)
    BY <1>3, <1>8
<1>. QED  BY <1>3, <1>7, <1>9, PlainlyDoneKeeps

LEMMA EndOfBlockKeeps ==
    ASSUME Inv, EndOfBlock
    PROVE  Inv'
<1>1. PICK kind \in {"stats", "define", "methods"} : kind = "stats"
    OBVIOUS
<1>2. Doing(kind) /\ Continue(Now, <<>>)
    BY <1>1 DEF EndOfBlock
<1>3. GetsWider(Now, Now)
    BY <1>2, ContinueBegins, WidensSelf
<1>. QED  BY <1>2, <1>3, PlainlyDoneKeeps

LEMMA EndOfMethodsKeeps ==
    ASSUME Inv, EndOfMethods
    PROVE  Inv'
<1>1. PICK kind \in {"stats", "define", "methods"} : kind = "methods"
    OBVIOUS
<1>2. Doing(kind) /\ Continue(Now, <<>>)
    BY <1>1 DEF EndOfMethods
<1>3. GetsWider(Now, Now)
    BY <1>2, ContinueBegins, WidensSelf
<1>. QED  BY <1>2, <1>3, PlainlyDoneKeeps

(* Behind the last task of a block, of a branch or of a loop no expression *)
(* waits.                                                                  *)
LEMMA RestsBehind ==
    ASSUME NEW h, h.k \notin ExprTasks \cup {"define", "methods"},
           NEW r, \A i \in 1..Len(r) : Before(h, r[i])
    PROVE  /\ Resting(r) /\ \A i \in 1..Len(r) : r[i].k # "define"
           /\ (h.k \in Based => Outside(r, Base(h)))
BY DEF Resting, Before, Strict, Waiting, Outside, AfterExprs

(* A scope ends with its task.                                             *)
LEMMA ScopeIsLeft ==
    ASSUME NEW s, Good(s), NEW c, c = Current(s), NEW r, NEW end, NEW loops \in Int, NEW jumps,
           Midway(c, r, end, 1, loops, jumps),
           NEW base \in Nat, base <= Len(c.visible), Outside(r, base), Resting(r),
           NEW t, t = EndScope(s, base), NEW d, d = Current(t)
    PROVE  /\ Follows(s, t) /\ Midway(d, r, end, 0, loops, jumps) /\ d.type = c.type
           /\ d.last_continue = c.last_continue
<1>1. /\ Fine(c) /\ c \in Contexts /\ Pending(c, r)
      /\ c.scopeDepth = Outermost(c) + Cardinality(Marked(r, ScopeTasks)) + 1
    BY DEF Midway, Fine
<1>2. c.scopeDepth > 0
    <2>1. Cardinality(Marked(r, ScopeTasks)) \in Nat /\ Outermost(c) \in Nat
        BY <1>1, MarksAreNat DEF Outermost
    <2>. QED  BY <1>1, <2>1
<1>3. EndsScope(s, t, base)
    BY <1>2, ScopeEnds
<1>4. /\ Follows(s, t) /\ Good(t) /\ SameLoops(c, d) /\ KeepsJumps(c, d)
      /\ d.scopeDepth = c.scopeDepth - 1 /\ Len(d.visible) = base
      /\ Len(d.code) >= Len(c.code)
    BY <1>3 DEF EndsScope, Follows
<1>5. Fine(d) /\ d \in Contexts
    BY <1>4, CurrentIsFine
<1>6. ASSUME NEW i \in 1..Len(r), r[i].k \in Based
      PROVE  Base(r[i]) <= Len(d.visible)
    BY <1>4, <1>6 DEF Outside
<1>7. \A i \in 1..Len(r) : r[i].k # "define"
    BY DEF Resting, AfterExprs, Waiting
<1>8. d.type = c.type /\ d.last_continue = c.last_continue /\ d.enclosing_loop = c.enclosing_loop
    BY <1>4 DEF SameLoops
<1>9. WaitFor(c, JumpsIn(r) \cup jumps) => WaitFor(d, JumpsIn(r) \cup jumps)
    BY <1>4 DEF KeepsJumps
<1>10. PICK one \in Int : one = 1
    OBVIOUS
<1>11. PICK less \in Int : less = -1
    OBVIOUS
<1>12. PICK none \in Int : none = 0
    OBVIOUS
<1>13. d.scopeDepth = c.scopeDepth + less /\ d.enclosing_loop = c.enclosing_loop + none
    BY <1>1, <1>4, <1>8, <1>11, <1>12, ContextTypes
<1>14. Midway(c, r, end, one, loops, jumps)
    BY <1>10
<1>15. Midway(d, r, end, one + less, loops + none, jumps)
    BY <1>4, <1>5, <1>6, <1>7, <1>8, <1>9, <1>13, <1>14, Moves
<1>16. one + less = 0 /\ loops + none = loops
    BY <1>10, <1>11, <1>12
<1>. QED  BY <1>4, <1>8, <1>15, <1>16

LEMMA EndBlockKeeps ==
    ASSUME Inv, EndBlock
    PROVE  Inv'
<1>1. PICK h : h = Work[1]
    OBVIOUS
<1>2. PICK r : r = Tail(Work)
    OBVIOUS
<1>3. PICK c : c = Current(Now)
    OBVIOUS
<1>4. PICK end : end = Last(Work)
    OBVIOUS
<1>5. Doing("endScope") /\ Continue(EndScope(Now, Head(Work).base), <<>>)
    BY DEF EndBlock
<1>6. /\ Good(Now) /\ Head(Work) = h /\ h.k = "endScope" /\ h \in Tasks /\ Fits(c, h)
      /\ Midway(c, r, end, One(h, ScopeTasks), One(h, LoopEndTasks), JumpsOf(h))
      /\ \A i \in 1..Len(r) : Before(h, r[i])
      /\ (~StartsAt(h, c.last_continue) => OpenLoop(r, 0, c.last_continue))
    <2>1. PICK kind : kind = "endScope"
        OBVIOUS
    <2>2. kind # "endFunction" /\ Doing(kind)
        BY <1>5, <2>1
    <2>. QED  BY <1>1, <1>2, <1>3, <1>4, <2>1, <2>2, TaskBegins
<1>7. PICK base : base = h.base
    OBVIOUS
<1>8. base \in Nat /\ h.k \in Based /\ Base(h) = base
    <2>1. base \in Nat
        BY <1>6, <1>7, TaskTypes
    <2>. QED  BY <1>6, <1>7, <2>1 DEF Based, Base, LoopTasks
<1>9. base <= Len(c.visible)
    BY <1>6, <1>8 DEF Fits
<1>10. Resting(r) /\ Outside(r, base)
    <2>1. h.k \notin ExprTasks \cup {"define", "methods"}
        BY <1>6 DEF ExprTasks
    <2>. QED  BY <1>6, <1>8, <2>1, RestsBehind
<1>11. One(h, ScopeTasks) = 1 /\ One(h, LoopEndTasks) = 0 /\ ~StartsAt(h, c.last_continue)
    BY <1>6 DEF One, ScopeTasks, LoopEndTasks, LoopEnds, StartsAt
<1>12. JumpsOf(h) = {}
    BY <1>6, Zenon DEF JumpsOf
<1>13. PICK s : s = EndScope(Now, base)
    OBVIOUS
<1>14. PICK d : d = Current(s)
    OBVIOUS
<1>15. Midway(c, r, end, 1, 0, {})
    BY <1>6, <1>11, <1>12
<1>16. Follows(Now, s) /\ Midway(d, r, end, 0, 0, {}) /\ d.type = c.type
       /\ d.last_continue = c.last_continue
    BY <1>3, <1>6, <1>8, <1>9, <1>10, <1>13, <1>14, <1>15, ScopeIsLeft
<1>17. OpenLoop(r, 0, d.last_continue)
    BY <1>6, <1>11, <1>16
<1>18. Continue(s, <<>>)
    BY <1>5, <1>6, <1>7, <1>13
<1>. QED  BY <1>2, <1>3, <1>4, <1>5, <1>14, <1>16, <1>17, <1>18, DoneKeeps

(* The statement of a branch or of a loop comes first, then task t.        *)
Statements == {"stat", "stats"}

LEMMA StatInFront ==
    ASSUME NEW c, NEW r, NEW end, NEW scopes \in Int, NEW loops \in Int, NEW jumps,
           Midway(c, r, end, scopes, loops, jumps), NEW t, Pushable(c, t, r), Resting(r),
           t.k \notin Waiting,
           NEW e \in Tasks, e.k \in Statements,
           NEW now, jumps \subseteq JumpsOf(t) \cup now, NEW u, u = Ahead(e, Ahead(t, r))
    PROVE  /\ Midway(c, u, end, scopes - One(t, ScopeTasks), loops - One(t, LoopEndTasks), now)
           /\ \A p : OpenLoop(r, 0, p) => OpenLoop(u, 0, p)
           /\ \A p : StartsAt(t, p) => OpenLoop(u, 0, p)
<1>1. Pending(c, r) /\ r \in Seq(Tasks) /\ t \in Tasks
    BY DEF Midway, Pending, Pushable
<1>3. PICK v : v = Ahead(t, r)
    OBVIOUS
<1>4. PICK x \in Int : x = scopes - One(t, ScopeTasks)
    BY DEF One
<1>5. PICK y \in Int : y = loops - One(t, LoopEndTasks)
    BY DEF One
<1>7. e \notin ScopeTasks /\ e \notin LoopEndTasks /\ e.k \notin LoopTasks /\ e.k \notin Based
      /\ e.k # "endFunction" /\ \A d : Fits(d, e)
    BY DEF ScopeTasks, LoopEndTasks, LoopEnds, ForTasks, LoopTasks, Based, Fits, Statements
<1>8. ASSUME NEW x1, x1.k \notin Waiting
      PROVE  Before(e, x1)
    BY <1>7, <1>8 DEF Before, Strict, Waiting
<1>9. /\ Midway(c, v, end, x, y, now)
      /\ \A p : OpenLoop(r, 0, p) => OpenLoop(v, 0, p)
      /\ \A p : StartsAt(t, p) => OpenLoop(v, 0, p)
      /\ \A d : Before(d, t) /\ (\A i \in 1..Len(r) : Before(d, r[i])) =>
            \A i \in 1..Len(v) : Before(d, v[i])
    BY <1>3, <1>4, <1>5, PutsInFront
<1>10. \A i \in 1..Len(v) : Before(e, v[i])
    BY <1>8, <1>9 DEF Resting
<1>11. Pushable(c, e, v)
    BY <1>7, <1>10 DEF Pushable
<1>12. u = Ahead(e, v)
    BY <1>3
<1>13. /\ Midway(c, u, end, x - One(e, ScopeTasks), y - One(e, LoopEndTasks), now)
       /\ \A p : OpenLoop(v, 0, p) => OpenLoop(u, 0, p)
    <2>1. now \subseteq JumpsOf(e) \cup now
        OBVIOUS
    <2>. QED  BY <1>9, <1>11, <1>12, <2>1, PutsInFront
<1>14. x - One(e, ScopeTasks) = x /\ y - One(e, LoopEndTasks) = y
    BY <1>7 DEF One
<1>15. Midway(c, u, end, x, y, now)
    BY <1>13, <1>14
<1>. QED  BY <1>4, <1>5, <1>9, <1>13, <1>15

LEMMA StatementTask ==
    ASSUME NEW name \in Statements, NEW t \in Tasks, NEW r \in Seq(Tasks)
    PROVE  /\ Task(name) \in Tasks /\ Task(name).k \in Statements
           /\ <<Task(name), t>> \o r = Ahead(Task(name), Ahead(t, r))
<1>1. Task(name) \in Tasks /\ Task(name).k \in Statements
    BY DEF Task, Tasks, Statements
<1>. QED  BY <1>1, TwoInFront

LEMMA JumpTask ==
    ASSUME NEW kind \in {"patch", "ifElse"}, NEW jump \in Nat,
           NEW t, t = [k |-> kind, jump |-> jump]
    PROVE  /\ t \in Tasks /\ t.k = kind /\ t.jump = jump /\ JumpsOf(t) = {jump}
           /\ t \notin ScopeTasks /\ t \notin LoopEndTasks /\ t.k \notin LoopTasks
           /\ t.k \notin Based /\ t.k \notin Waiting
           /\ t.k # "endFunction"
           /\ \A c : jump \in 1..Len(c.code) => Fits(c, t)
<1>1. t \in Tasks /\ t.k = kind /\ t.jump = jump
    BY DEF Tasks
<1>2. JumpsOf(t) = {t.jump}
    BY <1>1, Zenon DEF JumpsOf
<1>3. t \notin ScopeTasks /\ t \notin LoopEndTasks /\ t.k \notin LoopTasks /\ t.k \notin Based
      /\ t.k \notin Waiting /\ t.k # "endFunction"
    BY <1>1 DEF ScopeTasks, LoopEndTasks, LoopEnds, ForTasks, LoopTasks, Based, AfterExprs, Strict, Waiting
<1>4. \A c : jump \in 1..Len(c.code) => Fits(c, t)
    BY <1>1, <1>3 DEF Fits, AfterExprs, Waiting
<1>. QED  BY <1>1, <1>2, <1>3, <1>4

(* The code of a branch leaves jump open, for the task behind the branch.  *)
LEMMA BranchKeeps ==
    ASSUME Inv, NEW task, Doing(task), task \in {"ifThen", "ifElse"},
           NEW s, GoesOn(Now, s), NEW jump \in 1..Len(Current(s).code),
           \A jumps : WaitFor(Current(Now), jumps \cup JumpsOf(Work[1])) =>
                        WaitFor(Current(s), jumps \cup {jump}),
           NEW kind \in {"patch", "ifElse"},
           Continue(s, <<Task("stat"), [k |-> kind, jump |-> jump]>>)
    PROVE  Inv'
<1>1. PICK h : h = Work[1]
    OBVIOUS
<1>2. PICK r : r = Tail(Work)
    OBVIOUS
<1>3. PICK c : c = Current(Now)
    OBVIOUS
<1>4. PICK end : end = Last(Work)
    OBVIOUS
<1>5. PICK d : d = Current(s)
    OBVIOUS
<1>6. /\ Good(Now) /\ h.k = task /\ r \in Seq(Tasks)
      /\ Midway(c, r, end, One(h, ScopeTasks), One(h, LoopEndTasks), JumpsOf(h))
      /\ \A i \in 1..Len(r) : Before(h, r[i])
      /\ (~StartsAt(h, c.last_continue) => OpenLoop(r, 0, c.last_continue))
    <2>1. task # "endFunction"
        OBVIOUS
    <2>. QED  BY <1>1, <1>2, <1>3, <1>4, <2>1, TaskBegins
<1>7. One(h, ScopeTasks) = 0 /\ One(h, LoopEndTasks) = 0 /\ ~StartsAt(h, c.last_continue)
    BY <1>6, Uncounted DEF ForTasks, LoopEnds, StartsAt
<1>8. Resting(r)
    <2>1. h.k \notin ExprTasks \cup {"define", "methods"}
        BY <1>6 DEF ExprTasks
    <2>. QED  BY <1>6, <2>1, RestsBehind
<1>9. Follows(Now, s) /\ Good(s) /\ Fine(d) /\ c \in Contexts /\ d \in Contexts
    <2>1. Follows(Now, s) /\ Good(s)
        BY DEF GoesOn, Follows
    <2>. QED  BY <1>3, <1>5, <1>6, <2>1, CurrentIsFine
<1>10. Grows(c, d)
    BY <1>3, <1>5, <1>9, SteadyGrows DEF GoesOn
<1>11. PICK none \in Int : none = 0
    OBVIOUS
<1>12. PICK now : now = {jump}
    OBVIOUS
<1>13. PICK before : before = JumpsOf(h)
    OBVIOUS
<1>14. Midway(d, r, end, none, none, now)
    <2>1. Midway(c, r, end, none, none, before)
        BY <1>6, <1>7, <1>11, <1>13
    <2>2. WaitFor(c, JumpsIn(r) \cup before) => WaitFor(d, JumpsIn(r) \cup now)
        BY <1>1, <1>3, <1>5, <1>12, <1>13
    <2>. QED  BY <1>9, <1>10, <2>1, <2>2, MovesGrown
<1>15. jump \in Nat
    BY <1>5, <1>9, ContextTypes
<1>16. PICK t : t = [k |-> kind, jump |-> jump]
    OBVIOUS
<1>17. /\ t \in Tasks /\ JumpsOf(t) = {jump}
       /\ t \notin ScopeTasks /\ t \notin LoopEndTasks /\ t.k \notin LoopTasks
       /\ t.k \notin Based /\ t.k \notin Waiting
       /\ t.k # "endFunction" /\ Fits(d, t)
    BY <1>5, <1>15, <1>16, JumpTask
<1>18. Pushable(d, t, r)
    BY <1>8, <1>17, BeforeResting DEF Pushable
<1>19. PICK u : u = <<Task("stat"), t>> \o r
    OBVIOUS
<1>20. PICK name \in Statements : name = "stat"
    BY DEF Statements
<1>21. PICK empty : empty = {}
    OBVIOUS
<1>22. /\ Midway(d, u, end, none - One(t, ScopeTasks), none - One(t, LoopEndTasks), empty)
       /\ \A p : OpenLoop(r, 0, p) => OpenLoop(u, 0, p)
    <2>1. now \subseteq JumpsOf(t) \cup empty
        BY <1>12, <1>17
    <2>2. PICK e \in Tasks : e.k \in Statements /\ u = Ahead(e, Ahead(t, r))
        BY <1>6, <1>17, <1>19, <1>20, StatementTask
    <2>3. none \in Int
        BY <1>11
    <2>. QED  BY <1>8, <1>14, <1>17, <1>18, <2>1, <2>2, <2>3, StatInFront
<1>23. Midway(d, u, end, 0, 0, {})
    <2>1. One(t, ScopeTasks) = 0 /\ One(t, LoopEndTasks) = 0
        BY <1>17 DEF One
    <2>2. none - One(t, ScopeTasks) = 0 /\ none - One(t, LoopEndTasks) = 0
        BY <1>11, <2>1
    <2>. QED  BY <1>21, <1>22, <2>2
<1>24. d.type = c.type /\ d.last_continue = c.last_continue
    BY <1>10 DEF Grows, SameLoops
<1>25. OpenLoop(u, 0, d.last_continue)
    BY <1>6, <1>7, <1>22, <1>24
<1>26. u = <<Task("stat"), [k |-> kind, jump |-> jump]>> \o Tail(Work)
    BY <1>2, <1>16, <1>19
<1>. QED  BY <1>3, <1>4, <1>5, <1>9, <1>23, <1>24, <1>25, <1>26, ContinueKeeps

LEMMA IfThenKeeps ==
    ASSUME Inv, IfThen
    PROVE  Inv'
<1>1. PICK s : s = EmitJump(Now, "JUMP_IF_FALSE")
    OBVIOUS
<1>2. PICK t : t = Emit(s, "POP", 0)
    OBVIOUS
<1>3. PICK jump : jump = Position(s)
    OBVIOUS
<1>4. Doing("ifThen") /\ Continue(t, <<Task("stat"), [k |-> "ifElse", jump |-> jump]>>)
    BY <1>1, <1>2, <1>3 DEF IfThen
<1>5. Good(Now) /\ Work[1].k = "ifThen"
    BY <1>4, ContinueBegins
<1>6. Branches(Now, s, jump) /\ Good(s)
    BY <1>1, <1>3, <1>5, EmitsJump
<1>7. GoesOn(s, t) /\ Good(t) /\ Len(Current(t).code) = Len(Current(s).code) + 1
      /\ \A jumps : WaitFor(Current(s), jumps) => WaitFor(Current(t), jumps)
    BY <1>2, <1>6, PopsInPassing
<1>8. GoesOn(Now, t)
    BY <1>5, <1>6, <1>7, GoesOnOn DEF Branches
<1>9. jump \in 1..Len(Current(t).code)
    <2>1. Len(Current(s).code) \in Nat
        BY <1>6, CurrentIsFine, ContextTypes
    <2>. QED  BY <1>6, <1>7, <2>1 DEF Branches
<1>10. ASSUME NEW jumps, WaitFor(Current(Now), jumps \cup JumpsOf(Work[1]))
       PROVE  WaitFor(Current(t), jumps \cup {jump})
    <2>1. JumpsOf(Work[1]) = {}
        BY <1>5, Zenon DEF JumpsOf
    <2>2. jumps \cup JumpsOf(Work[1]) = jumps
        BY <2>1
    <2>. QED  BY <1>6, <1>7, <1>10, <2>2 DEF Branches
<1>11. PICK task \in {"ifThen", "ifElse"} : task = "ifThen"
    OBVIOUS
<1>12. PICK kind \in {"patch", "ifElse"} : kind = "ifElse"
    OBVIOUS
<1>13. Doing(task) /\ Continue(t, <<Task("stat"), [k |-> kind, jump |-> jump]>>)
    BY <1>4, <1>11, <1>12
<1>. QED  BY <1>8, <1>9, <1>10, <1>13, BranchKeeps

LEMMA IfElseKeeps ==
    ASSUME Inv, IfElse
    PROVE  Inv'
<1>1. PICK then : then = Head(Work).jump
    OBVIOUS
<1>2. PICK s : s = EmitJump(Now, "JUMP")
    OBVIOUS
<1>3. PICK else : else = Position(s)
    OBVIOUS
<1>4. PICK p : p = PatchJump(s, then)
    OBVIOUS
<1>5. PICK t : t = Emit(p, "POP", 0)
    OBVIOUS
<1>6. PICK q : q = PatchJump(t, else)
    OBVIOUS
<1>7. /\ Doing("ifElse")
      /\ \/ Continue(t, <<Task("stat"), Patch(else)>>)
         \/ Continue(q, <<>>)
    BY <1>1, <1>2, <1>3, <1>4, <1>5, <1>6 DEF IfElse
<1>8. PICK task \in {"ifThen", "ifElse"} : task = "ifElse"
    OBVIOUS
<1>9. PICK h : h = Work[1]
    OBVIOUS
<1>10. PICK r : r = Tail(Work)
    OBVIOUS
<1>11. PICK c : c = Current(Now)
    OBVIOUS
<1>12. PICK end : end = Last(Work)
    OBVIOUS
<1>13. /\ Good(Now) /\ Head(Work) = h /\ h.k = task /\ h \in Tasks /\ Fits(c, h)
       /\ Midway(c, r, end, One(h, ScopeTasks), One(h, LoopEndTasks), JumpsOf(h))
       /\ \A i \in 1..Len(r) : Before(h, r[i])
       /\ (~StartsAt(h, c.last_continue) => OpenLoop(r, 0, c.last_continue))
    <2>1. task # "endFunction" /\ Doing(task)
        BY <1>7, <1>8
    <2>. QED  BY <1>9, <1>10, <1>11, <1>12, <2>1, TaskBegins
<1>14. then \in 1..Len(c.code) /\ JumpsOf(h) = {then}
    <2>1. h.k = "ifElse" /\ h.jump = then
        BY <1>1, <1>8, <1>13
    <2>2. JumpsOf(h) = {h.jump}
        BY <2>1, Zenon DEF JumpsOf
    <2>. QED  BY <1>13, <2>1, <2>2 DEF Fits
<1>15. Branches(Now, s, else) /\ Good(s)
    BY <1>2, <1>3, <1>13, EmitsJump
<1>16. Len(c.code) \in Nat
    BY <1>11, <1>13, CurrentIsFine, ContextTypes
<1>17. then \in 1..Len(Current(s).code) /\ else \in 1..Len(Current(s).code)
    BY <1>11, <1>14, <1>15, <1>16 DEF Branches
<1>18. GoesOn(s, p) /\ Good(p) /\ Len(Current(p).code) = Len(Current(s).code)
       /\ \A jumps, less : WaitFor(Current(s), jumps) /\ jumps \subseteq less \cup {then} =>
            WaitFor(Current(p), less)
    BY <1>4, <1>15, <1>17, LandsHere
<1>19. GoesOn(p, t) /\ Good(t) /\ Len(Current(t).code) = Len(Current(p).code) + 1
       /\ \A jumps : WaitFor(Current(p), jumps) => WaitFor(Current(t), jumps)
    BY <1>5, <1>18, PopsInPassing
<1>20. GoesOn(Now, t)
    <2>1. GoesOn(Now, p)
        BY <1>13, <1>15, <1>18, GoesOnOn DEF Branches
    <2>. QED  BY <1>13, <2>1, <1>19, GoesOnOn
<1>21. else \in 1..Len(Current(t).code)
    <2>1. Len(Current(s).code) \in Nat
        BY <1>15, CurrentIsFine, ContextTypes
    <2>. QED  BY <1>17, <1>18, <1>19, <2>1
<1>22. ASSUME NEW jumps, WaitFor(c, jumps \cup {then})
       PROVE  WaitFor(Current(t), jumps \cup {else})
    <2>1. WaitFor(Current(s), (jumps \cup {then}) \cup {else})
        BY <1>11, <1>15, <1>22 DEF Branches
    <2>2. WaitFor(Current(p), jumps \cup {else})
        BY <1>18, <2>1
    <2>. QED  BY <1>19, <2>2
<1>23. CASE Continue(t, <<Task("stat"), Patch(else)>>)
    <2>1. PICK kind \in {"patch", "ifElse"} : kind = "patch"
        OBVIOUS
    <2>2. Continue(t, <<Task("stat"), [k |-> kind, jump |-> else]>>) /\ Doing(task)
        BY <1>7, <1>8, <1>23, <2>1 DEF Patch
    <2>3. \A jumps : WaitFor(Current(Now), jumps \cup JumpsOf(Work[1])) =>
                WaitFor(Current(t), jumps \cup {else})
        BY <1>9, <1>11, <1>14, <1>22
    <2>. QED  BY <1>20, <1>21, <2>2, <2>3, BranchKeeps
<1>24. CASE Continue(q, <<>>)
    <2>1. PICK d : d = Current(q)
        OBVIOUS
    <2>2. GoesOn(t, q) /\ Good(q)
          /\ \A jumps, less : WaitFor(Current(t), jumps) /\ jumps \subseteq less \cup {else} =>
                WaitFor(d, less)
        BY <1>6, <1>19, <1>21, <2>1, LandsHere
    <2>3. GoesOn(Now, q)
        BY <1>13, <1>20, <2>2, GoesOnOn
    <2>4. Follows(Now, q) /\ Fine(d) /\ c \in Contexts /\ d \in Contexts
        BY <1>11, <1>13, <2>1, <2>2, <2>3, CurrentIsFine DEF GoesOn
    <2>5. Grows(c, d)
        BY <1>11, <2>1, <2>3, <2>4, SteadyGrows DEF GoesOn
    <2>6. h.k = "ifElse"
        BY <1>8, <1>13
    <2>7. One(h, ScopeTasks) = 0 /\ One(h, LoopEndTasks) = 0 /\ ~StartsAt(h, c.last_continue)
        BY <2>6, Uncounted DEF ForTasks, LoopEnds, StartsAt
    <2>8. PICK none \in Int : none = 0
        OBVIOUS
    <2>9. PICK empty : empty = {}
        OBVIOUS
    <2>10. PICK before : before = {then}
        OBVIOUS
    <2>11. Midway(c, r, end, none, none, before)
        BY <1>13, <1>14, <2>7, <2>8, <2>10
    <2>12. ASSUME WaitFor(c, JumpsIn(r) \cup before)
           PROVE  WaitFor(d, JumpsIn(r) \cup empty)
        <3>1. WaitFor(Current(t), JumpsIn(r) \cup {else})
            BY <1>22, <2>10, <2>12
        <3>. QED  BY <2>2, <3>1
    <2>13. Midway(d, r, end, none, none, empty)
        BY <2>4, <2>5, <2>11, <2>12, MovesGrown
    <2>14. Midway(d, r, end, 0, 0, {})
        BY <2>8, <2>9, <2>13
    <2>15. d.type = c.type /\ d.last_continue = c.last_continue
        BY <2>5 DEF Grows, SameLoops
    <2>16. OpenLoop(r, 0, d.last_continue)
        BY <1>13, <2>7, <2>15
    <2>. QED  BY <1>7, <1>10, <1>11, <1>12, <1>24, <2>1, <2>4, <2>14, <2>15, <2>16, DoneKeeps
<1>. QED  BY <1>7, <1>23, <1>24

(* A block begins a scope.                                                 *)
LEMMA MovesIntoScope ==
    ASSUME NEW s, Good(s), NEW c, c = Current(s), NEW r, NEW end, NEW jumps,
           Midway(c, r, end, 0, 0, jumps), NEW t, t = BeginScope(s), NEW d, d = Current(t),
           \A i \in 1..Len(r) : r[i].k # "define"
    PROVE  /\ Follows(s, t) /\ Good(t) /\ Midway(d, r, end, 1, 0, jumps) /\ d.type = c.type
           /\ d.last_continue = c.last_continue /\ d.visible = c.visible /\ d.code = c.code
           /\ d.last_break = c.last_break /\ d.last_scope_depth = c.last_scope_depth
           /\ d.scopeDepth > 0
<1>1. /\ Follows(s, t) /\ Good(t)
      /\ d.scopeDepth = c.scopeDepth + 1
      /\ d.code = c.code /\ d.visible = c.visible /\ SameLoops(c, d)
    BY ScopeBegins DEF Follows
<1>2. Fine(d) /\ Pending(c, r) /\ c \in Contexts
    BY <1>1, CurrentIsFine DEF Midway
<1>3. \A i \in 1..Len(r) : r[i].k \in Based => Base(r[i]) <= Len(d.visible)
    BY <1>1, <1>2 DEF Pending, Fits
<1>4. Len(d.code) >= Len(c.code) /\ c.scopeDepth \in Nat /\ c.enclosing_loop \in Nat
    BY <1>1, <1>2, ContextTypes
<1>5. WaitFor(c, JumpsIn(r) \cup jumps) => WaitFor(d, JumpsIn(r) \cup jumps)
    BY <1>1 DEF WaitFor
<1>6. PICK one \in Int : one = 1
    OBVIOUS
<1>7. PICK none \in Int : none = 0
    OBVIOUS
<1>8. Midway(c, r, end, none, none, jumps)
    BY <1>7
<1>9. d.scopeDepth = c.scopeDepth + one /\ d.enclosing_loop = c.enclosing_loop + none
      /\ d.type = c.type
    BY <1>1, <1>4, <1>6, <1>7 DEF SameLoops
<1>10. Midway(d, r, end, none + one, none + none, jumps)
    BY <1>2, <1>3, <1>4, <1>5, <1>6, <1>7, <1>8, <1>9, Moves
<1>11. none + one = 1 /\ none + none = 0
    BY <1>6, <1>7
<1>12. d.scopeDepth > 0
    BY <1>1, <1>4
<1>. QED  BY <1>1, <1>10, <1>11, <1>12 DEF SameLoops

LEMMA BlockKeeps ==
    ASSUME Inv, Block
    PROVE  Inv'
<1>1. PICK s : s = BeginScope(Now)
    OBVIOUS
<1>2. PICK base : base = Visible(Now)
    OBVIOUS
<1>3. PICK t : t = Scope(base)
    OBVIOUS
<1>4. AtStatement /\ Advances /\ Statement(s, <<Task("stats"), t>>)
    BY <1>1, <1>2, <1>3 DEF Block, Node, Advances
<1>5. PICK r : r = Rest
    OBVIOUS
<1>6. PICK c : c = Current(Now)
    OBVIOUS
<1>7. PICK end : end = Last(Work)
    OBVIOUS
<1>8. PICK d : d = Current(s)
    OBVIOUS
<1>9. /\ Good(Now) /\ Midway(c, r, end, 0, 0, {}) /\ r \in Seq(Tasks)
      /\ OpenLoop(r, 0, c.last_continue) /\ Resting(r) /\ Outside(r, Len(c.visible))
    BY <1>4, <1>5, <1>6, <1>7, StatementBegins
<1>10. \A i \in 1..Len(r) : r[i].k # "define"
    BY <1>9 DEF Resting, AfterExprs, Waiting
<1>11. /\ Follows(Now, s) /\ Midway(d, r, end, 1, 0, {}) /\ d.type = c.type
       /\ d.last_continue = c.last_continue /\ d.visible = c.visible
    BY <1>1, <1>6, <1>8, <1>9, <1>10, MovesIntoScope
<1>12. base \in Nat /\ base = Len(c.visible)
    BY <1>2, <1>6, <1>9, CurrentIsFine, ContextTypes DEF Visible
<1>13. t \in Tasks /\ t.k = "endScope" /\ t.base = base
    BY <1>3, <1>12 DEF Scope, Tasks
<1>14. /\ t.k # "endFunction" /\ t.k \notin LoopTasks /\ t.k \in Based
       /\ t.k \notin Waiting
       /\ t \in ScopeTasks /\ t \notin LoopEndTasks
    BY <1>13 DEF LoopTasks, Based, AfterExprs, Strict, Waiting, ScopeTasks, LoopEndTasks, LoopEnds
<1>15. Base(t) = base
    BY <1>13, <1>14 DEF Base
<1>16. Fits(d, t)
    <2>1. Base(t) <= Len(d.visible)
        BY <1>11, <1>12, <1>15
    <2>. QED  BY <1>13, <1>14, <2>1 DEF Fits
<1>17. Pushable(d, t, r)
    <2>1. \A i \in 1..Len(r) : t.k \in Based /\ r[i].k \in Based => Base(r[i]) <= Base(t)
        BY <1>9, <1>12, <1>15 DEF Outside
    <2>2. \A i \in 1..Len(r) : Before(t, r[i])
        BY <1>9, <1>14, <2>1, BeforeResting
    <2>. QED  BY <1>13, <1>14, <1>16, <2>2 DEF Pushable
<1>18. PICK u : u = <<Task("stats"), t>> \o r
    OBVIOUS
<1>19. /\ Midway(d, u, end, 0, 0, {})
       /\ \A p : OpenLoop(r, 0, p) => OpenLoop(u, 0, p)
    <2>1. PICK name \in Statements : name = "stats"
        BY DEF Statements
    <2>2. PICK e \in Tasks : e.k \in Statements /\ u = Ahead(e, Ahead(t, r))
        BY <1>9, <1>13, <1>18, <2>1, StatementTask
    <2>3. PICK one \in Int : one = 1
        OBVIOUS
    <2>4. PICK none \in Int : none = 0
        OBVIOUS
    <2>5. PICK empty : empty = {}
        OBVIOUS
    <2>6. Midway(d, r, end, one, none, empty) /\ one \in Int /\ none \in Int
          /\ empty \subseteq JumpsOf(t) \cup empty
        BY <1>11, <2>3, <2>4, <2>5
    <2>7. /\ Midway(d, u, end, one - One(t, ScopeTasks), none - One(t, LoopEndTasks), empty)
          /\ \A p : OpenLoop(r, 0, p) => OpenLoop(u, 0, p)
        BY <1>9, <1>14, <1>17, <2>2, <2>6, StatInFront
    <2>8. One(t, ScopeTasks) = 1 /\ One(t, LoopEndTasks) = 0
        BY <1>14 DEF One
    <2>9. one - One(t, ScopeTasks) = 0 /\ none - One(t, LoopEndTasks) = 0
        BY <2>3, <2>4, <2>8
    <2>. QED  BY <2>5, <2>7, <2>9
<1>20. OpenLoop(u, 0, d.last_continue)
    BY <1>9, <1>11, <1>19
<1>21. u = <<Task("stats"), t>> \o Rest
    BY <1>5, <1>18
<1>. QED  BY <1>4, <1>6, <1>7, <1>8, <1>11, <1>19, <1>20, <1>21, StatementKeeps
-----------------------------------------------------------------------------
(* Loops.                                                                  *)

Reset(s, t, continue, break, loops) ==
    /\ Follows(s, t) /\ Good(t) /\ BesideLoops(Current(s), Current(t))
    /\ Front(t.contexts) = Front(s.contexts) /\ t.error = s.error
    /\ Current(t).last_continue = continue /\ Current(t).last_break = break
    /\ Current(t).enclosing_loop = loops

LEMMA ReloopedIs ==
    ASSUME NEW c \in Contexts
    PROVE  /\ \A depth : [c EXCEPT !.last_scope_depth = depth] =
                Relooped(c, c.last_continue, c.last_break, depth, c.enclosing_loop)
           /\ \A continue : [c EXCEPT !.last_continue = continue] =
                Relooped(c, continue, c.last_break, c.last_scope_depth, c.enclosing_loop)
           /\ \A break : [c EXCEPT !.last_break = break] =
                Relooped(c, c.last_continue, break, c.last_scope_depth, c.enclosing_loop)
           /\ \A loops : [c EXCEPT !.enclosing_loop = loops] =
                Relooped(c, c.last_continue, c.last_break, c.last_scope_depth, loops)
           /\ \A continue, break, depth :
                [c EXCEPT !.last_continue = continue, !.last_break = break,
                          !.last_scope_depth = depth] =
                Relooped(c, continue, break, depth, c.enclosing_loop)
BY DEF Relooped, Contexts

LEMMA LoopFields ==
    ASSUME NEW s, Good(s), NEW c, c = Current(s)
    PROVE  /\ c \in Contexts /\ c.last_continue \in Nat /\ c.last_break \in Nat
           /\ c.last_scope_depth \in Nat /\ c.enclosing_loop \in Nat /\ c.scopeDepth \in Nat
           /\ c.last_continue <= Len(c.code) /\ c.last_break <= Len(c.code) /\ Len(c.code) \in Nat
           /\ Len(c.visible) \in Nat
BY CurrentIsFine, ContextTypes DEF Fine

LEMMA SavesBreakContext ==
    ASSUME NEW s, Good(s), NEW c, c = Current(s), NEW t, t = SaveBreakContext(s)
    PROVE  Reset(s, t, c.last_continue, c.last_break, c.enclosing_loop)
<1>1. t = Update(s, Relooped(c, c.last_continue, c.last_break, c.scopeDepth, c.enclosing_loop))
    BY LoopFields, ReloopedIs DEF SaveBreakContext
<1>2. PICK depth \in Nat : depth = c.scopeDepth
    BY LoopFields
<1>3. PICK continue \in Nat : continue = c.last_continue /\ continue <= Len(c.code)
    BY LoopFields
<1>4. PICK break \in Nat : break = c.last_break /\ break <= Len(c.code)
    BY LoopFields
<1>5. PICK loops \in Nat : loops = c.enclosing_loop
    BY LoopFields
<1>6. t = Update(s, Relooped(Current(s), continue, break, depth, loops))
    BY <1>1, <1>2, <1>3, <1>4, <1>5
<1>7. Reset(s, t, continue, break, loops)
    <2>1. continue <= Len(Current(s).code) /\ break <= Len(Current(s).code)
          /\ continue \in Nat /\ break \in Nat /\ depth \in Nat /\ loops \in Nat
        BY <1>2, <1>3, <1>4, <1>5
    <2>. QED  BY <2>1, <1>6, Reloops DEF Reset
<1>. QED  BY <1>3, <1>4, <1>5, <1>7

LEMMA ContinuesAt ==
    ASSUME NEW s, Good(s), NEW c, c = Current(s), NEW p \in Nat, p <= Len(c.code),
           NEW t, t = ContinueAt(s, p)
    PROVE  Reset(s, t, p, c.last_break, c.enclosing_loop)
<1>1. t = Update(s, Relooped(c, p, c.last_break, c.last_scope_depth, c.enclosing_loop))
    BY LoopFields, ReloopedIs DEF ContinueAt
<1>2. /\ c \in Contexts /\ c.last_break \in Nat /\ c.last_break <= Len(c.code)
      /\ c.last_scope_depth \in Nat /\ c.enclosing_loop \in Nat
    BY LoopFields
<1>. QED  BY <1>1, <1>2, Reloops DEF Reset

LEMMA Encloses ==
    ASSUME NEW s, Good(s), NEW c, c = Current(s), NEW change \in Int,
           c.enclosing_loop + change \in Nat, NEW t, t = Enclose(s, change)
    PROVE  Reset(s, t, c.last_continue, c.last_break, c.enclosing_loop + change)
<1>1. t = Update(s, [c EXCEPT !.enclosing_loop = c.enclosing_loop + change])
    BY DEF Enclose
<1>2. PICK loops \in Nat : loops = c.enclosing_loop + change
    OBVIOUS
<1>3. PICK depth \in Nat : depth = c.last_scope_depth
    BY LoopFields
<1>4. PICK continue \in Nat : continue = c.last_continue /\ continue <= Len(c.code)
    BY LoopFields
<1>5. PICK break \in Nat : break = c.last_break /\ break <= Len(c.code)
    BY LoopFields
<1>6. [c EXCEPT !.enclosing_loop = loops] =
            Relooped(c, c.last_continue, c.last_break, c.last_scope_depth, loops)
    <2>1. c \in Contexts
        BY LoopFields
    <2>. QED  BY <2>1 DEF Relooped, Contexts
<1>7. t = Update(s, Relooped(Current(s), continue, break, depth, loops))
    BY <1>1, <1>2, <1>3, <1>4, <1>5, <1>6
<1>8. Reset(s, t, continue, break, loops)
    <2>1. continue <= Len(Current(s).code) /\ break <= Len(Current(s).code)
          /\ continue \in Nat /\ break \in Nat /\ depth \in Nat /\ loops \in Nat
        BY <1>2, <1>3, <1>4, <1>5
    <2>. QED  BY <2>1, <1>7, Reloops, SMTT(30) DEF Reset
<1>. QED  BY <1>2, <1>4, <1>5, <1>8

LEMMA BreaksAt ==
    ASSUME NEW s, Good(s), NEW c, c = Current(s), NEW p \in Nat, p <= Len(c.code),
           NEW t, t = Update(s, [c EXCEPT !.last_break = p])
    PROVE  Reset(s, t, c.last_continue, p, c.enclosing_loop)
<1>1. t = Update(s, Relooped(c, c.last_continue, p, c.last_scope_depth, c.enclosing_loop))
    BY LoopFields, ReloopedIs
<1>2. /\ c \in Contexts /\ c.last_continue \in Nat /\ c.last_continue <= Len(c.code)
      /\ c.last_scope_depth \in Nat /\ c.enclosing_loop \in Nat
    BY LoopFields
<1>. QED  BY <1>1, <1>2, Reloops DEF Reset

LEMMA Restores ==
    ASSUME NEW s, Good(s), NEW c, c = Current(s),
           NEW saved \in [continue : Nat, break : Nat, depth : Nat],
           saved.continue <= Len(c.code), saved.break <= Len(c.code), NEW t, t = Restore(s, saved)
    PROVE  Reset(s, t, saved.continue, saved.break, c.enclosing_loop)
<1>1. t = Update(s, Relooped(c, saved.continue, saved.break, saved.depth, c.enclosing_loop))
    <2>1. c \in Contexts
        BY LoopFields
    <2>2. [c EXCEPT !.last_continue = saved.continue, !.last_break = saved.break,
                    !.last_scope_depth = saved.depth] =
            Relooped(c, saved.continue, saved.break, saved.depth, c.enclosing_loop)
        BY <2>1 DEF Relooped, Contexts
    <2>. QED  BY <2>2 DEF Restore
<1>2. /\ c \in Contexts /\ c.enclosing_loop \in Nat
      /\ saved.continue \in Nat /\ saved.break \in Nat /\ saved.depth \in Nat
    BY LoopFields
<1>. QED  BY <1>1, <1>2, Reloops DEF Reset

(* From one state to another, in whose Context more is behind.             *)
LEMMA ResetGrows ==
    ASSUME NEW s, NEW t, NEW continue, NEW break, NEW loops, Reset(s, t, continue, break, loops)
    PROVE  /\ Follows(s, t) /\ Good(t)
           /\ Current(t).code = Current(s).code /\ Current(t).visible = Current(s).visible
           /\ Current(t).locals = Current(s).locals /\ Current(t).type = Current(s).type
           /\ Current(t).scopeDepth = Current(s).scopeDepth
           /\ Current(t).last_continue = continue /\ Current(t).last_break = break
           /\ Current(t).enclosing_loop = loops
           /\ \A jumps : WaitFor(Current(s), jumps) <=> WaitFor(Current(t), jumps)
BY DEF Reset, BesideLoops, WaitFor

(* The middle of a step goes on, in a loop more or less.                   *)
Passes(c, d, change) ==
    /\ d.type = c.type /\ d.scopeDepth = c.scopeDepth
    /\ d.enclosing_loop = c.enclosing_loop + change
    /\ Len(d.code) >= Len(c.code) /\ Len(d.visible) >= Len(c.visible)
    /\ Len(d.locals) >= Len(c.locals)

LEMMA MovesPast ==
    ASSUME NEW c, NEW r, NEW end, NEW scopes \in Int, NEW loops \in Int, NEW jumps,
           Midway(c, r, end, scopes, loops, jumps),
           NEW d, Fine(d), NEW change \in Int, Passes(c, d, change),
           NEW now, WaitFor(c, JumpsIn(r) \cup jumps) => WaitFor(d, JumpsIn(r) \cup now)
    PROVE  Midway(d, r, end, scopes, loops + change, now)
<1>1. Fine(c) /\ Pending(c, r)
    BY DEF Midway
<1>2. c \in Contexts /\ d \in Contexts
    BY <1>1 DEF Fine
<1>3. PICK none \in Int : none = 0
    OBVIOUS
<1>4. Len(d.code) >= Len(c.code) /\ Len(d.visible) >= Len(c.visible) /\ d.type = c.type
      /\ d.scopeDepth = c.scopeDepth + none /\ d.enclosing_loop = c.enclosing_loop + change
    BY <1>2, <1>3, ContextTypes DEF Passes
<1>5. ASSUME NEW i \in 1..Len(r), r[i].k \in Based
      PROVE  Base(r[i]) <= Len(d.visible)
    <2>1. Base(r[i]) <= Len(c.visible) /\ r[i] \in Tasks
        BY <1>1, <1>5 DEF Pending, Fits
    <2>2. Base(r[i]) \in Nat /\ Len(c.visible) \in Nat /\ Len(d.visible) \in Nat
        BY <2>1, <1>2, <1>5, BaseIsNat, ContextTypes
    <2>. QED  BY <2>1, <2>2, <1>4
<1>6. ASSUME NEW i \in 1..Len(r), r[i].k = "define"
      PROVE  CanDefine(d)
    <2>1. CanDefine(c)
        BY <1>1, <1>6 DEF Pending, Fits
    <2>2. Len(c.locals) \in Nat /\ Len(d.locals) \in Nat
        BY <1>2, ContextTypes
    <2>. QED  BY <2>1, <2>2 DEF CanDefine, Passes
<1>7. Midway(d, r, end, scopes + none, loops + change, now)
    BY <1>4, <1>5, <1>6, Moves
<1>8. scopes + none = scopes
    BY <1>3
<1>. QED  BY <1>7, <1>8

Proceeds(s, t, change) ==
    Follows(s, t) /\ Good(t) /\ Passes(Current(s), Current(t), change)

LEMMA AtLeastOn ==
    ASSUME NEW a \in Nat, NEW b \in Nat, NEW c \in Nat, a >= b, b >= c
    PROVE  a >= c
OBVIOUS

LEMMA PassesOn ==
    ASSUME NEW c \in Contexts, NEW d \in Contexts, NEW e \in Contexts,
           NEW x \in Int, NEW y \in Int, Passes(c, d, x), Passes(d, e, y)
    PROVE  Passes(c, e, x + y)
<1>1. e.type = c.type /\ e.scopeDepth = c.scopeDepth
    BY DEF Passes
<1>2. e.enclosing_loop = c.enclosing_loop + (x + y)
    <2>1. c.enclosing_loop \in Nat /\ d.enclosing_loop \in Nat /\ e.enclosing_loop \in Nat
        BY ContextTypes
    <2>. QED  BY <2>1 DEF Passes
<1>3. Len(e.code) >= Len(c.code)
    <2>1. Len(c.code) \in Nat /\ Len(d.code) \in Nat /\ Len(e.code) \in Nat
        BY ContextTypes
    <2>. QED  BY <2>1, AtLeastOn DEF Passes
<1>4. Len(e.visible) >= Len(c.visible)
    <2>1. Len(c.visible) \in Nat /\ Len(d.visible) \in Nat /\ Len(e.visible) \in Nat
        BY ContextTypes
    <2>. QED  BY <2>1, AtLeastOn DEF Passes
<1>5. Len(e.locals) >= Len(c.locals)
    <2>1. Len(c.locals) \in Nat /\ Len(d.locals) \in Nat /\ Len(e.locals) \in Nat
        BY ContextTypes
    <2>. QED  BY <2>1, AtLeastOn DEF Passes
<1>. QED  BY <1>1, <1>2, <1>3, <1>4, <1>5 DEF Passes

LEMMA ProceedsOn ==
    ASSUME NEW s, Good(s), NEW t, NEW u, NEW x \in Int, NEW y \in Int,
           Proceeds(s, t, x), Proceeds(t, u, y), NEW z, z = x + y
    PROVE  Proceeds(s, u, z)
<1>1. Follows(s, u) /\ Good(u)
    BY FollowsOn DEF Proceeds
<1>2. Current(s) \in Contexts /\ Current(t) \in Contexts /\ Current(u) \in Contexts
    BY CurrentIsFine DEF Proceeds
<1>3. Passes(Current(s), Current(t), x) /\ Passes(Current(t), Current(u), y)
    BY DEF Proceeds
<1>4. Passes(Current(s), Current(u), z)
    BY <1>2, <1>3, PassesOn
<1>. QED  BY <1>1, <1>4 DEF Proceeds

LEMMA SteadyProceeds ==
    ASSUME NEW s, Good(s), NEW t, GoesOn(s, t)
    PROVE  Proceeds(s, t, 0)
<1>1. Follows(s, t) /\ Good(t) /\ Steady(Current(s), Current(t))
    BY DEF GoesOn, Follows
<1>2. Current(s) \in Contexts /\ Current(t) \in Contexts
    BY <1>1, CurrentIsFine
<1>3. Passes(Current(s), Current(t), 0)
    BY <1>1, <1>2, ContextTypes DEF Passes, Steady, SameSettings, SameLocals
<1>. QED  BY <1>1, <1>3 DEF Proceeds

LEMMA ResetProceeds ==
    ASSUME NEW s, Good(s), NEW t, NEW continue, NEW break, NEW loops,
           Reset(s, t, continue, break, loops),
           NEW change, loops = Current(s).enclosing_loop + change
    PROVE  Proceeds(s, t, change)
<1>1. Follows(s, t) /\ Good(t)
    BY DEF Reset
<1>2. Current(s) \in Contexts /\ Current(t) \in Contexts
    BY <1>1, CurrentIsFine
<1>3. Passes(Current(s), Current(t), change)
    BY <1>2, ContextTypes DEF Reset, BesideLoops, Passes
<1>. QED  BY <1>1, <1>3 DEF Proceeds

(* PatchBreak, the exit of a break when there was one.                     *)
LEMMA PatchesBreak ==
    ASSUME NEW s, Good(s), NEW t, t = PatchBreak(s)
    PROVE  /\ Proceeds(s, t, 0) /\ Current(t).last_continue = Current(s).last_continue
           /\ \A jumps : WaitFor(Current(s), jumps) => WaitFor(Current(t), jumps)
<1>1. PICK jump : jump = Current(s).last_break
    OBVIOUS
<1>2. jump \in Nat /\ jump <= Len(Current(s).code) /\ Len(Current(s).code) \in Nat
      /\ Current(s).enclosing_loop \in Nat
    BY <1>1, LoopFields
<1>3. CASE jump = 0
    <2>1. t = s
        BY <1>1, <1>3 DEF PatchBreak
    <2>2. GoesOn(s, s)
        BY FollowsSelf
    <2>. QED  BY <2>1, <2>2, SteadyProceeds
<1>4. CASE jump # 0
    <2>1. PICK p : p = PatchJump(s, jump)
        OBVIOUS
    <2>2. t = Update(p, [Current(p) EXCEPT !.last_break = 0])
        BY <1>1, <1>4, <2>1 DEF PatchBreak
    <2>3. jump \in 1..Len(Current(s).code)
        BY <1>2, <1>4
    <2>4. GoesOn(s, p) /\ Good(p) /\ GetsWider(s, p)
        BY <2>1, <2>3, LandsHere
    <2>5. Proceeds(s, p, 0) /\ Current(p).last_continue = Current(s).last_continue
          /\ \A jumps : WaitFor(Current(s), jumps) => WaitFor(Current(p), jumps)
        BY <2>4, SteadyProceeds DEF GetsWider, Widens, SameLoops, KeepsJumps
    <2>6. Reset(p, t, Current(p).last_continue, 0, Current(p).enclosing_loop)
        <3>1. PICK n \in Nat : n = 0
            OBVIOUS
        <3>2. n <= Len(Current(p).code) /\ t = Update(p, [Current(p) EXCEPT !.last_break = n])
            BY <2>2, <2>4, <3>1, LoopFields
        <3>3. Reset(p, t, Current(p).last_continue, n, Current(p).enclosing_loop)
            BY <2>4, <3>2, BreaksAt
        <3>. QED  BY <3>1, <3>3
    <2>7. Current(p).enclosing_loop = Current(p).enclosing_loop + 0
        BY <2>4, LoopFields
    <2>8. Proceeds(p, t, 0)
        BY <2>4, <2>6, <2>7, ResetProceeds
    <2>9. Proceeds(s, t, 0)
        BY <2>5, <2>8, ProceedsOn
    <2>. QED  BY <2>5, <2>6, <2>9, ResetGrows
<1>. QED  BY <1>3, <1>4

(* CloseLoop: the loop is left, and with it the jump out of it.            *)
LoopFits(c, loop) ==
    /\ loop \in Loops
    /\ loop.start <= Len(c.code) /\ loop.exit <= Len(c.code) /\ loop.body <= Len(c.code)
    /\ loop.saved.break <= Len(c.code) /\ loop.saved.continue <= Len(c.code)

LEMMA LoopTypes ==
    ASSUME NEW loop \in Loops
    PROVE  /\ loop.start \in Nat /\ loop.exit \in Nat /\ loop.body \in Nat /\ loop.base \in Nat
           /\ loop.saved \in [continue : Nat, break : Nat, depth : Nat]
           /\ loop.saved.continue \in Nat /\ loop.saved.break \in Nat
BY DEF Loops

LEMMA ClosesLoop ==
    ASSUME NEW s, Good(s), NEW c, c = Current(s), c.enclosing_loop > 0,
           NEW loop, LoopFits(c, loop), NEW t, t = CloseLoop(s, loop), NEW d, d = Current(t)
    PROVE  /\ Proceeds(s, t, -1) /\ d.last_continue = loop.saved.continue
           /\ \A jumps, less : WaitFor(c, jumps) /\ jumps \subseteq less \cup {loop.exit} =>
                WaitFor(d, less)
<1>1. /\ c.enclosing_loop \in Nat /\ Len(c.code) \in Nat /\ loop \in Loops
      /\ loop.start \in Nat /\ loop.exit \in Nat
      /\ loop.saved \in [continue : Nat, break : Nat, depth : Nat]
      /\ loop.saved.continue \in Nat /\ loop.saved.break \in Nat
    BY LoopFields, LoopTypes DEF LoopFits
<1>2. PICK less \in Int : less = -1
    OBVIOUS
<1>3. PICK none \in Int : none = 0
    OBVIOUS
<1>4. PICK a : a = Enclose(s, less)
    OBVIOUS
<1>5. Reset(s, a, c.last_continue, c.last_break, c.enclosing_loop + less)
    <2>1. c.enclosing_loop + less \in Nat
        BY <1>1, <1>2
    <2>. QED  BY <1>4, <2>1, Encloses
<1>6. /\ Proceeds(s, a, less) /\ Good(a) /\ Len(Current(a).code) = Len(c.code)
      /\ \A jumps : WaitFor(c, jumps) => WaitFor(Current(a), jumps)
    BY <1>5, ResetProceeds, ResetGrows
<1>7. PICK b : b = EmitLoop(a, loop.start)
    OBVIOUS
<1>8. GoesOn(a, b) /\ Good(b) /\ GetsWider(a, b) /\ Len(Current(b).code) = Len(c.code) + 1
    <2>1. loop.start \in 0..Len(Current(a).code)
        BY <1>1, <1>6 DEF LoopFits
    <2>. QED  BY <1>6, <1>7, <2>1, EmitsLoop
<1>9. Proceeds(s, b, less) /\ \A jumps : WaitFor(c, jumps) => WaitFor(Current(b), jumps)
    <2>1. Proceeds(a, b, none)
        BY <1>3, <1>6, <1>8, SteadyProceeds
    <2>2. less = less + none
        BY <1>2, <1>3
    <2>3. Proceeds(s, b, less)
        BY <1>2, <1>3, <1>6, <2>1, <2>2, ProceedsOn
    <2>. QED  BY <1>6, <1>8, <2>3 DEF GetsWider, Widens, KeepsJumps
<1>10. PICK x : /\ t = Restore(x, loop.saved) /\ Proceeds(s, x, less)
                /\ \A jumps, rest : WaitFor(c, jumps) /\ jumps \subseteq rest \cup {loop.exit} =>
                        WaitFor(Current(x), rest)
    <2>1. CASE loop.exit = 0
        <3>1. t = Restore(b, loop.saved)
            BY <1>2, <1>4, <1>7, <2>1 DEF CloseLoop, NONE
        <3>2. ASSUME NEW jumps, NEW rest, WaitFor(c, jumps), jumps \subseteq rest \cup {loop.exit}
              PROVE  WaitFor(Current(b), rest)
            <4>1. WaitFor(Current(b), jumps) /\ Len(Current(b).code) \in Nat
                BY <1>1, <1>8, <1>9, <3>2
            <4>2. \A i \in 1..Len(Current(b).code) : i \in jumps => i \in rest
                BY <2>1, <3>2, <4>1
            <4>. QED  BY <4>1, <4>2 DEF WaitFor
        <3>. QED  BY <1>9, <3>1, <3>2
    <2>2. CASE loop.exit # 0
        <3>1. PICK p : p = PatchJump(b, loop.exit)
            OBVIOUS
        <3>2. PICK q : q = PatchBreak(p)
            OBVIOUS
        <3>3. PICK e : e = Emit(q, "POP", 0)
            OBVIOUS
        <3>4. t = Restore(e, loop.saved)
            BY <1>2, <1>4, <1>7, <2>2, <3>1, <3>2, <3>3 DEF CloseLoop, NONE
        <3>5. loop.exit \in 1..Len(Current(b).code)
            BY <1>1, <1>8, <2>2 DEF LoopFits
        <3>6. GoesOn(b, p) /\ Good(p)
              /\ \A jumps, rest : WaitFor(Current(b), jumps) /\ jumps \subseteq rest \cup {loop.exit} =>
                    WaitFor(Current(p), rest)
            BY <1>8, <3>1, <3>5, LandsHere
        <3>7. Proceeds(p, q, 0) /\ Good(q)
              /\ \A jumps : WaitFor(Current(p), jumps) => WaitFor(Current(q), jumps)
            BY <3>2, <3>6, PatchesBreak DEF Proceeds
        <3>8. GoesOn(q, e) /\ Good(e)
              /\ \A jumps : WaitFor(Current(q), jumps) => WaitFor(Current(e), jumps)
            BY <3>3, <3>7, PopsInPassing
        <3>9. Proceeds(b, p, none) /\ Proceeds(p, q, none) /\ Proceeds(q, e, none)
            BY <1>3, <1>8, <3>6, <3>7, <3>8, SteadyProceeds
        <3>10. less = less + none
            BY <1>2, <1>3
        <3>11. Proceeds(s, p, less)
            BY <1>2, <1>3, <1>9, <3>9, <3>10, ProceedsOn
        <3>12. Proceeds(s, q, less)
            BY <1>2, <1>3, <3>9, <3>10, <3>11, ProceedsOn
        <3>13. Proceeds(s, e, less)
            BY <1>2, <1>3, <3>9, <3>10, <3>12, ProceedsOn
        <3>. QED  BY <1>9, <3>4, <3>6, <3>7, <3>8, <3>13
    <2>. QED  BY <2>1, <2>2
<1>11. Good(x) /\ Len(Current(x).code) >= Len(c.code) /\ Len(Current(x).code) \in Nat
    BY <1>10, LoopFields DEF Proceeds, Passes
<1>12. Reset(x, t, loop.saved.continue, loop.saved.break, Current(x).enclosing_loop)
    <2>1. loop.saved.continue <= Len(Current(x).code) /\ loop.saved.break <= Len(Current(x).code)
        BY <1>1, <1>11 DEF LoopFits
    <2>. QED  BY <1>1, <1>10, <1>11, <2>1, Restores
<1>13. Proceeds(x, t, none)
    <2>1. Current(x).enclosing_loop = Current(x).enclosing_loop + none
        BY <1>3, <1>11, LoopFields
    <2>. QED  BY <1>11, <1>12, <2>1, ResetProceeds
<1>14. Proceeds(s, t, less)
    <2>1. less = less + none
        BY <1>2, <1>3
    <2>. QED  BY <1>2, <1>3, <1>10, <1>13, <2>1, ProceedsOn
<1>15. /\ d.last_continue = loop.saved.continue
       /\ \A jumps : WaitFor(Current(x), jumps) => WaitFor(d, jumps)
    BY <1>12, ResetGrows
<1>16. Proceeds(s, t, -1)
    BY <1>2, <1>14
<1>. QED  BY <1>10, <1>15, <1>16

LEMMA LoopTask ==
    ASSUME NEW kind \in LoopTasks, NEW loop \in Loops, NEW t, t = Loop(kind, loop)
    PROVE  /\ t \in Tasks /\ t.k = kind /\ t.loop = loop /\ t.k \in Based /\ Base(t) = loop.base
           /\ t.k # "endFunction" /\ t.k \in LoopTasks
           /\ One(t, ScopeTasks) = (IF kind \in ForTasks THEN 1 ELSE 0)
           /\ One(t, LoopEndTasks) = (IF kind \in LoopEnds THEN 1 ELSE 0)
           /\ (kind \in {"whileEnd", "forIter", "forEnd"} => JumpsOf(t) = {loop.exit})
           /\ (kind = "forBody" => JumpsOf(t) = {loop.exit, loop.body})
           /\ (kind \notin {"whileEnd", "forIter", "forEnd", "forBody"} => JumpsOf(t) = {})
           /\ \A c : /\ LoopFits(c, loop) /\ loop.base <= Len(c.visible)
                     /\ kind = "forBody" => loop.body > 0
                     => Fits(c, t)
<1>1. t \in Tasks /\ t.k = kind /\ t.loop = loop
    BY DEF Loop, Tasks
<1>2. t.k \in Based /\ Base(t) = loop.base /\ t.k # "endFunction"
      /\ t.k \notin {"patch", "ifElse"} /\ t.k # "define" /\ t.k # "endScope" /\ t.k # "endClass"
    BY <1>1 DEF Based, Base, LoopTasks
<1>3. One(t, ScopeTasks) = (IF kind \in ForTasks THEN 1 ELSE 0)
    BY <1>1, <1>2 DEF One, ScopeTasks
<1>4. One(t, LoopEndTasks) = (IF kind \in LoopEnds THEN 1 ELSE 0)
    BY <1>1 DEF One, LoopEndTasks
<1>5. kind \in {"whileEnd", "forIter", "forEnd"} => JumpsOf(t) = {t.loop.exit}
    BY <1>1, Zenon DEF JumpsOf
<1>6. kind = "forBody" => JumpsOf(t) = {t.loop.exit, t.loop.body}
    BY <1>1, Zenon DEF JumpsOf
<1>7. kind \notin {"whileEnd", "forIter", "forEnd", "forBody"} => JumpsOf(t) = {}
    <2>1. t.k \notin {"patch", "ifElse"}
        BY <1>2
    <2>. QED  BY <1>1, <2>1, Zenon DEF JumpsOf
<1>8. ASSUME NEW c, LoopFits(c, loop), loop.base <= Len(c.visible),
             kind = "forBody" => loop.body > 0
      PROVE  Fits(c, t)
    BY <1>1, <1>2, <1>8 DEF Fits, LoopFits
<1>. QED  BY <1>1, <1>2, <1>3, <1>4, <1>5, <1>6, <1>7, <1>8

LEMMA NewLoopFits ==
    ASSUME NEW s, Good(s), NEW c, c = Current(s), NEW start \in Nat, start <= Len(c.code),
           NEW loop, loop = NewLoop(s, start)
    PROVE  /\ LoopFits(c, loop) /\ loop.saved.continue = c.last_continue
           /\ loop.base = Len(c.visible) /\ loop.start = start /\ loop.exit = 0 /\ loop.body = 0
<1>1. /\ c.last_continue \in Nat /\ c.last_break \in Nat /\ c.last_scope_depth \in Nat
      /\ c.last_continue <= Len(c.code) /\ c.last_break <= Len(c.code) /\ Len(c.code) \in Nat
      /\ Len(c.visible) \in Nat
    BY LoopFields
<1>2. PICK saved : saved = BreakContext(c)
    OBVIOUS
<1>3. /\ saved \in [continue : Nat, break : Nat, depth : Nat]
      /\ saved.continue = c.last_continue /\ saved.break = c.last_break
    BY <1>1, <1>2 DEF BreakContext
<1>4. loop = [start |-> start, exit |-> 0, body |-> 0, saved |-> saved, base |-> Len(c.visible)]
    BY <1>2 DEF NewLoop, Visible, NONE
<1>5. loop \in Loops
    BY <1>1, <1>3, <1>4 DEF Loops
<1>6. /\ loop.start = start /\ loop.exit = 0 /\ loop.body = 0 /\ loop.saved = saved
      /\ loop.base = Len(c.visible)
    BY <1>4
<1>. QED  BY <1>1, <1>3, <1>5, <1>6 DEF LoopFits

(* A loop is open or closed while its code is walked.                      *)
LEMMA MovesProceeding ==
    ASSUME NEW s, Good(s), NEW t, NEW change \in Int, Proceeds(s, t, change),
           NEW c, c = Current(s), NEW d, d = Current(t),
           NEW r, NEW end, NEW scopes \in Int, NEW loops \in Int, NEW jumps,
           Midway(c, r, end, scopes, loops, jumps), NEW now,
           WaitFor(c, JumpsIn(r) \cup jumps) => WaitFor(d, JumpsIn(r) \cup now),
           NEW total, total = loops + change
    PROVE  Midway(d, r, end, scopes, total, now)
<1>1. Fine(d) /\ Passes(c, d, change)
    BY CurrentIsFine DEF Proceeds
<1>2. Midway(d, r, end, scopes, loops + change, now)
    BY <1>1, MovesPast
<1>. QED  BY <1>2

LEMMA GrownFits ==
    ASSUME NEW s, Good(s), NEW t, NEW change, Proceeds(s, t, change),
           NEW loop, LoopFits(Current(s), loop)
    PROVE  /\ LoopFits(Current(t), loop)
           /\ Len(Current(t).visible) >= Len(Current(s).visible)
           /\ Len(Current(t).code) >= Len(Current(s).code)
           /\ Current(t).type = Current(s).type
<1>1. Passes(Current(s), Current(t), change) /\ Good(t)
    BY DEF Proceeds
<1>2. Len(Current(s).code) \in Nat /\ Len(Current(t).code) \in Nat
    BY <1>1, LoopFields
<1>3. Len(Current(t).code) >= Len(Current(s).code)
    BY <1>1 DEF Passes
<1>4. /\ loop \in Loops /\ loop.start \in Nat /\ loop.exit \in Nat /\ loop.body \in Nat
      /\ loop.saved.continue \in Nat /\ loop.saved.break \in Nat
    BY LoopTypes DEF LoopFits
<1>5. LoopFits(Current(t), loop)
    BY <1>2, <1>3, <1>4 DEF LoopFits
<1>. QED  BY <1>1, <1>5 DEF Passes

LEMMA WhileStatementKeeps ==
    ASSUME Inv, WhileStatement
    PROVE  Inv'
<1>1. PICK start : start = Position(Now)
    OBVIOUS
<1>2. PICK a : a = SaveBreakContext(Now)
    OBVIOUS
<1>3. PICK s : s = ContinueAt(a, start)
    OBVIOUS
<1>4. PICK loop : loop = NewLoop(Now, start)
    OBVIOUS
<1>5. PICK t : t = Loop("whileBody", loop)
    OBVIOUS
<1>6. AtStatement /\ Advances /\ Statement(s, <<Expr, t>>)
    BY <1>1, <1>2, <1>3, <1>4, <1>5 DEF WhileStatement, Node, Advances
<1>7. PICK r : r = Rest
    OBVIOUS
<1>8. PICK c : c = Current(Now)
    OBVIOUS
<1>9. PICK end : end = Last(Work)
    OBVIOUS
<1>10. PICK d : d = Current(s)
    OBVIOUS
<1>11. /\ Good(Now) /\ Midway(c, r, end, 0, 0, {}) /\ r \in Seq(Tasks)
       /\ OpenLoop(r, 0, c.last_continue) /\ Resting(r) /\ Outside(r, Len(c.visible))
    BY <1>6, <1>7, <1>8, <1>9, StatementBegins
<1>12. start \in Nat /\ start = Len(c.code) /\ c.enclosing_loop \in Nat /\ Len(c.visible) \in Nat
    BY <1>1, <1>8, <1>11, LoopFields DEF Position
<1>13. /\ LoopFits(c, loop) /\ loop.saved.continue = c.last_continue
       /\ loop.base = Len(c.visible) /\ loop.start = start /\ loop \in Loops
    BY <1>4, <1>8, <1>11, <1>12, NewLoopFits DEF LoopFits
<1>14. PICK none \in Int : none = 0
    OBVIOUS
<1>15. Reset(Now, a, c.last_continue, c.last_break, c.enclosing_loop)
    BY <1>2, <1>8, <1>11, SavesBreakContext
<1>16. Proceeds(Now, a, none) /\ Good(a) /\ Current(a).code = c.code
       /\ Current(a).enclosing_loop = c.enclosing_loop
       /\ \A jumps : WaitFor(c, jumps) => WaitFor(Current(a), jumps)
    <2>1. c.enclosing_loop = Current(Now).enclosing_loop + none
        BY <1>8, <1>12, <1>14
    <2>. QED  BY <1>8, <1>11, <1>15, <2>1, ResetProceeds, ResetGrows
<1>17. Reset(a, s, start, Current(a).last_break, Current(a).enclosing_loop)
    <2>1. start <= Len(Current(a).code)
        BY <1>12, <1>16
    <2>. QED  BY <1>3, <1>12, <1>16, <2>1, ContinuesAt
<1>18. Proceeds(a, s, none) /\ Good(s) /\ d.last_continue = start
       /\ \A jumps : WaitFor(Current(a), jumps) => WaitFor(d, jumps)
    <2>1. Current(a).enclosing_loop = Current(a).enclosing_loop + none
        BY <1>12, <1>14, <1>16
    <2>. QED  BY <1>10, <1>16, <1>17, <2>1, ResetProceeds, ResetGrows
<1>19. Proceeds(Now, s, none)
    <2>1. none = none + none
        BY <1>14
    <2>. QED  BY <1>11, <1>14, <1>16, <1>18, <2>1, ProceedsOn
<1>20. PICK empty : empty = {}
    OBVIOUS
<1>21. Midway(d, r, end, none, none, empty)
    <2>1. Midway(c, r, end, none, none, empty)
        BY <1>11, <1>14, <1>20
    <2>2. WaitFor(c, JumpsIn(r) \cup empty) => WaitFor(d, JumpsIn(r) \cup empty)
        BY <1>16, <1>18
    <2>3. none = none + none /\ none \in Int
        BY <1>14
    <2>. QED  BY <1>8, <1>10, <1>11, <1>19, <2>1, <2>2, <2>3, MovesProceeding
<1>22. /\ LoopFits(d, loop) /\ Len(d.visible) >= Len(c.visible) /\ d.type = c.type
       /\ Follows(Now, s)
    BY <1>8, <1>10, <1>11, <1>13, <1>19, GrownFits DEF Proceeds
<1>23. PICK kind \in LoopTasks : kind = "whileBody"
    BY DEF LoopTasks
<1>24. /\ t \in Tasks /\ t.k = kind /\ t.loop = loop /\ t.k \in Based /\ Base(t) = loop.base
       /\ t.k # "endFunction" /\ Fits(d, t)
    <2>1. t = Loop(kind, loop) /\ kind # "forBody"
        BY <1>5, <1>23
    <2>2. loop.base <= Len(d.visible)
        BY <1>12, <1>13, <1>22
    <2>. QED  BY <1>13, <1>22, <2>1, <2>2, LoopTask
<1>25. One(t, ScopeTasks) = 0 /\ One(t, LoopEndTasks) = 0 /\ t.k \notin Strict
    <2>1. t.k = "whileBody"
        BY <1>23, <1>24
    <2>. QED  BY <2>1, Uncounted DEF ForTasks, LoopEnds, Strict
<1>26. Pushable(d, t, r)
    <2>1. \A i \in 1..Len(r) : t.k \in Based /\ r[i].k \in Based => Base(r[i]) <= Base(t)
        BY <1>11, <1>13, <1>24 DEF Outside
    <2>2. \A i \in 1..Len(r) : Before(t, r[i])
        BY <1>11, <1>24, <2>1, BeforeResting
    <2>3. OpenLoop(r, 0, t.loop.saved.continue)
        BY <1>11, <1>13, <1>24
    <2>. QED  BY <1>24, <2>2, <2>3 DEF Pushable
<1>27. PICK u : u = <<Expr, t>> \o r
    OBVIOUS
<1>28. /\ Midway(d, u, end, none - One(t, ScopeTasks), none - One(t, LoopEndTasks), empty)
       /\ \A p : StartsAt(t, p) => OpenLoop(u, 0, p)
    <2>1. empty \subseteq JumpsOf(t) \cup empty /\ none \in Int
        BY <1>14
    <2>2. \A i \in 1..Len(r) : r[i].k \notin Strict
        BY <1>11 DEF Resting, Waiting
    <2>. QED  BY <1>21, <1>25, <1>26, <1>27, <2>1, <2>2, ExprInFront
<1>29. Midway(d, u, end, 0, 0, {})
    <2>1. none - One(t, ScopeTasks) = 0 /\ none - One(t, LoopEndTasks) = 0
        BY <1>14, <1>25
    <2>. QED  BY <1>20, <1>28, <2>1
<1>30. OpenLoop(u, 0, d.last_continue)
    <2>1. StartsAt(t, start)
        BY <1>13, <1>23, <1>24 DEF StartsAt
    <2>. QED  BY <1>18, <1>28, <2>1
<1>31. u = <<Expr, t>> \o Rest
    BY <1>7, <1>27
<1>. QED  BY <1>6, <1>8, <1>9, <1>10, <1>22, <1>29, <1>30, <1>31, StatementKeeps

(* A task of a loop is next.                                               *)
LEMMA LoopBegins ==
    ASSUME Inv, NEW kind \in LoopTasks, Doing(kind), NEW h, h = Work[1], NEW r, r = Tail(Work),
           NEW c, c = Current(Now)
    PROVE  /\ Good(Now) /\ Head(Work) = h /\ h.k = kind /\ h \in Tasks /\ r \in Seq(Tasks)
           /\ LoopFits(c, h.loop) /\ h.loop.base <= Len(c.visible) /\ h.loop.base \in Nat
           /\ (kind = "forBody" => h.loop.body > 0)
           /\ Resting(r) /\ Outside(r, h.loop.base) /\ OpenLoop(r, 0, h.loop.saved.continue)
           /\ Midway(c, r, Last(Work), (IF kind \in ForTasks THEN 1 ELSE 0),
                     (IF kind \in LoopEnds THEN 1 ELSE 0), JumpsOf(h))
           /\ (~StartsAt(h, c.last_continue) => OpenLoop(r, 0, c.last_continue))
<1>1. kind # "endFunction"
    BY DEF LoopTasks
<1>2. /\ Good(Now) /\ Head(Work) = h /\ h.k = kind /\ h \in Tasks
      /\ Fits(c, h) /\ r \in Seq(Tasks)
      /\ Midway(c, r, Last(Work), One(h, ScopeTasks), One(h, LoopEndTasks), JumpsOf(h))
      /\ \A i \in 1..Len(r) : Before(h, r[i])
      /\ (~StartsAt(h, c.last_continue) => OpenLoop(r, 0, c.last_continue))
      /\ (h.k \in LoopTasks => OpenLoop(r, 0, h.loop.saved.continue))
    BY <1>1, TaskBegins
<1>3. h.loop \in Loops /\ h.k \in Based /\ Base(h) = h.loop.base
    BY <1>2, TaskTypes DEF Based, Base
<1>4. LoopFits(c, h.loop) /\ h.loop.base <= Len(c.visible)
      /\ (kind = "forBody" => h.loop.body > 0)
    BY <1>2, <1>3 DEF Fits, LoopFits
<1>5. Resting(r) /\ Outside(r, h.loop.base)
    <2>1. h.k \notin ExprTasks \cup {"define", "methods"}
        BY <1>2 DEF LoopTasks, ExprTasks
    <2>. QED  BY <1>2, <1>3, <2>1, RestsBehind
<1>6. One(h, ScopeTasks) = (IF kind \in ForTasks THEN 1 ELSE 0)
    <2>1. h.k \notin {"endScope", "endClass"}
        BY <1>2 DEF LoopTasks
    <2>. QED  BY <1>2, <2>1 DEF One, ScopeTasks
<1>7. One(h, LoopEndTasks) = (IF kind \in LoopEnds THEN 1 ELSE 0)
    BY <1>2 DEF One, LoopEndTasks
<1>. QED  BY <1>2, <1>3, <1>4, <1>5, <1>6, <1>7, LoopTypes

(* The body of a loop, behind which the loop ends.                         *)
LEMMA LoopBodyKeeps ==
    ASSUME Inv, NEW kind \in {"whileBody", "forIter", "forBody"}, Doing(kind),
           NEW h, h = Work[1], NEW s, Proceeds(Now, s, 1), NEW c, c = Current(Now),
           NEW d, d = Current(s), d.last_continue = c.last_continue,
           NEW last \in LoopEnds, last = "whileEnd" <=> kind = "whileBody",
           NEW loop, LoopFits(d, loop), loop.base = h.loop.base, loop.saved = h.loop.saved,
           StartsAt(h, c.last_continue) => loop.start = c.last_continue,
           \A jumps : WaitFor(c, jumps \cup JumpsOf(h)) => WaitFor(d, jumps \cup {loop.exit}),
           Continue(s, <<Task("stat"), Loop(last, loop)>>)
    PROVE  Inv'
<1>1. PICK r : r = Tail(Work)
    OBVIOUS
<1>2. PICK end : end = Last(Work)
    OBVIOUS
<1>3. kind \in LoopTasks /\ kind \notin LoopEnds
    BY DEF LoopTasks, LoopEnds
<1>4. /\ Good(Now) /\ h.k = kind /\ r \in Seq(Tasks)
      /\ h.loop.base <= Len(c.visible) /\ h.loop.base \in Nat
      /\ Resting(r) /\ Outside(r, h.loop.base) /\ OpenLoop(r, 0, h.loop.saved.continue)
      /\ Midway(c, r, end, (IF kind \in ForTasks THEN 1 ELSE 0),
                (IF kind \in LoopEnds THEN 1 ELSE 0), JumpsOf(h))
      /\ (~StartsAt(h, c.last_continue) => OpenLoop(r, 0, c.last_continue))
    BY <1>1, <1>2, <1>3, LoopBegins
<1>5. PICK scopes \in Int : scopes = IF kind \in ForTasks THEN 1 ELSE 0
    OBVIOUS
<1>6. PICK none \in Int : none = 0
    OBVIOUS
<1>7. PICK one \in Int : one = 1
    OBVIOUS
<1>8. PICK before : before = JumpsOf(h)
    OBVIOUS
<1>9. PICK now : now = {loop.exit}
    OBVIOUS
<1>10. Midway(d, r, end, scopes, one, now)
    <2>1. Midway(c, r, end, scopes, none, before)
        BY <1>3, <1>4, <1>5, <1>6, <1>8
    <2>2. WaitFor(c, JumpsIn(r) \cup before) => WaitFor(d, JumpsIn(r) \cup now)
        BY <1>8, <1>9
    <2>3. one = none + one /\ Proceeds(Now, s, one) /\ none \in Int /\ one \in Int /\ scopes \in Int
        BY <1>5, <1>6, <1>7
    <2>. QED  BY <1>4, <2>1, <2>2, <2>3, MovesProceeding
<1>11. Passes(c, d, 1) /\ Follows(Now, s) /\ Good(s)
    BY DEF Proceeds
<1>12. Len(d.visible) >= Len(c.visible) /\ d.type = c.type
       /\ Len(c.visible) \in Nat /\ Len(d.visible) \in Nat
    BY <1>4, <1>11, LoopFields DEF Passes
<1>13. loop \in Loops /\ last \in LoopTasks /\ last # "forBody"
       /\ last \in {"whileEnd", "forIter", "forEnd"} /\ last \in LoopEnds
    BY DEF LoopFits, LoopEnds, LoopTasks
<1>14. PICK t : t = Loop(last, loop)
    OBVIOUS
<1>15. /\ t \in Tasks /\ t.k = last /\ t.loop = loop /\ t.k \in Based /\ Base(t) = loop.base
       /\ t.k # "endFunction" /\ Fits(d, t) /\ JumpsOf(t) = {loop.exit}
       /\ One(t, ScopeTasks) = (IF last \in ForTasks THEN 1 ELSE 0)
       /\ One(t, LoopEndTasks) = (IF last \in LoopEnds THEN 1 ELSE 0)
    <2>1. loop.base <= Len(d.visible)
        BY <1>4, <1>12
    <2>. QED  BY <1>13, <1>14, <2>1, LoopTask
<1>16. One(t, ScopeTasks) = scopes /\ One(t, LoopEndTasks) = one
    <2>1. last \in ForTasks <=> kind \in ForTasks
        BY DEF ForTasks, LoopEnds
    <2>. QED  BY <1>5, <1>7, <1>13, <1>15, <2>1
<1>17. Pushable(d, t, r)
    <2>1. \A i \in 1..Len(r) : t.k \in Based /\ r[i].k \in Based => Base(r[i]) <= Base(t)
        BY <1>4, <1>15 DEF Outside
    <2>2. \A i \in 1..Len(r) : Before(t, r[i])
        BY <1>4, <1>15, <2>1, BeforeResting
    <2>3. OpenLoop(r, 0, t.loop.saved.continue)
        BY <1>4, <1>15
    <2>. QED  BY <1>15, <2>2, <2>3 DEF Pushable
<1>18. PICK u : u = <<Task("stat"), t>> \o r
    OBVIOUS
<1>19. PICK name \in Statements : name = "stat"
    BY DEF Statements
<1>20. PICK e \in Tasks : e.k \in Statements /\ u = Ahead(e, Ahead(t, r))
    BY <1>4, <1>15, <1>18, <1>19, StatementTask
<1>21. PICK empty : empty = {}
    OBVIOUS
<1>22. t.k \notin Waiting
    BY <1>13, <1>15 DEF LoopEnds, Waiting, AfterExprs, Strict
<1>23. /\ Midway(d, u, end, scopes - One(t, ScopeTasks), one - One(t, LoopEndTasks), empty)
       /\ \A p : OpenLoop(r, 0, p) => OpenLoop(u, 0, p)
       /\ \A p : StartsAt(t, p) => OpenLoop(u, 0, p)
    <2>1. now \subseteq JumpsOf(t) \cup empty /\ scopes \in Int /\ one \in Int
        BY <1>5, <1>7, <1>9, <1>15
    <2>2. e \in Tasks /\ e.k \in Statements /\ u = Ahead(e, Ahead(t, r))
        BY <1>20
    <2>3. Resting(r)
        BY <1>4
    <2>. QED  BY <1>10, <1>17, <1>22, <2>1, <2>2, <2>3, StatInFront
<1>24. Midway(d, u, end, 0, 0, {})
    <2>1. scopes - One(t, ScopeTasks) = 0 /\ one - One(t, LoopEndTasks) = 0
        BY <1>5, <1>7, <1>16
    <2>. QED  BY <1>21, <1>23, <2>1
<1>25. OpenLoop(u, 0, d.last_continue)
    <2>1. CASE StartsAt(h, c.last_continue)
        <3>1. StartsAt(t, c.last_continue)
            BY <2>1, <1>15 DEF StartsAt, LoopEnds
        <3>. QED  BY <1>23, <3>1
    <2>2. CASE ~StartsAt(h, c.last_continue)
        BY <1>4, <1>23, <2>2
    <2>. QED  BY <2>1, <2>2
<1>26. u = <<Task("stat"), Loop(last, loop)>> \o Tail(Work)
    BY <1>1, <1>14, <1>18
<1>. QED  BY <1>2, <1>11, <1>12, <1>24, <1>25, <1>26, ContinueKeeps

LEMMA LoopChanges ==
    ASSUME NEW loop \in Loops, NEW n \in Nat
    PROVE  /\ [loop EXCEPT !.exit = n] \in Loops /\ [loop EXCEPT !.exit = n].exit = n
           /\ [loop EXCEPT !.exit = n].base = loop.base /\ [loop EXCEPT !.exit = n].body = loop.body
           /\ [loop EXCEPT !.exit = n].start = loop.start
           /\ [loop EXCEPT !.exit = n].saved = loop.saved
           /\ [loop EXCEPT !.body = n] \in Loops /\ [loop EXCEPT !.body = n].body = n
           /\ [loop EXCEPT !.body = n].base = loop.base /\ [loop EXCEPT !.body = n].exit = loop.exit
           /\ [loop EXCEPT !.body = n].start = loop.start
           /\ [loop EXCEPT !.body = n].saved = loop.saved
           /\ [loop EXCEPT !.start = n] \in Loops /\ [loop EXCEPT !.start = n].start = n
           /\ [loop EXCEPT !.start = n].base = loop.base
           /\ [loop EXCEPT !.start = n].exit = loop.exit
           /\ [loop EXCEPT !.start = n].body = loop.body
           /\ [loop EXCEPT !.start = n].saved = loop.saved
BY DEF Loops

LEMMA EnclosesMore ==
    ASSUME NEW s, Good(s), NEW t, t = Enclose(s, 1)
    PROVE  /\ Proceeds(s, t, 1) /\ Current(t).last_continue = Current(s).last_continue
           /\ Current(t).code = Current(s).code
           /\ \A jumps : WaitFor(Current(s), jumps) => WaitFor(Current(t), jumps)
<1>1. PICK one \in Int : one = 1
    OBVIOUS
<1>2. PICK c : c = Current(s)
    OBVIOUS
<1>3. t = Enclose(s, one) /\ c.enclosing_loop + one \in Nat
    BY <1>1, <1>2, LoopFields
<1>4. Reset(s, t, c.last_continue, c.last_break, c.enclosing_loop + one)
    BY <1>1, <1>2, <1>3, Encloses
<1>5. Proceeds(s, t, one)
    BY <1>2, <1>4, ResetProceeds
<1>. QED  BY <1>1, <1>2, <1>4, <1>5, ResetGrows

LEMMA WhileBodyKeeps ==
    ASSUME Inv, WhileBody
    PROVE  Inv'
<1>1. PICK h : h = Work[1]
    OBVIOUS
<1>2. PICK a : a = EmitJump(Now, "JUMP_IF_FALSE")
    OBVIOUS
<1>3. PICK b : b = Emit(a, "POP", 0)
    OBVIOUS
<1>4. PICK s : s = Enclose(b, 1)
    OBVIOUS
<1>5. PICK jump : jump = Position(a)
    OBVIOUS
<1>6. PICK c : c = Current(Now)
    OBVIOUS
<1>7. PICK d : d = Current(s)
    OBVIOUS
<1>8. PICK kind \in {"whileBody", "forIter", "forBody"} : kind = "whileBody"
    OBVIOUS
<1>9. Doing(kind) /\ kind \in LoopTasks
    BY <1>8 DEF WhileBody, LoopTasks
<1>10. /\ Good(Now) /\ Head(Work) = h /\ h.k = kind
       /\ LoopFits(c, h.loop) /\ h.loop \in Loops
    BY <1>1, <1>6, <1>9, LoopBegins DEF LoopFits
<1>11. PICK loop : loop = [h.loop EXCEPT !.exit = jump]
    OBVIOUS
<1>12. PICK last \in LoopEnds : last = "whileEnd"
    BY DEF LoopEnds
<1>13. Continue(s, <<Task("stat"), Loop(last, loop)>>)
    BY <1>2, <1>3, <1>4, <1>5, <1>10, <1>11, <1>12 DEF WhileBody
<1>14. Branches(Now, a, jump) /\ Good(a)
    BY <1>2, <1>5, <1>10, EmitsJump
<1>15. GoesOn(a, b) /\ Good(b) /\ Len(Current(b).code) = Len(Current(a).code) + 1
       /\ \A jumps : WaitFor(Current(a), jumps) => WaitFor(Current(b), jumps)
    BY <1>3, <1>14, PopsInPassing
<1>16. GoesOn(Now, b)
    BY <1>10, <1>14, <1>15, GoesOnOn DEF Branches
<1>17. /\ Proceeds(b, s, 1) /\ d.last_continue = Current(b).last_continue
       /\ d.code = Current(b).code
       /\ \A jumps : WaitFor(Current(b), jumps) => WaitFor(d, jumps)
    BY <1>4, <1>7, <1>15, EnclosesMore
<1>18. Proceeds(Now, s, 1)
    <2>1. Proceeds(Now, b, 0)
        BY <1>10, <1>16, SteadyProceeds
    <2>2. PICK one \in Int : one = 1
        OBVIOUS
    <2>3. PICK none \in Int : none = 0
        OBVIOUS
    <2>4. Proceeds(Now, b, none) /\ Proceeds(b, s, one) /\ one = none + one
        BY <1>17, <2>1, <2>2, <2>3
    <2>5. Proceeds(Now, s, one)
        BY <1>10, <2>2, <2>3, <2>4, ProceedsOn
    <2>. QED  BY <2>2, <2>5
<1>19. d.last_continue = c.last_continue
    BY <1>6, <1>16, <1>17 DEF GoesOn, Steady, SameSettings
<1>20. jump \in Nat /\ jump <= Len(d.code)
    <2>1. Len(Current(a).code) \in Nat
        BY <1>14, LoopFields
    <2>. QED  BY <1>14, <1>15, <1>17, <2>1 DEF Branches
<1>21. LoopFits(d, h.loop)
    BY <1>6, <1>7, <1>10, <1>18, GrownFits
<1>22. /\ LoopFits(d, loop) /\ loop.base = h.loop.base /\ loop.saved = h.loop.saved
       /\ loop.start = h.loop.start /\ loop.exit = jump
    BY <1>10, <1>11, <1>20, <1>21, LoopChanges DEF LoopFits
<1>23. StartsAt(h, c.last_continue) => loop.start = c.last_continue
    BY <1>8, <1>10, <1>22 DEF StartsAt
<1>24. ASSUME NEW jumps, WaitFor(c, jumps \cup JumpsOf(h))
       PROVE  WaitFor(d, jumps \cup {loop.exit})
    <2>1. h.k = "whileBody"
        BY <1>8, <1>10
    <2>2. JumpsOf(h) = {}
        BY <2>1, Zenon DEF JumpsOf
    <2>3. jumps \cup JumpsOf(h) = jumps
        BY <2>2
    <2>. QED  BY <1>6, <1>14, <1>15, <1>17, <1>22, <1>24, <2>3 DEF Branches
<1>25. last = "whileEnd" <=> kind = "whileBody"
    BY <1>8, <1>12
<1>. QED  BY <1>1, <1>6, <1>7, <1>9, <1>13, <1>18, <1>19, <1>22, <1>23, <1>24, <1>25, LoopBodyKeeps

LEMMA WhileEndKeeps ==
    ASSUME Inv, WhileEnd
    PROVE  Inv'
<1>1. PICK h : h = Work[1]
    OBVIOUS
<1>2. PICK r : r = Tail(Work)
    OBVIOUS
<1>3. PICK c : c = Current(Now)
    OBVIOUS
<1>4. PICK kind \in LoopTasks : kind = "whileEnd"
    BY DEF LoopTasks
<1>5. PICK s : s = CloseLoop(Now, h.loop)
    OBVIOUS
<1>6. PICK d : d = Current(s)
    OBVIOUS
<1>7. Doing(kind)
    BY <1>4 DEF WhileEnd
<1>8. PICK end : end = Last(Work)
    OBVIOUS
<1>9. PICK one \in Int : one = 1
    OBVIOUS
<1>10. PICK none \in Int : none = 0
    OBVIOUS
<1>11. /\ Good(Now) /\ Head(Work) = h /\ h.k = kind /\ LoopFits(c, h.loop)
       /\ OpenLoop(r, 0, h.loop.saved.continue) /\ r \in Seq(Tasks)
       /\ Midway(c, r, end, (IF kind \in ForTasks THEN 1 ELSE 0),
                 (IF kind \in LoopEnds THEN 1 ELSE 0), JumpsOf(h))
    BY <1>1, <1>2, <1>3, <1>7, <1>8, LoopBegins
<1>12. kind \notin ForTasks /\ kind \in LoopEnds
    BY <1>4 DEF ForTasks, LoopEnds
<1>13. PICK before : before = JumpsOf(h)
    OBVIOUS
<1>14. Midway(c, r, end, none, one, before)
    BY <1>9, <1>10, <1>11, <1>12, <1>13
<1>15. c.enclosing_loop > 0
    <2>1. Pending(c, r) /\ c.enclosing_loop = Cardinality(Marked(r, LoopEndTasks)) + one
        BY <1>14 DEF Midway
    <2>. QED  BY <1>9, <2>1, MarksAreNat
<1>16. /\ Proceeds(Now, s, -1) /\ d.last_continue = h.loop.saved.continue
       /\ \A jumps, less : WaitFor(c, jumps) /\ jumps \subseteq less \cup {h.loop.exit} =>
            WaitFor(d, less)
    BY <1>3, <1>5, <1>6, <1>11, <1>15, ClosesLoop
<1>17. before = {h.loop.exit}
    <2>1. h.k = "whileEnd"
        BY <1>4, <1>11
    <2>. QED  BY <1>13, <2>1, Zenon DEF JumpsOf
<1>18. PICK less \in Int : less = -1
    OBVIOUS
<1>19. PICK empty : empty = {}
    OBVIOUS
<1>20. Midway(d, r, end, none, none, empty)
    <2>1. WaitFor(c, JumpsIn(r) \cup before) => WaitFor(d, JumpsIn(r) \cup empty)
        BY <1>16, <1>17
    <2>2. none = one + less /\ Proceeds(Now, s, less)
        BY <1>9, <1>10, <1>16, <1>18
    <2>. QED  BY <1>3, <1>6, <1>9, <1>10, <1>11, <1>14, <1>18, <2>1, <2>2, MovesProceeding
<1>21. Midway(d, r, end, 0, 0, {})
    BY <1>10, <1>19, <1>20
<1>22. Follows(Now, s) /\ d.type = c.type
    BY <1>3, <1>6, <1>16 DEF Proceeds, Passes
<1>23. Continue(s, <<>>)
    BY <1>5, <1>11 DEF WhileEnd
<1>. QED  BY <1>2, <1>3, <1>6, <1>7, <1>8, <1>11, <1>16, <1>21, <1>22, <1>23, DoneKeeps

(* From one part of a for statement to the next, before its body.          *)
LEMMA ForTaskKeeps ==
    ASSUME Inv, NEW kind \in {"forCond", "forExit", "forIter"}, Doing(kind),
           NEW h, h = Work[1], NEW s, Proceeds(Now, s, 0), NEW c, c = Current(Now),
           NEW d, d = Current(s),
           NEW last \in {"forExit", "forIter", "forBody"}, NEW loop, NEW t, t = Loop(last, loop),
           LoopFits(d, loop), loop.base = h.loop.base, loop.saved = h.loop.saved,
           last = "forBody" => loop.body > 0,
           d.last_continue = c.last_continue \/ StartsAt(t, d.last_continue),
           \A jumps : WaitFor(c, jumps \cup JumpsOf(h)) => WaitFor(d, jumps \cup JumpsOf(t)),
           \/ Continue(s, <<t>>)
           \/ last # "forIter" /\ Continue(s, <<Expr, t>>)
    PROVE  Inv'
<1>1. PICK r : r = Tail(Work)
    OBVIOUS
<1>2. PICK end : end = Last(Work)
    OBVIOUS
<1>3. kind \in LoopTasks /\ kind \notin LoopEnds /\ kind \in ForTasks
    BY DEF LoopTasks, LoopEnds, ForTasks
<1>4. /\ Good(Now) /\ h.k = kind /\ r \in Seq(Tasks)
      /\ h.loop.base <= Len(c.visible) /\ h.loop.base \in Nat
      /\ Resting(r) /\ Outside(r, h.loop.base) /\ OpenLoop(r, 0, h.loop.saved.continue)
      /\ Midway(c, r, end, (IF kind \in ForTasks THEN 1 ELSE 0),
                (IF kind \in LoopEnds THEN 1 ELSE 0), JumpsOf(h))
      /\ (~StartsAt(h, c.last_continue) => OpenLoop(r, 0, c.last_continue))
    BY <1>1, <1>2, <1>3, LoopBegins
<1>5. PICK one \in Int : one = 1
    OBVIOUS
<1>6. PICK none \in Int : none = 0
    OBVIOUS
<1>7. PICK before : before = JumpsOf(h)
    OBVIOUS
<1>8. PICK now : now = JumpsOf(t)
    OBVIOUS
<1>9. Midway(d, r, end, one, none, now)
    <2>1. Midway(c, r, end, one, none, before)
        BY <1>3, <1>4, <1>5, <1>6, <1>7
    <2>2. WaitFor(c, JumpsIn(r) \cup before) => WaitFor(d, JumpsIn(r) \cup now)
        BY <1>7, <1>8
    <2>3. none = none + none /\ Proceeds(Now, s, none) /\ none \in Int /\ one \in Int
        BY <1>5, <1>6
    <2>. QED  BY <1>4, <2>1, <2>2, <2>3, MovesProceeding
<1>10. Passes(c, d, 0) /\ Follows(Now, s) /\ Good(s)
    BY DEF Proceeds
<1>11. loop.base <= Len(d.visible) /\ d.type = c.type
    <2>1. Len(d.visible) >= Len(c.visible) /\ Len(c.visible) \in Nat /\ Len(d.visible) \in Nat
          /\ d.type = c.type
        BY <1>4, <1>10, LoopFields DEF Passes
    <2>. QED  BY <1>4, <2>1
<1>12. loop \in Loops /\ last \in LoopTasks /\ last \in ForTasks /\ last \notin LoopEnds
    BY DEF LoopFits, LoopEnds, LoopTasks, ForTasks
<1>13. /\ t \in Tasks /\ t.k = last /\ t.loop = loop /\ t.k \in Based /\ Base(t) = loop.base
       /\ t.k # "endFunction" /\ Fits(d, t)
       /\ One(t, ScopeTasks) = (IF last \in ForTasks THEN 1 ELSE 0)
       /\ One(t, LoopEndTasks) = (IF last \in LoopEnds THEN 1 ELSE 0)
    BY <1>11, <1>12, LoopTask
<1>14. One(t, ScopeTasks) = one /\ One(t, LoopEndTasks) = none
    BY <1>5, <1>6, <1>12, <1>13
<1>15. Pushable(d, t, r)
    <2>1. \A i \in 1..Len(r) : t.k \in Based /\ r[i].k \in Based => Base(r[i]) <= Base(t)
        BY <1>4, <1>13 DEF Outside
    <2>2. \A i \in 1..Len(r) : Before(t, r[i])
        BY <1>4, <1>13, <2>1, BeforeResting
    <2>3. OpenLoop(r, 0, t.loop.saved.continue)
        BY <1>4, <1>13
    <2>. QED  BY <1>13, <2>2, <2>3 DEF Pushable
<1>16. PICK empty : empty = {}
    OBVIOUS
<1>17. now \subseteq JumpsOf(t) \cup empty
    BY <1>8
<1>18. PICK scopes : scopes = one - One(t, ScopeTasks)
    OBVIOUS
<1>19. PICK loops : loops = none - One(t, LoopEndTasks)
    OBVIOUS
<1>20. scopes = 0 /\ loops = 0
    BY <1>5, <1>6, <1>14, <1>18, <1>19
<1>21. ~StartsAt(h, c.last_continue)
    <2>1. h.k \notin {"whileBody", "whileEnd", "forEnd", "forBody"}
        BY <1>4
    <2>. QED  BY <2>1 DEF StartsAt
<1>22. ASSUME NEW u, Midway(d, u, end, scopes, loops, empty),
              \A p : OpenLoop(r, 0, p) => OpenLoop(u, 0, p),
              \A p : StartsAt(t, p) => OpenLoop(u, 0, p)
       PROVE  Midway(d, u, end, 0, 0, {}) /\ OpenLoop(u, 0, d.last_continue)
    <2>1. OpenLoop(r, 0, c.last_continue)
        BY <1>4, <1>21
    <2>2. Midway(d, u, end, 0, 0, {})
        BY <1>16, <1>20, <1>22
    <2>. QED  BY <1>22, <2>1, <2>2
<1>23. CASE Continue(s, <<t>>)
    <2>1. PICK u : u = Ahead(t, r)
        OBVIOUS
    <2>2. /\ Midway(d, u, end, scopes, loops, empty)
          /\ \A p : OpenLoop(r, 0, p) => OpenLoop(u, 0, p)
          /\ \A p : StartsAt(t, p) => OpenLoop(u, 0, p)
        BY <1>5, <1>6, <1>9, <1>15, <1>17, <1>18, <1>19, <2>1, PutsInFront
    <2>3. Midway(d, u, end, 0, 0, {}) /\ OpenLoop(u, 0, d.last_continue)
        BY <1>22, <2>2
    <2>4. u = <<t>> \o Tail(Work)
        BY <1>1, <2>1 DEF Ahead
    <2>. QED  BY <1>2, <1>10, <1>11, <1>23, <2>3, <2>4, ContinueKeeps
<1>24. CASE last # "forIter" /\ Continue(s, <<Expr, t>>)
    <2>1. PICK u : u = <<Expr, t>> \o r
        OBVIOUS
    <2>2. t.k \notin Strict
        BY <1>13, <1>24 DEF Strict
    <2>3. \A i \in 1..Len(r) : r[i].k \notin Strict
        BY <1>4 DEF Resting, Waiting
    <2>4. /\ Midway(d, u, end, scopes, loops, empty)
          /\ \A p : OpenLoop(r, 0, p) => OpenLoop(u, 0, p)
          /\ \A p : StartsAt(t, p) => OpenLoop(u, 0, p)
        BY <1>5, <1>6, <1>9, <1>15, <1>17, <1>18, <1>19, <2>1, <2>2, <2>3, ExprInFront
    <2>5. Midway(d, u, end, 0, 0, {}) /\ OpenLoop(u, 0, d.last_continue)
        BY <1>22, <2>4
    <2>6. u = <<Expr, t>> \o Tail(Work)
        BY <1>1, <2>1
    <2>. QED  BY <1>2, <1>10, <1>11, <1>24, <2>5, <2>6, ContinueKeeps
<1>. QED  BY <1>23, <1>24

LEMMA ProceedsSelf ==
    ASSUME NEW s, Good(s)
    PROVE  Proceeds(s, s, 0)
<1>1. GoesOn(s, s)
    BY FollowsSelf
<1>. QED  BY <1>1, SteadyProceeds

LEMMA ForConditionKeeps ==
    ASSUME Inv, ForCondition
    PROVE  Inv'
<1>1. PICK h : h = Work[1]
    OBVIOUS
<1>2. PICK c : c = Current(Now)
    OBVIOUS
<1>3. PICK kind \in {"forCond", "forExit", "forIter"} : kind = "forCond"
    OBVIOUS
<1>4. Doing(kind) /\ kind \in LoopTasks
    BY <1>3 DEF ForCondition, LoopTasks
<1>5. Good(Now) /\ Head(Work) = h /\ h.k = kind /\ LoopFits(c, h.loop) /\ h.loop \in Loops
    BY <1>1, <1>2, <1>4, LoopBegins DEF LoopFits
<1>6. PICK start : start = Position(Now)
    OBVIOUS
<1>7. start \in Nat /\ start <= Len(c.code)
    BY <1>2, <1>5, <1>6, LoopFields DEF Position
<1>8. PICK loop : loop = [h.loop EXCEPT !.start = start]
    OBVIOUS
<1>9. LoopFits(c, loop) /\ loop.base = h.loop.base /\ loop.saved = h.loop.saved
      /\ loop.exit = h.loop.exit
    BY <1>5, <1>7, <1>8, LoopChanges DEF LoopFits
<1>10. Proceeds(Now, Now, 0)
    BY <1>5, ProceedsSelf
<1>11. JumpsOf(h) = {}
    <2>1. h.k = "forCond"
        BY <1>3, <1>5
    <2>. QED  BY <2>1, Zenon DEF JumpsOf
<1>12. \A jumps, now : WaitFor(c, jumps \cup JumpsOf(h)) => WaitFor(c, jumps \cup now)
    <2>1. \A jumps, now : jumps \cup JumpsOf(h) \subseteq jumps \cup now
        BY <1>11
    <2>. QED  BY <2>1, WaitsForMore
<1>13. CASE Continue(Now, <<Loop("forIter", loop)>>)
    <2>1. PICK last \in {"forExit", "forIter", "forBody"} : last = "forIter"
        OBVIOUS
    <2>2. PICK t : t = Loop(last, loop)
        OBVIOUS
    <2>3. Continue(Now, <<t>>) /\ last # "forBody"
        BY <1>13, <2>1, <2>2
    <2>. QED  BY <1>1, <1>2, <1>4, <1>9, <1>10, <1>12, <2>2, <2>3, ForTaskKeeps
<1>14. CASE Continue(Now, <<Expr, Loop("forExit", loop)>>)
    <2>1. PICK last \in {"forExit", "forIter", "forBody"} : last = "forExit"
        OBVIOUS
    <2>2. PICK t : t = Loop(last, loop)
        OBVIOUS
    <2>3. Continue(Now, <<Expr, t>>) /\ last # "forBody" /\ last # "forIter"
        BY <1>14, <2>1, <2>2
    <2>. QED  BY <1>1, <1>2, <1>4, <1>9, <1>10, <1>12, <2>2, <2>3, ForTaskKeeps
<1>. QED  BY <1>5, <1>6, <1>8, <1>13, <1>14 DEF ForCondition

LEMMA ForExitKeeps ==
    ASSUME Inv, ForExit
    PROVE  Inv'
<1>1. PICK h : h = Work[1]
    OBVIOUS
<1>2. PICK c : c = Current(Now)
    OBVIOUS
<1>3. PICK kind \in {"forCond", "forExit", "forIter"} : kind = "forExit"
    OBVIOUS
<1>4. Doing(kind) /\ kind \in LoopTasks
    BY <1>3 DEF ForExit, LoopTasks
<1>5. Good(Now) /\ Head(Work) = h /\ h.k = kind /\ LoopFits(c, h.loop) /\ h.loop \in Loops
    BY <1>1, <1>2, <1>4, LoopBegins DEF LoopFits
<1>6. PICK a : a = EmitJump(Now, "JUMP_IF_FALSE")
    OBVIOUS
<1>7. PICK s : s = Emit(a, "POP", 0)
    OBVIOUS
<1>8. PICK d : d = Current(s)
    OBVIOUS
<1>9. PICK jump : jump = Position(a)
    OBVIOUS
<1>10. PICK loop : loop = [h.loop EXCEPT !.exit = jump]
    OBVIOUS
<1>11. PICK last \in {"forExit", "forIter", "forBody"} : last = "forIter"
    OBVIOUS
<1>12. PICK t : t = Loop(last, loop)
    OBVIOUS
<1>13. Branches(Now, a, jump) /\ Good(a)
    BY <1>5, <1>6, <1>9, EmitsJump
<1>14. GoesOn(a, s) /\ Good(s) /\ Len(d.code) = Len(Current(a).code) + 1
       /\ \A jumps : WaitFor(Current(a), jumps) => WaitFor(d, jumps)
    BY <1>7, <1>8, <1>13, PopsInPassing
<1>15. GoesOn(Now, s)
    BY <1>5, <1>13, <1>14, GoesOnOn DEF Branches
<1>16. Proceeds(Now, s, 0)
    BY <1>5, <1>15, SteadyProceeds
<1>17. d.last_continue = c.last_continue
    BY <1>2, <1>8, <1>15 DEF GoesOn, Steady, SameSettings
<1>18. jump \in Nat /\ jump <= Len(d.code)
    <2>1. Len(Current(a).code) \in Nat
        BY <1>13, LoopFields
    <2>. QED  BY <1>13, <1>14, <2>1 DEF Branches
<1>19. LoopFits(d, h.loop)
    BY <1>2, <1>5, <1>8, <1>16, GrownFits
<1>20. /\ LoopFits(d, loop) /\ loop.base = h.loop.base /\ loop.saved = h.loop.saved
       /\ loop.exit = jump /\ loop \in Loops
    BY <1>5, <1>10, <1>18, <1>19, LoopChanges DEF LoopFits
<1>21. JumpsOf(t) = {jump}
    <2>1. last \in LoopTasks /\ last \in {"whileEnd", "forIter", "forEnd"}
        BY <1>11 DEF LoopTasks
    <2>. QED  BY <1>12, <1>20, <2>1, LoopTask
<1>22. ASSUME NEW jumps, WaitFor(c, jumps \cup JumpsOf(h))
       PROVE  WaitFor(d, jumps \cup JumpsOf(t))
    <2>1. h.k = "forExit"
        BY <1>3, <1>5
    <2>2. JumpsOf(h) = {}
        BY <2>1, Zenon DEF JumpsOf
    <2>3. jumps \cup JumpsOf(h) = jumps
        BY <2>2
    <2>. QED  BY <1>2, <1>13, <1>14, <1>21, <1>22, <2>3 DEF Branches
<1>23. Continue(s, <<t>>)
    BY <1>5, <1>6, <1>7, <1>9, <1>10, <1>11, <1>12 DEF ForExit
<1>24. last # "forBody"
    BY <1>11
<1>. QED  BY <1>1, <1>2, <1>4, <1>8, <1>12, <1>16, <1>17, <1>20, <1>22, <1>23, <1>24, ForTaskKeeps

(* Only the height of the stack is another.                                *)
LEMMA Reheighted ==
    ASSUME NEW s, Good(s), NEW height \in Int,
           NEW t, t = Update(s, [Current(s) EXCEPT !.height = height])
    PROVE  /\ GoesOn(s, t) /\ Good(t) /\ Current(t).code = Current(s).code
           /\ \A jumps : WaitFor(Current(s), jumps) => WaitFor(Current(t), jumps)
<1>1. PICK c : c = Current(s)
    OBVIOUS
<1>2. PICK d : d = [c EXCEPT !.height = height]
    OBVIOUS
<1>3. Fine(c) /\ c \in Contexts
    BY <1>1, CurrentIsFine
<1>4. /\ d \in Contexts /\ d.type = c.type /\ d.arity = c.arity /\ d.locals = c.locals
      /\ d.upvalues = c.upvalues /\ d.scopeDepth = c.scopeDepth
      /\ d.last_continue = c.last_continue /\ d.last_break = c.last_break
      /\ d.last_scope_depth = c.last_scope_depth /\ d.enclosing_loop = c.enclosing_loop
      /\ d.code = c.code /\ d.visible = c.visible
    BY <1>2, <1>3 DEF Contexts
<1>5. Fine(d)
    BY <1>3, <1>4 DEF Fine
<1>6. Follows(s, t) /\ Current(t) = d
    BY <1>1, <1>2, <1>5, Updated
<1>7. Len(d.code) >= Len(c.code)
    BY <1>3, <1>4, ContextTypes
<1>8. Steady(c, d)
    BY <1>4, <1>7 DEF Steady, SameLocals, SameSettings
<1>. QED  BY <1>1, <1>4, <1>6, <1>8 DEF GoesOn, Follows, WaitFor

LEMMA ForIterationKeeps ==
    ASSUME Inv, ForIteration
    PROVE  Inv'
<1>1. PICK h : h = Work[1]
    OBVIOUS
<1>2. PICK c : c = Current(Now)
    OBVIOUS
<1>3. PICK kind \in {"forCond", "forExit", "forIter"} : kind = "forIter"
    OBVIOUS
<1>4. Doing(kind) /\ kind \in LoopTasks
    BY <1>3 DEF ForIteration, LoopTasks
<1>5. /\ Good(Now) /\ Head(Work) = h /\ h.k = kind /\ LoopFits(c, h.loop) /\ h.loop \in Loops
    BY <1>1, <1>2, <1>4, LoopBegins DEF LoopFits
<1>6. JumpsOf(h) = {h.loop.exit}
    <2>1. h.k = "forIter"
        BY <1>3, <1>5
    <2>. QED  BY <2>1, Zenon DEF JumpsOf
<1>7. ~StartsAt(h, c.last_continue)
    BY <1>3, <1>5 DEF StartsAt
<1>8. CASE Continue(Enclose(Now, 1), ForBody(h.loop))
    <2>1. PICK s : s = Enclose(Now, 1)
        OBVIOUS
    <2>2. PICK d : d = Current(s)
        OBVIOUS
    <2>3. PICK start \in {"whileBody", "forIter", "forBody"} : start = "forIter"
        OBVIOUS
    <2>4. PICK last \in LoopEnds : last = "forEnd"
        BY DEF LoopEnds
    <2>5. PICK loop : loop = h.loop
        OBVIOUS
    <2>6. /\ Proceeds(Now, s, 1) /\ d.last_continue = c.last_continue /\ d.code = c.code
          /\ \A jumps : WaitFor(c, jumps) => WaitFor(d, jumps)
        BY <1>2, <1>5, <2>1, <2>2, EnclosesMore
    <2>7. LoopFits(d, loop)
        BY <1>2, <1>5, <2>2, <2>5, <2>6, GrownFits
    <2>8. Continue(s, <<Task("stat"), Loop(last, loop)>>)
        BY <1>8, <2>1, <2>4, <2>5 DEF ForBody
    <2>9. Doing(start) /\ (last = "whileEnd" <=> start = "whileBody")
        BY <1>3, <1>4, <2>3, <2>4
    <2>10. \A jumps : WaitFor(c, jumps \cup JumpsOf(h)) => WaitFor(d, jumps \cup {loop.exit})
        BY <1>6, <2>5, <2>6
    <2>11. loop.base = h.loop.base /\ loop.saved = h.loop.saved
           /\ (StartsAt(h, c.last_continue) => loop.start = c.last_continue)
        BY <1>7, <2>5
    <2>. QED  BY <1>1, <1>2, <2>2, <2>6, <2>7, <2>8, <2>9, <2>10, <2>11, LoopBodyKeeps
<1>9. PICK a : a = EmitJump(Now, "JUMP")
    OBVIOUS
<1>10. PICK b : b = Update(a, [Current(a) EXCEPT !.height = Current(Now).height])
    OBVIOUS
<1>11. PICK jump : jump = Position(a)
    OBVIOUS
<1>12. PICK s : s = ContinueAt(b, jump)
    OBVIOUS
<1>13. PICK loop : loop = [h.loop EXCEPT !.body = jump]
    OBVIOUS
<1>14. CASE Continue(s, <<Expr, Loop("forBody", loop)>>)
    <2>1. PICK last \in {"forExit", "forIter", "forBody"} : last = "forBody"
        OBVIOUS
    <2>2. PICK t : t = Loop(last, loop)
        OBVIOUS
    <2>3. PICK d : d = Current(s)
        OBVIOUS
    <2>4. Branches(Now, a, jump) /\ Good(a)
        BY <1>5, <1>9, <1>11, EmitsJump
    <2>5. GoesOn(a, b) /\ Good(b) /\ Current(b).code = Current(a).code
          /\ \A jumps : WaitFor(Current(a), jumps) => WaitFor(Current(b), jumps)
        <3>1. Current(Now).height \in Int
            BY <1>5, CurrentIsFine, ContextTypes
        <3>. QED  BY <1>10, <2>4, <3>1, Reheighted
    <2>6. GoesOn(Now, b)
        BY <1>5, <2>4, <2>5, GoesOnOn DEF Branches
    <2>7. PICK none \in Int : none = 0
        OBVIOUS
    <2>8. Proceeds(Now, b, none)
        BY <1>5, <2>6, <2>7, SteadyProceeds
    <2>9. jump \in Nat /\ jump > 0 /\ jump = Len(Current(b).code) /\ jump <= Len(Current(b).code)
        <3>1. Len(Current(a).code) \in Nat
            BY <2>4, LoopFields
        <3>. QED  BY <2>4, <2>5, <3>1 DEF Branches
    <2>10. PICK x : x = Current(b)
        OBVIOUS
    <2>11. Reset(b, s, jump, x.last_break, x.enclosing_loop)
        BY <1>12, <2>5, <2>9, <2>10, ContinuesAt
    <2>12. Proceeds(b, s, none) /\ d.last_continue = jump /\ d.code = x.code
           /\ \A jumps : WaitFor(x, jumps) => WaitFor(d, jumps)
        <3>1. x.enclosing_loop = Current(b).enclosing_loop + none
            BY <2>5, <2>7, <2>10, LoopFields
        <3>. QED  BY <2>3, <2>5, <2>10, <2>11, <3>1, ResetProceeds, ResetGrows
    <2>13. Proceeds(Now, s, none)
        <3>1. none = none + none
            BY <2>7
        <3>. QED  BY <1>5, <2>7, <2>8, <2>12, <3>1, ProceedsOn
    <2>14. LoopFits(d, h.loop)
        BY <1>2, <1>5, <2>3, <2>13, GrownFits
    <2>15. /\ LoopFits(d, loop) /\ loop.base = h.loop.base /\ loop.saved = h.loop.saved
           /\ loop.exit = h.loop.exit /\ loop.body = jump /\ loop \in Loops
        BY <1>5, <1>13, <2>9, <2>10, <2>12, <2>14, LoopChanges DEF LoopFits
    <2>16. JumpsOf(t) = {loop.exit, loop.body} /\ t.k = last /\ t.loop = loop
        <3>1. last \in LoopTasks /\ last = "forBody"
            BY <2>1 DEF LoopTasks
        <3>. QED  BY <2>2, <2>15, <3>1, LoopTask
    <2>17. StartsAt(t, d.last_continue)
        BY <2>1, <2>12, <2>15, <2>16 DEF StartsAt
    <2>18. ASSUME NEW jumps, WaitFor(c, jumps \cup JumpsOf(h))
           PROVE  WaitFor(d, jumps \cup JumpsOf(t))
        <3>1. WaitFor(Current(a), (jumps \cup JumpsOf(h)) \cup {jump})
            BY <1>2, <2>4, <2>18 DEF Branches
        <3>2. (jumps \cup JumpsOf(h)) \cup {jump} = jumps \cup JumpsOf(t)
            BY <1>6, <2>15, <2>16
        <3>. QED  BY <2>5, <2>10, <2>12, <3>1, <3>2
    <2>19. Continue(s, <<Expr, t>>) /\ last # "forIter" /\ (last = "forBody" => loop.body > 0)
        BY <1>14, <2>1, <2>2, <2>9, <2>15
    <2>20. Proceeds(Now, s, 0)
        BY <2>7, <2>13
    <2>. QED  BY <1>1, <1>2, <1>4, <2>2, <2>3, <2>15, <2>17, <2>18, <2>19, <2>20, ForTaskKeeps
<1>. QED  BY <1>5, <1>8, <1>9, <1>10, <1>11, <1>12, <1>13, <1>14 DEF ForIteration

LEMMA ForIteratedKeeps ==
    ASSUME Inv, ForIterated
    PROVE  Inv'
<1>1. PICK h : h = Work[1]
    OBVIOUS
<1>2. PICK c : c = Current(Now)
    OBVIOUS
<1>3. PICK kind \in {"whileBody", "forIter", "forBody"} : kind = "forBody"
    OBVIOUS
<1>4. Doing(kind) /\ kind \in LoopTasks
    BY <1>3 DEF ForIterated, LoopTasks
<1>5. /\ Good(Now) /\ Head(Work) = h /\ h.k = kind /\ LoopFits(c, h.loop) /\ h.loop \in Loops
      /\ h.loop.body > 0
    BY <1>1, <1>2, <1>3, <1>4, LoopBegins DEF LoopFits
<1>6. PICK a : a = Emit(Now, "POP", 0)
    OBVIOUS
<1>7. PICK start : start = h.loop.start
    OBVIOUS
<1>8. PICK body : body = h.loop.body
    OBVIOUS
<1>9. PICK b : b = EmitLoop(a, start)
    OBVIOUS
<1>10. PICK e : e = PatchJump(b, body)
    OBVIOUS
<1>11. PICK s : s = Enclose(e, 1)
    OBVIOUS
<1>12. PICK d : d = Current(s)
    OBVIOUS
<1>13. PICK loop : loop = [h.loop EXCEPT !.start = body]
    OBVIOUS
<1>14. PICK last \in LoopEnds : last = "forEnd"
    BY DEF LoopEnds
<1>15. Continue(s, <<Task("stat"), Loop(last, loop)>>)
    BY <1>5, <1>6, <1>7, <1>8, <1>9, <1>10, <1>11, <1>13, <1>14 DEF ForIterated, ForBody
<1>16. /\ start \in Nat /\ body \in Nat /\ body > 0 /\ start <= Len(c.code) /\ body <= Len(c.code)
       /\ Len(c.code) \in Nat
    BY <1>2, <1>5, <1>7, <1>8, LoopTypes, LoopFields DEF LoopFits
<1>17. GoesOn(Now, a) /\ Good(a) /\ Len(Current(a).code) = Len(c.code) + 1
       /\ \A jumps : WaitFor(c, jumps) => WaitFor(Current(a), jumps)
    BY <1>2, <1>5, <1>6, PopsInPassing
<1>18. GoesOn(a, b) /\ Good(b) /\ GetsWider(a, b)
       /\ Len(Current(b).code) = Len(Current(a).code) + 1
    <2>1. start \in 0..Len(Current(a).code)
        BY <1>16, <1>17
    <2>. QED  BY <1>9, <1>17, <2>1, EmitsLoop
<1>19. \A jumps : WaitFor(Current(a), jumps) => WaitFor(Current(b), jumps)
    BY <1>18 DEF GetsWider, Widens, KeepsJumps
<1>20. GoesOn(b, e) /\ Good(e)
       /\ \A jumps, less : WaitFor(Current(b), jumps) /\ jumps \subseteq less \cup {body} =>
            WaitFor(Current(e), less)
    <2>1. body \in 1..Len(Current(b).code)
        BY <1>16, <1>17, <1>18
    <2>. QED  BY <1>10, <1>18, <2>1, LandsHere
<1>21. GoesOn(Now, e)
    <2>1. GoesOn(Now, b)
        BY <1>5, <1>17, <1>18, GoesOnOn
    <2>. QED  BY <1>5, <1>20, <2>1, GoesOnOn
<1>22. /\ Proceeds(e, s, 1) /\ d.last_continue = Current(e).last_continue
       /\ d.code = Current(e).code
       /\ \A jumps : WaitFor(Current(e), jumps) => WaitFor(d, jumps)
    BY <1>11, <1>12, <1>20, EnclosesMore
<1>23. Proceeds(Now, s, 1)
    <2>1. PICK one \in Int : one = 1
        OBVIOUS
    <2>2. PICK none \in Int : none = 0
        OBVIOUS
    <2>3. Proceeds(Now, e, none) /\ Proceeds(e, s, one) /\ one = none + one
        BY <1>5, <1>21, <1>22, <2>1, <2>2, SteadyProceeds
    <2>4. Proceeds(Now, s, one)
        BY <1>5, <2>1, <2>2, <2>3, ProceedsOn
    <2>. QED  BY <2>1, <2>4
<1>24. d.last_continue = c.last_continue
    BY <1>2, <1>21, <1>22 DEF GoesOn, Steady, SameSettings
<1>25. LoopFits(d, h.loop)
    BY <1>2, <1>5, <1>12, <1>23, GrownFits
<1>26. /\ LoopFits(d, loop) /\ loop.base = h.loop.base /\ loop.saved = h.loop.saved
       /\ loop.start = body /\ loop.exit = h.loop.exit
    <2>1. h.loop.body <= Len(d.code)
        BY <1>25 DEF LoopFits
    <2>2. /\ loop \in Loops /\ loop.start = body /\ loop.exit = h.loop.exit
          /\ loop.body = h.loop.body /\ loop.base = h.loop.base /\ loop.saved = h.loop.saved
        BY <1>5, <1>13, <1>16, LoopChanges
    <2>. QED  BY <1>8, <1>25, <2>1, <2>2 DEF LoopFits
<1>27. StartsAt(h, c.last_continue) => loop.start = c.last_continue
    BY <1>3, <1>5, <1>8, <1>26 DEF StartsAt
<1>28. ASSUME NEW jumps, WaitFor(c, jumps \cup JumpsOf(h))
       PROVE  WaitFor(d, jumps \cup {loop.exit})
    <2>1. h.k = "forBody"
        BY <1>3, <1>5
    <2>2. JumpsOf(h) = {h.loop.exit, h.loop.body}
        BY <2>1, Zenon DEF JumpsOf
    <2>3. jumps \cup JumpsOf(h) \subseteq (jumps \cup {loop.exit}) \cup {body}
        BY <1>8, <1>26, <2>2
    <2>. QED  BY <1>17, <1>19, <1>20, <1>22, <1>28, <2>3
<1>29. last = "whileEnd" <=> kind = "whileBody"
    BY <1>3, <1>14
<1>. QED  BY <1>1, <1>2, <1>4, <1>12, <1>15, <1>23, <1>24, <1>26, <1>27, <1>28, <1>29, LoopBodyKeeps

LEMMA ForEndKeeps ==
    ASSUME Inv, ForEnd
    PROVE  Inv'
<1>1. PICK h : h = Work[1]
    OBVIOUS
<1>2. PICK r : r = Tail(Work)
    OBVIOUS
<1>3. PICK c : c = Current(Now)
    OBVIOUS
<1>4. PICK kind \in LoopTasks : kind = "forEnd"
    BY DEF LoopTasks
<1>5. PICK s : s = CloseLoop(Now, h.loop)
    OBVIOUS
<1>6. PICK d : d = Current(s)
    OBVIOUS
<1>7. PICK base : base = h.loop.base
    OBVIOUS
<1>8. PICK t : t = EndScope(s, base)
    OBVIOUS
<1>9. PICK x : x = Current(t)
    OBVIOUS
<1>10. Doing(kind)
    BY <1>4 DEF ForEnd
<1>11. PICK end : end = Last(Work)
    OBVIOUS
<1>12. PICK one \in Int : one = 1
    OBVIOUS
<1>13. PICK none \in Int : none = 0
    OBVIOUS
<1>14. /\ Good(Now) /\ Head(Work) = h /\ h.k = kind /\ LoopFits(c, h.loop)
       /\ base <= Len(c.visible) /\ base \in Nat /\ Resting(r) /\ Outside(r, base)
       /\ OpenLoop(r, 0, h.loop.saved.continue) /\ r \in Seq(Tasks)
       /\ Midway(c, r, end, (IF kind \in ForTasks THEN 1 ELSE 0),
                 (IF kind \in LoopEnds THEN 1 ELSE 0), JumpsOf(h))
    BY <1>1, <1>2, <1>3, <1>7, <1>10, <1>11, LoopBegins
<1>15. kind \in ForTasks /\ kind \in LoopEnds
    BY <1>4 DEF ForTasks, LoopEnds
<1>16. PICK before : before = JumpsOf(h)
    OBVIOUS
<1>17. Midway(c, r, end, one, one, before)
    BY <1>12, <1>14, <1>15, <1>16
<1>18. c.enclosing_loop > 0
    <2>1. Pending(c, r) /\ c.enclosing_loop = Cardinality(Marked(r, LoopEndTasks)) + one
        BY <1>17 DEF Midway
    <2>. QED  BY <1>12, <2>1, MarksAreNat
<1>19. /\ Proceeds(Now, s, -1) /\ d.last_continue = h.loop.saved.continue
       /\ \A jumps, less : WaitFor(c, jumps) /\ jumps \subseteq less \cup {h.loop.exit} =>
            WaitFor(d, less)
    BY <1>3, <1>5, <1>6, <1>14, <1>18, ClosesLoop
<1>20. before = {h.loop.exit}
    <2>1. h.k = "forEnd"
        BY <1>4, <1>14
    <2>. QED  BY <1>16, <2>1, Zenon DEF JumpsOf
<1>21. PICK less \in Int : less = -1
    OBVIOUS
<1>22. PICK empty : empty = {}
    OBVIOUS
<1>23. Midway(d, r, end, one, none, empty)
    <2>1. WaitFor(c, JumpsIn(r) \cup before) => WaitFor(d, JumpsIn(r) \cup empty)
        BY <1>19, <1>20
    <2>2. none = one + less /\ Proceeds(Now, s, less)
        BY <1>12, <1>13, <1>19, <1>21
    <2>. QED  BY <1>3, <1>6, <1>12, <1>13, <1>14, <1>17, <1>21, <2>1, <2>2, MovesProceeding
<1>24. Follows(Now, s) /\ Good(s) /\ d.type = c.type /\ base <= Len(d.visible)
    <2>1. Follows(Now, s) /\ Good(s) /\ d.type = c.type /\ Len(d.visible) >= Len(c.visible)
        BY <1>3, <1>6, <1>19 DEF Proceeds, Passes
    <2>2. Len(d.visible) \in Nat /\ Len(c.visible) \in Nat
        BY <1>3, <1>6, <1>14, <2>1, LoopFields
    <2>. QED  BY <1>14, <2>1, <2>2
<1>25. Follows(s, t) /\ Midway(x, r, end, 0, none, empty) /\ x.type = d.type
       /\ x.last_continue = d.last_continue
    <2>1. Midway(d, r, end, 1, none, empty)
        BY <1>12, <1>23
    <2>. QED  BY <1>6, <1>8, <1>9, <1>13, <1>14, <1>24, <2>1, ScopeIsLeft
<1>26. Midway(x, r, end, 0, 0, {})
    BY <1>13, <1>22, <1>25
<1>27. Follows(Now, t) /\ x.type = c.type /\ OpenLoop(r, 0, x.last_continue)
    BY <1>14, <1>19, <1>24, <1>25, FollowsOn
<1>28. Continue(t, <<>>)
    BY <1>5, <1>7, <1>8, <1>14 DEF ForEnd
<1>. QED  BY <1>2, <1>3, <1>9, <1>10, <1>11, <1>26, <1>27, <1>28, DoneKeeps

LEMMA WiderProceeds ==
    ASSUME NEW s, Good(s), NEW t, GetsWider(s, t)
    PROVE  /\ Proceeds(s, t, 0) /\ Good(t)
           /\ Current(t).last_continue = Current(s).last_continue
           /\ \A jumps : WaitFor(Current(s), jumps) => WaitFor(Current(t), jumps)
<1>1. Current(s).enclosing_loop \in Nat
    BY LoopFields
<1>. QED  BY <1>1 DEF GetsWider, Widens, SameLoops, KeepsJumps, Proceeds, Passes, Follows

LEMMA ExprAndTwo ==
    ASSUME NEW a \in Tasks, NEW b \in Tasks, NEW r \in Seq(Tasks), Ahead(b, r) \in Seq(Tasks)
    PROVE  <<Expr, a, b>> \o r = <<Expr, a>> \o Ahead(b, r)
<1>1. PICK e \in Tasks : e = Expr
    BY PlainTypes DEF PlainTasks, SimpleTasks
<1>2. <<e, a, b>> \o r = Ahead(e, Ahead(a, Ahead(b, r)))
    BY <1>1, ThreeInFront
<1>3. <<e, a>> \o Ahead(b, r) = Ahead(e, Ahead(a, Ahead(b, r)))
    BY <1>1, TwoInFront
<1>. QED  BY <1>1, <1>2, <1>3

LEMMA ForTask ==
    ASSUME NEW loop \in Loops, NEW kind \in ForTasks, kind \notin AfterExprs, kind \notin LoopEnds,
           NEW t, t = Loop(kind, loop)
    PROVE  /\ t \in Tasks /\ t.k = kind /\ t.loop = loop /\ t.k \in Based /\ Base(t) = loop.base
           /\ t.k # "endFunction" /\ One(t, ScopeTasks) = 1 /\ One(t, LoopEndTasks) = 0
           /\ \A c : LoopFits(c, loop) /\ loop.base <= Len(c.visible) => Fits(c, t)
<1>1. kind \in LoopTasks
    BY DEF ForTasks, LoopTasks
<1>2. kind # "forBody"
    BY DEF AfterExprs
<1>3. /\ t \in Tasks /\ t.k = kind /\ t.loop = loop /\ t.k \in Based /\ Base(t) = loop.base
      /\ t.k # "endFunction"
      /\ One(t, ScopeTasks) = (IF kind \in ForTasks THEN 1 ELSE 0)
      /\ One(t, LoopEndTasks) = (IF kind \in LoopEnds THEN 1 ELSE 0)
    BY <1>1, LoopTask
<1>4. ASSUME NEW c, LoopFits(c, loop), loop.base <= Len(c.visible)
      PROVE  Fits(c, t)
    BY <1>1, <1>2, <1>4, LoopTask
<1>. QED  BY <1>3, <1>4

LEMMA ForLoop ==
    ASSUME Good(Now), NEW b, b = BeginScope(Now), NEW loop,
           loop = [NewLoop(b, 0) EXCEPT !.base = Visible(Now)]
    PROVE  /\ loop \in Loops /\ loop.base = Visible(Now) /\ LoopFits(Current(b), loop)
           /\ loop.saved.continue = Current(b).last_continue
<1>1. PICK none \in Nat : none = 0
    OBVIOUS
<1>2. PICK new : new = NewLoop(b, none)
    OBVIOUS
<1>3. PICK e : e = Current(b)
    OBVIOUS
<1>4. PICK base : base = Visible(Now)
    OBVIOUS
<1>5. Good(b)
    BY ScopeBegins DEF Follows
<1>6. LoopFits(e, new) /\ new.saved.continue = e.last_continue /\ new \in Loops
    <2>1. none <= Len(e.code)
        BY <1>1, <1>3, <1>5, LoopFields
    <2>. QED  BY <1>1, <1>2, <1>3, <1>5, <2>1, NewLoopFits DEF LoopFits
<1>7. base \in Nat
    BY <1>4, LoopFields DEF Visible
<1>8. loop = [new EXCEPT !.base = base]
    BY <1>1, <1>2, <1>4
<1>9. /\ loop \in Loops /\ loop.base = base /\ loop.saved = new.saved /\ loop.start = new.start
      /\ loop.exit = new.exit /\ loop.body = new.body
    BY <1>6, <1>7, <1>8 DEF Loops
<1>. QED  BY <1>3, <1>4, <1>6, <1>9 DEF LoopFits

(* A for statement: its scope has begun, and the initializer is compiled   *)
(* or waits, with the variable it declares.                                *)
LEMMA ForKeeps ==
    ASSUME Inv, AtStatement, Advances, NEW b, b = BeginScope(Now), NEW s, s = SaveBreakContext(b),
           NEW loop \in Loops, loop.base = Visible(Now), LoopFits(Current(b), loop),
           loop.saved.continue = Current(b).last_continue,
           NEW kind \in ForTasks \ (Strict \cup AfterExprs \cup LoopEnds),
           NEW t, t = Loop(kind, loop),
           NEW v, GetsWider(s, v),
           \/ Statement(v, <<t>>)
           \/ Statement(v, <<Expr, t>>)
           \/ CanDefine(Current(v)) /\ \E x \in Names : Statement(v, <<Expr, Define(x), t>>)
    PROVE  Inv'
<1>1. PICK r : r = Rest
    OBVIOUS
<1>2. PICK c : c = Current(Now)
    OBVIOUS
<1>3. PICK end : end = Last(Work)
    OBVIOUS
<1>4. PICK d : d = Current(v)
    OBVIOUS
<1>5. /\ Good(Now) /\ Midway(c, r, end, 0, 0, {}) /\ r \in Seq(Tasks)
      /\ OpenLoop(r, 0, c.last_continue) /\ Resting(r) /\ Outside(r, Len(c.visible))
    BY <1>1, <1>2, <1>3, StatementBegins
<1>6. \A i \in 1..Len(r) : r[i].k # "define"
    BY <1>5 DEF Resting, Waiting, AfterExprs
<1>7. PICK one \in Int : one = 1
    OBVIOUS
<1>8. PICK none \in Int : none = 0
    OBVIOUS
<1>9. PICK empty : empty = {}
    OBVIOUS
<1>10. PICK e : e = Current(b)
    OBVIOUS
<1>11. /\ Follows(Now, b) /\ Good(b) /\ Midway(e, r, end, 1, 0, {}) /\ e.type = c.type
       /\ e.last_continue = c.last_continue /\ e.visible = c.visible /\ e.code = c.code
    BY <1>2, <1>5, <1>6, <1>10, MovesIntoScope
<1>12. /\ Proceeds(b, s, none) /\ Good(s) /\ Current(s).last_continue = e.last_continue
       /\ \A jumps : WaitFor(e, jumps) => WaitFor(Current(s), jumps)
    <2>1. Reset(b, s, e.last_continue, e.last_break, e.enclosing_loop)
        BY <1>10, <1>11, SavesBreakContext
    <2>2. e.enclosing_loop = Current(b).enclosing_loop + none
        BY <1>8, <1>10, <1>11, LoopFields
    <2>3. Proceeds(b, s, none)
        BY <1>11, <2>1, <2>2, ResetProceeds
    <2>. QED  BY <1>10, <2>1, <2>3, ResetGrows
<1>13. /\ Proceeds(s, v, none) /\ Good(v) /\ d.last_continue = Current(s).last_continue
       /\ \A jumps : WaitFor(Current(s), jumps) => WaitFor(d, jumps)
    BY <1>4, <1>8, <1>12, WiderProceeds
<1>14. Proceeds(b, v, none)
    <2>1. none = none + none
        BY <1>8
    <2>. QED  BY <1>8, <1>11, <1>12, <1>13, <2>1, ProceedsOn
<1>15. Midway(d, r, end, one, none, empty)
    <2>1. Midway(e, r, end, one, none, empty)
        BY <1>7, <1>8, <1>9, <1>11
    <2>2. WaitFor(e, JumpsIn(r) \cup empty) => WaitFor(d, JumpsIn(r) \cup empty)
        BY <1>12, <1>13
    <2>3. none = none + none
        BY <1>8
    <2>. QED  BY <1>4, <1>7, <1>8, <1>10, <1>11, <1>14, <2>1, <2>2, <2>3, MovesProceeding
<1>16. /\ Follows(Now, v) /\ d.type = c.type /\ d.last_continue = c.last_continue
       /\ Len(d.visible) >= Len(c.visible)
    <2>1. Follows(b, v) /\ d.type = e.type /\ Len(d.visible) >= Len(e.visible)
        BY <1>4, <1>10, <1>14 DEF Proceeds, Passes
    <2>. QED  BY <1>11, <1>12, <1>13, <2>1, FollowsOn
<1>18. LoopFits(e, loop) /\ loop.saved.continue = e.last_continue
    BY <1>10
<1>19. PICK base : base = Len(c.visible)
    OBVIOUS
<1>20. base \in Nat /\ base <= Len(d.visible)
    <2>1. base \in Nat
        BY <1>2, <1>5, <1>19, LoopFields
    <2>. QED  BY <1>16, <1>19, <2>1
<1>21. loop.base = base
    BY <1>2, <1>19 DEF Visible
<1>22. LoopFits(d, loop) /\ loop.saved.continue = c.last_continue
    BY <1>4, <1>10, <1>11, <1>14, <1>18, GrownFits
<1>23. kind \in ForTasks /\ kind \notin LoopEnds /\ kind \in LoopTasks
    BY DEF ForTasks, LoopTasks
<1>24. /\ t \in Tasks /\ t.k = kind /\ t.loop = loop /\ t.k \in Based /\ Base(t) = base
       /\ t.k # "endFunction" /\ Fits(d, t)
       /\ One(t, ScopeTasks) = one /\ One(t, LoopEndTasks) = none
    <2>1. /\ t \in Tasks /\ t.k = kind /\ t.loop = loop /\ t.k \in Based /\ Base(t) = loop.base
          /\ t.k # "endFunction" /\ One(t, ScopeTasks) = 1 /\ One(t, LoopEndTasks) = 0
          /\ \A x : LoopFits(x, loop) /\ loop.base <= Len(x.visible) => Fits(x, t)
        <3>1. kind \in ForTasks /\ kind \notin AfterExprs /\ kind \notin LoopEnds
            OBVIOUS
        <3>. QED  BY <3>1, ForTask
    <2>2. Fits(d, t)
        <3>1. LoopFits(d, loop) /\ loop.base <= Len(d.visible)
            BY <1>20, <1>21, <1>22
        <3>. QED  BY <2>1, <3>1
    <2>3. One(t, ScopeTasks) = one /\ One(t, LoopEndTasks) = none
        BY <1>7, <1>8, <2>1
    <2>. QED  BY <1>21, <2>1, <2>2, <2>3
<1>25. Pushable(d, t, r)
    <2>1. \A i \in 1..Len(r) : t.k \in Based /\ r[i].k \in Based => Base(r[i]) <= Base(t)
        BY <1>5, <1>19, <1>24 DEF Outside
    <2>2. \A i \in 1..Len(r) : Before(t, r[i])
        BY <1>5, <1>24, <2>1, BeforeResting
    <2>3. OpenLoop(r, 0, t.loop.saved.continue)
        BY <1>5, <1>22, <1>24
    <2>. QED  BY <1>24, <2>2, <2>3 DEF Pushable
<1>26. PICK scopes : scopes = one - One(t, ScopeTasks)
    OBVIOUS
<1>27. PICK loops : loops = none - One(t, LoopEndTasks)
    OBVIOUS
<1>28. scopes = none /\ loops = none /\ empty \subseteq JumpsOf(t) \cup empty
    BY <1>7, <1>8, <1>24, <1>26, <1>27
<1>29. ASSUME NEW u, Midway(d, u, end, none, none, empty),
              \A p : OpenLoop(r, 0, p) => OpenLoop(u, 0, p),
              NEW tasks, Statement(v, tasks), u = tasks \o r
       PROVE  Inv'
    <2>1. Midway(d, u, end, 0, 0, {})
        BY <1>8, <1>9, <1>29
    <2>2. OpenLoop(u, 0, d.last_continue)
        BY <1>5, <1>16, <1>29
    <2>. QED  BY <1>1, <1>2, <1>3, <1>4, <1>16, <1>29, <2>1, <2>2, StatementKeeps
<1>30. PICK q : q = Ahead(t, r)
    OBVIOUS
<1>31. /\ Midway(d, q, end, none, none, empty) /\ \A p : OpenLoop(r, 0, p) => OpenLoop(q, 0, p)
       /\ \A f : Before(f, t) /\ (\A i \in 1..Len(r) : Before(f, r[i])) =>
            \A i \in 1..Len(q) : Before(f, q[i])
    BY <1>7, <1>8, <1>15, <1>25, <1>26, <1>27, <1>28, <1>30, PutsInFront
<1>32. t.k \notin Strict
    BY <1>24
<1>33. \A i \in 1..Len(r) : r[i].k \notin Strict
    BY <1>5 DEF Resting, Waiting
<1>34. CASE Statement(v, <<t>>)
    <2>1. q = <<t>> \o r
        BY <1>30 DEF Ahead
    <2>. QED  BY <1>29, <1>31, <1>34, <2>1
<1>35. CASE Statement(v, <<Expr, t>>)
    <2>1. PICK u : u = <<Expr, t>> \o r
        OBVIOUS
    <2>2. /\ Midway(d, u, end, none, none, empty) /\ \A p : OpenLoop(r, 0, p) => OpenLoop(u, 0, p)
        BY <1>7, <1>8, <1>15, <1>25, <1>26, <1>27, <1>28, <1>32, <1>33, <2>1, ExprInFront
    <2>. QED  BY <1>29, <1>35, <2>1, <2>2
<1>36. ASSUME CanDefine(d), NEW x \in Names, Statement(v, <<Expr, Define(x), t>>)
       PROVE  Inv'
    <2>1. PICK f : f = Define(x)
        OBVIOUS
    <2>2. f \in Tasks /\ f.k = "define" /\ Fits(d, f)
        BY <1>36, <2>1, DefineTask
    <2>3. f.k # "endFunction" /\ f.k \notin Strict /\ f.k \notin LoopTasks /\ f.k \notin Based
          /\ f.k \notin ForTasks \cup {"endScope", "endClass"} /\ f.k \notin LoopEnds
        BY <2>2 DEF Strict, LoopTasks, Based, ForTasks, LoopEnds
    <2>4. Before(f, t)
        BY <1>24, <2>2, <2>3 DEF Before, Strict
    <2>5. \A i \in 1..Len(r) : Before(f, r[i])
        BY <1>5, <2>3, BeforeResting
    <2>6. Pushable(d, f, q)
        BY <1>31, <2>2, <2>3, <2>4, <2>5 DEF Pushable
    <2>7. One(f, ScopeTasks) = 0 /\ One(f, LoopEndTasks) = 0
        BY <2>3, Uncounted
    <2>8. none - One(f, ScopeTasks) = none /\ none - One(f, LoopEndTasks) = none
        BY <1>8, <2>7
    <2>9. \A i \in 1..Len(q) : q[i].k \notin Strict
        <3>1. InFront(q, t, r)
            BY <1>5, <1>24, <1>30, OneInFront
        <3>. QED  BY <1>32, <1>33, <3>1 DEF InFront
    <2>10. PICK u : u = <<Expr, f>> \o q
        OBVIOUS
    <2>11. /\ Midway(d, u, end, none, none, empty)
           /\ \A p : OpenLoop(q, 0, p) => OpenLoop(u, 0, p)
        <3>1. empty \subseteq JumpsOf(f) \cup empty
            OBVIOUS
        <3>2. /\ Midway(d, u, end, none - One(f, ScopeTasks), none - One(f, LoopEndTasks), empty)
              /\ \A p : OpenLoop(q, 0, p) => OpenLoop(u, 0, p)
            BY <1>8, <1>31, <2>3, <2>6, <2>9, <2>10, <3>1, ExprInFront
        <3>. QED  BY <2>8, <3>2
    <2>12. q \in Seq(Tasks)
        BY <1>31 DEF Midway, Pending
    <2>13. u = <<Expr, Define(x), t>> \o r
        <3>1. t \in Tasks /\ r \in Seq(Tasks) /\ f \in Tasks /\ Ahead(t, r) \in Seq(Tasks)
            BY <1>5, <1>24, <1>30, <2>2, <2>12
        <3>2. <<Expr, f, t>> \o r = <<Expr, f>> \o Ahead(t, r)
            BY <3>1, ExprAndTwo
        <3>. QED  BY <1>30, <2>1, <2>10, <3>2
    <2>14. \A p : OpenLoop(r, 0, p) => OpenLoop(u, 0, p)
        BY <1>31, <2>11
    <2>. QED  BY <1>29, <1>36, <2>11, <2>13, <2>14
<1>. QED  BY <1>4, <1>34, <1>35, <1>36

LEMMA ForStatementKeeps ==
    ASSUME Inv, ForStatement
    PROVE  Inv'
<1>1. PICK b : b = BeginScope(Now)
    OBVIOUS
<1>2. PICK s : s = SaveBreakContext(b)
    OBVIOUS
<1>3. PICK loop : loop = [NewLoop(b, 0) EXCEPT !.base = Visible(Now)]
    OBVIOUS
<1>4. PICK kind \in ForTasks \ (Strict \cup AfterExprs \cup LoopEnds) : kind = "forCond"
    BY DEF ForTasks, Strict, AfterExprs, LoopEnds
<1>5. PICK t : t = Loop(kind, loop)
    OBVIOUS
<1>6. AtStatement /\ Advances
    BY DEF ForStatement, Node, Advances
<1>7. Good(Now)
    BY <1>6, StatementBegins
<1>8. Good(s)
    <2>1. Good(b)
        BY <1>1, <1>7, ScopeBegins DEF Follows
    <2>. QED  BY <1>2, <2>1, SavesBreakContext, ResetGrows
<1>9. /\ GetsWider(s, s) /\ loop \in Loops /\ loop.base = Visible(Now)
      /\ LoopFits(Current(b), loop) /\ loop.saved.continue = Current(b).last_continue
    BY <1>1, <1>3, <1>7, <1>8, WidensSelf, ForLoop
<1>10. ASSUME NEW v, GetsWider(s, v),
              \/ Statement(v, <<t>>)
              \/ Statement(v, <<Expr, t>>)
              \/ CanDefine(Current(v)) /\ \E x \in Names : Statement(v, <<Expr, Define(x), t>>)
       PROVE  Inv'
    BY <1>1, <1>2, <1>4, <1>5, <1>6, <1>9, <1>10, ForKeeps
<1>11. CASE Statement(s, <<t>>) \/ Statement(s, <<Expr, t>>)
    BY <1>9, <1>10, <1>11
<1>12. ASSUME NEW x \in Identifiers,
              \/ Statement(DeclareVariable(s, x), <<Expr, Define(x), t>>)
              \/ Statement(DefineVariable(Emit(DeclareVariable(s, x), "NIL", 0), x), <<t>>)
       PROVE  Inv'
    <2>1. x \in Names /\ x \in VariableNames
        BY <1>12, FamilyBounds
    <2>2. PICK v : v = DeclareVariable(s, x)
        OBVIOUS
    <2>3. GetsWider(s, v) /\ CanDefine(Current(v))
        BY <1>8, <2>1, <2>2, DeclaresOne
    <2>4. CASE Statement(v, <<Expr, Define(x), t>>)
        BY <1>10, <2>1, <2>3, <2>4
    <2>5. PICK w : w = DefineVariable(Emit(v, "NIL", 0), x)
        OBVIOUS
    <2>6. CASE Statement(w, <<t>>)
        <3>1. Good(v)
            BY <2>3 DEF GetsWider, Follows
        <3>2. GetsWider(v, w)
            BY <2>1, <2>3, <2>5, <3>1, DefinesNil
        <3>3. GetsWider(s, w)
            BY <1>8, <2>3, <3>2, GetsWiderOn
        <3>. QED  BY <1>10, <2>6, <3>3
    <2>. QED  BY <1>12, <2>2, <2>4, <2>5, <2>6
<1>. QED  BY <1>1, <1>2, <1>3, <1>4, <1>5, <1>11, <1>12 DEF ForStatement

(* break and continue: locals are dropped from the stack, though the block *)
(* goes on, and the code goes elsewhere.                                   *)
Leaves(c, d) ==
    /\ d.type = c.type /\ d.scopeDepth = c.scopeDepth /\ d.enclosing_loop = c.enclosing_loop
    /\ d.visible = c.visible /\ Len(d.code) >= Len(c.code)

LEMMA LeavesOn ==
    ASSUME NEW c \in Contexts, NEW d \in Contexts, NEW e \in Contexts, Leaves(c, d), Leaves(d, e)
    PROVE  Leaves(c, e)
<1>1. Len(c.code) \in Nat /\ Len(d.code) \in Nat /\ Len(e.code) \in Nat
    BY ContextTypes
<1>. QED  BY <1>1 DEF Leaves

LEMMA LeavingKeeps ==
    ASSUME Inv, AtStatement, Advances, NEW s, Follows(Now, s), NEW c, c = Current(Now),
           NEW d, d = Current(s), Leaves(c, d),
           d.last_continue \in {0, c.last_continue}, NEW now,
           \A jumps : WaitFor(c, jumps) => WaitFor(d, jumps \cup now),
           Without({"break"}) => now = {}, Statement(s, <<>>)
    PROVE  Inv'
<1>1. PICK r : r = Rest
    OBVIOUS
<1>2. PICK end : end = Last(Work)
    OBVIOUS
<1>3. PICK none \in Int : none = 0
    OBVIOUS
<1>4. PICK empty : empty = {}
    OBVIOUS
<1>5. /\ Good(Now) /\ Midway(c, r, end, none, none, empty) /\ r \in Seq(Tasks)
      /\ OpenLoop(r, 0, c.last_continue) /\ Resting(r) /\ Outside(r, Len(c.visible))
    BY <1>1, <1>2, <1>3, <1>4, StatementBegins
<1>6. Fine(d) /\ d \in Contexts
    BY CurrentIsFine DEF Follows
<1>7. d.type = c.type /\ Len(d.code) >= Len(c.code) /\ d.visible = c.visible
    BY DEF Leaves
<1>8. /\ \A i \in 1..Len(r) : r[i].k \in Based => Base(r[i]) <= Len(d.visible)
      /\ \A i \in 1..Len(r) : r[i].k = "define" => CanDefine(d)
    BY <1>5, <1>7 DEF Outside, Resting, Waiting, AfterExprs
<1>9. d.scopeDepth = c.scopeDepth + none /\ d.enclosing_loop = c.enclosing_loop + none
    <2>1. c.scopeDepth \in Nat /\ c.enclosing_loop \in Nat
        BY <1>5, LoopFields
    <2>. QED  BY <1>3, <2>1 DEF Leaves
<1>10. WaitFor(c, JumpsIn(r) \cup empty) => WaitFor(d, JumpsIn(r) \cup now)
    <2>1. JumpsIn(r) \cup empty = JumpsIn(r)
        BY <1>4
    <2>. QED  BY <2>1
<1>11. Midway(d, r, end, none + none, none + none, now)
    BY <1>3, <1>5, <1>6, <1>7, <1>8, <1>9, <1>10, Moves
<1>12. Midway(d, r, end, 0, 0, now)
    BY <1>3, <1>11
<1>13. Midway(d, r, end, 0, 0, {})
    BY <1>12 DEF Midway
<1>14. OpenLoop(r, 0, d.last_continue)
    BY <1>5 DEF OpenLoop
<1>15. r = <<>> \o Rest
    BY <1>1, <1>5
<1>. QED  BY <1>2, <1>7, <1>13, <1>14, <1>15, StatementKeeps

LEMMA NotInLoopFails ==
    ASSUME Inv, AtStatement, NEW s, s = NotInLoop(Now)
    PROVE  /\ Good(Now) /\ Good(s) /\ s.contexts = contexts /\ Current(s) = Current(Now)
           /\ Follows(Now, s)
<1>1. Good(Now)
    BY StatementBegins
<1>2. PICK what \in Errors : what = "must be used in a loop"
    BY DEF Errors
<1>3. Good(s) /\ s.contexts = Now.contexts /\ Current(s) = Current(Now) /\ GoesOn(Now, s)
    <2>1. PICK condition : condition = (Current(Now).enclosing_loop = 0)
        OBVIOUS
    <2>2. s = FailIf(Now, condition, what)
        BY <1>2, <2>1 DEF NotInLoop
    <2>. QED  BY <1>1, <2>2, Failed
<1>. QED  BY <1>1, <1>3 DEF GoesOn, Now

LEMMA NarrowsLeaves ==
    ASSUME NEW c, NEW d, Narrows(c, d)
    PROVE  /\ Leaves(c, d) /\ d.last_continue = c.last_continue
           /\ \A jumps : WaitFor(c, jumps) => WaitFor(d, jumps)
BY DEF Narrows, Leaves, SameLoops, KeepsJumps

LEMMA SteadyLeaves ==
    ASSUME NEW c, NEW d, Steady(c, d)
    PROVE  Leaves(c, d) /\ d.last_continue = c.last_continue
BY DEF Steady, Leaves, SameSettings

LEMMA ResetLeaves ==
    ASSUME NEW s, Good(s), NEW t, NEW continue, NEW break,
           Reset(s, t, continue, break, Current(s).enclosing_loop)
    PROVE  Leaves(Current(s), Current(t))
<1>1. Len(Current(s).code) \in Nat
    BY LoopFields
<1>. QED  BY <1>1, ResetGrows DEF Leaves

LEMMA BreakStatementKeeps ==
    ASSUME Inv, BreakStatement
    PROVE  Inv'
<1>1. PICK s : s = NotInLoop(Now)
    OBVIOUS
<1>2. PICK c : c = Current(Now)
    OBVIOUS
<1>3. PICK depth : depth = c.scopeDepth
    OBVIOUS
<1>4. PICK a : a = AdjustLocals(s, depth)
    OBVIOUS
<1>5. PICK t : t = EmitJump(a, "JUMP")
    OBVIOUS
<1>6. PICK jump : jump = Position(t)
    OBVIOUS
<1>7. PICK e : e = Current(t)
    OBVIOUS
<1>8. PICK v : v = Update(t, [e EXCEPT !.last_break = jump])
    OBVIOUS
<1>9. PICK d : d = Current(v)
    OBVIOUS
<1>10. AtStatement /\ Advances /\ "break" \in Syntax
    BY SimpleNodeBegins DEF BreakStatement, SimpleNode, Node
<1>11. /\ Good(Now) /\ Good(s) /\ Current(s) = c /\ Follows(Now, s) /\ depth \in Nat
    <2>1. Good(Now) /\ Good(s) /\ Current(s) = c /\ Follows(Now, s)
        BY <1>1, <1>2, <1>10, NotInLoopFails
    <2>. QED  BY <1>2, <1>3, <2>1, LoopFields
<1>12. Statement(v, <<>>)
    BY <1>1, <1>3, <1>4, <1>5, <1>6, <1>7, <1>8, <1>11 DEF BreakStatement
<1>13. Follows(s, a) /\ Good(a) /\ Narrows(c, Current(a))
    BY <1>4, <1>11, Adjusts DEF Follows
<1>14. Branches(a, t, jump) /\ Good(t)
    BY <1>5, <1>6, <1>13, EmitsJump
<1>15. Follows(a, t) /\ Steady(Current(a), e)
    BY <1>7, <1>14 DEF Branches, GoesOn
<1>16. Reset(t, v, e.last_continue, jump, e.enclosing_loop)
    <2>1. jump \in Nat /\ jump <= Len(e.code)
        <3>1. Len(e.code) \in Nat
            BY <1>7, <1>14, LoopFields
        <3>. QED  BY <1>6, <1>7, <3>1 DEF Position
    <2>. QED  BY <1>7, <1>8, <1>14, <2>1, BreaksAt
<1>17. /\ Follows(t, v) /\ Good(v) /\ d.last_continue = e.last_continue
       /\ \A jumps : WaitFor(e, jumps) => WaitFor(d, jumps)
    BY <1>7, <1>9, <1>16, ResetGrows
<1>18. Leaves(e, d)
    BY <1>7, <1>9, <1>14, <1>16, ResetLeaves
<1>19. Follows(Now, v)
    <2>1. Follows(Now, a)
        BY <1>11, <1>13, FollowsOn
    <2>2. Follows(Now, t)
        BY <1>15, <2>1, FollowsOn
    <2>. QED  BY <1>17, <2>2, FollowsOn
<1>20. Leaves(c, d)
    <2>1. c \in Contexts /\ Current(a) \in Contexts /\ e \in Contexts /\ d \in Contexts
        BY <1>7, <1>9, <1>11, <1>13, <1>14, <1>17, LoopFields
    <2>2. Leaves(c, Current(a)) /\ Leaves(Current(a), e)
        BY <1>13, <1>15, NarrowsLeaves, SteadyLeaves
    <2>3. Leaves(c, e)
        BY <2>1, <2>2, LeavesOn
    <2>. QED  BY <1>18, <2>1, <2>3, LeavesOn
<1>21. d.last_continue = c.last_continue
    BY <1>13, <1>15, <1>17, NarrowsLeaves, SteadyLeaves
<1>22. PICK now : now = {jump}
    OBVIOUS
<1>23. \A jumps : WaitFor(c, jumps) => WaitFor(d, jumps \cup now)
    <2>1. \A jumps : WaitFor(c, jumps) => WaitFor(Current(a), jumps)
        BY <1>13, NarrowsLeaves
    <2>2. \A jumps : WaitFor(Current(a), jumps) => WaitFor(e, jumps \cup now)
        BY <1>7, <1>14, <1>22 DEF Branches
    <2>. QED  BY <1>17, <2>1, <2>2
<1>24. ~Without({"break"})
    BY <1>10 DEF Without
<1>25. d.last_continue \in {0, c.last_continue}
    BY <1>21
<1>. QED  BY <1>2, <1>9, <1>10, <1>12, <1>19, <1>20, <1>23, <1>24, <1>25, LeavingKeeps

LEMMA ContinueStatementKeeps ==
    ASSUME Inv, ContinueStatement
    PROVE  Inv'
<1>1. PICK s : s = NotInLoop(Now)
    OBVIOUS
<1>2. PICK c : c = Current(Now)
    OBVIOUS
<1>3. PICK a : a = AdjustLocals(s, c.last_scope_depth)
    OBVIOUS
<1>4. PICK t : t = EmitLoop(a, c.last_continue)
    OBVIOUS
<1>5. PICK e : e = Current(t)
    OBVIOUS
<1>6. PICK none \in Nat : none = 0
    OBVIOUS
<1>7. PICK v : v = ContinueAt(t, none)
    OBVIOUS
<1>8. AtStatement /\ Advances
    BY SimpleNodeBegins DEF ContinueStatement
<1>9. /\ Good(Now) /\ Good(s) /\ Current(s) = c /\ Follows(Now, s)
    BY <1>1, <1>2, <1>8, NotInLoopFails
<1>10. PICK empty : empty = {}
    OBVIOUS
<1>11. CASE c.last_continue = 0 /\ Statement(s, <<>>)
    <2>1. PICK d : d = Current(s)
        OBVIOUS
    <2>2. Leaves(c, d) /\ d = c
        <3>1. Len(c.code) \in Nat
            BY <1>2, <1>9, LoopFields
        <3>. QED  BY <1>9, <2>1, <3>1 DEF Leaves
    <2>3. \A jumps : WaitFor(c, jumps) => WaitFor(d, jumps \cup empty)
        BY <1>10, <2>2, WaitsForMore
    <2>4. d.last_continue \in {0, c.last_continue} /\ (Without({"break"}) => empty = {})
        BY <1>10, <2>2
    <2>. QED  BY <1>2, <1>8, <1>9, <1>11, <2>1, <2>2, <2>3, <2>4, LeavingKeeps
<1>12. CASE Statement(v, <<>>)
    <2>1. PICK d : d = Current(v)
        OBVIOUS
    <2>2. c.last_scope_depth \in Nat /\ c.last_continue \in Nat /\ c.last_continue <= Len(c.code)
          /\ Len(c.code) \in Nat
        BY <1>2, <1>9, LoopFields
    <2>3. Follows(s, a) /\ Good(a) /\ Narrows(c, Current(a))
        BY <1>3, <1>9, <2>2, Adjusts DEF Follows
    <2>4. GoesOn(a, t) /\ Good(t) /\ GetsWider(a, t)
        <3>1. c.last_continue \in 0..Len(Current(a).code)
            <4>1. Len(Current(a).code) >= Len(c.code) /\ Len(Current(a).code) \in Nat
                BY <2>3, LoopFields DEF Narrows
            <4>. QED  BY <2>2, <4>1
        <3>. QED  BY <1>4, <2>3, <3>1, EmitsLoop
    <2>5. Follows(a, t) /\ Steady(Current(a), e)
          /\ \A jumps : WaitFor(Current(a), jumps) => WaitFor(e, jumps)
        BY <1>5, <2>4 DEF GoesOn, GetsWider, Widens, KeepsJumps
    <2>6. Reset(t, v, none, e.last_break, e.enclosing_loop)
        <3>1. none <= Len(e.code)
            BY <1>5, <1>6, <2>4, LoopFields
        <3>. QED  BY <1>5, <1>6, <1>7, <2>4, <3>1, ContinuesAt
    <2>7. /\ Follows(t, v) /\ Good(v) /\ d.last_continue = none
          /\ \A jumps : WaitFor(e, jumps) => WaitFor(d, jumps)
        BY <1>5, <2>1, <2>6, ResetGrows
    <2>8. Leaves(e, d)
        BY <1>5, <2>1, <2>4, <2>6, ResetLeaves
    <2>9. Follows(Now, v)
        <3>1. Follows(Now, a)
            BY <1>9, <2>3, FollowsOn
        <3>2. Follows(Now, t)
            BY <2>5, <3>1, FollowsOn
        <3>. QED  BY <2>7, <3>2, FollowsOn
    <2>10. Leaves(c, d)
        <3>1. c \in Contexts /\ Current(a) \in Contexts /\ e \in Contexts /\ d \in Contexts
            BY <1>2, <1>5, <1>9, <2>1, <2>3, <2>4, <2>7, LoopFields
        <3>2. Leaves(c, Current(a)) /\ Leaves(Current(a), e)
            BY <2>3, <2>5, NarrowsLeaves, SteadyLeaves
        <3>3. Leaves(c, e)
            BY <3>1, <3>2, LeavesOn
        <3>. QED  BY <2>8, <3>1, <3>3, LeavesOn
    <2>11. \A jumps : WaitFor(c, jumps) => WaitFor(d, jumps \cup empty)
        <3>1. \A jumps : WaitFor(c, jumps) => WaitFor(d, jumps)
            BY <2>3, <2>5, <2>7, NarrowsLeaves
        <3>. QED  BY <1>10, <3>1, WaitsForMore
    <2>12. d.last_continue \in {0, c.last_continue} /\ (Without({"break"}) => empty = {})
        BY <1>6, <1>10, <2>7
    <2>. QED  BY <1>2, <1>8, <1>12, <2>1, <2>9, <2>10, <2>11, <2>12, LeavingKeeps
<1>13. \/ c.last_continue = 0 /\ Statement(s, <<>>)
       \/ Statement(v, <<>>)
    BY <1>1, <1>3, <1>4, <1>6, <1>7, <1>9 DEF ContinueStatement
<1>. QED  BY <1>11, <1>12, <1>13

-----------------------------------------------------------------------------
(* Classes.                                                                *)

LEMMA FrontIsSeq ==
    ASSUME NEW S, NEW s \in Seq(S)
    PROVE  Front(s) \in Seq(S)
<1>1. CASE s # <<>>
    BY <1>1, FrontAndLast
<1>2. CASE s = <<>>
    <2>1. Front(s) = SubSeq(s, 1, -1)
        BY <1>2 DEF Front
    <2>2. SubSeq(s, 1, -1) = <<>>
        <3>1. SubSeq(s, 1, -1) = [i \in 1..-1 |-> s[1 + i - 1]]
            OBVIOUS
        <3>2. 1..-1 = {}
            OBVIOUS
        <3>. QED  BY <3>1, <3>2
    <2>. QED  BY <2>1, <2>2
<1>. QED  BY <1>1, <1>2

LEMMA ClassTask ==
    ASSUME NEW base \in Nat, NEW inherits \in BOOLEAN, NEW t, t = Class(base, inherits)
    PROVE  /\ t \in Tasks /\ t.k = "endClass" /\ t.base = base /\ t.hasSuperclass = inherits
           /\ t.k \in Based /\ Base(t) = base /\ t.k # "endFunction" /\ t.k \notin LoopTasks
           /\ One(t, ScopeTasks) = (IF inherits THEN 1 ELSE 0) /\ One(t, LoopEndTasks) = 0
           /\ JumpsOf(t) = {} /\ \A p : ~StartsAt(t, p)
           /\ \A c : base <= Len(c.visible) => Fits(c, t)
<1>1. t \in Tasks /\ t.k = "endClass" /\ t.base = base /\ t.hasSuperclass = inherits
    BY DEF Tasks, Class
<1>2. t.k \in Based /\ t.k # "endFunction" /\ t.k \notin LoopTasks /\ t.k \notin LoopEnds
    BY <1>1 DEF Based, LoopTasks, LoopEnds
<1>3. Base(t) = base
    BY <1>1, <1>2 DEF Base
<1>4. One(t, ScopeTasks) = (IF inherits THEN 1 ELSE 0)
    <2>1. t \in ScopeTasks <=> inherits
        BY <1>1 DEF ScopeTasks, ForTasks
    <2>. QED  BY <2>1 DEF One
<1>5. One(t, LoopEndTasks) = 0
    BY <1>2 DEF One, LoopEndTasks
<1>6. JumpsOf(t) = {}
    BY <1>1, Zenon DEF JumpsOf
<1>7. \A p : ~StartsAt(t, p)
    BY <1>1 DEF StartsAt
<1>8. \A c : base <= Len(c.visible) => Fits(c, t)
    BY <1>1, <1>2, <1>3 DEF Fits
<1>. QED  BY <1>1, <1>2, <1>3, <1>4, <1>5, <1>6, <1>7, <1>8

LEMMA MethodsTask ==
    ASSUME NEW t, t = Task("methods")
    PROVE  /\ t \in Tasks /\ t.k = "methods" /\ t.k \notin Based /\ t.k \notin LoopTasks
           /\ t.k # "endFunction" /\ One(t, ScopeTasks) = 0 /\ One(t, LoopEndTasks) = 0
           /\ \A c : Fits(c, t)
<1>1. t \in Tasks /\ t.k = "methods"
    BY DEF Tasks, Task
<1>2. t.k \notin Based /\ t.k \notin LoopTasks /\ t.k # "endFunction"
      /\ t.k \notin ForTasks \cup {"endScope", "endClass"} /\ t.k \notin LoopEnds
    BY <1>1 DEF Based, LoopTasks, ForTasks, LoopEnds
<1>3. \A c : Fits(c, t)
    BY <1>1, <1>2 DEF Fits
<1>. QED  BY <1>1, <1>2, <1>3, Uncounted

(* A class has begun: its methods come next, and its end behind them.      *)
LEMMA ClassKeeps ==
    ASSUME Inv, Doing("stats"), Advances, NEW s, Follows(Now, s), NEW c, c = Current(Now),
           NEW d, d = Current(s), NEW inherits \in BOOLEAN, d.type = c.type,
           d.last_continue = c.last_continue, NEW base \in Nat,
           base >= Len(c.visible), base <= Len(d.visible),
           NEW scopes \in Int, scopes = (IF inherits THEN 1 ELSE 0), NEW none \in Int, none = 0,
           NEW empty, empty = {}, Midway(d, Rest, Last(Work), scopes, none, empty),
           Walk(s, <<Task("methods"), Class(base, inherits)>>, Work),
           currentClass' = Append(currentClass, inherits), UNCHANGED functions
    PROVE  Inv'
<1>1. PICK r : r = Rest
    OBVIOUS
<1>2. PICK end : end = Last(Work)
    OBVIOUS
<1>3. AtStatement
    BY DEF AtStatement
<1>4. /\ todo # <<>> /\ Good(Now) /\ r \in Seq(Tasks) /\ OpenLoop(r, 0, c.last_continue)
      /\ Resting(r) /\ Outside(r, Len(c.visible))
    BY <1>1, <1>3, StatementBegins
<1>5. PICK t : t = Class(base, inherits)
    OBVIOUS
<1>6. /\ t \in Tasks /\ t.k = "endClass" /\ t.k \in Based /\ Base(t) = base
      /\ t.k # "endFunction" /\ t.k \notin LoopTasks /\ One(t, LoopEndTasks) = 0
      /\ One(t, ScopeTasks) = (IF inherits THEN 1 ELSE 0) /\ Fits(d, t)
    BY <1>5, ClassTask
<1>7. Pushable(d, t, r)
    <2>1. \A i \in 1..Len(r) : t.k \in Based /\ r[i].k \in Based => Base(r[i]) <= Base(t)
        <3>1. SUFFICES ASSUME NEW i \in 1..Len(r), r[i].k \in Based
                       PROVE  Base(r[i]) <= base
            BY <1>6
        <3>2. Base(r[i]) <= Len(c.visible) /\ r[i] \in Tasks
            BY <1>4, <3>1 DEF Outside
        <3>3. Base(r[i]) \in Nat /\ Len(c.visible) \in Nat
            BY <1>4, <3>1, <3>2, BaseIsNat, LoopFields
        <3>. QED  BY <3>2, <3>3
    <2>2. \A i \in 1..Len(r) : Before(t, r[i])
        BY <1>4, <1>6, <2>1, BeforeResting
    <2>. QED  BY <1>6, <2>2 DEF Pushable
<1>8. PICK q : q = Ahead(t, r)
    OBVIOUS
<1>9. /\ Midway(d, q, end, none, none, empty) /\ \A p : OpenLoop(r, 0, p) => OpenLoop(q, 0, p)
      /\ \A e : Before(e, t) /\ (\A i \in 1..Len(r) : Before(e, r[i])) =>
            \A i \in 1..Len(q) : Before(e, q[i])
    <2>1. scopes - One(t, ScopeTasks) = none /\ none - One(t, LoopEndTasks) = none
        BY <1>6
    <2>2. Midway(d, r, end, scopes, none, empty) /\ empty \subseteq JumpsOf(t) \cup empty
        BY <1>1, <1>2
    <2>3. /\ Midway(d, q, end, scopes - One(t, ScopeTasks), none - One(t, LoopEndTasks), empty)
          /\ \A p : OpenLoop(r, 0, p) => OpenLoop(q, 0, p)
          /\ \A e : Before(e, t) /\ (\A i \in 1..Len(r) : Before(e, r[i])) =>
                \A i \in 1..Len(q) : Before(e, q[i])
        BY <1>7, <1>8, <2>2, PutsInFront
    <2>. QED  BY <2>1, <2>3
<1>10. PICK m : m = Task("methods")
    OBVIOUS
<1>11. /\ m \in Tasks /\ m.k = "methods" /\ m.k \notin Based /\ m.k \notin LoopTasks
       /\ m.k # "endFunction" /\ One(m, ScopeTasks) = 0 /\ One(m, LoopEndTasks) = 0 /\ Fits(d, m)
    BY <1>10, MethodsTask
<1>12. Pushable(d, m, q)
    <2>1. Before(m, t)
        BY <1>6, <1>11 DEF Before, AfterExprs
    <2>2. \A i \in 1..Len(r) : Before(m, r[i])
        BY <1>4, <1>11, BeforeResting
    <2>. QED  BY <1>9, <1>11, <2>1, <2>2 DEF Pushable
<1>13. PICK u : u = Ahead(m, q)
    OBVIOUS
<1>14. /\ Midway(d, u, end, none, none, empty) /\ \A p : OpenLoop(q, 0, p) => OpenLoop(u, 0, p)
    <2>1. none - One(m, ScopeTasks) = none /\ none - One(m, LoopEndTasks) = none
          /\ empty \subseteq JumpsOf(m) \cup empty
        BY <1>11
    <2>2. /\ Midway(d, u, end, none - One(m, ScopeTasks), none - One(m, LoopEndTasks), empty)
          /\ \A p : OpenLoop(q, 0, p) => OpenLoop(u, 0, p)
        BY <1>9, <1>12, <1>13, <2>1, PutsInFront
    <2>. QED  BY <2>1, <2>2
<1>15. Midway(d, u, end, 0, 0, {}) /\ OpenLoop(u, 0, d.last_continue)
    BY <1>4, <1>9, <1>14
<1>16. todo' = Append(Front(todo), u) /\ Becomes(s)
    <2>1. <<m, t>> \o r = u
        BY <1>4, <1>6, <1>8, <1>11, <1>13, TwoInFront
    <2>2. r = Work
        BY <1>1 DEF Rest
    <2>. QED  BY <1>5, <1>10, <2>1, <2>2 DEF Walk
<1>17. Onward
    <2>1. budget \in 0..MaxNodes /\ currentClass \in Seq(BOOLEAN) /\ family \in Families
        BY DEF Inv, Settings
    <2>2. MaxNodes \in Nat
        BY <2>1, Limits DEF MaxNodes
    <2>3. currentClass' \in Seq(BOOLEAN)
        BY <2>1, AppendProperties
    <2>. QED  BY <2>1, <2>2, <2>3 DEF Onward, Advances
<1>. QED  BY <1>2, <1>4, <1>15, <1>16, <1>17, WalkKeeps

LEMMA WiderIs ==
    ASSUME NEW s, Good(s), NEW t, GetsWider(s, t)
    PROVE  /\ Follows(s, t) /\ Good(t) /\ Fine(Current(t)) /\ Current(t) \in Contexts
           /\ Current(s) \in Contexts /\ Widens(Current(s), Current(t))
           /\ Current(t).type = Current(s).type
           /\ Current(t).last_continue = Current(s).last_continue
           /\ Len(Current(s).visible) \in Nat /\ Len(Current(t).visible) \in Nat
           /\ Len(Current(t).visible) >= Len(Current(s).visible)
           /\ (CanDefine(Current(s)) => CanDefine(Current(t)))
<1>1. Follows(s, t) /\ Good(t) /\ Widens(Current(s), Current(t))
    BY DEF GetsWider, Follows
<1>2. Fine(Current(t)) /\ Current(t) \in Contexts /\ Current(s) \in Contexts
    BY <1>1, CurrentIsFine
<1>. QED  BY <1>1, <1>2, LoopFields, CanStillDefine DEF Widens, SameLoops

LEMMA ClassDeclarationKeeps ==
    ASSUME Inv, ClassDeclaration
    PROVE  Inv'
<1>1. Doing("stats") /\ AtStatement /\ Advances /\ UNCHANGED functions
    BY DEF ClassDeclaration, AtStatement, Node, Advances
<1>2. PICK x \in Identifiers, inherits \in BOOLEAN :
        \E y \in IF inherits THEN Identifiers \ {x} ELSE {x} :
        LET declared == Emit(DeclareVariable(Now, x), "CLASS", 0)
            defined == DefineVariable(declared, x)
            super == BeginScope(NamedVariable(defined, y, FALSE))
            scoped == MarkInitialized(AddLocal(super, "super"))
            s == IF inherits THEN Emit(NamedVariable(scoped, x, FALSE), "INHERIT", 0) ELSE defined
        IN  /\ Walk(NamedVariable(s, x, FALSE),
                    <<Task("methods"), Class(Visible(defined), inherits)>>, Work)
            /\ currentClass' = Append(currentClass, inherits)
    BY DEF ClassDeclaration
<1>3. PICK y \in Identifiers :
        LET declared == Emit(DeclareVariable(Now, x), "CLASS", 0)
            defined == DefineVariable(declared, x)
            super == BeginScope(NamedVariable(defined, y, FALSE))
            scoped == MarkInitialized(AddLocal(super, "super"))
            s == IF inherits THEN Emit(NamedVariable(scoped, x, FALSE), "INHERIT", 0) ELSE defined
        IN  /\ Walk(NamedVariable(s, x, FALSE),
                    <<Task("methods"), Class(Visible(defined), inherits)>>, Work)
            /\ currentClass' = Append(currentClass, inherits)
    BY <1>2
<1>4. x \in VariableNames /\ y \in VariableNames
    BY FamilyBounds
<1>5. PICK a : a = DeclareVariable(Now, x)
    OBVIOUS
<1>6. PICK none \in Int : none = 0
    OBVIOUS
<1>7. PICK declared : declared = Emit(a, "CLASS", 0)
    OBVIOUS
<1>8. PICK defined : defined = DefineVariable(declared, x)
    OBVIOUS
<1>9. PICK b : b = NamedVariable(defined, y, FALSE)
    OBVIOUS
<1>10. PICK super : super = BeginScope(b)
    OBVIOUS
<1>11. PICK added : added = AddLocal(super, "super")
    OBVIOUS
<1>12. PICK scoped : scoped = MarkInitialized(added)
    OBVIOUS
<1>13. PICK e : e = NamedVariable(scoped, x, FALSE)
    OBVIOUS
<1>14. PICK f : f = Emit(e, "INHERIT", 0)
    OBVIOUS
<1>15. PICK s : s = IF inherits THEN f ELSE defined
    OBVIOUS
<1>16. PICK v : v = NamedVariable(s, x, FALSE)
    OBVIOUS
<1>17. PICK base : base = Visible(defined)
    OBVIOUS
<1>18. /\ Walk(v, <<Task("methods"), Class(base, inherits)>>, Work)
       /\ currentClass' = Append(currentClass, inherits)
    BY <1>3, <1>5, <1>7, <1>8, <1>9, <1>10, <1>11, <1>12, <1>13, <1>14, <1>15, <1>16, <1>17
<1>19. PICK c : c = Current(Now)
    OBVIOUS
<1>20. PICK r : r = Rest
    OBVIOUS
<1>21. PICK end : end = Last(Work)
    OBVIOUS
<1>22. PICK empty : empty = {}
    OBVIOUS
<1>23. /\ Good(Now) /\ Midway(c, r, end, none, none, empty) /\ r \in Seq(Tasks) /\ Resting(r)
    BY <1>1, <1>6, <1>19, <1>20, <1>21, <1>22, StatementBegins
<1>24. GetsWider(Now, a) /\ CanDefine(Current(a))
    BY <1>4, <1>5, <1>23, DeclaresOne
<1>25. GetsWider(a, declared) /\ CanDefine(Current(declared))
    <2>1. PICK op \in PlainOperations : op = "CLASS"
        BY DEF PlainOperations, Operations, Pushes, Jumping
    <2>2. GetsWider(a, declared)
        BY <1>6, <1>7, <1>23, <1>24, <2>1, EmitsInPassing, WiderIs
    <2>. QED  BY <1>23, <1>24, <2>2, WiderIs
<1>26. GetsWider(declared, defined) /\ Good(declared) /\ Good(a)
    BY <1>4, <1>8, <1>23, <1>24, <1>25, Defines, WiderIs
<1>27. GetsWider(Now, defined) /\ Good(defined)
    <2>1. GetsWider(Now, declared)
        BY <1>23, <1>24, <1>25, GetsWiderOn
    <2>. QED  BY <1>23, <1>26, <2>1, GetsWiderOn, WiderIs
<1>28. PICK g : g = Current(defined)
    OBVIOUS
<1>29. /\ Fine(g) /\ g.type = c.type /\ g.last_continue = c.last_continue /\ Follows(Now, defined)
       /\ base = Len(g.visible) /\ base \in Nat /\ base >= Len(c.visible) /\ Widens(c, g)
    BY <1>17, <1>19, <1>23, <1>27, <1>28, WiderIs DEF Visible
<1>30. Midway(g, r, end, none, none, empty)
    BY <1>6, <1>23, <1>29, MovesWider
<1>31. PICK d : d = Current(v)
    OBVIOUS
<1>32. CASE ~inherits
    <2>1. GetsWider(defined, v) /\ s = defined
        <3>1. v = NamedVariable(defined, x, FALSE) /\ s = defined
            BY <1>15, <1>16, <1>32
        <3>2. PICK no : no = FALSE
            OBVIOUS
        <3>3. v = NamedVariable(defined, x, no)
            BY <3>1, <3>2
        <3>. QED  BY <1>4, <1>27, <3>1, <3>3, LooksUp
    <2>2. /\ Follows(defined, v) /\ Fine(d) /\ Widens(g, d) /\ d.type = g.type
          /\ d.last_continue = g.last_continue /\ Len(d.visible) >= base
        BY <1>27, <1>28, <1>29, <1>31, <2>1, WiderIs
    <2>3. Midway(d, r, end, none, none, empty)
        BY <1>6, <1>30, <2>2, MovesWider
    <2>4. Follows(Now, v) /\ d.type = c.type /\ d.last_continue = c.last_continue
        BY <1>29, <2>2, FollowsOn
    <2>5. none = (IF inherits THEN 1 ELSE 0) /\ base <= Len(d.visible)
        <3>1. Len(d.visible) \in Nat
            BY <1>27, <1>31, <2>1, WiderIs
        <3>. QED  BY <1>6, <1>29, <1>32, <2>2, <3>1
    <2>. QED  BY <1>1, <1>6, <1>18, <1>19, <1>20, <1>21, <1>22, <1>29, <1>31, <2>3, <2>4, <2>5,
                 ClassKeeps
<1>33. CASE inherits
    <2>1. PICK no : no = FALSE
        OBVIOUS
    <2>2. GetsWider(defined, b) /\ Good(b)
        <3>1. b = NamedVariable(defined, y, no)
            BY <1>9, <2>1
        <3>2. GetsWider(defined, b)
            BY <1>4, <1>27, <3>1, LooksUp
        <3>. QED  BY <1>27, <3>2, WiderIs
    <2>3. PICK h : h = Current(b)
        OBVIOUS
    <2>4. /\ Fine(h) /\ Widens(g, h) /\ h.type = g.type /\ h.last_continue = g.last_continue
          /\ Follows(defined, b) /\ Len(h.visible) >= base /\ Len(h.visible) \in Nat
        BY <1>27, <1>28, <1>29, <2>2, <2>3, WiderIs
    <2>5. Midway(h, r, end, 0, 0, {})
        <3>1. Midway(h, r, end, none, none, empty)
            BY <1>6, <1>30, <2>4, MovesWider
        <3>. QED  BY <1>6, <1>22, <3>1
    <2>6. \A i \in 1..Len(r) : r[i].k # "define"
        BY <1>23 DEF Resting, Waiting, AfterExprs
    <2>7. PICK j : j = Current(super)
        OBVIOUS
    <2>8. /\ Follows(b, super) /\ Good(super) /\ Midway(j, r, end, 1, 0, {}) /\ j.type = h.type
          /\ j.last_continue = h.last_continue /\ j.visible = h.visible
        BY <1>10, <2>2, <2>3, <2>5, <2>6, <2>7, MovesIntoScope
    <2>9. GetsWider(super, added) /\ Len(Current(added).locals) > 1
        <3>1. PICK name \in VariableNames : name = "super"
            BY DEF VariableNames
        <3>. QED  BY <1>11, <2>8, <3>1, AddsLocal
    <2>10. Good(added) /\ CanDefine(Current(added))
        BY <2>8, <2>9, WiderIs DEF CanDefine
    <2>11. GetsWider(added, scoped)
        BY <1>12, <2>10, MarksInitialized
    <2>12. GetsWider(super, scoped) /\ Good(scoped)
        BY <2>8, <2>9, <2>10, <2>11, GetsWiderOn, WiderIs
    <2>13. GetsWider(scoped, e) /\ Good(e)
        <3>1. e = NamedVariable(scoped, x, no)
            BY <1>13, <2>1
        <3>2. GetsWider(scoped, e)
            BY <1>4, <2>12, <3>1, LooksUp
        <3>. QED  BY <2>12, <3>2, WiderIs
    <2>14. GetsWider(e, f) /\ Good(f)
        <3>1. PICK op \in PlainOperations : op = "INHERIT"
            BY DEF PlainOperations, Operations, Pops, Jumping
        <3>. QED  BY <1>6, <1>14, <2>13, <3>1, EmitsInPassing
    <2>15. GetsWider(f, v)
        <3>1. v = NamedVariable(f, x, no)
            BY <1>15, <1>16, <1>33, <2>1
        <3>. QED  BY <1>4, <2>14, <3>1, LooksUp
    <2>16. GetsWider(super, v)
        <3>1. GetsWider(super, e)
            BY <2>8, <2>12, <2>13, GetsWiderOn
        <3>2. GetsWider(super, f)
            BY <2>8, <2>14, <3>1, GetsWiderOn
        <3>. QED  BY <2>8, <2>15, <3>2, GetsWiderOn
    <2>17. /\ Follows(super, v) /\ Fine(d) /\ Widens(j, d) /\ d.type = j.type
           /\ d.last_continue = j.last_continue /\ Len(d.visible) >= Len(j.visible)
           /\ Len(d.visible) \in Nat
        BY <1>31, <2>7, <2>8, <2>16, WiderIs
    <2>18. PICK one \in Int : one = 1
        OBVIOUS
    <2>19. Midway(d, r, end, one, none, empty)
        <3>1. Midway(j, r, end, one, none, empty)
            BY <1>6, <1>22, <2>8, <2>18
        <3>. QED  BY <1>6, <2>17, <2>18, <3>1, MovesWider
    <2>20. Follows(Now, v) /\ d.type = c.type /\ d.last_continue = c.last_continue
        <3>1. Follows(Now, b)
            BY <1>29, <2>4, FollowsOn
        <3>2. Follows(Now, super)
            BY <2>8, <3>1, FollowsOn
        <3>3. Follows(Now, v)
            BY <2>17, <3>2, FollowsOn
        <3>. QED  BY <1>29, <2>4, <2>8, <2>17, <3>3
    <2>21. one = (IF inherits THEN 1 ELSE 0) /\ base <= Len(d.visible)
        BY <1>29, <1>33, <2>4, <2>8, <2>17, <2>18
    <2>. QED  BY <1>1, <1>6, <1>18, <1>19, <1>20, <1>21, <1>22, <1>29, <1>31, <2>18, <2>19, <2>20,
                 <2>21, ClassKeeps
<1>. QED  BY <1>32, <1>33

LEMMA EndClassKeeps ==
    ASSUME Inv, EndClass
    PROVE  Inv'
<1>1. PICK h : h = Work[1]
    OBVIOUS
<1>2. PICK r : r = Tail(Work)
    OBVIOUS
<1>3. PICK c : c = Current(Now)
    OBVIOUS
<1>4. PICK end : end = Last(Work)
    OBVIOUS
<1>5. Doing("endClass") /\ currentClass' = Front(currentClass) /\ UNCHANGED <<functions, budget>>
    BY DEF EndClass
<1>6. /\ Good(Now) /\ Head(Work) = h /\ h.k = "endClass" /\ h \in Tasks /\ Fits(c, h)
      /\ Midway(c, r, end, One(h, ScopeTasks), One(h, LoopEndTasks), JumpsOf(h))
      /\ \A i \in 1..Len(r) : Before(h, r[i])
      /\ (~StartsAt(h, c.last_continue) => OpenLoop(r, 0, c.last_continue))
      /\ r \in Seq(Tasks) /\ todo # <<>>
    <2>1. PICK kind : kind = "endClass"
        OBVIOUS
    <2>2. kind # "endFunction" /\ Doing(kind)
        BY <1>5, <2>1
    <2>. QED  BY <1>1, <1>2, <1>3, <1>4, <2>1, <2>2, TaskBegins
<1>7. PICK base : base = h.base
    OBVIOUS
<1>8. base \in Nat /\ h.k \in Based /\ Base(h) = base /\ h.hasSuperclass \in BOOLEAN
    <2>1. base \in Nat /\ h.hasSuperclass \in BOOLEAN
        BY <1>6, <1>7, TaskTypes
    <2>. QED  BY <1>6, <1>7, <2>1 DEF Based, Base, LoopTasks
<1>9. base <= Len(c.visible)
    BY <1>6, <1>8 DEF Fits
<1>10. Resting(r) /\ Outside(r, base)
    <2>1. h.k \notin ExprTasks \cup {"define", "methods"}
        BY <1>6 DEF ExprTasks
    <2>. QED  BY <1>6, <1>8, <2>1, RestsBehind
<1>11. /\ One(h, ScopeTasks) = (IF h.hasSuperclass THEN 1 ELSE 0) /\ One(h, LoopEndTasks) = 0
       /\ ~StartsAt(h, c.last_continue)
    <2>1. h \in ScopeTasks <=> h.hasSuperclass
        BY <1>6, <1>8 DEF ScopeTasks, ForTasks
    <2>. QED  BY <1>6, <2>1 DEF One, LoopEndTasks, LoopEnds, StartsAt
<1>12. PICK empty : empty = {}
    OBVIOUS
<1>13. JumpsOf(h) = empty
    BY <1>6, <1>12, Zenon DEF JumpsOf
<1>14. PICK none \in Int : none = 0
    OBVIOUS
<1>15. PICK scopes \in Int : scopes = IF h.hasSuperclass THEN 1 ELSE 0
    OBVIOUS
<1>16. PICK s : s = Emit(Now, "POP", 0)
    OBVIOUS
<1>17. PICK e : e = Current(s)
    OBVIOUS
<1>18. GetsWider(Now, s) /\ Good(s)
    BY <1>6, <1>16, PopsInPassing
<1>19. /\ Follows(Now, s) /\ Fine(e) /\ Widens(c, e) /\ e.type = c.type
       /\ e.last_continue = c.last_continue /\ base <= Len(e.visible)
    <2>1. /\ Follows(Now, s) /\ Fine(e) /\ Widens(c, e) /\ e.type = c.type
          /\ e.last_continue = c.last_continue /\ Len(e.visible) >= Len(c.visible)
          /\ Len(e.visible) \in Nat /\ Len(c.visible) \in Nat
        BY <1>3, <1>6, <1>17, <1>18, WiderIs
    <2>. QED  BY <1>8, <1>9, <2>1
<1>20. Midway(e, r, end, scopes, none, empty)
    <2>1. Midway(c, r, end, scopes, none, empty)
        BY <1>6, <1>11, <1>13, <1>14, <1>15
    <2>. QED  BY <1>14, <1>15, <1>19, <2>1, MovesWider
<1>21. PICK v : v = IF h.hasSuperclass THEN EndScope(s, base) ELSE s
    OBVIOUS
<1>22. PICK d : d = Current(v)
    OBVIOUS
<1>23. /\ Follows(Now, v) /\ Midway(d, r, end, 0, 0, {}) /\ d.type = c.type
       /\ d.last_continue = c.last_continue
    <2>1. CASE h.hasSuperclass
        <3>1. Midway(e, r, end, 1, none, empty)
            BY <1>15, <1>20, <2>1
        <3>2. v = EndScope(s, base)
            BY <1>21, <2>1
        <3>3. /\ Follows(s, v) /\ Midway(d, r, end, 0, none, empty) /\ d.type = e.type
              /\ d.last_continue = e.last_continue
            BY <1>8, <1>10, <1>14, <1>17, <1>18, <1>19, <1>22, <3>1, <3>2, ScopeIsLeft
        <3>4. Midway(d, r, end, 0, 0, {})
            BY <1>12, <1>14, <3>3
        <3>. QED  BY <1>19, <3>3, <3>4, FollowsOn
    <2>2. CASE ~h.hasSuperclass
        <3>1. v = s /\ d = e
            BY <1>17, <1>21, <1>22, <2>2
        <3>2. Midway(d, r, end, 0, 0, {})
            BY <1>12, <1>14, <1>15, <1>20, <2>2, <3>1
        <3>. QED  BY <1>19, <3>1, <3>2
    <2>. QED  BY <2>1, <2>2
<1>24. OpenLoop(r, 0, d.last_continue)
    BY <1>6, <1>11, <1>23
<1>25. Becomes(v) /\ todo' = Append(Front(todo), r)
    <2>1. Walk(v, <<>>, Tail(Work))
        BY <1>6, <1>7, <1>16, <1>21 DEF EndClass
    <2>2. <<>> \o Tail(Work) = r
        BY <1>2, <1>6
    <2>. QED  BY <2>1, <2>2 DEF Walk
<1>26. Onward
    <2>1. budget \in 0..MaxNodes /\ currentClass \in Seq(BOOLEAN) /\ family \in Families
        BY DEF Inv, Settings
    <2>2. currentClass' \in Seq(BOOLEAN)
        BY <1>5, <2>1, FrontIsSeq
    <2>. QED  BY <1>5, <2>1, <2>2 DEF Onward
<1>. QED  BY <1>3, <1>4, <1>6, <1>22, <1>23, <1>24, <1>25, <1>26, WalkKeeps

-----------------------------------------------------------------------------
(* Functions.                                                              *)

LEMMA NewContextIsFine ==
    ASSUME NEW type \in FunctionTypes, NEW c, c = NewContext(type)
    PROVE  /\ Fine(c) /\ c \in Contexts /\ c.type = type /\ c.scopeDepth = 0
           /\ c.enclosing_loop = 0 /\ c.last_continue = 0 /\ c.code = <<>> /\ c.last_break = 0
<1>1. PICK self : self = IF type = "function" THEN "" ELSE "this"
    OBVIOUS
<1>2. PICK local : local = [name |-> self, depth |-> 0, captured |-> FALSE]
    OBVIOUS
<1>3. self \in VariableNames /\ local \in LocalRecords
      /\ local.depth = 0 /\ local.name = self
    BY <1>1, <1>2 DEF VariableNames, LocalRecords
<1>4. PICK locals : locals = <<local>>
    OBVIOUS
<1>5. locals \in Seq(LocalRecords) /\ Len(locals) = 1 /\ locals[1] = local
    BY <1>3, <1>4
<1>6. PICK visible : visible = <<self>>
    OBVIOUS
<1>7. visible \in Seq(VariableNames)
    BY <1>3, <1>6
<1>8. <<>> \in Seq(UpvalueRecords) /\ <<>> \in Seq(Instructions) /\ Len(<<>>) = 0
    OBVIOUS
<1>9. PICK nothing : nothing = <<>>
    OBVIOUS
<1>10. nothing \in Seq(UpvalueRecords) /\ nothing \in Seq(Instructions) /\ Len(nothing) = 0
    BY <1>8, <1>9
<1>11. c = [type |-> type, arity |-> 0, locals |-> locals,
            upvalues |-> nothing, scopeDepth |-> 0,
            last_continue |-> 0, last_break |-> 0, last_scope_depth |-> 0, enclosing_loop |-> 0,
            code |-> nothing, height |-> 1, visible |-> visible]
    BY <1>1, <1>2, <1>4, <1>6, <1>9 DEF NewContext
<1>12. /\ c \in Contexts /\ c.type = type /\ c.scopeDepth = 0 /\ c.enclosing_loop = 0
       /\ c.last_continue = 0 /\ c.last_break = 0 /\ c.code = nothing /\ c.locals = locals
       /\ c.upvalues = nothing
    BY <1>5, <1>7, <1>10, <1>11 DEF Contexts
<1>13. Len(c.locals) \in 1..UINT8_COUNT /\ Len(c.upvalues) <= UINT8_COUNT
    <2>1. PICK limit \in Nat : limit = UINT8_COUNT /\ limit >= 2
        BY Limits
    <2>2. Len(c.locals) = 1 /\ Len(c.upvalues) = 0
        BY <1>5, <1>10, <1>12
    <2>3. 1 \in 1..limit /\ 0 <= limit
        BY <2>1
    <2>. QED  BY <2>1, <2>2, <2>3
<1>14. Fine(c)
    <2>1. c.locals[1] = local
        BY <1>5, <1>12
    <2>2. c.locals[1].depth = 0
          /\ c.locals[1].name = IF c.type = "function" THEN "" ELSE "this"
        BY <1>1, <1>3, <1>12, <2>1
    <2>3. c.last_break <= Len(c.code) /\ c.last_continue <= Len(c.code)
        BY <1>10, <1>12
    <2>. QED  BY <1>12, <1>13, <2>2, <2>3 DEF Fine
<1>. QED  BY <1>9, <1>12, <1>14

LEMMA ContextIsPushed ==
    ASSUME NEW s, Good(s), NEW type \in FunctionTypes, NEW t, t = InitCompiler(s, type),
           NEW n, n = Len(s.contexts)
    PROVE  /\ Good(t) /\ n \in Nat /\ Len(t.contexts) = n + 1 /\ Current(t) = NewContext(type)
           /\ \A j \in 1..n : t.contexts[j] = s.contexts[j]
           /\ t.error = s.error
<1>1. PICK c \in Contexts : c = NewContext(type) /\ Fine(c)
    BY NewContextIsFine
<1>2. PICK old \in Seq(Contexts) : old = s.contexts /\ s.error \in Errors /\ s \in States
    BY CurrentIsFine DEF Good
<1>3. PICK new : new = Append(old, c)
    OBVIOUS
<1>4. n \in Nat /\ new \in Seq(Contexts) /\ Len(new) = n + 1 /\ new[n + 1] = c
      /\ \A j \in 1..n : new[j] = old[j]
    BY <1>2, <1>3, AppendProperties
<1>5. new # <<>> /\ Last(new) = c
    BY <1>4, EmptySeq DEF Last
<1>6. t = [s EXCEPT !.contexts = new]
    BY <1>1, <1>2, <1>3 DEF InitCompiler
<1>7. t \in States /\ t.contexts = new /\ t.error = s.error
    BY <1>2, <1>4, <1>6 DEF States
<1>8. \A j \in 1..n + 1 : Fine(new[j])
    <2>1. \A j \in 1..n : Fine(old[j])
        BY <1>2 DEF Good
    <2>2. \A j \in 1..n + 1 : j \in 1..n \/ j = n + 1
        BY <1>4
    <2>. QED  BY <1>1, <1>4, <2>1, <2>2
<1>9. Good(t)
    BY <1>4, <1>5, <1>7, <1>8 DEF Good
<1>. QED  BY <1>1, <1>2, <1>4, <1>5, <1>7, <1>9 DEF Current

(* The parameters are declared one by one: what this keeps, all keep.      *)
Unfolds(declare, b, parameters, n) ==
    /\ declare[0] = b
    /\ \A i \in 1..n : declare[i] =
        DefineVariable(DeclareVariable(declare[i - 1], parameters[i]), parameters[i])

LEMMA ParametersStay ==
    ASSUME NEW b, NEW n \in Nat, NEW parameters \in [1..n -> VariableNames], NEW T, b \in T,
           \A s \in T : \A x \in VariableNames : DefineVariable(DeclareVariable(s, x), x) \in T,
           NEW declare, declare = CHOOSE f : f = [i \in 0..n |->
                IF i = 0 THEN b
                ELSE DefineVariable(DeclareVariable(f[i - 1], parameters[i]), parameters[i])]
    PROVE  declare[n] \in T /\ Unfolds(declare, b, parameters, n)
<1>. DEFINE Next1(s, i) == DefineVariable(DeclareVariable(s, parameters[i]), parameters[i])
<1>1. ASSUME NEW s \in T, NEW i \in 1..n
      PROVE  Next1(s, i) \in T
    <2>1. PICK x \in VariableNames : x = parameters[i]
        OBVIOUS
    <2>. QED  BY <2>1
<1>4. PICK x \in T : x = b
    OBVIOUS
<1>5. PICK g : g = [p \in Nat \X T |-> IF p[1] \in 1..n THEN Next1(p[2], p[1]) ELSE p[2]]
    OBVIOUS
<1>. HIDE DEF Next1
<1>6. g \in [Nat \X T -> T]
    <2>1. ASSUME NEW p \in Nat \X T PROVE g[p] \in T
        <3>1. p[2] \in T
            OBVIOUS
        <3>. QED  BY <1>1, <1>5, <3>1
    <2>. QED  BY <1>5, <2>1
<1>7. PICK none \in Nat : none = 0
    OBVIOUS
<1>8. PICK f \in [0..n -> T] : f[0] = x /\ \A i \in 1..n : f[i] = g[<<i, f[i - 1]>>]
    <2>1. none <= n
        BY <1>7
    <2>2. \E f \in [none..n -> T] : Stepwise(f, none, n, x, g)
        BY <1>4, <1>6, <1>7, <2>1, StepByStep, Zenon
    <2>. QED  BY <1>7, <2>2 DEF Stepwise
<1>9. ASSUME NEW i \in 1..n
      PROVE  f[i] = Next1(f[i - 1], i)
    <2>1. i - 1 \in 0..n /\ i \in Nat /\ f[i - 1] \in T
        BY <1>8
    <2>2. g[<<i, f[i - 1]>>] = Next1(f[i - 1], i)
        BY <1>5, <2>1
    <2>. QED  BY <1>8, <2>2
<1>. DEFINE Step(h) == [i \in 0..n |-> IF i = 0 THEN b ELSE Next1(h[i - 1], i)]
<1>10. f = Step(f)
    <2>1. ASSUME NEW i \in 0..n
          PROVE  f[i] = IF i = 0 THEN b ELSE Next1(f[i - 1], i)
        <3>1. CASE i = 0
            BY <1>4, <1>8, <3>1
        <3>2. CASE i # 0
            <4>1. i \in 1..n
                BY <3>2
            <4>. QED  BY <1>9, <3>2, <4>1
        <3>. QED  BY <3>1, <3>2
    <2>. QED  BY <1>8, <2>1
<1>11. declare = CHOOSE h : h = Step(h)
    BY DEF Next1
<1>12. declare = Step(declare)
    BY <1>10, <1>11
<1>. HIDE DEF Step
<1>13. \A i \in 0..n : declare[i] = IF i = 0 THEN b ELSE Next1(declare[i - 1], i)
    BY <1>12 DEF Step
<1>14. declare[0] = b
    BY <1>13
<1>15. \A i \in 0..n : declare[i] \in T
    <2>1. ASSUME NEW i \in none + 1..n, declare[i - 1] \in T PROVE declare[i] \in T
        <3>1. i \in 1..n /\ i \in 0..n /\ i # 0
            BY <1>7
        <3>2. declare[i] = Next1(declare[i - 1], i)
            BY <1>13, <3>1
        <3>. QED  BY <1>1, <2>1, <3>1, <3>2
    <2>2. declare[none] \in T
        BY <1>4, <1>7, <1>14
    <2>3. \A i \in none..n : declare[i] \in T
        BY <1>7, <2>1, <2>2, Upward
    <2>. QED  BY <1>7, <2>3
<1>16. ASSUME NEW i \in 1..n
       PROVE  declare[i] = Next1(declare[i - 1], i)
    <2>1. i \in 0..n /\ i # 0
        OBVIOUS
    <2>. QED  BY <1>13, <2>1
<1>. QED  BY <1>14, <1>15, <1>16 DEF Next1, Unfolds

LEMMA ParametersAreDeclared ==
    ASSUME NEW b, Good(b), NEW n \in Nat, NEW parameters \in [1..n -> VariableNames],
           NEW declare, declare = CHOOSE f : f = [i \in 0..n |->
                IF i = 0 THEN b
                ELSE DefineVariable(DeclareVariable(f[i - 1], parameters[i]), parameters[i])]
    PROVE  GetsWider(b, declare[n]) /\ Plainly(b, declare[n])
<1>1. PICK T : T = {s \in States : GetsWider(b, s) /\ Plainly(b, s)}
    OBVIOUS
<1>2. ASSUME NEW s \in T, NEW x \in VariableNames,
             NEW t, t = DeclareVariable(s, x), NEW u, u = DefineVariable(t, x)
      PROVE  u \in T
    <2>1. GetsWider(b, s) /\ Plainly(b, s) /\ s \in States
        BY <1>1
    <2>2. Good(s)
        BY <2>1 DEF GetsWider, Follows
    <2>3. GetsWider(s, t) /\ CanDefine(Current(t)) /\ Plainly(s, t)
        BY <1>2, <2>2, DeclaresOne
    <2>4. Good(t)
        BY <2>3 DEF GetsWider, Follows
    <2>5. GetsWider(t, u) /\ Plainly(t, u)
        BY <1>2, <2>3, <2>4, Defines
    <2>6. GetsWider(b, u)
        <3>1. GetsWider(b, t)
            BY <2>1, <2>3, GetsWiderOn
        <3>. QED  BY <2>5, <3>1, GetsWiderOn
    <2>7. u \in States /\ Good(u)
        BY <2>6 DEF GetsWider, Follows, Good
    <2>8. Plainly(b, u)
        <3>1. Plainly(b, t)
            BY <2>1, <2>2, <2>3, <2>4, PlainlyOn
        <3>. QED  BY <2>4, <2>5, <2>7, <3>1, PlainlyOn
    <2>. QED  BY <1>1, <2>6, <2>7, <2>8
<1>3. b \in T
    BY <1>1, WidensSelf, PlainlySelf DEF Good
<1>4. \A s \in T : \A x \in VariableNames : DefineVariable(DeclareVariable(s, x), x) \in T
    BY <1>2
<1>5. declare[n] \in T
    BY <1>3, <1>4, ParametersStay
<1>. QED  BY <1>1, <1>5

LEMMA FunctionBegins ==
    ASSUME NEW s, Good(s), NEW type \in FunctionTypes, NEW m \in Nat,
           NEW parameters \in [1..m -> VariableNames],
           NEW t, t = BeginFunction(s, type, parameters), NEW n, n = Len(s.contexts),
           NEW d, d = Current(t)
    PROVE  /\ Good(t) /\ n \in Nat /\ Len(t.contexts) = n + 1 /\ d = t.contexts[n + 1] /\ Fine(d)
           /\ \A j \in 1..n : Alike(s.contexts[j], t.contexts[j])
           /\ d.type = type /\ d.scopeDepth = 1 /\ d.enclosing_loop = 0
           /\ d.last_continue = 0 /\ WaitFor(d, {})
           /\ \A j \in 1..n : t.contexts[j] = s.contexts[j]
           /\ t.error = NoError => s.error = NoError
           /\ d.last_break = 0 /\ \A i \in 1..Len(d.code) : d.code[i].op \notin LookUps
<1>1. Len(parameters) = m
    BY FunctionIsSeq
<1>2. PICK a : a = InitCompiler(s, type)
    OBVIOUS
<1>3. PICK c : c = NewContext(type)
    OBVIOUS
<1>4. /\ Good(a) /\ n \in Nat /\ Len(a.contexts) = n + 1 /\ Current(a) = c
      /\ \A j \in 1..n : a.contexts[j] = s.contexts[j]
      /\ a.error = s.error
    BY <1>2, <1>3, ContextIsPushed
<1>5. /\ Fine(c) /\ c.type = type /\ c.scopeDepth = 0
      /\ c.enclosing_loop = 0 /\ c.last_continue = 0 /\ c.code = <<>> /\ c.last_break = 0
    BY <1>3, NewContextIsFine
<1>6. PICK b : b = BeginScope(a)
    OBVIOUS
<1>7. PICK f : f = Current(b)
    OBVIOUS
<1>8. /\ Follows(a, b) /\ f.scopeDepth = c.scopeDepth + 1 /\ f.code = c.code /\ SameLoops(c, f)
      /\ Plainly(a, b)
    BY <1>4, <1>6, <1>7, ScopeBegins
<1>9. Good(b)
    BY <1>8 DEF Follows
<1>10. PICK declare : declare = CHOOSE g : g = [i \in 0..m |->
                IF i = 0 THEN b
                ELSE DefineVariable(DeclareVariable(g[i - 1], parameters[i]), parameters[i])]
    OBVIOUS
<1>11. PICK e : e = declare[m]
    OBVIOUS
<1>12. GetsWider(b, e) /\ Plainly(b, e)
    BY <1>9, <1>10, <1>11, ParametersAreDeclared
<1>13. PICK h : h = Current(e)
    OBVIOUS
<1>14. Good(e) /\ Follows(b, e) /\ Widens(f, h) /\ Fine(h) /\ h \in Contexts
    BY <1>7, <1>12, <1>13, CurrentIsFine DEF GetsWider, Follows
<1>14a. PICK height \in Int : height = m + 1
    OBVIOUS
<1>15. PICK k : k = [h EXCEPT !.arity = m, !.height = height]
    OBVIOUS
<1>16. t = Update(e, k)
    BY <1>1, <1>2, <1>6, <1>10, <1>11, <1>13, <1>15, <1>14a DEF BeginFunction
<1>17. /\ k \in Contexts /\ k.type = h.type /\ k.scopeDepth = h.scopeDepth
       /\ k.enclosing_loop = h.enclosing_loop /\ k.last_continue = h.last_continue
       /\ k.last_break = h.last_break /\ k.code = h.code /\ k.locals = h.locals
       /\ k.upvalues = h.upvalues
    BY <1>14, <1>15, <1>14a DEF Contexts
<1>18. Fine(k)
    BY <1>14, <1>17 DEF Fine
<1>19. Follows(e, t) /\ d = k
    BY <1>14, <1>16, <1>18, Updated
<1>20. Follows(a, t)
    <2>1. Follows(a, e)
        BY <1>8, <1>14, FollowsOn
    <2>. QED  BY <1>19, <2>1, FollowsOn
<1>21. \A j \in 1..n : Alike(s.contexts[j], t.contexts[j])
    <2>1. \A j \in 1..(n + 1) - 1 : Alike(a.contexts[j], t.contexts[j])
        BY <1>4, <1>20 DEF Follows
    <2>. QED  BY <1>4, <2>1
<1>22. Good(t) /\ Len(t.contexts) = n + 1
    BY <1>4, <1>20 DEF Follows
<1>23. d = t.contexts[n + 1]
    BY <1>22, CurrentIsFine
<1>24. h.scopeDepth = 1 /\ h.enclosing_loop = 0 /\ h.last_continue = 0 /\ h.type = type
    BY <1>5, <1>8, <1>14 DEF Widens, SameLoops
<1>25. WaitFor(d, {})
    <2>1. WaitFor(f, {})
        BY <1>5, <1>8 DEF WaitFor
    <2>2. WaitFor(h, {})
        BY <1>14, <2>1 DEF Widens, KeepsJumps
    <2>. QED  BY <1>17, <1>19, <2>2 DEF WaitFor
<1>26. Plainly(a, t)
    <2>1. Plainly(a, e)
        BY <1>4, <1>8, <1>9, <1>12, <1>14, PlainlyOn
    <2>2. Plainly(e, t)
        BY <1>13, <1>14, <1>16, <1>17, <1>18, PlainestUpdate
    <2>. QED  BY <1>4, <1>14, <1>22, <2>1, <2>2, PlainlyOn
<1>27. \A j \in 1..n : t.contexts[j] = s.contexts[j]
    <2>1. PICK old \in Seq(Contexts) : old = a.contexts /\ old # <<>>
        BY <1>4 DEF Good, States
    <2>2. PICK new \in Seq(Contexts) : new = t.contexts /\ new # <<>>
        BY <1>22 DEF Good, States
    <2>3. Front(new) = Front(old) /\ Len(old) = n + 1 /\ Len(new) = n + 1
        BY <1>4, <1>22, <1>26, <2>1, <2>2 DEF Plainly
    <2>4. \A j \in 1..Len(old) - 1 : Front(old)[j] = old[j]
        BY <2>1, FrontAndLast
    <2>5. \A j \in 1..Len(new) - 1 : Front(new)[j] = new[j]
        BY <2>2, FrontAndLast
    <2>6. \A j \in 1..n : j \in 1..Len(old) - 1 /\ j \in 1..Len(new) - 1
        BY <1>4, <2>3
    <2>. QED  BY <1>4, <2>1, <2>2, <2>3, <2>4, <2>5, <2>6
<1>28. t.error = NoError => s.error = NoError
    BY <1>4, <1>26 DEF Plainly
<1>29. d.last_break = 0
    BY <1>4, <1>5, <1>26 DEF Plainly
<1>30. \A i \in 1..Len(d.code) : d.code[i].op \notin LookUps
    <2>1. PICK none : none = c.code /\ none = <<>>
        BY <1>5
    <2>2. Extends(none, d.code)
        BY <1>4, <1>26, <2>1 DEF Plainly
    <2>3. \A i : i \notin 1..Len(none)
        BY <2>1
    <2>. QED  BY <2>2, <2>3 DEF Extends
<1>. QED  BY <1>4, <1>17, <1>18, <1>19, <1>21, <1>22, <1>23, <1>24, <1>25, <1>27, <1>28, <1>29, <1>30

(* The other functions are as they were, or wider.                         *)
LEMMA AlikeCompiling ==
    ASSUME NEW c, NEW d, NEW w, Compiling(c, w), Fine(d), Alike(c, d)
    PROVE  Compiling(d, w) /\ (CanDefine(c) => CanDefine(d)) /\ d.type = c.type
<1>1. /\ Fine(c) /\ Pending(c, w) /\ Counted(c, w) /\ OpenLoop(w, 0, c.last_continue)
      /\ Without({"break"}) => WaitFor(c, JumpsIn(w))
    BY DEF Compiling
<1>2. /\ Pending(d, w) /\ (Counted(c, w) => Counted(d, w))
      /\ (OpenLoop(w, 0, c.last_continue) => OpenLoop(w, 0, d.last_continue))
      /\ \A jumps : WaitFor(c, jumps) => WaitFor(d, jumps)
      /\ (CanDefine(c) => CanDefine(d)) /\ d.type = c.type
    BY <1>1, AlikeGoesOn
<1>. QED  BY <1>1, <1>2 DEF Compiling

LEMMA WiderCompiling ==
    ASSUME NEW c, NEW d, NEW w, Compiling(c, w), Fine(d), Widens(c, d)
    PROVE  Compiling(d, w) /\ (CanDefine(c) => CanDefine(d)) /\ d.type = c.type
<1>1. /\ Fine(c) /\ Pending(c, w) /\ Counted(c, w) /\ OpenLoop(w, 0, c.last_continue)
      /\ Without({"break"}) => WaitFor(c, JumpsIn(w))
    BY DEF Compiling
<1>2. c \in Contexts /\ d \in Contexts
    BY <1>1 DEF Fine
<1>3. CanDefine(c) => CanDefine(d)
    BY <1>2, CanStillDefine
<1>4. Pending(d, w)
    <2>1. ASSUME NEW i \in 1..Len(w), w[i].k \in Based PROVE Base(w[i]) <= Len(d.visible)
        <3>1. w[i] \in Tasks /\ Fits(c, w[i])
            BY <1>1, ElementOfSeq DEF Pending
        <3>2. Base(w[i]) \in Nat
            BY <2>1, <3>1, BaseIsNat
        <3>3. Base(w[i]) <= Len(c.visible)
            BY <2>1, <3>1 DEF Fits
        <3>. QED  BY <1>2, <3>2, <3>3, ContextTypes DEF Widens
    <2>2. \A i \in 1..Len(w) : w[i].k = "define" => CanDefine(d)
        BY <1>1, <1>3 DEF Pending, Fits
    <2>3. Len(d.code) >= Len(c.code)
        BY DEF Widens
    <2>. QED  BY <1>1, <1>2, <2>1, <2>2, <2>3, PendingGoesOn
<1>5. /\ d.type = c.type /\ d.scopeDepth = c.scopeDepth /\ d.enclosing_loop = c.enclosing_loop
      /\ d.last_continue = c.last_continue /\ \A jumps : WaitFor(c, jumps) => WaitFor(d, jumps)
    BY DEF Widens, SameLoops, KeepsJumps
<1>6. Counted(d, w)
    BY <1>1, <1>5 DEF Counted, Outermost
<1>. QED  BY <1>1, <1>3, <1>4, <1>5, <1>6 DEF Compiling

(* The work of a function that has just begun.                             *)
EndTasks == {t \in Tasks : t.k = "endFunction"}
LEMMA WorkBegins ==
    ASSUME NEW e \in EndTasks, NEW u, u = <<Task("stats"), e>>
    PROVE  /\ u \in Seq(Tasks) /\ u # <<>> /\ Len(u) = 2 /\ u[1] = Task("stats") /\ u[2] = e
           /\ Last(u) = e /\ Head(u).k = "stats"
<1>1. PICK stats : stats = Task("stats")
    OBVIOUS
<1>2. stats.k = "stats" /\ stats \in Tasks /\ e \in Tasks
    BY <1>1 DEF Task, Tasks, EndTasks
<1>3. u = <<stats, e>>
    BY <1>1
<1>4. u \in Seq(Tasks) /\ Len(u) = 2 /\ u[1] = stats /\ u[2] = e
    BY <1>2, <1>3
<1>5. u # <<>>
    BY <1>4, EmptySeq
<1>6. Last(u) = u[2]
    BY <1>4, <1>5, FrontAndLast
<1>7. Head(u) = stats
    BY <1>4, <1>5, TailOf
<1>. QED  BY <1>1, <1>2, <1>4, <1>5, <1>6, <1>7

LEMMA BeginsCompiling ==
    ASSUME NEW e \in EndTasks, NEW u, u = <<Task("stats"), e>>, NEW d, Fine(d),
           d.scopeDepth = Outermost(d), d.enclosing_loop = 0, d.last_continue = 0, WaitFor(d, {})
    PROVE  Compiling(d, u)
<1>1. /\ u \in Seq(Tasks) /\ u # <<>> /\ Len(u) = 2 /\ u[1] = Task("stats") /\ u[2] = e
      /\ Last(u) = e
    BY WorkBegins
<1>2. u[1].k = "stats" /\ u[2].k = "endFunction" /\ e.k = "endFunction"
    BY <1>1 DEF Task, EndTasks
<1>3. \A k \in 1..Len(u) : k = 1 \/ k = 2
    BY <1>1
<1>4. \A k \in 1..Len(u) :
        /\ u[k].k \notin Based /\ u[k].k \notin {"patch", "ifElse", "define", "forBody"}
        /\ u[k].k \notin LoopTasks
    BY <1>2, <1>3 DEF Based, LoopTasks
<1>5. Pending(d, u)
    <2>1. Before(u[1], u[2])
        BY <1>2 DEF Before, AfterExprs, Based, LoopTasks
    <2>2. \A k \in 1..Len(u) : \A i \in 1..k - 1 : Before(u[i], u[k])
        BY <1>3, <2>1
    <2>3. \A i \in 1..Len(u) : Fits(d, u[i])
        BY <1>4 DEF Fits
    <2>. QED  BY <1>1, <1>2, <1>4, <2>2, <2>3 DEF Pending
<1>6. Counted(d, u)
    <2>1. \A k \in 1..Len(u) : u[k] \notin ScopeTasks /\ u[k] \notin LoopEndTasks
        BY <1>2, <1>3 DEF ScopeTasks, LoopEndTasks, ForTasks, LoopEnds
    <2>2. Cardinality(Marked(u, ScopeTasks)) = 0 /\ Cardinality(Marked(u, LoopEndTasks)) = 0
        BY <2>1, NoneMarked
    <2>3. d.scopeDepth \in Nat /\ d \in Contexts
        BY ContextTypes DEF Fine
    <2>. QED  BY <2>2, <2>3 DEF Counted
<1>7. WaitFor(d, JumpsIn(u))
    BY WaitsForMore
<1>8. OpenLoop(u, 0, d.last_continue)
    BY DEF OpenLoop
<1>. QED  BY <1>5, <1>6, <1>7, <1>8 DEF Compiling

(* What a function that ends owes the one around it.                       *)
InnerTypes == FunctionTypes \ {"script"}
MethodTypes == {"method", "initializer"}
EndsInner(e, type) ==
    /\ e \in EndTasks /\ e.kind \in {"function", "method"}
    /\ e.kind = "method" <=> type \in MethodTypes
Awaited(e, c, h) ==
    /\ e.kind = "function" => CanDefine(c) /\ e.name \in Names /\ h.k = "stats"
    /\ e.kind = "method" => h.k = "methods"

LEMMA DescendKeeps ==
    ASSUME Inv, todo # <<>>, NEW s, GetsWider(Now, s), NEW type \in InnerTypes, NEW m \in Nat,
           NEW parameters \in [1..m -> VariableNames],
           NEW t, t = BeginFunction(s, type, parameters),
           NEW e, EndsInner(e, type), Awaited(e, Current(s), Work[1]),
           NEW tasks, tasks = <<Task("stats"), e>>, Descend(t, tasks), Advances
    PROVE  Inv'
<1>1. PICK n : n = Len(contexts)
    OBVIOUS
<1>2. /\ Good(Now) /\ n \in Nat \ {0} /\ n \in 1..n /\ Len(todo) = n
      /\ contexts \in Seq(Contexts) /\ todo \in Seq(Seq(Tasks))
      /\ Current(Now) = contexts[n] /\ Work = todo[n] /\ Now.contexts = contexts
      /\ Work \in Seq(Tasks) /\ Work # <<>> /\ Head(Work) = Work[1]
    BY <1>1, AtWork
<1>3. /\ contexts' = t.contexts /\ error' = t.error /\ family' = family
      /\ todo' = Append(todo, tasks) /\ currentClass' = currentClass /\ functions' = functions
    BY DEF Descend, Becomes
<1>4. /\ Good(s) /\ Follows(Now, s) /\ Len(s.contexts) = n /\ Widens(Current(Now), Current(s))
      /\ \A j \in 1..n - 1 : Alike(contexts[j], s.contexts[j])
    BY <1>1, <1>2 DEF GetsWider, Follows
<1>5. Current(s) = s.contexts[n]
    BY <1>4, CurrentIsFine
<1>6. PICK d : d = Current(t)
    OBVIOUS
<1>7. type \in FunctionTypes /\ type # "script"
    BY DEF InnerTypes
<1>8. /\ Good(t) /\ Len(t.contexts) = n + 1 /\ d = t.contexts[n + 1] /\ Fine(d)
      /\ \A j \in 1..n : Alike(s.contexts[j], t.contexts[j])
      /\ d.type = type /\ d.scopeDepth = 1 /\ d.enclosing_loop = 0
      /\ d.last_continue = 0 /\ WaitFor(d, {})
    BY <1>4, <1>6, <1>7, FunctionBegins
<1>9. t.contexts \in Seq(Contexts) /\ t.error \in Errors
    BY <1>8, CurrentIsFine
<1>10. e \in EndTasks
    BY DEF EndsInner
<1>11. /\ tasks \in Seq(Tasks) /\ Last(tasks) = e
    BY <1>10, WorkBegins
<1>12. Compiling(d, tasks)
    <2>1. Outermost(d) = 1
        BY <1>7, <1>8 DEF Outermost
    <2>. QED  BY <1>8, <1>10, <2>1, BeginsCompiling
<1>13. /\ todo' \in Seq(Seq(Tasks)) /\ Len(todo') = n + 1 /\ todo'[n + 1] = tasks
       /\ \A j \in 1..n : todo'[j] = todo[j]
    <2>1. PICK old \in Seq(Seq(Tasks)) : old = todo
        BY <1>2
    <2>2. PICK new : new = Append(old, tasks)
        OBVIOUS
    <2>3. /\ new \in Seq(Seq(Tasks)) /\ Len(new) = n + 1 /\ new[n + 1] = tasks
          /\ \A j \in 1..n : new[j] = old[j]
        BY <1>2, <1>11, <2>1, <2>2, AppendProperties
    <2>. QED  BY <1>3, <2>1, <2>2, <2>3
<1>14. ASSUME NEW j \in 1..n
       PROVE  /\ Compiling(t.contexts[j], todo[j]) /\ t.contexts[j].type = contexts[j].type
              /\ CanDefine(contexts[j]) => CanDefine(t.contexts[j])
              /\ CanDefine(s.contexts[j]) => CanDefine(t.contexts[j])
    <2>1. PICK a : a = contexts[j]
        OBVIOUS
    <2>2. PICK b : b = s.contexts[j]
        OBVIOUS
    <2>3. PICK c : c = t.contexts[j]
        OBVIOUS
    <2>4. PICK w : w = todo[j]
        OBVIOUS
    <2>5. Compiling(a, w)
        BY <1>1, <2>1, <2>4 DEF Inv
    <2>6. Fine(b) /\ Fine(c) /\ Alike(b, c)
        BY <1>2, <1>4, <1>8, <2>2, <2>3 DEF Good
    <2>7. Compiling(b, w) /\ (CanDefine(a) => CanDefine(b)) /\ b.type = a.type
        <3>1. CASE j = n
            <4>1. Widens(a, b)
                BY <1>2, <1>4, <1>5, <2>1, <2>2, <3>1
            <4>. QED  BY <2>5, <2>6, <4>1, WiderCompiling
        <3>2. CASE j # n
            <4>1. j \in 1..n - 1
                BY <1>2, <3>2
            <4>2. Alike(a, b)
                BY <1>4, <2>1, <2>2, <4>1
            <4>. QED  BY <2>5, <2>6, <4>2, AlikeCompiling
        <3>. QED  BY <3>1, <3>2
    <2>8. Compiling(c, w) /\ (CanDefine(b) => CanDefine(c)) /\ c.type = b.type
        BY <2>6, <2>7, AlikeCompiling
    <2>. QED  BY <2>1, <2>2, <2>3, <2>4, <2>7, <2>8
<1>15. \A j \in 1..n + 1 : j \in 1..n \/ j = n + 1
    BY <1>2
<1>16. \A j \in 1..n + 1 : Compiling(contexts[j], todo[j])'
    <2>1. \A j \in 1..n + 1 : Compiling(t.contexts[j], todo'[j])
        BY <1>8, <1>12, <1>13, <1>14, <1>15
    <2>. QED  BY <1>3, <2>1 DEF Compiling, Without, Syntax
<1>17. Settings'
    <2>1. /\ currentClass \in Seq(BOOLEAN) /\ family \in Families /\ functions \in Seq(Finished)
        BY DEF Inv, Settings
    <2>2. Onward
        BY <1>3, StaysOnward DEF Advances
    <2>3. budget' \in 0..MaxNodes'
        BY <1>3, <2>2 DEF Onward, MaxNodes
    <2>. QED  BY <1>3, <1>9, <1>13, <2>1, <2>3 DEF Settings
<1>18. Inside'
    <2>1. Len(todo') = Len(contexts')
        BY <1>3, <1>8, <1>13
    <2>2. ASSUME NEW j \in 1..n + 1, NEW kind, kind = Last(todo'[j]).kind
          PROVE  /\ kind = "script" <=> j = 1
                 /\ contexts'[j].type = "script" <=> j = 1
                 /\ kind = "method" <=> contexts'[j].type \in {"method", "initializer"}
                 /\ kind = "function" => CanDefine(contexts'[j - 1]) /\ Last(todo'[j]).name \in Names
                 /\ kind = "method" <=> j > 1 /\ Head(todo'[j - 1]).k = "methods"
                 /\ kind = "function" <=> j > 1 /\ Head(todo'[j - 1]).k = "stats"
        <3>1. CASE j \in 1..n
            <4>1. Last(todo'[j]) = Last(todo[j]) /\ contexts'[j].type = contexts[j].type
                BY <1>3, <1>13, <1>14, <3>1
            <4>2. /\ kind = "script" <=> j = 1
                  /\ contexts[j].type = "script" <=> j = 1
                  /\ kind = "method" <=> contexts[j].type \in {"method", "initializer"}
                  /\ kind = "function" => CanDefine(contexts[j - 1]) /\ Last(todo[j]).name \in Names
                  /\ kind = "method" <=> j > 1 /\ Head(todo[j - 1]).k = "methods"
                  /\ kind = "function" <=> j > 1 /\ Head(todo[j - 1]).k = "stats"
                BY <1>1, <2>2, <3>1, <4>1 DEF Inv, Inside
            <4>3. CASE j = 1
                BY <4>1, <4>2, <4>3
            <4>4. CASE j # 1
                <5>1. j - 1 \in 1..n
                    BY <1>2, <3>1, <4>4
                <5>2. todo'[j - 1] = todo[j - 1] /\ (CanDefine(contexts[j - 1]) => CanDefine(contexts'[j - 1]))
                    BY <1>3, <1>13, <1>14, <5>1
                <5>. QED  BY <4>1, <4>2, <5>2
            <4>. QED  BY <4>3, <4>4
        <3>2. CASE j = n + 1
            <4>1. kind = e.kind /\ Last(todo'[j]) = e /\ contexts'[j].type = type
                BY <1>3, <1>8, <1>11, <1>13, <2>2, <3>2
            <4>2. j > 1 /\ j # 1 /\ j - 1 = n
                BY <1>2, <3>2
            <4>3. Head(todo'[j - 1]) = Work[1]
                BY <1>2, <1>13, <4>2
            <4>4. CanDefine(Current(s)) => CanDefine(contexts'[j - 1])
                BY <1>2, <1>3, <1>5, <1>14, <4>2
            <4>. QED  BY <1>7, <4>1, <4>2, <4>3, <4>4 DEF EndsInner, Awaited, MethodTypes
        <3>. QED  BY <1>15, <3>1, <3>2
    <2>. QED  BY <1>3, <1>8, <2>1, <2>2 DEF Inside
<1>19. JumpsPatched'
    <2>1. JumpsPatched
        BY DEF Inv
    <2>. QED  BY <1>3, <2>1 DEF JumpsPatched, Without, Syntax, IsJump
<1>. QED  BY <1>3, <1>8, <1>16, <1>17, <1>18, <1>19 DEF Inv

LEMMA ParametersAre ==
    ASSUME Inv, NEW parameters \in Parameters
    PROVE  \E m \in Nat : parameters \in [1..m -> VariableNames]
<1>1. Identifiers \subseteq VariableNames /\ MaxArgs \in Nat
    BY FamilyBounds
<1>2. PICK m \in 0..MaxArgs : parameters \in [1..m -> Identifiers]
    BY DEF Parameters
<1>3. m \in Nat /\ parameters \in [1..m -> VariableNames]
    BY <1>1, <1>2
<1>. QED  BY <1>3

LEMMA EndTaskTypes ==
    /\ \A x \in Names : /\ Function("function", x) \in EndTasks
                        /\ Function("function", x).kind = "function"
                        /\ Function("function", x).name = x
    /\ Function("method", "") \in EndTasks /\ Function("method", "").kind = "method"
    /\ Function("script", "") \in EndTasks /\ Function("script", "").kind = "script"
BY DEF Function, EndTasks, Tasks

LEMMA FunDeclarationKeeps ==
    ASSUME Inv, FunDeclaration
    PROVE  Inv'
<1>1. Doing("stats") /\ Node("fun")
    BY DEF FunDeclaration
<1>2. PICK x \in Identifiers, parameters \in Parameters :
        Descend(BeginFunction(MarkInitialized(DeclareVariable(Now, x)), "function", parameters),
                <<Task("stats"), Function("function", x)>>)
    BY DEF FunDeclaration
<1>3. todo # <<>> /\ Head(Work).k = "stats" /\ Advances
    BY <1>1 DEF Doing, Node, Advances
<1>4. Good(Now) /\ Head(Work) = Work[1]
    BY <1>3, AtWork
<1>5. x \in Names /\ x \in VariableNames
    BY <1>2, FamilyBounds
<1>6. PICK r : r = DeclareVariable(Now, x)
    OBVIOUS
<1>7. PICK s : s = MarkInitialized(r)
    OBVIOUS
<1>8. GetsWider(Now, r) /\ CanDefine(Current(r)) /\ Good(r)
    <2>1. GetsWider(Now, r) /\ CanDefine(Current(r))
        BY <1>4, <1>5, <1>6, DeclaresOne
    <2>. QED  BY <2>1 DEF GetsWider, Follows
<1>9. GetsWider(r, s)
    BY <1>7, <1>8, MarksInitialized
<1>10. GetsWider(Now, s)
    BY <1>4, <1>8, <1>9, GetsWiderOn
<1>11. CanDefine(Current(s))
    <2>1. Widens(Current(r), Current(s)) /\ Good(s)
        BY <1>9 DEF GetsWider, Follows
    <2>2. Current(r) \in Contexts /\ Current(s) \in Contexts
        BY <1>8, <2>1, CurrentIsFine
    <2>. QED  BY <1>8, <2>1, <2>2, CanStillDefine
<1>12. PICK type : type = "function"
    OBVIOUS
<1>13. type \in InnerTypes /\ type \notin MethodTypes
    BY <1>12 DEF InnerTypes, MethodTypes, FunctionTypes
<1>14. PICK m \in Nat : parameters \in [1..m -> VariableNames]
    BY <1>2, ParametersAre
<1>15. PICK e : e = Function("function", x)
    OBVIOUS
<1>16. e \in EndTasks /\ e.kind = "function" /\ e.name = x
    BY <1>5, <1>15, EndTaskTypes
<1>17. EndsInner(e, type) /\ Awaited(e, Current(s), Work[1])
    BY <1>3, <1>4, <1>5, <1>11, <1>13, <1>16 DEF EndsInner, Awaited
<1>18. PICK t : t = BeginFunction(s, type, parameters)
    OBVIOUS
<1>19. PICK tasks : tasks = <<Task("stats"), e>>
    OBVIOUS
<1>20. Descend(t, tasks)
    BY <1>2, <1>6, <1>7, <1>12, <1>15, <1>18, <1>19
<1>. QED  BY <1>3, <1>10, <1>13, <1>14, <1>17, <1>18, <1>19, <1>20, DescendKeeps

LEMMA MethodKeeps ==
    ASSUME Inv, Method
    PROVE  Inv'
<1>1. Doing("methods") /\ Node("method")
    BY DEF Method
<1>2. PICK type \in MethodTypes, parameters \in Parameters :
        Descend(BeginFunction(Now, type, parameters), <<Task("stats"), Function("method", "")>>)
    BY DEF Method, MethodTypes
<1>3. todo # <<>> /\ Head(Work).k = "methods" /\ Advances
    BY <1>1 DEF Doing, Node, Advances
<1>4. Good(Now) /\ Head(Work) = Work[1]
    BY <1>3, AtWork
<1>5. GetsWider(Now, Now)
    BY <1>4, WidensSelf
<1>6. type \in InnerTypes
    BY <1>2 DEF InnerTypes, MethodTypes, FunctionTypes
<1>7. PICK m \in Nat : parameters \in [1..m -> VariableNames]
    BY <1>2, ParametersAre
<1>8. PICK e : e = Function("method", "")
    OBVIOUS
<1>9. e \in EndTasks /\ e.kind = "method"
    BY <1>8, EndTaskTypes
<1>10. EndsInner(e, type) /\ Awaited(e, Current(Now), Work[1])
    BY <1>2, <1>3, <1>4, <1>9 DEF EndsInner, Awaited
<1>11. PICK s : s = Now
    OBVIOUS
<1>12. PICK t : t = BeginFunction(s, type, parameters)
    OBVIOUS
<1>13. PICK tasks : tasks = <<Task("stats"), e>>
    OBVIOUS
<1>14. Descend(t, tasks)
    BY <1>2, <1>8, <1>11, <1>12, <1>13
<1>15. GetsWider(Now, s) /\ Awaited(e, Current(s), Work[1])
    BY <1>5, <1>10, <1>11
<1>. QED  BY <1>3, <1>6, <1>7, <1>10, <1>12, <1>13, <1>14, <1>15, DescendKeeps

(* Nothing comes behind the end of a function.                             *)
LEMMA WorkEnds ==
    ASSUME Inv, Doing("endFunction"), NEW h, h = Work[1]
    PROVE  /\ todo # <<>> /\ h \in Tasks /\ h.k = "endFunction" /\ Head(Work) = h /\ Last(Work) = h
           /\ Without({"break"}) => WaitFor(Current(Now), {})
<1>1. /\ todo # <<>> /\ Head(Work).k = "endFunction"
    BY DEF Doing
<1>2. /\ Work \in Seq(Tasks) /\ Work # <<>> /\ Head(Work) = h /\ h \in Tasks
      /\ Compiling(Current(Now), Work)
    BY <1>1, AtWork
<1>3. PICK c : c = Current(Now)
    OBVIOUS
<1>4. PICK w \in Seq(Tasks) : w = Work
    BY <1>2
<1>5. /\ \A k \in 1..Len(w) : \A i \in 1..k - 1 : Before(w[i], w[k])
      /\ Without({"break"}) => WaitFor(c, JumpsIn(w))
    BY <1>2, <1>3, <1>4 DEF Compiling, Pending
<1>6. PICK n \in Nat \ {0} : n = Len(w)
    BY <1>2, <1>4, FrontAndLast
<1>7. n = 1
    <2>1. SUFFICES ASSUME n # 1 PROVE FALSE
        OBVIOUS
    <2>2. 2 \in 1..Len(w) /\ 1 \in 1..2 - 1
        BY <1>6, <2>1
    <2>3. Before(w[1], w[2])
        BY <1>5, <2>2
    <2>. QED  BY <1>1, <1>2, <1>4, <2>3 DEF Before
<1>8. Last(w) = w[1] /\ Len(w) = 1
    BY <1>2, <1>4, <1>6, <1>7, FrontAndLast
<1>9. JumpsIn(w) = {}
    <2>1. PICK empty : empty = {}
        OBVIOUS
    <2>2. h.k = "endFunction"
        BY <1>1, <1>2
    <2>3. JumpsOf(h) = empty
        BY <2>1, <2>2, Zenon DEF JumpsOf
    <2>4. \A k \in 1..Len(w) : JumpsOf(w[k]) = {}
        <3>1. \A k \in 1..Len(w) : k = 1
            BY <1>8
        <3>2. w[1] = h
            BY <1>4
        <3>. QED  BY <2>1, <2>3, <3>1, <3>2
    <2>. QED  BY <2>4 DEF JumpsIn
<1>. QED  BY <1>1, <1>2, <1>3, <1>4, <1>5, <1>8, <1>9

(* The function around one that has ended goes on.                         *)
LEMMA AscendKeeps ==
    ASSUME Inv, todo # <<>>, NEW n, n = Len(contexts), n > 1,
           NEW o, Good(o), o.contexts = Front(contexts), NEW t, GetsWider(o, t), Becomes(t),
           todo' = Front(todo), UNCHANGED <<currentClass, budget>>,
           functions' \in Seq(Finished), JumpsPatched'
    PROVE  Inv'
<1>1. /\ n \in Nat \ {0} /\ n \in 1..n /\ Len(todo) = n
      /\ contexts \in Seq(Contexts) /\ contexts # <<>> /\ todo \in Seq(Seq(Tasks))
    BY AtWork
<1>2. contexts' = t.contexts /\ error' = t.error /\ family' = family
    BY DEF Becomes
<1>3. PICK m \in Nat \ {0} : m = n - 1
    BY <1>1
<1>4. /\ Len(o.contexts) = m /\ \A j \in 1..m : o.contexts[j] = contexts[j] /\ j \in 1..n
    BY <1>1, <1>3, FrontAndLast
<1>5. /\ todo' \in Seq(Seq(Tasks)) /\ Len(todo') = m
      /\ \A j \in 1..m : todo'[j] = todo[j]
    <2>1. PICK old \in Seq(Seq(Tasks)) : old = todo
        BY <1>1
    <2>2. old # <<>>
        BY <2>1
    <2>3. /\ Front(old) \in Seq(Seq(Tasks)) /\ Len(Front(old)) = Len(old) - 1
          /\ \A j \in 1..Len(old) - 1 : Front(old)[j] = old[j]
        BY <2>2, FrontAndLast
    <2>4. Len(old) - 1 = m
        BY <1>1, <1>3, <2>1
    <2>5. todo' = Front(old)
        BY <2>1
    <2>. QED  BY <2>1, <2>3, <2>4, <2>5
<1>6. /\ Good(t) /\ Len(t.contexts) = m /\ Widens(Current(o), Current(t))
      /\ \A j \in 1..m - 1 : Alike(o.contexts[j], t.contexts[j])
    BY <1>4 DEF GetsWider, Follows
<1>7. Current(o) = o.contexts[m] /\ Current(t) = t.contexts[m]
    BY <1>4, <1>6, CurrentIsFine
<1>8. t.contexts \in Seq(Contexts) /\ t.error \in Errors
    BY <1>6, CurrentIsFine
<1>9. ASSUME NEW j \in 1..m
      PROVE  /\ Compiling(t.contexts[j], todo[j]) /\ t.contexts[j].type = contexts[j].type
             /\ CanDefine(contexts[j]) => CanDefine(t.contexts[j])
    <2>1. PICK a : a = contexts[j]
        OBVIOUS
    <2>2. PICK b : b = t.contexts[j]
        OBVIOUS
    <2>3. PICK w : w = todo[j]
        OBVIOUS
    <2>4. Compiling(a, w) /\ o.contexts[j] = a
        BY <1>4, <2>1, <2>3 DEF Inv
    <2>5. Fine(b)
        BY <1>6, <2>2 DEF Good
    <2>6. CASE j = m
        <3>1. Widens(a, b)
            BY <1>6, <1>7, <2>2, <2>4, <2>6
        <3>. QED  BY <2>1, <2>2, <2>3, <2>4, <2>5, <3>1, WiderCompiling
    <2>7. CASE j # m
        <3>1. j \in 1..m - 1
            BY <1>3, <2>7
        <3>2. Alike(a, b)
            BY <1>6, <2>2, <2>4, <3>1
        <3>. QED  BY <2>1, <2>2, <2>3, <2>4, <2>5, <3>2, AlikeCompiling
    <2>. QED  BY <2>6, <2>7
<1>10. \A j \in 1..m : Compiling(contexts[j], todo[j])'
    <2>1. \A j \in 1..m : Compiling(t.contexts[j], todo'[j])
        BY <1>5, <1>9
    <2>. QED  BY <1>2, <2>1 DEF Compiling, Without, Syntax
<1>11. Settings'
    <2>1. /\ currentClass \in Seq(BOOLEAN) /\ family \in Families /\ budget \in 0..MaxNodes
        BY DEF Inv, Settings
    <2>2. budget' \in 0..MaxNodes'
        BY <1>2, <2>1 DEF MaxNodes
    <2>. QED  BY <1>2, <1>5, <1>8, <2>1, <2>2 DEF Settings
<1>12. Inside'
    <2>1. Len(todo') = Len(contexts')
        BY <1>2, <1>5, <1>6
    <2>2. ASSUME NEW j \in 1..m, NEW kind, kind = Last(todo'[j]).kind
          PROVE  /\ kind = "script" <=> j = 1
                 /\ contexts'[j].type = "script" <=> j = 1
                 /\ kind = "method" <=> contexts'[j].type \in {"method", "initializer"}
                 /\ kind = "function" => CanDefine(contexts'[j - 1]) /\ Last(todo'[j]).name \in Names
                 /\ kind = "method" <=> j > 1 /\ Head(todo'[j - 1]).k = "methods"
                 /\ kind = "function" <=> j > 1 /\ Head(todo'[j - 1]).k = "stats"
        <3>1. Last(todo'[j]) = Last(todo[j]) /\ contexts'[j].type = contexts[j].type
            BY <1>2, <1>5, <1>9
        <3>2. j \in 1..Len(contexts)
            BY <1>4
        <3>3. /\ kind = "script" <=> j = 1
              /\ contexts[j].type = "script" <=> j = 1
              /\ kind = "method" <=> contexts[j].type \in {"method", "initializer"}
              /\ kind = "function" => CanDefine(contexts[j - 1]) /\ Last(todo[j]).name \in Names
              /\ kind = "method" <=> j > 1 /\ Head(todo[j - 1]).k = "methods"
              /\ kind = "function" <=> j > 1 /\ Head(todo[j - 1]).k = "stats"
            BY <2>2, <3>1, <3>2 DEF Inv, Inside
        <3>4. CASE j = 1
            BY <3>1, <3>3, <3>4
        <3>5. CASE j # 1
            <4>1. j - 1 \in 1..m
                BY <1>3, <3>5
            <4>2. todo'[j - 1] = todo[j - 1] /\ (CanDefine(contexts[j - 1]) => CanDefine(contexts'[j - 1]))
                BY <1>2, <1>5, <1>9, <4>1
            <4>. QED  BY <3>1, <3>3, <4>2
        <3>. QED  BY <3>4, <3>5
    <2>. QED  BY <1>2, <1>6, <2>1, <2>2 DEF Inside
<1>. QED  BY <1>2, <1>6, <1>10, <1>11, <1>12 DEF Inv

(* The function that has ended has no jump left open.                      *)
LEMMA FinishedIsPatched ==
    ASSUME NEW c, NEW d, Fine(c), Fine(d), Returned(c, d), WaitFor(c, {}),
           NEW i \in 1..Len(d.code), IsJump(d.code[i])
    PROVE  d.code[i].arg \in 0..Len(d.code) - 1
<1>1. Len(c.code) \in Nat /\ Len(d.code) \in Nat
    BY ContextTypes DEF Fine
<1>2. i \in 1..Len(c.code) /\ d.code[i] = c.code[i] /\ Len(d.code) = Len(c.code) + 2
    BY <1>1 DEF Returned
<1>3. c.code[i].arg \in 0..Len(c.code)
    BY <1>2 DEF WaitFor
<1>. QED  BY <1>1, <1>2, <1>3

LEMMA FunctionIsFinished ==
    ASSUME Inv, Doing("endFunction"), NEW s, s = EmitReturn(Now), NEW c, c = Current(s),
           NEW f, f = [type |-> c.type, arity |-> c.arity, upvalues |-> c.upvalues, code |-> c.code],
           functions' = Append(functions, f), UNCHANGED family
    PROVE  functions' \in Seq(Finished) /\ JumpsPatched'
<1>1. /\ todo # <<>> /\ (Without({"break"}) => WaitFor(Current(Now), {}))
    BY WorkEnds
<1>2. Good(Now)
    BY <1>1, AtWork
<1>3. GetsWider(Now, s) /\ Returned(Current(Now), c)
    BY <1>2, Returns
<1>4. Good(s)
    BY <1>3 DEF GetsWider, Follows
<1>5. Fine(c) /\ c \in Contexts /\ Fine(Current(Now))
    BY <1>2, <1>4, CurrentIsFine
<1>6. f \in Finished /\ f.code = c.code
    BY <1>5, ContextTypes DEF Finished
<1>7. functions \in Seq(Finished) /\ JumpsPatched
    BY DEF Inv, Settings
<1>8. PICK n \in Nat : n = Len(functions)
    BY <1>7
<1>9. PICK g : g = Append(functions, f)
    OBVIOUS
<1>10. g \in Seq(Finished) /\ Len(g) = n + 1 /\ g[n + 1] = f /\ \A j \in 1..n : g[j] = functions[j]
    BY <1>6, <1>7, <1>8, <1>9, AppendProperties
<1>11. ASSUME Without({"break"}), NEW j \in 1..n + 1, NEW i \in 1..Len(g[j].code), IsJump(g[j].code[i])
       PROVE  g[j].code[i].arg \in 0..Len(g[j].code) - 1
    <2>1. CASE j = n + 1
        <3>1. g[j].code = c.code
            BY <1>6, <1>10, <2>1
        <3>2. i \in 1..Len(c.code) /\ IsJump(c.code[i])
            BY <1>11, <3>1
        <3>3. c.code[i].arg \in 0..Len(c.code) - 1
            BY <1>1, <1>3, <1>5, <1>11, <3>2, FinishedIsPatched
        <3>. QED  BY <3>1, <3>3
    <2>2. CASE j # n + 1
        <3>1. j \in 1..n /\ g[j] = functions[j]
            BY <1>10, <2>2
        <3>. QED  BY <1>7, <1>8, <1>11, <3>1 DEF JumpsPatched
    <2>. QED  BY <2>1, <2>2
<1>12. JumpsPatched'
    BY <1>9, <1>10, <1>11 DEF JumpsPatched, Without, Syntax, IsJump
<1>. QED  BY <1>9, <1>10, <1>12

(* The closure of the function is made around it, and used.                *)
LEMMA ClosureIsUsed ==
    ASSUME NEW o, Good(o), NEW at \in Nat, NEW h \in Tasks, h.k = "endFunction",
           h.kind = "function" => CanDefine(Current(o)) /\ h.name \in Names,
           NEW made, made = Emit(o, "CLOSURE", at)
    PROVE  /\ h.kind = "function" => GetsWider(o, DefineVariable(made, h.name))
           /\ h.kind = "method" => GetsWider(o, Emit(made, "METHOD", 0))
<1>1. PICK closure \in PlainOperations : closure = "CLOSURE"
    BY DEF PlainOperations, Operations, Jumping, Pushes
<1>2. PICK method \in PlainOperations : method = "METHOD"
    BY DEF PlainOperations, Operations, Jumping, Pops
<1>3. PICK none \in Int : none = 0
    OBVIOUS
<1>4. PICK i \in Int : i = at
    OBVIOUS
<1>5. made = Emit(o, closure, i)
    BY <1>1, <1>4
<1>6. GetsWider(o, made) /\ Good(made)
    BY <1>1, <1>4, <1>5, EmitsInPassing
<1>7. CASE h.kind = "function"
    <2>1. PICK x \in VariableNames : x = h.name
        BY <1>7 DEF VariableNames
    <2>2. Widens(Current(o), Current(made)) /\ Current(o) \in Contexts /\ Current(made) \in Contexts
        BY <1>6, CurrentIsFine DEF GetsWider
    <2>3. CanDefine(Current(made))
        BY <1>7, <2>2, CanStillDefine
    <2>4. PICK t : t = DefineVariable(made, x)
        OBVIOUS
    <2>5. GetsWider(made, t)
        BY <1>6, <2>1, <2>3, <2>4, Defines
    <2>6. GetsWider(o, t)
        BY <1>6, <2>5, GetsWiderOn
    <2>. QED  BY <1>7, <2>1, <2>4, <2>6
<1>8. CASE h.kind = "method"
    <2>1. PICK t : t = Emit(made, method, none)
        OBVIOUS
    <2>2. GetsWider(made, t)
        BY <1>2, <1>3, <1>6, <2>1, EmitsInPassing
    <2>3. GetsWider(o, t)
        BY <1>6, <2>2, GetsWiderOn
    <2>. QED  BY <1>2, <1>3, <1>8, <2>1, <2>3
<1>. QED  BY <1>7, <1>8

LEMMA EndFunctionKeeps ==
    ASSUME Inv, EndFunction
    PROVE  Inv'
<1>1. PICK h : h = Work[1]
    OBVIOUS
<1>2. Doing("endFunction")
    BY DEF EndFunction
<1>3. /\ todo # <<>> /\ h \in Tasks /\ h.k = "endFunction" /\ Head(Work) = h /\ Last(Work) = h
    BY <1>1, <1>2, WorkEnds
<1>4. PICK n : n = Len(contexts)
    OBVIOUS
<1>5. /\ Good(Now) /\ n \in Nat \ {0} /\ n \in 1..n /\ Len(todo) = n /\ Work = todo[n]
      /\ contexts \in Seq(Contexts) /\ contexts # <<>> /\ todo \in Seq(Seq(Tasks))
      /\ Now.contexts = contexts
    BY <1>3, <1>4, AtWork
<1>6. PICK s : s = EmitReturn(Now)
    OBVIOUS
<1>7. PICK c : c = Current(s)
    OBVIOUS
<1>8. PICK o : o = [s EXCEPT !.contexts = Front(s.contexts)]
    OBVIOUS
<1>9. PICK made : made = Emit(o, "CLOSURE", Len(functions) + 1)
    OBVIOUS
<1>10. /\ functions' = Append(functions, [type |-> c.type, arity |-> c.arity,
                                          upvalues |-> c.upvalues, code |-> c.code])
       /\ Becomes(CASE h.kind = "script" -> o
                    [] h.kind = "function" -> DefineVariable(made, h.name)
                    [] h.kind = "method" -> Emit(made, "METHOD", 0))
       /\ todo' = Front(todo) /\ UNCHANGED <<currentClass, budget>>
    BY <1>3, <1>6, <1>7, <1>8, <1>9 DEF EndFunction
<1>11. UNCHANGED family
    BY <1>10 DEF Becomes
<1>12. functions' \in Seq(Finished) /\ JumpsPatched'
    BY <1>2, <1>6, <1>7, <1>10, <1>11, FunctionIsFinished
<1>13. /\ Good(s) /\ Follows(Now, s) /\ s.error = Now.error
       /\ Front(s.contexts) = Front(contexts)
    BY <1>5, <1>6, Returns DEF GetsWider, Follows
<1>14. s \in States /\ s.error \in Errors
    BY <1>13, CurrentIsFine DEF Good
<1>15. PICK outer \in Seq(Contexts) : outer = Front(contexts)
    BY <1>5, FrontAndLast
<1>16. o \in States /\ o.contexts = outer /\ o.error \in Errors
    BY <1>8, <1>13, <1>14, <1>15 DEF States
<1>17. /\ h.kind \in {"script", "function", "method"}
       /\ h.kind = "script" <=> n = 1
       /\ h.kind = "function" => CanDefine(contexts[n - 1]) /\ h.name \in Names
    <2>1. n \in 1..Len(contexts)
        BY <1>4, <1>5
    <2>2. /\ h.kind = "script" <=> n = 1
          /\ h.kind = "function" => CanDefine(contexts[n - 1]) /\ h.name \in Names
        BY <1>3, <1>5, <2>1 DEF Inv, Inside
    <2>. QED  BY <1>3, <2>2, TaskTypes
<1>18. CASE n = 1
    <2>1. contexts' = outer /\ error' = o.error
        BY <1>10, <1>16, <1>17, <1>18 DEF Becomes
    <2>2. Len(outer) = 0
        <3>1. Len(Front(contexts)) = Len(contexts) - 1
            BY <1>5, FrontAndLast
        <3>2. Len(contexts) - 1 = 0
            BY <1>4, <1>18
        <3>. QED  BY <1>15, <3>1, <3>2
    <2>3. todo' \in Seq(Seq(Tasks)) /\ Len(todo') = 0
        <3>1. PICK old \in Seq(Seq(Tasks)) : old = todo
            BY <1>5
        <3>2. old # <<>>
            BY <1>3, <3>1
        <3>3. Front(old) \in Seq(Seq(Tasks)) /\ Len(Front(old)) = Len(old) - 1
            BY <3>2, FrontAndLast
        <3>4. Len(old) - 1 = 0
            BY <1>5, <1>18, <3>1
        <3>5. todo' = Front(old)
            BY <1>10, <3>1
        <3>. QED  BY <3>3, <3>4, <3>5
    <2>4. \A j \in 1..Len(contexts') : FALSE
        BY <2>1, <2>2
    <2>5. Settings'
        <3>1. /\ currentClass \in Seq(BOOLEAN) /\ family \in Families /\ budget \in 0..MaxNodes
            BY DEF Inv, Settings
        <3>2. budget' \in 0..MaxNodes' /\ family' \in Families /\ currentClass' \in Seq(BOOLEAN)
            BY <1>10, <1>11, <3>1 DEF MaxNodes
        <3>. QED  BY <1>12, <1>16, <2>1, <2>3, <3>2 DEF Settings
    <2>6. Inside'
        BY <2>1, <2>2, <2>3, <2>4 DEF Inside
    <2>. QED  BY <1>12, <2>4, <2>5, <2>6 DEF Inv
<1>19. CASE n # 1
    <2>1. n > 1 /\ n - 1 \in 1..n - 1 /\ n - 1 \in Nat \ {0}
        BY <1>5, <1>19
    <2>2. Len(outer) = n - 1 /\ \A j \in 1..n - 1 : outer[j] = contexts[j]
        <3>1. /\ Len(Front(contexts)) = Len(contexts) - 1
              /\ \A j \in 1..Len(contexts) - 1 : Front(contexts)[j] = contexts[j]
            BY <1>5, FrontAndLast
        <3>. QED  BY <1>4, <1>15, <3>1
    <2>3. Good(o)
        <3>1. outer # <<>>
            BY <1>15, <2>1, <2>2, EmptySeq
        <3>2. \A j \in 1..n : Fine(contexts[j])
            BY <1>4, <1>5 DEF Good
        <3>3. \A j \in 1..n - 1 : j \in 1..n
            BY <1>5
        <3>4. \A j \in 1..Len(outer) : Fine(outer[j])
            BY <2>2, <3>2, <3>3
        <3>. QED  BY <1>16, <3>1, <3>4 DEF Good
    <2>4. Current(o) = contexts[n - 1]
        <3>1. Current(o) = o.contexts[Len(o.contexts)]
            BY <2>3, CurrentIsFine
        <3>. QED  BY <1>16, <2>1, <2>2, <3>1
    <2>5. PICK at \in Nat : at = Len(functions) + 1
        <3>1. functions \in Seq(Finished)
            BY DEF Inv, Settings
        <3>2. Len(functions) \in Nat
            BY <3>1, LenProperties
        <3>. QED  BY <3>2
    <2>6. made = Emit(o, "CLOSURE", at)
        BY <1>9, <2>5
    <2>7. h.kind = "function" => CanDefine(Current(o)) /\ h.name \in Names
        BY <1>17, <2>4
    <2>8. /\ h.kind = "function" => GetsWider(o, DefineVariable(made, h.name))
          /\ h.kind = "method" => GetsWider(o, Emit(made, "METHOD", 0))
        BY <1>3, <2>3, <2>5, <2>6, <2>7, ClosureIsUsed
    <2>9. PICK t : t = CASE h.kind = "script" -> o
                         [] h.kind = "function" -> DefineVariable(made, h.name)
                         [] h.kind = "method" -> Emit(made, "METHOD", 0)
        OBVIOUS
    <2>10. GetsWider(o, t)
        BY <1>17, <1>19, <2>8, <2>9
    <2>11. Becomes(t)
        BY <1>10, <2>9
    <2>12. o.contexts = Front(contexts)
        BY <1>15, <1>16
    <2>. QED  BY <1>3, <1>4, <1>10, <1>12, <2>1, <2>3, <2>10, <2>11, <2>12, AscendKeeps
<1>. QED  BY <1>18, <1>19

-----------------------------------------------------------------------------
(* The theorems.                                                           *)

LEMMA OneElement ==
    ASSUME NEW S, NEW e \in S, NEW s, s = <<e>>
    PROVE  s \in Seq(S) /\ Len(s) = 1 /\ s[1] = e /\ \A j \in 1..Len(s) : j = 1
<1>1. s \in Seq(S) /\ Len(s) = 1 /\ s[1] = e
    OBVIOUS
<1>. QED  BY <1>1

LEMMA InitInv ==
    ASSUME Init
    PROVE  Inv
<1>1. PICK script \in FunctionTypes : script = "script"
    BY DEF FunctionTypes
<1>2. PICK c : c = NewContext(script)
    OBVIOUS
<1>3. /\ Fine(c) /\ c \in Contexts /\ c.type = script /\ c.scopeDepth = 0
      /\ c.enclosing_loop = 0 /\ c.last_continue = 0 /\ c.code = <<>>
    BY <1>2, NewContextIsFine
<1>4. PICK e : e = Function("script", "")
    OBVIOUS
<1>5. e \in EndTasks /\ e.kind = "script"
    BY <1>4, EndTaskTypes
<1>6. PICK u : u = <<Task("stats"), e>>
    OBVIOUS
<1>7. u \in Seq(Tasks) /\ Last(u) = e
    BY <1>5, <1>6, WorkBegins
<1>8. contexts = <<c>> /\ todo = <<u>>
    BY <1>1, <1>2, <1>4, <1>6 DEF Init
<1>9. /\ contexts \in Seq(Contexts) /\ Len(contexts) = 1 /\ contexts[1] = c
      /\ \A j \in 1..Len(contexts) : j = 1
    BY <1>3, <1>8, OneElement
<1>10. /\ todo \in Seq(Seq(Tasks)) /\ Len(todo) = 1 /\ todo[1] = u
    BY <1>7, <1>8, OneElement
<1>11. Compiling(c, u)
    <2>1. Outermost(c) = 0
        BY <1>1, <1>3 DEF Outermost
    <2>2. WaitFor(c, {})
        <3>1. \A i \in 1..Len(c.code) : FALSE
            BY <1>3
        <3>. QED  BY <3>1 DEF WaitFor
    <2>. QED  BY <1>3, <1>5, <1>6, <2>1, <2>2, BeginsCompiling
<1>12. currentClass = <<>> /\ functions = <<>> /\ budget = MaxNodes
    BY Zenon DEF Init
<1>13. Settings
    <2>1. error \in Errors /\ family \in Families
        BY DEF Init, Errors
    <2>2. budget \in 0..MaxNodes
        <3>1. MaxNodes \in Nat
            BY <2>1, Limits DEF MaxNodes
        <3>. QED  BY <1>12, <3>1
    <2>3. currentClass \in Seq(BOOLEAN)
        BY <1>12
    <2>4. functions \in Seq(Finished)
        BY <1>12
    <2>. QED  BY <1>9, <1>10, <2>1, <2>2, <2>3, <2>4 DEF Settings
<1>14. Inside
    <2>1. c.type \notin {"method", "initializer"} /\ c.type = "script"
        BY <1>1, <1>3
    <2>2. Last(todo[1]).kind = "script"
        BY <1>5, <1>7, <1>10
    <2>3. ~(1 > 1)
        OBVIOUS
    <2>. QED  BY <1>9, <1>10, <2>1, <2>2, <2>3 DEF Inside
<1>15. JumpsPatched
    <2>1. \A j \in 1..Len(functions) : FALSE
        BY <1>12
    <2>. QED  BY <2>1 DEF JumpsPatched
<1>16. \A j \in 1..Len(contexts) : Compiling(contexts[j], todo[j])
    BY <1>9, <1>10, <1>11
<1>. QED  BY <1>13, <1>14, <1>15, <1>16 DEF Inv

LEMMA UnchangedKeeps ==
    ASSUME Inv, UNCHANGED vars
    PROVE  Inv'
BY Zenon DEF Inv, Settings, Inside, JumpsPatched, Compiling, vars, Without, Syntax, MaxNodes

LEMMA NextKeepsInv ==
    ASSUME Inv, [Next]_vars
    PROVE  Inv'
<1>1. CASE VarDeclaration
    BY <1>1, VarDeclarationKeeps
<1>2. CASE EndDeclaration
    BY <1>2, EndDeclarationKeeps
<1>3. CASE FunDeclaration
    BY <1>3, FunDeclarationKeeps
<1>4. CASE EndFunction
    BY <1>4, EndFunctionKeeps
<1>5. CASE ClassDeclaration
    BY <1>5, ClassDeclarationKeeps
<1>6. CASE Method
    BY <1>6, MethodKeeps
<1>7. CASE EndOfMethods
    BY <1>7, EndOfMethodsKeeps
<1>8. CASE EndClass
    BY <1>8, EndClassKeeps
<1>9. CASE EndOfBlock
    BY <1>9, EndOfBlockKeeps
<1>10. CASE Block
    BY <1>10, BlockKeeps
<1>11. CASE EndBlock
    BY <1>11, EndBlockKeeps
<1>12. CASE PrintStatement
    BY <1>12, PrintStatementKeeps
<1>13. CASE ExprStatement
    BY <1>13, ExpressionStatementKeeps
<1>14. CASE ReturnStatement
    BY <1>14, ReturnStatementKeeps
<1>15. CASE IfStatement
    BY <1>15, IfStatementKeeps
<1>16. CASE IfThen
    BY <1>16, IfThenKeeps
<1>17. CASE IfElse
    BY <1>17, IfElseKeeps
<1>18. CASE WhileStatement
    BY <1>18, WhileStatementKeeps
<1>19. CASE WhileBody
    BY <1>19, WhileBodyKeeps
<1>20. CASE WhileEnd
    BY <1>20, WhileEndKeeps
<1>21. CASE ForStatement
    BY <1>21, ForStatementKeeps
<1>22. CASE ForCondition
    BY <1>22, ForConditionKeeps
<1>23. CASE ForExit
    BY <1>23, ForExitKeeps
<1>24. CASE ForIteration
    BY <1>24, ForIterationKeeps
<1>25. CASE ForIterated
    BY <1>25, ForIteratedKeeps
<1>26. CASE ForEnd
    BY <1>26, ForEndKeeps
<1>27. CASE BreakStatement
    BY <1>27, BreakStatementKeeps
<1>28. CASE ContinueStatement
    BY <1>28, ContinueStatementKeeps
<1>29. CASE Literal
    BY <1>29, LiteralKeeps
<1>30. CASE Variable
    BY <1>30, VariableKeeps
<1>31. CASE This
    BY <1>31, ThisKeeps
<1>32. CASE Super
    BY <1>32, SuperKeeps
<1>33. CASE SuperInvoke
    BY <1>33, SuperInvokeKeeps
<1>34. CASE Unary
    BY <1>34, UnaryKeeps
<1>35. CASE Binary
    BY <1>35, BinaryKeeps
<1>36. CASE Logic
    BY <1>36, LogicKeeps
<1>37. CASE AndJump
    BY <1>37, AndJumpKeeps
<1>38. CASE OrJump
    BY <1>38, OrJumpKeeps
<1>39. CASE Assign
    BY <1>39, AssignKeeps
<1>40. CASE Call
    BY <1>40, CallKeeps
<1>41. CASE Dot
    BY <1>41, DotKeeps
<1>42. CASE EmitOp
    BY <1>42, EmitOpKeeps
<1>43. CASE PatchForward
    BY <1>43, PatchForwardKeeps
<1>44. CASE Compiled
    BY <1>44, UnchangedKeeps DEF Compiled
<1>45. CASE UNCHANGED vars
    BY <1>45, UnchangedKeeps
<1>. QED  BY <1>1, <1>2, <1>3, <1>4, <1>5, <1>6, <1>7, <1>8, <1>9, <1>10, <1>11, <1>12, <1>13, 
          <1>14, <1>15, <1>16, <1>17, <1>18, <1>19, <1>20, <1>21, <1>22, <1>23, <1>24, 
          <1>25, <1>26, <1>27, <1>28, <1>29, <1>30, <1>31, <1>32, <1>33, <1>34, <1>35, 
          <1>36, <1>37, <1>38, <1>39, <1>40, <1>41, <1>42, <1>43, <1>44, <1>45, Zenon DEF Next

(* Every function being compiled is well formed, in every state of every   *)
(* program: its scopes and loops are the ones left to end, what waits for  *)
(* its walk fits it, and each jump has a target or a task to patch it.     *)
THEOREM CompilerInvariantHolds == Spec => []Inv
<1>1. Init => Inv
    BY InitInv
<1>2. Inv /\ [Next]_vars => Inv'
    BY NextKeepsInv
<1>. QED  BY <1>1, <1>2, PTL DEF Spec

(* The fixed-size arrays of a Context are never exceeded, and the slot of  *)
(* `this' is never given up, whatever the limit and the program.           *)
THEOREM CompilerTypeOK == Spec => []TypeOK
<1>1. ASSUME Inv PROVE TypeOK
    <2>1. /\ error \in Errors /\ currentClass \in Seq(BOOLEAN)
          /\ family \in Families /\ budget \in 0..MaxNodes
        BY <1>1 DEF Inv, Settings
    <2>2. ASSUME NEW j \in 1..Len(contexts), NEW c, c = contexts[j]
          PROVE  /\ c.locals \in Seq(LocalRecords) /\ Len(c.locals) \in 1..UINT8_COUNT
                 /\ c.upvalues \in Seq(UpvalueRecords) /\ Len(c.upvalues) <= UINT8_COUNT
                 /\ c.scopeDepth \in Nat /\ c.enclosing_loop \in Nat
                 /\ c.last_break \in 0..Len(c.code) /\ c.last_continue \in 0..Len(c.code)
                 /\ c.height \in Int
        <3>1. Fine(c) /\ c \in Contexts
            BY <1>1, <2>2 DEF Inv, Compiling, Fine
        <3>2. c.last_break <= Len(c.code) /\ c.last_continue <= Len(c.code)
              /\ Len(c.locals) \in 1..UINT8_COUNT /\ Len(c.upvalues) <= UINT8_COUNT
            BY <3>1 DEF Fine
        <3>. QED  BY <3>1, <3>2, ContextTypes
    <2>. QED  BY <2>1, <2>2 DEF TypeOK
<1>. QED  BY <1>1, CompilerInvariantHolds, PTL

(* A finished function has no jump left open, in programs without break.   *)
THEOREM NoJumpIsLeftOpen == Spec => []JumpsPatched
<1>1. Inv => JumpsPatched
    BY DEF Inv
<1>. QED  BY <1>1, CompilerInvariantHolds, PTL

(* enclosing_loop is the number of loops around the code being compiled,   *)
(* so that break and continue are refused outside of one and nowhere else. *)
THEOREM LoopsAreCounted == Spec => []LoopNesting
<1>1. ASSUME Inv PROVE LoopNesting
    <2>1. ASSUME NEW j \in 1..Len(contexts)
          PROVE  contexts[j].enclosing_loop =
                    Cardinality({i \in 1..Len(todo[j]) : todo[j][i].k \in {"whileEnd", "forEnd"}})
        <3>1. PICK w : w = todo[j]
            OBVIOUS
        <3>2. w \in Seq(Tasks) /\ contexts[j].enclosing_loop = Cardinality(Marked(w, LoopEndTasks))
            BY <1>1, <3>1 DEF Inv, Compiling, Pending, Counted
        <3>3. Marked(w, LoopEndTasks) = {i \in 1..Len(w) : w[i].k \in {"whileEnd", "forEnd"}}
            <4>1. \A i \in 1..Len(w) : w[i] \in Tasks
                BY <3>2, ElementOfSeq
            <4>. QED  BY <4>1 DEF Marked, LoopEndTasks, LoopEnds
        <3>. QED  BY <3>1, <3>2, <3>3
    <2>. QED  BY <2>1 DEF LoopNesting
<1>. QED  BY <1>1, CompilerInvariantHolds, PTL

LEMMA ContinueIsInLoop ==
    ASSUME Inv, ContinueStatement, NEW code, code = Last(contexts').code,
           Len(code) > Len(Current(Now).code)
    PROVE  Last(code).arg \in LoopStarts
<1>1. PICK s : s = NotInLoop(Now)
    OBVIOUS
<1>2. PICK c : c = Current(Now)
    OBVIOUS
<1>3. PICK a : a = AdjustLocals(s, c.last_scope_depth)
    OBVIOUS
<1>4. PICK t : t = EmitLoop(a, c.last_continue)
    OBVIOUS
<1>5. PICK e : e = Current(t)
    OBVIOUS
<1>6. PICK none \in Nat : none = 0
    OBVIOUS
<1>7. PICK v : v = ContinueAt(t, none)
    OBVIOUS
<1>8. AtStatement /\ todo # <<>>
    BY SimpleNodeBegins DEF ContinueStatement, AtStatement, Doing
<1>9. /\ Good(Now) /\ Good(s) /\ Current(s) = c
    BY <1>1, <1>2, <1>8, NotInLoopFails
<1>10. PICK z : z = IF c.last_continue = 0 THEN s ELSE v
    OBVIOUS
<1>11. contexts' = z.contexts
    <2>1. Statement(z, <<>>)
        BY <1>1, <1>2, <1>3, <1>4, <1>6, <1>7, <1>9, <1>10 DEF ContinueStatement
    <2>. QED  BY <2>1 DEF Statement, Walk, Becomes
<1>12. code = Current(z).code
    BY <1>11 DEF Current
<1>13. c.last_continue # 0 /\ z = v
    <2>1. SUFFICES ASSUME c.last_continue = 0 PROVE FALSE
        BY <1>10
    <2>2. code = c.code
        BY <1>9, <1>10, <1>12, <2>1
    <2>3. Len(c.code) \in Nat
        BY <1>2, <1>9, LoopFields
    <2>. QED  BY <1>2, <2>2, <2>3
<1>14. /\ c.last_scope_depth \in Nat /\ c.last_continue \in Nat /\ c.last_continue <= Len(c.code)
       /\ Len(c.code) \in Nat
    BY <1>2, <1>9, LoopFields
<1>15. Good(a) /\ Narrows(c, Current(a))
    BY <1>3, <1>9, <1>14, Adjusts DEF Follows
<1>16. c.last_continue \in 0..Len(Current(a).code) /\ Len(Current(a).code) \in Nat
    <2>1. Len(Current(a).code) >= Len(c.code) /\ Len(Current(a).code) \in Nat
        BY <1>15, LoopFields DEF Narrows
    <2>. QED  BY <1>14, <2>1
<1>17. /\ Good(t) /\ Len(e.code) = Len(Current(a).code) + 1
       /\ e.code[Len(Current(a).code) + 1].arg = c.last_continue
    BY <1>4, <1>5, <1>15, <1>16, EmitsLoop
<1>18. code = e.code
    <2>1. Reset(t, v, none, e.last_break, e.enclosing_loop)
        <3>1. none <= Len(e.code)
            BY <1>5, <1>6, <1>17, LoopFields
        <3>. QED  BY <1>5, <1>6, <1>7, <1>17, <3>1, ContinuesAt
    <2>. QED  BY <1>5, <1>12, <1>13, <2>1 DEF Reset, BesideLoops
<1>19. Last(code).arg = c.last_continue
    <2>1. code \in Seq(Instructions)
        BY <1>5, <1>17, <1>18, CurrentIsFine, ContextTypes
    <2>2. Len(code) = Len(Current(a).code) + 1 /\ code[Len(code)].arg = c.last_continue
        BY <1>17, <1>18
    <2>3. code # <<>>
        BY <1>16, <2>2, EmptySeq
    <2>4. Last(code) = code[Len(code)]
        BY <2>1, <2>3, FrontAndLast
    <2>. QED  BY <2>2, <2>4
<1>20. PICK w \in Seq(Tasks) : /\ w = Work /\ Head(Work) = w[1]
                               /\ Compiling(c, w)
    BY <1>2, <1>8, AtWork
<1>21. PICK k \in 1..Len(w) : StartsAt(w[k], c.last_continue)
    BY <1>13, <1>20 DEF Compiling, OpenLoop
<1>22. w[1].k \in {"stats", "stat"}
    BY <1>8, <1>20 DEF AtStatement, Doing
<1>23. w[k].k \notin {"whileBody", "forBody"}
    <2>1. CASE k = 1
        BY <1>22, <2>1
    <2>2. CASE k # 1
        <3>1. 1 \in 1..k - 1
            BY <2>2
        <3>2. Before(w[1], w[k])
            BY <1>20, <3>1 DEF Compiling, Pending
        <3>. QED  BY <1>22, <3>2 DEF Before, AfterExprs, ExprTasks
    <2>. QED  BY <2>1, <2>2
<1>24. w[k].k \in {"whileEnd", "forEnd"} /\ w[k].loop.start = c.last_continue
    BY <1>21, <1>23 DEF StartsAt
<1>. QED  BY <1>19, <1>20, <1>24 DEF LoopStarts

(* A continue leads to the start of a loop that is open around it, in its  *)
(* own function, whatever loops were entered and left before.              *)
THEOREM ContinueGoesToItsLoop == Spec => ContinueStaysInLoop
<1>1. Inv /\ [Next]_vars =>
        [ContinueStatement /\ error' = NoError =>
            LET code == Last(contexts').code IN
            Len(code) > Len(Current(Now).code) => Last(code).arg \in LoopStarts]_vars
    BY ContinueIsInLoop
<1>. QED  BY <1>1, CompilerInvariantHolds, PTL DEF Spec, ContinueStaysInLoop

=============================================================================
