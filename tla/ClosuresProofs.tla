--------------------------- MODULE ClosuresProofs ---------------------------
(***************************************************************************)
(* Inv of module Closures is inductive, so that its parts hold of every    *)
(* behaviour; the history invariant of ClosuresCells is inductive, so      *)
(* that, until an error empties the stack, the upvalues of the virtual     *)
(* machine implement Cells.  Both whatever the limits and bounds are.      *)
(***************************************************************************)
EXTENDS ClosuresCells, SequenceTheorems, WellFoundedInduction, TLAPS

USE ClosuresAssumption DEF ClosuresAssumption

-----------------------------------------------------------------------------
(* Sequences.                                                              *)

(* t is s without its first n elements.                                    *)
WithoutFirst(t, s, n, S) ==
    /\ t \in Seq(S)
    /\ Len(t) = Len(s) - n
    /\ \A k \in 1..Len(t) : k + n \in 1..Len(s) /\ t[k] = s[k + n]

LEMMA SuffixProperties ==
    ASSUME NEW S, NEW s \in Seq(S), NEW n \in 0..Len(s)
    PROVE  WithoutFirst(SubSeq(s, n + 1, Len(s)), s, n, S)
<1> DEFINE t == SubSeq(s, n + 1, Len(s))
<1>1. Len(s) \in Nat /\ n \in Nat /\ n + 1 \in Int
    BY LenProperties
<1>2. \A i \in n + 1..Len(s) : s[i] \in S
    BY <1>1, ElementOfSeq
<1>3. /\ t \in Seq(S)
      /\ Len(t) = IF n + 1 <= Len(s) THEN Len(s) - (n + 1) + 1 ELSE 0
      /\ \A i \in 1..Len(s) - (n + 1) + 1 : t[i] = s[(n + 1) + i - 1]
    BY <1>1, <1>2, SubSeqProperties
<1> HIDE DEF t
<1>4. Len(t) = Len(s) - n
    BY <1>1, <1>3
<1>5. ASSUME NEW k \in 1..Len(t) PROVE k + n \in 1..Len(s) /\ t[k] = s[k + n]
    <2>1. (n + 1) + k - 1 = k + n /\ k \in 1..Len(s) - (n + 1) + 1
        BY <1>1, <1>4
    <2> QED BY <1>1, <1>3, <1>4, <2>1
<1> QED BY <1>3, <1>4, <1>5 DEF t, WithoutFirst

(* t is s with e inserted at i.                                            *)
IsInsertion(t, s, i, e, S) ==
    /\ t \in Seq(S)
    /\ Len(t) = Len(s) + 1
    /\ \A k \in 1..i - 1 : t[k] = s[k]
    /\ t[i] = e
    /\ \A k \in i + 1..Len(s) + 1 : t[k] = s[k - 1]

LEMMA InsertAtProperties ==
    ASSUME NEW S, NEW s \in Seq(S), NEW i \in Nat \ {0}, i <= Len(s) + 1, NEW e \in S
    PROVE  IsInsertion(InsertAt(s, i, e), s, i, e, S)
<1> DEFINE n == i - 1
           front == SubSeq(s, 1, n)
           mid == front \o <<e>>
           back == SubSeq(s, n + 1, Len(s))
<1>1. /\ Len(s) \in Nat /\ n \in Nat /\ n <= Len(s) /\ n \in 0..Len(s)
      /\ i = n + 1 /\ i - 1 = n /\ i + 1 = n + 2
    BY LenProperties
<1> HIDE DEF n
<1>2. front \in Seq(S) /\ Len(front) = n /\ \A k \in 1..n : front[k] = s[k]
    <2>1. \A j \in 1..n : s[j] \in S
        BY <1>1, ElementOfSeq
    <2>2. /\ front \in Seq(S)
          /\ Len(front) = IF 1 <= n THEN n - 1 + 1 ELSE 0
          /\ \A j \in 1..n - 1 + 1 : front[j] = s[1 + j - 1]
        BY <1>1, <2>1, SubSeqProperties
    <2> HIDE DEF front
    <2> QED BY <1>1, <2>2
<1>3. /\ back \in Seq(S) /\ Len(back) = Len(s) - n
      /\ \A k \in 1..Len(back) : back[k] = s[k + n]
    <2>1. WithoutFirst(back, s, n, S)
        BY <1>1, SuffixProperties, Zenon
    <2> QED BY <2>1 DEF WithoutFirst
<1>4. <<e>> \in Seq(S) /\ Len(<<e>>) = 1 /\ <<e>>[1] = e
    OBVIOUS
<1>5. InsertAt(s, n + 1, e) = mid \o back
    <2>1. (n + 1) - 1 = n
        BY <1>1
    <2>2. InsertAt(s, n + 1, e) =
            (SubSeq(s, 1, (n + 1) - 1) \o <<e>>) \o SubSeq(s, n + 1, Len(s))
        BY DEF InsertAt
    <2> QED BY <2>1, <2>2, Zenon
<1> HIDE DEF front, back
<1>6. /\ mid \in Seq(S) /\ Len(mid) = n + 1
      /\ \A j \in 1..n + 1 : mid[j] = IF j <= n THEN front[j] ELSE <<e>>[j - n]
    BY <1>2, <1>4, ConcatProperties
<1> HIDE DEF mid
<1>7. /\ mid \o back \in Seq(S) /\ Len(mid \o back) = (n + 1) + (Len(s) - n)
      /\ \A j \in 1..(n + 1) + (Len(s) - n) :
            (mid \o back)[j] = IF j <= n + 1 THEN mid[j] ELSE back[j - (n + 1)]
    <2>1. /\ mid \o back \in Seq(S) /\ Len(mid \o back) = Len(mid) + Len(back)
          /\ \A j \in 1..Len(mid) + Len(back) :
                (mid \o back)[j] = IF j <= Len(mid) THEN mid[j] ELSE back[j - Len(mid)]
        BY <1>3, <1>6, ConcatProperties
    <2>2. Len(mid) = n + 1 /\ Len(back) = Len(s) - n
        BY <1>3, <1>6
    <2> QED BY <2>1, <2>2
<1>8. \A k \in 1..n : (mid \o back)[k] = s[k]
    BY <1>1, <1>2, <1>6, <1>7
<1>9. (mid \o back)[n + 1] = e
    <2>1. n + 1 \in 1..n + 1 /\ n + 1 \in 1..(n + 1) + (Len(s) - n) /\ (n + 1) - n = 1
        BY <1>1
    <2>2. mid[n + 1] = e
        BY <1>1, <1>4, <1>6, <2>1
    <2> DEFINE j == n + 1
    <2>3. j \in 1..(n + 1) + (Len(s) - n) /\ j <= n + 1 /\ mid[j] = e
        BY <1>1, <2>1, <2>2
    <2> HIDE DEF j
    <2>4. (mid \o back)[j] = e
        BY <1>7, <2>3
    <2> QED BY <2>4 DEF j
<1>10. ASSUME NEW k \in n + 2..Len(s) + 1 PROVE (mid \o back)[k] = s[k - 1]
    <2>0. k \in Int /\ n + 2 <= k /\ k <= Len(s) + 1
        BY <1>1
    <2>1. k - (n + 1) \in 1..Len(back) /\ (k - (n + 1)) + n = k - 1 /\ ~(k <= n + 1)
        BY <1>1, <1>3, <2>0
    <2>2. (mid \o back)[k] = back[k - (n + 1)]
        BY <1>1, <1>7, <2>1
    <2> QED BY <1>3, <2>1, <2>2
<1>11. Len(mid \o back) = Len(s) + 1
    BY <1>1, <1>7
<1>12. InsertAt(s, i, e) = mid \o back
    BY <1>1, <1>5
<1> DEFINE t == InsertAt(s, i, e)
<1> HIDE DEF t
<1>13. t = mid \o back
    BY <1>12 DEF t
<1>14. /\ t \in Seq(S) /\ Len(t) = Len(s) + 1
       /\ \A k \in 1..n : t[k] = s[k]
       /\ t[n + 1] = e
       /\ \A k \in n + 2..Len(s) + 1 : t[k] = s[k - 1]
    BY <1>7, <1>8, <1>9, <1>10, <1>11, <1>13
<1>15. /\ t \in Seq(S) /\ Len(t) = Len(s) + 1
       /\ \A k \in 1..i - 1 : t[k] = s[k]
       /\ t[i] = e
       /\ \A k \in i + 1..Len(s) + 1 : t[k] = s[k - 1]
    BY <1>1, <1>14
<1> QED BY <1>15 DEF t, IsInsertion

-----------------------------------------------------------------------------
(* The walk along the list of open upvalues.                               *)

(* A set of natural numbers has a least one.                               *)
LEMMA LeastExists ==
    ASSUME NEW S \in SUBSET Nat, S # {}
    PROVE  \E k \in S : \A j \in S : k <= j
<1>1. PICK k \in S : \A j \in S : <<j, k>> \notin OpToRel(<, Nat)
    BY WFMin, NatLessThanWellFounded, Zenon
<1>2. \A j \in S : ~(j < k)
    BY <1>1, Zenon DEF OpToRel
<1>3. QED
    BY <1>2

Location(k) == upvalues[openUpvalues[k]].location

LEMMA LocationType ==
    ASSUME TypeOK, NEW k \in 1..Len(openUpvalues)
    PROVE  Location(k) \in Int
<1>1. openUpvalues[k] \in 1..Len(upvalues)
    BY DEF TypeOK
<1>2. upvalues[openUpvalues[k]] \in Upvalues
    <2>1. upvalues \in Seq(Upvalues)
        BY DEF TypeOK
    <2> QED BY <1>1, <2>1, ElementOfSeq
<1>3. upvalues[openUpvalues[k]].location \in Slot \cup {CLOSED}
    BY <1>2 DEF Upvalues
<1> QED BY <1>3 DEF Location, Slot, CLOSED

(* captureUpvalue and closeUpvalues pass the upvalues above the bound and  *)
(* stop in front of one that is not.                                       *)
LEMMA PassedStops ==
    ASSUME NEW bound \in Int, TypeOK
    PROVE  /\ Passed(bound) \in 0..Len(openUpvalues)
           /\ \A k \in 1..Passed(bound) : Location(k) > bound
           /\ Passed(bound) < Len(openUpvalues) => Location(Passed(bound) + 1) <= bound
<1> DEFINE stops == {k \in 0..Len(openUpvalues) :
                        k < Len(openUpvalues) => Location(k + 1) <= bound}
           passed == Passed(bound)
<1>1. Len(openUpvalues) \in Nat
    BY DEF TypeOK
<1>2. \A k \in 1..Len(openUpvalues) : Location(k) \in Int
    BY LocationType
<1>3. stops \in SUBSET Nat /\ Len(openUpvalues) \in stops
    BY <1>1
<1>4. \E k \in stops : \A j \in stops : k <= j
    BY <1>3, LeastExists
<1>5. passed = CHOOSE k \in stops : \A j \in stops : k <= j
    BY DEF Passed, Location
<1>6. passed \in stops /\ \A j \in stops : passed <= j
    <2> HIDE DEF stops, passed
    <2> QED BY <1>4, <1>5
<1>7. \A k \in 1..passed : Location(k) > bound
    <2> SUFFICES ASSUME NEW k \in 1..passed, ~(Location(k) > bound) PROVE FALSE
        OBVIOUS
    <2>1. passed \in 0..Len(openUpvalues)
        BY <1>6
    <2>2. Location(k) <= bound
        BY <1>1, <1>2, <2>1
    <2>3. k - 1 \in stops
        BY <1>1, <2>1, <2>2
    <2>4. passed <= k - 1
        BY <1>6, <2>3
    <2> HIDE DEF passed
    <2> QED BY <2>1, <2>4, <1>1
<1> QED BY <1>6, <1>7

(* Behind the stop, all are low enough: the list is sorted.                *)
LEMMA PassedSplits ==
    ASSUME NEW bound \in Int, TypeOK, OpenSorted
    PROVE  \A k \in 1..Len(openUpvalues) :
                /\ k <= Passed(bound) => Location(k) > bound
                /\ k = Passed(bound) + 1 => Location(k) <= bound
                /\ k > Passed(bound) + 1 => Location(k) < bound
<1>1. \A k \in 1..Len(openUpvalues) : Location(k) \in Int
    BY LocationType
<1>2. \A j, k \in 1..Len(openUpvalues) : j < k => Location(j) > Location(k)
    BY DEF OpenSorted, Location
<1>3. Len(openUpvalues) \in Nat
    BY DEF TypeOK
<1> DEFINE passed == Passed(bound)
<1>4. /\ passed \in 0..Len(openUpvalues)
      /\ \A k \in 1..passed : Location(k) > bound
      /\ passed < Len(openUpvalues) => Location(passed + 1) <= bound
    BY PassedStops
<1>5. \A k \in 1..Len(openUpvalues) :
        /\ k <= passed => Location(k) > bound
        /\ k = passed + 1 => Location(k) <= bound
        /\ k > passed + 1 => Location(k) < bound
    <2> HIDE DEF passed
    <2> QED BY <1>1, <1>2, <1>3, <1>4
<1> QED BY <1>5

-----------------------------------------------------------------------------
(* closeUpvalues.                                                          *)

LEMMA Lengths ==
    ASSUME TypeOK
    PROVE  /\ Len(openUpvalues) \in Nat /\ Len(upvalues) \in Nat
           /\ Len(closures) \in Nat /\ Len(frames) \in Nat /\ Len(linking) \in Nat
           /\ \A k \in 1..Len(openUpvalues) : openUpvalues[k] \in 1..Len(upvalues)
           /\ \A u \in 1..Len(upvalues) : upvalues[u] \in Upvalues
           /\ \A f \in 1..Len(frames) : frames[f] \in Frames
           /\ \A c \in 1..Len(closures) : closures[c] \in Closure
<1>1. /\ openUpvalues \in Seq(1..Len(upvalues)) /\ upvalues \in Seq(Upvalues)
      /\ frames \in Seq(Frames) /\ closures \in Seq(Closure)
      /\ linking \in Seq([isLocal : BOOLEAN, index : Nat])
    BY DEF TypeOK
<1>2. \A k \in 1..Len(openUpvalues) : openUpvalues[k] \in 1..Len(upvalues)
    BY <1>1, ElementOfSeq
<1>3. \A u \in 1..Len(upvalues) : upvalues[u] \in Upvalues
    BY <1>1, ElementOfSeq
<1>4. \A f \in 1..Len(frames) : frames[f] \in Frames
    BY <1>1, ElementOfSeq
<1>5. \A c \in 1..Len(closures) : closures[c] \in Closure
    BY <1>1, ElementOfSeq
<1> QED BY <1>1, <1>2, <1>3, <1>4, <1>5, LenProperties

(* What stays on the list stays as it is, and is below last; what leaves   *)
(* it is closed.                                                           *)
LEMMA CloseSplits ==
    ASSUME TypeOK, OpenSorted, NEW last \in Int, CloseUpvalues(last),
           \A k \in 1..Len(openUpvalues) : Location(k) \in Slot
    PROVE  LET passed == Passed(last - 1) IN
           /\ passed \in 0..Len(openUpvalues)
           /\ upvalues' \in Seq(Upvalues) /\ Len(upvalues') = Len(upvalues)
           /\ openUpvalues' \in Seq(1..Len(upvalues))
           /\ Len(openUpvalues') = Len(openUpvalues) - passed
           /\ \A k \in 1..Len(openUpvalues') :
                /\ k + passed \in 1..Len(openUpvalues)
                /\ openUpvalues'[k] = openUpvalues[k + passed]
                /\ upvalues'[openUpvalues'[k]] = upvalues[openUpvalues[k + passed]]
                /\ Location(k + passed) < last
           /\ \A k \in 1..passed : upvalues'[openUpvalues[k]].location = CLOSED
           /\ \A u \in 1..Len(upvalues) :
                upvalues'[u] = upvalues[u] \/ upvalues'[u].location = CLOSED
<1> DEFINE passed == Passed(last - 1)
           closing == {openUpvalues[k] : k \in 1..passed}
<1>0. last - 1 \in Int
    OBVIOUS
<1>1. passed \in 0..Len(openUpvalues) /\ passed \in Nat
    <2>1. passed \in 0..Len(openUpvalues)
        BY <1>0, PassedStops
    <2> HIDE DEF passed
    <2> QED BY <2>1, Lengths
<1>2. \A k \in 1..Len(openUpvalues) :
        /\ k <= passed => Location(k) > last - 1
        /\ k > passed => Location(k) <= last - 1
    <2> SUFFICES ASSUME NEW k \in 1..Len(openUpvalues)
                 PROVE  /\ k <= passed => Location(k) > last - 1
                        /\ k > passed => Location(k) <= last - 1
        OBVIOUS
    <2>1. /\ k <= passed => Location(k) > last - 1
          /\ k = passed + 1 => Location(k) <= last - 1
          /\ k > passed + 1 => Location(k) < last - 1
        BY <1>0, PassedSplits
    <2>2. Location(k) \in Int
        BY LocationType
    <2> HIDE DEF passed
    <2> QED BY <1>0, <1>1, <2>1, <2>2
<1>3. upvalues' = [u \in 1..Len(upvalues) |->
                      IF u \in closing
                      THEN [location |-> CLOSED, closed |-> stack[upvalues[u].location]]
                      ELSE upvalues[u]]
    BY DEF CloseUpvalues
<1>4. openUpvalues' = SubSeq(openUpvalues, passed + 1, Len(openUpvalues))
    BY DEF CloseUpvalues
<1> HIDE DEF passed
<1>5. \A u \in closing : upvalues[u].location \in Slot
    <2> SUFFICES ASSUME NEW k \in 1..passed PROVE Location(k) \in Slot
        BY DEF Location
    <2> QED BY <1>1, Lengths
<1>6. \A u \in 1..Len(upvalues) : upvalues'[u] \in Upvalues
    <2> SUFFICES ASSUME NEW u \in 1..Len(upvalues) PROVE upvalues'[u] \in Upvalues
        OBVIOUS
    <2>1. CASE u \in closing
        <3>1. stack[upvalues[u].location] \in Values
            BY <1>5, <2>1 DEF TypeOK
        <3> HIDE DEF closing
        <3>2. upvalues'[u] = [location |-> CLOSED, closed |-> stack[upvalues[u].location]]
            BY <1>3, <2>1
        <3> QED BY <3>1, <3>2 DEF Upvalues
    <2>2. CASE u \notin closing
        <3> HIDE DEF closing
        <3> QED BY <2>2, <1>3, Lengths
    <2> QED BY <2>1, <2>2
<1>7. upvalues' \in Seq(Upvalues) /\ Len(upvalues') = Len(upvalues)
    <2>1. upvalues' \in [1..Len(upvalues) -> Upvalues]
        <3> HIDE DEF closing
        <3> QED BY <1>3, <1>6
    <2> QED BY <2>1, Lengths
<1>8. /\ openUpvalues' \in Seq(1..Len(upvalues))
      /\ Len(openUpvalues') = Len(openUpvalues) - passed
      /\ \A k \in 1..Len(openUpvalues') :
            k + passed \in 1..Len(openUpvalues) /\ openUpvalues'[k] = openUpvalues[k + passed]
    <2>1. openUpvalues \in Seq(1..Len(upvalues))
        BY DEF TypeOK
    <2>2. WithoutFirst(SubSeq(openUpvalues, passed + 1, Len(openUpvalues)), openUpvalues, passed,
                   1..Len(upvalues))
        BY <1>1, <2>1, SuffixProperties, Zenon
    <2> QED BY <1>4, <2>2 DEF WithoutFirst
<1>9. \A k \in 1..passed : upvalues'[openUpvalues[k]].location = CLOSED
    <2> SUFFICES ASSUME NEW k \in 1..passed
                 PROVE  upvalues'[openUpvalues[k]].location = CLOSED
        OBVIOUS
    <2>1. openUpvalues[k] \in closing /\ openUpvalues[k] \in 1..Len(upvalues)
        BY <1>1, Lengths
    <2> HIDE DEF closing
    <2> QED BY <1>3, <2>1
<1>10. \A k \in passed + 1..Len(openUpvalues) : openUpvalues[k] \notin closing
    <2> SUFFICES ASSUME NEW k \in passed + 1..Len(openUpvalues), NEW j \in 1..passed
                 PROVE  openUpvalues[k] # openUpvalues[j]
        OBVIOUS
    <2>1. Location(j) > Location(k)
        BY <1>1, Lengths DEF OpenSorted, Location
    <2>2. Location(j) \in Int /\ Location(k) \in Int
        BY <1>1, Lengths, LocationType
    <2>3. Location(j) # Location(k)
        BY <2>1, <2>2
    <2> QED BY <2>3 DEF Location
<1>11. \A u \in 1..Len(upvalues) :
        /\ u \notin closing => upvalues'[u] = upvalues[u]
        /\ upvalues'[u] = upvalues[u] \/ upvalues'[u].location = CLOSED
    <2> HIDE DEF closing
    <2> QED BY <1>3
<1>12. \A k \in 1..Len(openUpvalues') :
        /\ upvalues'[openUpvalues'[k]] = upvalues[openUpvalues[k + passed]]
        /\ Location(k + passed) < last
    <2> SUFFICES ASSUME NEW k \in 1..Len(openUpvalues')
                 PROVE  /\ upvalues'[openUpvalues[k + passed]] = upvalues[openUpvalues[k + passed]]
                        /\ Location(k + passed) < last
        BY <1>8
    <2>1. k + passed \in passed + 1..Len(openUpvalues) /\ k + passed \in 1..Len(openUpvalues)
        BY <1>1, <1>8, Lengths
    <2>2. Location(k + passed) < last
        <3>1. Location(k + passed) \in Int
            BY <2>1, LocationType
        <3> QED BY <1>1, <2>1, <1>2, <3>1
    <2>3. openUpvalues[k + passed] \in 1..Len(upvalues) /\ openUpvalues[k + passed] \notin closing
        BY <2>1, <1>10, Lengths
    <2> HIDE DEF closing
    <2> QED BY <2>2, <2>3, <1>11
<1> QED BY <1>1, <1>7, <1>8, <1>9, <1>11, <1>12 DEF passed

LEMMA CloseKeepsOrder ==
    ASSUME TypeOK, OpenSorted, NEW last \in Int, CloseUpvalues(last),
           \A k \in 1..Len(openUpvalues) : Location(k) \in Slot
    PROVE  OpenSorted'
<1> DEFINE passed == Passed(last - 1)
<1>1. /\ passed \in 0..Len(openUpvalues)
      /\ \A k \in 1..Len(openUpvalues') :
            /\ k + passed \in 1..Len(openUpvalues)
            /\ upvalues'[openUpvalues'[k]] = upvalues[openUpvalues[k + passed]]
      /\ Len(openUpvalues') = Len(openUpvalues) - passed
    BY CloseSplits
<1> HIDE DEF passed
<1>2. SUFFICES ASSUME NEW j \in 1..Len(openUpvalues'), NEW k \in 1..Len(openUpvalues'), j < k
               PROVE  upvalues'[openUpvalues'[j]].location > upvalues'[openUpvalues'[k]].location
    BY DEF OpenSorted
<1>3. j + passed < k + passed
    BY <1>1, <1>2, Lengths
<1> QED BY <1>1, <1>2, <1>3 DEF OpenSorted

LEMMA CloseLosesNone ==
    ASSUME TypeOK, OpenSorted, NoDangling, NEW last \in Int, CloseUpvalues(last),
           \A k \in 1..Len(openUpvalues) : Location(k) \in Slot, errors' = errors
    PROVE  NoDangling'
<1> DEFINE passed == Passed(last - 1)
<1>1. /\ passed \in 0..Len(openUpvalues)
      /\ Len(upvalues') = Len(upvalues)
      /\ Len(openUpvalues') = Len(openUpvalues) - passed
      /\ \A k \in 1..Len(openUpvalues') : openUpvalues'[k] = openUpvalues[k + passed]
      /\ \A k \in 1..passed : upvalues'[openUpvalues[k]].location = CLOSED
      /\ \A u \in 1..Len(upvalues) :
            upvalues'[u] = upvalues[u] \/ upvalues'[u].location = CLOSED
      /\ openUpvalues' \in Seq(1..Len(upvalues))
    BY CloseSplits
<1> HIDE DEF passed
<1>2. SUFFICES ASSUME errors = 0, NEW u \in 1..Len(upvalues)
               PROVE  upvalues'[u].location = CLOSED \/ u \in ToSet(openUpvalues')
    BY <1>1 DEF NoDangling
<1>3. CASE upvalues[u].location = CLOSED
    BY <1>1, <1>3
<1>4. CASE u \in ToSet(openUpvalues)
    <2>1. PICK k \in 1..Len(openUpvalues) : openUpvalues[k] = u
        BY <1>4, LenProperties DEF ToSet, TypeOK
    <2>2. CASE k <= passed
        <3>1. k \in 1..passed
            BY <1>1, <2>2, Lengths
        <3> QED BY <1>1, <2>1, <3>1
    <2>3. CASE k > passed
        <3>1. k - passed \in 1..Len(openUpvalues') /\ (k - passed) + passed = k
            BY <1>1, <2>3, Lengths
        <3>2. openUpvalues'[k - passed] = u
            BY <1>1, <2>1, <3>1
        <3>3. k - passed \in DOMAIN openUpvalues'
            BY <1>1, <3>1
        <3> QED BY <3>2, <3>3 DEF ToSet
    <2> QED BY <1>1, <2>2, <2>3, Lengths
<1> QED BY <1>2, <1>3, <1>4 DEF NoDangling

-----------------------------------------------------------------------------
(* captureUpvalue.                                                         *)

(* The new upvalue goes between those of higher and those of lower slots.  *)
LEMMA CaptureInserts ==
    ASSUME Inv, linking # <<>>, NEW local \in Slot, CaptureUpvalue(local)
    PROVE  LET passed == Passed(local)
               new == Len(upvalues) + 1
           IN
           \/ /\ UNCHANGED <<upvalues, openUpvalues>>
              /\ passed + 1 \in 1..Len(openUpvalues) /\ Location(passed + 1) = local
              /\ closures' = [closures EXCEPT ![Len(closures)].upvalues =
                                Append(@, openUpvalues[passed + 1])]
           \/ /\ passed \in 0..Len(openUpvalues)
              /\ upvalues' = Append(upvalues, [location |-> local, closed |-> NIL])
              /\ upvalues' \in Seq(Upvalues)
              /\ openUpvalues' \in Seq(1..new)
              /\ Len(openUpvalues') = Len(openUpvalues) + 1
              /\ \A k \in 1..passed : openUpvalues'[k] = openUpvalues[k] /\ Location(k) > local
              /\ openUpvalues'[passed + 1] = new
              /\ \A k \in passed + 2..Len(openUpvalues) + 1 :
                    openUpvalues'[k] = openUpvalues[k - 1] /\ Location(k - 1) < local
              /\ closures' = [closures EXCEPT ![Len(closures)].upvalues = Append(@, new)]
<1> DEFINE passed == Passed(local)
           new == Len(upvalues) + 1
           found == passed < Len(openUpvalues) /\ Location(passed + 1) = local
<1> USE DEF Inv
<1>1. passed \in 0..Len(openUpvalues) /\ Len(openUpvalues) \in Nat
    BY PassedStops, Lengths DEF Slot
<1>2. CASE found
    BY <1>1, <1>2 DEF CaptureUpvalue, Location
<1>3. CASE ~found
    <2>1. /\ upvalues' = Append(upvalues, [location |-> local, closed |-> NIL])
          /\ openUpvalues' = InsertAt(openUpvalues, passed + 1, new)
          /\ closures' = [closures EXCEPT ![Len(closures)].upvalues = Append(@, new)]
        BY <1>3 DEF CaptureUpvalue, Location
    <2>2. upvalues' \in Seq(Upvalues)
        <3>1. [location |-> local, closed |-> NIL] \in Upvalues
            BY DEF Upvalues, Values
        <3> QED BY <2>1, <3>1 DEF TypeOK
    <2>3. openUpvalues \in Seq(1..new) /\ new \in 1..new
        BY Lengths DEF TypeOK
    <2>4. /\ openUpvalues' \in Seq(1..new)
          /\ Len(openUpvalues') = Len(openUpvalues) + 1
          /\ \A k \in 1..passed : openUpvalues'[k] = openUpvalues[k]
          /\ openUpvalues'[passed + 1] = new
          /\ \A k \in passed + 2..Len(openUpvalues) + 1 : openUpvalues'[k] = openUpvalues[k - 1]
        <3> HIDE DEF passed, new, found, Inv
        <3> DEFINE s == openUpvalues
                   i == passed + 1
                   t == InsertAt(s, i, new)
                   S == 1..new
        <3>1. s \in Seq(S) /\ new \in S
            BY <2>3
        <3>2. passed \in Nat /\ Len(s) \in Nat /\ passed <= Len(s)
            BY <1>1
        <3> HIDE DEF s
        <3>3. /\ i \in Nat \ {0} /\ i <= Len(s) + 1
              /\ i = passed + 1 /\ i - 1 = passed /\ i + 1 = passed + 2
            BY <3>2
        <3> HIDE DEF S, i
        <3>6. IsInsertion(t, s, i, new, S)
            BY <3>1, <3>3, InsertAtProperties, Zenon
        <3>4. /\ t \in Seq(S)
              /\ Len(t) = Len(s) + 1
              /\ \A k \in 1..i - 1 : t[k] = s[k]
              /\ t[i] = new
              /\ \A k \in i + 1..Len(s) + 1 : t[k] = s[k - 1]
            BY <3>6 DEF IsInsertion
        <3>5. openUpvalues' = t
            BY <2>1, <3>3 DEF new, s
        <3> HIDE DEF t
        <3> QED BY <3>3, <3>4, <3>5 DEF S, s
    <2>5. \A k \in 1..passed : Location(k) > local
        BY PassedStops DEF Slot
    <2>6. \A k \in passed + 2..Len(openUpvalues) + 1 : Location(k - 1) < local
        <3> SUFFICES ASSUME NEW k \in passed + 2..Len(openUpvalues) + 1
                     PROVE  Location(k - 1) < local
            OBVIOUS
        <3>1. k - 1 \in 1..Len(openUpvalues) /\ k - 1 >= passed + 1
            <4> HIDE DEF passed
            <4> QED BY <1>1
        <3>2. Location(k - 1) \in Int /\ local \in Int
            BY <3>1, LocationType DEF Slot
        <3>3. CASE k - 1 = passed + 1
            <4>1. Location(k - 1) <= local
                BY <3>1, <3>3, PassedSplits DEF Slot
            <4>2. passed < Len(openUpvalues)
                <5> HIDE DEF passed
                <5> QED BY <1>1, <3>1, <3>3
            <4>3. Location(k - 1) # local
                BY <1>3, <3>3, <4>2
            <4> QED BY <3>2, <4>1, <4>3
        <3>4. CASE k - 1 > passed + 1
            BY <3>1, <3>4, PassedSplits DEF Slot
        <3> QED BY <1>1, <3>1, <3>3, <3>4
    <2> QED BY <1>1, <2>1, <2>2, <2>4, <2>5, <2>6
<1> QED BY <1>2, <1>3

-----------------------------------------------------------------------------
(* What Inv says of the running frame and of the open upvalues.            *)

LEMMA RunningFrame ==
    ASSUME Inv, frames # <<>>
    PROVE  /\ Len(frames) \in Nat \ {0}
           /\ Frame \in Frames /\ Frame = frames[Len(frames)]
           /\ Frame.slots \in Nat /\ Frame.locals \in Nat \ {0}
           /\ stackTop \in Nat /\ STACK_MAX \in Nat
           /\ Frame.slots + Frame.locals <= stackTop /\ stackTop <= STACK_MAX
           /\ Frame.closure \in 1..Len(closures)
           /\ closures[Frame.closure] \in Closure
           /\ Captures \in Seq(1..Len(upvalues))
<1>1. Len(frames) \in Nat \ {0}
    BY EmptySeq DEF Inv, TypeOK
<1>2. Frame \in Frames
    BY <1>1, ElementOfSeq DEF Inv, TypeOK, Frame
<1>3. Frame.closure \in 1..Len(closures) /\ closures[Frame.closure] \in Closure
    BY <1>2, Lengths DEF Inv, Frames
<1>4. Captures \in Seq(1..Len(upvalues))
    BY <1>3 DEF Captures, Closure
<1>5. Frame.slots + Frame.locals <= stackTop
    BY DEF Inv, FramesNested, LocalsEnd
<1>6. Frame.slots \in Nat /\ Frame.locals \in Nat \ {0}
    BY <1>2 DEF Frames, Slot
<1>7. STACK_MAX \in Nat /\ stackTop \in Nat /\ stackTop <= STACK_MAX
    BY DEF Inv, TypeOK
<1> QED BY <1>1, <1>2, <1>3, <1>4, <1>5, <1>6, <1>7 DEF Frame

LEMMA OpenAreSlots ==
    ASSUME Inv
    PROVE  \A k \in 1..Len(openUpvalues) : Location(k) \in Slot
<1> SUFFICES ASSUME NEW k \in 1..Len(openUpvalues) PROVE Location(k) \in Slot
    OBVIOUS
<1>1. PICK f \in 1..Len(frames) : Location(k) \in frames[f].captured
    BY DEF Inv, OpenIsCaptured, Location
<1> QED BY <1>1, Lengths DEF Inv, Frames

-----------------------------------------------------------------------------
(* Instructions on the stack and on variables.                             *)

LEMMA PushKeepsInv ==
    ASSUME Inv, NEW v \in Values, Push(v)
    PROVE  Inv'
<1> USE DEF Inv, Push, heap
<1>1. stackTop \in Slot /\ frames # <<>> /\ linking = <<>>
    BY DEF TypeOK, Slot, Room, Running
<1>2. TypeOK'
    <2>1. stack' \in [Slot -> Values]
        BY <1>1 DEF TypeOK, Pushed
    <2>2. stackTop' \in 0..STACK_MAX
        BY <1>1 DEF TypeOK, Slot
    <2>3. Values' = Values /\ Frames' = Frames /\ Upvalues' = Upvalues /\ Closure' = Closure
        BY DEF Values, Frames, Upvalues, Closure
    <2> QED BY <2>1, <2>2, <2>3 DEF TypeOK
<1>3. FramesNested'
    BY <1>1, RunningFrame DEF FramesNested, LocalsEnd, Frame
<1> QED BY <1>1, <1>2, <1>3
        DEF ScriptFrame, LinksExist, OpenSorted, OpenIsCaptured, NoDangling

LEMMA ContentType ==
    ASSUME Inv, NEW u \in 1..Len(upvalues)
    PROVE  Content(u) \in Values
<1>1. upvalues[u] \in Upvalues
    BY Lengths DEF Inv
<1> QED BY <1>1 DEF Content, Upvalues, Inv, TypeOK

(* The sets that TypeOK uses depend only on what the heap holds.           *)
LEMMA TypesKept ==
    ASSUME UNCHANGED closures, Len(upvalues') = Len(upvalues)
    PROVE  Values' = Values /\ Frames' = Frames /\ Upvalues' = Upvalues /\ Closure' = Closure
    BY DEF Values, Frames, Upvalues, Closure

(* What is on the stack of the running frame has a value.                  *)
LEMMA SlotTypes ==
    ASSUME Inv, frames # <<>>
    PROVE  /\ \A n \in 0..Frame.locals - 1 :
                Frame.slots + n \in Slot /\ stack[Frame.slots + n] \in Values
           /\ Temporaries > 0 => stackTop - 1 \in Slot /\ Top \in Values
<1>0. /\ Frame.slots \in Nat /\ Frame.locals \in Nat \ {0}
      /\ stackTop \in Nat /\ STACK_MAX \in Nat
      /\ Frame.slots + Frame.locals <= stackTop /\ stackTop <= STACK_MAX
    BY RunningFrame
<1>1. \A n \in 0..Frame.locals - 1 : Frame.slots + n \in Slot
    BY <1>0 DEF Slot
<1>2. Temporaries > 0 => stackTop - 1 \in Slot
    BY <1>0 DEF Slot, Temporaries, LocalsEnd
<1>3. \A slot \in Slot : stack[slot] \in Values
    BY DEF Inv, TypeOK
<1> QED BY <1>1, <1>2, <1>3 DEF Top

LEMMA PopKeepsInv ==
    ASSUME Inv, Pop
    PROVE  Inv'
<1> USE DEF Inv, Pop, heap
<1>1. frames # <<>> /\ linking = <<>>
    BY DEF Running
<1>2. TypeOK'
    <2>1. stackTop' \in 0..STACK_MAX
        BY <1>1, RunningFrame DEF Temporaries, LocalsEnd
    <2> QED BY <2>1, TypesKept DEF TypeOK
<1>3. FramesNested'
    <2>1. LocalsEnd <= stackTop - 1
        BY <1>1, RunningFrame DEF Temporaries, LocalsEnd
    <2> QED BY <1>1, <2>1 DEF FramesNested, LocalsEnd, Frame
<1> QED BY <1>1, <1>2, <1>3
        DEF ScriptFrame, LinksExist, OpenSorted, OpenIsCaptured, NoDangling

(* Only values change: of slots, globals or closed upvalues.               *)
LEMMA AssignKeepsInv ==
    ASSUME Inv, UNCHANGED <<stackTop, frames, closures, openUpvalues, linking, errors>>,
           stack' \in [Slot -> Values],
           DOMAIN globals' \subseteq Globals, globals' \in [DOMAIN globals' -> Values],
           upvalues' \in Seq(Upvalues), Len(upvalues') = Len(upvalues),
           \A u \in 1..Len(upvalues) : upvalues'[u].location = upvalues[u].location
    PROVE  Inv'
<1> USE DEF Inv
<1>1. TypeOK'
    BY TypesKept DEF TypeOK
<1>2. FramesNested' /\ ScriptFrame' /\ LinksExist'
    BY DEF FramesNested, LocalsEnd, Frame, ScriptFrame, LinksExist, Captures
<1>3. \A k \in 1..Len(openUpvalues) :
        upvalues'[openUpvalues[k]].location = upvalues[openUpvalues[k]].location
    BY Lengths
<1>4. OpenSorted' /\ OpenIsCaptured'
    BY <1>3 DEF OpenSorted, OpenIsCaptured
<1>5. NoDangling'
    BY DEF NoDangling
<1> QED BY <1>1, <1>2, <1>4, <1>5

LEMMA SetLocalKeepsInv ==
    ASSUME Inv, SetLocal
    PROVE  Inv'
<1> USE DEF Inv, SetLocal, heap
<1>1. PICK slot \in 0..Frame.locals - 1 : stack' = [stack EXCEPT ![Frame.slots + slot] = Top]
    OBVIOUS
<1>2. frames # <<>> /\ Temporaries > 0
    BY DEF Running
<1>3. stack' \in [Slot -> Values]
    BY <1>1, <1>2, SlotTypes DEF TypeOK
<1> QED BY <1>3, AssignKeepsInv DEF TypeOK

LEMMA SetUpvalueKeepsInv ==
    ASSUME Inv, SetUpvalue
    PROVE  Inv'
<1> USE DEF Inv
<1>1. PICK k \in 1..Len(Captures) :
        IF upvalues[Captures[k]].location = CLOSED
        THEN /\ upvalues' = [upvalues EXCEPT ![Captures[k]].closed = Top]
             /\ UNCHANGED stack
        ELSE /\ stack' = [stack EXCEPT ![upvalues[Captures[k]].location] = Top]
             /\ UNCHANGED upvalues
    BY DEF SetUpvalue
<1>2. frames # <<>> /\ Top \in Values
    BY SlotTypes DEF SetUpvalue, Running
<1> DEFINE u == Captures[k]
<1>3. u \in 1..Len(upvalues)
    BY <1>2, RunningFrame, ElementOfSeq
<1> HIDE DEF u
<1>4. upvalues[u] \in Upvalues
    BY <1>3, Lengths
<1>5. UNCHANGED <<stackTop, frames, closures, openUpvalues, linking, globals, errors>>
    BY DEF SetUpvalue
<1>6. CASE upvalues[u].location = CLOSED
    <2>1. UNCHANGED stack /\ upvalues' = [upvalues EXCEPT ![u].closed = Top]
        BY <1>1, <1>6 DEF u
    <2>2. [upvalues[u] EXCEPT !.closed = Top] \in Upvalues
        BY <1>2, <1>4 DEF Upvalues
    <2>3. upvalues' = [upvalues EXCEPT ![u] = [upvalues[u] EXCEPT !.closed = Top]]
        BY <2>1
    <2>4. /\ upvalues' \in Seq(Upvalues) /\ Len(upvalues') = Len(upvalues)
          /\ \A v \in 1..Len(upvalues) :
                upvalues'[v] = IF v = u THEN [upvalues[u] EXCEPT !.closed = Top] ELSE upvalues[v]
        <3>1. upvalues \in Seq(Upvalues)
            BY DEF TypeOK
        <3> QED BY <1>3, <2>2, <2>3, <3>1, ExceptSeq
    <2>5. \A v \in 1..Len(upvalues) : upvalues'[v].location = upvalues[v].location
        BY <1>4, <2>4 DEF Upvalues
    <2> QED BY <1>5, <2>1, <2>4, <2>5, AssignKeepsInv DEF TypeOK
<1>7. CASE upvalues[u].location # CLOSED
    <2>1. UNCHANGED upvalues /\ stack' = [stack EXCEPT ![upvalues[u].location] = Top]
        BY <1>1, <1>7 DEF u
    <2>2. stack' \in [Slot -> Values]
        BY <1>2, <1>4, <1>7, <2>1 DEF TypeOK, Upvalues
    <2> QED BY <1>5, <2>1, <2>2, AssignKeepsInv DEF TypeOK
<1> QED BY <1>6, <1>7

LEMMA RuntimeErrorKeepsInv ==
    ASSUME Inv, linking = <<>>, RuntimeError
    PROVE  Inv'
<1> USE DEF Inv, RuntimeError
<1>1. TypeOK'
    BY TypesKept DEF TypeOK
<1>2. NoDangling'
    BY DEF NoDangling, TypeOK
<1>3. FramesNested' /\ ScriptFrame' /\ LinksExist' /\ OpenSorted' /\ OpenIsCaptured'
    BY DEF FramesNested, ScriptFrame, LinksExist, OpenSorted, OpenIsCaptured
<1> QED BY <1>1, <1>2, <1>3

LEMMA GlobalsKeepInv ==
    ASSUME Inv, GetGlobal \/ DefineGlobal \/ SetGlobal
    PROVE  Inv'
<1> USE DEF Inv
<1>1. CASE GetGlobal
    <2>1. PICK x \in Globals : IF x \in DOMAIN globals THEN Push(globals[x]) ELSE RuntimeError
        BY <1>1 DEF GetGlobal
    <2>2. x \in DOMAIN globals => globals[x] \in Values
        BY DEF TypeOK
    <2> QED BY <1>1, <2>1, <2>2, PushKeepsInv, RuntimeErrorKeepsInv DEF GetGlobal, Running
<1>2. CASE DefineGlobal
    <2>1. frames # <<>> /\ linking = <<>> /\ Temporaries = 1
        BY <1>2 DEF DefineGlobal, Running
    <2>2. PICK x \in Globals : 
            globals' = [y \in DOMAIN globals \cup {x} |-> IF y = x THEN Top ELSE globals[y]]
        BY <1>2 DEF DefineGlobal
    <2>3. UNCHANGED <<stack, frames, closures, upvalues, openUpvalues, linking, errors>>
        BY <1>2 DEF DefineGlobal, heap
    <2>4. stackTop' = stackTop - 1 /\ stackTop' \in 0..STACK_MAX /\ LocalsEnd <= stackTop'
        BY <1>2, <2>1, RunningFrame DEF DefineGlobal, Temporaries, LocalsEnd
    <2>5. Top \in Values
        BY <2>1, SlotTypes
    <2>6. DOMAIN globals' \subseteq Globals /\ globals' \in [DOMAIN globals' -> Values]
        BY <2>2, <2>5 DEF TypeOK
    <2>7. TypeOK'
        BY <2>3, <2>4, <2>6, TypesKept DEF TypeOK
    <2>8. FramesNested'
        BY <2>1, <2>3, <2>4 DEF FramesNested, LocalsEnd, Frame
    <2> QED BY <2>1, <2>3, <2>7, <2>8
            DEF ScriptFrame, LinksExist, OpenSorted, OpenIsCaptured, NoDangling
<1>3. CASE SetGlobal
    <2>1. PICK x \in Globals :
            IF x \in DOMAIN globals
            THEN /\ globals' = [globals EXCEPT ![x] = Top]
                 /\ UNCHANGED <<stack, stackTop, frames, heap, errors>>
            ELSE RuntimeError
        BY <1>3 DEF SetGlobal
    <2>2. frames # <<>> /\ linking = <<>> /\ Top \in Values
        BY <1>3, SlotTypes DEF SetGlobal, Running
    <2>3. CASE x \in DOMAIN globals
        <3>1. DOMAIN globals' \subseteq Globals /\ globals' \in [DOMAIN globals' -> Values]
            BY <2>1, <2>2, <2>3 DEF TypeOK
        <3> QED BY <2>1, <2>3, <3>1, AssignKeepsInv DEF TypeOK, heap
    <2>4. CASE x \notin DOMAIN globals
        BY <2>1, <2>2, <2>4, RuntimeErrorKeepsInv
    <2> QED BY <2>3, <2>4
<1> QED BY <1>1, <1>2, <1>3

-----------------------------------------------------------------------------
(* Frames.                                                                 *)

(* The bookkeeping of the running frame changes; no captured local goes.   *)
LEMMA WithFrameProperties ==
    ASSUME Inv, frames # <<>>, NEW f \in Frames, frames' = WithFrame(f)
    PROVE  /\ frames' \in Seq(Frames) /\ Len(frames') = Len(frames) /\ frames' # <<>>
           /\ frames'[Len(frames)] = f /\ Frame' = f
           /\ \A g \in 1..Len(frames) - 1 : frames'[g] = frames[g]
<1>1. /\ frames' \in Seq(Frames) /\ Len(frames') = Len(frames)
      /\ \A g \in 1..Len(frames) : frames'[g] = IF g = Len(frames) THEN f ELSE frames[g]
    <2>1. frames \in Seq(Frames) /\ Len(frames) \in 1..Len(frames)
        BY RunningFrame DEF Inv, TypeOK
    <2>2. frames' = [frames EXCEPT ![Len(frames)] = f]
        BY DEF WithFrame
    <2> QED BY <2>1, <2>2, ExceptSeq
<1>2. Len(frames) \in 1..Len(frames) /\ Len(frames) \in Nat \ {0}
    BY RunningFrame
<1> QED BY <1>1, <1>2 DEF Frame

LEMMA LocalsChanged ==
    ASSUME NEW f \in Frames, NEW n \in Nat \ {0}, NEW g, g = [f EXCEPT !.locals = n]
    PROVE  /\ g \in Frames
           /\ g.slots = f.slots /\ g.params = f.params /\ g.closure = f.closure
           /\ g.locals = n /\ g.captured = f.captured
    BY DEF Frames

LEMMA CapturedChanged ==
    ASSUME NEW f \in Frames, NEW S \in SUBSET Slot, NEW g, g = [f EXCEPT !.captured = S]
    PROVE  /\ g \in Frames
           /\ g.slots = f.slots /\ g.params = f.params /\ g.closure = f.closure
           /\ g.locals = f.locals /\ g.captured = S
    BY DEF Frames

LEMMA WiderInterval ==
    ASSUME NEW a \in Int, NEW b \in Int, NEW c \in Int, b <= c, NEW x \in a..a + b - 1
    PROVE  x \in a..a + c - 1
    OBVIOUS

(* The running frame's locals become more, or the same.                    *)
LEMMA WiderFrame ==
    ASSUME Inv, frames # <<>>, NEW g \in Frames, frames' = WithFrame(g),
           g.slots = Frame.slots, g.params = Frame.params, Frame.captured \subseteq g.captured,
           Frame.locals <= g.locals, g.slots + g.locals <= stackTop'
    PROVE  /\ frames' \in Seq(Frames)
           /\ FramesNested' /\ ScriptFrame'
           /\ UNCHANGED <<upvalues, openUpvalues>> => OpenIsCaptured'
<1>1. g.locals \in Nat /\ g.slots \in Nat
    BY DEF Frames, Slot
<1>2. /\ frames' \in Seq(Frames) /\ Len(frames') = Len(frames) /\ frames' # <<>>
      /\ frames'[Len(frames)] = g /\ Frame' = g
      /\ \A f \in 1..Len(frames) - 1 : frames'[f] = frames[f]
    BY WithFrameProperties
<1>3. /\ Len(frames) \in Nat \ {0} /\ Frame.slots \in Nat /\ Frame.locals \in Nat
      /\ \A f \in 1..Len(frames) : frames[f].slots \in Nat /\ frames[f].locals \in Nat
    <2>1. \A f \in 1..Len(frames) : frames[f] \in Frames
        BY Lengths DEF Inv
    <2>2. \A f \in 1..Len(frames) : frames[f].slots \in Nat /\ frames[f].locals \in Nat
        BY <2>1 DEF Frames, Slot
    <2> QED BY <2>2, RunningFrame
<1>4. \A f \in 1..Len(frames) :
        /\ frames'[f].slots = frames[f].slots /\ frames'[f].params = frames[f].params
        /\ frames[f].captured \subseteq frames'[f].captured
        /\ frames[f].locals <= frames'[f].locals /\ frames'[f].locals \in Nat
        /\ f < Len(frames) => frames'[f] = frames[f]
    <2> SUFFICES ASSUME NEW f \in 1..Len(frames)
                 PROVE  /\ frames'[f].slots = frames[f].slots /\ frames'[f].params = frames[f].params
                        /\ frames[f].captured \subseteq frames'[f].captured
                        /\ frames[f].locals <= frames'[f].locals /\ frames'[f].locals \in Nat
                        /\ f < Len(frames) => frames'[f] = frames[f]
        OBVIOUS
    <2>1. CASE f = Len(frames)
        <3>1. frames[f] = Frame /\ frames'[f] = g
            BY <1>2, <2>1 DEF Frame
        <3> QED BY <1>1, <1>3, <2>1, <3>1
    <2>2. CASE f # Len(frames)
        <3>1. frames'[f] = frames[f]
            BY <1>2, <1>3, <2>2
        <3> QED BY <1>3, <3>1
    <2> QED BY <2>1, <2>2
<1>5. FramesNested'
    <2>1. Frame'.slots + Frame'.locals <= stackTop'
        BY <1>1, <1>2, <1>3 DEF LocalsEnd
    <2>2. ASSUME NEW f \in 1..Len(frames), NEW h \in 1..Len(frames), f < h
          PROVE  frames'[f].slots + frames'[f].locals <= frames'[h].slots
        <3>1. frames[f].slots + frames[f].locals <= frames[h].slots
            BY <2>2 DEF Inv, FramesNested
        <3>2. f < Len(frames)
            BY <1>3, <2>2
        <3> QED BY <1>4, <3>1, <3>2
    <2> QED BY <1>2, <2>1, <2>2 DEF FramesNested, LocalsEnd
<1>6. ScriptFrame'
    BY <1>2, <1>3, <1>4 DEF Inv, ScriptFrame
<1>7. ASSUME UNCHANGED <<upvalues, openUpvalues>> PROVE OpenIsCaptured'
    <2> SUFFICES ASSUME NEW k \in 1..Len(openUpvalues)
                 PROVE  \E f \in 1..Len(frames') :
                            /\ Location(k) \in frames'[f].captured
                            /\ Location(k) \in frames'[f].slots..frames'[f].slots + frames'[f].locals - 1
        BY <1>7 DEF OpenIsCaptured, Location
    <2>1. PICK f \in 1..Len(frames) :
            /\ Location(k) \in frames[f].captured
            /\ Location(k) \in frames[f].slots..frames[f].slots + frames[f].locals - 1
        BY DEF Inv, OpenIsCaptured, Location
    <2>2. Location(k) \in frames'[f].slots..frames'[f].slots + frames'[f].locals - 1
        <3>1. /\ frames'[f].slots = frames[f].slots /\ frames[f].slots \in Nat
              /\ frames[f].locals <= frames'[f].locals
              /\ frames[f].locals \in Nat /\ frames'[f].locals \in Nat
            BY <1>3, <1>4
        <3>2. /\ frames[f].slots \in Int /\ frames[f].locals \in Int /\ frames'[f].locals \in Int
            BY <3>1
        <3>3. Location(k) \in frames[f].slots..frames[f].slots + frames'[f].locals - 1
            BY <2>1, <3>1, <3>2, WiderInterval, Zenon
        <3> QED BY <3>1, <3>3, Zenon
    <2> QED BY <1>2, <1>4, <2>1, <2>2
<1> QED BY <1>2, <1>5, <1>6, <1>7

LEMMA DeclareLocalKeepsInv ==
    ASSUME Inv, DeclareLocal
    PROVE  Inv'
<1> USE DEF Inv
<1>1. frames # <<>> /\ linking = <<>> /\ Temporaries = 1
    BY DEF DeclareLocal, Running
<1>2. UNCHANGED <<stack, stackTop, closures, upvalues, openUpvalues, linking, globals, errors>>
    BY DEF DeclareLocal, heap
<1> DEFINE g == [Frame EXCEPT !.locals = Frame.locals + 1]
<1>3. frames' = WithFrame(g)
    BY DEF DeclareLocal
<1>4. Frame \in Frames /\ Frame.locals + 1 \in Nat \ {0}
    BY <1>1, RunningFrame
<1>5. frames' \in Seq(Frames) /\ FramesNested' /\ ScriptFrame' /\ OpenIsCaptured'
    <2>1. /\ g \in Frames /\ g.slots = Frame.slots /\ g.params = Frame.params
          /\ g.captured = Frame.captured /\ g.locals = Frame.locals + 1
        BY <1>4, LocalsChanged
    <2> HIDE DEF g
    <2>2. Frame.locals <= g.locals /\ g.slots + g.locals <= stackTop'
        BY <1>1, <1>2, <2>1, RunningFrame DEF Temporaries, LocalsEnd
    <2> QED BY <1>1, <1>2, <1>3, <2>1, <2>2, WiderFrame
<1>6. TypeOK'
    BY <1>2, <1>5, TypesKept DEF TypeOK
<1> QED BY <1>1, <1>2, <1>5, <1>6 DEF LinksExist, OpenSorted, NoDangling

(* A block gives up a slot: no open upvalue is left that points to it.     *)
LEMMA EndLocalFrees ==
    ASSUME Inv, EndLocal
    PROVE  /\ upvalues' \in Seq(Upvalues) /\ Len(upvalues') = Len(upvalues)
           /\ openUpvalues' \in Seq(1..Len(upvalues))
           /\ OpenSorted' /\ NoDangling' /\ UNCHANGED <<closures, linking>>
           /\ \A k \in 1..Len(openUpvalues') : \E j \in 1..Len(openUpvalues) :
                /\ upvalues'[openUpvalues'[k]].location = Location(j)
                /\ Location(j) # stackTop - 1
<1> USE DEF Inv
<1> DEFINE slot == stackTop - 1
<1>1. frames # <<>> /\ Temporaries = 0 /\ errors' = errors
    BY DEF EndLocal, Running
<1>2. slot = Frame.slots + Frame.locals - 1 /\ slot \in Int
    <2>1. Frame.slots \in Nat /\ Frame.locals \in Nat \ {0} /\ stackTop \in Nat
        BY <1>1, RunningFrame
    <2> QED BY <1>1, <2>1 DEF Temporaries, LocalsEnd
<1>3. CASE slot \in Frame.captured
    <2>1. CloseUpvalues(slot)
        BY <1>3 DEF EndLocal
    <2> HIDE DEF slot
    <2> DEFINE passed == Passed(slot - 1)
    <2>2. /\ upvalues' \in Seq(Upvalues) /\ Len(upvalues') = Len(upvalues)
          /\ openUpvalues' \in Seq(1..Len(upvalues))
          /\ \A k \in 1..Len(openUpvalues') :
                /\ k + passed \in 1..Len(openUpvalues)
                /\ upvalues'[openUpvalues'[k]] = upvalues[openUpvalues[k + passed]]
                /\ Location(k + passed) < slot
        BY <1>2, <2>1, OpenAreSlots, CloseSplits
    <2>3. OpenSorted' /\ NoDangling'
        BY <1>1, <1>2, <2>1, OpenAreSlots, CloseKeepsOrder, CloseLosesNone
    <2>4. ASSUME NEW k \in 1..Len(openUpvalues')
          PROVE  \E j \in 1..Len(openUpvalues) :
                    upvalues'[openUpvalues'[k]].location = Location(j) /\ Location(j) # slot
        <3> DEFINE j == k + passed
        <3> HIDE DEF passed
        <3>1. j \in 1..Len(openUpvalues) /\ upvalues'[openUpvalues'[k]] = upvalues[openUpvalues[j]]
            BY <2>2
        <3>2. Location(j) < slot
            BY <2>2
        <3> HIDE DEF j
        <3>3. Location(j) \in Int
            BY <3>1, LocationType
        <3>4. Location(j) # slot
            BY <1>2, <3>2, <3>3
        <3>5. upvalues'[openUpvalues'[k]].location = Location(j)
            BY <3>1 DEF Location
        <3> QED BY <3>1, <3>4, <3>5
    <2>5. UNCHANGED <<closures, linking>>
        BY <2>1 DEF CloseUpvalues
    <2> QED BY <2>2, <2>3, <2>4, <2>5 DEF slot
<1>4. CASE slot \notin Frame.captured
    <2>1. UNCHANGED heap
        BY <1>4 DEF EndLocal
    <2>2. ASSUME NEW k \in 1..Len(openUpvalues) PROVE Location(k) # slot
        <3>1. PICK f \in 1..Len(frames) :
                /\ Location(k) \in frames[f].captured
                /\ Location(k) \in frames[f].slots..frames[f].slots + frames[f].locals - 1
            BY DEF OpenIsCaptured, Location
        <3>2. CASE f = Len(frames)
            BY <1>4, <3>1, <3>2 DEF Frame
        <3>3. CASE f # Len(frames)
            <4>1. f < Len(frames) /\ Len(frames) \in 1..Len(frames)
                BY <1>1, <3>3, RunningFrame
            <4>2. frames[f].slots + frames[f].locals <= Frame.slots
                BY <4>1 DEF FramesNested, Frame
            <4>3. frames[f].slots \in Nat /\ frames[f].locals \in Nat
                BY Lengths DEF Frames, Slot
            <4>5. Frame.slots <= slot /\ Location(k) \in Int /\ Frame.slots \in Nat
                <5>1. Location(k) \in Int
                    BY LocationType
                <5>2. Frame.slots \in Nat /\ Frame.locals \in Nat \ {0}
                    BY <1>1, RunningFrame
                <5>3. Frame.slots <= slot
                    BY <1>2, <5>2
                <5> QED BY <5>1, <5>2, <5>3
            <4>4. Location(k) < Frame.slots
                <5>1. Location(k) <= frames[f].slots + frames[f].locals - 1
                    BY <3>1, <4>3
                <5> QED BY <4>2, <4>3, <4>5, <5>1
            <4> HIDE DEF slot
            <4> QED BY <1>2, <4>4, <4>5
        <3> QED BY <3>2, <3>3
    <2> QED BY <1>1, <2>1, <2>2 DEF heap, OpenSorted, NoDangling, TypeOK, Location
<1> QED BY <1>3, <1>4

LEMMA EndLocalKeepsInv ==
    ASSUME Inv, EndLocal
    PROVE  Inv'
<1> USE DEF Inv
<1> DEFINE slot == stackTop - 1
           h == [Frame EXCEPT !.locals = Frame.locals - 1]
           g == [h EXCEPT !.captured = Frame.captured \ {slot}]
<1>1. /\ frames # <<>> /\ linking = <<>> /\ Temporaries = 0
      /\ Frame.locals > Frame.params
      /\ UNCHANGED <<stack, globals, errors>> /\ stackTop' = slot
    BY DEF EndLocal, Running
<1>2. /\ Frame \in Frames /\ Frame.params \in Nat \ {0} /\ Frame.locals \in Nat
      /\ Frame.locals - 1 \in Nat \ {0}
      /\ Frame.captured \in SUBSET Slot
    <2>1. Frame \in Frames
        BY <1>1, RunningFrame
    <2>2. /\ Frame.params \in Nat \ {0} /\ Frame.locals \in Nat
          /\ Frame.captured \in SUBSET Slot
        BY <2>1 DEF Frames
    <2> QED BY <1>1, <2>1, <2>2
<1>3. frames' = WithFrame(g)
    <2>1. g = [Frame EXCEPT !.locals = @ - 1, !.captured = @ \ {slot}]
        BY <1>2 DEF Frames
    <2> QED BY <2>1 DEF EndLocal
<1>4. h \in Frames /\ h.slots = Frame.slots /\ h.params = Frame.params /\ h.locals = Frame.locals - 1
    BY <1>2, LocalsChanged
<1>5. /\ g \in Frames /\ g.slots = Frame.slots /\ g.params = Frame.params
      /\ g.locals = Frame.locals - 1 /\ g.captured = Frame.captured \ {slot}
    <2>1. Frame.captured \ {slot} \in SUBSET Slot
        BY <1>2
    <2> DEFINE kept == Frame.captured \ {slot}
    <2>2. g = [h EXCEPT !.captured = kept] /\ kept \in SUBSET Slot
        BY <2>1
    <2> HIDE DEF h, g, kept
    <2>3. /\ g \in Frames /\ g.slots = h.slots /\ g.params = h.params
          /\ g.locals = h.locals /\ g.captured = kept
        BY <1>4, <2>2, CapturedChanged
    <2> QED BY <1>4, <2>3 DEF kept
<1> HIDE DEF g, h
<1>6. slot = Frame.slots + Frame.locals - 1 /\ slot \in 0..STACK_MAX /\ Frame.slots \in Nat
    <2>1. /\ Frame.slots \in Nat /\ Frame.locals \in Nat \ {0}
          /\ stackTop \in Nat /\ STACK_MAX \in Nat /\ stackTop <= STACK_MAX
        BY <1>1, RunningFrame
    <2>2. stackTop - (Frame.slots + Frame.locals) = 0
        BY <1>1 DEF Temporaries, LocalsEnd
    <2> QED BY <2>1, <2>2
<1> HIDE DEF slot
<1>7. /\ frames' \in Seq(Frames) /\ Len(frames') = Len(frames) /\ frames' # <<>>
      /\ frames'[Len(frames)] = g /\ Frame' = g
      /\ \A f \in 1..Len(frames) - 1 : frames'[f] = frames[f]
    BY <1>1, <1>3, <1>5, WithFrameProperties
<1>8. /\ Len(frames) \in Nat \ {0}
      /\ \A f \in 1..Len(frames) : frames[f].slots \in Nat /\ frames[f].locals \in Nat
    <2>1. \A f \in 1..Len(frames) : frames[f] \in Frames
        BY Lengths
    <2>2. \A f \in 1..Len(frames) : frames[f].slots \in Nat /\ frames[f].locals \in Nat
        BY <2>1 DEF Frames, Slot
    <2> QED BY <1>1, <2>2, RunningFrame
<1>9. \A f \in 1..Len(frames) :
        /\ frames'[f].slots = frames[f].slots /\ frames'[f].params = frames[f].params
        /\ frames'[f].locals <= frames[f].locals /\ frames'[f].locals \in Nat
    <2> SUFFICES ASSUME NEW f \in 1..Len(frames)
                 PROVE  /\ frames'[f].slots = frames[f].slots /\ frames'[f].params = frames[f].params
                        /\ frames'[f].locals <= frames[f].locals /\ frames'[f].locals \in Nat
        OBVIOUS
    <2>1. CASE f = Len(frames)
        <3>1. frames[f] = Frame /\ frames'[f] = g
            BY <1>7, <2>1 DEF Frame
        <3> QED BY <1>2, <1>5, <3>1
    <2>2. CASE f # Len(frames)
        <3>1. frames'[f] = frames[f]
            BY <1>7, <1>8, <2>2
        <3> QED BY <1>8, <3>1
    <2> QED BY <2>1, <2>2
<1>10. TypeOK'
    <2>1. stackTop' \in 0..STACK_MAX
        BY <1>1, <1>6
    <2> QED BY <1>1, <1>7, <2>1, EndLocalFrees, TypesKept DEF TypeOK
<1>11. FramesNested'
    <2>1. Frame'.slots + Frame'.locals <= stackTop'
        BY <1>1, <1>2, <1>5, <1>6, <1>7
    <2>2. ASSUME NEW e \in 1..Len(frames), NEW f \in 1..Len(frames), e < f
          PROVE  frames'[e].slots + frames'[e].locals <= frames'[f].slots
        <3>1. frames[e].slots + frames[e].locals <= frames[f].slots
            BY <2>2 DEF FramesNested
        <3> QED BY <1>8, <1>9, <3>1
    <2> QED BY <1>7, <2>1, <2>2 DEF FramesNested, LocalsEnd
<1>12. ScriptFrame'
    BY <1>7, <1>8, <1>9, <1>1 DEF ScriptFrame
<1>13. OpenIsCaptured'
    <2> SUFFICES ASSUME NEW k \in 1..Len(openUpvalues')
                 PROVE  \E f \in 1..Len(frames') :
                    LET location == upvalues'[openUpvalues'[k]].location IN
                    /\ location \in frames'[f].captured
                    /\ location \in frames'[f].slots..frames'[f].slots + frames'[f].locals - 1
        BY DEF OpenIsCaptured
    <2>1. PICK j \in 1..Len(openUpvalues) :
            upvalues'[openUpvalues'[k]].location = Location(j) /\ Location(j) # slot
        BY EndLocalFrees DEF slot
    <2>2. PICK f \in 1..Len(frames) :
            /\ Location(j) \in frames[f].captured
            /\ Location(j) \in frames[f].slots..frames[f].slots + frames[f].locals - 1
        BY DEF OpenIsCaptured, Location
    <2>3. CASE f = Len(frames)
        <3>1. frames[f] = Frame /\ frames'[f] = g
            BY <1>7, <2>3 DEF Frame
        <3>2. Location(j) \in g.captured
            BY <1>5, <2>1, <2>2, <3>1
        <3>3. Location(j) \in g.slots..g.slots + g.locals - 1
            <4>1. /\ Location(j) \in Int /\ g.slots = Frame.slots /\ g.locals = Frame.locals - 1
                  /\ Frame.slots <= Location(j)
                  /\ Location(j) <= Frame.slots + Frame.locals - 1
                  /\ Location(j) # Frame.slots + Frame.locals - 1
                BY <1>2, <1>5, <1>6, <2>1, <2>2, <3>1, LocationType
            <4>2. Frame.slots \in Int /\ Frame.locals \in Int
                BY <1>2, <1>6
            <4> HIDE DEF g
            <4> QED BY <4>1, <4>2
        <3> QED BY <1>7, <2>1, <3>1, <3>2, <3>3
    <2>4. CASE f # Len(frames)
        <3>1. frames'[f] = frames[f]
            BY <1>7, <1>8, <2>4
        <3> QED BY <1>7, <2>1, <2>2, <3>1
    <2> QED BY <2>3, <2>4
<1> QED BY <1>1, <1>10, <1>11, <1>12, <1>13, EndLocalFrees DEF LinksExist

-----------------------------------------------------------------------------
(* Calls and returns.                                                      *)

(* Open upvalues below a frame belong to the frames below it.              *)
LEMMA OpenBelow ==
    ASSUME Inv, frames # <<>>, NEW k \in 1..Len(openUpvalues), Location(k) < Frame.slots
    PROVE  \E f \in 1..Len(frames) - 1 :
                /\ Location(k) \in frames[f].captured
                /\ Location(k) \in frames[f].slots..frames[f].slots + frames[f].locals - 1
<1>1. PICK f \in 1..Len(frames) :
        /\ Location(k) \in frames[f].captured
        /\ Location(k) \in frames[f].slots..frames[f].slots + frames[f].locals - 1
    BY DEF Inv, OpenIsCaptured, Location
<1>2. Location(k) \in Int /\ Frame.slots \in Nat /\ Len(frames) \in Nat \ {0}
    BY RunningFrame, LocationType DEF Inv
<1>3. f # Len(frames)
    <2> SUFFICES ASSUME f = Len(frames) PROVE FALSE
        OBVIOUS
    <2>1. frames[f] = Frame
        BY DEF Frame
    <2>2. Frame.slots <= Location(k)
        BY <1>1, <1>2, <2>1, RunningFrame
    <2> QED BY <1>2, <2>2
<1>4. f \in 1..Len(frames) - 1
    BY <1>2, <1>3
<1> QED BY <1>1, <1>4

(* A return closes what the frame's own locals were captured by.           *)
LEMMA ReturnCloses ==
    ASSUME Inv, frames # <<>>, CloseUpvalues(Frame.slots), errors' = errors
    PROVE  /\ upvalues' \in Seq(Upvalues) /\ Len(upvalues') = Len(upvalues)
           /\ openUpvalues' \in Seq(1..Len(upvalues))
           /\ OpenSorted' /\ NoDangling' /\ UNCHANGED <<closures, linking>>
           /\ \A k \in 1..Len(openUpvalues') : \E f \in 1..Len(frames) - 1 :
                LET location == upvalues'[openUpvalues'[k]].location IN
                /\ location \in frames[f].captured
                /\ location \in frames[f].slots..frames[f].slots + frames[f].locals - 1
<1> DEFINE last == Frame.slots
           passed == Passed(last - 1)
<1>1. last \in Int
    BY RunningFrame
<1> HIDE DEF last
<1>2. CloseUpvalues(last)
    BY DEF last
<1>3. /\ upvalues' \in Seq(Upvalues) /\ Len(upvalues') = Len(upvalues)
      /\ openUpvalues' \in Seq(1..Len(upvalues))
      /\ \A k \in 1..Len(openUpvalues') :
            /\ k + passed \in 1..Len(openUpvalues)
            /\ upvalues'[openUpvalues'[k]] = upvalues[openUpvalues[k + passed]]
            /\ Location(k + passed) < last
    BY <1>1, <1>2, OpenAreSlots, CloseSplits DEF Inv
<1>4. OpenSorted' /\ NoDangling'
    BY <1>1, <1>2, OpenAreSlots, CloseKeepsOrder, CloseLosesNone DEF Inv
<1>5. UNCHANGED <<closures, linking>>
    BY <1>2 DEF CloseUpvalues
<1> HIDE DEF passed
<1>6. ASSUME NEW k \in 1..Len(openUpvalues')
      PROVE  \E f \in 1..Len(frames) - 1 :
                LET location == upvalues'[openUpvalues'[k]].location IN
                /\ location \in frames[f].captured
                /\ location \in frames[f].slots..frames[f].slots + frames[f].locals - 1
    <2> DEFINE j == k + passed
    <2>1. /\ j \in 1..Len(openUpvalues) /\ Location(j) < Frame.slots
          /\ upvalues'[openUpvalues'[k]] = upvalues[openUpvalues[j]]
        BY <1>3 DEF last
    <2> HIDE DEF j
    <2>2. upvalues'[openUpvalues'[k]].location = Location(j)
        BY <2>1 DEF Location
    <2> QED BY <2>1, <2>2, OpenBelow
<1> QED BY <1>3, <1>4, <1>5, <1>6

LEMMA ReturnKeepsInv ==
    ASSUME Inv, Return
    PROVE  Inv'
<1> USE DEF Inv
<1>1. /\ frames # <<>> /\ linking = <<>> /\ Temporaries = 1 /\ Len(frames) > 1
      /\ CloseUpvalues(Frame.slots) /\ UNCHANGED <<globals, errors>>
      /\ stack' = [stack EXCEPT ![Frame.slots] = Top]
      /\ stackTop' = Frame.slots + 1
    BY DEF Return, Running
<1>2. /\ Frame.slots \in Slot /\ Top \in Values /\ stackTop' \in 0..STACK_MAX
      /\ Frame.slots \in Nat
    <2>1. Top \in Values
        BY <1>1, SlotTypes
    <2>2. /\ Frame.slots \in Nat /\ Frame.locals \in Nat \ {0} /\ stackTop \in Nat
          /\ STACK_MAX \in Nat /\ Frame.slots + Frame.locals <= stackTop /\ stackTop <= STACK_MAX
        BY <1>1, RunningFrame
    <2> QED BY <1>1, <2>1, <2>2 DEF Slot
<1>3. /\ frames' \in Seq(Frames) /\ Len(frames') = Len(frames) - 1
      /\ \A f \in 1..Len(frames') : f \in 1..Len(frames) /\ frames'[f] = frames[f]
    <2>1. frames' = SubSeq(frames, 1, Len(frames) - 1)
        BY DEF Return, Front
    <2>2. Len(frames) \in Nat /\ Len(frames) - 1 \in Nat /\ frames \in Seq(Frames)
        BY <1>1, RunningFrame DEF TypeOK
    <2>3. \A f \in 1..Len(frames) - 1 : f \in 1..Len(frames) /\ frames[f] \in Frames
        BY <2>2, ElementOfSeq
    <2>4. /\ frames' \in Seq(Frames)
          /\ Len(frames') = IF 1 <= Len(frames) - 1 THEN (Len(frames) - 1) - 1 + 1 ELSE 0
          /\ \A f \in 1..(Len(frames) - 1) - 1 + 1 : frames'[f] = frames[1 + f - 1]
        BY <2>1, <2>2, <2>3, SubSeqProperties
    <2>5. Len(frames') = Len(frames) - 1
        BY <1>1, <2>2, <2>4
    <2>6. ASSUME NEW f \in 1..Len(frames') PROVE f \in 1..Len(frames) /\ frames'[f] = frames[f]
        <3>1. f \in 1..Len(frames) - 1 /\ 1 + f - 1 = f
            BY <2>5
        <3>2. f \in 1..(Len(frames) - 1) - 1 + 1
            BY <2>2, <3>1
        <3> QED BY <2>3, <2>4, <3>1, <3>2
    <2> QED BY <2>4, <2>5, <2>6
<1>4. Len(frames) - 1 \in 1..Len(frames) - 1 /\ Len(frames) \in Nat
    BY <1>1, RunningFrame
<1>5. TypeOK'
    <2>1. stack' \in [Slot -> Values]
        BY <1>1, <1>2 DEF TypeOK
    <2> QED BY <1>1, <1>2, <1>3, <2>1, ReturnCloses, TypesKept DEF TypeOK
<1>6. FramesNested'
    <2>1. Frame' = frames[Len(frames) - 1] /\ frames' # <<>>
        BY <1>3, <1>4 DEF Frame
    <2>2. frames[Len(frames) - 1].slots + frames[Len(frames) - 1].locals <= Frame.slots
        BY <1>4 DEF FramesNested, Frame
    <2>3. LocalsEnd' <= stackTop'
        <3>1. frames[Len(frames) - 1] \in Frames
            BY <1>4, Lengths
        <3>2. /\ frames[Len(frames) - 1].slots \in Nat /\ frames[Len(frames) - 1].locals \in Nat
            BY <3>1 DEF Frames, Slot
        <3> QED BY <1>1, <1>2, <2>1, <2>2, <3>2 DEF LocalsEnd
    <2> QED BY <1>3, <2>1, <2>3 DEF FramesNested
<1>7. ScriptFrame'
    BY <1>3, <1>4 DEF ScriptFrame
<1>8. OpenIsCaptured'
    BY <1>1, <1>3, ReturnCloses DEF OpenIsCaptured
<1> QED BY <1>1, <1>5, <1>6, <1>7, <1>8, ReturnCloses DEF LinksExist

LEMMA EndLineKeepsInv ==
    ASSUME Inv, EndLine
    PROVE  Inv'
<1> USE DEF Inv
<1>1. /\ frames # <<>> /\ linking = <<>> /\ Temporaries = 1 /\ Len(frames) = 1
      /\ Frame.locals = Frame.params
      /\ CloseUpvalues(Frame.slots) /\ UNCHANGED <<stack, globals, errors>>
      /\ frames' = <<>> /\ stackTop' = stackTop - 2
    BY DEF EndLine, Running
<1>2. stackTop' = 0
    <2>1. Frame.slots = 0 /\ Frame.locals = 1
        BY <1>1 DEF ScriptFrame, Frame
    <2> QED BY <1>1, <2>1, RunningFrame DEF Temporaries, LocalsEnd
<1>3. openUpvalues' = <<>>
    <2>1. openUpvalues' \in Seq(1..Len(upvalues))
        BY <1>1, ReturnCloses
    <2>2. 1..Len(frames) - 1 = {}
        BY <1>1
    <2>3. \A k \in 1..Len(openUpvalues') : FALSE
        BY <1>1, <2>2, ReturnCloses
    <2>4. openUpvalues' # <<>> => Len(openUpvalues') \in Nat \ {0}
        BY <2>1, EmptySeq
    <2> QED BY <2>3, <2>4
<1>4. TypeOK'
    <2>1. frames' \in Seq(Frames) /\ stackTop' \in 0..STACK_MAX
        BY <1>1, <1>2
    <2> QED BY <1>1, <2>1, ReturnCloses, TypesKept DEF TypeOK
<1>5. FramesNested' /\ ScriptFrame' /\ OpenIsCaptured'
    <2>1. Len(frames') = 0 /\ Len(openUpvalues') = 0
        BY <1>1, <1>3
    <2>2. FramesNested'
        <3>1. \A f, g \in 1..Len(frames') : FALSE
            BY <2>1
        <3> QED BY <1>1, <1>2, <3>1 DEF FramesNested
    <2>3. ScriptFrame'
        BY <1>1 DEF ScriptFrame
    <2>4. OpenIsCaptured'
        BY <2>1 DEF OpenIsCaptured
    <2> QED BY <2>2, <2>3, <2>4
<1> QED BY <1>1, <1>4, <1>5, ReturnCloses DEF LinksExist

LEMMA NewFrameType ==
    ASSUME NEW c, NEW slots \in Slot, NEW n \in Nat, NEW m \in Nat, c \in 1..m
    PROVE  NewFrame(c, slots, n) \in
                [closure : 1..m, slots : Slot, params : Nat \ {0}, locals : Nat \ {0},
                 captured : SUBSET Slot]
    BY DEF NewFrame

LEMMA CallKeepsInv ==
    ASSUME Inv, Call
    PROVE  Inv'
<1> USE DEF Inv
<1> DEFINE slots(n) == stackTop - n - 1
<1>1. PICK n \in 0..Temporaries - 1 :
        IF stack[slots(n)] \in Data \/ closures[stack[slots(n)]].arity # n
            \/ Len(frames) = FRAMES_MAX
        THEN RuntimeError
        ELSE /\ frames' = Append(frames, NewFrame(stack[slots(n)], slots(n), n))
             /\ UNCHANGED <<stack, stackTop, heap, globals, errors>>
    BY DEF Call
<1>2. frames # <<>> /\ linking = <<>>
    BY DEF Call, Running
<1> DEFINE base == slots(n)
           callee == stack[base]
<1>3. CASE callee \in Data \/ closures[callee].arity # n \/ Len(frames) = FRAMES_MAX
    BY <1>1, <1>2, <1>3, RuntimeErrorKeepsInv
<1>4. CASE ~(callee \in Data \/ closures[callee].arity # n \/ Len(frames) = FRAMES_MAX)
    <2>1. /\ frames' = Append(frames, NewFrame(callee, base, n))
          /\ UNCHANGED <<stack, stackTop, closures, upvalues, openUpvalues, linking, globals, errors>>
        BY <1>1, <1>4 DEF heap
    <2>2. /\ n \in Nat /\ base \in Slot /\ base \in Nat
          /\ LocalsEnd <= base /\ base + (n + 1) = stackTop
        <3>1. /\ Frame.slots \in Nat /\ Frame.locals \in Nat
              /\ stackTop \in Nat /\ STACK_MAX \in Nat /\ stackTop <= STACK_MAX
            BY <1>2, RunningFrame
        <3> QED BY <3>1 DEF Temporaries, LocalsEnd, Slot
    <2> HIDE DEF base
    <2>3. callee \in 1..Len(closures)
        BY <1>4, <2>2 DEF TypeOK, Values
    <2> HIDE DEF callee
    <2> DEFINE new == NewFrame(callee, base, n)
    <2>4. new \in Frames /\ new.slots = base /\ new.locals = n + 1
        <3>1. new \in Frames
            BY <2>2, <2>3, Lengths, NewFrameType DEF Frames
        <3> QED BY <3>1 DEF NewFrame
    <2>5. frames' = Append(frames, new)
        BY <2>1
    <2> HIDE DEF new
    <2>6. /\ frames' \in Seq(Frames) /\ Len(frames') = Len(frames) + 1 /\ frames' # <<>>
          /\ \A f \in 1..Len(frames) : frames'[f] = frames[f]
          /\ frames'[Len(frames) + 1] = new /\ Frame' = new
        <3>1. /\ frames' \in Seq(Frames) /\ Len(frames') = Len(frames) + 1 /\ frames' # <<>>
              /\ \A f \in 1..Len(frames) : frames'[f] = frames[f]
              /\ frames'[Len(frames) + 1] = new
            <4>1. frames \in Seq(Frames)
                BY DEF TypeOK
            <4> QED BY <2>4, <2>5, <4>1, AppendProperties
        <3>2. Frame' = frames'[Len(frames')]
            BY DEF Frame
        <3> QED BY <3>1, <3>2
    <2>7. Len(frames) \in Nat \ {0}
        BY <1>2, RunningFrame
    <2>8. TypeOK'
        BY <2>1, <2>6, TypesKept DEF TypeOK
    <2>9. FramesNested'
        <3>1. LocalsEnd' <= stackTop'
            BY <2>1, <2>2, <2>4, <2>6 DEF LocalsEnd
        <3>2. ASSUME NEW f \in 1..Len(frames) PROVE frames[f].slots + frames[f].locals <= base
            <4>1. CASE f = Len(frames)
                BY <2>2, <4>1 DEF LocalsEnd, Frame
            <4>2. CASE f # Len(frames)
                <5>1. f < Len(frames) /\ Len(frames) \in 1..Len(frames)
                    BY <2>7, <4>2
                <5>2. frames[f].slots + frames[f].locals <= Frame.slots
                    BY <5>1 DEF FramesNested, Frame
                <5>3. Frame.slots <= base /\ Frame.slots \in Nat
                    BY <1>2, <2>2, RunningFrame DEF LocalsEnd
                <5>4. frames[f] \in Frames
                    BY Lengths
                <5>5. frames[f].slots \in Nat /\ frames[f].locals \in Nat
                    BY <5>4 DEF Frames, Slot
                <5> QED BY <2>2, <5>2, <5>3, <5>5
            <4> QED BY <4>1, <4>2
        <3>3. ASSUME NEW e \in 1..Len(frames'), NEW f \in 1..Len(frames'), e < f
              PROVE  frames'[e].slots + frames'[e].locals <= frames'[f].slots
            <4>1. e \in 1..Len(frames) /\ frames'[e] = frames[e]
                BY <2>6, <2>7, <3>3
            <4>2. CASE f = Len(frames) + 1
                BY <2>4, <2>6, <3>2, <4>1, <4>2
            <4>3. CASE f # Len(frames) + 1
                <5>1. f \in 1..Len(frames) /\ frames'[f] = frames[f]
                    BY <2>6, <2>7, <4>3
                <5> QED BY <3>3, <4>1, <5>1 DEF FramesNested
            <4> QED BY <4>2, <4>3
        <3> QED BY <2>6, <3>1, <3>3 DEF FramesNested
    <2>10. ScriptFrame'
        BY <1>2, <2>6, <2>7 DEF ScriptFrame
    <2>11. OpenIsCaptured'
        <3>1. \A f \in 1..Len(frames) : f \in 1..Len(frames') /\ frames'[f] = frames[f]
            BY <2>6, <2>7
        <3> QED BY <2>1, <3>1 DEF OpenIsCaptured
    <2> QED BY <1>2, <2>1, <2>8, <2>9, <2>10, <2>11 DEF LinksExist, OpenSorted, NoDangling
<1> QED BY <1>3, <1>4

LEMMA StartLineKeepsInv ==
    ASSUME Inv, StartLine
    PROVE  Inv'
<1> USE DEF Inv
<1> DEFINE c == Len(closures) + 1
           line == [arity |-> 0, upvalues |-> <<>>]
<1>1. /\ frames = <<>> /\ stackTop = 0 /\ stackTop < STACK_MAX
      /\ closures' = Append(closures, line)
      /\ stack' = [stack EXCEPT ![0] = c]
      /\ stackTop' = 1
      /\ frames' = <<NewFrame(c, 0, 0)>>
      /\ UNCHANGED <<upvalues, openUpvalues, linking, globals, errors>>
    BY DEF StartLine, Room, Pushed, FramesNested
<1>2. linking = <<>>
    BY <1>1 DEF LinksExist
<1>3. closures' \in Seq(Closure') /\ Len(closures') = c
    <2>1. line \in Closure
        BY DEF Closure
    <2>2. closures \in Seq(Closure)
        BY DEF TypeOK
    <2> HIDE DEF line
    <2>3. closures' \in Seq(Closure) /\ Len(closures') = Len(closures) + 1
        BY <1>1, <2>1, <2>2, AppendProperties
    <2> QED BY <1>1, <2>3 DEF Closure
<1>4. Values \subseteq Values' /\ c \in Values' /\ Upvalues \subseteq Upvalues'
    BY <1>3, Lengths DEF Values, Upvalues
<1>5. 0 \in Slot
    BY <1>1 DEF Slot, TypeOK
<1>6. NewFrame(c, 0, 0) \in Frames'
    <2>1. c \in 1..Len(closures') /\ Len(closures') \in Nat
        BY <1>3, Lengths
    <2> QED BY <1>5, <2>1, NewFrameType DEF Frames
<1>7. TypeOK'
    <2>1. stack' \in [Slot -> Values']
        BY <1>1, <1>4, <1>5 DEF TypeOK
    <2>2. upvalues' \in Seq(Upvalues')
        BY <1>1, <1>4, SeqMonotonic DEF TypeOK
    <2>3. globals' \in [DOMAIN globals' -> Values'] /\ DOMAIN globals' \subseteq Globals
        BY <1>1, <1>4 DEF TypeOK
    <2>4. frames' \in Seq(Frames')
        BY <1>1, <1>6
    <2>5. stackTop' \in 0..STACK_MAX
        BY <1>1
    <2> QED BY <1>1, <1>3, <2>1, <2>2, <2>3, <2>4, <2>5 DEF TypeOK
<1>8. /\ Len(frames') = 1 /\ frames' # <<>>
      /\ frames'[1].slots = 0 /\ frames'[1].params = 1 /\ frames'[1].locals = 1
    BY <1>1 DEF NewFrame
<1>9. FramesNested' /\ ScriptFrame'
    <2>1. LocalsEnd' = 1
        BY <1>8 DEF LocalsEnd, Frame
    <2>2. \A f, g \in 1..Len(frames') : ~(f < g)
        BY <1>8
    <2> QED BY <1>1, <1>8, <2>1, <2>2 DEF FramesNested, ScriptFrame
<1>10. Len(openUpvalues') = 0
    <2>1. \A k \in 1..Len(openUpvalues) : FALSE
        BY <1>1 DEF OpenIsCaptured
    <2> QED BY <1>1, <2>1, Lengths
<1> QED BY <1>1, <1>2, <1>7, <1>9, <1>10
        DEF LinksExist, OpenSorted, OpenIsCaptured, NoDangling

-----------------------------------------------------------------------------
(* Closures.                                                               *)

LEMMA LinksType ==
    ASSUME NEW locals \in Nat, NEW links \in Links(locals), Captures \in Seq(1..Len(upvalues))
    PROVE  /\ links \in Seq([isLocal : BOOLEAN, index : Nat])
           /\ \A k \in 1..Len(links) :
                links[k].index < IF links[k].isLocal THEN locals ELSE Len(Captures)
<1> DEFINE lowest == IF Len(frames) = 1 THEN 1 ELSE 0
           pairs == [isLocal : {TRUE}, index : lowest..locals - 1] \cup
                        [isLocal : {FALSE}, index : 0..Len(Captures) - 1]
<1>1. PICK n \in 0..MaxLinks : links \in [1..n -> pairs]
    BY DEF Links
<1>2. links \in Seq(pairs) /\ Len(links) = n
    <2> HIDE DEF pairs
    <2> QED BY <1>1
<1>3. Len(Captures) \in Nat /\ lowest \in Nat
    OBVIOUS
<1>4. \A pair \in pairs :
        /\ pair \in [isLocal : BOOLEAN, index : Nat]
        /\ pair.index < IF pair.isLocal THEN locals ELSE Len(Captures)
    <2> HIDE DEF lowest
    <2>1. ASSUME NEW pair \in [isLocal : {TRUE}, index : lowest..locals - 1]
          PROVE  pair.isLocal = TRUE /\ pair.index \in Nat /\ pair.index < locals
                 /\ pair \in [isLocal : BOOLEAN, index : Nat]
        <3>1. pair.isLocal = TRUE /\ pair.index \in lowest..locals - 1
            OBVIOUS
        <3>2. pair.index \in Nat /\ pair.index < locals
            BY <1>3, <3>1
        <3>3. pair = [isLocal |-> TRUE, index |-> pair.index]
            OBVIOUS
        <3> QED BY <3>1, <3>2, <3>3
    <2>2. ASSUME NEW pair \in [isLocal : {FALSE}, index : 0..Len(Captures) - 1]
          PROVE  pair.isLocal = FALSE /\ pair.index \in Nat /\ pair.index < Len(Captures)
                 /\ pair \in [isLocal : BOOLEAN, index : Nat]
        <3>1. pair.isLocal = FALSE /\ pair.index \in 0..Len(Captures) - 1
            OBVIOUS
        <3>2. pair.index \in Nat /\ pair.index < Len(Captures)
            BY <1>3, <3>1
        <3>3. pair = [isLocal |-> FALSE, index |-> pair.index]
            OBVIOUS
        <3> QED BY <3>1, <3>2, <3>3
    <2> QED BY <2>1, <2>2
<1>5. links \in Seq([isLocal : BOOLEAN, index : Nat])
    <2> HIDE DEF pairs
    <2> QED BY <1>2, <1>4, SeqMonotonic
<1>6. \A k \in 1..Len(links) : links[k] \in pairs
    <2> HIDE DEF pairs
    <2> QED BY <1>2, ElementOfSeq
<1> QED BY <1>4, <1>5, <1>6

LEMMA MakeClosureKeepsInv ==
    ASSUME Inv, MakeClosure
    PROVE  Inv'
<1> USE DEF Inv
<1> DEFINE c == Len(closures) + 1
<1>1. /\ frames # <<>> /\ linking = <<>> /\ stackTop < STACK_MAX
      /\ stack' = [stack EXCEPT ![stackTop] = c]
      /\ stackTop' = stackTop + 1
      /\ linking' \in Links(frames'[Len(frames)].locals)
      /\ UNCHANGED <<upvalues, openUpvalues, globals, errors>>
    BY DEF MakeClosure, Running, Room, Pushed
<1>2. PICK arity \in 0..MaxArity :
        closures' = Append(closures, [arity |-> arity, upvalues |-> <<>>])
    BY DEF MakeClosure
<1>3. /\ closures' \in Seq(Closure') /\ Len(closures') = c
      /\ \A i \in 1..Len(closures) : closures'[i] = closures[i]
    <2> DEFINE closure == [arity |-> arity, upvalues |-> <<>>]
    <2>1. closure \in Closure
        BY DEF Closure
    <2>2. closures \in Seq(Closure)
        BY DEF TypeOK
    <2> HIDE DEF closure
    <2>3. /\ closures' \in Seq(Closure) /\ Len(closures') = Len(closures) + 1
          /\ \A i \in 1..Len(closures) : closures'[i] = closures[i]
        BY <1>2, <2>1, <2>2, AppendProperties DEF closure
    <2> QED BY <1>1, <2>3 DEF Closure
<1>4. /\ Values \subseteq Values' /\ c \in Values' /\ Upvalues \subseteq Upvalues'
      /\ Frames \subseteq Frames'
    BY <1>3, Lengths DEF Values, Upvalues, Frames
<1>5. stackTop \in Slot /\ stackTop' \in 0..STACK_MAX
    BY <1>1 DEF TypeOK, Slot
<1>6. /\ frames' \in Seq(Frames) /\ FramesNested' /\ ScriptFrame' /\ OpenIsCaptured'
      /\ frames' # <<>> /\ Len(frames') = Len(frames) /\ Frame'.locals \in Nat
      /\ Frame'.closure = Frame.closure
    <2>1. CASE UNCHANGED frames
        <3>1. frames' \in Seq(Frames) /\ Frame' = Frame
            BY <2>1 DEF TypeOK, Frame
        <3>2. FramesNested'
            BY <1>1, <2>1, <3>1, RunningFrame DEF FramesNested, LocalsEnd
        <3> QED BY <1>1, <2>1, <3>1, <3>2, RunningFrame DEF ScriptFrame, OpenIsCaptured
    <2>2. CASE /\ Temporaries = 0
               /\ frames' = WithFrame([Frame EXCEPT !.locals = @ + 1])
        <3> DEFINE g == [Frame EXCEPT !.locals = Frame.locals + 1]
        <3>1. Frame \in Frames /\ Frame.locals + 1 \in Nat \ {0}
            BY <1>1, RunningFrame
        <3>2. /\ g \in Frames /\ g.slots = Frame.slots /\ g.params = Frame.params
              /\ g.captured = Frame.captured /\ g.locals = Frame.locals + 1
              /\ g.closure = Frame.closure
            BY <3>1, LocalsChanged
        <3>3. frames' = WithFrame(g)
            BY <2>2
        <3> HIDE DEF g
        <3>4. Frame.locals <= g.locals /\ g.slots + g.locals <= stackTop'
            <4>1. Frame.slots \in Nat /\ Frame.locals \in Nat /\ stackTop \in Nat
                BY <1>1, RunningFrame
            <4>2. stackTop = Frame.slots + Frame.locals
                BY <2>2, <4>1 DEF Temporaries, LocalsEnd
            <4> QED BY <1>1, <3>2, <4>1, <4>2
        <3>5. frames' \in Seq(Frames) /\ FramesNested' /\ ScriptFrame' /\ OpenIsCaptured'
            BY <1>1, <3>2, <3>3, <3>4, WiderFrame
        <3>6. Frame' = g /\ frames' # <<>> /\ Len(frames') = Len(frames)
            BY <1>1, <3>2, <3>3, WithFrameProperties
        <3> QED BY <3>1, <3>2, <3>5, <3>6
    <2> QED BY <2>1, <2>2 DEF MakeClosure
<1>7. /\ linking' \in Seq([isLocal : BOOLEAN, index : Nat])
      /\ \A k \in 1..Len(linking') :
            linking'[k].index < IF linking'[k].isLocal THEN Frame'.locals ELSE Len(Captures)
    <2>1. linking' \in Links(Frame'.locals)
        BY <1>1, <1>6 DEF Frame
    <2>2. Captures \in Seq(1..Len(upvalues))
        BY <1>1, RunningFrame
    <2> QED BY <1>6, <2>1, <2>2, LinksType
<1>8. Captures' = Captures
    BY <1>1, <1>3, <1>6, RunningFrame DEF Captures
<1>9. TypeOK'
    <2>1. stack' \in [Slot -> Values']
        BY <1>1, <1>4, <1>5 DEF TypeOK
    <2>2. upvalues' \in Seq(Upvalues')
        BY <1>1, <1>4, SeqMonotonic DEF TypeOK
    <2>3. globals' \in [DOMAIN globals' -> Values'] /\ DOMAIN globals' \subseteq Globals
        BY <1>1, <1>4 DEF TypeOK
    <2>4. frames' \in Seq(Frames')
        BY <1>4, <1>6, SeqMonotonic
    <2> QED BY <1>1, <1>3, <1>5, <1>7, <2>1, <2>2, <2>3, <2>4 DEF TypeOK
<1>10. LinksExist'
    BY <1>6, <1>7, <1>8 DEF LinksExist
<1> QED BY <1>1, <1>6, <1>9, <1>10 DEF OpenSorted, NoDangling

(* A sequence with another last element.                                   *)
LEMMA LastChanged ==
    ASSUME NEW T, NEW s \in Seq(T), NEW n, n = Len(s), n # 0, NEW c \in T,
           NEW t, t = [s EXCEPT ![n] = c]
    PROVE  /\ t \in Seq(T) /\ Len(t) = n
           /\ \A i \in 1..n : t[i] = IF i = n THEN c ELSE s[i]
<1>1. n \in Nat /\ n \in 1..Len(s) /\ s \in [1..n -> T]
    BY LenProperties
<1>2. t \in [1..n -> T] /\ \A i \in 1..n : t[i] = IF i = n THEN c ELSE s[i]
    BY <1>1
<1> QED BY <1>1, <1>2

(* The closure in progress gets one more upvalue.                          *)
LEMMA OneMoreUpvalue ==
    ASSUME Inv, frames # <<>>, NEW m \in Nat, Len(upvalues) <= m, NEW x \in 1..m,
           closures' = [closures EXCEPT ![Len(closures)].upvalues = Append(@, x)]
    PROVE  /\ closures' \in Seq([arity : Nat, upvalues : Seq(1..m)])
           /\ Len(closures') = Len(closures)
           /\ Len(closures'[Frame.closure].upvalues) \in Nat
           /\ Len(Captures) <= Len(closures'[Frame.closure].upvalues)
<1> DEFINE T == [arity : Nat, upvalues : Seq(1..m)]
           last == Len(closures)
           c == [closures[last] EXCEPT !.upvalues = Append(closures[last].upvalues, x)]
<1>1. Frame.closure \in 1..last /\ last \in 1..last /\ Captures \in Seq(1..Len(upvalues))
    BY RunningFrame
<1>2. 1..Len(upvalues) \subseteq 1..m
    BY Lengths DEF Inv
<1>3. ASSUME NEW i \in 1..last
      PROVE  closures[i] \in T /\ closures[i].upvalues \in Seq(1..m)
    <2>1. closures[i] \in Closure
        BY Lengths DEF Inv
    <2>2. closures[i].arity \in Nat /\ closures[i].upvalues \in Seq(1..Len(upvalues))
        BY <2>1 DEF Closure
    <2>3. closures[i].upvalues \in Seq(1..m)
        BY <1>2, <2>2, SeqMonotonic
    <2>4. closures[i] = [arity |-> closures[i].arity, upvalues |-> closures[i].upvalues]
        BY <2>1 DEF Closure
    <2> QED BY <2>2, <2>3, <2>4
<1>4. /\ Append(closures[last].upvalues, x) \in Seq(1..m)
      /\ Len(Append(closures[last].upvalues, x)) = Len(closures[last].upvalues) + 1
    BY <1>1, <1>3, AppendProperties
<1>5. c \in T /\ c.upvalues = Append(closures[last].upvalues, x)
    BY <1>1, <1>3, <1>4
<1>6. closures' = [closures EXCEPT ![last] = c]
    OBVIOUS
<1> HIDE DEF c, T
<1>7. closures \in Seq(T)
    <2>1. closures \in [1..last -> T] /\ last \in Nat
        <3>1. closures \in Seq(Closure)
            BY DEF Inv, TypeOK
        <3>2. closures \in [1..last -> Closure] /\ last \in Nat
            BY <3>1, LenProperties
        <3>3. \A i \in 1..last : closures[i] \in T
            BY <1>3
        <3> QED BY <3>2, <3>3
    <2> QED BY <2>1
<1>8. /\ closures' \in Seq(T) /\ Len(closures') = Len(closures)
      /\ \A i \in 1..last : closures'[i] = IF i = last THEN c ELSE closures[i]
    <2>1. last = Len(closures)
        OBVIOUS
    <2>2. last # 0
        BY <1>1
    <2> HIDE DEF last
    <2> DEFINE s == closures
               t == [s EXCEPT ![last] = c]
    <2>3. s \in Seq(T) /\ last = Len(s) /\ c \in T
        BY <1>5, <1>7, <2>1
    <2>4. closures' = t
        BY <1>6
    <2> HIDE DEF s
    <2>5. t = [s EXCEPT ![last] = c]
        OBVIOUS
    <2> HIDE DEF t
    <2>6. /\ t \in Seq(T) /\ Len(t) = last
          /\ \A i \in 1..last : t[i] = IF i = last THEN c ELSE s[i]
        BY <2>2, <2>3, <2>5, LastChanged
    <2> QED BY <2>1, <2>4, <2>6 DEF s
<1>9. /\ Len(closures'[Frame.closure].upvalues) \in Nat
      /\ Len(Captures) <= Len(closures'[Frame.closure].upvalues)
    <2>1. closures[Frame.closure].upvalues = Captures /\ Len(Captures) \in Nat
        BY <1>1 DEF Captures
    <2>2. CASE Frame.closure = last
        <3>1. Len(closures'[Frame.closure].upvalues) = Len(Captures) + 1
            BY <1>1, <1>4, <1>5, <1>8, <2>1, <2>2
        <3> QED BY <2>1, <3>1
    <2>3. CASE Frame.closure # last
        <3>1. closures'[Frame.closure].upvalues = Captures
            BY <1>1, <1>8, <2>1, <2>3
        <3> QED BY <2>1, <3>1
    <2> QED BY <2>2, <2>3
<1> QED BY <1>8, <1>9 DEF T

LEMMA LinkKeepsInv ==
    ASSUME Inv, Link
    PROVE  Inv'
<1> USE DEF Inv
<1> DEFINE link == Head(linking)
           local == Frame.slots + link.index
<1>1. /\ linking # <<>> /\ frames # <<>>
      /\ linking' = Tail(linking) /\ UNCHANGED <<stack, stackTop, globals, errors>>
    BY DEF Link, LinksExist
<1>2. /\ linking' \in Seq([isLocal : BOOLEAN, index : Nat])
      /\ Len(linking') = Len(linking) - 1
      /\ \A k \in 1..Len(linking') : linking'[k] = linking[k + 1] /\ k + 1 \in 1..Len(linking)
    <2>1. linking \in Seq([isLocal : BOOLEAN, index : Nat])
        BY DEF TypeOK
    <2>2. Len(linking) \in Nat \ {0}
        BY <1>1, <2>1, EmptySeq
    <2> QED BY <1>1, <2>1, <2>2, HeadTailProperties
<1>3. /\ link = linking[1] /\ 1 \in 1..Len(linking)
      /\ link \in [isLocal : BOOLEAN, index : Nat]
    <2>1. linking \in Seq([isLocal : BOOLEAN, index : Nat])
        BY DEF TypeOK
    <2>2. Len(linking) \in Nat \ {0}
        BY <1>1, <2>1, EmptySeq
    <2>3. link = linking[1] /\ 1 \in 1..Len(linking)
        BY <2>1, <2>2
    <2> HIDE DEF link
    <2> QED BY <2>1, <2>3, ElementOfSeq
<1>4. link.index \in Nat /\ link.index < IF link.isLocal THEN Frame.locals ELSE Len(Captures)
    BY <1>1, <1>3 DEF LinksExist
<1> HIDE DEF link
<1>5. /\ Frame \in Frames /\ Frame.slots \in Nat /\ Frame.locals \in Nat
      /\ stackTop \in Nat /\ STACK_MAX \in Nat /\ stackTop <= STACK_MAX
      /\ Frame.slots + Frame.locals <= stackTop
      /\ Captures \in Seq(1..Len(upvalues)) /\ Len(upvalues) \in Nat
    BY <1>1, RunningFrame, Lengths
<1>9. ASSUME NEW k \in 1..Len(linking) PROVE linking[k].index \in Nat
    <2>1. linking \in Seq([isLocal : BOOLEAN, index : Nat])
        BY DEF TypeOK
    <2>2. linking[k] \in [isLocal : BOOLEAN, index : Nat]
        BY <2>1, ElementOfSeq
    <2> QED BY <2>2
<1>6. ASSUME /\ \A k \in 1..Len(linking) :
                linking[k].index <
                    IF linking[k].isLocal THEN Frame'.locals ELSE Len(Captures'),
             frames' # <<>>
      PROVE  LinksExist'
    BY <1>2, <1>6 DEF LinksExist
<1>7. CASE link.isLocal
    <2>1. /\ CaptureUpvalue(local)
          /\ frames' = WithFrame([Frame EXCEPT !.captured = @ \cup {local}])
        BY <1>7 DEF Link, link
    <2>2. local \in Slot /\ local \in Frame.slots..Frame.slots + Frame.locals - 1
        BY <1>4, <1>5, <1>7 DEF Slot
    <2> HIDE DEF local
    <2> DEFINE marked == Frame.captured \cup {local}
               g == [Frame EXCEPT !.captured = marked]
    <2>3. frames' = WithFrame(g)
        BY <2>1
    <2>4. marked \in SUBSET Slot
        <3>1. Frame.captured \in SUBSET Slot
            BY <1>5 DEF Frames
        <3> QED BY <2>2, <3>1
    <2>5. /\ g \in Frames /\ g.slots = Frame.slots /\ g.params = Frame.params
          /\ g.closure = Frame.closure /\ g.locals = Frame.locals /\ g.captured = marked
        <3>1. g = [Frame EXCEPT !.captured = marked]
            OBVIOUS
        <3>2. Frame \in Frames
            BY <1>5
        <3> HIDE DEF marked, g
        <3> DEFINE h == Frame
        <3>3. h \in Frames /\ g = [h EXCEPT !.captured = marked]
            BY <3>1, <3>2
        <3>4. h.slots = Frame.slots /\ h.params = Frame.params
              /\ h.closure = Frame.closure /\ h.locals = Frame.locals
            OBVIOUS
        <3> HIDE DEF h
        <3> QED BY <2>4, <3>3, <3>4, CapturedChanged
    <2> HIDE DEF g
    <2>6. /\ frames' \in Seq(Frames) /\ Len(frames') = Len(frames) /\ frames' # <<>>
          /\ frames'[Len(frames)] = g /\ Frame' = g
          /\ \A f \in 1..Len(frames) - 1 : frames'[f] = frames[f]
        BY <1>1, <2>3, <2>5, WithFrameProperties
    <2>7. /\ FramesNested' /\ ScriptFrame'
          /\ UNCHANGED <<upvalues, openUpvalues>> => OpenIsCaptured'
        <3>1. Frame.locals <= g.locals /\ g.slots + g.locals <= stackTop'
            BY <1>1, <1>5, <2>5
        <3>2. Frame.captured \subseteq g.captured
            BY <2>5
        <3> QED BY <1>1, <2>3, <2>5, <3>1, <3>2, WiderFrame
    <2> DEFINE passed == Passed(local)
               new == Len(upvalues) + 1
    <2>8. CASE /\ UNCHANGED <<upvalues, openUpvalues>>
               /\ passed + 1 \in 1..Len(openUpvalues)
               /\ closures' = [closures EXCEPT ![Len(closures)].upvalues =
                                Append(@, openUpvalues[passed + 1])]
        <3> DEFINE x == openUpvalues[passed + 1]
        <3>1. x \in 1..Len(upvalues) /\ Len(upvalues) <= Len(upvalues)
            BY <1>5, <2>8, Lengths
        <3> HIDE DEF x, passed
        <3>2. closures' = [closures EXCEPT ![Len(closures)].upvalues = Append(@, x)]
            BY <2>8 DEF x
        <3>3. /\ closures' \in Seq(Closure) /\ Len(closures') = Len(closures)
              /\ Len(closures'[Frame.closure].upvalues) \in Nat
              /\ Len(Captures) <= Len(closures'[Frame.closure].upvalues)
            BY <1>1, <1>5, <3>1, <3>2, OneMoreUpvalue DEF Closure
        <3>4. Len(Captures') \in Nat /\ Len(Captures) <= Len(Captures')
            BY <2>5, <2>6, <3>3 DEF Captures
        <3>5. LinksExist'
            <4> SUFFICES ASSUME NEW k \in 1..Len(linking)
                         PROVE  linking[k].index <
                                    IF linking[k].isLocal THEN Frame'.locals ELSE Len(Captures')
                BY <1>6, <2>6
            <4>1. linking[k].index < IF linking[k].isLocal THEN Frame.locals ELSE Len(Captures)
                BY <1>1 DEF LinksExist
            <4>2. linking[k].index \in Nat /\ Len(Captures) \in Nat
                BY <1>5, <1>9
            <4> QED BY <2>5, <2>6, <3>4, <4>1, <4>2
        <3>6. Values' = Values /\ Frames' = Frames /\ Upvalues' = Upvalues /\ Closure' = Closure
            BY <2>8, <3>3 DEF Values, Frames, Upvalues, Closure
        <3>7. TypeOK'
            BY <1>1, <1>2, <2>6, <2>8, <3>3, <3>6 DEF TypeOK
        <3> QED BY <1>1, <2>7, <2>8, <3>5, <3>7 DEF OpenSorted, NoDangling
    <2>9. CASE /\ passed \in 0..Len(openUpvalues)
               /\ upvalues' = Append(upvalues, [location |-> local, closed |-> NIL])
               /\ upvalues' \in Seq(Upvalues)
               /\ openUpvalues' \in Seq(1..new)
               /\ Len(openUpvalues') = Len(openUpvalues) + 1
               /\ \A k \in 1..passed : openUpvalues'[k] = openUpvalues[k] /\ Location(k) > local
               /\ openUpvalues'[passed + 1] = new
               /\ \A k \in passed + 2..Len(openUpvalues) + 1 :
                    openUpvalues'[k] = openUpvalues[k - 1] /\ Location(k - 1) < local
               /\ closures' = [closures EXCEPT ![Len(closures)].upvalues = Append(@, new)]
        <3>1. new \in 1..new /\ new \in Nat /\ Len(upvalues) <= new
            BY <1>5
        <3>2. /\ Len(upvalues') = new /\ upvalues'[new] = [location |-> local, closed |-> NIL]
              /\ \A u \in 1..Len(upvalues) : upvalues'[u] = upvalues[u]
            <4>1. [location |-> local, closed |-> NIL] \in Upvalues
                BY <2>2 DEF Upvalues, Values
            <4>2. upvalues \in Seq(Upvalues)
                BY DEF TypeOK
            <4> QED BY <2>9, <4>1, <4>2, AppendProperties
        <3> HIDE DEF new, passed
        <3>3. /\ closures' \in Seq(Closure') /\ Len(closures') = Len(closures)
              /\ Len(closures'[Frame.closure].upvalues) \in Nat
              /\ Len(Captures) <= Len(closures'[Frame.closure].upvalues)
            BY <1>1, <2>9, <3>1, <3>2, OneMoreUpvalue DEF Closure
        <3>4. Len(Captures') \in Nat /\ Len(Captures) <= Len(Captures')
            BY <2>5, <2>6, <3>3 DEF Captures
        <3>5. LinksExist'
            <4> SUFFICES ASSUME NEW k \in 1..Len(linking)
                         PROVE  linking[k].index <
                                    IF linking[k].isLocal THEN Frame'.locals ELSE Len(Captures')
                BY <1>6, <2>6
            <4>1. linking[k].index < IF linking[k].isLocal THEN Frame.locals ELSE Len(Captures)
                BY <1>1 DEF LinksExist
            <4>2. linking[k].index \in Nat /\ Len(Captures) \in Nat
                BY <1>5, <1>9
            <4> QED BY <2>5, <2>6, <3>4, <4>1, <4>2
        <3>6. Values' = Values /\ Frames' = Frames /\ Upvalues' = Upvalues
            BY <3>3 DEF Values, Frames, Upvalues
        <3>7. TypeOK'
            BY <1>1, <1>2, <2>6, <2>9, <3>2, <3>3, <3>6 DEF TypeOK
        <3>0. /\ passed \in Nat /\ passed <= Len(openUpvalues) /\ Len(openUpvalues) \in Nat
              /\ local \in Int /\ Len(openUpvalues') = Len(openUpvalues) + 1
            BY <2>2, <2>9, Lengths DEF Slot
        <3>8. ASSUME NEW k \in 1..Len(openUpvalues')
              PROVE  \/ k = passed + 1 /\ upvalues'[openUpvalues'[k]].location = local
                     \/ /\ k \in 1..passed /\ k \in 1..Len(openUpvalues)
                        /\ upvalues'[openUpvalues'[k]].location = Location(k)
                        /\ Location(k) > local /\ Location(k) \in Int
                     \/ /\ k > passed + 1 /\ k - 1 \in 1..Len(openUpvalues)
                        /\ upvalues'[openUpvalues'[k]].location = Location(k - 1)
                        /\ Location(k - 1) < local /\ Location(k - 1) \in Int
            <4>1. CASE k = passed + 1
                BY <2>9, <3>2, <4>1
            <4>2. CASE k < passed + 1
                <5>1. k \in 1..passed /\ k \in 1..Len(openUpvalues)
                    BY <3>0, <4>2
                <5>2. openUpvalues[k] \in 1..Len(upvalues) /\ Location(k) \in Int
                    BY <5>1, Lengths, LocationType
                <5>3. upvalues'[openUpvalues'[k]].location = Location(k)
                    BY <2>9, <3>2, <5>1, <5>2 DEF Location
                <5> QED BY <2>9, <5>1, <5>2, <5>3
            <4>3. CASE k > passed + 1
                <5>1. k \in passed + 2..Len(openUpvalues) + 1 /\ k - 1 \in 1..Len(openUpvalues)
                    BY <3>0, <4>3
                <5>2. openUpvalues[k - 1] \in 1..Len(upvalues) /\ Location(k - 1) \in Int
                    BY <5>1, Lengths, LocationType
                <5>3. upvalues'[openUpvalues'[k]].location = Location(k - 1)
                    BY <2>9, <3>2, <5>1, <5>2 DEF Location
                <5> QED BY <2>9, <4>3, <5>1, <5>2, <5>3
            <4> QED BY <3>0, <4>1, <4>2, <4>3
        <3>9. OpenSorted'
            <4> SUFFICES ASSUME NEW j \in 1..Len(openUpvalues'), NEW k \in 1..Len(openUpvalues'),
                                j < k
                         PROVE  upvalues'[openUpvalues'[j]].location
                                    > upvalues'[openUpvalues'[k]].location
                BY DEF OpenSorted
            <4>1. \A i, h \in 1..Len(openUpvalues) : i < h => Location(i) > Location(h)
                BY DEF OpenSorted, Location
            <4>2. local \in Int /\ passed \in Nat /\ j \in Nat /\ k \in Nat
                BY <3>0
            <4>3. CASE j <= passed /\ k <= passed
                BY <3>8, <4>1, <4>2, <4>3
            <4>4. CASE j <= passed + 1 /\ k > passed
                <5> DEFINE L(i) == upvalues'[openUpvalues'[i]].location
                <5>1. \A i \in 1..Len(openUpvalues') :
                        /\ L(i) \in Int
                        /\ i <= passed => L(i) > local
                        /\ i = passed + 1 => L(i) = local
                        /\ i > passed + 1 => L(i) < local
                    BY <3>0, <3>8
                <5> HIDE DEF L
                <5>2. L(j) > L(k)
                    BY <3>0, <4>2, <4>4, <5>1
                <5> QED BY <5>2 DEF L
            <4>5. CASE j > passed + 1
                <5>1. /\ j - 1 \in 1..Len(openUpvalues) /\ k - 1 \in 1..Len(openUpvalues)
                      /\ upvalues'[openUpvalues'[j]].location = Location(j - 1)
                      /\ upvalues'[openUpvalues'[k]].location = Location(k - 1)
                    BY <3>8, <4>2, <4>5
                <5> QED BY <4>1, <4>2, <5>1
            <4> QED BY <4>2, <4>3, <4>4, <4>5
        <3>10. OpenIsCaptured'
            <4> SUFFICES ASSUME NEW k \in 1..Len(openUpvalues')
                         PROVE  \E f \in 1..Len(frames') :
                            LET location == upvalues'[openUpvalues'[k]].location IN
                            /\ location \in frames'[f].captured
                            /\ location \in frames'[f].slots..frames'[f].slots + frames'[f].locals - 1
                BY DEF OpenIsCaptured
            <4>1. Len(frames) \in 1..Len(frames) /\ Len(frames) \in Nat
                BY <1>1, RunningFrame
            <4>2. CASE upvalues'[openUpvalues'[k]].location = local
                BY <2>2, <2>5, <2>6, <4>1, <4>2
            <4>3. ASSUME NEW j \in 1..Len(openUpvalues),
                         upvalues'[openUpvalues'[k]].location = Location(j)
                  PROVE  \E f \in 1..Len(frames') :
                            LET location == upvalues'[openUpvalues'[k]].location IN
                            /\ location \in frames'[f].captured
                            /\ location \in frames'[f].slots..frames'[f].slots + frames'[f].locals - 1
                <5>1. PICK f \in 1..Len(frames) :
                        /\ Location(j) \in frames[f].captured
                        /\ Location(j) \in frames[f].slots..frames[f].slots + frames[f].locals - 1
                    BY DEF OpenIsCaptured, Location
                <5>2. CASE f = Len(frames)
                    <6>1. frames[f] = Frame /\ frames'[f] = g
                        BY <2>6, <5>2 DEF Frame
                    <6> QED BY <2>5, <2>6, <4>3, <5>1, <6>1
                <5>3. CASE f # Len(frames)
                    <6>1. frames'[f] = frames[f]
                        BY <2>6, <4>1, <5>3
                    <6> QED BY <2>6, <4>3, <5>1, <6>1
                <5> QED BY <5>2, <5>3
            <4> QED BY <3>8, <4>2, <4>3
        <3>11. NoDangling'
            <4> SUFFICES ASSUME errors = 0, NEW u \in 1..new
                         PROVE  upvalues'[u].location = CLOSED \/ u \in ToSet(openUpvalues')
                BY <1>1, <3>2 DEF NoDangling
            <4>1. \A k \in 1..Len(openUpvalues) + 1 : openUpvalues'[k] \in ToSet(openUpvalues')
                BY <2>9, LenProperties DEF ToSet
            <4>2. CASE u = new
                <5>1. passed + 1 \in 1..Len(openUpvalues) + 1
                    BY <3>0
                <5> QED BY <2>9, <4>1, <4>2, <5>1
            <4>3. CASE u # new
                <5>1. u \in 1..Len(upvalues) /\ upvalues'[u] = upvalues[u]
                    BY <1>5, <3>2, <4>3 DEF new
                <5>2. CASE u \in ToSet(openUpvalues)
                    <6>1. PICK k \in 1..Len(openUpvalues) : openUpvalues[k] = u
                        BY <5>2, LenProperties DEF ToSet, TypeOK
                    <6>2. CASE k <= passed
                        <7>1. k \in 1..passed /\ k \in 1..Len(openUpvalues) + 1
                            BY <3>0, <6>2
                        <7> QED BY <2>9, <4>1, <6>1, <7>1
                    <6>3. CASE k > passed
                        <7>1. /\ k + 1 \in passed + 2..Len(openUpvalues) + 1 /\ (k + 1) - 1 = k
                              /\ k + 1 \in 1..Len(openUpvalues) + 1
                            BY <3>0, <6>3
                        <7>2. openUpvalues'[k + 1] = u
                            BY <2>9, <6>1, <7>1
                        <7> QED BY <4>1, <7>1, <7>2
                    <6> QED BY <3>0, <6>2, <6>3
                <5>3. CASE upvalues[u].location = CLOSED
                    BY <5>1, <5>3
                <5> QED BY <5>1, <5>2, <5>3 DEF NoDangling
            <4> QED BY <4>2, <4>3
        <3> QED BY <2>7, <3>5, <3>7, <3>9, <3>10, <3>11
    <2> QED BY <1>1, <2>1, <2>2, <2>8, <2>9, CaptureInserts
<1>8. CASE ~link.isLocal
    <2> DEFINE x == Captures[link.index + 1]
    <2>1. /\ closures' = [closures EXCEPT ![Len(closures)].upvalues = Append(@, x)]
          /\ UNCHANGED <<upvalues, openUpvalues, frames>>
        BY <1>8 DEF Link, link
    <2>2. x \in 1..Len(upvalues) /\ Len(upvalues) <= Len(upvalues)
        <3>1. link.index + 1 \in 1..Len(Captures)
            BY <1>4, <1>5, <1>8
        <3> QED BY <1>5, <3>1, ElementOfSeq
    <2> HIDE DEF x
    <2>3. /\ closures' \in Seq(Closure) /\ Len(closures') = Len(closures)
          /\ Len(closures'[Frame.closure].upvalues) \in Nat
          /\ Len(Captures) <= Len(closures'[Frame.closure].upvalues)
        BY <1>1, <1>5, <2>1, <2>2, OneMoreUpvalue DEF Closure
    <2>4. Frame' = Frame
        BY <2>1 DEF Frame
    <2>5. Len(Captures') \in Nat /\ Len(Captures) <= Len(Captures')
        BY <2>3, <2>4 DEF Captures
    <2>6. LinksExist'
        <3> SUFFICES ASSUME NEW k \in 1..Len(linking)
                     PROVE  linking[k].index <
                                IF linking[k].isLocal THEN Frame'.locals ELSE Len(Captures')
            BY <1>1, <1>6, <2>1
        <3>1. linking[k].index < IF linking[k].isLocal THEN Frame.locals ELSE Len(Captures)
            BY <1>1 DEF LinksExist
        <3>2. linking[k].index \in Nat /\ Len(Captures) \in Nat
            BY <1>5, <1>9
        <3> QED BY <2>4, <2>5, <3>1, <3>2
    <2>7. Values' = Values /\ Frames' = Frames /\ Upvalues' = Upvalues /\ Closure' = Closure
        BY <2>1, <2>3 DEF Values, Frames, Upvalues, Closure
    <2>8. TypeOK'
        BY <1>1, <1>2, <2>1, <2>3, <2>7 DEF TypeOK
    <2>9. FramesNested' /\ ScriptFrame'
        BY <1>1, <2>1, <2>4 DEF FramesNested, LocalsEnd, ScriptFrame
    <2> QED BY <1>1, <2>1, <2>6, <2>8, <2>9 DEF OpenSorted, OpenIsCaptured, NoDangling
<1> QED BY <1>7, <1>8

-----------------------------------------------------------------------------
(* The invariant.                                                          *)

LEMMA InitInv ==
    ASSUME Init
    PROVE  Inv
<1> USE DEF Init
<1>1. TypeOK
    <2>1. stack \in [Slot -> Values] /\ NIL \in Values
        BY DEF Values
    <2>2. /\ frames \in Seq(Frames) /\ closures \in Seq(Closure) /\ upvalues \in Seq(Upvalues)
          /\ openUpvalues \in Seq(1..Len(upvalues))
          /\ linking \in Seq([isLocal : BOOLEAN, index : Nat])
        OBVIOUS
    <2>3. DOMAIN globals \subseteq Globals /\ globals \in [DOMAIN globals -> Values]
        OBVIOUS
    <2> QED BY <2>1, <2>2, <2>3 DEF TypeOK
<1>2. FramesNested /\ ScriptFrame /\ LinksExist
    BY DEF FramesNested, ScriptFrame, LinksExist
<1>3. OpenSorted /\ OpenIsCaptured /\ NoDangling
    BY DEF OpenSorted, OpenIsCaptured, NoDangling
<1> QED BY <1>1, <1>2, <1>3 DEF Inv

LEMMA GetUpvalueKeepsInv ==
    ASSUME Inv, GetUpvalue
    PROVE  Inv'
<1>1. PICK k \in 1..Len(Captures) : Push(Content(Captures[k]))
    BY DEF GetUpvalue
<1>2. frames # <<>>
    BY DEF GetUpvalue, Running
<1>3. Captures \in Seq(1..Len(upvalues))
    BY <1>2, RunningFrame
<1>4. Captures[k] \in 1..Len(upvalues)
    BY <1>3, ElementOfSeq
<1>5. Content(Captures[k]) \in Values
    BY <1>4, ContentType
<1> QED BY <1>1, <1>5, PushKeepsInv

LEMMA NextKeepsInv ==
    ASSUME Inv, [Next]_vars
    PROVE  Inv'
<1>1. CASE Constant
    BY <1>1, PushKeepsInv DEF Constant, Values
<1>2. CASE Pop
    BY <1>2, PopKeepsInv
<1>3. CASE DeclareLocal
    BY <1>3, DeclareLocalKeepsInv
<1>4. CASE EndLocal
    BY <1>4, EndLocalKeepsInv
<1>5. CASE GetLocal
    <2>1. PICK slot \in 0..Frame.locals - 1 : Push(stack[Frame.slots + slot])
        BY <1>5 DEF GetLocal
    <2>2. stack[Frame.slots + slot] \in Values
        BY <1>5, SlotTypes DEF GetLocal, Running
    <2> QED BY <2>1, <2>2, PushKeepsInv
<1>6. CASE SetLocal
    BY <1>6, SetLocalKeepsInv
<1>7. CASE GetGlobal \/ DefineGlobal \/ SetGlobal
    BY <1>7, GlobalsKeepInv
<1>8. CASE GetUpvalue
    BY <1>8, GetUpvalueKeepsInv
<1>9. CASE SetUpvalue
    BY <1>9, SetUpvalueKeepsInv
<1>10. CASE MakeClosure
    BY <1>10, MakeClosureKeepsInv
<1>11. CASE Link
    BY <1>11, LinkKeepsInv
<1>12. CASE Fault
    BY <1>12, RuntimeErrorKeepsInv DEF Fault, Running
<1>13. CASE Call
    BY <1>13, CallKeepsInv
<1>14. CASE Return
    BY <1>14, ReturnKeepsInv
<1>15. CASE EndLine
    BY <1>15, EndLineKeepsInv
<1>16. CASE StartLine
    BY <1>16, StartLineKeepsInv
<1>17. CASE UNCHANGED vars
    <2>1. UNCHANGED <<stack, stackTop, frames, closures, upvalues, openUpvalues, linking,
                      globals, errors>>
        BY <1>17 DEF vars, heap
    <2>2. Values' = Values /\ Frames' = Frames /\ Upvalues' = Upvalues /\ Closure' = Closure
        BY <2>1, TypesKept
    <2>3. TypeOK'
        BY <2>1, <2>2 DEF Inv, TypeOK
    <2>4. FramesNested' /\ ScriptFrame' /\ LinksExist'
        BY <2>1 DEF Inv, FramesNested, ScriptFrame, LinksExist, LocalsEnd, Frame, Captures
    <2>5. OpenSorted' /\ OpenIsCaptured' /\ NoDangling'
        BY <2>1 DEF Inv, OpenSorted, OpenIsCaptured, NoDangling
    <2> QED BY <2>3, <2>4, <2>5 DEF Inv
<1> QED
    BY <1>1, <1>2, <1>3, <1>4, <1>5, <1>6, <1>7, <1>8, <1>9, <1>10, <1>11, <1>12, <1>13,
       <1>14, <1>15, <1>16, <1>17
    DEF Next

(* Inv holds of every behaviour of the virtual machine, whatever the       *)
(* limits of its stacks and the bounds of the model are.                   *)
THEOREM InvHolds == Spec => []Inv
<1>1. Init => Inv
    BY InitInv
<1>2. Inv /\ [Next]_vars => Inv'
    BY NextKeepsInv
<1> QED BY <1>1, <1>2, PTL DEF Spec

(* The stack, the frames, the closures, the upvalues and the globals keep  *)
(* their types: in particular no handler reads or writes a value slot out  *)
(* of the array as long as push() had room.                                *)
THEOREM TypeCorrect == Spec => []TypeOK
<1>1. Inv => TypeOK
    BY DEF Inv
<1> QED BY <1>1, InvHolds, PTL

(* The windows of the call frames never overlap in their locals, and the   *)
(* stack is empty whenever no line is running (call, RETURN, resetStack).  *)
THEOREM FramesStayNested == Spec => []FramesNested
<1>1. Inv => FramesNested
    BY DEF Inv
<1> QED BY <1>1, InvHolds, PTL

(* The list of open upvalues stays sorted by slot without duplicates, on   *)
(* which the loops of captureUpvalue and closeUpvalues rely.               *)
THEOREM ListStaysSorted == Spec => []OpenSorted
<1>1. Inv => OpenSorted
    BY DEF Inv
<1> QED BY <1>1, InvHolds, PTL

(* An open upvalue points to a living local variable that its function     *)
(* knows to be captured: every way out of a scope closes it first.         *)
THEOREM OpenMeansAlive == Spec => []OpenIsCaptured
<1>1. Inv => OpenIsCaptured
    BY DEF Inv
<1> QED BY <1>1, InvHolds, PTL

(* Until a runtime error resets the stack, no upvalue points to a slot     *)
(* that has been given up (captureUpvalue, closeUpvalues, CLOSE_UPVALUE,   *)
(* RETURN).                                                                *)
THEOREM NothingDangles == Spec => []NoDangling
<1>1. Inv => NoDangling
    BY DEF Inv
<1> QED BY <1>1, InvHolds, PTL

-----------------------------------------------------------------------------
(* The slots that are locals.                                              *)

(* The locals of the frames below the running one.                         *)
Outer(fs) == UNION {Window(fs[f]) : f \in 1..Len(fs) - 1}

LEMMA LocalsSplit ==
    ASSUME NEW fs, Len(fs) \in Nat \ {0}
    PROVE  Locals(fs) = Outer(fs) \cup Window(fs[Len(fs)])
<1>1. 1..Len(fs) = (1..Len(fs) - 1) \cup {Len(fs)}
    OBVIOUS
<1> QED BY <1>1 DEF Locals, Outer

LEMMA FrameTypes ==
    ASSUME Inv, NEW f \in 1..Len(frames)
    PROVE  /\ frames[f] \in Frames
           /\ frames[f].slots \in Nat /\ frames[f].locals \in Nat \ {0}
           /\ frames[f].closure \in 1..Len(closures)
<1>1. frames[f] \in Frames
    BY Lengths DEF Inv
<1> QED BY <1>1 DEF Frames, Slot

LEMMA OuterBelow ==
    ASSUME Inv, frames # <<>>, NEW s \in Outer(frames)
    PROVE  s \in Nat /\ s < Frame.slots
<1>1. PICK f \in 1..Len(frames) - 1 : s \in Window(frames[f])
    BY DEF Outer
<1>2. Len(frames) \in Nat \ {0} /\ Frame = frames[Len(frames)] /\ Frame.slots \in Nat
    BY RunningFrame
<1>3. f \in 1..Len(frames) /\ f < Len(frames) /\ Len(frames) \in 1..Len(frames)
    BY <1>2
<1>4. frames[f].slots + frames[f].locals <= Frame.slots
    BY <1>2, <1>3 DEF Inv, FramesNested
<1>5. frames[f].slots \in Nat /\ frames[f].locals \in Nat
    BY <1>3, FrameTypes
<1>6. s \in Nat /\ s < frames[f].slots + frames[f].locals
    BY <1>1, <1>5 DEF Window
<1> QED BY <1>2, <1>4, <1>5, <1>6

(* All locals are below the temporaries of the running frame.              *)
LEMMA LocalsBelow ==
    ASSUME Inv, NEW s \in Locals(frames)
    PROVE  /\ frames # <<>> /\ s \in Slot /\ s < LocalsEnd /\ s < stackTop
           /\ LocalsEnd \in Nat
<1>1. frames # <<>>
    <2> SUFFICES ASSUME frames = <<>> PROVE FALSE
        OBVIOUS
    <2> QED BY DEF Locals
<1>2. /\ Len(frames) \in Nat \ {0} /\ Frame = frames[Len(frames)]
      /\ Frame.slots \in Nat /\ Frame.locals \in Nat \ {0}
      /\ stackTop \in Nat /\ STACK_MAX \in Nat
      /\ Frame.slots + Frame.locals <= stackTop /\ stackTop <= STACK_MAX
    BY <1>1, RunningFrame
<1>3. Locals(frames) = Outer(frames) \cup Window(Frame)
    BY <1>2, LocalsSplit
<1>4. s \in Nat /\ s < LocalsEnd
    <2>1. CASE s \in Outer(frames)
        BY <1>1, <1>2, <2>1, OuterBelow DEF LocalsEnd
    <2>2. CASE s \in Window(Frame)
        BY <1>2, <2>2 DEF Window, LocalsEnd
    <2> QED BY <1>3, <2>1, <2>2
<1> QED BY <1>1, <1>2, <1>4 DEF Slot, LocalsEnd

(* The running frame changes: so does its window only.                     *)
LEMMA WithFrameLocals ==
    ASSUME Inv, frames # <<>>, NEW g \in Frames, frames' = WithFrame(g)
    PROVE  Locals(frames') = Outer(frames) \cup Window(g)
<1>1. /\ Len(frames') = Len(frames) /\ frames'[Len(frames)] = g
      /\ \A f \in 1..Len(frames) - 1 : frames'[f] = frames[f]
    BY WithFrameProperties
<1>2. Len(frames) \in Nat \ {0}
    BY RunningFrame
<1>3. Locals(frames') = Outer(frames') \cup Window(g)
    BY <1>1, <1>2, LocalsSplit
<1>4. Outer(frames') = Outer(frames)
    BY <1>1 DEF Outer
<1> QED BY <1>3, <1>4

LEMMA RunningLocals ==
    ASSUME Inv, frames # <<>>
    PROVE  Locals(frames) = Outer(frames) \cup Window(Frame)
    BY RunningFrame, LocalsSplit

(* A call adds the window of its frame.                                    *)
LEMMA AppendLocals ==
    ASSUME Inv, NEW g, frames' = Append(frames, g)
    PROVE  Locals(frames') = Locals(frames) \cup Window(g)
<1>1. Len(frames) \in Nat /\ frames \in Seq(Frames)
    BY Lengths DEF Inv, TypeOK
<1>2. /\ Len(frames') = Len(frames) + 1 /\ frames'[Len(frames) + 1] = g
      /\ \A f \in 1..Len(frames) : frames'[f] = frames[f]
    <2>1. frames \in Seq(Frames \cup {g}) /\ g \in Frames \cup {g}
        BY <1>1
    <2> QED BY <2>1, AppendProperties
<1>3. Locals(frames') = Outer(frames') \cup Window(g)
    <2>1. Len(frames') \in Nat \ {0} /\ frames'[Len(frames')] = g
        BY <1>1, <1>2
    <2> QED BY <2>1, LocalsSplit, Zenon
<1>4. Outer(frames') = Locals(frames)
    <2>1. Len(frames') - 1 = Len(frames)
        BY <1>1, <1>2
    <2> QED BY <1>2, <2>1 DEF Outer, Locals
<1> QED BY <1>3, <1>4

(* The return of a call takes the window of its frame away.                *)
LEMMA FrontLocals ==
    ASSUME Inv, frames # <<>>, frames' = Front(frames)
    PROVE  Locals(frames') = Outer(frames)
<1>1. frames \in Seq(Frames) /\ Len(frames) \in Nat \ {0}
    BY RunningFrame DEF Inv, TypeOK
<1>2. Len(frames') = Len(frames) - 1 /\ \A f \in 1..Len(frames) - 1 : frames'[f] = frames[f]
    <2>1. frames' = SubSeq(frames, 1, Len(frames) - 1)
        BY DEF Front
    <2>2. \A i \in 1..Len(frames) - 1 : frames[i] \in Frames
        BY <1>1, ElementOfSeq
    <2>3. /\ Len(frames') = IF 1 <= Len(frames) - 1 THEN (Len(frames) - 1) - 1 + 1 ELSE 0
          /\ \A f \in 1..(Len(frames) - 1) - 1 + 1 : frames'[f] = frames[1 + f - 1]
        BY <1>1, <2>1, <2>2, SubSeqProperties
    <2>4. PICK n \in Nat : Len(frames) = n + 1
        <3>1. Len(frames) = (Len(frames) - 1) + 1 /\ Len(frames) - 1 \in Nat
            BY <1>1
        <3> QED BY <3>1
    <2>5. n + 1 - 1 = n /\ (n - 1) + 1 = n /\ (1 <= n \/ n = 0)
        BY <2>4
    <2>6. \A f \in 1..n : 1 + f - 1 = f
        OBVIOUS
    <2> QED BY <2>3, <2>4, <2>5, <2>6
<1> QED BY <1>2 DEF Locals, Outer
-----------------------------------------------------------------------------
(* What the invariant says of the values of variables.                     *)

Quiet == errors = 0 /\ HistoryInv

(* Captured variables, one by one.                                         *)
LEMMA CapturedVariable ==
    ASSUME Quiet, NEW c \in 1..Len(captures), NEW k \in 1..Len(captures[c])
    PROVE  /\ Len(captures) = Len(closures) /\ Len(captures) \in Nat
           /\ Len(captures[c]) = Len(closures[c].upvalues) /\ Len(captures[c]) \in Nat
           /\ captures[c][k] \in Variables /\ captures[c][k].born < c
           /\ Upvalue(c, k) \in 1..Len(upvalues)
           /\ upvalues[Upvalue(c, k)] \in Upvalues
<1>1. /\ Len(captures) = Len(closures) /\ captures \in Seq(Seq(Variables))
      /\ Len(captures[c]) = Len(closures[c].upvalues) /\ captures[c][k].born < c
    BY DEF Quiet, HistoryInv, CapturesMatch
<1>2. captures[c] \in Seq(Variables)
    BY <1>1, ElementOfSeq
<1>3. captures[c][k] \in Variables
    BY <1>2, ElementOfSeq
<1>4. closures[c] \in Closure
    BY <1>1, Lengths DEF Quiet, HistoryInv, Inv
<1>5. closures[c].upvalues \in Seq(1..Len(upvalues))
    BY <1>4 DEF Closure
<1>6. Upvalue(c, k) \in 1..Len(upvalues)
    BY <1>1, <1>5, ElementOfSeq DEF Upvalue
<1>7. upvalues[Upvalue(c, k)] \in Upvalues
    BY <1>6, Lengths DEF Quiet, HistoryInv, Inv
<1> QED BY <1>1, <1>2, <1>3, <1>6, <1>7, LenProperties

LEMMA AliveVariable ==
    ASSUME Quiet, NEW s \in DOMAIN names
    PROVE  /\ s \in Locals(frames) /\ names[s] \in Alive
           /\ names[s] \in Variables /\ names[s].slot = s
           /\ s \in Slot
    BY LocalsBelow DEF Quiet, HistoryInv, NamesAreLocals, Alive

(* A variable that has a slot has its value there; all its upvalues say    *)
(* the same.                                                               *)
ValuesAgree ==
    /\ \A s \in DOMAIN names : ValueOf(names[s]) = stack[s]
    /\ \A c \in 1..Len(captures) : \A k \in 1..Len(captures[c]) :
            ValueOf(captures[c][k]) = Content(Upvalue(c, k))

LEMMA QuietValues == Quiet => ValuesAgree
<1> SUFFICES ASSUME Quiet PROVE ValuesAgree
    OBVIOUS
<1>1. ASSUME NEW s \in DOMAIN names PROVE ValueOf(names[s]) = stack[s]
    BY <1>1, AliveVariable DEF ValueOf
<1>2. ASSUME NEW c \in 1..Len(captures), NEW k \in 1..Len(captures[c])
      PROVE  ValueOf(captures[c][k]) = Content(Upvalue(c, k))
    <2> DEFINE x == captures[c][k]
               u == Upvalue(c, k)
    <2>1. IF upvalues[u].location = CLOSED THEN x \notin Alive
          ELSE upvalues[u].location \in DOMAIN names /\ x = names[upvalues[u].location]
        BY DEF Quiet, HistoryInv, OpenWhileAlive
    <2>2. CASE upvalues[u].location = CLOSED
        <3>1. u \in UpvaluesOf(x)
            BY DEF UpvaluesOf
        <3>2. ASSUME NEW v \in UpvaluesOf(x) PROVE v = u
            <4>1. PICK d \in 1..Len(captures) :
                    \E j \in 1..Len(captures[d]) : captures[d][j] = x /\ v = Upvalue(d, j)
                BY DEF UpvaluesOf
            <4>2. PICK j \in 1..Len(captures[d]) : captures[d][j] = x /\ v = Upvalue(d, j)
                BY <4>1
            <4> QED BY <4>2 DEF Quiet, HistoryInv, OneUpvalueEach
        <3>3. (CHOOSE v \in UpvaluesOf(x) : TRUE) = u
            BY <3>1, <3>2, Zenon
        <3> QED BY <2>1, <2>2, <3>3 DEF ValueOf
    <2>3. CASE upvalues[u].location # CLOSED
        <3>1. ValueOf(x) = stack[upvalues[u].location]
            BY <2>1, <2>3, <1>1
        <3> QED BY <2>3, <3>1 DEF Content
    <2> QED BY <2>2, <2>3
<1> QED BY <1>1, <1>2 DEF ValuesAgree

LEMMA QuietValuesNext == Quiet' => ValuesAgree'
    BY QuietValues, PTL

-----------------------------------------------------------------------------
(* Steps other than those of linking.                                      *)

(* At most a closure without upvalues is added, and an upvalue is closed   *)
(* only if its slot is no longer a local.                                  *)
Closing(u) == upvalues[u].location # CLOSED /\ upvalues[u].location \notin Locals(frames')

HeapStep ==
    /\ linking = <<>>
    /\ \/ UNCHANGED closures /\ linking' = <<>>
       \/ \E arity \in Nat :
            closures' = Append(closures, [arity |-> arity, upvalues |-> <<>>])
    /\ Len(upvalues') = Len(upvalues)
    /\ \A u \in 1..Len(upvalues) :
        \/ upvalues'[u].location = upvalues[u].location
        \/ Closing(u) /\ upvalues'[u].location = CLOSED

(* Variables keep their values: in their slots and when they leave them.   *)
ValuesStay ==
    /\ \A s \in Locals(frames) \cap Locals(frames') : stack'[s] = stack[s]
    /\ \A u \in 1..Len(upvalues) :
        IF upvalues'[u].location = upvalues[u].location THEN upvalues'[u] = upvalues[u]
        ELSE upvalues'[u].closed = stack[upvalues[u].location]

(* Where the closures and what they captured stay.                         *)
LEMMA HeapStepKeeps ==
    ASSUME Quiet, Inv', HeapStep, Remember
    PROVE  /\ Len(captures') = Len(closures')
           /\ Len(captures') \in {Len(captures), Len(captures) + 1}
           /\ linking' # <<>> => Len(closures') = Len(closures) + 1
           /\ captures' \in Seq(Seq(Variables))
           /\ \A c \in 1..Len(captures) :
                captures'[c] = captures[c] /\ closures'[c] = closures[c]
           /\ \A c \in 1..Len(captures') : c \notin 1..Len(captures) =>
                captures'[c] = <<>> /\ closures'[c].upvalues = <<>>
<1>1. /\ Len(captures) = Len(closures) /\ Len(captures) \in Nat
      /\ captures \in Seq(Seq(Variables)) /\ closures \in Seq(Closure)
    BY Lengths DEF Quiet, HistoryInv, CapturesMatch, Inv, TypeOK
<1>2. CASE UNCHANGED closures /\ linking' = <<>>
    <2>1. captures' = captures
        BY <1>1, <1>2 DEF HeapStep, Remember
    <2> QED BY <1>1, <1>2, <2>1
<1>3. CASE \E arity \in Nat : closures' = Append(closures, [arity |-> arity, upvalues |-> <<>>])
    <2>1. PICK arity \in Nat : closures' = Append(closures, [arity |-> arity, upvalues |-> <<>>])
        BY <1>3
    <2>2. [arity |-> arity, upvalues |-> <<>>] \in Closure
        BY DEF Closure
    <2> DEFINE e == [arity |-> arity, upvalues |-> <<>>]
    <2>3. e.upvalues = <<>>
        OBVIOUS
    <2> HIDE DEF e
    <2>4. /\ Len(closures') = Len(closures) + 1 /\ closures'[Len(closures) + 1] = e
          /\ \A c \in 1..Len(closures) : closures'[c] = closures[c]
        BY <1>1, <2>1, <2>2, AppendProperties DEF e
    <2>5. captures' = Append(captures, <<>>)
        BY <1>1, <2>4 DEF HeapStep, Remember
    <2>6. /\ captures' \in Seq(Seq(Variables)) /\ Len(captures') = Len(captures) + 1
          /\ captures'[Len(captures) + 1] = <<>>
          /\ \A c \in 1..Len(captures) : captures'[c] = captures[c]
        <3>1. <<>> \in Seq(Variables)
            OBVIOUS
        <3> QED BY <1>1, <2>5, <3>1, AppendProperties
    <2>7. PICK n \in Nat : n = Len(closures)
        BY <1>1
    <2>8. Len(captures') = n + 1 /\ Len(closures') = n + 1 /\ Len(captures) = n
        BY <1>1, <2>4, <2>6, <2>7
    <2>9. ASSUME NEW c \in 1..Len(captures'), c \notin 1..Len(captures)
          PROVE  captures'[c] = <<>> /\ closures'[c].upvalues = <<>>
        <3>1. c = n + 1
            BY <2>8, <2>9
        <3> QED BY <2>3, <2>4, <2>6, <2>7, <2>8, <3>1
    <2>10. \A c \in 1..n : captures'[c] = captures[c] /\ closures'[c] = closures[c]
        BY <2>4, <2>6, <2>7, <2>8
    <2>11. Len(captures') = Len(closures') /\ Len(captures') = Len(captures) + 1
        BY <2>7, <2>8
    <2>12. linking' # <<>> => Len(closures') = Len(closures) + 1
        BY <2>4
    <2>13. \A c \in 1..Len(captures) : captures'[c] = captures[c] /\ closures'[c] = closures[c]
        BY <2>8, <2>10
    <2> QED BY <2>6, <2>9, <2>11, <2>12, <2>13, Zenon
<1> QED BY <1>2, <1>3 DEF HeapStep

(* New variables get names that nobody else has, the others keep theirs.   *)
LEMMA NamesKept ==
    ASSUME Name
    PROVE  /\ DOMAIN names' = Locals(frames')
           /\ \A s \in DOMAIN names' :
                names'[s] = IF s \in DOMAIN names THEN names[s]
                            ELSE [slot |-> s, born |-> Len(closures)]
    BY DEF Name

LEMMA LocalsAreSlots == Inv => Locals(frames) \subseteq Slot
    BY LocalsBelow

LEMMA LocalsAreSlotsNext == Inv' => Locals(frames') \subseteq Slot
<1>1. Inv' => (Locals(frames) \subseteq Slot)'
    BY LocalsAreSlots, PTL
<1> QED BY <1>1 DEF Slot

LEMMA NamesAreLocalsNext ==
    ASSUME Quiet, Inv', Name, Len(closures') \in {Len(closures), Len(closures) + 1},
           linking' # <<>> => \/ Len(closures') = Len(closures) + 1
                              \/ linking # <<>> /\ DOMAIN names' \subseteq DOMAIN names
    PROVE  NamesAreLocals'
<1>1. Len(closures) \in Nat
    BY Lengths DEF Quiet, HistoryInv, Inv
<1>2. DOMAIN names' = Locals(frames')
    BY NamesKept
<1>3. ASSUME NEW s \in DOMAIN names'
      PROVE  /\ names'[s] \in Variables /\ names'[s].slot = s
             /\ names'[s].born <= Len(closures')
             /\ linking' # <<>> => names'[s].born < Len(closures')
    <2>1. CASE s \in DOMAIN names
        <3>1. names'[s] = names[s]
            BY <2>1, NamesKept
        <3>2. /\ names[s] \in Variables /\ names[s].slot = s /\ names[s].born <= Len(closures)
              /\ linking # <<>> => names[s].born < Len(closures)
            BY <2>1 DEF Quiet, HistoryInv, NamesAreLocals
        <3>3. names[s].born \in Nat
            BY <3>2 DEF Variables
        <3> QED BY <1>1, <3>1, <3>2, <3>3
    <2>2. CASE s \notin DOMAIN names
        <3> DEFINE x == [slot |-> s, born |-> Len(closures)]
        <3>1. names'[s] = x
            BY <2>2, NamesKept
        <3>2. s \in Slot
            <4>1. \A t \in Locals(frames') : t \in Slot
                BY <1>2, LocalsAreSlotsNext
            <4> QED BY <1>2, <4>1
        <3>3. x \in Variables /\ x.slot = s /\ x.born = Len(closures)
            BY <1>1, <3>2 DEF Variables
        <3> HIDE DEF x
        <3>4. linking' # <<>> => Len(closures') = Len(closures) + 1
            BY <2>2
        <3> QED BY <1>1, <3>1, <3>3, <3>4
    <2> QED BY <2>1, <2>2
<1> QED BY <1>2, <1>3 DEF NamesAreLocals

(* An upvalue that is open after a step is at a slot that is a local.      *)
LEMMA OpenAreLocals ==
    Inv /\ errors = 0 => \A u \in 1..Len(upvalues) :
        upvalues[u].location # CLOSED => upvalues[u].location \in Locals(frames)
<1> SUFFICES ASSUME Inv, errors = 0, NEW u \in 1..Len(upvalues), upvalues[u].location # CLOSED
             PROVE  upvalues[u].location \in Locals(frames)
    OBVIOUS
<1>1. u \in ToSet(openUpvalues)
    BY DEF Inv, NoDangling
<1>2. PICK k \in 1..Len(openUpvalues) : openUpvalues[k] = u
    <2>1. DOMAIN openUpvalues = 1..Len(openUpvalues)
        BY LenProperties DEF Inv, TypeOK
    <2> QED BY <1>1, <2>1 DEF ToSet
<1>3. PICK f \in 1..Len(frames) :
        upvalues[u].location \in frames[f].slots..frames[f].slots + frames[f].locals - 1
    BY <1>2 DEF Inv, OpenIsCaptured
<1> QED BY <1>3 DEF Locals, Window

LEMMA OpenAreLocalsNext ==
    (Inv /\ errors = 0)' => (\A u \in 1..Len(upvalues) :
        upvalues[u].location # CLOSED => upvalues[u].location \in Locals(frames))'
    BY OpenAreLocals, PTL

LEMMA HeapStepKeepsHistory ==
    ASSUME Quiet, Inv', errors' = 0, HeapStep, Name, Remember
    PROVE  HistoryInv'
<1>1. /\ Len(captures') = Len(closures')
      /\ Len(captures') \in {Len(captures), Len(captures) + 1}
      /\ linking' # <<>> => Len(closures') = Len(closures) + 1
      /\ captures' \in Seq(Seq(Variables))
      /\ \A c \in 1..Len(captures) : captures'[c] = captures[c] /\ closures'[c] = closures[c]
      /\ \A c \in 1..Len(captures') : c \notin 1..Len(captures) =>
            captures'[c] = <<>> /\ closures'[c].upvalues = <<>>
    BY HeapStepKeeps
<1>2. Len(captures) = Len(closures)
    BY DEF Quiet, HistoryInv, CapturesMatch
<1>3. NamesAreLocals'
    BY <1>1, <1>2, NamesAreLocalsNext DEF Quiet
<1>4. ASSUME NEW c \in 1..Len(captures'), NEW k \in 1..Len(captures'[c])
      PROVE  /\ c \in 1..Len(captures) /\ k \in 1..Len(captures[c])
             /\ captures'[c][k] = captures[c][k] /\ Upvalue(c, k)' = Upvalue(c, k)
    <2>1. c \in 1..Len(captures)
        <3> SUFFICES ASSUME c \notin 1..Len(captures) PROVE FALSE
            OBVIOUS
        <3>1. captures'[c] = <<>>
            BY <1>1
        <3> QED BY <3>1
    <2> QED BY <1>1, <2>1 DEF Upvalue
<1>5. CapturesMatch'
    <2>1. ASSUME NEW c \in 1..Len(captures')
          PROVE  Len(captures'[c]) = Len(closures'[c].upvalues)
        <3>1. CASE c \in 1..Len(captures)
            BY <1>1, <3>1 DEF Quiet, HistoryInv, CapturesMatch
        <3>2. CASE c \notin 1..Len(captures)
            BY <1>1, <3>2
        <3> QED BY <3>1, <3>2
    <2>2. ASSUME NEW c \in 1..Len(captures'), NEW k \in 1..Len(captures'[c])
          PROVE  captures'[c][k].born < c
        BY <1>4 DEF Quiet, HistoryInv, CapturesMatch
    <2> QED BY <1>1, <2>1, <2>2 DEF CapturesMatch
<1>6. OpenWhileAlive'
    <2> SUFFICES ASSUME NEW c \in 1..Len(captures'), NEW k \in 1..Len(captures'[c])
                 PROVE  LET location == upvalues'[Upvalue(c, k)'].location IN
                        IF location = CLOSED THEN captures'[c][k] \notin Alive'
                        ELSE location \in DOMAIN names' /\ captures'[c][k] = names'[location]
        BY DEF OpenWhileAlive
    <2>0. /\ c \in 1..Len(captures) /\ k \in 1..Len(captures[c])
          /\ captures'[c][k] = captures[c][k] /\ Upvalue(c, k)' = Upvalue(c, k)
        BY <1>4
    <2> SUFFICES ASSUME NEW u \in 1..Len(upvalues), u = Upvalue(c, k),
                        NEW x \in Variables, x = captures[c][k],
                        NEW old, old = upvalues[u].location,
                        NEW new, new = upvalues'[u].location
                 PROVE  IF new = CLOSED THEN x \notin Alive'
                        ELSE new \in DOMAIN names' /\ x = names'[new]
        BY <2>0, CapturedVariable
    <2>1. /\ IF old = CLOSED THEN x \notin Alive ELSE old \in DOMAIN names /\ x = names[old]
          /\ x.born < c /\ c <= Len(closures) /\ x.born \in Nat
          /\ c \in Nat /\ Len(closures) \in Nat
        <3>1. x.born \in Nat
            BY DEF Variables
        <3>2. IF old = CLOSED THEN x \notin Alive ELSE old \in DOMAIN names /\ x = names[old]
            BY <2>0 DEF Quiet, HistoryInv, OpenWhileAlive
        <3>3. x.born < c /\ Len(captures) = Len(closures)
            BY <2>0, <1>2, CapturedVariable
        <3>4. c \in 1..Len(closures) /\ Len(closures) \in Nat
            BY <2>0, <1>2, Lengths DEF Quiet, HistoryInv, Inv
        <3> QED BY <3>1, <3>2, <3>3, <3>4
    <2>2. new = old \/ (old # CLOSED /\ old \notin Locals(frames') /\ new = CLOSED)
        BY DEF HeapStep, Closing
    <2>3. CASE new # CLOSED
        <3>1. new \in Locals(frames')
            <4>1. u \in 1..Len(upvalues')
                BY DEF HeapStep
            <4> QED BY <2>3, <4>1, OpenAreLocalsNext
        <3>2. new = old
            BY <2>2, <2>3
        <3>3. new \in DOMAIN names' /\ names'[new] = names[new]
            BY <2>1, <2>3, <3>1, <3>2, NamesKept
        <3> QED BY <2>1, <2>3, <3>2, <3>3
    <2>4. CASE new = CLOSED
        <3> SUFFICES ASSUME NEW s \in DOMAIN names', x = names'[s] PROVE FALSE
            BY <2>4 DEF Alive
        <3>1. CASE s \in DOMAIN names
            <4>1. x = names[s]
                BY <3>1, NamesKept
            <4>2. x \in Alive /\ x.slot = s
                BY <3>1, <4>1, AliveVariable
            <4>3. old # CLOSED /\ old \notin Locals(frames') /\ old \in DOMAIN names /\ x = names[old]
                BY <2>1, <2>2, <2>4, <4>2
            <4>4. s = old
                BY <4>2, <4>3, AliveVariable
            <4> QED BY <4>3, <4>4, NamesKept
        <3>2. CASE s \notin DOMAIN names
            <4>1. x = [slot |-> s, born |-> Len(closures)]
                BY <3>2, NamesKept
            <4>2. x.born = Len(closures)
                BY <4>1
            <4> QED BY <2>1, <4>2
        <3> QED BY <3>1, <3>2
    <2> QED BY <2>3, <2>4
<1>7. OneUpvalueEach'
    BY <1>4 DEF Quiet, HistoryInv, OneUpvalueEach
<1> QED BY <1>3, <1>5, <1>6, <1>7 DEF HistoryInv

LEMMA CellsDomain == DOMAIN cells = Alive \cup Captured
    BY DEF cells

LEMMA CellsDomainNext == DOMAIN cells' = Alive' \cup Captured'
    BY DEF cells

LEMMA CapturedKept ==
    ASSUME Quiet, Inv', HeapStep, Remember
    PROVE  Captured' = Captured
<1>1. /\ Len(captures) \in Nat /\ Len(captures') \in {Len(captures), Len(captures) + 1}
      /\ \A c \in 1..Len(captures) : captures'[c] = captures[c]
      /\ \A c \in 1..Len(captures') : c \notin 1..Len(captures) => captures'[c] = <<>>
    BY HeapStepKeeps, LenProperties DEF Quiet, HistoryInv, CapturesMatch
<1>2. ASSUME NEW x \in Captured' PROVE x \in Captured
    <2>1. PICK c \in 1..Len(captures') : \E k \in 1..Len(captures'[c]) : x = captures'[c][k]
        BY DEF Captured
    <2>2. c \in 1..Len(captures)
        <3> SUFFICES ASSUME c \notin 1..Len(captures) PROVE FALSE
            OBVIOUS
        <3>1. captures'[c] = <<>>
            BY <1>1
        <3> QED BY <2>1, <3>1
    <2> QED BY <1>1, <2>1, <2>2 DEF Captured
<1>3. ASSUME NEW x \in Captured PROVE x \in Captured'
    <2>1. PICK c \in 1..Len(captures) : \E k \in 1..Len(captures[c]) : x = captures[c][k]
        BY DEF Captured
    <2>2. c \in 1..Len(captures') /\ captures'[c] = captures[c]
        BY <1>1
    <2> QED BY <2>1, <2>2 DEF Captured
<1> QED BY <1>2, <1>3

(* The value of a captured variable is kept, whether its upvalue stays as  *)
(* it is or is closed.                                                     *)
LEMMA ContentKept ==
    ASSUME Quiet, Quiet', HeapStep, ValuesStay,
           NEW c \in 1..Len(captures), NEW k \in 1..Len(captures[c]),
           NEW u, u = Upvalue(c, k)
    PROVE  Content(u)' = Content(u)
<1>1. u \in 1..Len(upvalues) /\ u \in 1..Len(upvalues') /\ upvalues[u] \in Upvalues
    BY CapturedVariable DEF HeapStep
<1> DEFINE old == upvalues[u].location
           new == upvalues'[u].location
<1>2. CASE new = old
    <2>1. upvalues'[u] = upvalues[u]
        BY <1>1, <1>2 DEF ValuesStay
    <2>2. CASE old = CLOSED
        BY <2>1, <2>2 DEF Content
    <2>3. CASE old # CLOSED
        <3>1. old \in Locals(frames)
            BY <1>1, <2>3, OpenAreLocals DEF Quiet, HistoryInv
        <3>2. new \in Locals(frames')
            BY <1>1, <1>2, <2>3, OpenAreLocalsNext DEF Quiet, HistoryInv
        <3>3. stack'[old] = stack[old]
            BY <1>2, <3>1, <3>2 DEF ValuesStay
        <3> QED BY <2>1, <2>3, <3>3 DEF Content
    <2> QED BY <2>2, <2>3
<1>3. CASE new # old
    <2>1. old # CLOSED /\ new = CLOSED
        BY <1>1, <1>3 DEF HeapStep, Closing
    <2>2. upvalues'[u].closed = stack[old]
        BY <1>1, <1>3 DEF ValuesStay
    <2> QED BY <2>1, <2>2 DEF Content
<1> QED BY <1>2, <1>3

LEMMA CellKept ==
    ASSUME Quiet, Quiet', HeapStep, Name, Remember,
           NEW x \in DOMAIN cells, x \in DOMAIN cells',
           \A s \in Locals(frames) \cap Locals(frames') : names[s] = x => stack'[s] = stack[s],
           \A u \in UpvaluesOf(x) : Content(u)' = Content(u)
    PROVE  cells'[x] = cells[x]
<1>1. x \in Alive \cup Captured /\ x \in Alive' \cup Captured'
    BY CellsDomain, CellsDomainNext
<1>2. cells[x] = ValueOf(x) /\ cells'[x] = ValueOf(x)'
    BY <1>1 DEF cells
<1>3. Captured' = Captured
    BY CapturedKept DEF Quiet, HistoryInv
<1>4. ValuesAgree /\ ValuesAgree'
    BY QuietValues, QuietValuesNext
<1>5. CASE x \in Captured
    <2>1. PICK c \in 1..Len(captures) : \E k \in 1..Len(captures[c]) : x = captures[c][k]
        BY <1>5 DEF Captured
    <2>2. PICK k \in 1..Len(captures[c]) : x = captures[c][k]
        BY <2>1
    <2>3. /\ c \in 1..Len(captures') /\ captures'[c] = captures[c]
          /\ closures'[c] = closures[c]
        BY HeapStepKeeps, LenProperties DEF Quiet, HistoryInv, CapturesMatch
    <2>4. ValueOf(x) = Content(Upvalue(c, k))
        BY <1>4, <2>2 DEF ValuesAgree
    <2> DEFINE u == Upvalue(c, k)
    <2>5. Upvalue(c, k)' = u
        BY <2>3 DEF Upvalue
    <2>6. ValueOf(x)' = Content(Upvalue(c, k))'
        <3>1. k \in 1..Len(captures'[c]) /\ captures'[c][k] = x
            BY <2>2, <2>3
        <3> QED BY <1>4, <2>3, <3>1 DEF ValuesAgree
    <2>7. Content(Upvalue(c, k))' = Content(u)
        <3>1. PICK v : v = u
            OBVIOUS
        <3>2. Content(v)' = Content(v)
            BY <3>1, <2>2 DEF UpvaluesOf
        <3>3. Content(Upvalue(c, k))' = Content(v)'
            BY <2>5, <3>1 DEF Content
        <3> QED BY <3>1, <3>2, <3>3
    <2> QED BY <1>2, <2>4, <2>6, <2>7
<1>6. CASE x \notin Captured
    <2>1. x \in Alive /\ x \in Alive'
        BY <1>1, <1>3, <1>6
    <2>2. PICK t \in DOMAIN names : x = names[t]
        BY <2>1 DEF Alive
    <2>3. PICK s \in DOMAIN names' : x = names'[s]
        BY <2>1 DEF Alive
    <2>4. x.slot = t
        BY <2>2, AliveVariable
    <2>5. x.slot = s
        BY <2>3 DEF Quiet, HistoryInv, NamesAreLocals
    <2>6. s \in Locals(frames) /\ s \in Locals(frames')
        BY <2>2, <2>3, <2>4, <2>5, AliveVariable, NamesKept
    <2>7. stack'[s] = stack[s]
        BY <2>2, <2>4, <2>5, <2>6
    <2>8. ValueOf(x) = stack[s]
        BY <1>4, <2>2, <2>4, <2>5 DEF ValuesAgree
    <2>9. ValueOf(x)' = stack'[s]
        BY <1>4, <2>3 DEF ValuesAgree
    <2> QED BY <1>2, <2>7, <2>8, <2>9
<1> QED BY <1>5, <1>6

LEMMA CellsKept ==
    ASSUME Quiet, Quiet', HeapStep, ValuesStay, Name, Remember,
           NEW x \in DOMAIN cells, x \in DOMAIN cells'
    PROVE  cells'[x] = cells[x]
<1>1. ASSUME NEW u \in UpvaluesOf(x) PROVE Content(u)' = Content(u)
    <2>1. PICK c \in 1..Len(captures) :
            \E k \in 1..Len(captures[c]) : captures[c][k] = x /\ u = Upvalue(c, k)
        BY DEF UpvaluesOf
    <2>2. PICK k \in 1..Len(captures[c]) : u = Upvalue(c, k)
        BY <2>1
    <2> QED BY <2>2, ContentKept
<1>2. \A s \in Locals(frames) \cap Locals(frames') : stack'[s] = stack[s]
    BY DEF ValuesStay
<1> QED BY <1>1, <1>2, CellKept

LEMMA AliveKept ==
    ASSUME Quiet, Name
    PROVE  /\ Locals(frames) \subseteq Locals(frames') => Alive \subseteq Alive'
           /\ Locals(frames') \subseteq Locals(frames) => Alive' \subseteq Alive
<1>1. DOMAIN names = Locals(frames)
    BY DEF Quiet, HistoryInv, NamesAreLocals
<1> QED BY <1>1, NamesKept DEF Alive

LEMMA StepDeclares ==
    ASSUME Quiet, Quiet', HeapStep, ValuesStay, Name, Remember,
           Locals(frames) \subseteq Locals(frames')
    PROVE  C!Declare
<1>1. Captured' = Captured /\ Alive \subseteq Alive'
    BY CapturedKept, AliveKept DEF Quiet, HistoryInv
<1>2. DOMAIN cells = Alive \cup Captured /\ DOMAIN cells' = Alive' \cup Captured'
    BY CellsDomain, CellsDomainNext
<1>3. DOMAIN cells \subseteq DOMAIN cells'
    BY <1>1, <1>2
<1>4. \A x \in DOMAIN cells : cells'[x] = cells[x]
    BY <1>3, CellsKept
<1> QED BY <1>1, <1>3, <1>4 DEF C!Declare, C!Same

LEMMA StepForgets ==
    ASSUME Quiet, Quiet', HeapStep, ValuesStay, Name, Remember,
           Locals(frames') \subseteq Locals(frames)
    PROVE  C!Forget
<1>1. Captured' = Captured /\ Alive' \subseteq Alive
    BY CapturedKept, AliveKept DEF Quiet, HistoryInv
<1>2. DOMAIN cells = Alive \cup Captured /\ DOMAIN cells' = Alive' \cup Captured'
    BY CellsDomain, CellsDomainNext
<1>3. DOMAIN cells' \subseteq DOMAIN cells /\ Captured \subseteq DOMAIN cells'
    BY <1>1, <1>2
<1>4. \A x \in DOMAIN cells' : cells'[x] = cells[x]
    BY <1>3, CellsKept
<1> QED BY <1>1, <1>3, <1>4 DEF C!Forget, C!Same

(* One local more in the running frame.                                    *)
LEMMA OneMoreLocal ==
    ASSUME Inv, frames # <<>>, frames' = WithFrame([Frame EXCEPT !.locals = @ + 1])
    PROVE  Locals(frames) \subseteq Locals(frames')
<1> DEFINE g == [Frame EXCEPT !.locals = @ + 1]
<1>1. Frame \in Frames /\ Frame.slots \in Nat /\ Frame.locals \in Nat
    BY RunningFrame
<1>2. g \in Frames /\ g.slots = Frame.slots /\ g.locals = Frame.locals + 1
    BY <1>1 DEF Frames
<1> HIDE DEF g
<1>3. Window(Frame) \subseteq Window(g)
    BY <1>1, <1>2 DEF Window
<1>4. Locals(frames') = Outer(frames) \cup Window(g)
    BY <1>2, WithFrameLocals DEF g
<1> QED BY <1>3, <1>4, RunningLocals

-----------------------------------------------------------------------------
(* The actions that assign no variable and capture none.                   *)

VariablesStay ==
    /\ HeapStep /\ ValuesStay
    /\ \/ Locals(frames) \subseteq Locals(frames')
       \/ Locals(frames') \subseteq Locals(frames)

LEMMA VariablesStayRefines ==
    ASSUME Quiet, Inv', errors' = 0, VariablesStay, Name, Remember
    PROVE  HistoryInv' /\ (C!Declare \/ C!Forget)
<1>1. HistoryInv'
    BY HeapStepKeepsHistory DEF VariablesStay
<1>2. Quiet'
    BY <1>1 DEF Quiet
<1> QED BY <1>1, <1>2, StepDeclares, StepForgets DEF VariablesStay

LEMMA HeapUntouched ==
    ASSUME linking = <<>>, UNCHANGED <<closures, upvalues, linking>>,
           \A s \in Locals(frames) : stack'[s] = stack[s]
    PROVE  HeapStep /\ ValuesStay
    BY DEF HeapStep, ValuesStay

LEMMA PushedAbove ==
    ASSUME Inv, NEW v, stack' = Pushed(v), NEW s \in Locals(frames)
    PROVE  stack'[s] = stack[s]
<1>1. s \in Slot /\ s < stackTop /\ s \in Int /\ stackTop \in Int
    BY LocalsBelow DEF Slot, Inv, TypeOK
<1>2. s # stackTop
    BY <1>1
<1> QED BY <1>1, <1>2 DEF Pushed, Inv, TypeOK

LEMMA PushStays ==
    ASSUME Inv, NEW v, Push(v)
    PROVE  VariablesStay
<1>1. \A s \in Locals(frames) : stack'[s] = stack[s]
    BY PushedAbove DEF Push
<1>2. UNCHANGED frames /\ linking = <<>> /\ UNCHANGED <<closures, upvalues, linking>>
    BY DEF Push, Running, heap
<1> QED BY <1>1, <1>2, HeapUntouched DEF VariablesStay

LEMMA StackStays ==
    ASSUME Running, UNCHANGED <<stack, frames, heap>>
    PROVE  VariablesStay
    BY HeapUntouched DEF VariablesStay, Running, heap

LEMMA DeclareLocalStays ==
    ASSUME Inv, DeclareLocal
    PROVE  VariablesStay
<1>1. /\ frames # <<>> /\ linking = <<>> /\ UNCHANGED <<stack, closures, upvalues, linking>>
      /\ frames' = WithFrame([Frame EXCEPT !.locals = @ + 1])
    BY DEF DeclareLocal, Running, heap
<1>2. HeapStep /\ ValuesStay
    BY <1>1, HeapUntouched
<1>3. Locals(frames) \subseteq Locals(frames')
    BY <1>1, OneMoreLocal
<1> QED BY <1>2, <1>3 DEF VariablesStay

LEMMA CallStays ==
    ASSUME Inv, Call, errors' = errors
    PROVE  VariablesStay
<1>1. errors \in Nat
    BY DEF Inv, TypeOK
<1>2. /\ Running /\ UNCHANGED <<stack, heap>>
      /\ \E g : frames' = Append(frames, g)
    BY <1>1 DEF Call, RuntimeError
<1>3. Locals(frames) \subseteq Locals(frames')
    BY <1>2, AppendLocals
<1> QED BY <1>2, <1>3, HeapUntouched DEF VariablesStay, Running, heap

LEMMA StartLineStays ==
    ASSUME Inv, StartLine
    PROVE  VariablesStay
<1>1. Locals(frames) = {}
    BY DEF StartLine, Locals
<1>2. linking = <<>>
    BY DEF StartLine, Inv, LinksExist
<1> QED BY <1>1, <1>2 DEF StartLine, VariablesStay, HeapStep, ValuesStay

LEMMA MakeClosureStays ==
    ASSUME Inv, MakeClosure
    PROVE  VariablesStay
<1>1. /\ frames # <<>> /\ linking = <<>> /\ UNCHANGED upvalues
      /\ stack' = Pushed(Len(closures) + 1)
      /\ \E arity \in 0..MaxArity :
            closures' = Append(closures, [arity |-> arity, upvalues |-> <<>>])
      /\ UNCHANGED frames \/ frames' = WithFrame([Frame EXCEPT !.locals = @ + 1])
    BY DEF MakeClosure, Running
<1>2. \A s \in Locals(frames) : stack'[s] = stack[s]
    BY <1>1, PushedAbove
<1>3. Locals(frames) \subseteq Locals(frames')
    BY <1>1, OneMoreLocal
<1>4. HeapStep
    <2>1. \E arity \in Nat : closures' = Append(closures, [arity |-> arity, upvalues |-> <<>>])
        BY <1>1
    <2> QED BY <1>1, <2>1 DEF HeapStep
<1> QED BY <1>1, <1>2, <1>3, <1>4 DEF VariablesStay, ValuesStay

(* Upvalues are closed for slots from last up, none of which stays a local. *)
LEMMA ClosingStep ==
    ASSUME Inv, linking = <<>>, NEW last \in Int, CloseUpvalues(last),
           \A s \in Locals(frames') : s < last,
           \A s \in Locals(frames') : stack'[s] = stack[s]
    PROVE  HeapStep /\ ValuesStay
<1> DEFINE passed == Passed(last - 1)
           closing == {openUpvalues[k] : k \in 1..passed}
<1>1. /\ upvalues' = [u \in 1..Len(upvalues) |->
                        IF u \in closing
                        THEN [location |-> CLOSED, closed |-> stack[upvalues[u].location]]
                        ELSE upvalues[u]]
      /\ UNCHANGED <<closures, linking>>
    BY DEF CloseUpvalues
<1>2. ASSUME NEW u \in closing
      PROVE  Closing(u)
    <2>1. PICK k \in 1..passed : u = openUpvalues[k]
        BY <1>2
    <2>2. passed \in 0..Len(openUpvalues) /\ \A j \in 1..passed : Location(j) > last - 1
        BY PassedStops DEF Inv
    <2>3. k \in 1..Len(openUpvalues) /\ Location(k) > last - 1
        <3> HIDE DEF passed
        <3> QED BY <2>1, <2>2, Lengths DEF Inv
    <2>4. upvalues[u].location = Location(k) /\ Location(k) \in Slot
        BY <2>1, <2>3, OpenAreSlots DEF Location
    <2>5. Location(k) \in Int /\ Location(k) # CLOSED
        BY <2>4 DEF Slot, CLOSED
    <2>6. Location(k) \notin Locals(frames')
        <3> SUFFICES ASSUME Location(k) \in Locals(frames') PROVE FALSE
            OBVIOUS
        <3>1. Location(k) < last
            OBVIOUS
        <3> QED BY <2>3, <2>5, <3>1
    <2> QED BY <2>4, <2>5, <2>6 DEF Closing
<1>3. Len(upvalues') = Len(upvalues)
    <2>1. Len(upvalues) \in Nat
        BY Lengths DEF Inv
    <2> QED BY <1>1, <2>1
<1> HIDE DEF closing
<1>4. ASSUME NEW u \in 1..Len(upvalues)
      PROVE  \/ upvalues'[u] = upvalues[u]
             \/ /\ Closing(u) /\ upvalues'[u].location = CLOSED
                /\ upvalues'[u].closed = stack[upvalues[u].location]
    BY <1>1, <1>2
<1>5. HeapStep
    BY <1>1, <1>3, <1>4 DEF HeapStep
<1>6. ValuesStay
    BY <1>4 DEF ValuesStay, Closing
<1> QED BY <1>5, <1>6

LEMMA EndLocalStays ==
    ASSUME Inv, EndLocal
    PROVE  VariablesStay
<1> DEFINE slot == stackTop - 1
           g == [Frame EXCEPT !.locals = @ - 1, !.captured = @ \ {slot}]
<1>1. /\ frames # <<>> /\ linking = <<>> /\ Temporaries = 0 /\ Frame.locals > Frame.params
      /\ CloseUpvalues(slot) \/ UNCHANGED heap
      /\ UNCHANGED stack /\ frames' = WithFrame(g)
    BY DEF EndLocal, Running
<1>2. /\ Frame \in Frames /\ Frame.slots \in Nat /\ Frame.locals \in Nat /\ stackTop \in Nat
    BY <1>1, RunningFrame
<1>3. /\ g \in Frames /\ g.slots = Frame.slots /\ g.locals = Frame.locals - 1
    <2>1. Frame.params \in Nat \ {0}
        BY <1>2 DEF Frames
    <2>2. Frame.locals - 1 \in Nat \ {0}
        BY <1>1, <1>2, <2>1
    <2> QED BY <1>2, <2>2 DEF Frames
<1> HIDE DEF g
<1>4. slot = Frame.slots + Frame.locals - 1 /\ slot \in Int
    BY <1>1, <1>2 DEF Temporaries, LocalsEnd
<1> HIDE DEF slot
<1>5. Locals(frames') = Outer(frames) \cup Window(g)
    BY <1>1, <1>3, WithFrameLocals
<1>6. Locals(frames) = Outer(frames) \cup Window(Frame)
    BY <1>1, RunningLocals
<1>7. Window(g) \subseteq Window(Frame) /\ \A s \in Window(g) : s < slot
    BY <1>2, <1>3, <1>4 DEF Window
<1>8. \A s \in Outer(frames) : s < slot
    BY <1>1, <1>2, <1>4, OuterBelow, RunningFrame
<1>9. HeapStep /\ ValuesStay
    <2>1. CASE CloseUpvalues(slot)
        BY <1>1, <1>4, <1>5, <1>7, <1>8, <2>1, ClosingStep
    <2>2. CASE UNCHANGED heap
        BY <1>1, <2>2, HeapUntouched DEF heap
    <2> QED BY <1>1, <2>1, <2>2
<1> QED BY <1>5, <1>6, <1>7, <1>9 DEF VariablesStay

LEMMA ReturnStays ==
    ASSUME Inv, Return
    PROVE  VariablesStay
<1>1. /\ frames # <<>> /\ linking = <<>> /\ CloseUpvalues(Frame.slots)
      /\ frames' = Front(frames) /\ stack' = [stack EXCEPT ![Frame.slots] = Top]
    BY DEF Return, Running
<1>2. Frame.slots \in Nat
    BY <1>1, RunningFrame
<1>3. Locals(frames') = Outer(frames) /\ Locals(frames) = Outer(frames) \cup Window(Frame)
    BY <1>1, FrontLocals, RunningLocals
<1>4. \A s \in Locals(frames') : s < Frame.slots /\ s \in Nat
    BY <1>1, <1>3, OuterBelow
<1>5. \A s \in Locals(frames') : stack'[s] = stack[s]
    <2> SUFFICES ASSUME NEW s \in Locals(frames') PROVE stack'[s] = stack[s]
        OBVIOUS
    <2>1. s \in Slot /\ s # Frame.slots
        BY <1>2, <1>3, <1>4, LocalsBelow
    <2> QED BY <1>1, <2>1 DEF Inv, TypeOK
<1>6. HeapStep /\ ValuesStay
    BY <1>1, <1>2, <1>4, <1>5, ClosingStep
<1> QED BY <1>3, <1>6 DEF VariablesStay

LEMMA EndLineStays ==
    ASSUME Inv, EndLine
    PROVE  VariablesStay
<1>1. /\ frames # <<>> /\ linking = <<>> /\ CloseUpvalues(Frame.slots) /\ frames' = <<>>
    BY DEF EndLine, Running
<1>2. Locals(frames') = {}
    BY <1>1 DEF Locals
<1>3. Frame.slots \in Int
    BY <1>1, RunningFrame
<1>4. HeapStep /\ ValuesStay
    BY <1>1, <1>2, <1>3, ClosingStep
<1> QED BY <1>2, <1>4 DEF VariablesStay

-----------------------------------------------------------------------------
(* The actions that assign a variable.                                     *)

LEMMA AssignmentKeepsHistory ==
    ASSUME Quiet, Inv', errors' = 0, Name, Remember,
           linking = <<>>, UNCHANGED <<frames, closures, linking>>,
           Len(upvalues') = Len(upvalues),
           \A u \in 1..Len(upvalues) : upvalues'[u].location = upvalues[u].location
    PROVE  /\ HeapStep /\ Quiet'
           /\ Captured' = Captured /\ Alive' = Alive
<1>1. HeapStep
    BY DEF HeapStep
<1>2. Quiet'
    BY <1>1, HeapStepKeepsHistory DEF Quiet
<1> QED BY <1>1, <1>2, CapturedKept, AliveKept

LEMMA AssignmentRefines ==
    ASSUME Quiet, Quiet', HeapStep, Name, Remember,
           Captured' = Captured, Alive' = Alive, NEW x \in DOMAIN cells,
           \A s \in Locals(frames) : names[s] # x => stack'[s] = stack[s],
           \A y \in DOMAIN cells \ {x} : \A u \in UpvaluesOf(y) : Content(u)' = Content(u)
    PROVE  C!Assign
<1>1. DOMAIN cells' = DOMAIN cells
    BY CellsDomain, CellsDomainNext
<1>2. ASSUME NEW y \in DOMAIN cells \ {x} PROVE cells'[y] = cells[y]
    BY <1>1, CellKept
<1> QED BY <1>1, <1>2 DEF C!Assign, C!Same

(* A slot is assigned: no upvalue but those of its variable see it.        *)
LEMMA SlotAssigned ==
    ASSUME Quiet, Inv', errors' = 0, Name, Remember,
           linking = <<>>, UNCHANGED <<frames, closures, linking, upvalues>>,
           NEW slot \in Locals(frames), NEW v, stack' = [stack EXCEPT ![slot] = v]
    PROVE  HistoryInv' /\ C!Assign
<1>1. HeapStep /\ Quiet' /\ Captured' = Captured /\ Alive' = Alive
    BY AssignmentKeepsHistory
<1>2. DOMAIN names = Locals(frames)
    BY DEF Quiet, HistoryInv, NamesAreLocals
<1>3. PICK x : x = names[slot]
    OBVIOUS
<1>4. x \in DOMAIN cells
    BY <1>2, <1>3, AliveVariable, CellsDomain
<1>5. \A s \in Slot : s # slot => stack'[s] = stack[s]
    BY DEF Quiet, HistoryInv, Inv, TypeOK
<1>6. \A s \in Locals(frames) : names[s] # x => stack'[s] = stack[s]
    BY <1>2, <1>3, <1>5, AliveVariable
<1>7. ASSUME NEW y \in DOMAIN cells \ {x}, NEW u \in UpvaluesOf(y)
      PROVE  Content(u)' = Content(u)
    <2>1. PICK c \in 1..Len(captures) :
            \E k \in 1..Len(captures[c]) : captures[c][k] = y /\ u = Upvalue(c, k)
        BY DEF UpvaluesOf
    <2>2. PICK k \in 1..Len(captures[c]) : captures[c][k] = y /\ u = Upvalue(c, k)
        BY <2>1
    <2>3. upvalues[u].location # CLOSED =>
            upvalues[u].location \in DOMAIN names /\ y = names[upvalues[u].location]
        BY <2>2 DEF Quiet, HistoryInv, OpenWhileAlive
    <2>4. upvalues[u].location # CLOSED =>
            upvalues[u].location \in Slot /\ upvalues[u].location # slot
        BY <1>3, <2>3, AliveVariable
    <2> QED BY <1>5, <2>4 DEF Content
<1> QED BY <1>1, <1>4, <1>6, <1>7, AssignmentRefines DEF Quiet

LEMMA SetLocalAssigns ==
    ASSUME Quiet, Inv', SetLocal, Name, Remember
    PROVE  HistoryInv' /\ C!Assign
<1>1. /\ frames # <<>> /\ linking = <<>> /\ UNCHANGED <<frames, closures, linking, upvalues>>
      /\ errors' = errors
    BY DEF SetLocal, Running, heap
<1>2. PICK n \in 0..Frame.locals - 1 : stack' = [stack EXCEPT ![Frame.slots + n] = Top]
    BY DEF SetLocal
<1>3. Frame.slots + n \in Locals(frames)
    <2>1. Frame.slots \in Nat /\ Frame.locals \in Nat
        BY <1>1, RunningFrame DEF Quiet, HistoryInv
    <2>2. Frame.slots + n \in Window(Frame)
        BY <2>1 DEF Window
    <2> QED BY <1>1, <2>2, RunningLocals DEF Quiet, HistoryInv
<1> QED BY <1>1, <1>2, <1>3, SlotAssigned DEF Quiet

LEMMA SetUpvalueAssigns ==
    ASSUME Quiet, Inv', SetUpvalue, Name, Remember
    PROVE  HistoryInv' /\ C!Assign
<1>1. /\ frames # <<>> /\ linking = <<>> /\ UNCHANGED <<frames, closures, linking>>
      /\ errors' = 0
    BY DEF SetUpvalue, Running, Quiet
<1>2. PICK k \in 1..Len(Captures) :
        LET u == Captures[k] IN
        IF upvalues[u].location = CLOSED
        THEN upvalues' = [upvalues EXCEPT ![u].closed = Top] /\ UNCHANGED stack
        ELSE stack' = [stack EXCEPT ![upvalues[u].location] = Top] /\ UNCHANGED upvalues
    BY DEF SetUpvalue
<1>3. PICK u : u = Captures[k]
    OBVIOUS
<1>4. PICK c : c = Frame.closure
    OBVIOUS
<1>5. /\ c \in 1..Len(captures) /\ k \in 1..Len(captures[c]) /\ u = Upvalue(c, k)
    <2>1. Frame.closure \in 1..Len(closures)
        BY <1>1, RunningFrame DEF Quiet, HistoryInv
    <2>2. c \in 1..Len(captures) /\ Len(captures[c]) = Len(closures[c].upvalues)
        BY <1>4, <2>1 DEF Quiet, HistoryInv, CapturesMatch
    <2> QED BY <1>3, <1>4, <2>2 DEF Captures, Upvalue
<1>6. PICK x : x = captures[c][k]
    OBVIOUS
<1>7. x \in DOMAIN cells
    BY <1>5, <1>6, CellsDomain DEF Captured
<1>8. CASE upvalues[u].location = CLOSED
    <2>1. upvalues' = [upvalues EXCEPT ![u].closed = Top] /\ UNCHANGED stack
        BY <1>2, <1>3, <1>8
    <2>2. /\ Len(upvalues') = Len(upvalues)
          /\ \A v \in 1..Len(upvalues) : /\ upvalues'[v].location = upvalues[v].location
                                         /\ v # u => upvalues'[v] = upvalues[v]
        <3>1. upvalues \in Seq(Upvalues) /\ u \in 1..Len(upvalues) /\ upvalues[u] \in Upvalues
            BY <1>5, CapturedVariable DEF Quiet, HistoryInv, Inv, TypeOK
        <3>2. PICK e : e = [upvalues[u] EXCEPT !.closed = Top]
            OBVIOUS
        <3>3. e.location = upvalues[u].location
            BY <3>1, <3>2 DEF Upvalues
        <3>4. upvalues' = [upvalues EXCEPT ![u] = e]
            BY <2>1, <3>2
        <3>5. DOMAIN upvalues' = DOMAIN upvalues /\ DOMAIN upvalues = 1..Len(upvalues)
            BY <3>1, <3>4, LenProperties
        <3> QED BY <3>1, <3>3, <3>4, <3>5
    <2>3. HeapStep /\ Quiet' /\ Captured' = Captured /\ Alive' = Alive
        BY <1>1, <2>2, AssignmentKeepsHistory
    <2>4. ASSUME NEW y \in DOMAIN cells \ {x}, NEW v \in UpvaluesOf(y)
          PROVE  Content(v)' = Content(v)
        <3>1. PICK d \in 1..Len(captures) :
                \E j \in 1..Len(captures[d]) : captures[d][j] = y /\ v = Upvalue(d, j)
            BY DEF UpvaluesOf
        <3>2. PICK j \in 1..Len(captures[d]) : captures[d][j] = y /\ v = Upvalue(d, j)
            BY <3>1
        <3>3. v # u
            BY <1>5, <1>6, <3>2 DEF Quiet, HistoryInv, OneUpvalueEach
        <3>4. v \in 1..Len(upvalues)
            BY <3>2, CapturedVariable
        <3> QED BY <2>1, <2>2, <3>3, <3>4 DEF Content
    <2> QED BY <1>7, <2>1, <2>3, <2>4, AssignmentRefines DEF Quiet
<1>9. CASE upvalues[u].location # CLOSED
    <2>1. PICK slot : slot = upvalues[u].location
        OBVIOUS
    <2>2. stack' = [stack EXCEPT ![slot] = Top] /\ UNCHANGED upvalues
        BY <1>2, <1>3, <1>9, <2>1
    <2>3. slot \in Locals(frames)
        BY <1>5, <1>9, <2>1 DEF Quiet, HistoryInv, OpenWhileAlive, NamesAreLocals
    <2> QED BY <1>1, <2>2, <2>3, SlotAssigned
<1> QED BY <1>8, <1>9

-----------------------------------------------------------------------------
(* Linking: the closure being made captures one more variable.             *)

(* u is the upvalue of variable x after the step, in the other closures too. *)
StandsFor(u, x) ==
    /\ u \in 1..Len(upvalues')
    /\ LET location == upvalues'[u].location IN
       IF location = CLOSED THEN x \notin Alive
       ELSE location \in DOMAIN names /\ x = names[location]
    /\ \A d \in 1..Len(captures) : \A j \in 1..Len(captures[d]) :
            captures[d][j] = x <=> Upvalue(d, j) = u

LEMMA LocalLinked ==
    ASSUME Quiet, linking # <<>>, NEW local \in Locals(frames), CaptureUpvalue(local)
    PROVE  /\ Len(upvalues') >= Len(upvalues)
           /\ \A u \in 1..Len(upvalues) : upvalues'[u] = upvalues[u]
           /\ \E u \in 1..Len(upvalues') :
                /\ StandsFor(u, names[local])
                /\ closures' = [closures EXCEPT ![Len(closures)].upvalues = Append(@, u)]
<1> DEFINE passed == Passed(local)
           x == names[local]
<1>1. /\ local \in DOMAIN names /\ x \in Alive /\ local \in Slot /\ local # CLOSED
      /\ local \in Int
    <2>1. local \in DOMAIN names
        BY DEF Quiet, HistoryInv, NamesAreLocals
    <2> QED BY <2>1, AliveVariable DEF Slot, CLOSED
<1>2. /\ Inv /\ Len(upvalues) \in Nat /\ Len(openUpvalues) \in Nat
      /\ \A k \in 1..Len(openUpvalues) : openUpvalues[k] \in 1..Len(upvalues)
    BY Lengths DEF Quiet, HistoryInv, Inv
(* The upvalues of a closure that captured x are the open ones there.      *)
<1>3. ASSUME NEW d \in 1..Len(captures), NEW j \in 1..Len(captures[d])
      PROVE  captures[d][j] = x <=> upvalues[Upvalue(d, j)].location = local
    <2>1. LET location == upvalues[Upvalue(d, j)].location IN
          IF location = CLOSED THEN captures[d][j] \notin Alive
          ELSE location \in DOMAIN names /\ captures[d][j] = names[location]
        BY DEF Quiet, HistoryInv, OpenWhileAlive
    <2> QED BY <1>1, <2>1, AliveVariable
<1>4. ASSUME NEW v \in 1..Len(upvalues), upvalues[v].location = local
      PROVE  \E k \in 1..Len(openUpvalues) : openUpvalues[k] = v /\ Location(k) = local
    <2>1. v \in ToSet(openUpvalues)
        BY <1>1, <1>2, <1>4 DEF Inv, NoDangling, Quiet
    <2>2. DOMAIN openUpvalues = 1..Len(openUpvalues)
        BY <1>2, LenProperties DEF Inv, TypeOK
    <2> QED BY <1>4, <2>1, <2>2 DEF ToSet, Location
<1>5. CASE /\ UNCHANGED <<upvalues, openUpvalues>>
           /\ passed + 1 \in 1..Len(openUpvalues) /\ Location(passed + 1) = local
           /\ closures' = [closures EXCEPT ![Len(closures)].upvalues =
                                Append(@, openUpvalues[passed + 1])]
    <2>1. PICK p \in 1..Len(openUpvalues) : p = passed + 1
        BY <1>5
    <2>2. PICK u \in 1..Len(upvalues) : u = openUpvalues[p]
        BY <1>2
    <2>3. upvalues[u].location = local
        BY <1>5, <2>1, <2>2 DEF Location
    <2>4. ASSUME NEW v \in 1..Len(upvalues), upvalues[v].location = local PROVE v = u
        <3>1. PICK k \in 1..Len(openUpvalues) : openUpvalues[k] = v /\ Location(k) = local
            BY <1>4, <2>4
        <3>2. Location(p) = local
            BY <1>5, <2>1
        <3>3. k = p
            <4>1. ~(k < p) /\ ~(p < k)
                BY <1>1, <3>1, <3>2, <1>2 DEF Inv, OpenSorted, Location
            <4> QED BY <4>1
        <3> QED BY <2>2, <3>1, <3>3
    <2>5. StandsFor(u, x)
        <3>1. \A d \in 1..Len(captures) : \A j \in 1..Len(captures[d]) :
                captures[d][j] = x <=> Upvalue(d, j) = u
            BY <1>3, <2>3, <2>4, CapturedVariable
        <3>2. u \in 1..Len(upvalues') /\ upvalues'[u].location = local
            BY <1>5, <2>3
        <3> QED BY <1>1, <3>1, <3>2 DEF StandsFor
    <2>6. closures' = [closures EXCEPT ![Len(closures)].upvalues = Append(@, u)]
        BY <1>5, <2>1, <2>2
    <2>7. Len(upvalues') = Len(upvalues) /\ \A v \in 1..Len(upvalues) : upvalues'[v] = upvalues[v]
        BY <1>5
    <2>8. Len(upvalues') >= Len(upvalues) /\ u \in 1..Len(upvalues')
        BY <1>2, <2>7
    <2> HIDE DEF x
    <2>9. \E w \in 1..Len(upvalues') :
            /\ StandsFor(w, x)
            /\ closures' = [closures EXCEPT ![Len(closures)].upvalues = Append(@, w)]
        BY <2>5, <2>6, <2>8
    <2> QED BY <2>7, <2>8, <2>9 DEF x
<1>6. CASE /\ passed \in 0..Len(openUpvalues)
           /\ upvalues' = Append(upvalues, [location |-> local, closed |-> NIL])
           /\ upvalues' \in Seq(Upvalues)
           /\ Len(openUpvalues') = Len(openUpvalues) + 1
           /\ \A k \in 1..passed : Location(k) > local
           /\ \A k \in passed + 2..Len(openUpvalues) + 1 : Location(k - 1) < local
           /\ closures' = [closures EXCEPT ![Len(closures)].upvalues =
                                Append(@, Len(upvalues) + 1)]
    <2>1. PICK u : u = Len(upvalues) + 1
        OBVIOUS
    <2>2. /\ Len(upvalues') = Len(upvalues) + 1
          /\ upvalues'[u].location = local
          /\ \A v \in 1..Len(upvalues) : upvalues'[v] = upvalues[v]
        <3>1. PICK e : e = [location |-> local, closed |-> NIL]
            OBVIOUS
        <3>2. e.location = local
            BY <3>1
        <3>3. e \in Upvalues
            BY <1>1, <3>1 DEF Upvalues, Values
        <3>4. upvalues \in Seq(Upvalues) /\ upvalues' = Append(upvalues, e)
            BY <1>2, <1>6, <3>1 DEF Inv, TypeOK
        <3> QED BY <2>1, <3>2, <3>3, <3>4, AppendProperties
    <2>3. ASSUME NEW v \in 1..Len(upvalues), upvalues[v].location = local PROVE FALSE
        <3>1. PICK k \in 1..Len(openUpvalues) : Location(k) = local
            BY <1>4, <2>3
        <3>2. PICK p \in 0..Len(openUpvalues) : p = passed
            BY <1>6
        <3>3. CASE k \in 1..p
            BY <1>1, <1>6, <3>1, <3>2, <3>3
        <3>4. CASE k \notin 1..p
            <4>1. PICK i \in p + 2..Len(openUpvalues) + 1 : k = i - 1
                <5>1. k + 1 \in p + 2..Len(openUpvalues) + 1 /\ k = (k + 1) - 1
                    BY <1>2, <3>4
                <5> QED BY <5>1
            <4>2. Location(i - 1) < local
                BY <1>6, <3>2
            <4> QED BY <1>1, <3>1, <4>1, <4>2
        <3> QED BY <3>3, <3>4
    <2>4. StandsFor(u, x)
        <3>1. \A d \in 1..Len(captures) : \A j \in 1..Len(captures[d]) :
                captures[d][j] # x /\ Upvalue(d, j) # u
            <4> SUFFICES ASSUME NEW d \in 1..Len(captures), NEW j \in 1..Len(captures[d])
                         PROVE  captures[d][j] # x /\ Upvalue(d, j) # u
                OBVIOUS
            <4>1. Upvalue(d, j) \in 1..Len(upvalues)
                BY CapturedVariable
            <4>2. Upvalue(d, j) # u
                BY <1>2, <2>1, <4>1
            <4> QED BY <1>3, <2>3, <4>1, <4>2
        <3>2. u \in 1..Len(upvalues') /\ upvalues'[u].location = local
            BY <1>2, <2>1, <2>2
        <3> QED BY <1>1, <3>1, <3>2 DEF StandsFor
    <2>5. closures' = [closures EXCEPT ![Len(closures)].upvalues = Append(@, u)]
        BY <1>6, <2>1
    <2>6. u \in 1..Len(upvalues') /\ Len(upvalues') >= Len(upvalues)
        BY <1>2, <2>1, <2>2
    <2> QED BY <2>2, <2>4, <2>5, <2>6
<1> QED BY <1>1, <1>2, <1>5, <1>6, CaptureInserts

(* The step of linking, whatever it is that is linked.                     *)
LinkStep(u, x) ==
    /\ linking # <<>> /\ Len(closures) # 0
    /\ Locals(frames') = Locals(frames) /\ UNCHANGED stack
    /\ Len(upvalues') >= Len(upvalues)
    /\ \A v \in 1..Len(upvalues) : upvalues'[v] = upvalues[v]
    /\ x \in Variables /\ x.born < Len(closures) /\ x \in Alive \cup Captured
    /\ StandsFor(u, x)
    /\ closures' = [closures EXCEPT ![Len(closures)].upvalues = Append(@, u)]
    /\ captures' = [captures EXCEPT ![Len(captures)] = Append(@, x)]

LEMMA LinkIsLinkStep ==
    ASSUME Quiet, Link, Remember
    PROVE  \E u, x : LinkStep(u, x)
<1>1. /\ linking # <<>> /\ frames # <<>> /\ UNCHANGED stack
      /\ linking \in Seq([isLocal : BOOLEAN, index : Nat])
    BY DEF Link, Quiet, HistoryInv, Inv, LinksExist, TypeOK
<1> DEFINE link == Head(linking)
           local == Frame.slots + link.index
           n == Len(closures)
<1>2. /\ link \in [isLocal : BOOLEAN, index : Nat]
      /\ link.index < IF link.isLocal THEN Frame.locals ELSE Len(Captures)
    <2>1. Len(linking) \in Nat \ {0} /\ link = linking[1]
        BY <1>1, EmptySeq, LenProperties
    <2>2. 1 \in 1..Len(linking)
        BY <2>1
    <2>3. linking[1] \in [isLocal : BOOLEAN, index : Nat]
        BY <1>1, <2>2, ElementOfSeq
    <2>4. linking[1].index < IF linking[1].isLocal THEN Frame.locals ELSE Len(Captures)
        BY <1>1, <2>2 DEF Quiet, HistoryInv, Inv, LinksExist
    <2> QED BY <2>1, <2>3, <2>4
<1>3. /\ Frame \in Frames /\ Frame.slots \in Nat /\ Frame.locals \in Nat \ {0}
      /\ Frame.closure \in 1..n /\ n \in Nat /\ n # 0
      /\ Len(captures) = n
    BY <1>1, RunningFrame, Lengths DEF Quiet, HistoryInv, Inv, CapturesMatch
<1>4. captures' = [captures EXCEPT ![Len(captures)] =
            Append(@, IF link.isLocal THEN names[local]
                      ELSE captures[Frame.closure][link.index + 1])]
    BY <1>1 DEF Remember
<1>5. CASE link.isLocal
    <2>1. PICK l : l = local
        OBVIOUS
    <2>2. CaptureUpvalue(l) /\ frames' = WithFrame([Frame EXCEPT !.captured = @ \cup {l}])
        BY <1>5, <2>1 DEF Link
    <2>3. l \in Locals(frames)
        <3>1. l \in Window(Frame)
            BY <1>2, <1>3, <1>5, <2>1 DEF Window
        <3> QED BY <1>1, <3>1, RunningLocals DEF Quiet, HistoryInv
    <2>4. Locals(frames') = Locals(frames)
        <3> DEFINE g == [Frame EXCEPT !.captured = @ \cup {l}]
        <3>1. l \in Slot
            BY <2>3, LocalsBelow DEF Quiet, HistoryInv
        <3>2. g \in Frames /\ g.slots = Frame.slots /\ g.locals = Frame.locals
            BY <1>3, <3>1 DEF Frames
        <3> HIDE DEF g
        <3>3. Locals(frames') = Outer(frames) \cup Window(g)
            BY <1>1, <2>2, <3>2, WithFrameLocals DEF g, Quiet, HistoryInv
        <3>4. Window(g) = Window(Frame)
            BY <3>2 DEF Window
        <3> QED BY <1>1, <3>3, <3>4, RunningLocals DEF Quiet, HistoryInv
    <2>5. PICK u \in 1..Len(upvalues') :
            /\ StandsFor(u, names[l])
            /\ closures' = [closures EXCEPT ![Len(closures)].upvalues = Append(@, u)]
        BY <1>1, <2>2, <2>3, LocalLinked
    <2>6. /\ Len(upvalues') >= Len(upvalues)
          /\ \A v \in 1..Len(upvalues) : upvalues'[v] = upvalues[v]
        BY <1>1, <2>2, <2>3, LocalLinked
    <2>7. /\ names[l] \in Variables /\ names[l].born < Len(closures)
          /\ names[l] \in Alive \cup Captured
        BY <1>1, <2>3, AliveVariable DEF Quiet, HistoryInv, NamesAreLocals
    <2>8. captures' = [captures EXCEPT ![Len(captures)] = Append(@, names[l])]
        BY <1>4, <1>5, <2>1
    <2> HIDE DEF link, local
    <2>9. LinkStep(u, names[l])
        BY <1>1, <1>3, <2>4, <2>5, <2>6, <2>7, <2>8 DEF LinkStep
    <2> QED BY <2>9
<1>6. CASE ~link.isLocal
    <2>1. PICK c : c = Frame.closure
        OBVIOUS
    <2>2. PICK k : k = link.index + 1
        OBVIOUS
    <2>3. /\ closures' = [closures EXCEPT ![Len(closures)].upvalues = Append(@, Captures[k])]
          /\ UNCHANGED <<upvalues, frames>>
        BY <1>6, <2>2 DEF Link
    <2>4. /\ c \in 1..Len(captures) /\ k \in 1..Len(captures[c])
          /\ Captures[k] = Upvalue(c, k)
        <3>1. c \in 1..Len(captures)
            BY <1>3, <2>1
        <3>2. Len(captures[c]) = Len(Captures)
            BY <2>1, <3>1 DEF Quiet, HistoryInv, CapturesMatch, Captures
        <3>3. Len(Captures) \in Nat
            BY <1>1, RunningFrame, LenProperties DEF Quiet, HistoryInv
        <3>4. k \in 1..Len(Captures)
            <4>1. link.index \in Nat /\ link.index < Len(Captures)
                BY <1>2, <1>6
            <4> HIDE DEF link
            <4> QED BY <2>2, <3>3, <4>1
        <3> QED BY <2>1, <3>1, <3>2, <3>4 DEF Captures, Upvalue
    <2>5. PICK u : u = Upvalue(c, k)
        OBVIOUS
    <2>6. PICK x : x = captures[c][k]
        OBVIOUS
    <2>7. StandsFor(u, x)
        <3>1. u \in 1..Len(upvalues) /\ upvalues' = upvalues
            BY <2>3, <2>4, <2>5, CapturedVariable
        <3>2. LET location == upvalues[u].location IN
              IF location = CLOSED THEN x \notin Alive
              ELSE location \in DOMAIN names /\ x = names[location]
            BY <2>4, <2>5, <2>6 DEF Quiet, HistoryInv, OpenWhileAlive
        <3>3. \A d \in 1..Len(captures) : \A j \in 1..Len(captures[d]) :
                captures[d][j] = x <=> Upvalue(d, j) = u
            BY <2>4, <2>5, <2>6 DEF Quiet, HistoryInv, OneUpvalueEach
        <3> QED BY <3>1, <3>2, <3>3 DEF StandsFor
    <2>8. x \in Variables /\ x.born < n /\ x \in Alive \cup Captured
        <3>1. x \in Variables /\ x.born < c /\ x \in Captured
            BY <2>4, <2>6, CapturedVariable DEF Captured
        <3>2. x.born \in Nat
            BY <3>1 DEF Variables
        <3> QED BY <1>3, <2>1, <3>1, <3>2
    <2>9. captures' = [captures EXCEPT ![Len(captures)] = Append(@, x)]
        BY <1>4, <1>6, <2>1, <2>2, <2>6
    <2>10. Len(upvalues') >= Len(upvalues)
        BY <2>3, Lengths DEF Quiet, HistoryInv, Inv
    <2> HIDE DEF link, local
    <2>11. LinkStep(u, x)
        BY <1>1, <1>3, <2>3, <2>4, <2>5, <2>7, <2>8, <2>9, <2>10 DEF LinkStep
    <2> QED BY <2>11
<1> QED BY <1>5, <1>6

(* What a closure captured is among what closures captured.                *)
LEMMA CaptureIsCaptured ==
    ASSUME NEW c \in 1..Len(captures), NEW k \in 1..Len(captures[c])
    PROVE  captures[c][k] \in Captured
<1>1. captures[c][k] \in {captures[c][i] : i \in 1..Len(captures[c])}
    BY Zenon
<1>2. {captures[c][i] : i \in 1..Len(captures[c])} \in
            {{captures[d][i] : i \in 1..Len(captures[d])} : d \in 1..Len(captures)}
    BY Zenon
<1> QED BY <1>1, <1>2, Zenon DEF Captured

(* What closures have captured after the step: what they had, and x.       *)
LEMMA LinkedPairs ==
    ASSUME Quiet, NEW u, NEW x, LinkStep(u, x), NEW n, n = Len(closures)
    PROVE  /\ Len(closures') = n /\ Len(captures') = n /\ Len(captures) = n
           /\ n \in 1..n /\ n \in Nat
           /\ captures' \in Seq(Seq(Variables))
           /\ \A c \in 1..n : Len(captures'[c]) = Len(closures'[c].upvalues)
           /\ \A c \in 1..n : \A k \in 1..Len(captures[c]) :
                /\ k \in 1..Len(captures'[c])
                /\ captures'[c][k] = captures[c][k] /\ Upvalue(c, k)' = Upvalue(c, k)
           /\ \E m \in 1..Len(captures'[n]) :
                /\ captures'[n][m] = x /\ Upvalue(n, m)' = u
                /\ \A c \in 1..n : \A k \in 1..Len(captures'[c]) :
                        k \in 1..Len(captures[c]) \/ (c = n /\ k = m)
<1>1. /\ Len(captures) = n /\ n \in Nat /\ n # 0 /\ n \in 1..n
      /\ captures \in Seq(Seq(Variables)) /\ closures \in Seq(Closure)
      /\ \A c \in 1..n : Len(captures[c]) = Len(closures[c].upvalues)
    <2>1. closures \in Seq(Closure) /\ Len(closures) \in Nat
        BY Lengths DEF Quiet, HistoryInv, Inv, TypeOK
    <2>2. /\ Len(captures) = Len(closures) /\ captures \in Seq(Seq(Variables))
          /\ \A c \in 1..Len(captures) : Len(captures[c]) = Len(closures[c].upvalues)
        BY DEF Quiet, HistoryInv, CapturesMatch
    <2>3. Len(closures) # 0
        BY DEF LinkStep
    <2> QED BY <2>1, <2>2, <2>3
<1>2. /\ closures[n] \in Closure /\ closures[n].upvalues \in Seq(1..Len(upvalues))
      /\ captures[n] \in Seq(Variables)
    <2>1. closures[n] \in Closure /\ captures[n] \in Seq(Variables)
        BY <1>1, ElementOfSeq
    <2> QED BY <2>1 DEF Closure
<1>3. PICK m \in Nat : m = Len(captures[n]) + 1
    BY <1>2, LenProperties
<1>4. PICK cs : cs = Append(captures[n], x)
    OBVIOUS
<1>5. PICK us : us = Append(closures[n].upvalues, u)
    OBVIOUS
<1>6. /\ cs \in Seq(Variables) /\ Len(cs) = m /\ cs[m] = x
      /\ \A k \in 1..Len(captures[n]) : cs[k] = captures[n][k]
    BY <1>2, <1>3, <1>4, AppendProperties DEF LinkStep
<1>7. /\ Len(us) = m /\ us[m] = u
      /\ \A k \in 1..Len(captures[n]) : us[k] = closures[n].upvalues[k]
    <2>1. closures[n].upvalues \in Seq((1..Len(upvalues)) \cup {u})
        BY <1>2, SeqMonotonic
    <2>2. Len(closures[n].upvalues) = Len(captures[n])
        BY <1>1
    <2> QED BY <1>3, <1>5, <2>1, <2>2, AppendProperties
<1>8. /\ captures' \in Seq(Seq(Variables)) /\ Len(captures') = n
      /\ \A c \in 1..n : captures'[c] = IF c = n THEN cs ELSE captures[c]
    <2>1. captures' = [captures EXCEPT ![n] = cs]
        BY <1>1, <1>4 DEF LinkStep
    <2> QED BY <1>1, <1>6, <2>1, LastChanged
<1>9. /\ Len(closures') = n
      /\ \A c \in 1..n : closures'[c].upvalues = IF c = n THEN us ELSE closures[c].upvalues
    <2>1. PICK e : e = [closures[n] EXCEPT !.upvalues = us]
        OBVIOUS
    <2>2. e.upvalues = us
        BY <1>2, <2>1 DEF Closure
    <2>3. closures' = [closures EXCEPT ![n] = e]
        BY <1>5, <2>1 DEF LinkStep
    <2>4. closures \in Seq(Closure \cup {e})
        BY <1>1, SeqMonotonic
    <2>5. Len(closures') = n /\ \A c \in 1..n : closures'[c] = IF c = n THEN e ELSE closures[c]
        BY <1>1, <2>3, <2>4, LastChanged
    <2> QED BY <2>2, <2>5
<1>10. \A c \in 1..n : Len(captures'[c]) = Len(closures'[c].upvalues)
    BY <1>1, <1>6, <1>7, <1>8, <1>9
<1>11. ASSUME NEW c \in 1..n, NEW k \in 1..Len(captures[c])
       PROVE  /\ k \in 1..Len(captures'[c])
              /\ captures'[c][k] = captures[c][k] /\ Upvalue(c, k)' = Upvalue(c, k)
    <2>1. CASE c = n
        <3>1. k \in 1..m
            BY <1>2, <1>3, <2>1, LenProperties
        <3> QED BY <1>6, <1>7, <1>8, <1>9, <2>1, <3>1 DEF Upvalue
    <2>2. CASE c # n
        BY <1>8, <1>9, <2>2 DEF Upvalue
    <2> QED BY <2>1, <2>2
<1>12. /\ m \in 1..Len(captures'[n])
       /\ captures'[n][m] = x /\ Upvalue(n, m)' = u
    <2>1. m \in 1..m
        BY <1>2, <1>3, LenProperties
    <2> QED BY <1>1, <1>6, <1>7, <1>8, <1>9, <2>1 DEF Upvalue
<1>13. ASSUME NEW c \in 1..n, NEW k \in 1..Len(captures'[c]), k \notin 1..Len(captures[c])
       PROVE  c = n /\ k = m
    <2>1. c = n
        BY <1>8, <1>13
    <2>2. k \in 1..m
        BY <1>6, <1>8, <2>1
    <2>3. k = m
        <3>1. PICK l \in Nat : l = Len(captures[n])
            BY <1>2, LenProperties
        <3> QED BY <1>3, <1>13, <2>1, <2>2, <3>1
    <2> QED BY <2>1, <2>3
<1>14. \E i \in 1..Len(captures'[n]) :
        /\ captures'[n][i] = x /\ Upvalue(n, i)' = u
        /\ \A c \in 1..n : \A k \in 1..Len(captures'[c]) :
                k \in 1..Len(captures[c]) \/ (c = n /\ k = i)
    BY <1>12, <1>13
<1> QED BY <1>1, <1>8, <1>9, <1>10, <1>11, <1>14

LEMMA LinkKeepsHistory ==
    ASSUME Quiet, Inv', errors' = 0, Name, NEW u, NEW x, LinkStep(u, x),
           linking' = Tail(linking)
    PROVE  /\ HistoryInv' /\ Alive' = Alive
           /\ Captured' = Captured \cup {x}
<1>1. PICK n : n = Len(closures)
    OBVIOUS
<1>2. /\ Len(closures') = n /\ Len(captures') = n /\ Len(captures) = n
      /\ n \in 1..n /\ n \in Nat
      /\ captures' \in Seq(Seq(Variables))
      /\ \A c \in 1..n : Len(captures'[c]) = Len(closures'[c].upvalues)
      /\ \A c \in 1..n : \A k \in 1..Len(captures[c]) :
            /\ k \in 1..Len(captures'[c])
            /\ captures'[c][k] = captures[c][k] /\ Upvalue(c, k)' = Upvalue(c, k)
    BY <1>1, LinkedPairs
<1>3. PICK m \in 1..Len(captures'[n]) :
        /\ captures'[n][m] = x /\ Upvalue(n, m)' = u
        /\ \A c \in 1..n : \A k \in 1..Len(captures'[c]) :
                k \in 1..Len(captures[c]) \/ (c = n /\ k = m)
    BY <1>1, LinkedPairs, SMTT(30)
<1>4. Locals(frames') = Locals(frames) /\ DOMAIN names = Locals(frames)
    BY DEF LinkStep, Quiet, HistoryInv, NamesAreLocals
<1>5. DOMAIN names' = DOMAIN names /\ \A s \in DOMAIN names : names'[s] = names[s]
    BY <1>4, NamesKept
<1>6. Alive' = Alive
    BY <1>4, AliveKept
<1>7. NamesAreLocals'
    BY <1>1, <1>2, <1>5, NamesAreLocalsNext DEF Quiet, LinkStep
<1>8. CapturesMatch'
    <2>1. ASSUME NEW c \in 1..n, NEW k \in 1..Len(captures'[c])
          PROVE  captures'[c][k].born < c
        <3>1. CASE k \in 1..Len(captures[c])
            <4>1. captures[c][k].born < c
                BY <1>2, <3>1, CapturedVariable
            <4> QED BY <1>2, <3>1, <4>1
        <3>2. CASE c = n /\ k = m
            BY <1>1, <1>3, <3>2 DEF LinkStep
        <3> QED BY <1>3, <3>1, <3>2
    <2> QED BY <1>2, <2>1 DEF CapturesMatch
<1>9. OpenWhileAlive'
    <2> SUFFICES ASSUME NEW c \in 1..n, NEW k \in 1..Len(captures'[c])
                 PROVE  LET location == upvalues'[Upvalue(c, k)'].location IN
                        IF location = CLOSED THEN captures'[c][k] \notin Alive
                        ELSE location \in DOMAIN names /\ captures'[c][k] = names[location]
        BY <1>2, <1>5, <1>6 DEF OpenWhileAlive
    <2>1. CASE k \in 1..Len(captures[c])
        <3>1. Upvalue(c, k) \in 1..Len(upvalues)
            BY <1>2, <2>1, CapturedVariable
        <3>2. Upvalue(c, k)' = Upvalue(c, k) /\ captures'[c][k] = captures[c][k]
            BY <1>2, <2>1
        <3>3. upvalues'[Upvalue(c, k)] = upvalues[Upvalue(c, k)]
            BY <3>1 DEF LinkStep
        <3>4. LET location == upvalues[Upvalue(c, k)].location IN
              IF location = CLOSED THEN captures[c][k] \notin Alive
              ELSE location \in DOMAIN names /\ captures[c][k] = names[location]
            BY <1>2, <2>1 DEF Quiet, HistoryInv, OpenWhileAlive
        <3> QED BY <3>2, <3>3, <3>4
    <2>2. CASE c = n /\ k = m
        BY <1>3, <2>2 DEF LinkStep, StandsFor
    <2> QED BY <1>3, <2>1, <2>2
<1>10. OneUpvalueEach'
    <2> SUFFICES ASSUME NEW c \in 1..n, NEW d \in 1..n,
                        NEW k \in 1..Len(captures'[c]), NEW j \in 1..Len(captures'[d])
                 PROVE  captures'[c][k] = captures'[d][j] <=> Upvalue(c, k)' = Upvalue(d, j)'
        BY <1>2 DEF OneUpvalueEach
    <2>1. CASE k \in 1..Len(captures[c]) /\ j \in 1..Len(captures[d])
        BY <1>2, <2>1 DEF Quiet, HistoryInv, OneUpvalueEach
    <2>2. CASE k \in 1..Len(captures[c]) /\ d = n /\ j = m
        <3>1. captures[c][k] = x <=> Upvalue(c, k) = u
            BY <1>2, <2>2 DEF LinkStep, StandsFor
        <3> QED BY <1>2, <1>3, <2>2, <3>1
    <2>3. CASE c = n /\ k = m /\ j \in 1..Len(captures[d])
        <3>1. captures[d][j] = x <=> Upvalue(d, j) = u
            BY <1>2, <2>3 DEF LinkStep, StandsFor
        <3> QED BY <1>2, <1>3, <2>3, <3>1
    <2>4. CASE c = n /\ k = m /\ d = n /\ j = m
        BY <2>4
    <2> QED BY <1>3, <2>1, <2>2, <2>3, <2>4
<1>11. Captured' = Captured \cup {x}
    <2>1. ASSUME NEW y \in Captured' PROVE y \in Captured \cup {x}
        <3>1. PICK c \in 1..n : \E k \in 1..Len(captures'[c]) : y = captures'[c][k]
            BY <1>2 DEF Captured
        <3>2. PICK k \in 1..Len(captures'[c]) : y = captures'[c][k]
            BY <3>1
        <3>3. CASE k \in 1..Len(captures[c])
            <4>1. y = captures[c][k] /\ c \in 1..Len(captures)
                BY <1>2, <3>2, <3>3
            <4> QED BY <3>3, <4>1, CaptureIsCaptured
        <3>4. CASE c = n /\ k = m
            BY <1>3, <3>2, <3>4
        <3> QED BY <1>3, <3>3, <3>4
    <2>2. ASSUME NEW y \in Captured PROVE y \in Captured'
        <3>1. PICK c \in 1..n : \E k \in 1..Len(captures[c]) : y = captures[c][k]
            BY <1>2 DEF Captured
        <3>2. PICK k \in 1..Len(captures[c]) : y = captures[c][k]
            BY <3>1
        <3>3. k \in 1..Len(captures'[c]) /\ y = captures'[c][k]
            BY <1>2, <3>2
        <3> QED BY <1>2, <3>3 DEF Captured
    <2>3. x \in Captured'
        BY <1>2, <1>3 DEF Captured
    <2> QED BY <2>1, <2>2, <2>3
<1> QED BY <1>6, <1>7, <1>8, <1>9, <1>10, <1>11 DEF HistoryInv

LEMMA LinkCaptures ==
    ASSUME Quiet, Inv', errors' = 0, Link, Name, Remember
    PROVE  HistoryInv' /\ C!Capture
<1>1. PICK u, x : LinkStep(u, x)
    BY LinkIsLinkStep
<1>2. HistoryInv' /\ Alive' = Alive /\ Captured' = Captured \cup {x}
    BY <1>1, LinkKeepsHistory DEF Link
<1>3. DOMAIN cells = Alive \cup Captured /\ DOMAIN cells' = DOMAIN cells /\ x \in DOMAIN cells
    BY <1>1, <1>2, CellsDomain, CellsDomainNext DEF LinkStep
<1>4. ValuesAgree /\ ValuesAgree'
    BY <1>2, QuietValues, QuietValuesNext DEF Quiet
<1>5. ASSUME NEW y \in DOMAIN cells PROVE ValueOf(y)' = ValueOf(y)
    <2>1. CASE y \in Alive
        <3>1. PICK s \in DOMAIN names : y = names[s]
            BY <2>1 DEF Alive
        <3>2. s \in DOMAIN names' /\ names'[s] = y
            BY <1>1, <3>1, NamesKept DEF LinkStep, Quiet, HistoryInv, NamesAreLocals
        <3>3. ValueOf(y) = stack[s]
            BY <1>4, <3>1 DEF ValuesAgree
        <3>4. ValueOf(y)' = stack'[s]
            BY <1>4, <3>2 DEF ValuesAgree
        <3> QED BY <1>1, <3>3, <3>4 DEF LinkStep
    <2>2. CASE y \in Captured
        <3>1. PICK c \in 1..Len(captures) : \E k \in 1..Len(captures[c]) : y = captures[c][k]
            BY <2>2 DEF Captured
        <3>2. PICK k \in 1..Len(captures[c]) : y = captures[c][k]
            BY <3>1
        <3>3. /\ c \in 1..Len(captures') /\ k \in 1..Len(captures'[c])
              /\ captures'[c][k] = y /\ Upvalue(c, k)' = Upvalue(c, k)
            BY <1>1, <3>2, LinkedPairs
        <3>4. ValueOf(y) = Content(Upvalue(c, k))
            BY <1>4, <3>2 DEF ValuesAgree
        <3>5. ValueOf(y)' = Content(Upvalue(c, k))'
            BY <1>4, <3>3 DEF ValuesAgree
        <3>6. upvalues'[Upvalue(c, k)] = upvalues[Upvalue(c, k)] /\ UNCHANGED stack
            BY <1>1, <3>2, CapturedVariable DEF LinkStep
        <3>7. Content(Upvalue(c, k))' = Content(Upvalue(c, k))
            BY <3>3, <3>6 DEF Content
        <3> QED BY <3>4, <3>5, <3>7
    <2> QED BY <1>3, <2>1, <2>2
<1>6. cells' = cells
    BY <1>3, <1>5 DEF cells
<1> QED BY <1>2, <1>3, <1>6 DEF C!Capture

-----------------------------------------------------------------------------
(* All actions.                                                            *)

LEMMA StepRefines ==
    ASSUME Quiet, Inv', errors' = 0, HistoryNext
    PROVE  HistoryInv' /\ C!Next
<1> USE DEF C!Next
<1>1. Inv /\ Next /\ Name /\ Remember
    BY DEF Quiet, HistoryInv, HistoryNext
<1>2. ~RuntimeError
    BY DEF RuntimeError, Quiet
<1>3. ASSUME VariablesStay PROVE HistoryInv' /\ C!Next
    BY <1>1, <1>3, VariablesStayRefines
<1>4. CASE Constant \/ GetLocal \/ GetGlobal \/ GetUpvalue
    <2>1. \E v : Push(v)
        BY <1>2, <1>4 DEF Constant, GetLocal, GetGlobal, GetUpvalue
    <2> QED BY <1>1, <1>3, <2>1, PushStays
<1>5. CASE Pop \/ DefineGlobal \/ SetGlobal
    <2>1. Running /\ UNCHANGED <<stack, frames, heap>>
        BY <1>2, <1>5 DEF Pop, DefineGlobal, SetGlobal
    <2> QED BY <1>3, <2>1, StackStays
<1>6. CASE DeclareLocal
    BY <1>1, <1>3, <1>6, DeclareLocalStays
<1>7. CASE EndLocal
    BY <1>1, <1>3, <1>7, EndLocalStays
<1>8. CASE SetLocal
    BY <1>1, <1>8, SetLocalAssigns
<1>9. CASE SetUpvalue
    BY <1>1, <1>9, SetUpvalueAssigns
<1>10. CASE MakeClosure
    BY <1>1, <1>3, <1>10, MakeClosureStays
<1>11. CASE Link
    BY <1>1, <1>11, LinkCaptures
<1>12. CASE Call
    BY <1>1, <1>3, <1>12, CallStays DEF Quiet
<1>13. CASE Return
    BY <1>1, <1>3, <1>13, ReturnStays
<1>14. CASE EndLine
    BY <1>1, <1>3, <1>14, EndLineStays
<1>15. CASE StartLine
    BY <1>1, <1>3, <1>15, StartLineStays
<1>16. ~Fault
    BY <1>2 DEF Fault
<1> QED BY <1>1, <1>4, <1>5, <1>6, <1>7, <1>8, <1>9, <1>10, <1>11, <1>12, <1>13, <1>14, <1>15,
           <1>16 DEF Next

(* No step takes an error back.                                            *)
LEMMA ErrorsGrow ==
    ASSUME Next, errors \in Nat, errors' = 0
    PROVE  errors = 0
<1>1. RuntimeError => errors' = errors + 1
    BY DEF RuntimeError
<1>2. errors' = errors \/ RuntimeError
    BY DEF Next, Constant, Pop, DeclareLocal, EndLocal, GetLocal, SetLocal, GetGlobal,
           DefineGlobal, SetGlobal, GetUpvalue, SetUpvalue, MakeClosure, Link, Fault, Call,
           Return, EndLine, StartLine, Push
<1> QED BY <1>1, <1>2

(* After an error nothing is left to show of the history.                  *)
LEMMA HistoryKept ==
    ASSUME HistoryInv, [HistoryNext]_historyVars
    PROVE  HistoryInv' /\ [errors' = 0 => C!Next]_(C!vars)
<1>1. Inv /\ errors \in Nat /\ errors' \in Nat
    <2>1. Inv
        BY DEF HistoryInv
    <2>2. [Next]_vars
        BY DEF HistoryNext, historyVars
    <2>3. Inv'
        BY <2>1, <2>2, NextKeepsInv
    <2>4. errors \in 0..MaxErrors
        BY <2>1 DEF Inv, TypeOK
    <2>5. errors' \in 0..MaxErrors
        BY <2>3 DEF Inv, TypeOK
    <2> QED BY <2>1, <2>4, <2>5
<1>2. Inv'
    <2>1. [Next]_vars
        BY DEF HistoryNext, historyVars
    <2> QED BY <2>1, NextKeepsInv DEF HistoryInv
<1>3. CASE HistoryNext
    <2>1. CASE errors' # 0
        BY <1>2, <2>1 DEF HistoryInv
    <2>2. CASE errors' = 0
        <3>1. errors = 0
            BY <1>1, <1>3, <2>2, ErrorsGrow DEF HistoryNext
        <3>2. HistoryInv' /\ C!Next
            BY <1>2, <1>3, <2>2, <3>1, StepRefines DEF Quiet
        <3> QED BY <3>2
    <2> QED BY <2>1, <2>2
<1>4. CASE UNCHANGED historyVars
    <2>1. /\ UNCHANGED <<stack, frames, closures, upvalues, linking, errors, names, captures>>
        BY <1>4 DEF historyVars, vars, heap
    <2>2. NamesAreLocals' = NamesAreLocals /\ CapturesMatch' = CapturesMatch
        BY <2>1 DEF NamesAreLocals, CapturesMatch
    <2>3. OpenWhileAlive' = OpenWhileAlive /\ OneUpvalueEach' = OneUpvalueEach
        BY <2>1 DEF OpenWhileAlive, OneUpvalueEach, Alive, Upvalue
    <2>4. HistoryInv'
        BY <1>2, <2>1, <2>2, <2>3 DEF HistoryInv
    <2>5. UNCHANGED <<cells, Captured>>
        BY <2>1 DEF cells, Captured, Alive, ValueOf, UpvaluesOf, Content, Upvalue
    <2> QED BY <2>4, <2>5 DEF C!vars
<1> QED BY <1>3, <1>4

LEMMA HistoryInitInv == HistoryInit => HistoryInv
<1> SUFFICES ASSUME HistoryInit PROVE HistoryInv
    OBVIOUS
<1>1. Inv
    BY InitInv DEF HistoryInit
<1>2. frames = <<>> /\ closures = <<>> /\ linking = <<>> /\ names = <<>> /\ captures = <<>>
    BY DEF HistoryInit, Init
<1>3. NamesAreLocals
    BY <1>2 DEF NamesAreLocals, Locals
<1>4. CapturesMatch
    BY <1>2 DEF CapturesMatch
<1>5. OpenWhileAlive /\ OneUpvalueEach
    BY <1>2 DEF OpenWhileAlive, OneUpvalueEach
<1> QED BY <1>1, <1>3, <1>4, <1>5 DEF HistoryInv

-----------------------------------------------------------------------------
(* The history invariant holds of every behaviour, whatever the limits of  *)
(* the stacks and the bounds of the model are: captureUpvalue finds the    *)
(* upvalue of a variable if there is one, and closeUpvalues closes those   *)
(* of the slots that are given up, and no others.                          *)
THEOREM HistoryInvHolds == HistorySpec => []HistoryInv
<1>1. HistoryInit => HistoryInv
    BY HistoryInitInv
<1>2. HistoryInv /\ [HistoryNext]_historyVars => HistoryInv'
    BY HistoryKept
<1> QED BY <1>1, <1>2, PTL DEF HistorySpec

(* Until a runtime error all closures that captured a variable, and the    *)
(* function that declares it, see one value (GET_UPVALUE, SET_UPVALUE,     *)
(* CLOSURE, CLOSE_UPVALUE, RETURN).                                        *)
THEOREM ValuesAreShared == HistorySpec => []SharedValue
<1>1. HistoryInv => SharedValue
    BY QuietValues DEF Quiet, ValuesAgree, SharedValue
<1> QED BY <1>1, HistoryInvHolds, PTL

(* Up to its first runtime error every behaviour is one of Cells: a step   *)
(* of the virtual machine declares variables, assigns one, captures one or *)
(* forgets variables that no closure has captured.                         *)
THEOREM ClosuresImplementCells == HistorySpec => ImplementsCells
<1>1. HistoryInit => C!Init
    BY CellsDomain DEF HistoryInit, Init, C!Init, Captured, Alive
<1>2. HistoryInv /\ [HistoryNext]_historyVars => [errors' = 0 => C!Next]_(C!vars)
    BY HistoryKept
<1> QED BY <1>1, <1>2, HistoryInvHolds, PTL DEF HistorySpec, ImplementsCells

=============================================================================
