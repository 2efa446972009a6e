-------------------------- MODULE HashTableProofs ---------------------------
(***************************************************************************)
(* Inv of module HashTable is inductive, searches end and find their keys, *)
(* and the tables implement module Map, whatever the keys, their hashes    *)
(* and the bounds are.                                                     *)
(***************************************************************************)
EXTENDS HashTable, FiniteSetTheorems, WellFoundedInduction, TLAPS

(* What is left over by a division.                                        *)
LEMMA Division ==
    ASSUME NEW n \in Nat, NEW k \in Nat \ {0}
    PROVE  n \div k \in Int /\ n = k * (n \div k) + (n % k)
<1>1. n \div k \in Int
    BY SMT
<1>2. n = k * (n \div k) + (n % k)
    BY SMT
<1> QED BY <1>1, <1>2

USE HashTableAssumption DEF HashTableAssumption

-----------------------------------------------------------------------------
(* The way of a search through the array.                                  *)

LEMMA Remainder ==
    ASSUME NEW n \in Nat, NEW c \in Nat \ {0}
    PROVE  n % c \in 0..c - 1
BY SMT

LEMMA RemainderOfSmall ==
    ASSUME NEW c \in Nat \ {0}, NEW n \in 0..c - 1
    PROVE  n % c = n
BY SMT

LEMMA RemainderWraps ==
    ASSUME NEW c \in Nat \ {0}, NEW n \in c..2 * c - 1
    PROVE  n % c = n - c
BY SMT

LEMMA HomeInRange ==
    ASSUME NEW table, table.capacity \in Nat \ {0}, NEW k \in Keys
    PROVE  Home(table, k) \in Rounds(table)
<1>1. Hash[k] \in Nat
    OBVIOUS
<1> QED BY <1>1, Remainder DEF Home, Rounds

LEMMA AtCases ==
    ASSUME NEW table, table.capacity \in Nat \ {0}, NEW k \in Keys, NEW r \in Rounds(table)
    PROVE  LET n == Home(table, k) + r
               c == table.capacity
           IN  \/ n \in 0..c - 1 /\ At(table, k, r) = n
               \/ n \in c..2 * c - 1 /\ At(table, k, r) = n - c
<1> DEFINE n == Home(table, k) + r
           c == table.capacity
<1>1. c \in Nat \ {0} /\ (n \in 0..c - 1 \/ n \in c..2 * c - 1)
    BY HomeInRange DEF Rounds
<1>2. At(table, k, r) = n % c
    BY DEF At
<1> HIDE DEF n, c
<1>3. n \in 0..c - 1 => n % c = n
    BY <1>1, RemainderOfSmall
<1>4. n \in c..2 * c - 1 => n % c = n - c
    BY <1>1, RemainderWraps
<1> QED BY <1>1, <1>2, <1>3, <1>4 DEF n, c

LEMMA AtInRange ==
    ASSUME NEW table, table.capacity \in Nat \ {0}, NEW k \in Keys, NEW r \in Rounds(table)
    PROVE  At(table, k, r) \in Rounds(table)
BY AtCases, HomeInRange DEF Rounds

LEMMA AtInjective ==
    ASSUME NEW table, table.capacity \in Nat \ {0}, NEW k \in Keys,
           NEW r \in Rounds(table), NEW s \in Rounds(table),
           At(table, k, r) = At(table, k, s)
    PROVE  r = s
BY AtCases, HomeInRange DEF Rounds

LEMMA AtSurjective ==
    ASSUME NEW table, table.capacity \in Nat \ {0}, NEW k \in Keys, NEW i \in Rounds(table)
    PROVE  \E r \in Rounds(table) : At(table, k, r) = i
<1> DEFINE h == Home(table, k)
           c == table.capacity
           r == IF i >= h THEN i - h ELSE i - h + c
<1>1. h \in 0..c - 1 /\ i \in 0..c - 1
    BY HomeInRange DEF Rounds
<1> HIDE DEF h
<1>2. r \in 0..c - 1 /\ i = IF h + r < c THEN h + r ELSE h + r - c
    BY <1>1
<1>3. r \in Rounds(table)
    BY <1>2 DEF Rounds
<1> HIDE DEF r
<1>4. At(table, k, r) = i
    <2>1. \/ h + r \in 0..c - 1 /\ At(table, k, r) = h + r
          \/ h + r \in c..2 * c - 1 /\ At(table, k, r) = (h + r) - c
        BY <1>3, AtCases DEF h
    <2> QED BY <1>1, <1>2, <2>1
<1> QED BY <1>3, <1>4

LEMMA LeastNumber ==
    ASSUME NEW S \in SUBSET Nat, S # {}
    PROVE  \E i \in S : \A j \in S : i <= j
<1>1. PICK i \in S : \A j \in S : <<j, i>> \notin OpToRel(<, Nat)
    BY WFMin, NatLessThanWellFounded, Zenon
<1>2. \A j \in S : ~(j < i)
    BY <1>1, Zenon DEF OpToRel
<1> QED BY <1>2

-----------------------------------------------------------------------------
(* What findEntry returns.                                                 *)

(* A search for k passes the rounds before r.                              *)
Passes(table, k, r) == \A j \in 0..r - 1 : ~Stops(table, k, j)

LEMMA LastRoundIs ==
    ASSUME NEW table, table.capacity \in Nat, NEW k, SearchEnds(table, k)
    PROVE  /\ LastRound(table, k) \in Rounds(table)
           /\ Stops(table, k, LastRound(table, k))
           /\ Passes(table, k, LastRound(table, k))
<1> DEFINE S == {i \in Rounds(table) : Stops(table, k, i)}
<1>1. S \in SUBSET Nat /\ S # {}
    BY DEF SearchEnds, Rounds
<1>2. PICK i \in S : \A j \in S : i <= j
    BY <1>1, LeastNumber, Zenon
<1>3. i \in Rounds(table) /\ Stops(table, k, i)
    BY <1>2
<1>4. \A j \in 0..i - 1 : ~Stops(table, k, j)
    <2> TAKE j \in 0..i - 1
    <2>1. j \in Rounds(table) /\ ~(i <= j)
        BY <1>3 DEF Rounds
    <2> QED BY <1>2, <2>1
<1> QED BY <1>3, <1>4, Zenon DEF LastRound, Passes

LEMMA FirstFreeIs ==
    ASSUME NEW table, table.capacity \in Nat, NEW k,
           NEW last \in Rounds(table), Free(table, k, last)
    PROVE  /\ FirstFree(table, k) \in 0..last
           /\ Free(table, k, FirstFree(table, k))
           /\ \A j \in 0..FirstFree(table, k) - 1 : ~Free(table, k, j)
<1> DEFINE S == {i \in Rounds(table) : Free(table, k, i)}
<1>1. S \in SUBSET Nat /\ S # {}
    BY DEF Rounds
<1>2. PICK i \in S : \A j \in S : i <= j
    BY <1>1, LeastNumber, Zenon
<1>3. i \in Rounds(table) /\ Free(table, k, i)
    BY <1>2
<1>4. \A j \in 0..i - 1 : ~Free(table, k, j)
    <2> TAKE j \in 0..i - 1
    <2>1. j \in Rounds(table) /\ ~(i <= j)
        BY <1>3 DEF Rounds
    <2> QED BY <1>2, <2>1
<1> DEFINE f == FirstFree(table, k)
<1>5. f \in Rounds(table) /\ Free(table, k, f) /\ \A j \in 0..f - 1 : ~Free(table, k, j)
    BY <1>3, <1>4, Zenon DEF FirstFree
<1> HIDE DEF f
<1>6. f <= last
    BY <1>5 DEF Rounds
<1>7. f \in 0..last
    BY <1>5, <1>6 DEF Rounds
<1> QED BY <1>5, <1>7 DEF f

(* Entry i is where a search for k comes to in round r: it is the key's,   *)
(* or one without key, and then the key is in no entry that a search for   *)
(* it reaches.                                                             *)
FoundIn(table, k, i, r) ==
    /\ r \in Rounds(table)
    /\ i = At(table, k, r)
    /\ Passes(table, k, r)
    /\ table.entries[i].key \in {k, NULL}
    /\ table.entries[i].key = NULL =>
        \E last \in Rounds(table) :
            Passes(table, k, last) /\ table.entries[At(table, k, last)] = EMPTY

LEMMA FindEntryFinds ==
    ASSUME NEW table, IsTable(table), NEW k \in Keys, SearchEnds(table, k)
    PROVE  \E r : FoundIn(table, k, FindEntry(table, k), r)
<1> DEFINE last == LastRound(table, k)
           free == FirstFree(table, k)
<1>1. table.capacity \in Nat
    BY DEF IsTable
<1>2. last \in Rounds(table) /\ Stops(table, k, last) /\ Passes(table, k, last)
    BY <1>1, LastRoundIs, Zenon
<1> HIDE DEF last, free
<1>3. CASE Free(table, k, last)
    <2>1. /\ free \in 0..last
          /\ Free(table, k, free)
          /\ \A j \in 0..free - 1 : ~Free(table, k, j)
        BY <1>1, <1>2, <1>3, FirstFreeIs, Zenon DEF free
    <2>2. free \in Rounds(table) /\ Passes(table, k, free)
        BY <1>1, <1>2, <2>1 DEF Rounds, Passes
    <2>3. FindEntry(table, k) = At(table, k, free)
        BY <1>3, Zenon DEF FindEntry, last, free
    <2>4. k # NULL
        OBVIOUS
    <2>5. table.entries[At(table, k, last)] = EMPTY
        BY <1>2, <1>3, <2>4 DEF Stops, Free
    <2>6. table.entries[At(table, k, free)].key = NULL
        BY <2>1, Zenon DEF Free
    <2>7. FoundIn(table, k, At(table, k, free), free)
        BY <1>2, <2>2, <2>5, <2>6, Zenon DEF FoundIn
    <2> QED BY <2>3, <2>7
<1>4. CASE ~Free(table, k, last)
    <2>1. FindEntry(table, k) = At(table, k, last)
        BY <1>4, Zenon DEF FindEntry, last
    <2>2. table.entries[At(table, k, last)].key = k /\ k # NULL
        BY <1>2, <1>4 DEF Stops, Free, EMPTY
    <2>3. FoundIn(table, k, At(table, k, last), last)
        BY <1>2, <2>2, Zenon DEF FoundIn
    <2> QED BY <2>1, <2>3
<1> QED BY <1>3, <1>4

(* Only one round can stop a search, so that a key that a search reaches   *)
(* is the one it finds.                                                    *)
LEMMA ReachableIsFound ==
    ASSUME NEW table, IsTable(table), table.capacity > 0,
           NEW i \in Rounds(table), table.entries[i].key \in Keys, Reachable(table, i)
    PROVE  SearchEnds(table, table.entries[i].key) /\ FindEntry(table, table.entries[i].key) = i
<1> DEFINE k == table.entries[i].key
<1>1. k \in Keys /\ k # NULL /\ table.capacity \in Nat \ {0}
    BY DEF IsTable
<1>2. PICK r \in Rounds(table) : At(table, k, r) = i /\ Passes(table, k, r)
    BY DEF Reachable, Passes
<1>3. Stops(table, k, r)
    BY <1>2 DEF Stops
<1>4. SearchEnds(table, k)
    BY <1>3 DEF SearchEnds
<1>5. PICK s : FoundIn(table, k, FindEntry(table, k), s)
    BY <1>1, <1>4, FindEntryFinds, Zenon
<1>6. s \in Rounds(table) /\ FindEntry(table, k) = At(table, k, s)
    BY <1>5, Zenon DEF FoundIn
<1>7. CASE table.entries[FindEntry(table, k)].key = NULL
    <2>1. PICK last \in Rounds(table) :
            Passes(table, k, last) /\ table.entries[At(table, k, last)] = EMPTY
        BY <1>5, <1>7, Zenon DEF FoundIn
    <2>2. Stops(table, k, last)
        BY <2>1 DEF Stops
    <2>3. last = r
        BY <1>1, <1>2, <1>3, <2>1, <2>2 DEF Passes, Rounds
    <2> QED BY <1>1, <1>2, <2>1, <2>3 DEF EMPTY
<1>8. CASE table.entries[FindEntry(table, k)].key = k
    <2>1. Stops(table, k, s) /\ Passes(table, k, s)
        BY <1>5, <1>6, <1>8 DEF Stops, FoundIn
    <2>2. s = r
        BY <1>1, <1>2, <1>3, <1>6, <2>1 DEF Passes, Rounds
    <2> QED BY <1>2, <1>4, <1>6, <2>2
<1> QED BY <1>5, <1>7, <1>8, Zenon DEF FoundIn

-----------------------------------------------------------------------------
(* Searches in a well-formed table.                                        *)

LEMMA WellFormedTypes ==
    ASSUME NEW table, WellFormed(table)
    PROVE  /\ IsTable(table)
           /\ table.count \in Nat /\ table.capacity \in Nat
           /\ table.entries \in [0..table.capacity - 1 -> Entry]
BY DEF WellFormed, IsTable

LEMMA UsedIsFinite ==
    ASSUME NEW table, IsTable(table)
    PROVE  IsFiniteSet(Used(table)) /\ Cardinality(Used(table)) \in Nat
<1>1. table.capacity \in Nat /\ Used(table) \in SUBSET (0..table.capacity - 1)
    BY DEF IsTable, Used
<1>2. IsFiniteSet(0..table.capacity - 1)
    BY <1>1, FS_Interval
<1> QED BY <1>1, <1>2, FS_Subset, FS_CardinalityType

LEMMA SomeEntryIsEmpty ==
    ASSUME NEW table, WellFormed(table), table.capacity > 0
    PROVE  \E i \in Rounds(table) : table.entries[i] = EMPTY
<1>1. table.count \in Nat /\ table.capacity \in Nat
    BY WellFormedTypes
<1> SUFFICES ASSUME \A i \in Rounds(table) : table.entries[i] # EMPTY
             PROVE  FALSE
    OBVIOUS
<1>2. Used(table) = 0..table.capacity - 1
    BY DEF Used, Rounds
<1>3. Cardinality(0..table.capacity - 1) = table.capacity
    BY <1>1, FS_Interval
<1>4. table.count = table.capacity
    BY <1>2, <1>3 DEF WellFormed
<1>5. 4 * table.count <= 3 * table.capacity
    BY DEF WellFormed
<1> QED BY <1>1, <1>4, <1>5

(* The loop of findEntry ends.                                             *)
LEMMA SearchTerminates ==
    ASSUME NEW table, WellFormed(table), table.capacity > 0, NEW k \in Keys
    PROVE  SearchEnds(table, k)
<1>1. PICK i \in Rounds(table) : table.entries[i] = EMPTY
    BY SomeEntryIsEmpty, Zenon
<1>2. table.capacity \in Nat \ {0}
    BY WellFormedTypes
<1>3. PICK r \in Rounds(table) : At(table, k, r) = i
    BY <1>2, AtSurjective, Zenon
<1> QED BY <1>1, <1>3 DEF SearchEnds, Stops

(* An entry with a key is the only one with that key, and is found.        *)
LEMMA EntryIsFound ==
    ASSUME NEW table, WellFormed(table), NEW i \in Rounds(table), table.entries[i].key # NULL
    PROVE  table.entries[i].key \in Keys /\ FindEntry(table, table.entries[i].key) = i
<1>1. table.capacity \in Nat /\ table.capacity > 0 /\ table.entries[i] \in Entry
    BY WellFormedTypes DEF Rounds
<1>2. table.entries[i].key \in Keys
    BY <1>1 DEF Entry, EMPTY, TOMBSTONE
<1>3. Reachable(table, i)
    BY DEF WellFormed, Rounds
<1> QED BY <1>1, <1>2, <1>3, WellFormedTypes, ReachableIsFound, Zenon

(* A search comes to the entry of the key, or to one without a key.        *)
LEMMA SearchFinds ==
    ASSUME NEW table, WellFormed(table), table.capacity > 0, NEW k \in Keys
    PROVE  \E r : /\ FoundIn(table, k, FindEntry(table, k), r)
                  /\ FindEntry(table, k) \in Rounds(table)
                  /\ Holds(table, k) <=> table.entries[FindEntry(table, k)].key = k
<1>1. PICK r : FoundIn(table, k, FindEntry(table, k), r)
    BY SearchTerminates, WellFormedTypes, FindEntryFinds, Zenon
<1>2. table.capacity \in Nat \ {0}
    BY WellFormedTypes
<1>3. FindEntry(table, k) \in Rounds(table)
    <2>1. r \in Rounds(table) /\ FindEntry(table, k) = At(table, k, r)
        BY <1>1, Zenon DEF FoundIn
    <2>2. At(table, k, r) \in Rounds(table)
        BY <1>2, <2>1, AtInRange, Zenon
    <2> QED BY <2>1, <2>2, Zenon
<1>4. ASSUME Holds(table, k) PROVE table.entries[FindEntry(table, k)].key = k
    <2>1. PICK i \in Rounds(table) : table.entries[i].key = k
        BY <1>4 DEF Holds, Rounds
    <2>2. FindEntry(table, k) = i
        BY <2>1, EntryIsFound
    <2> QED BY <2>1, <2>2
<1>5. ASSUME table.entries[FindEntry(table, k)].key = k PROVE Holds(table, k)
    BY <1>3, <1>5 DEF Holds, Rounds
<1> QED BY <1>1, <1>3, <1>4, <1>5, Zenon

-----------------------------------------------------------------------------
(* Changes of one entry.                                                   *)

(* Table U is T but for entry i, and for the count.                        *)
DiffersAt(T, U, i) ==
    /\ IsTable(T) /\ IsTable(U)
    /\ T.capacity > 0 /\ U.capacity = T.capacity
    /\ i \in Rounds(T)
    /\ \A j \in Rounds(T) \ {i} : U.entries[j] = T.entries[j]

(* No entry is made empty, so that the searches that passed entry i, whose *)
(* key it was not, still do.                                               *)
LEMMA OthersStayReachable ==
    ASSUME NEW T, NEW U, NEW i, DiffersAt(T, U, i), U.entries[i] # EMPTY,
           NEW j \in Rounds(T) \ {i}, T.entries[j].key \in Keys,
           U.entries[i].key # T.entries[j].key,
           Reachable(T, j)
    PROVE  Reachable(U, j)
<1> DEFINE k == T.entries[j].key
<1>1. /\ T.capacity \in Nat \ {0} /\ U.capacity = T.capacity /\ i \in Rounds(T)
      /\ U.entries[j] = T.entries[j] /\ Rounds(U) = Rounds(T)
    BY DEF DiffersAt, IsTable, Rounds
<1>2. PICK r \in Rounds(T) : At(T, k, r) = j /\ \A s \in 0..r - 1 : ~Stops(T, k, s)
    BY DEF Reachable
<1>3. \A s : At(U, k, s) = At(T, k, s)
    BY <1>1 DEF At, Home
<1>4. ASSUME NEW s \in 0..r - 1 PROVE ~Stops(U, k, s)
    <2>1. s \in Rounds(T)
        BY <1>1, <1>2 DEF Rounds
    <2>2. At(T, k, s) \in Rounds(T)
        BY <1>1, <2>1, AtInRange
    <2>3. CASE At(T, k, s) = i
        BY <1>3, <2>3 DEF Stops
    <2>4. CASE At(T, k, s) # i
        <3>1. U.entries[At(T, k, s)] = T.entries[At(T, k, s)]
            BY <2>2, <2>4 DEF DiffersAt
        <3>2. ~Stops(T, k, s)
            BY <1>2
        <3> QED BY <1>3, <3>1, <3>2 DEF Stops
    <2> QED BY <2>3, <2>4
<1> QED BY <1>1, <1>2, <1>3, <1>4 DEF Reachable

(* The entry that a search for k came to, once it has the key k.           *)
LEMMA StoredIsReachable ==
    ASSUME NEW T, NEW U, NEW i, DiffersAt(T, U, i), NEW k \in Keys, NEW r,
           FoundIn(T, k, i, r), U.entries[i].key = k
    PROVE  Reachable(U, i)
<1>1. /\ T.capacity \in Nat \ {0} /\ U.capacity = T.capacity /\ Rounds(U) = Rounds(T)
    BY DEF DiffersAt, IsTable, Rounds
<1>2. /\ r \in Rounds(T) /\ i = At(T, k, r)
      /\ \A s \in 0..r - 1 : ~Stops(T, k, s)
    BY Zenon DEF FoundIn, Passes
<1>3. \A s : At(U, k, s) = At(T, k, s)
    BY <1>1 DEF At, Home
<1>4. ASSUME NEW s \in 0..r - 1 PROVE ~Stops(U, k, s)
    <2>1. s \in Rounds(T) /\ s # r
        BY <1>1, <1>2 DEF Rounds
    <2>2. At(T, k, s) \in Rounds(T)
        BY <1>1, <2>1, AtInRange
    <2>3. At(T, k, s) # i
        BY <1>1, <1>2, <2>1, AtInjective
    <2>4. U.entries[At(T, k, s)] = T.entries[At(T, k, s)]
        BY <2>2, <2>3 DEF DiffersAt
    <2>5. ~Stops(T, k, s)
        BY <1>2
    <2> QED BY <1>3, <2>4, <2>5 DEF Stops
<1> QED BY <1>1, <1>2, <1>3, <1>4 DEF Reachable

(* Table U has value v for key k, and for the other keys what T has.       *)
SetsTo(T, U, k, v) ==
    /\ U.capacity = T.capacity
    /\ \A w \in Values : Has(U, k, w) <=> w = v
    /\ \A l \in Keys \ {k}, w \in Values : Has(U, l, w) <=> Has(T, l, w)

LEMMA PutDiffers ==
    ASSUME NEW T, IsTable(T), T.capacity > 0, NEW i \in Rounds(T), NEW k \in Keys, NEW v \in Values
    PROVE  DiffersAt(T, Put(T, i, k, v), i) /\ Put(T, i, k, v).entries[i] = [key |-> k, value |-> v]
<1> DEFINE U == Put(T, i, k, v)
           e == [key |-> k, value |-> v]
<1>1. e \in Entry
    BY DEF Entry
<1>2. /\ T.count \in Nat /\ T.capacity \in Nat
      /\ T.entries \in [Rounds(T) -> Entry]
    BY DEF IsTable, Rounds
<1>3. U.capacity = T.capacity /\ U.entries = [T.entries EXCEPT ![i] = e]
    BY DEF Put
<1>4. U.count \in Nat
    BY <1>2 DEF Put
<1>5. U.entries \in [Rounds(T) -> Entry] /\ U.entries[i] = e
      /\ \A j \in Rounds(T) \ {i} : U.entries[j] = T.entries[j]
    BY <1>1, <1>2, <1>3
<1>6. IsTable(U)
    BY <1>2, <1>3, <1>4, <1>5 DEF IsTable, Rounds
<1> QED BY <1>3, <1>5, <1>6 DEF DiffersAt

LEMMA PutCounts ==
    ASSUME NEW T, IsTable(T), T.capacity > 0, NEW i \in Rounds(T), NEW k \in Keys, NEW v \in Values,
           T.count = Cardinality(Used(T))
    PROVE  Put(T, i, k, v).count = Cardinality(Used(Put(T, i, k, v)))
<1> DEFINE U == Put(T, i, k, v)
<1>1. DiffersAt(T, U, i) /\ U.entries[i] # EMPTY
    <2>1. DiffersAt(T, U, i) /\ U.entries[i] = [key |-> k, value |-> v]
        BY PutDiffers
    <2> HIDE DEF U
    <2> QED BY <2>1 DEF EMPTY
<1>2. Used(U) = Used(T) \cup {i}
    BY <1>1 DEF DiffersAt, Used, Rounds
<1>3. IsFiniteSet(Used(T))
    BY UsedIsFinite
<1>4. CASE T.entries[i] = EMPTY
    <2>1. i \notin Used(T)
        BY <1>4 DEF Used
    <2>2. Cardinality(Used(U)) = Cardinality(Used(T)) + 1
        BY <1>2, <1>3, <2>1, FS_AddElement
    <2> QED BY <1>4, <2>2 DEF Put
<1>5. CASE T.entries[i] # EMPTY
    <2>1. Used(U) = Used(T)
        BY <1>2, <1>5 DEF Used, Rounds
    <2> QED BY <1>5, <2>1 DEF Put
<1> QED BY <1>4, <1>5

LEMMA PutKeeps ==
    ASSUME NEW T, WellFormed(T), T.capacity > 0, 4 * (T.count + 1) <= 3 * T.capacity,
           NEW k \in Keys, NEW v \in Values
    PROVE  /\ WellFormed(Put(T, FindEntry(T, k), k, v))
           /\ SetsTo(T, Put(T, FindEntry(T, k), k, v), k, v)
<1> DEFINE i == FindEntry(T, k)
           U == Put(T, i, k, v)
<1>1. IsTable(T) /\ T.count \in Nat /\ T.capacity \in Nat
    BY WellFormedTypes
<1>2. PICK r : FoundIn(T, k, i, r) /\ i \in Rounds(T)
    BY SearchFinds, Zenon
<1>3. T.entries[i].key \in {k, NULL}
    BY <1>2, Zenon DEF FoundIn
<1>4. DiffersAt(T, U, i) /\ U.entries[i] = [key |-> k, value |-> v]
    BY <1>1, <1>2, PutDiffers
<1>5. ASSUME NEW j \in Rounds(T), T.entries[j].key = k PROVE j = i
    BY <1>5, EntryIsFound
<1>6. U.count = Cardinality(Used(U))
    BY <1>1, <1>2, PutCounts DEF WellFormed
<1>7. U.count \in Nat /\ 4 * U.count <= 3 * U.capacity /\ U.capacity = T.capacity
    BY <1>1 DEF Put
<1> HIDE DEF U
<1>8. Rounds(U) = Rounds(T) /\ \A j \in Rounds(T) \ {i} : U.entries[j] = T.entries[j]
    BY <1>4, <1>7 DEF DiffersAt, Rounds
<1> HIDE DEF i
<1>9. ASSUME NEW j \in Rounds(T), U.entries[j].key # NULL PROVE Reachable(U, j)
    <2>1. CASE j = i
        <3>1. U.entries[i].key = k
            BY <1>4
        <3> QED BY <1>2, <1>4, <2>1, <3>1, StoredIsReachable, Zenon
    <2>2. CASE j # i
        <3>1. U.entries[j] = T.entries[j] /\ T.entries[j].key # NULL
            BY <1>8, <1>9, <2>2
        <3>2. T.entries[j].key \in Keys
            BY <3>1, EntryIsFound
        <3>3. T.entries[j].key # k
            BY <1>5, <2>2
        <3>4. Reachable(T, j)
            BY <3>1 DEF WellFormed, Rounds
        <3>5. U.entries[i] # EMPTY /\ U.entries[i].key # T.entries[j].key
            BY <1>4, <3>3 DEF EMPTY
        <3> QED BY <1>4, <2>2, <3>2, <3>4, <3>5, OthersStayReachable
    <2> QED BY <2>1, <2>2
<1>10. WellFormed(U)
    <2>1. IsTable(U)
        BY <1>4 DEF DiffersAt
    <2>2. \A j \in 0..U.capacity - 1 : U.entries[j].key # NULL => Reachable(U, j)
        BY <1>8, <1>9 DEF Rounds
    <2>3. U.capacity = 0 \/ U.capacity >= MIN_CAPACITY
        BY <1>7 DEF WellFormed
    <2> QED BY <1>6, <1>7, <2>1, <2>2, <2>3, Zenon DEF WellFormed
<1>11. ASSUME NEW w \in Values PROVE Has(U, k, w) <=> w = v
    <2>1. ASSUME Has(U, k, w) PROVE w = v
        <3>1. PICK j \in Rounds(T) : U.entries[j] = [key |-> k, value |-> w]
            BY <1>8, <2>1 DEF Has, HasAmong, Rounds
        <3>2. j = i
            BY <1>5, <1>8, <3>1
        <3> QED BY <1>4, <3>1, <3>2
    <2>2. Has(U, k, v)
        BY <1>2, <1>4, <1>8 DEF Has, HasAmong, Rounds
    <2> QED BY <2>1, <2>2
<1>12. ASSUME NEW l \in Keys \ {k}, NEW w \in Values PROVE Has(U, l, w) <=> Has(T, l, w)
    <2>1. ASSUME NEW j \in Rounds(T)
          PROVE  U.entries[j] = [key |-> l, value |-> w] <=> T.entries[j] = [key |-> l, value |-> w]
        BY <1>3, <1>4, <1>8
    <2> QED BY <1>7, <2>1 DEF Has, HasAmong, Rounds
<1> QED BY <1>7, <1>10, <1>11, <1>12, Zenon DEF SetsTo, U, i

(* Table U has nothing for key k, and for the other keys what T has.       *)
Removes(T, U, k) ==
    /\ U.capacity = T.capacity
    /\ \A w \in Values : ~Has(U, k, w)
    /\ \A l \in Keys \ {k}, w \in Values : Has(U, l, w) <=> Has(T, l, w)

LEMMA DeleteDiffers ==
    ASSUME NEW T, IsTable(T), NEW i \in Rounds(T)
    PROVE  DiffersAt(T, Delete(T, i), i) /\ Delete(T, i).entries[i] = TOMBSTONE
<1> DEFINE U == Delete(T, i)
<1>1. /\ T.count \in Nat /\ T.capacity \in Nat /\ T.capacity > 0
      /\ T.entries \in [Rounds(T) -> Entry]
    BY DEF IsTable, Rounds
<1>2. TOMBSTONE \in Entry
    BY DEF Entry
<1>3. U.capacity = T.capacity /\ U.count = T.count /\ U.entries = [T.entries EXCEPT ![i] = TOMBSTONE]
    BY DEF Delete
<1>4. /\ U.entries \in [Rounds(T) -> Entry] /\ U.entries[i] = TOMBSTONE
      /\ \A j \in Rounds(T) \ {i} : U.entries[j] = T.entries[j]
    BY <1>1, <1>2, <1>3
<1>5. IsTable(U)
    BY <1>1, <1>3, <1>4 DEF IsTable, Rounds
<1> QED BY <1>1, <1>3, <1>4, <1>5 DEF DiffersAt

LEMMA DeleteKeeps ==
    ASSUME NEW T, WellFormed(T), NEW i \in Rounds(T), NEW k \in Keys, T.entries[i].key = k
    PROVE  WellFormed(Delete(T, i)) /\ Removes(T, Delete(T, i), k)
<1> DEFINE U == Delete(T, i)
<1>1. IsTable(T) /\ T.count \in Nat /\ T.capacity \in Nat
    BY WellFormedTypes
<1>2. DiffersAt(T, U, i) /\ U.entries[i] = TOMBSTONE
    BY <1>1, DeleteDiffers
<1>3. U.capacity = T.capacity /\ U.count = T.count
    BY DEF Delete
<1> HIDE DEF U
<1>4. Rounds(U) = Rounds(T) /\ \A j \in Rounds(T) \ {i} : U.entries[j] = T.entries[j]
    BY <1>2, <1>3 DEF DiffersAt, Rounds
<1>5. TOMBSTONE # EMPTY /\ TOMBSTONE.key = NULL /\ k # NULL /\ EMPTY.key = NULL
    BY DEF TOMBSTONE, EMPTY
<1>6. Used(U) = Used(T)
    BY <1>2, <1>4, <1>5 DEF Used, Rounds
<1>7. ASSUME NEW j \in Rounds(T), T.entries[j].key = k PROVE j = i
    BY <1>7, <1>5, EntryIsFound
<1>8. ASSUME NEW j \in Rounds(T), U.entries[j].key # NULL PROVE Reachable(U, j)
    <2>1. j # i
        BY <1>2, <1>5, <1>8
    <2>2. U.entries[j] = T.entries[j] /\ T.entries[j].key # NULL
        BY <1>4, <1>8, <2>1
    <2>3. T.entries[j].key \in Keys
        BY <2>2, EntryIsFound
    <2>4. Reachable(T, j)
        BY <2>2 DEF WellFormed, Rounds
    <2> QED BY <1>2, <1>5, <2>1, <2>2, <2>3, <2>4, OthersStayReachable
<1>9. WellFormed(U)
    <2>1. IsTable(U)
        BY <1>2 DEF DiffersAt
    <2>2. \A j \in 0..U.capacity - 1 : U.entries[j].key # NULL => Reachable(U, j)
        BY <1>4, <1>8 DEF Rounds
    <2>3. U.capacity = 0 \/ U.capacity >= MIN_CAPACITY
        BY <1>3 DEF WellFormed
    <2>4. U.count = Cardinality(Used(U)) /\ 4 * U.count <= 3 * U.capacity
        BY <1>3, <1>6 DEF WellFormed
    <2> QED BY <2>1, <2>2, <2>3, <2>4, Zenon DEF WellFormed
<1>10. ASSUME NEW w \in Values PROVE ~Has(U, k, w)
    <2>1. ASSUME NEW j \in Rounds(T) PROVE U.entries[j] # [key |-> k, value |-> w]
        BY <1>2, <1>4, <1>5, <1>7
    <2> QED BY <1>3, <2>1 DEF Has, HasAmong, Rounds
<1>11. ASSUME NEW l \in Keys \ {k}, NEW w \in Values PROVE Has(U, l, w) <=> Has(T, l, w)
    <2>1. ASSUME NEW j \in Rounds(T)
          PROVE  U.entries[j] = [key |-> l, value |-> w] <=> T.entries[j] = [key |-> l, value |-> w]
        BY <1>2, <1>4, <1>5
    <2> QED BY <1>3, <2>1 DEF Has, HasAmong, Rounds
<1> QED BY <1>3, <1>9, <1>10, <1>11, Zenon DEF Removes, U

-----------------------------------------------------------------------------
(* Growth.                                                                 *)

LEMMA ClearedIsWellFormed ==
    ASSUME NEW c \in Nat, c = 0 \/ c >= MIN_CAPACITY
    PROVE  /\ WellFormed(Cleared(c))
           /\ \A k \in Keys, v \in Values : ~Has(Cleared(c), k, v)
           /\ \A i \in 0..c - 1 : Cleared(c).entries[i] = EMPTY
<1> DEFINE T == Cleared(c)
<1>1. T.count = 0 /\ T.capacity = c /\ T.entries = [i \in 0..c - 1 |-> EMPTY]
    BY DEF Cleared
<1> HIDE DEF T
<1>2. EMPTY \in Entry /\ EMPTY.key = NULL
    BY DEF Entry, EMPTY
<1>3. IsTable(T)
    BY <1>1, <1>2 DEF IsTable
<1>4. Used(T) = {}
    BY <1>1 DEF Used
<1>5. T.count = Cardinality(Used(T))
    BY <1>1, <1>4, FS_EmptySet
<1>6. \A i \in 0..c - 1 : T.entries[i] = EMPTY
    BY <1>1
<1>7. WellFormed(T)
    BY <1>1, <1>2, <1>3, <1>5, <1>6 DEF WellFormed
<1>8. \A k \in Keys, v \in Values : ~Has(T, k, v)
    BY <1>1, <1>2, <1>6 DEF Has, HasAmong
<1> QED BY <1>6, <1>7, <1>8 DEF T

LEMMA GrownCapacity ==
    ASSUME NEW c \in Nat
    PROVE  GrowCapacity(c) \in Nat /\ GrowCapacity(c) >= MIN_CAPACITY /\ GrowCapacity(c) > c
BY DEF GrowCapacity

(* A table that is not overloaded, or has just grown, has room for one     *)
(* more entry.                                                             *)
LEMMA GrownHasRoom ==
    ASSUME NEW count \in Nat, NEW c \in Nat, c = 0 \/ c >= MIN_CAPACITY, 4 * count <= 3 * c
    PROVE  4 * (count + 1) <= 3 * GrowCapacity(c)
<1>1. MIN_CAPACITY \in Nat /\ MIN_CAPACITY >= 2
    OBVIOUS
<1>2. CASE c < MIN_CAPACITY
    <2>1. GrowCapacity(c) = MIN_CAPACITY /\ count = 0
        BY <1>1, <1>2 DEF GrowCapacity
    <2> QED BY <1>1, <2>1
<1>3. CASE c >= MIN_CAPACITY
    <2>1. GrowCapacity(c) = 2 * c
        BY <1>1, <1>3 DEF GrowCapacity
    <2> QED BY <1>1, <1>3, <2>1
<1> QED BY <1>1, <1>2, <1>3

-----------------------------------------------------------------------------
(* The parts of the invariant.                                             *)

LEMMA CallTypes ==
    ASSUME TypeOK
    PROVE  /\ call.op # "returned" => call.table \in Tables
           /\ call.op \in {"get", "del", "set", "assign"} => call.key \in Keys
           /\ call.op \in {"set", "assign"} => call.value \in Values
           /\ call.op = "addAll" => call.from \in Tables
           /\ call.op \in {"get", "del", "set", "assign", "addAll", "returned"}
BY DEF TypeOK

LEMMA TablesWellFormed ==
    ASSUME Inv
    PROVE  /\ \A t \in Tables : WellFormed(tables[t])
           /\ WellFormed(fresh)
           /\ call.op # "returned" => WellFormed(This)
<1>1. \A t \in Tables : WellFormed(tables[t])
    BY DEF Inv, EveryTable
<1>2. WellFormed(fresh)
    BY DEF Inv, EveryTable
<1>3. call.op # "returned" => call.table \in Tables
    BY CallTypes DEF Inv
<1> QED BY <1>1, <1>2, <1>3 DEF This

(* Only set grows a table.                                                 *)
LEMMA NoGrowth ==
    ASSUME Inv, ~Setting
    PROVE  ~Growing /\ fresh = NoTable /\ next = 0
BY DEF Inv, GrowthOK

LEMMA SettingTypes ==
    ASSUME Inv, Setting
    PROVE  /\ call.op # "returned" /\ call.table \in Tables
           /\ Key \in Keys /\ Value \in Values
<1>1. TypeOK
    BY DEF Inv
<1>2. CASE Copying
    <2>1. call.op = "addAll" /\ call.from \in Tables /\ call.table \in Tables
        BY <1>1, <1>2, CallTypes DEF Copying
    <2>2. IsTable(tables[call.from]) /\ cursor \in 0..tables[call.from].capacity - 1
        BY <1>1, <1>2, <2>1 DEF TypeOK, Copying, IsTable
    <2>3. Source \in Entry /\ Source.key # NULL
        BY <1>2, <2>1, <2>2 DEF Source, IsTable, Setting
    <2>4. Source.key \in Keys /\ Source.value \in Values
        BY <2>3 DEF Entry, EMPTY, TOMBSTONE
    <2> QED BY <1>2, <2>1, <2>4 DEF Key, Value
<1>3. CASE ~Copying
    <2>1. call.op \in {"set", "assign"}
        BY <1>3 DEF Setting
    <2>2. call.table \in Tables /\ call.key \in Keys /\ call.value \in Values
        BY <1>1, <2>1, CallTypes
    <2> QED BY <1>3, <2>1, <2>2 DEF Key, Value
<1> QED BY <1>2, <1>3

LEMMA NoTableIsWellFormed ==
    /\ WellFormed(NoTable) /\ IsTable(NoTable) /\ NoTable.capacity = 0
    /\ \A k \in Keys, v \in Values : ~Has(NoTable, k, v)
<1>1. WellFormed(NoTable) /\ \A k \in Keys, v \in Values : ~Has(NoTable, k, v)
    BY ClearedIsWellFormed DEF NoTable
<1> QED BY <1>1, WellFormedTypes DEF NoTable, Cleared

LEMMA InitInv ==
    ASSUME Init
    PROVE  Inv
<1>1. \A t \in Tables : tables[t] = NoTable
    BY DEF Init
<1>2. fresh = NoTable /\ next = 0 /\ cursor = 0 /\ call.op = "returned" /\ call = Returned(VOID)
    BY DEF Init, Returned
<1>3. TypeOK
    BY <1>1, <1>2, NoTableIsWellFormed DEF Init, TypeOK, Returned
<1>4. \A table \in EveryTable : WellFormed(table)
    BY <1>1, <1>2, NoTableIsWellFormed DEF EveryTable
<1>5. GrowthOK
    BY <1>2, NoTableIsWellFormed DEF GrowthOK, Growing
<1>6. CopyOK
    BY <1>2 DEF CopyOK
<1> QED BY <1>3, <1>4, <1>5, <1>6 DEF Inv

(* A call of another kind is made or returns, and no table changes.        *)
LEMMA CallKeepsInv ==
    ASSUME Inv, ~Setting, UNCHANGED <<tables, fresh, next>>, cursor' \in Nat,
           TypeOK', CopyOK'
    PROVE  Inv'
<1>1. \A table \in EveryTable' : WellFormed(table)
    BY DEF Inv, EveryTable
<1>2. GrowthOK'
    BY NoGrowth DEF GrowthOK, Growing
<1> QED BY <1>1, <1>2 DEF Inv

LEMMA RequestKeepsInv ==
    ASSUME Inv, Request
    PROVE  Inv'
<1>1. call.op = "returned" /\ UNCHANGED <<tables, fresh, next>> /\ cursor' = 0 /\ TypeOK
    BY DEF Request, Inv
<1>2. ~Setting
    BY <1>1 DEF Setting, Copying
<1>3. PICK t \in Tables :
        \/ call' \in [op : {"get", "del"}, table : {t}, key : Keys]
        \/ call' \in [op : {"set", "assign"}, table : {t}, key : Keys, value : Values]
        \/ \E from \in Tables \ {t} : call' = [op |-> "addAll", table |-> t, from |-> from]
    BY DEF Request
<1>4. TypeOK'
    BY <1>1, <1>3 DEF TypeOK
<1>5. CopyOK'
    <2>1. SUFFICES ASSUME call'.op = "addAll"
                   PROVE  /\ call'.table # call'.from /\ 0 <= tables[call'.from].capacity
                          /\ \A k \in Keys, v \in Values : ~HasAmong(tables[call'.from], 0, k, v)
        BY <1>1 DEF CopyOK
    <2>2. call'.table # call'.from /\ call'.from \in Tables
        BY <1>3, <2>1
    <2>3. tables[call'.from].capacity \in Nat
        BY <1>1, <2>2 DEF TypeOK, IsTable
    <2> QED BY <2>2, <2>3 DEF HasAmong
<1> QED BY <1>1, <1>2, <1>4, <1>5, CallKeepsInv

LEMMA GetKeepsInv ==
    ASSUME Inv, Get
    PROVE  Inv'
<1>1. call.op = "get" /\ UNCHANGED <<tables, cursor, fresh, next>> /\ TypeOK
    BY DEF Get, Inv
<1>2. ~Setting
    BY <1>1 DEF Setting, Copying
<1>3. PICK result \in Values \cup {ABSENT} : call' = Returned(result)
    <2>1. CASE call' = Returned(ABSENT)
        BY <2>1
    <2>2. CASE call' # Returned(ABSENT)
        <3>1. This.count # 0 /\ WellFormed(This) /\ call.key \in Keys
            BY <1>1, <2>2, TablesWellFormed, CallTypes DEF Get
        <3>2. This.capacity > 0
            <4>1. This.count \in Nat /\ This.capacity \in Nat /\ 4 * This.count <= 3 * This.capacity
                BY <3>1, WellFormedTypes DEF WellFormed
            <4> QED BY <3>1, <4>1
        <3>3. FindEntry(This, call.key) \in Rounds(This)
            BY <3>1, <3>2, SearchFinds, Zenon
        <3>4. This.entries[FindEntry(This, call.key)] \in Entry
            BY <3>1, <3>3, WellFormedTypes DEF Rounds
        <3>5. This.entries[FindEntry(This, call.key)].value \in Values
            BY <3>4 DEF Entry, EMPTY, TOMBSTONE
        <3> QED BY <2>2, <3>5 DEF Get
    <2> QED BY <2>1, <2>2
<1>4. TypeOK'
    BY <1>1, <1>3 DEF TypeOK, Returned
<1>5. CopyOK'
    BY <1>3 DEF CopyOK, Returned
<1>6. cursor' \in Nat
    BY <1>1 DEF TypeOK
<1> QED BY <1>1, <1>2, <1>4, <1>5, <1>6, CallKeepsInv

LEMMA SkipKeepsInv ==
    ASSUME Inv, Skip
    PROVE  Inv'
<1>1. /\ call.op = "addAll" /\ cursor < tables[call.from].capacity
      /\ tables[call.from].entries[cursor].key = NULL
      /\ cursor' = cursor + 1 /\ UNCHANGED <<tables, call, fresh, next>> /\ TypeOK
    BY DEF Skip, Copying, Source, Inv
<1>2. ~Setting
    BY <1>1 DEF Setting, Copying, Source
<1>3. call.from \in Tables /\ cursor \in Nat
    BY <1>1, CallTypes DEF TypeOK
<1>4. tables[call.from].capacity \in Nat
    BY <1>1, <1>3 DEF TypeOK, IsTable
<1>5. TypeOK'
    BY <1>1, <1>3 DEF TypeOK
<1>6. CopyOK'
    <2>1. \A k \in Keys, v \in Values :
            HasAmong(tables[call.from], cursor + 1, k, v) => HasAmong(tables[call.from], cursor, k, v)
        <3> SUFFICES ASSUME NEW k \in Keys, NEW v \in Values,
                            NEW i \in 0..(cursor + 1) - 1,
                            tables[call.from].entries[i] = [key |-> k, value |-> v]
                     PROVE  i \in 0..cursor - 1
            BY DEF HasAmong
        <3>1. i # cursor
            BY <1>1
        <3> QED BY <1>3, <3>1
    <2>2. CopyOK /\ UNCHANGED This
        BY <1>1 DEF Inv, This
    <2> QED BY <1>1, <1>3, <1>4, <2>1, <2>2 DEF CopyOK
<1> QED BY <1>1, <1>2, <1>3, <1>5, <1>6, CallKeepsInv

LEMMA AddedAllKeepsInv ==
    ASSUME Inv, AddedAll
    PROVE  Inv'
<1>1. /\ call.op = "addAll" /\ ~Copying /\ call' = Returned(VOID)
      /\ UNCHANGED <<tables, cursor, fresh, next>> /\ TypeOK
    BY DEF AddedAll, Inv
<1>2. ~Setting
    BY <1>1 DEF Setting
<1>3. TypeOK' /\ cursor' \in Nat
    BY <1>1 DEF TypeOK, Returned
<1>4. CopyOK'
    BY <1>1 DEF CopyOK, Returned
<1> QED BY <1>1, <1>2, <1>3, <1>4, CallKeepsInv

(* The table of a call becomes U, and no other changes.                    *)
LEMMA BecomesTypes ==
    ASSUME Inv, call.op # "returned", NEW U, Becomes(U)
    PROVE  /\ tables'[call.table] = U
           /\ \A t \in Tables \ {call.table} : tables'[t] = tables[t]
           /\ DOMAIN tables' = Tables
<1>1. DOMAIN tables = Tables /\ call.table \in Tables
    BY CallTypes DEF Inv, TypeOK
<1>2. tables' = [tables EXCEPT ![call.table] = U]
    BY DEF Becomes
<1>3. DOMAIN tables' = Tables
    BY <1>1, <1>2
<1> QED BY <1>1, <1>2, <1>3

LEMMA DelKeepsInv ==
    ASSUME Inv, Del
    PROVE  Inv'
<1>1. call.op = "del" /\ UNCHANGED <<cursor, fresh, next>> /\ TypeOK
    BY DEF Del, Inv
<1>2. ~Setting
    BY <1>1 DEF Setting, Copying
<1>3. PICK result \in BOOLEAN : call' = Returned(result)
    BY DEF Del
<1>4. CopyOK'
    BY <1>3 DEF CopyOK, Returned
<1>5. CASE UNCHANGED tables
    <2>1. TypeOK' /\ cursor' \in Nat
        BY <1>1, <1>3, <1>5 DEF TypeOK, Returned
    <2> QED BY <1>1, <1>2, <1>4, <1>5, <2>1, CallKeepsInv
<1>6. CASE ~UNCHANGED tables
    <2> DEFINE i == FindEntry(This, call.key)
               U == Delete(This, i)
    <2>1. This.count # 0 /\ This.entries[i].key # NULL /\ Becomes(U)
        BY <1>6 DEF Del
    <2>2. WellFormed(This) /\ call.key \in Keys
        BY <1>1, TablesWellFormed, CallTypes
    <2>3. This.capacity > 0
        <3>1. This.count \in Nat /\ This.capacity \in Nat /\ 4 * This.count <= 3 * This.capacity
            BY <2>2, WellFormedTypes DEF WellFormed
        <3> QED BY <2>1, <3>1
    <2>4. PICK r : FoundIn(This, call.key, i, r) /\ i \in Rounds(This)
        BY <2>2, <2>3, SearchFinds, Zenon
    <2>5. This.entries[i].key = call.key
        BY <2>1, <2>4, Zenon DEF FoundIn
    <2>6. WellFormed(U)
        BY <2>2, <2>4, <2>5, DeleteKeeps
    <2> HIDE DEF U
    <2>7. /\ tables'[call.table] = U
          /\ \A t \in Tables \ {call.table} : tables'[t] = tables[t]
          /\ DOMAIN tables' = Tables
        BY <1>1, <2>1, BecomesTypes
    <2>8. \A t \in Tables : WellFormed(tables'[t])
        BY <2>6, <2>7, TablesWellFormed
    <2>9. \A t \in Tables : IsTable(tables'[t])
        BY <2>8, WellFormedTypes
    <2>10. TypeOK'
        BY <1>1, <1>3, <2>7, <2>9 DEF TypeOK, Returned
    <2>11. \A table \in EveryTable' : WellFormed(table)
        BY <1>1, <2>8, TablesWellFormed DEF EveryTable
    <2>12. GrowthOK'
        BY <1>1, <1>2, NoGrowth DEF GrowthOK, Growing
    <2> QED BY <1>4, <2>10, <2>11, <2>12 DEF Inv
<1> QED BY <1>5, <1>6

LEMMA GrowKeepsInv ==
    ASSUME Inv, Grow
    PROVE  Inv'
<1> DEFINE c == GrowCapacity(This.capacity)
<1>1. Setting /\ fresh' = Cleared(c) /\ next' = 0 /\ UNCHANGED <<tables, call, cursor>>
    BY DEF Grow
<1>2. This.capacity \in Nat
    BY <1>1, SettingTypes, TablesWellFormed, WellFormedTypes
<1>3. c \in Nat /\ c >= MIN_CAPACITY
    BY <1>2, GrownCapacity
<1> HIDE DEF c
<1>4. /\ WellFormed(fresh') /\ \A k \in Keys, v \in Values : ~Has(fresh', k, v)
      /\ \A i \in 0..c - 1 : fresh'.entries[i] = EMPTY
    BY <1>1, <1>3, ClearedIsWellFormed
<1>5. fresh'.capacity = c /\ fresh'.count = 0
    BY <1>1 DEF Cleared
<1>6. TypeOK'
    BY <1>1, <1>4, WellFormedTypes DEF Inv, TypeOK
<1>7. \A table \in EveryTable' : WellFormed(table)
    BY <1>1, <1>4 DEF Inv, EveryTable
<1>8. UNCHANGED <<Setting, This>>
    BY <1>1 DEF Setting, Copying, Source, This
<1>9. GrowthOK'
    <2>1. {i \in 0..0 - 1 : This.entries[i].key # NULL} = {}
        OBVIOUS
    <2>2. fresh'.count <= Cardinality({i \in 0..0 - 1 : This.entries[i].key # NULL})
        BY <1>5, <2>1, FS_EmptySet
    <2>3. \A k \in Keys, v \in Values : ~HasAmong(This, 0, k, v)
        BY DEF HasAmong
    <2>4. \A i \in 0..fresh'.capacity - 1 : fresh'.entries[i] # TOMBSTONE
        BY <1>4, <1>5 DEF EMPTY, TOMBSTONE
    <2>5. Setting' /\ next' = 0 /\ This' = This /\ next' <= This.capacity
        BY <1>1, <1>2, <1>8
    <2>6. fresh'.capacity = GrowCapacity(This.capacity) /\ Growing'
        BY <1>3, <1>5 DEF c, Growing
    <2>7. \A k \in Keys, v \in Values : Has(fresh', k, v) <=> HasAmong(This, 0, k, v)
        BY <1>4, <2>3, Zenon
    <2> QED BY <2>2, <2>4, <2>5, <2>6, <2>7, Zenon DEF GrowthOK
<1>10. CopyOK'
    BY <1>1, <1>8 DEF Inv, CopyOK
<1> QED BY <1>6, <1>7, <1>9, <1>10 DEF Inv

(* The entries with a key are among those in use.                          *)
Keyed(table, n) == {i \in 0..n - 1 : table.entries[i].key # NULL}

LEMMA KeyedAreUsed ==
    ASSUME NEW table, WellFormed(table), NEW n \in 0..table.capacity
    PROVE  /\ IsFiniteSet(Keyed(table, n)) /\ Cardinality(Keyed(table, n)) \in Nat
           /\ Cardinality(Keyed(table, n)) <= table.count
<1>1. IsTable(table) /\ table.capacity \in Nat
    BY WellFormedTypes
<1>2. Keyed(table, n) \subseteq Used(table)
    BY <1>1 DEF Keyed, Used, EMPTY
<1>3. IsFiniteSet(Used(table)) /\ table.count = Cardinality(Used(table))
    BY <1>1, UsedIsFinite DEF WellFormed
<1> QED BY <1>2, <1>3, FS_Subset, FS_CardinalityType

LEMMA KeyedGrows ==
    ASSUME NEW table, WellFormed(table), NEW n \in 0..table.capacity - 1
    PROVE  Cardinality(Keyed(table, n + 1)) =
              Cardinality(Keyed(table, n)) + IF table.entries[n].key = NULL THEN 0 ELSE 1
<1>1. table.capacity \in Nat
    BY WellFormedTypes
<1>2. IsFiniteSet(Keyed(table, n)) /\ Cardinality(Keyed(table, n)) \in Nat /\ n \notin Keyed(table, n)
    BY <1>1, KeyedAreUsed DEF Keyed
<1>3. CASE table.entries[n].key = NULL
    <2>1. Keyed(table, n + 1) = Keyed(table, n)
        BY <1>1, <1>3 DEF Keyed
    <2> QED BY <1>2, <1>3, <2>1
<1>4. CASE table.entries[n].key # NULL
    <2>1. Keyed(table, n + 1) = Keyed(table, n) \cup {n}
        BY <1>1, <1>4 DEF Keyed
    <2>2. Cardinality(Keyed(table, n + 1)) = Cardinality(Keyed(table, n)) + 1
        BY <1>2, <2>1, FS_AddElement
    <2> QED BY <1>4, <2>2
<1> QED BY <1>3, <1>4

LEMMA HasOneMore ==
    ASSUME NEW table, NEW n \in Nat, NEW k, NEW v
    PROVE  HasAmong(table, n + 1, k, v) <=>
              HasAmong(table, n, k, v) \/ table.entries[n] = [key |-> k, value |-> v]
BY DEF HasAmong

(* What growth has kept so far.                                            *)
LEMMA GrowthParts ==
    ASSUME Inv, Growing
    PROVE  /\ Setting /\ next \in 0..This.capacity
           /\ WellFormed(This) /\ WellFormed(fresh)
           /\ fresh.capacity = GrowCapacity(This.capacity)
           /\ \A i \in 0..fresh.capacity - 1 : fresh.entries[i] # TOMBSTONE
           /\ fresh.count <= Cardinality(Keyed(This, next))
           /\ \A k \in Keys, v \in Values : Has(fresh, k, v) <=> HasAmong(This, next, k, v)
<1>1. /\ Setting /\ next <= This.capacity
      /\ fresh.capacity = GrowCapacity(This.capacity)
      /\ \A i \in 0..fresh.capacity - 1 : fresh.entries[i] # TOMBSTONE
      /\ fresh.count <= Cardinality(Keyed(This, next))
      /\ \A k \in Keys, v \in Values : Has(fresh, k, v) <=> HasAmong(This, next, k, v)
    BY Zenon DEF Inv, GrowthOK, Keyed
<1>2. WellFormed(This) /\ WellFormed(fresh)
    BY <1>1, SettingTypes, TablesWellFormed
<1>3. next \in Nat /\ This.capacity \in Nat
    BY <1>2, WellFormedTypes DEF Inv, TypeOK
<1>4. next \in 0..This.capacity
    BY <1>1, <1>3
<1> QED BY <1>1, <1>2, <1>4, Zenon

(* The table that has grown has room for the key.                          *)
LEMMA GrowthHasRoom ==
    ASSUME Inv, Growing
    PROVE  fresh.capacity > 0 /\ 4 * (fresh.count + 1) <= 3 * fresh.capacity
<1>1. /\ WellFormed(This) /\ next \in 0..This.capacity
      /\ fresh.capacity = GrowCapacity(This.capacity)
      /\ fresh.count <= Cardinality(Keyed(This, next))
    BY GrowthParts
<1>2. /\ This.count \in Nat /\ This.capacity \in Nat
      /\ This.capacity = 0 \/ This.capacity >= MIN_CAPACITY
      /\ 4 * This.count <= 3 * This.capacity
    BY <1>1, WellFormedTypes DEF WellFormed
<1>3. fresh.count \in Nat /\ fresh.capacity \in Nat
    BY DEF Inv, TypeOK, IsTable
<1>4. Cardinality(Keyed(This, next)) \in Nat /\ Cardinality(Keyed(This, next)) <= This.count
    BY <1>1, KeyedAreUsed
<1>5. fresh.count <= This.count
    BY <1>1, <1>2, <1>3, <1>4
<1>6. 4 * (This.count + 1) <= 3 * fresh.capacity
    BY <1>1, <1>2, GrownHasRoom
<1> QED BY <1>2, <1>3, <1>5, <1>6 DEF Growing

(* The entry of Rehash goes to one that was empty: its key is not in the   *)
(* new table yet, which has no tombstones.                                 *)
LEMMA RehashPuts ==
    ASSUME Inv, Growing, next < This.capacity, This.entries[next].key # NULL
    PROVE  LET k == This.entries[next].key
               v == This.entries[next].value
               U == Put(fresh, FindEntry(fresh, k), k, v)
           IN  /\ k \in Keys /\ v \in Values
               /\ [U EXCEPT !.count = fresh.count + 1] = U
               /\ U.count = fresh.count + 1
               /\ WellFormed(U) /\ SetsTo(fresh, U, k, v)
               /\ \A i \in 0..U.capacity - 1 : U.entries[i] # TOMBSTONE
<1> DEFINE k == This.entries[next].key
           v == This.entries[next].value
           e == FindEntry(fresh, k)
           U == Put(fresh, e, k, v)
<1>1. /\ WellFormed(This) /\ WellFormed(fresh) /\ next \in Rounds(This)
      /\ \A i \in 0..fresh.capacity - 1 : fresh.entries[i] # TOMBSTONE
      /\ \A l \in Keys, w \in Values : Has(fresh, l, w) <=> HasAmong(This, next, l, w)
    <2>1. next \in 0..This.capacity /\ WellFormed(This)
        BY GrowthParts
    <2>2. This.capacity \in Nat
        BY <2>1, WellFormedTypes
    <2>3. next \in Rounds(This)
        BY <2>1, <2>2 DEF Rounds
    <2> QED BY <2>3, GrowthParts
<1>2. /\ IsTable(This) /\ IsTable(fresh) /\ fresh.capacity > 0 /\ 4 * (fresh.count + 1) <= 3 * fresh.capacity
    BY <1>1, WellFormedTypes, GrowthHasRoom
<1>3. This.entries[next] \in Entry
    BY <1>1, <1>2 DEF IsTable, Rounds
<1>4. k \in Keys /\ v \in Values
    BY <1>3 DEF Entry, EMPTY, TOMBSTONE
<1>5. WellFormed(U) /\ SetsTo(fresh, U, k, v)
    BY <1>1, <1>2, <1>4, PutKeeps
<1>6. PICK r : FoundIn(fresh, k, e, r) /\ e \in Rounds(fresh)
    BY <1>1, <1>2, <1>4, SearchFinds, Zenon
<1>7. fresh.entries[e].key # k
    <2> SUFFICES ASSUME fresh.entries[e].key = k
                 PROVE  FALSE
        OBVIOUS
    <2>1. fresh.entries[e] \in Entry /\ k # NULL
        BY <1>2, <1>4, <1>6 DEF IsTable, Rounds
    <2>2. fresh.entries[e].value \in Values
        BY <2>1 DEF Entry, EMPTY, TOMBSTONE
    <2>3. fresh.entries[e] = [key |-> k, value |-> fresh.entries[e].value]
        BY <2>1 DEF Entry, EMPTY, TOMBSTONE
    <2>4. Has(fresh, k, fresh.entries[e].value)
        BY <1>6, <2>3 DEF Has, HasAmong, Rounds
    <2>5. HasAmong(This, next, k, fresh.entries[e].value)
        BY <1>1, <1>4, <2>2, <2>4
    <2>6. PICK j \in 0..next - 1 : This.entries[j] = [key |-> k, value |-> fresh.entries[e].value]
        BY <2>5 DEF HasAmong
    <2>7. j \in Rounds(This) /\ j # next /\ This.entries[j].key = k
        BY <1>1, <1>2, <2>6 DEF Rounds, IsTable
    <2>8. FindEntry(This, k) = j /\ FindEntry(This, k) = next
        BY <1>1, <2>1, <2>7, EntryIsFound
    <2> QED BY <2>7, <2>8
<1>8. fresh.entries[e] = EMPTY
    <2>1. fresh.entries[e].key = NULL
        BY <1>6, <1>7, Zenon DEF FoundIn
    <2>2. fresh.entries[e] \in Entry /\ fresh.entries[e] # TOMBSTONE
        BY <1>1, <1>2, <1>6 DEF IsTable, Rounds
    <2> QED BY <2>1, <2>2 DEF Entry
<1>9. U.count = fresh.count + 1 /\ [U EXCEPT !.count = fresh.count + 1] = U
    BY <1>8 DEF Put
<1>10. \A i \in 0..U.capacity - 1 : U.entries[i] # TOMBSTONE
    <2>1. DiffersAt(fresh, U, e) /\ U.entries[e] = [key |-> k, value |-> v]
        BY <1>2, <1>4, <1>6, PutDiffers
    <2> HIDE DEF U, e
    <2>2. U.entries[e] # TOMBSTONE
        BY <1>4, <2>1 DEF TOMBSTONE
    <2> QED BY <1>1, <2>1, <2>2 DEF DiffersAt, Rounds
<1> QED BY <1>4, <1>5, <1>9, <1>10

LEMMA RehashKeepsInv ==
    ASSUME Inv, Rehash
    PROVE  Inv'
<1> DEFINE k == This.entries[next].key
           v == This.entries[next].value
<1>1. Growing /\ next < This.capacity /\ next' = next + 1 /\ UNCHANGED <<tables, call, cursor>>
    BY DEF Rehash
<1>2. /\ Setting /\ next \in 0..This.capacity
      /\ WellFormed(This) /\ WellFormed(fresh)
      /\ fresh.capacity = GrowCapacity(This.capacity)
      /\ \A i \in 0..fresh.capacity - 1 : fresh.entries[i] # TOMBSTONE
      /\ fresh.count <= Cardinality(Keyed(This, next))
      /\ \A l \in Keys, w \in Values : Has(fresh, l, w) <=> HasAmong(This, next, l, w)
    BY <1>1, GrowthParts
<1>3. This.capacity \in Nat /\ next \in Rounds(This) /\ next \in Nat /\ fresh.count \in Nat
    BY <1>1, <1>2, WellFormedTypes DEF Rounds
<1>4. Cardinality(Keyed(This, next)) \in Nat /\ next + 1 <= This.capacity
    BY <1>1, <1>2, <1>3, KeyedAreUsed
<1>5. Cardinality(Keyed(This, next + 1)) = Cardinality(Keyed(This, next)) + IF k = NULL THEN 0 ELSE 1
    BY <1>2, <1>3, KeyedGrows DEF Rounds
<1>6. /\ WellFormed(fresh') /\ fresh'.capacity = fresh.capacity
      /\ \A i \in 0..fresh'.capacity - 1 : fresh'.entries[i] # TOMBSTONE
      /\ fresh'.count <= Cardinality(Keyed(This, next + 1))
      /\ \A l \in Keys, w \in Values : Has(fresh', l, w) <=> HasAmong(This, next + 1, l, w)
    <2>1. CASE k = NULL
        <3>1. fresh' = fresh
            BY <2>1 DEF Rehash
        <3>2. fresh.count <= Cardinality(Keyed(This, next + 1))
            BY <1>2, <1>3, <1>4, <1>5, <2>1
        <3>3. ASSUME NEW l \in Keys, NEW w \in Values
              PROVE  HasAmong(This, next + 1, l, w) <=> HasAmong(This, next, l, w)
            <4>1. This.entries[next] # [key |-> l, value |-> w]
                BY <2>1
            <4> QED BY <1>3, <4>1, HasOneMore
        <3> QED BY <1>2, <3>1, <3>2, <3>3
    <2>2. CASE k # NULL
        <3> DEFINE U == Put(fresh, FindEntry(fresh, k), k, v)
        <3>1. fresh' = [U EXCEPT !.count = fresh.count + 1]
            BY <2>2 DEF Rehash
        <3>2. /\ k \in Keys /\ v \in Values
              /\ [U EXCEPT !.count = fresh.count + 1] = U
              /\ U.count = fresh.count + 1
              /\ WellFormed(U) /\ SetsTo(fresh, U, k, v)
              /\ \A i \in 0..U.capacity - 1 : U.entries[i] # TOMBSTONE
            BY <1>1, <2>2, RehashPuts
        <3>3. fresh' = U
            BY <3>1, <3>2
        <3> HIDE DEF U
        <3>4. U.count <= Cardinality(Keyed(This, next + 1))
            BY <1>2, <1>3, <1>4, <1>5, <2>2, <3>2
        <3>5. U.capacity = fresh.capacity
            BY <3>2 DEF SetsTo
        <3>6. This.entries[next] = [key |-> k, value |-> v]
            <4>1. This.entries[next] \in Entry /\ k # NULL
                BY <1>2, <1>3, <2>2, WellFormedTypes DEF Rounds
            <4> QED BY <4>1 DEF Entry, EMPTY, TOMBSTONE
        <3>7. ASSUME NEW w \in Values PROVE ~HasAmong(This, next, k, w)
            <4> SUFFICES ASSUME NEW j \in 0..next - 1, This.entries[j] = [key |-> k, value |-> w]
                         PROVE  FALSE
                BY DEF HasAmong
            <4>1. j \in Rounds(This) /\ j # next /\ This.entries[j].key = k /\ k # NULL
                BY <1>3, <2>2 DEF Rounds
            <4>2. FindEntry(This, k) = j /\ FindEntry(This, k) = next
                BY <1>2, <1>3, <4>1, EntryIsFound
            <4> QED BY <4>1, <4>2
        <3> HIDE DEF k, v
        <3>8. ASSUME NEW l \in Keys, NEW w \in Values
              PROVE  Has(U, l, w) <=> HasAmong(This, next + 1, l, w)
            <4>1. CASE l = k
                <5>1. Has(U, l, w) <=> w = v
                    BY <3>2, <4>1 DEF SetsTo
                <5>2. HasAmong(This, next + 1, l, w) <=> w = v
                    <6>1. HasAmong(This, next + 1, l, w) <=>
                            HasAmong(This, next, l, w) \/ This.entries[next] = [key |-> l, value |-> w]
                        BY <1>3, HasOneMore
                    <6>2. This.entries[next] = [key |-> l, value |-> w] <=> w = v
                        BY <3>6, <4>1
                    <6> QED BY <3>7, <4>1, <6>1, <6>2
                <5> QED BY <5>1, <5>2
            <4>2. CASE l # k
                <5>1. Has(U, l, w) <=> HasAmong(This, next, l, w)
                    BY <1>2, <3>2, <4>2 DEF SetsTo
                <5>2. HasAmong(This, next + 1, l, w) <=> HasAmong(This, next, l, w)
                    <6>1. HasAmong(This, next + 1, l, w) <=>
                            HasAmong(This, next, l, w) \/ This.entries[next] = [key |-> l, value |-> w]
                        BY <1>3, HasOneMore
                    <6>2. This.entries[next] # [key |-> l, value |-> w]
                        BY <3>6, <4>2
                    <6> QED BY <6>1, <6>2
                <5> QED BY <5>1, <5>2
            <4> QED BY <4>1, <4>2
        <3> QED BY <3>2, <3>3, <3>4, <3>5, <3>8
    <2> QED BY <2>1, <2>2
<1>7. TypeOK'
    BY <1>1, <1>3, <1>6, WellFormedTypes DEF Inv, TypeOK
<1>8. \A table \in EveryTable' : WellFormed(table)
    BY <1>1, <1>6 DEF Inv, EveryTable
<1>9. Setting' /\ This' = This
    BY <1>1, <1>2 DEF Setting, Copying, Source, This
<1>10. GrowthOK'
    <2>1. Growing' /\ fresh'.capacity = GrowCapacity(This.capacity)
        BY <1>1, <1>2, <1>6 DEF Growing
    <2>2. next' = next + 1 /\ next' <= This.capacity
        BY <1>1, <1>4
    <2> QED BY <1>6, <1>9, <2>1, <2>2, Zenon DEF GrowthOK, Keyed
<1>11. CopyOK'
    BY <1>1, <1>9 DEF Inv, CopyOK
<1> QED BY <1>7, <1>8, <1>10, <1>11 DEF Inv

LEMMA HoldsIsHas ==
    ASSUME NEW T, WellFormed(T), NEW k \in Keys
    PROVE  Holds(T, k) <=> \E v \in Values : Has(T, k, v)
<1>1. IsTable(T)
    BY WellFormedTypes
<1>2. ASSUME NEW i \in Rounds(T), T.entries[i].key = k
      PROVE  T.entries[i].value \in Values /\ T.entries[i] = [key |-> k, value |-> T.entries[i].value]
    <2>1. T.entries[i] \in Entry /\ k # NULL
        BY <1>1 DEF IsTable, Rounds
    <2> QED BY <1>2, <2>1 DEF Entry, EMPTY, TOMBSTONE
<1>3. ASSUME Holds(T, k) PROVE \E v \in Values : Has(T, k, v)
    <2>1. PICK i \in Rounds(T) : T.entries[i].key = k
        BY <1>3 DEF Holds, Rounds
    <2> QED BY <1>2, <2>1 DEF Has, HasAmong, Rounds
<1>4. ASSUME NEW v \in Values, Has(T, k, v) PROVE Holds(T, k)
    BY <1>4 DEF Has, HasAmong, Holds
<1> QED BY <1>3, <1>4

(* The table that set stores into: the one it was called for, or the new   *)
(* one that has all the keys of the old.                                   *)
LEMMA SetStores ==
    ASSUME Inv, Set
    PROVE  /\ Setting /\ WellFormed(This)
           /\ \E T : /\ Store(T)
                     /\ WellFormed(T) /\ T.capacity > 0 /\ 4 * (T.count + 1) <= 3 * T.capacity
                     /\ \A k \in Keys, v \in Values : Has(T, k, v) <=> Has(This, k, v)
<1>1. CASE Setting /\ ~Growing /\ ~Overloaded(This) /\ Store(This)
    <2>1. WellFormed(This)
        BY <1>1, SettingTypes, TablesWellFormed
    <2>2. This.count \in Nat /\ This.capacity \in Nat
        BY <2>1, WellFormedTypes
    <2>3. This.capacity > 0 /\ 4 * (This.count + 1) <= 3 * This.capacity
        BY <1>1, <2>2 DEF Overloaded
    <2> QED BY <1>1, <2>1, <2>3
<1>2. CASE Growing /\ next = This.capacity /\ Store(fresh)
    <2>1. /\ Setting /\ WellFormed(This) /\ WellFormed(fresh)
          /\ \A k \in Keys, v \in Values : Has(fresh, k, v) <=> HasAmong(This, next, k, v)
        BY <1>2, GrowthParts
    <2>2. fresh.capacity > 0 /\ 4 * (fresh.count + 1) <= 3 * fresh.capacity
        BY <1>2, GrowthHasRoom
    <2>3. \A k \in Keys, v \in Values : Has(fresh, k, v) <=> Has(This, k, v)
        BY <1>2, <2>1 DEF Has
    <2> QED BY <1>2, <2>1, <2>2, <2>3
<1> QED BY <1>1, <1>2 DEF Set

(* What set does to its table: only the key's value changes, and an        *)
(* assignment leaves a key out that was not there.                         *)
Stored(U) ==
    /\ Becomes(U) /\ WellFormed(U)
    /\ \A l \in Keys \ {Key}, w \in Values : Has(U, l, w) <=> Has(This, l, w)
    /\ \A w \in Values : Has(U, Key, w) <=> w = Value /\ ~(call.op = "assign" /\ ~Holds(This, Key))

LEMMA SetDoes ==
    ASSUME Inv, Set
    PROVE  /\ \E U : Stored(U)
           /\ call.op = "addAll" => cursor' = cursor + 1 /\ UNCHANGED call
           /\ call.op # "addAll" =>
                call' = Returned(Holds(This, Key) = (call.op # "set")) /\ UNCHANGED cursor
           /\ fresh' = NoTable /\ next' = 0
<1>1. Setting /\ WellFormed(This) /\ Key \in Keys /\ Value \in Values
    BY SetStores, SettingTypes
<1>2. PICK T :
        /\ Store(T)
        /\ WellFormed(T) /\ T.capacity > 0 /\ 4 * (T.count + 1) <= 3 * T.capacity
        /\ \A k \in Keys, v \in Values : Has(T, k, v) <=> Has(This, k, v)
    BY SetStores, Zenon
<1> DEFINE k == Key
           v == Value
           i == FindEntry(T, k)
           P == Put(T, i, k, v)
           new == T.entries[i].key = NULL
<1> HIDE DEF k, v
<1>3. k \in Keys /\ v \in Values
    BY <1>1 DEF k, v
<1>4. WellFormed(P) /\ SetsTo(T, P, k, v)
    BY <1>2, <1>3, PutKeeps
<1>5. new <=> ~Holds(This, k)
    <2>1. PICK r : FoundIn(T, k, i, r) /\ (Holds(T, k) <=> T.entries[i].key = k)
        BY <1>2, <1>3, SearchFinds, Zenon
    <2>2. T.entries[i].key \in {k, NULL} /\ k # NULL
        BY <1>3, <2>1, Zenon DEF FoundIn
    <2>3. Holds(T, k) <=> Holds(This, k)
        BY <1>1, <1>2, <1>3, HoldsIsHas
    <2> QED BY <2>1, <2>2, <2>3
<1>6. \A l \in Keys \ {k}, w \in Values : Has(P, l, w) <=> Has(This, l, w)
    BY <1>2, <1>4 DEF SetsTo
<1>7. /\ IF call.op = "assign" /\ new
         THEN \E stored \in {P} : SearchEnds(stored, k) /\ Becomes(Delete(stored, FindEntry(stored, k)))
         ELSE Becomes(P)
      /\ IF call.op = "addAll" THEN cursor' = cursor + 1 /\ UNCHANGED call
         ELSE call' = Returned(new = (call.op = "set")) /\ UNCHANGED cursor
      /\ fresh' = NoTable /\ next' = 0
    BY <1>2 DEF Store, k, v
<1>8. \E U : Stored(U)
    <2>1. CASE call.op = "assign" /\ new
        <3> DEFINE j == FindEntry(P, k)
                   U == Delete(P, j)
        <3>1. Becomes(U)
            BY <1>7, <2>1
        <3> HIDE DEF P
        <3>2. P.capacity > 0 /\ Has(P, k, v)
            BY <1>2, <1>3, <1>4 DEF SetsTo
        <3>3. j \in Rounds(P) /\ P.entries[j].key = k
            <4>1. Holds(P, k)
                BY <1>3, <1>4, <3>2, HoldsIsHas
            <4> QED BY <1>3, <1>4, <3>2, <4>1, SearchFinds
        <3>4. WellFormed(U) /\ Removes(P, U, k)
            BY <1>3, <1>4, <3>3, DeleteKeeps
        <3> HIDE DEF U
        <3>5. \A l \in Keys \ {k}, w \in Values : Has(U, l, w) <=> Has(This, l, w)
            BY <1>6, <3>4 DEF Removes
        <3>6. \A w \in Values : ~Has(U, k, w)
            BY <3>4 DEF Removes
        <3>7. ~Holds(This, k)
            BY <1>5, <2>1
        <3> QED BY <2>1, <3>1, <3>4, <3>5, <3>6, <3>7 DEF Stored, k
    <2>2. CASE ~(call.op = "assign" /\ new)
        <3>1. Becomes(P)
            BY <1>7, <2>2
        <3> HIDE DEF P
        <3>2. \A w \in Values : Has(P, k, w) <=> w = v
            BY <1>4 DEF SetsTo
        <3>3. ~(call.op = "assign" /\ ~Holds(This, k))
            BY <1>5, <2>2
        <3> QED BY <1>4, <1>6, <3>1, <3>2, <3>3 DEF Stored, k, v
    <2> QED BY <2>1, <2>2
<1>9. (new = (call.op = "set")) = (Holds(This, k) = (call.op # "set"))
    <2>1. Holds(This, k) \in BOOLEAN
        BY DEF Holds
    <2>2. (call.op # "set") = ~(call.op = "set")
        OBVIOUS
    <2> HIDE DEF new
    <2>3. CASE call.op = "set"
        BY <1>5, <2>1, <2>3 DEF new
    <2>4. CASE call.op # "set"
        BY <1>5, <2>1, <2>4 DEF new
    <2> QED BY <2>3, <2>4
<1> QED BY <1>7, <1>8, <1>9 DEF k

LEMMA SetKeepsInv ==
    ASSUME Inv, Set
    PROVE  Inv'
<1>1. Setting /\ WellFormed(This) /\ Key \in Keys /\ Value \in Values /\ call.op # "returned"
      /\ call.table \in Tables /\ TypeOK
    BY SetStores, SettingTypes DEF Inv
<1>2. PICK U : Stored(U)
    BY SetDoes
<1>3. /\ call.op = "addAll" => cursor' = cursor + 1 /\ UNCHANGED call
      /\ call.op # "addAll" =>
            call' = Returned(Holds(This, Key) = (call.op # "set")) /\ UNCHANGED cursor
      /\ fresh' = NoTable /\ next' = 0
    BY SetDoes
<1>4. /\ tables'[call.table] = U
      /\ \A t \in Tables \ {call.table} : tables'[t] = tables[t]
      /\ DOMAIN tables' = Tables
    BY <1>1, <1>2, BecomesTypes DEF Stored
<1>5. \A t \in Tables : WellFormed(tables'[t])
    BY <1>2, <1>4, TablesWellFormed DEF Stored
<1>6. cursor' \in Nat
    BY <1>1, <1>3 DEF TypeOK
<1>7. call' = call \/ \E result \in BOOLEAN : call' = Returned(result)
    BY <1>3
<1>8. TypeOK'
    <2>1. \A t \in Tables : IsTable(tables'[t])
        BY <1>5, WellFormedTypes
    <2>2. IsTable(fresh')
        BY <1>3, NoTableIsWellFormed
    <2>3. next' \in Nat
        BY <1>3
    <2>4. call' \in  [op : {"get", "del"}, table : Tables, key : Keys]
                \cup [op : {"set", "assign"}, table : Tables, key : Keys, value : Values]
                \cup [op : {"addAll"}, table : Tables, from : Tables]
                \cup [op : {"returned"}, result : Values \cup {ABSENT, VOID} \cup BOOLEAN]
        BY <1>1, <1>7 DEF TypeOK, Returned
    <2> QED BY <1>4, <1>6, <2>1, <2>2, <2>3, <2>4 DEF TypeOK
<1>9. \A table \in EveryTable' : WellFormed(table)
    BY <1>3, <1>5, NoTableIsWellFormed DEF EveryTable
<1>10. GrowthOK'
    BY <1>3, NoTableIsWellFormed DEF GrowthOK, Growing
<1>11. CopyOK'
    <2>1. CASE call.op # "addAll"
        <3>1. call'.op = "returned"
            BY <1>3, <2>1 DEF Returned
        <3> QED BY <3>1 DEF CopyOK
    <2>2. CASE call.op = "addAll"
        <3> DEFINE from == tables[call.from]
        <3>1. call' = call /\ cursor' = cursor + 1
            BY <1>3, <2>2
        <3>2. call.table # call.from /\ call.from \in Tables
              /\ \A k \in Keys, v \in Values : HasAmong(from, cursor, k, v) => Has(This, k, v)
            BY <2>2, CallTypes DEF Inv, CopyOK
        <3>3. /\ cursor < from.capacity /\ Source.key # NULL
              /\ Key = from.entries[cursor].key /\ Value = from.entries[cursor].value
            BY <1>1, <2>2 DEF Setting, Copying, Source, Key, Value
        <3>4. tables'[call.from] = from
            BY <1>4, <3>2
        <3>5. WellFormed(from) /\ from.capacity \in Nat /\ cursor \in Rounds(from)
            <4>1. WellFormed(from)
                BY <3>2, TablesWellFormed
            <4>2. from.capacity \in Nat /\ cursor \in Nat
                BY <1>1, <4>1, WellFormedTypes DEF TypeOK
            <4> QED BY <3>3, <4>1, <4>2 DEF Rounds
        <3> HIDE DEF from
        <3>6. cursor + 1 <= from.capacity
            BY <3>5 DEF Rounds
        <3>7. ASSUME NEW k \in Keys, NEW v \in Values, HasAmong(from, cursor + 1, k, v)
              PROVE  Has(U, k, v)
            <4>1. HasAmong(from, cursor, k, v) \/ from.entries[cursor] = [key |-> k, value |-> v]
                BY <3>5, <3>7, HasOneMore DEF Rounds
            <4>2. CASE k = Key
                <5>1. PICK j \in Rounds(from) : from.entries[j] = [key |-> k, value |-> v]
                    BY <3>5, <4>1 DEF HasAmong, Rounds
                <5>2. FindEntry(from, k) = j /\ FindEntry(from, k) = cursor
                    <6>1. from.entries[j].key = k /\ from.entries[cursor].key = k /\ k # NULL
                        BY <3>3, <4>2, <5>1
                    <6> QED BY <3>5, <6>1, EntryIsFound
                <5>3. v = Value
                    BY <3>3, <5>1, <5>2
                <5> QED BY <1>2, <2>2, <4>2, <5>3 DEF Stored
            <4>3. CASE k # Key
                <5>1. HasAmong(from, cursor, k, v)
                    BY <3>3, <4>1, <4>3
                <5>2. Has(This, k, v)
                    BY <3>2, <5>1 DEF from
                <5> QED BY <1>2, <4>3, <5>2 DEF Stored
            <4> QED BY <4>2, <4>3
        <3>8. This' = U
            BY <1>4, <3>1 DEF This
        <3>9. call'.table # call'.from /\ cursor' <= tables'[call'.from].capacity
            BY <3>1, <3>2, <3>4, <3>6
        <3>10. \A k \in Keys, v \in Values : HasAmong(tables'[call'.from], cursor', k, v) => Has(This', k, v)
            BY <3>1, <3>4, <3>7, <3>8
        <3> QED BY <3>9, <3>10 DEF CopyOK
    <2> QED BY <2>1, <2>2
<1> QED BY <1>8, <1>9, <1>10, <1>11 DEF Inv

LEMMA NextKeepsInv ==
    ASSUME Inv, [Next]_vars
    PROVE  Inv'
<1>1. CASE Request
    BY <1>1, RequestKeepsInv
<1>2. CASE Get
    BY <1>2, GetKeepsInv
<1>3. CASE Del
    BY <1>3, DelKeepsInv
<1>4. CASE Grow
    BY <1>4, GrowKeepsInv
<1>5. CASE Rehash
    BY <1>5, RehashKeepsInv
<1>6. CASE Set
    BY <1>6, SetKeepsInv
<1>7. CASE Skip
    BY <1>7, SkipKeepsInv
<1>8. CASE AddedAll
    BY <1>8, AddedAllKeepsInv
<1>9. CASE UNCHANGED vars
    BY <1>9 DEF vars, Inv, TypeOK, EveryTable, GrowthOK, CopyOK, Growing, Setting, Copying, Source, This
<1> QED BY <1>1, <1>2, <1>3, <1>4, <1>5, <1>6, <1>7, <1>8, <1>9 DEF Next, Work

-----------------------------------------------------------------------------
(* The theorems.                                                           *)

(* Every table is well formed in every state, and growth and addAll have   *)
(* what they have passed (all of table.cc).                                *)
THEOREM Invariance == Spec => []Inv
<1>1. Init => Inv
    BY InitInv
<1>2. Inv /\ [Next]_vars => Inv'
    BY NextKeepsInv
<1> QED BY <1>1, <1>2, PTL DEF Spec

(* The types of the tables and of the calls.                               *)
THEOREM TypeCorrectness == Spec => []TypeOK
<1>1. Inv => TypeOK
    BY DEF Inv
<1> QED BY <1>1, Invariance, PTL

(* Table::set, del and adjustCapacity keep the count right.                *)
THEOREM CountCorrectness == Spec => []CountIsUsed
<1>1. Inv => CountIsUsed
    BY DEF Inv, WellFormed, CountIsUsed
<1> QED BY <1>1, Invariance, PTL

(* The loop of findEntry ends, for every key and in every table that it is *)
(* called for.                                                             *)
THEOREM SearchTermination == Spec => []SearchesEnd
<1>1. Inv => SearchesEnd
    BY SearchTerminates DEF Inv, SearchesEnd
<1> QED BY <1>1, Invariance, PTL

(* findEntry finds every key that a table has, where it is.                *)
THEOREM SearchCorrectness == Spec => []KeysAreFound
<1>1. Inv => KeysAreFound
    BY EntryIsFound DEF Inv, KeysAreFound, Rounds
<1> QED BY <1>1, Invariance, PTL

-----------------------------------------------------------------------------
(* Powers of two.                                                          *)

LEMMA DivisorLeavesNone ==
    ASSUME NEW k \in Nat \ {0}, NEW q \in Nat, NEW n \in Nat, n = k * q
    PROVE  n % k = 0
<1>1. PICK r \in 0..k - 1 : r = n % k
    BY Remainder
<1>2. PICK d \in Int : n = k * d + r
    <2>1. n \div k \in Int /\ n = k * (n \div k) + (n % k)
        BY Division
    <2> QED BY <1>1, <2>1
<1>3. k * (q - d) = r
    BY <1>2
<1>4. CASE q - d >= 1
    <2>1. PICK e \in Int : e = q - d
        OBVIOUS
    <2>2. e >= 1 /\ k * e >= k
        BY <1>4, <2>1
    <2> QED BY <1>3, <2>1, <2>2
<1>5. CASE q - d <= -1
    <2>1. PICK e \in Int : e = q - d
        OBVIOUS
    <2>2. k * e < 0
        BY <1>5, <2>1
    <2> QED BY <1>3, <2>1, <2>2
<1>6. CASE q - d = 0
    BY <1>1, <1>3, <1>6
<1> QED BY <1>4, <1>5, <1>6

LEMMA DoubledIsPower ==
    ASSUME NEW n \in Nat \ {0}, PowerOfTwo(n)
    PROVE  PowerOfTwo(2 * n)
<1> SUFFICES ASSUME NEW k \in 1..2 * n, (2 * n) % k = 0, k % 2 # 0 PROVE k = 1
    BY DEF PowerOfTwo
<1>1. PICK q \in Int : 2 * n = k * q
    <2>1. PICK d \in Nat : d = 2 * n
        OBVIOUS
    <2>2. d \div k \in Int /\ d = k * (d \div k) + (d % k)
        BY Division
    <2> QED BY <2>1, <2>2
<1>2. PICK m \in Nat : k = 2 * m + 1
    <2>1. k \div 2 \in Nat /\ k = 2 * (k \div 2) + 1
        OBVIOUS
    <2> QED BY <2>1
<1>3. PICK r \in Int : r = n - m * q
    OBVIOUS
<1>4. q = 2 * r
    <2>1. k * q = 2 * (m * q) + q
        BY <1>2
    <2>2. m * q \in Int
        OBVIOUS
    <2> QED BY <1>1, <1>3, <2>1, <2>2
<1>5. n = k * r
    <2>1. k * q = 2 * (k * r) /\ k * r \in Int
        BY <1>4
    <2> QED BY <1>1, <2>1
<1>6. r \in Nat \ {0} /\ k <= n
    <2>1. ASSUME r <= 0 PROVE FALSE
        <3>1. k * r <= 0
            BY <2>1
        <3> QED BY <1>5, <3>1
    <2>2. r \in Nat \ {0}
        BY <2>1
    <2>3. k * r >= k
        BY <2>2
    <2> QED BY <1>5, <2>2, <2>3
<1>7. n % k = 0
    BY <1>5, <1>6, DivisorLeavesNone
<1>8. \A j \in 1..n : n % j = 0 => j = 1 \/ j % 2 = 0
    BY DEF PowerOfTwo
<1>9. k \in 1..n
    BY <1>6
<1>10. k = 1 \/ k % 2 = 0
    BY <1>7, <1>8, <1>9, Zenon
<1> QED BY <1>10

LEMMA GrownIsPower ==
    ASSUME NEW c \in Nat, c > 0 => PowerOfTwo(c)
    PROVE  PowerOfTwo(GrowCapacity(c))
<1>1. CASE c < MIN_CAPACITY
    BY <1>1 DEF GrowCapacity
<1>2. CASE ~(c < MIN_CAPACITY)
    <2>1. c \in Nat \ {0} /\ GrowCapacity(c) = 2 * c
        BY <1>2 DEF GrowCapacity
    <2> QED BY <2>1, DoubledIsPower
<1> QED BY <1>1, <1>2

Masked(table) == table.capacity > 0 => PowerOfTwo(table.capacity)

LEMMA BecomesMasked ==
    ASSUME Inv, MaskIsRemainder, NEW T, Masked(T), Becomes(T), Masked(fresh')
    PROVE  MaskIsRemainder'
<1>1. \A t \in Tables : Masked(tables[t])
    BY DEF MaskIsRemainder, EveryTable, Masked
<1>2. DOMAIN tables = Tables
    BY DEF Inv, TypeOK
<1>3. \A t \in Tables : Masked(tables'[t])
    BY <1>1, <1>2 DEF Becomes
<1> QED BY <1>3 DEF MaskIsRemainder, EveryTable, Masked

LEMMA NextKeepsMasked ==
    ASSUME Inv, MaskIsRemainder, [Next]_vars
    PROVE  MaskIsRemainder'
<1>1. \A t \in Tables : Masked(tables[t])
    BY DEF MaskIsRemainder, EveryTable, Masked
<1>2. Masked(fresh)
    BY DEF MaskIsRemainder, EveryTable, Masked
<1>3. Masked(NoTable)
    BY DEF Masked, NoTable, Cleared
<1>4. ASSUME UNCHANGED <<tables, fresh>> PROVE MaskIsRemainder'
    BY <1>4 DEF MaskIsRemainder, EveryTable
<1>5. call.op # "returned" => call.table \in Tables
    BY DEF Inv, TypeOK
<1>6. CASE Request
    BY <1>4, <1>6 DEF Request
<1>7. CASE Get
    BY <1>4, <1>7 DEF Get
<1>8. CASE Del
    <2>1. UNCHANGED fresh
        BY <1>8 DEF Del
    <2>2. Masked(This)
        BY <1>1, <1>5, <1>8 DEF Del, This
    <2>3. UNCHANGED tables \/ \E i : Becomes(Delete(This, i))
        BY <1>8 DEF Del
    <2>4. ASSUME NEW i, Becomes(Delete(This, i)) PROVE MaskIsRemainder'
        <3>1. Masked(Delete(This, i))
            BY <2>2 DEF Masked, Delete
        <3> QED BY <1>2, <2>1, <2>4, <3>1, BecomesMasked DEF Masked
    <2> QED BY <1>4, <2>1, <2>3, <2>4
<1>9. Setting => Masked(This) /\ call.op # "returned" /\ This.capacity \in Nat
    <2>1. Setting => call.op # "returned"
        BY DEF Setting, Copying
    <2>2. \A t \in Tables : tables[t].capacity \in Nat
        BY DEF Inv, TypeOK, IsTable
    <2> QED BY <1>1, <1>5, <2>1, <2>2 DEF This
<1>10. CASE Grow
    <2>1. Setting /\ UNCHANGED tables /\ fresh' = Cleared(GrowCapacity(This.capacity))
        BY <1>10 DEF Grow
    <2>2. Masked(fresh')
        BY <1>9, <2>1, GrownIsPower DEF Cleared, Masked
    <2> QED BY <1>1, <2>1, <2>2 DEF MaskIsRemainder, EveryTable, Masked
<1>11. CASE Rehash
    <2>1. UNCHANGED tables /\ fresh'.capacity = fresh.capacity
        BY <1>11 DEF Rehash, Put
    <2>2. Masked(fresh')
        BY <1>2, <2>1 DEF Masked
    <2> QED BY <1>1, <2>1, <2>2 DEF MaskIsRemainder, EveryTable, Masked
<1>12. ASSUME NEW T, Masked(T), Store(T) PROVE MaskIsRemainder'
    <2>1. \A i, k, v : Masked(Put(T, i, k, v))
        BY <1>12 DEF Masked, Put
    <2>2. \A i, j, k, v : Masked(Delete(Put(T, i, k, v), j))
        BY <1>12 DEF Masked, Put, Delete
    <2>3. fresh' = NoTable
        BY <1>12 DEF Store
    <2>4. \/ \E i : Becomes(Put(T, i, Key, Value))
          \/ \E i, j : Becomes(Delete(Put(T, i, Key, Value), j))
        BY <1>12 DEF Store
    <2> QED BY <1>3, <2>1, <2>2, <2>3, <2>4, BecomesMasked
<1>13. CASE Set
    BY <1>2, <1>9, <1>12, <1>13 DEF Set
<1>14. CASE Skip
    BY <1>4, <1>14 DEF Skip
<1>15. CASE AddedAll
    BY <1>4, <1>15 DEF AddedAll
<1>16. CASE UNCHANGED vars
    BY <1>4, <1>16 DEF vars
<1> QED BY <1>6, <1>7, <1>8, <1>10, <1>11, <1>13, <1>14, <1>15, <1>16 DEF Next, Work

(* Every capacity is a power of two, through any growth of any table, if   *)
(* the first one is: the mask in findEntry is the remainder.               *)
THEOREM CapacityCorrectness == Spec => []MaskIsRemainder
<1>1. Init => MaskIsRemainder
    BY DEF Init, MaskIsRemainder, EveryTable, NoTable, Cleared
<1>2. Inv /\ MaskIsRemainder /\ [Next]_vars => MaskIsRemainder'
    BY NextKeepsMasked
<1> QED BY <1>1, <1>2, Invariance, PTL DEF Spec

-----------------------------------------------------------------------------
(* The tables as maps.                                                     *)

LEMMA ContentIs ==
    ASSUME NEW T, WellFormed(T), NEW k \in Keys
    PROVE  /\ Content(T, k) \in Values \cup {ABSENT}
           /\ Content(T, k) = ABSENT <=> ~Holds(T, k)
           /\ \A v \in Values : Content(T, k) = v <=> Has(T, k, v)
           /\ \A i \in Rounds(T) : T.entries[i].key = k => Content(T, k) = T.entries[i].value
<1>1. IsTable(T) /\ ABSENT \notin Values /\ k # NULL
    BY WellFormedTypes
<1>2. CASE Holds(T, k)
    <2> DEFINE i == CHOOSE i \in 0..T.capacity - 1 : T.entries[i].key = k
    <2>1. i \in Rounds(T) /\ T.entries[i].key = k
        BY <1>2 DEF Holds, Rounds
    <2>2. Content(T, k) = T.entries[i].value
        BY <1>2 DEF Content
    <2> HIDE DEF i
    <2>3. \A j \in Rounds(T) : T.entries[j].key = k => j = i
        BY <1>1, <2>1, EntryIsFound
    <2>4. T.entries[i] \in Entry
        BY <1>1, <2>1 DEF IsTable, Rounds
    <2>5. T.entries[i].value \in Values /\ T.entries[i] = [key |-> k, value |-> T.entries[i].value]
        BY <1>1, <2>1, <2>4 DEF Entry, EMPTY, TOMBSTONE
    <2>6. \A v \in Values : Content(T, k) = v <=> Has(T, k, v)
        BY <2>1, <2>2, <2>3, <2>5 DEF Has, HasAmong, Rounds
    <2> QED BY <1>1, <1>2, <2>2, <2>3, <2>5, <2>6
<1>3. CASE ~Holds(T, k)
    <2>1. Content(T, k) = ABSENT
        BY <1>3 DEF Content
    <2>2. \A v \in Values : ~Has(T, k, v)
        BY <1>3, HoldsIsHas
    <2>3. \A i \in Rounds(T) : T.entries[i].key # k
        BY <1>3 DEF Holds, Rounds
    <2> QED BY <1>1, <1>3, <2>1, <2>2, <2>3
<1> QED BY <1>2, <1>3

LEMMA SameContent ==
    ASSUME NEW T, WellFormed(T), NEW U, WellFormed(U), NEW k \in Keys,
           \A v \in Values : Has(T, k, v) <=> Has(U, k, v)
    PROVE  Content(T, k) = Content(U, k)
<1>1. Content(T, k) \in Values \cup {ABSENT} /\ Content(U, k) \in Values \cup {ABSENT}
    BY ContentIs
<1>2. \A v \in Values : Content(T, k) = v <=> Content(U, k) = v
    BY ContentIs
<1> QED BY <1>1, <1>2

LEMMA EmptyHoldsNothing ==
    ASSUME NEW T, WellFormed(T), T.count = 0, NEW k \in Keys
    PROVE  Content(T, k) = ABSENT
<1>1. IsFiniteSet(Used(T)) /\ Cardinality(Used(T)) = 0
    BY UsedIsFinite, WellFormedTypes DEF WellFormed
<1>2. Used(T) = {}
    BY <1>1, FS_EmptySet
<1>3. ~Holds(T, k)
    <2> SUFFICES ASSUME NEW i \in 0..T.capacity - 1, T.entries[i].key = k
                 PROVE  FALSE
        BY DEF Holds
    <2>1. T.entries[i] # EMPTY
        BY DEF EMPTY
    <2> QED BY <1>2, <2>1 DEF Used
<1> QED BY <1>3, ContentIs

(* What a call finds for its key.                                          *)
LEMMA FoundContent ==
    ASSUME NEW T, WellFormed(T), T.count # 0, NEW k \in Keys
    PROVE  LET entry == T.entries[FindEntry(T, k)]
           IN  /\ FindEntry(T, k) \in Rounds(T)
               /\ IF entry.key = NULL THEN Content(T, k) = ABSENT
                  ELSE entry.key = k /\ Content(T, k) = entry.value /\ Content(T, k) # ABSENT
<1>1. T.capacity > 0
    <2>1. T.count \in Nat /\ T.capacity \in Nat /\ 4 * T.count <= 3 * T.capacity
        BY WellFormedTypes DEF WellFormed
    <2> QED BY <2>1
<1> DEFINE i == FindEntry(T, k)
<1>2. PICK r : FoundIn(T, k, i, r) /\ i \in Rounds(T) /\ (Holds(T, k) <=> T.entries[i].key = k)
    BY <1>1, SearchFinds, Zenon
<1>3. T.entries[i].key \in {k, NULL} /\ k # NULL
    BY <1>2, Zenon DEF FoundIn
<1> HIDE DEF i
<1>4. CASE T.entries[i].key = NULL
    <2>1. Content(T, k) = ABSENT
        BY <1>2, <1>3, <1>4, ContentIs
    <2> QED BY <1>2, <1>4, <2>1 DEF i
<1>5. CASE T.entries[i].key = k
    <2>1. Content(T, k) = T.entries[i].value /\ Content(T, k) # ABSENT
        BY <1>2, <1>5, ContentIs
    <2> QED BY <1>2, <1>3, <1>5, <2>1 DEF i
<1> QED BY <1>3, <1>4, <1>5

LEMMA OldIs ==
    ASSUME Inv, call.op \in {"get", "del", "set", "assign"}
    PROVE  M!Old = Content(This, call.key) /\ WellFormed(This)
           /\ call.key \in Keys /\ call.table \in Tables
<1>1. call.key \in Keys /\ call.table \in Tables
    BY CallTypes DEF Inv
<1> QED BY <1>1, TablesWellFormed DEF M!Old, contents, This

LEMMA InitMaps ==
    ASSUME Init
    PROVE  M!Init
<1>1. \A k \in Keys : Content(NoTable, k) = ABSENT
    BY NoTableIsWellFormed, EmptyHoldsNothing DEF NoTable, Cleared
<1>2. contents = [t \in Tables |-> [k \in Keys |-> ABSENT]]
    BY <1>1 DEF contents, Init
<1> QED BY <1>2 DEF Init, M!Init, Returned, M!Returned

LEMMA RequestMaps ==
    ASSUME Inv, Request
    PROVE  M!Request
<1>1. UNCHANGED contents
    BY DEF Request, contents
<1>2. call.op = "returned"
    BY DEF Request
<1>3. call' \in M!Calls
    <2>1. PICK t \in Tables :
            \/ call' \in [op : {"get", "del"}, table : {t}, key : Keys]
            \/ call' \in [op : {"set", "assign"}, table : {t}, key : Keys, value : Values]
            \/ \E from \in Tables \ {t} : call' = [op |-> "addAll", table |-> t, from |-> from]
        BY DEF Request
    <2> QED BY <2>1 DEF M!Calls
<1> QED BY <1>1, <1>2, <1>3 DEF M!Request

LEMMA GetMaps ==
    ASSUME Inv, Get
    PROVE  M!Get
<1>1. call.op = "get" /\ UNCHANGED contents
    BY DEF Get, contents
<1>2. M!Old = Content(This, call.key) /\ WellFormed(This) /\ call.key \in Keys
    BY <1>1, OldIs
<1>3. CASE This.count = 0
    <2>1. call' = Returned(ABSENT)
        BY <1>3 DEF Get
    <2> QED BY <1>1, <1>2, <1>3, <2>1, EmptyHoldsNothing DEF M!Get, Returned, M!Returned
<1>4. CASE This.count # 0
    <2> DEFINE entry == This.entries[FindEntry(This, call.key)]
    <2>1. call' = Returned(IF entry.key = NULL THEN ABSENT ELSE entry.value)
        BY <1>4 DEF Get
    <2>2. (IF entry.key = NULL THEN ABSENT ELSE entry.value) = Content(This, call.key)
        BY <1>2, <1>4, FoundContent
    <2> QED BY <1>1, <1>2, <2>1, <2>2 DEF M!Get, Returned, M!Returned
<1> QED BY <1>3, <1>4

(* The maps after a call's table has become U.                             *)
LEMMA ContentsAfter ==
    ASSUME Inv, call.op # "returned", NEW U, Becomes(U)
    PROVE  contents' = [contents EXCEPT ![call.table] = [k \in Keys |-> Content(U, k)]]
<1>1. /\ tables'[call.table] = U
      /\ \A t \in Tables \ {call.table} : tables'[t] = tables[t]
    BY BecomesTypes
<1> QED BY <1>1 DEF contents

(* Only key k changes, and to c.                                           *)
LEMMA OneChange ==
    ASSUME Inv, call.op # "returned", NEW U, Becomes(U), WellFormed(U),
           NEW k \in Keys, NEW c, Content(U, k) = c,
           \A l \in Keys \ {k}, w \in Values : Has(U, l, w) <=> Has(This, l, w)
    PROVE  contents' = M!With(call.table, k, c)
<1>1. call.table \in Tables /\ WellFormed(This)
    BY CallTypes, TablesWellFormed DEF Inv
<1>2. \A l \in Keys \ {k} : Content(U, l) = Content(This, l)
    BY <1>1, SameContent
<1>3. contents[call.table] = [l \in Keys |-> Content(This, l)]
    BY <1>1 DEF contents, This
<1>4. [l \in Keys |-> Content(U, l)] = [contents[call.table] EXCEPT ![k] = c]
    BY <1>2, <1>3
<1>5. contents' = [contents EXCEPT ![call.table] = [l \in Keys |-> Content(U, l)]]
    BY ContentsAfter
<1> QED BY <1>4, <1>5 DEF M!With

LEMMA DelMaps ==
    ASSUME Inv, Del
    PROVE  M!Del
<1>1. call.op = "del"
    BY DEF Del
<1>2. /\ M!Old = Content(This, call.key) /\ WellFormed(This)
      /\ call.key \in Keys /\ call.table \in Tables
    BY <1>1, OldIs
<1> DEFINE entry == This.entries[FindEntry(This, call.key)]
<1>3. CASE This.count = 0 \/ entry.key = NULL
    <2>1. call' = Returned(FALSE) /\ UNCHANGED tables
        BY <1>3 DEF Del
    <2>2. Content(This, call.key) = ABSENT
        BY <1>2, <1>3, EmptyHoldsNothing, FoundContent
    <2>3. contents' = contents
        BY <2>1 DEF contents
    <2>4. contents = M!With(call.table, call.key, ABSENT)
        BY <1>2, <2>2 DEF contents, This, M!With
    <2> QED BY <1>1, <1>2, <2>1, <2>2, <2>3, <2>4 DEF M!Del, Returned, M!Returned
<1>4. CASE ~(This.count = 0 \/ entry.key = NULL)
    <2> DEFINE i == FindEntry(This, call.key)
               U == Delete(This, i)
    <2>1. call' = Returned(TRUE) /\ Becomes(U)
        BY <1>4 DEF Del
    <2>2. i \in Rounds(This) /\ entry.key = call.key /\ Content(This, call.key) # ABSENT
        BY <1>2, <1>4, FoundContent
    <2>3. WellFormed(U) /\ Removes(This, U, call.key)
        BY <1>2, <2>2, DeleteKeeps
    <2> HIDE DEF U
    <2>4. Content(U, call.key) = ABSENT
        BY <1>2, <2>3, ContentIs, HoldsIsHas DEF Removes
    <2>5. contents' = M!With(call.table, call.key, ABSENT)
        BY <1>1, <1>2, <2>1, <2>3, <2>4, OneChange DEF Removes
    <2>6. (M!Old # ABSENT) = TRUE
        BY <1>2, <2>2
    <2> QED BY <1>1, <2>1, <2>5, <2>6 DEF M!Del, Returned, M!Returned
<1> QED BY <1>3, <1>4

LEMMA SetMaps ==
    ASSUME Inv, Set
    PROVE  M!Set \/ M!Assign \/ M!AddOne
<1>1. Setting /\ WellFormed(This) /\ Key \in Keys /\ Value \in Values /\ call.op # "returned"
      /\ call.table \in Tables
    BY SetStores, SettingTypes
<1>2. PICK U : Stored(U)
    BY SetDoes
<1>3. /\ call.op = "addAll" => UNCHANGED call
      /\ call.op # "addAll" => call' = Returned(Holds(This, Key) = (call.op # "set"))
    BY SetDoes
<1>4. /\ Becomes(U) /\ WellFormed(U)
      /\ \A l \in Keys \ {Key}, w \in Values : Has(U, l, w) <=> Has(This, l, w)
      /\ \A w \in Values : Has(U, Key, w) <=> w = Value /\ ~(call.op = "assign" /\ ~Holds(This, Key))
    BY <1>2 DEF Stored
<1> DEFINE c == IF call.op = "assign" /\ ~Holds(This, Key) THEN ABSENT ELSE Value
<1>5. Content(U, Key) = c
    BY <1>1, <1>4, ContentIs, HoldsIsHas
<1>6. contents' = M!With(call.table, Key, c)
    BY <1>1, <1>4, <1>5, OneChange
<1>7. CASE call.op \in {"set", "assign"}
    <2>1. Key = call.key /\ Value = call.value
        BY <1>7 DEF Key, Value, Copying
    <2>2. M!Old = Content(This, Key) /\ (M!Old = ABSENT <=> ~Holds(This, Key))
        BY <1>1, <1>7, <2>1, OldIs, ContentIs
    <2>3. Holds(This, Key) \in BOOLEAN
        BY DEF Holds
    <2>4. CASE call.op = "set"
        <3>1. (Holds(This, Key) = (call.op # "set")) = (M!Old = ABSENT)
            <4>1. (call.op # "set") = FALSE
                BY <2>4
            <4> QED BY <2>2, <2>3, <4>1
        <3>2. call' = Returned(M!Old = ABSENT)
            BY <1>3, <2>4, <3>1
        <3> QED BY <1>6, <2>1, <2>4, <3>2 DEF M!Set, Returned, M!Returned
    <2>5. CASE call.op = "assign"
        <3>1. (Holds(This, Key) = (call.op # "set")) = (M!Old # ABSENT)
            <4>1. (call.op # "set") = TRUE
                BY <2>5
            <4> QED BY <2>2, <2>3, <4>1
        <3>2. call' = Returned(M!Old # ABSENT)
            BY <1>3, <2>5, <3>1
        <3>3. CASE M!Old = ABSENT
            <4>1. contents' = M!With(call.table, Key, ABSENT)
                BY <1>6, <2>2, <2>5, <3>3
            <4>2. contents[call.table][Key] = ABSENT
                BY <1>1, <2>2, <3>3 DEF contents, This
            <4>3. M!With(call.table, Key, ABSENT) = contents
                BY <1>1, <4>2 DEF M!With, contents
            <4> QED BY <2>5, <3>2, <3>3, <4>1, <4>3 DEF M!Assign, Returned, M!Returned
        <3>4. CASE M!Old # ABSENT
            BY <1>6, <2>1, <2>2, <2>5, <3>2, <3>4 DEF M!Assign, Returned, M!Returned
        <3> QED BY <3>3, <3>4
    <2> QED BY <1>7, <2>4, <2>5
<1>8. CASE call.op = "addAll"
    <2> DEFINE from == tables[call.from]
    <2>1. call.from \in Tables /\ WellFormed(from) /\ cursor \in Nat
        BY <1>8, TablesWellFormed, CallTypes DEF Inv, TypeOK
    <2>2. /\ cursor < from.capacity
          /\ Key = from.entries[cursor].key /\ Value = from.entries[cursor].value
        BY <1>1, <1>8 DEF Setting, Copying, Source, Key, Value
    <2>3. cursor \in Rounds(from)
        BY <2>1, <2>2, WellFormedTypes DEF Rounds
    <2>4. Content(from, Key) = Value /\ Value # ABSENT
        BY <1>1, <2>1, <2>2, <2>3, ContentIs
    <2>5. contents[call.from][Key] = Value
        BY <1>1, <2>1, <2>4 DEF contents
    <2>6. contents' = M!With(call.table, Key, contents[call.from][Key])
        BY <1>6, <1>8, <2>5
    <2> QED BY <1>1, <1>3, <1>8, <2>4, <2>5, <2>6 DEF M!AddOne
<1> QED BY <1>1, <1>7, <1>8 DEF Setting, Copying

LEMMA AddedAllMaps ==
    ASSUME Inv, AddedAll
    PROVE  M!AddedAll
<1>1. call.op = "addAll" /\ ~Copying /\ call' = Returned(VOID) /\ UNCHANGED contents
    BY DEF AddedAll, contents
<1> DEFINE from == tables[call.from]
<1>2. call.from \in Tables /\ call.table \in Tables /\ WellFormed(from) /\ WellFormed(This)
      /\ cursor \in Nat
    BY <1>1, TablesWellFormed, CallTypes DEF Inv, TypeOK
<1>3. /\ cursor <= from.capacity
      /\ \A k \in Keys, v \in Values : HasAmong(from, cursor, k, v) => Has(This, k, v)
    BY <1>1 DEF Inv, CopyOK
<1>4. cursor = from.capacity
    BY <1>1, <1>2, <1>3, WellFormedTypes DEF Copying
<1>5. ASSUME NEW k \in Keys PROVE Content(from, k) \in {ABSENT, Content(This, k)}
    <2>1. SUFFICES ASSUME Content(from, k) # ABSENT
                   PROVE  Content(This, k) = Content(from, k)
        OBVIOUS
    <2>2. Content(from, k) \in Values /\ Has(from, k, Content(from, k))
        BY <1>2, <2>1, ContentIs
    <2>3. Has(This, k, Content(from, k))
        BY <1>3, <1>4, <2>2 DEF Has
    <2> QED BY <1>2, <2>2, <2>3, ContentIs
<1>6. \A k \in Keys : contents[call.from][k] \in {ABSENT, contents[call.table][k]}
    BY <1>2, <1>5 DEF contents, This
<1> QED BY <1>1, <1>6 DEF M!AddedAll, Returned, M!Returned

LEMMA NextMaps ==
    ASSUME Inv, [Next]_vars
    PROVE  [M!Next]_<<contents, call>>
<1>1. CASE Request
    BY <1>1, RequestMaps DEF M!Next
<1>2. CASE Get
    BY <1>2, GetMaps DEF M!Next
<1>3. CASE Del
    BY <1>3, DelMaps DEF M!Next
<1>4. CASE Set
    BY <1>4, SetMaps DEF M!Next
<1>5. CASE AddedAll
    BY <1>5, AddedAllMaps DEF M!Next
<1>6. CASE Grow \/ Rehash \/ Skip \/ UNCHANGED vars
    <2>1. UNCHANGED <<tables, call>>
        BY <1>6 DEF Grow, Rehash, Skip, vars
    <2> QED BY <2>1 DEF contents
<1> QED BY <1>1, <1>2, <1>3, <1>4, <1>5, <1>6 DEF Next, Work

(* The tables of table.cc are maps: every call has the effect and the      *)
(* result that module Map gives it, whatever the collisions, tombstones    *)
(* and growth are.                                                         *)
THEOREM Refinement == Spec => ImplementsMap
<1>1. Init => M!Init
    BY InitMaps
<1>2. Inv /\ [Next]_vars => [M!Next]_<<contents, call>>
    BY NextMaps
<1> QED BY <1>1, <1>2, Invariance, PTL DEF Spec, ImplementsMap, M!Spec, M!vars

=============================================================================
