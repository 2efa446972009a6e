----------------------------- MODULE HashTable ------------------------------
(***************************************************************************)
(* The class Table of table.cc: open addressing with linear probing,       *)
(* tombstones for deleted keys, and growth by doubling.                    *)
(*                                                                         *)
(* A call is made (Request), does its work in one or more steps, and       *)
(* returns.  findEntry is one operator; a step that needs it is enabled    *)
(* only if its loop ends, so that a search that goes round for ever shows  *)
(* as a call that never returns.  The two loops that change state, over    *)
(* the entries in adjustCapacity and in addAll, take a step for each       *)
(* entry.                                                                  *)
(*                                                                         *)
(* Calls come in any order, as the class allows.  The virtual machine      *)
(* deletes only in SET_GLOBAL, which is the call "assign".                 *)
(***************************************************************************)
EXTENDS Integers, FiniteSets

CONSTANTS
    Tables, Keys, Values, ABSENT, VOID,     \* see module Map
    NIL, TRUE_VAL,      \* two of the values
    NULL,               \* the null pointer, for a key
    Hash,               \* ObjString::hash of each key
    MIN_CAPACITY,       \* the first capacity, 8 in grow_capacity (memory.hh)
    MaxCount            \* bound: entries used in each table

(* Of the divisors of n, 1 alone is odd.                                   *)
PowerOfTwo(n) == \A k \in 1..n : n % k = 0 => k = 1 \/ k % 2 = 0

ASSUME HashTableAssumption ==
    /\ IsFiniteSet(Keys) /\ NULL \notin Keys
    /\ {NIL, TRUE_VAL} \subseteq Values /\ NIL # TRUE_VAL /\ ABSENT \notin Values
    /\ Hash \in [Keys -> Nat]
    /\ MIN_CAPACITY \in Nat /\ MIN_CAPACITY >= 2 /\ PowerOfTwo(MIN_CAPACITY)
    /\ MaxCount \in [Tables -> Nat]

VARIABLES
    tables,     \* each Table: count, capacity and entries
    call,       \* the call in progress, or the result of the last one
    cursor,     \* the index that the loop of addAll has come to
    fresh,      \* the entries that adjustCapacity is filling, as a table
    next        \* the index that its loop has come to

vars == <<tables, call, cursor, fresh, next>>

EMPTY == [key |-> NULL, value |-> NIL]
TOMBSTONE == [key |-> NULL, value |-> TRUE_VAL]
Entry == {EMPTY, TOMBSTONE} \cup [key : Keys, value : Values]

Cleared(capacity) ==
    [count |-> 0, capacity |-> capacity, entries |-> [i \in 0..capacity - 1 |-> EMPTY]]

NoTable == Cleared(0)

(* The indexes of the entries that are not empty.                          *)
Used(table) == {i \in 0..table.capacity - 1 : table.entries[i] # EMPTY}

Holds(table, k) == \E i \in 0..table.capacity - 1 : table.entries[i].key = k

-----------------------------------------------------------------------------
(* findEntry.  The capacity is a power of two, so that & (capacity - 1)    *)
(* takes the remainder.                                                    *)

Home(table, k) == Hash[k] % table.capacity

(* The index in round i of the loop.                                       *)
At(table, k, i) == (Home(table, k) + i) % table.capacity

Stops(table, k, i) ==
    LET entry == table.entries[At(table, k, i)] IN entry = EMPTY \/ entry.key = k

(* After as many rounds as there are entries the loop only repeats itself. *)
Rounds(table) == 0..table.capacity - 1
SearchEnds(table, k) == \E i \in Rounds(table) : Stops(table, k, i)

LastRound(table, k) ==
    CHOOSE i \in Rounds(table) :
        Stops(table, k, i) /\ \A j \in 0..i - 1 : ~Stops(table, k, j)

(* Whether round i passes an entry without key, a tombstone if not empty.  *)
Free(table, k, i) == table.entries[At(table, k, i)].key = NULL

FirstFree(table, k) ==
    CHOOSE i \in Rounds(table) :
        Free(table, k, i) /\ \A j \in 0..i - 1 : ~Free(table, k, j)

(* Mutant: the first entry without key is taken at once.                   *)
FindEntryAtTombstone(table, k) ==
    At(table, k, CHOOSE i \in Rounds(table) :
        /\ table.entries[At(table, k, i)].key \in {k, NULL}
        /\ \A j \in 0..i - 1 : table.entries[At(table, k, j)].key \notin {k, NULL})

(* The key's entry, or the one to put it into: the first tombstone passed, *)
(* or the empty entry that ended the search.                               *)
FindEntry(table, k) ==
    IF Free(table, k, LastRound(table, k))
    THEN At(table, k, FirstFree(table, k))
    ELSE At(table, k, LastRound(table, k))

(* Mutant: an entry that was a tombstone is counted again.                 *)
PutCountingTwice(table, i, k, v) ==
    [count |-> IF table.entries[i].key = NULL THEN table.count + 1 ELSE table.count,
     capacity |-> table.capacity,
     entries |-> [table.entries EXCEPT ![i] = [key |-> k, value |-> v]]]

(* What set does to entry i, and del.                                      *)
Put(table, i, k, v) ==
    [count |-> IF table.entries[i] = EMPTY THEN table.count + 1 ELSE table.count,
     capacity |-> table.capacity,
     entries |-> [table.entries EXCEPT ![i] = [key |-> k, value |-> v]]]

(* Mutants of the next operator: no tombstone is left; it is not counted.  *)
DeleteToEmpty(table, i) ==
    [count |-> table.count,
     capacity |-> table.capacity,
     entries |-> [table.entries EXCEPT ![i] = EMPTY]]

DeleteUncounted(table, i) ==
    [count |-> table.count - 1,
     capacity |-> table.capacity,
     entries |-> [table.entries EXCEPT ![i] = TOMBSTONE]]

Delete(table, i) ==
    [count |-> table.count,
     capacity |-> table.capacity,
     entries |-> [table.entries EXCEPT ![i] = TOMBSTONE]]

-----------------------------------------------------------------------------
(* Calls.                                                                  *)

Returned(result) == [op |-> "returned", result |-> result]

Init ==
    /\ tables = [t \in Tables |-> NoTable]
    /\ call = Returned(VOID)
    /\ cursor = 0
    /\ fresh = NoTable /\ next = 0

(* The bound: there is room for n more entries.                            *)
Room(t, n) == tables[t].count + n <= MaxCount[t]

Request ==
    /\ call.op = "returned"
    /\ \E t \in Tables :
        \/ call' \in [op : {"get", "del"}, table : {t}, key : Keys]
        \/ /\ Room(t, 1)
           /\ call' \in [op : {"set", "assign"}, table : {t}, key : Keys, value : Values]
        \/ /\ \E from \in Tables \ {t} :
                /\ Room(t, Cardinality({k \in Keys : Holds(tables[from], k)}))
                /\ call' = [op |-> "addAll", table |-> t, from |-> from]
    /\ cursor' = 0
    /\ UNCHANGED <<tables, fresh, next>>

This == tables[call.table]
Becomes(table) == tables' = [tables EXCEPT ![call.table] = table]

Get ==
    /\ call.op = "get"
    /\ \/ This.count = 0 /\ call' = Returned(ABSENT)
       \/ /\ This.count # 0 /\ SearchEnds(This, call.key)
          /\ \E i \in {FindEntry(This, call.key)} :
                call' = Returned(IF This.entries[i].key = NULL THEN ABSENT ELSE This.entries[i].value)
    /\ UNCHANGED <<tables, cursor, fresh, next>>

Del ==
    /\ call.op = "del"
    /\ \/ This.count = 0 /\ call' = Returned(FALSE) /\ UNCHANGED tables
       \/ /\ This.count # 0 /\ SearchEnds(This, call.key)
          /\ \E i \in {FindEntry(This, call.key)} :
                IF This.entries[i].key = NULL THEN call' = Returned(FALSE) /\ UNCHANGED tables
                ELSE call' = Returned(TRUE) /\ Becomes(Delete(This, i))
    /\ UNCHANGED <<cursor, fresh, next>>

-----------------------------------------------------------------------------
(* set, called by itself, by SET_GLOBAL or by addAll.                      *)

Copying == call.op = "addAll" /\ cursor < tables[call.from].capacity
Source == tables[call.from].entries[cursor]
Setting == call.op \in {"set", "assign"} \/ (Copying /\ Source.key # NULL)
Key == IF Copying THEN Source.key ELSE call.key
Value == IF Copying THEN Source.value ELSE call.value

(* Mutants of Overloaded: a table may be filled; tombstones do not count.  *)
OverloadedWhenFull(table) == table.count + 1 > table.capacity
OverloadedByKeys(table) ==
    4 * (Cardinality({k \in Keys : Holds(table, k)}) + 1) > 3 * table.capacity

Overloaded(table) == 4 * (table.count + 1) > 3 * table.capacity     \* TABLE_MAX_LOAD

(* Mutant: by half.                                                        *)
GrowByHalf(capacity) == IF capacity < MIN_CAPACITY THEN MIN_CAPACITY ELSE capacity + capacity \div 2

GrowCapacity(capacity) == IF capacity < MIN_CAPACITY THEN MIN_CAPACITY ELSE 2 * capacity

Growing == fresh.capacity > 0

Grow ==
    /\ Setting /\ ~Growing /\ Overloaded(This)
    /\ fresh' = Cleared(GrowCapacity(This.capacity))
    /\ next' = 0
    /\ UNCHANGED <<tables, call, cursor>>

(* One round of the loop of adjustCapacity, which counts every key.        *)
Rehash ==
    /\ Growing /\ next < This.capacity
    /\ LET entry == This.entries[next] IN
        IF entry.key = NULL THEN UNCHANGED fresh
        ELSE /\ SearchEnds(fresh, entry.key)
             /\ \E i \in {FindEntry(fresh, entry.key)} :
                    fresh' = [Put(fresh, i, entry.key, entry.value) EXCEPT !.count = fresh.count + 1]
    /\ next' = next + 1
    /\ UNCHANGED <<tables, call, cursor>>

(* set, once the table is large enough.  SET_GLOBAL deletes a key again    *)
(* if it was new.                                                          *)
Store(table) ==
    /\ SearchEnds(table, Key)
    /\ \E i \in {FindEntry(table, Key)} :
        LET isNewKey == table.entries[i].key = NULL IN
        /\ IF call.op = "assign" /\ isNewKey
           THEN \E stored \in {Put(table, i, Key, Value)} :
                    SearchEnds(stored, Key) /\ Becomes(Delete(stored, FindEntry(stored, Key)))
           ELSE Becomes(Put(table, i, Key, Value))
        /\ IF call.op = "addAll" THEN cursor' = cursor + 1 /\ UNCHANGED call
           ELSE call' = Returned(isNewKey = (call.op = "set")) /\ UNCHANGED cursor
    /\ fresh' = NoTable /\ next' = 0

Set ==
    \/ Setting /\ ~Growing /\ ~Overloaded(This) /\ Store(This)
    \/ Growing /\ next = This.capacity /\ Store(fresh)

Skip ==
    /\ Copying /\ Source.key = NULL
    /\ cursor' = cursor + 1
    /\ UNCHANGED <<tables, call, fresh, next>>

AddedAll ==
    /\ call.op = "addAll" /\ ~Copying
    /\ call' = Returned(VOID)
    /\ UNCHANGED <<tables, cursor, fresh, next>>

Work == Get \/ Del \/ Grow \/ Rehash \/ Set \/ Skip \/ AddedAll
Next == Request \/ Work

Spec == Init /\ [][Next]_vars

(* The interpreter is one thread: a call that can go on does.              *)
FairSpec == Spec /\ WF_vars(Work)

-----------------------------------------------------------------------------
IsTable(table) ==
    /\ table.count \in Nat /\ table.capacity \in Nat
    /\ table.entries \in [0..table.capacity - 1 -> Entry]

(* Types.                                                                  *)
TypeOK ==
    /\ DOMAIN tables = Tables /\ \A t \in Tables : IsTable(tables[t])
    /\ IsTable(fresh)
    /\ call \in  [op : {"get", "del"}, table : Tables, key : Keys]
            \cup [op : {"set", "assign"}, table : Tables, key : Keys, value : Values]
            \cup [op : {"addAll"}, table : Tables, from : Tables]
            \cup [op : {"returned"}, result : Values \cup {ABSENT, VOID} \cup BOOLEAN]
    /\ cursor \in Nat /\ next \in Nat

EveryTable == {tables[t] : t \in Tables} \cup {fresh}

(* The count is that of the entries which are not empty, with tombstones,  *)
(* through sets over tombstones, deletions and growth (Table::set counts   *)
(* an entry only if it was empty, adjustCapacity counts anew).             *)
CountIsUsed == \A table \in EveryTable : table.count = Cardinality(Used(table))

(* Whatever key is looked for, in whatever table that has entries, also    *)
(* the one that adjustCapacity is filling, the loop of findEntry ends.     *)
SearchesEnd == \A table \in EveryTable : table.capacity > 0 => \A k \in Keys : SearchEnds(table, k)

(* A search finds each key where it is, behind tombstones and around the   *)
(* end of the array, and so no key is in a table twice.                    *)
KeysAreFound ==
    \A table \in EveryTable : \A i \in 0..table.capacity - 1 :
        table.entries[i].key # NULL => FindEntry(table, table.entries[i].key) = i

(* Capacities are powers of two, whatever the growth: only for these is    *)
(* the mask of findEntry in table.cc the remainder (grow_capacity in       *)
(* memory.hh).                                                             *)
MaskIsRemainder ==
    \A table \in EveryTable : table.capacity > 0 => PowerOfTwo(table.capacity)

(* The value that a table has for a key.                                   *)
Content(table, k) ==
    IF Holds(table, k)
    THEN table.entries[CHOOSE i \in 0..table.capacity - 1 : table.entries[i].key = k].value
    ELSE ABSENT

contents == [t \in Tables |-> [k \in Keys |-> Content(tables[t], k)]]

M == INSTANCE Map

(* Tables are maps: get returns what was last set and not deleted since,   *)
(* set and del tell whether the key was there, addAll copies the other     *)
(* table, and growth changes nothing (table.cc).                           *)
ImplementsMap == M!Spec

(* Every call of a table returns: searches end, and so do the loops of     *)
(* adjustCapacity and addAll.                                              *)
CallsReturn == call.op # "returned" ~> call.op = "returned"

-----------------------------------------------------------------------------
(* The invariant that is inductive.                                        *)

(* A search for the key of entry i comes to it.                            *)
Reachable(table, i) ==
    \E r \in Rounds(table) :
        /\ At(table, table.entries[i].key, r) = i
        /\ \A j \in 0..r - 1 : ~Stops(table, table.entries[i].key, j)

WellFormed(table) ==
    /\ IsTable(table)
    /\ table.capacity = 0 \/ table.capacity >= MIN_CAPACITY
    /\ table.count = Cardinality(Used(table))
    /\ 4 * table.count <= 3 * table.capacity
    /\ \A i \in 0..table.capacity - 1 : table.entries[i].key # NULL => Reachable(table, i)

(* One of the first n entries of the table has key k and value v.          *)
HasAmong(table, n, k, v) == \E i \in 0..n - 1 : table.entries[i] = [key |-> k, value |-> v]
Has(table, k, v) == HasAmong(table, table.capacity, k, v)

(* While a table grows, the entries passed are in the new one, and nothing *)
(* else is.                                                                *)
GrowthOK ==
    IF ~Growing THEN fresh = NoTable /\ next = 0
    ELSE
        /\ Setting /\ next <= This.capacity
        /\ fresh.capacity = GrowCapacity(This.capacity)
        /\ \A i \in 0..fresh.capacity - 1 : fresh.entries[i] # TOMBSTONE
        /\ fresh.count <= Cardinality({i \in 0..next - 1 : This.entries[i].key # NULL})
        /\ \A k \in Keys, v \in Values : Has(fresh, k, v) <=> HasAmong(This, next, k, v)

(* addAll has copied the entries it has passed.                            *)
CopyOK ==
    call.op = "addAll" =>
        /\ call.table # call.from
        /\ cursor <= tables[call.from].capacity
        /\ \A k \in Keys, v \in Values : HasAmong(tables[call.from], cursor, k, v) => Has(This, k, v)

Inv ==
    /\ TypeOK
    /\ \A table \in EveryTable : WellFormed(table)
    /\ GrowthOK
    /\ CopyOK

=============================================================================
