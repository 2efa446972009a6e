-------------------------------- MODULE Map ---------------------------------
(***************************************************************************)
(* What the class Table of table.hh promises the virtual machine: each     *)
(* table is a map from strings to values, and a call returns what the map  *)
(* holds.  A call is made, has its effect, and returns; only one is made   *)
(* at a time.                                                              *)
(***************************************************************************)
CONSTANTS
    Tables,     \* the tables: globals, an instance's fields, a class's methods
    Keys,       \* the strings
    Values,
    ABSENT,     \* in a map, for the keys it has not
    VOID        \* the result of a call that returns nothing

VARIABLES
    contents,   \* the map of each table
    call        \* the call in progress, or the result of the last one

vars == <<contents, call>>

Returned(result) == [op |-> "returned", result |-> result]

Calls ==
         [op : {"get", "del"}, table : Tables, key : Keys]
    \cup [op : {"set", "assign"}, table : Tables, key : Keys, value : Values]
    \cup {c \in [op : {"addAll"}, table : Tables, from : Tables] : c.table # c.from}

With(t, k, v) == [contents EXCEPT ![t] = [@ EXCEPT ![k] = v]]

Old == contents[call.table][call.key]

Init ==
    /\ contents = [t \in Tables |-> [k \in Keys |-> ABSENT]]
    /\ call = Returned(VOID)

Request ==
    /\ call.op = "returned"
    /\ call' \in Calls
    /\ UNCHANGED contents

Get ==
    /\ call.op = "get"
    /\ call' = Returned(Old)
    /\ UNCHANGED contents

Set ==
    /\ call.op = "set"
    /\ contents' = With(call.table, call.key, call.value)
    /\ call' = Returned(Old = ABSENT)

Del ==
    /\ call.op = "del"
    /\ contents' = With(call.table, call.key, ABSENT)
    /\ call' = Returned(Old # ABSENT)

(* An assignment to a global variable defines none.                        *)
Assign ==
    /\ call.op = "assign"
    /\ contents' = IF Old = ABSENT THEN contents ELSE With(call.table, call.key, call.value)
    /\ call' = Returned(Old # ABSENT)

(* addAll copies what the other table has, in an order of its own.         *)
AddOne ==
    /\ call.op = "addAll"
    /\ \E k \in Keys :
        /\ contents[call.from][k] # ABSENT
        /\ contents' = With(call.table, k, contents[call.from][k])
    /\ UNCHANGED call

AddedAll ==
    /\ call.op = "addAll"
    /\ \A k \in Keys : contents[call.from][k] \in {ABSENT, contents[call.table][k]}
    /\ call' = Returned(VOID)
    /\ UNCHANGED contents

Next == Request \/ Get \/ Set \/ Del \/ Assign \/ AddOne \/ AddedAll

Spec == Init /\ [][Next]_vars

=============================================================================
