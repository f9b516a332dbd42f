------------------------------ MODULE KeyedMap ------------------------------
(***************************************************************************)
(* What a dictionary promises: at most one value for each key.  A second   *)
(* insertion of a key replaces the value, or leaves the first one, and a   *)
(* replacement that runs out of memory has lost the value.  Searches and   *)
(* removals fail exactly when the key is absent.                           *)
(***************************************************************************)
EXTENDS Integers

CONSTANTS Keys, Values,
          Overwrites,   \* whether an insertion replaces a value
          Lost,         \* the value of a key whose replacement failed
          None          \* no value

VARIABLES map,          \* [Keys -> value], None for an absent key
          out           \* the last call, its status, key and value

vars == <<map, out>>

Answer(op, code, k, v) == [op |-> op, code |-> code, key |-> k, val |-> v]

Init == map = [k \in Keys |-> None] /\ out = Answer("create", 0, None, None)

Put(k, v) == /\ out' = Answer("insert", 0, k, None)
             /\ Overwrites \/ map[k] = None
             /\ map' = [map EXCEPT ![k] = v]

Keep(k) == /\ ~Overwrites
           /\ out' = Answer("insert", 0, k, None)
           /\ map[k] # None
           /\ UNCHANGED map

PutFails(k) == /\ out' = Answer("insert", -1, k, None)
               /\ \/ UNCHANGED map
                  \/ /\ Overwrites /\ map[k] # None
                     /\ map' = [map EXCEPT ![k] = Lost]

Lookup(k, v) == /\ out' = Answer("search", 0, k, v)
                /\ map[k] = v
                /\ UNCHANGED map

Delete(k) == /\ out' = Answer("remove", 0, k, None)
             /\ map[k] # None
             /\ map' = [map EXCEPT ![k] = None]

Absent(k, op) == /\ out' = Answer(op, -1, k, None)
                 /\ map[k] = None
                 /\ UNCHANGED map

Destroy == out' = Answer("destroy", 0, None, None) /\ map' = [k \in Keys |-> None]

Next == \/ \E k \in Keys :
             \/ \E v \in Values : Put(k, v)
             \/ \E v \in Values \cup {Lost} : Lookup(k, v)
             \/ Keep(k) \/ PutFails(k) \/ Delete(k)
             \/ \E op \in {"search", "remove"} : Absent(k, op)
        \/ Destroy

Spec == Init /\ [][Next]_vars
=============================================================================
