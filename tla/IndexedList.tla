----------------------------- MODULE IndexedList -----------------------------
(***************************************************************************)
(* What a list promises: a sequence with insertion, removal and lookup by  *)
(* position (from 0).  Only an insertion may fail for want of memory; the  *)
(* others fail exactly when the position does not exist.  A call that      *)
(* fails changes nothing.                                                  *)
(***************************************************************************)
EXTENDS Integers, SequencesExt

CONSTANTS Values, None

VARIABLES items,        \* the sequence
          out           \* the last call, its status, index and value

vars == <<items, out>>

Answer(op, code, i, v) == [op |-> op, code |-> code, index |-> i, val |-> v]

Init == items = <<>> /\ out = Answer("create", 0, 0, None)

InsertItem(i, v) ==
    /\ out' = Answer("insert", 0, i, None)
    /\ i <= Len(items)
    /\ items' = InsertAt(items, i + 1, v)

RemoveItem(i) ==
    /\ out' = Answer("remove", 0, i, items[i + 1])
    /\ items' = RemoveAt(items, i + 1)

GetItem(i) ==
    /\ out' = Answer("get", 0, i, items[i + 1])
    /\ UNCHANGED items

Clear == out' = Answer("clear", 0, 0, None) /\ items' = <<>>

Fail(op, i) ==
    /\ out' = Answer(op, -1, i, None)
    /\ op \in {"remove", "get"} => i >= Len(items)
    /\ UNCHANGED items

Next == \/ \E i \in 0 .. Len(items), v \in Values : InsertItem(i, v)
        \/ \E i \in 0 .. Len(items) - 1 : RemoveItem(i) \/ GetItem(i)
        \/ \E i \in 0 .. Len(items) + 1, op \in {"insert", "remove", "get"} : Fail(op, i)
        \/ Clear

Spec == Init /\ [][Next]_vars
=============================================================================
