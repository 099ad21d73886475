------------------------------ MODULE InsnList ------------------------------
(***************************************************************************)
(* What LinkList promises a pass that walks over it: a sequence with one   *)
(* cursor, which stays on its item whatever is inserted or removed         *)
(* elsewhere, and goes to the following item when its own is removed.      *)
(*                                                                         *)
(* The cursor is 0 on the sentinel before the first item and one more than *)
(* the length on the one behind the last (end()).                          *)
(***************************************************************************)
EXTENDS Integers, SequencesExt

CONSTANT Items   \* what the list may hold

VARIABLES
    items,   \* the sequence
    at       \* the cursor

Init == items = <<>> /\ at = 1

(* An item put in at a position pushes on a cursor that is there or        *)
(* behind.                                                                 *)
Insert(item, place) ==
    /\ item \notin Range(items)
    /\ items' = InsertAt(items, place, item)
    /\ at' = IF at >= place THEN at + 1 ELSE at

InsertFirst  == \E item \in Items : Insert(item, 1)
InsertLast   == \E item \in Items : Insert(item, Len(items) + 1)

(* What is inserted behind the cursor is where the cursor goes.            *)
InsertBehindCursor ==
    /\ at <= Len(items)
    /\ \E item \in Items \ Range(items) : items' = InsertAt(items, at + 1, item)
    /\ at' = at + 1

RemoveUnderCursor ==
    /\ at \in DOMAIN items
    /\ items' = RemoveAt(items, at)
    /\ UNCHANGED at

(* To the first item, which may be missing; one on, one back; to an item.  *)
Start   == at' = 1                                  /\ UNCHANGED items
Forth   == at <= Len(items) /\ at' = at + 1         /\ UNCHANGED items
Back    == at > 0 /\ at' = at - 1                   /\ UNCHANGED items
GoTo    == (\E place \in DOMAIN items : at' = place) /\ UNCHANGED items

Next ==
    \/ InsertFirst \/ InsertLast \/ InsertBehindCursor \/ RemoveUnderCursor
    \/ Start \/ Forth \/ Back \/ GoTo

Spec == Init /\ [][Next]_<<items, at>>

=============================================================================
