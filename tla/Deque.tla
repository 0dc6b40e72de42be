------------------------------- MODULE Deque -------------------------------
(***************************************************************************)
(* What lsf::container::List and Queue promise their users: a sequence of  *)
(* at most Capacity values, changed at its ends or at a place in it.  An   *)
(* operation returns whether it changed the sequence.                      *)
(***************************************************************************)
EXTENDS Naturals, SequencesExt

CONSTANTS Value, Capacity

VARIABLES
    items,
    did     \* the last operation, its arguments and what it returned

\* v comes to stand at place i
Put(op, v, i) ==
    LET fits == Len(items) < Capacity
    IN  /\ items' = IF fits THEN InsertAt(items, i, v) ELSE items
        /\ did' = <<op, v, i, fits>>

\* what stands at place i goes
Take(op, i) ==
    /\ items' = IF items = <<>> THEN <<>> ELSE RemoveAt(items, i)
    /\ did' = <<op, i, items # <<>> >>

PushFront(v) == Put("PushFront", v, 1)
PushBack(v) == Put("PushBack", v, Len(items) + 1)
PopFront == Take("PopFront", 1)
PopBack == Take("PopBack", Len(items))

Init == items = <<>> /\ did = <<>>

Next ==
    \/ \E v \in Value : PushFront(v) \/ PushBack(v)
    \/ PopFront \/ PopBack
    \/ \E v \in Value, i \in 1..(Len(items) + 1) : Put("Insert", v, i)
    \/ \E i \in DOMAIN items : Take("Erase", i)

Spec == Init /\ [][Next]_<<items, did>>
=============================================================================
