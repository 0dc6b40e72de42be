--------------------------- MODULE CircularQueue ---------------------------
(***************************************************************************)
(* lsf::container::Queue: a ring of slots in one block of shared memory.   *)
(* The elements lie from head to before tail; one slot stays empty, so     *)
(* that a full queue differs from an empty one.                            *)
(*                                                                         *)
(* Where an element is constructed or destroyed is computed by iterators,  *)
(* what the queue then holds by stepping head and tail, all in unsigned    *)
(* numbers of the size type: below 0 they wrap at WordSize, which need not *)
(* be a multiple of the number of slots.  A size type narrower than int is *)
(* promoted before it is added to, and wraps only where it is passed on:   *)
(* Promotes says so.                                                       *)
(***************************************************************************)
EXTENDS Integers, Sequences

CONSTANTS
    Value,      \* the elements
    Gone,       \* what is in a slot without an element
    Capacity,   \* max_size()
    WordSize,   \* number of values of size_type
    Promotes    \* size_type is narrower than int

Slots == Capacity + 1   \* _max_size
Slot == 0..Capacity

\* no sum the code forms is above the largest size_type
ASSUME QueueAssumption ==
    /\ Capacity \in Nat \ {0} /\ WordSize \in Nat /\ WordSize >= 3 * Slots
    /\ Promotes \in BOOLEAN /\ Gone \notin Value

VARIABLES
    queue,    \* QueueState: the slots, _head_pos and _tail_pos
    did       \* the last operation, its arguments and what it returned

vars == <<queue, did>>

-----------------------------------------------------------------------------
(* Positions.                                                              *)

Word(n) == n % WordSize

\* the value of an expression of the size type, before it is passed on
Expr(n) == IF Promotes THEN n ELSE Word(n)

\* "(pos + _max_size) % _max_size", the parameter being of the size type
CalcAbsolutePos(pos) == Expr(Word(pos) + Slots) % Slots

Size(q) == Expr(q.tail - q.head + Slots) % Slots
IsEmpty(q) == q.head = q.tail
\* mutant: the slot that marks the end is forgotten
IsFullAtSlots(q) == Size(q) = Slots

IsFull(q) == q.head = Expr(q.tail + 1) % Slots

\* mutant: no wrap
IncNoWrap(pos) == Expr(pos + 1)

Inc(pos) == Expr(pos + 1) % Slots
Dec(pos) == Expr(pos - 1 + Slots) % Slots

\* where the iterators point
At(q, idx) == CalcAbsolutePos(q.head + idx)
Begin(q) == At(q, 0)
End(q) == At(q, Size(q))
GetBack(q) == At(q, IF Size(q) = 0 THEN 0 ELSE Size(q) - 1)
BeforeBegin(q) == CalcAbsolutePos(Begin(q) - 1)

-----------------------------------------------------------------------------
(* Operations.  did has the place of the element besides what is returned. *)

PushFront(v) ==
    /\ did' = <<"PushFront", v, 1, ~IsFull(queue)>>
    /\ queue' = IF IsFull(queue) THEN queue
                ELSE [queue EXCEPT !.data[BeforeBegin(queue)] = v, !.head = Dec(@)]

PushBack(v) ==
    /\ did' = <<"PushBack", v, Size(queue) + 1, ~IsFull(queue)>>
    /\ queue' = IF IsFull(queue) THEN queue
                ELSE [queue EXCEPT !.data[End(queue)] = v, !.tail = Inc(@)]

PopFront ==
    /\ did' = <<"PopFront", 1, ~IsEmpty(queue)>>
    /\ queue' = IF IsEmpty(queue) THEN queue
                ELSE [queue EXCEPT !.data[Begin(queue)] = Gone, !.head = Inc(@)]

PopBack ==
    /\ did' = <<"PopBack", Size(queue), ~IsEmpty(queue)>>
    /\ queue' = IF IsEmpty(queue) THEN queue
                ELSE [queue EXCEPT !.data[GetBack(queue)] = Gone, !.tail = Dec(@)]

Init ==
    /\ queue = [data |-> [s \in Slot |-> Gone], head |-> 0, tail |-> 0]
    /\ did = <<>>

Next ==
    \/ \E v \in Value : PushFront(v) \/ PushBack(v)
    \/ PopFront
    \/ PopBack

Spec == Init /\ [][Next]_vars

-----------------------------------------------------------------------------
(* Properties.                                                             *)

QueueTypeOK ==
    queue \in [data : [Slot -> Value \cup {Gone}], head : Slot, tail : Slot]

\* A queue is a sequence of up to Capacity values, changed at its ends, over
\* all the ways head and tail have come round.
Items(q) == [i \in 1..Size(q) |-> q.data[(q.head + i - 1) % Slots]]
Held == INSTANCE Deque WITH items <- Items(queue)
QueueIsDeque == Held!Spec
=============================================================================
