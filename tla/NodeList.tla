------------------------------ MODULE NodeList ------------------------------
(***************************************************************************)
(* lsf::container::List and Pool: nodes in one block of shared memory, in  *)
(* two rings through the same links.  One ring has the elements and, after *)
(* the last, a node that marks the end; the other has the unused nodes.    *)
(*                                                                         *)
(* The end is marked by ENDPOS at first.  PopBack frees the mark, and the  *)
(* element before it takes its place.  ENDPOS also says that there are no  *)
(* unused nodes, so the block goes wrong once it stands first among them:  *)
(* the history variable adrift says that this has happened.                *)
(***************************************************************************)
EXTENDS Naturals, FiniteSets, SequencesExt

CONSTANTS
    Item,        \* the elements
    ListNodes    \* max_size(): one node is no element

ASSUME ListAssumption ==
    ListNodes \in Nat \ {0} /\ Item # {}

VARIABLES
    list,      \* ListState
    listDid,   \* the last operation, its arguments and what it returned
    adrift     \* whether EndFirst has held, a history variable

listVars == <<list, listDid, adrift>>

ENDPOS == 0
Pos == 0..ListNodes

-----------------------------------------------------------------------------
(* The memory block.                                                       *)

\* next follows prev
Link(l, prev, next) == [l EXCEPT !.next[prev] = next, !.prev[next] = prev]

Unlink(l, pos) == Link(l, l.prev[pos], l.next[pos])

\* pos before next
LinkBefore(l, pos, next) == Link(Link(l, l.prev[next], pos), pos, next)

\* the head of the unused nodes becomes the element before insertPos
ListNewNodeAndInsert(l, insertPos, v) ==
    LET pos == l.empty
        rest == IF l.next[pos] = pos THEN [l EXCEPT !.empty = ENDPOS]
                ELSE [Unlink(l, pos) EXCEPT !.empty = l.next[pos]]
        linked == LinkBefore(rest, pos, insertPos)
    IN  [linked EXCEPT !.size = @ + 1, !.use[pos] = TRUE, !.data[pos] = v,
                       !.head = IF @ \in {insertPos, ENDPOS} THEN pos ELSE @]

\* mutant: the list goes on from an erased head
FreeNodeKeepHead(l, pos) ==
    LET out == [Unlink(l, pos) EXCEPT !.use[pos] = FALSE, !.size = @ - 1]
    IN  IF out.empty = ENDPOS THEN [Link(out, pos, pos) EXCEPT !.empty = pos]
        ELSE LinkBefore(out, pos, out.empty)

\* and a node comes back as their tail
FreeNode(l, pos) ==
    LET out == [Unlink(l, pos) EXCEPT
                  !.use[pos] = FALSE, !.size = @ - 1,
                  !.head = IF @ = pos THEN l.next[pos] ELSE @]
    IN  IF out.empty = ENDPOS THEN [Link(out, pos, pos) EXCEPT !.empty = pos]
        ELSE LinkBefore(out, pos, out.empty)

-----------------------------------------------------------------------------
(* Operations.                                                             *)

\* n nodes from pos on
Walk(l, pos, n) ==
    LET at[i \in 1..n] == IF i = 1 THEN pos ELSE l.next[at[i - 1]]
    IN  [i \in 1..n |-> at[i]]

ListElements(l) == Walk(l, l.head, l.size)

\* The node that marks the end is given out next.  The code takes it for the
\* sign that no node is unused.
EndFirst(l) == l.empty = ENDPOS /\ l.size # ListNodes

\* an iterator from begin() on and before end()
IsElement(pos) == pos \in ToSet(ListElements(list))

\* the place of an element, or one after the last
PlaceOf(pos) ==
    IF IsElement(pos) THEN CHOOSE i \in 1..list.size : ListElements(list)[i] = pos
    ELSE list.size + 1

ListBegin == list.head
ListEnd == list.prev[list.head]

InsertBefore(op, pos, v) ==
    LET full == list.size = ListNodes
    IN  /\ listDid' = <<op, v, PlaceOf(pos), ~full>>
        /\ list' = IF full THEN list ELSE ListNewNodeAndInsert(list, pos, v)
        /\ adrift' = (adrift \/ EndFirst(list'))

Release(op, pos, place) ==
    LET empty == list.size = 0
    IN  /\ listDid' = <<op, place, ~empty>>
        /\ list' = IF empty THEN list ELSE FreeNode(list, pos)
        /\ adrift' = (adrift \/ EndFirst(list'))

ListPushFront(v) == InsertBefore("PushFront", ListBegin, v)
ListPushBack(v) == InsertBefore("PushBack", ListEnd, v)

\* before an element or before end()
ListInsert(pos, v) == (IsElement(pos) \/ pos = ListEnd) /\ InsertBefore("Insert", pos, v)

ListPopFront == Release("PopFront", ListBegin, 1)

\* the node before the head is no element: it marks the end
ListPopBack == Release("PopBack", ListEnd, list.size)

ListErase(pos) == IsElement(pos) /\ Release("Erase", pos, PlaceOf(pos))

\* A pool puts in at the end and takes out by index.
Malloc(v) == ListPushBack(v)

\* mutant: an index is freed whether it is in use or not
FreeUnchecked(pos) == Release("Erase", pos, PlaceOf(pos))

Free(pos) == list.use[pos] /\ Release("Erase", pos, PlaceOf(pos))

\* Init of the block: both rings
ListInit ==
    /\ list = [next |-> [p \in Pos |-> IF p = ENDPOS THEN ENDPOS
                                       ELSE IF p = ListNodes THEN 1 ELSE p + 1],
               prev |-> [p \in Pos |-> IF p = ENDPOS THEN ENDPOS
                                       ELSE IF p = 1 THEN ListNodes ELSE p - 1],
               use |-> [p \in Pos |-> FALSE],
               data |-> [p \in Pos |-> CHOOSE v \in Item : TRUE],
               head |-> ENDPOS, empty |-> 1, size |-> 0]
    /\ listDid = <<>> /\ adrift = FALSE

ListNext ==
    \/ \E v \in Item : ListPushFront(v) \/ ListPushBack(v)
    \/ \E pos \in Pos, v \in Item : ListInsert(pos, v)
    \/ ListPopFront
    \/ ListPopBack
    \/ \E pos \in Pos : ListErase(pos)

ListSpec == ListInit /\ [][ListNext]_listVars

PoolNext ==
    \/ \E v \in Item : Malloc(v)
    \/ \E pos \in Pos : Free(pos)

PoolSpec == ListInit /\ [][PoolNext]_listVars

-----------------------------------------------------------------------------
(* Properties.                                                             *)

ListTypeOK ==
    /\ list \in [next : [Pos -> Pos], prev : [Pos -> Pos], use : [Pos -> BOOLEAN],
                data : [Pos -> Item], head : Pos, empty : Pos, size : 0..ListNodes]
    /\ adrift \in BOOLEAN

Unused(l) == IF l.empty = ENDPOS THEN <<>> ELSE Walk(l, l.empty, ListNodes - l.size)

\* "use first node to mark END": ENDPOS follows the last element and is never
\* among the unused nodes, to be given out as one.
EndMarks ==
    /\ list.next[list.prev[ENDPOS]] = ENDPOS /\ list.next[ENDPOS] = list.head
    /\ ENDPOS \notin ToSet(Unused(list))

\* A list is a sequence of up to ListNodes values.
ListItems(l) == [i \in 1..l.size |-> l.data[ListElements(l)[i]]]
ListHeld == INSTANCE Deque WITH
    items <- ListItems(list), did <- listDid, Value <- Item, Capacity <- ListNodes
ListIsDeque == ListHeld!Spec

\* And it is one, PopBack included, until it is adrift.
DequeUntilAdrift ==
    ListHeld!Init /\ [][adrift \/ ListHeld!Next]_<<ListItems(list), listDid, adrift>>
=============================================================================
