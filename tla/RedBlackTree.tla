---------------------------- MODULE RedBlackTree ----------------------------
(***************************************************************************)
(* The red-black tree under lsf::container::Set and Map.  Its nodes are    *)
(* the slots of one block of shared memory: a node is a position, links    *)
(* are positions, position NPOS is the black node all leaves share, and    *)
(* the slots not in use form a ring through the same child links.          *)
(*                                                                         *)
(* A key stands for an element; a Map compares its elements by key.  The   *)
(* tree is changed by one thread, one operation at a time, so an operation *)
(* is one step.  Constructors and destructors of elements are left out.    *)
(***************************************************************************)
EXTENDS Naturals, FiniteSets, SequencesExt, Loops

CONSTANTS
    Key,        \* the elements, ordered as numbers
    TreeNodes   \* max_size(): the nodes besides NPOS

ASSUME TreeAssumption ==
    Key \subseteq Nat /\ Key # {} /\ TreeNodes \in Nat \ {0}

VARIABLES
    tree,      \* RBTreeState
    treeDid        \* the last operation, its key and what it returned

treeVars == <<tree, treeDid>>

NPOS == 0
Node == 1..TreeNodes
NodeOrNone == 0..TreeNodes
Colors == {"BLACK", "RED", "EMPTY"}

\* RBTreeState: the nodes, what is linked at the root, the head of the ring of
\* unused nodes, and the number of nodes in use
Trees ==
    [lchild : [NodeOrNone -> NodeOrNone], rchild : [NodeOrNone -> NodeOrNone],
     parent : [NodeOrNone -> NodeOrNone], color : [NodeOrNone -> Colors],
     data : [NodeOrNone -> Key], root : NodeOrNone, empty : NodeOrNone,
     size : 0..TreeNodes]

\* what is left in a node that is not in use; nothing looks at it
AnyKey == CHOOSE k \in Key : TRUE

-----------------------------------------------------------------------------
(* Reading and linking nodes.  NPOS has no children, but it has a parent   *)
(* and a color, which the code may write as well.                          *)

Left(t, pos) == IF pos = NPOS THEN NPOS ELSE t.lchild[pos]
Right(t, pos) == IF pos = NPOS THEN NPOS ELSE t.rchild[pos]

\* the other child of pos's parent
BrotherOf(t, pos) ==
    LET parent == t.parent[pos]
    IN  IF pos = NPOS THEN NPOS
        ELSE IF Left(t, parent) = pos THEN Right(t, parent) ELSE Left(t, parent)

\* the same when pos may be the NPOS left by an erased leaf
Brother(t, parent, pos) ==
    IF pos # NPOS THEN BrotherOf(t, pos)
    ELSE IF Left(t, parent) = NPOS THEN Right(t, parent) ELSE Left(t, parent)

Paint(t, pos, color) == [t EXCEPT !.color[pos] = color]

\* new takes the place of pos under its parent
Replace(t, pos, new) ==
    LET parent == t.parent[pos]
    IN  IF parent = NPOS THEN [t EXCEPT !.root = new]
        ELSE IF Left(t, parent) = pos THEN [t EXCEPT !.lchild[parent] = new]
        ELSE [t EXCEPT !.rchild[parent] = new]

Hang(t, pos, parent) ==
    IF pos = NPOS THEN t ELSE [t EXCEPT !.parent[pos] = parent]

RotateRight(t, pos) ==
    LET l == Left(t, pos)
        lr == Right(t, l)
        top == [Replace(t, pos, l) EXCEPT !.parent[l] = t.parent[pos],
                                          !.rchild[l] = pos]
    IN  Hang([top EXCEPT !.parent[pos] = l, !.lchild[pos] = lr], lr, pos)

RotateLeft(t, pos) ==
    LET r == Right(t, pos)
        rl == Left(t, r)
        top == [Replace(t, pos, r) EXCEPT !.parent[r] = t.parent[pos],
                                          !.lchild[r] = pos]
    IN  Hang([top EXCEPT !.parent[pos] = r, !.rchild[pos] = rl], rl, pos)

-----------------------------------------------------------------------------
(* Searching.                                                              *)

\* a turn of the search: the node to look at, and its parent
FindStep(t, k) ==
    [at \in NodeOrNone \X NodeOrNone |->
        IF at[1] = NPOS \/ t.data[at[1]] = k THEN at
        ELSE <<IF t.data[at[1]] < k THEN Right(t, at[1]) ELSE Left(t, at[1]), at[1]>>]

\* the node of a key and its parent, or NPOS and the parent it would have
FindNode(t, k) == Steps(FindStep(t, k), <<t.root, NPOS>>, TreeNodes)

FindSmallestPos(t, from) ==
    Steps([pos \in NodeOrNone |-> IF Left(t, pos) = NPOS THEN pos ELSE Left(t, pos)],
          from, TreeNodes)

FindBiggestPos(t, from) ==
    Steps([pos \in NodeOrNone |-> IF Right(t, pos) = NPOS THEN pos ELSE Right(t, pos)],
          from, TreeNodes)

\* the first node above pos that has it on its left
Climb(t, pos) ==
    LET stops(p) == t.parent[p] = NPOS \/ Left(t, t.parent[p]) = p
        up == [p \in NodeOrNone |-> IF stops(p) THEN p ELSE t.parent[p]]
    IN  t.parent[Steps(up, pos, TreeNodes)]

\* the step of an iterator
FindNextBigPos(t, pos) ==
    IF pos = NPOS THEN FindSmallestPos(t, t.root)
    ELSE IF Right(t, pos) # NPOS THEN FindSmallestPos(t, Right(t, pos))
    ELSE Climb(t, pos)

\* or on its right
ClimbBack(t, pos) ==
    LET stops(p) == t.parent[p] = NPOS \/ Right(t, t.parent[p]) = p
        up == [p \in NodeOrNone |-> IF stops(p) THEN p ELSE t.parent[p]]
    IN  t.parent[Steps(up, pos, TreeNodes)]

\* and its step back
FindNextSmallPos(t, pos) ==
    IF pos = NPOS THEN FindBiggestPos(t, t.root)
    ELSE IF Left(t, pos) # NPOS THEN FindBiggestPos(t, Left(t, pos))
    ELSE ClimbBack(t, pos)

-----------------------------------------------------------------------------
(* The ring of unused nodes.                                               *)

\* mutant: the last node of the ring stays its head when it is taken
GetNodeFromRing(t) ==
    LET next == t.rchild[t.empty]
        prev == t.lchild[t.empty]
    IN  [t EXCEPT !.lchild[next] = prev, !.rchild[prev] = next, !.empty = next]

\* a node is taken from its head
GetNodeFromEmptyList(t) ==
    LET pos == t.empty
        next == t.rchild[pos]
        prev == t.lchild[pos]
    IN  IF next = pos THEN [t EXCEPT !.empty = NPOS]
        ELSE [t EXCEPT !.lchild[next] = prev, !.rchild[prev] = next, !.empty = next]

\* and comes back before it, as the new head
InsertNodeToEmptyList(t, pos) ==
    LET head == t.empty
        prev == t.lchild[head]
        ring == IF head = NPOS THEN [t EXCEPT !.rchild[pos] = pos, !.lchild[pos] = pos]
                ELSE [t EXCEPT !.rchild[pos] = head, !.lchild[pos] = prev,
                               !.lchild[head] = pos, !.rchild[prev] = pos]
    IN  [ring EXCEPT !.parent[pos] = NPOS, !.color[pos] = "EMPTY", !.empty = pos,
                     !.data[pos] = AnyKey]

-----------------------------------------------------------------------------
(* Insertion.                                                              *)

\* [3]: parent and uncle, both red, turn black, and the grandparent turns red
UncleIsRed(t, new) ==
    LET parent == t.parent[new]
    IN  parent # NPOS /\ t.color[parent] = "RED" /\ t.color[BrotherOf(t, parent)] = "RED"

PassRedUp(t, new) ==
    LET parent == t.parent[new]
    IN  Paint(Paint(Paint(t, BrotherOf(t, parent), "BLACK"), parent, "BLACK"),
              t.parent[parent], "RED")

\* and so on with the grandparent
PassRedStep ==
    [at \in Trees \X NodeOrNone |->
        IF UncleIsRed(at[1], at[2])
        THEN <<PassRedUp(at[1], at[2]), at[1].parent[at[1].parent[at[2]]]>> ELSE at]

\* [5]: parent black, grandparent red, and parent above grandparent
LiftParent(t, parent, grand) ==
    LET painted == Paint(Paint(t, parent, "BLACK"), grand, "RED")
    IN  IF parent = Left(t, grand) THEN RotateRight(painted, grand)
        ELSE RotateLeft(painted, grand)

\* [4.1]: new is a right child under a left child.  [4.2], its mirror image,
\* asks for the same condition once more and so is never taken.
IsInner(t, new, parent, grand) == Right(t, parent) = new /\ Left(t, grand) = parent

\* where red goes up no further; [4.1] makes new the parent and ends at [5]
InsertFixupAt(t, new) ==
    LET parent == t.parent[new]
        grand == t.parent[parent]
    IN  IF parent = NPOS THEN Paint(t, new, "BLACK")
        ELSE IF t.color[parent] = "BLACK" THEN t
        ELSE IF IsInner(t, new, parent, grand)
             THEN LiftParent(RotateLeft(t, parent), new, grand)
        ELSE LiftParent(t, parent, grand)

InsertFixup(t, new) ==
    LET at == Steps(PassRedStep, <<t, new>>, TreeNodes)
    IN  InsertFixupAt(at[1], at[2])

\* GetNewNodeAndInsert for a key that is not there, and the construction of
\* the element in the new node
GetNewNodeAndInsert(t, k, parent) ==
    LET new == t.empty
        fresh == [GetNodeFromEmptyList(t) EXCEPT
                    !.size = @ + 1, !.lchild[new] = NPOS, !.rchild[new] = NPOS,
                    !.parent[new] = parent, !.color[new] = "RED", !.data[new] = k]
        linked == IF parent = NPOS THEN [fresh EXCEPT !.root = new]
                  ELSE IF t.data[parent] < k THEN [fresh EXCEPT !.rchild[parent] = new]
                  ELSE [fresh EXCEPT !.lchild[parent] = new]
    IN  InsertFixup(linked, new)

SetInsert(k) ==
    LET found == FindNode(tree, k)
    IN  IF tree.size = TreeNodes \/ found[1] # NPOS
        THEN treeDid' = <<"Insert", k, FALSE>> /\ UNCHANGED tree
        ELSE /\ tree' = GetNewNodeAndInsert(tree, k, found[2])
             /\ treeDid' = <<"Insert", k, TRUE>>

-----------------------------------------------------------------------------
(* Erasure.                                                                *)

DeleteAndFreeNode(t, pos, child) ==
    InsertNodeToEmptyList(Hang(Replace(t, pos, child), child, t.parent[pos]), pos)

\* [1]: a red brother goes above parent, first for pos on the left and then,
\* with what that left behind, for pos on the right
RedBrother(t, parent, pos) ==
    LET brother(u) == Brother(u, parent, pos)
        up(u) == Paint(Paint(u, parent, "RED"), brother(u), "BLACK")
        l == IF t.color[brother(t)] = "RED" /\ Left(t, parent) = pos
             THEN RotateLeft(up(t), parent) ELSE t
    IN  IF l.color[brother(l)] = "RED" /\ Right(l, parent) = pos
        THEN RotateRight(up(l), parent) ELSE l

\* [4]: a red child of brother on pos's side goes to the far side
RedNephewOut(t, parent, pos) ==
    LET brother(u) == Brother(u, parent, pos)
        bl(u) == Left(u, brother(u))
        br(u) == Right(u, brother(u))
        l == IF Left(t, parent) = pos /\ t.color[bl(t)] = "RED" /\ t.color[br(t)] = "BLACK"
             THEN RotateRight(Paint(Paint(t, brother(t), "RED"), bl(t), "BLACK"), brother(t))
             ELSE t
    IN  IF Right(l, parent) = pos /\ l.color[bl(l)] = "BLACK" /\ l.color[br(l)] = "RED"
        THEN RotateLeft(Paint(Paint(l, brother(l), "RED"), br(l), "BLACK"), brother(l))
        ELSE l

\* [5]: brother takes the place and the color of parent
LiftBrother(t, parent, pos) ==
    LET brother == Brother(t, parent, pos)
        bl == Left(t, brother)
        br == Right(t, brother)
        over(u, far) == Paint(Paint(Paint(u, brother, u.color[parent]), parent, "BLACK"),
                              far, "BLACK")
        l == IF Left(t, parent) = pos /\ t.color[br] = "RED"
             THEN RotateLeft(over(t, br), parent) ELSE t
    IN  IF Right(l, parent) = pos /\ l.color[bl] = "RED"
        THEN RotateRight(over(l, bl), parent) ELSE l

\* the brother pales, if there is one
Fade(t, brother) == IF brother = NPOS THEN t ELSE Paint(t, brother, "RED")

BlackBelow(t, brother) ==
    \A n \in {brother, Left(t, brother), Right(t, brother)} : t.color[n] = "BLACK"

\* [2]: with all black around, a black node is then missing above parent
FadeStep ==
    [at \in Trees \X NodeOrNone \X NodeOrNone |->
        LET t == at[1]
            parent == at[2]
            brother == Brother(t, parent, at[3])
        IN  IF parent # NPOS /\ t.color[parent] = "BLACK" /\ BlackBelow(t, brother)
            THEN <<Fade(t, brother), t.parent[parent], parent>> ELSE at]

\* where it can be made up for: [3] by the red of parent, [4] and [5] by that
\* of a nephew
EraseFixupAt(t, parent, pos) ==
    LET t1 == RedBrother(t, parent, pos)
        brother == Brother(t1, parent, pos)
    IN  IF BlackBelow(t1, brother)
        THEN [Fade(t1, brother) EXCEPT !.color[parent] = "BLACK"]
        ELSE LiftBrother(RedNephewOut(t1, parent, pos), parent, pos)

\* one black node is missing on the paths through pos
EraseFixup(t, parent, pos) ==
    LET at == Steps(FadeStep, <<t, parent, pos>>, TreeNodes)
    IN  IF at[2] = NPOS THEN at[1] ELSE EraseFixupAt(at[1], at[2], at[3])

\* a node with at most one child goes; a red child pays with its color
EraseThin(t, pos, parent) ==
    LET l == Left(t, pos)
        r == Right(t, pos)
        child == IF l # NPOS THEN l ELSE r
        redChild == IF t.color[l] = "RED" THEN l ELSE r
    IN  IF t.color[pos] = "RED" THEN DeleteAndFreeNode(t, pos, child)
        ELSE IF t.color[redChild] = "RED"
             THEN DeleteAndFreeNode(Paint(t, redChild, "BLACK"), pos, redChild)
        ELSE EraseFixup(DeleteAndFreeNode(t, pos, child), parent, child)

\* mutant: the element of the node that goes is not moved
EraseNodeNoMove(t, pos, parent) ==
    LET victim == FindBiggestPos(t, Left(t, pos))
        less == [t EXCEPT !.size = @ - 1]
    IN  IF NPOS \in {Left(t, pos), Right(t, pos)} THEN EraseThin(less, pos, parent)
        ELSE EraseThin(less, victim, t.parent[victim])

\* mutant: the next larger node goes
EraseNodeNextBig(t, pos, parent) ==
    LET victim == FindSmallestPos(t, Right(t, pos))
        less == [t EXCEPT !.size = @ - 1]
    IN  IF NPOS \in {Left(t, pos), Right(t, pos)} THEN EraseThin(less, pos, parent)
        ELSE EraseThin([less EXCEPT !.data[pos] = t.data[victim]], victim, t.parent[victim])

\* a node with two children takes the element of the next smaller node,
\* which goes in its place
EraseNode(t, pos, parent) ==
    LET victim == FindBiggestPos(t, Left(t, pos))
        less == [t EXCEPT !.size = @ - 1]
    IN  IF NPOS \in {Left(t, pos), Right(t, pos)} THEN EraseThin(less, pos, parent)
        ELSE EraseThin([less EXCEPT !.data[pos] = t.data[victim]], victim, t.parent[victim])

SetErase(k) ==
    LET found == FindNode(tree, k)
    IN  IF tree.size = 0 \/ found[1] = NPOS
        THEN treeDid' = <<"Erase", k, FALSE>> /\ UNCHANGED tree
        ELSE /\ tree' = EraseNode(tree, found[1], found[2])
             /\ treeDid' = <<"Erase", k, TRUE>>

-----------------------------------------------------------------------------
\* Init of the memory block: all nodes in the ring
TreeInit ==
    /\ tree = [lchild |-> [p \in NodeOrNone |-> IF p = NPOS THEN NPOS
                                                 ELSE IF p = 1 THEN TreeNodes ELSE p - 1],
               rchild |-> [p \in NodeOrNone |-> IF p = NPOS THEN NPOS
                                                 ELSE IF p = TreeNodes THEN 1 ELSE p + 1],
               parent |-> [p \in NodeOrNone |-> NPOS],
               color |-> [p \in NodeOrNone |-> IF p = NPOS THEN "BLACK" ELSE "EMPTY"],
               data |-> [p \in NodeOrNone |-> AnyKey],
               root |-> NPOS, empty |-> 1, size |-> 0]
    /\ treeDid = <<>>

TreeNext == \E k \in Key : SetInsert(k) \/ SetErase(k)

TreeSpec == TreeInit /\ [][TreeNext]_treeVars

-----------------------------------------------------------------------------
(* What CheckConsist walks.                                                *)

\* the nodes an iterator visits from begin() to end(), in its order
Visited(t) ==
    LET next == [pos \in NodeOrNone |-> IF pos = NPOS THEN NPOS ELSE FindNextBigPos(t, pos)]
        at(i) == Steps(next, FindSmallestPos(t, t.root), i - 1)
    IN  [i \in 1..Cardinality({j \in 1..(TreeNodes + 1) : at(j) # NPOS}) |-> at(i)]

\* the ring of unused nodes
Ring(t) == {Steps(t.rchild, t.empty, i) : i \in NodeOrNone} \ {NPOS}

-----------------------------------------------------------------------------
(* Properties.                                                             *)

TreeTypeOK ==
    /\ tree \in Trees
    /\ treeDid = <<>> \/ treeDid \in {"Insert", "Erase"} \X Key \X BOOLEAN

\* CheckConsist: every node is either met once by an iterator and colored or
\* in the ring and empty, the root and NPOS are black, and so much as size
\* says is in use.  The links of one block serve both, so a link that any
\* rotation or removal forgets shows here.
CheckConsist ==
    LET ring == Ring(tree)
        visited == Visited(tree)
    IN  /\ tree.color[tree.root] = "BLACK" /\ tree.color[NPOS] = "BLACK"
        /\ \A n \in ring : tree.color[n] = "EMPTY" /\ tree.rchild[tree.lchild[n]] = n
        /\ \A n \in ToSet(visited) : tree.color[n] # "EMPTY"
        /\ ToSet(visited) = Node \ ring
        /\ Len(visited) = tree.size /\ Cardinality(ring) = TreeNodes - tree.size

\* An iterator visits the elements in ascending order, and steps back the way it
\* came: rotations keep it, and so does the element a node takes over when
\* another is erased.
Ascending ==
    LET visited == Visited(tree)
    IN  /\ \A i, j \in 1..Len(visited) : i < j => tree.data[visited[i]] < tree.data[visited[j]]
        /\ \A i \in 1..Len(visited) :
               FindNextSmallPos(tree, IF i = Len(visited) THEN NPOS ELSE visited[i + 1]) = visited[i]

\* Feature 4: a red node has no red child.
RedHasBlackChildren ==
    \A n \in Node : tree.color[n] = "RED" =>
        "RED" \notin {tree.color[Left(tree, n)], tree.color[Right(tree, n)]}

\* The tree is a set with answers: what is in it is what was inserted and not
\* erased, whatever became of the colors.
InUse(t) == {n \in Node : t.color[n] # "EMPTY"}
Elements(t) == {t.data[n] : n \in InUse(t)}
Set == INSTANCE OrderedSet WITH
    keys <- Elements(tree), did <- treeDid, Capacity <- TreeNodes
SetSpec == Set!Spec

\* An element larger than the erased one stays in its node: a loop that steps
\* its iterator before it erases, as test_map.cpp does, goes on from there.
LargerStay ==
    [][\A k \in Elements(tree) \ Elements(tree'), n \in InUse(tree) :
         tree.data[n] > k => n \in InUse(tree') /\ tree'.data[n] = tree.data[n]]_treeVars
=============================================================================
