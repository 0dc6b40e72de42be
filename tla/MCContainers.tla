---------------------------- MODULE MCContainers ----------------------------
(***************************************************************************)
(* One container of the four kinds, for TLC: which one is chosen at the    *)
(* start, and the others stay as they are made.                            *)
(***************************************************************************)
EXTENDS CircularQueue, NodeList, RedBlackTree

CONSTANT Kinds   \* the containers to look at

VARIABLE kind

containerVars == <<vars, listVars, treeVars, kind>>

MCInit == kind \in Kinds /\ Init /\ ListInit /\ TreeInit

MCNext ==
    /\ UNCHANGED kind
    /\ \/ kind = "queue" /\ Next /\ UNCHANGED <<listVars, treeVars>>
       \/ kind = "list" /\ ListNext /\ UNCHANGED <<vars, treeVars>>
       \/ kind = "pool" /\ PoolNext /\ UNCHANGED <<vars, treeVars>>
       \/ kind = "tree" /\ TreeNext /\ UNCHANGED <<vars, listVars>>

MCSpec == MCInit /\ [][MCNext]_containerVars

TypeOK == QueueTypeOK /\ ListTypeOK /\ TreeTypeOK

\* A pool, which has no PopBack, never goes adrift, and its first node marks
\* the end for ever (Malloc and Free of pool.hpp).
PoolKeepsEnd == kind = "pool" => ~adrift /\ EndMarks
=============================================================================
