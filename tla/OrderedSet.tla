----------------------------- MODULE OrderedSet -----------------------------
(***************************************************************************)
(* What lsf::container::Set and Map promise their users: a set of at most  *)
(* Capacity keys.  An operation returns whether it changed the set.        *)
(***************************************************************************)
EXTENDS Naturals, FiniteSets

CONSTANTS Key, Capacity

VARIABLES
    keys,
    did     \* the last operation, its key and what it returned

Insert(k) ==
    LET fits == k \notin keys /\ Cardinality(keys) < Capacity
    IN  /\ keys' = IF fits THEN keys \cup {k} ELSE keys
        /\ did' = <<"Insert", k, fits>>

Erase(k) ==
    /\ keys' = keys \ {k}
    /\ did' = <<"Erase", k, k \in keys>>

Init == keys = {} /\ did = <<>>

Next == \E k \in Key : Insert(k) \/ Erase(k)

Spec == Init /\ [][Next]_<<keys, did>>
=============================================================================
