---------------------------- MODULE RecordLease ----------------------------
(***************************************************************************)
(* What the data server promises about a record, with no versions, ids,    *)
(* clocks or messages: at most one session holds it, a write by anyone     *)
(* else is impossible meanwhile, a write ends the holding, and holdings    *)
(* may end by themselves.  Deleting is allowed to everyone at any time.    *)
(***************************************************************************)
CONSTANTS Sess, Key, NoData, Nobody

VARIABLES
    holder,  \* holder[k]: the session that may write record k, or Nobody
    value    \* value[k]: the session that wrote record k last, or NoData

leaseVars == <<holder, value>>

Init == /\ holder = [k \in Key |-> Nobody]
        /\ value = [k \in Key |-> NoData]

Acquire(k, s) == /\ holder[k] = Nobody
                 /\ holder' = [holder EXCEPT ![k] = s]
                 /\ UNCHANGED value

\* Given back, or timed out: time may end several holdings at once.
Release == /\ \E K \in SUBSET Key :
                 holder' = [k \in Key |-> IF k \in K THEN Nobody ELSE holder[k]]
           /\ UNCHANGED value

Write(k, s) == /\ holder[k] \in {Nobody, s}
               /\ value' = [value EXCEPT ![k] = s]
               /\ holder' = [holder EXCEPT ![k] = Nobody]

Remove(k) == /\ value' = [value EXCEPT ![k] = NoData]
             /\ holder' = [holder EXCEPT ![k] = Nobody]

Next == \/ \E k \in Key : Remove(k) \/ \E s \in Sess : Acquire(k, s) \/ Write(k, s)
        \/ Release

Spec == Init /\ [][Next]_leaseVars
=============================================================================
