--------------------------- MODULE DataLeaseProofs ---------------------------
(***************************************************************************)
(* The lock and the version of a record.                                   *)
(*                                                                         *)
(* LeaseInv says what every message on its way and every handle still      *)
(* knows of a record that others may have changed since: reads agree,      *)
(* updates are never lost, and a lock in force excludes everyone its id    *)
(* was not drawn for.  HolderInv adds, for distinct draws, what a lock id  *)
(* says of the version: the holder is not refused.  OwnerInv gives each    *)
(* lock one owner: the data server implements RecordLease.                 *)
(***************************************************************************)
EXTENDS DataSessionProofs

-----------------------------------------------------------------------------
\* What was seen of record k in incarnation i is not from the future, and if
\* the version has not moved since, it is still the value.
Known(k, i, v, d) ==
    /\ i <= inc[k]
    /\ i = inc[k] => /\ v <= ctl[k].version
                     /\ v = ctl[k].version => d = data[k]

\* A lock id in the hands of s was drawn for s.
Granted(s, k, id) == id # NoLock => <<s, k>> \in grant[id]

RequestOK(m) ==
    /\ m.type = "query"  => m.version = NoVersion
    /\ m.type = "update" => Known(m.key, m.inc, m.version, m.base)
    /\ m.type \in {"update", "unlock"} => Granted(m.from, m.key, m.lock)

ResponseOK(r) ==
    r.type = "query" /\ r.result = "OK" =>
        Known(r.key, r.inc, r.version, r.data) /\ Granted(r.to, r.key, r.lock)

HandleOK(s, k, h) ==
    /\ h.finish => Known(k, h.inc, h.version, h.data)
    /\ Granted(s, k, h.lock)

HandlesOK(s, h) == \A k \in Key : HandleOK(s, k, h[k])

LeaseInv ==
    /\ TypeOK
    /\ \A k \in Key : ctl[k].lock # NoLock => ctl[k].has
    /\ \A m \in req : RequestOK(m)
    /\ \A r \in rsp : ResponseOK(r)
    /\ \A s \in Sess : HandlesOK(s, handle[s])
    /\ \A s \in Sess : state[s] = "UPDATE_WAIT" => IsQueryReady(handle[s])
    /\ VersionNamesData

-----------------------------------------------------------------------------
(* The history of a record.                                                *)

\* A record stays, moves to its next version, or starts a new incarnation.
Advance ==
    \A k \in Key :
        \/ /\ inc'[k] = inc[k] /\ data'[k] = data[k]
           /\ ctl'[k].version = ctl[k].version
        \/ inc'[k] = inc[k] /\ ctl'[k].version = ctl[k].version + 1
        \/ inc'[k] = inc[k] + 1

GrantGrows == \A id \in LockIds : grant[id] \subseteq grant'[id]

\* What is known of a record stays true while the record only advances.
LEMMA KnownStable ==
    ASSUME TypeOK, Advance,
           NEW k \in Key, NEW i \in Nat, NEW v \in Nat, NEW d,
           Known(k, i, v, d)
    PROVE  Known(k, i, v, d)'
<1>1. inc[k] \in Nat /\ ctl[k].version \in Nat
  BY DEF TypeOK, ServerTypeOK, Control
<1>2. QED
  BY <1>1 DEF Advance, Known

\* A lock id stays granted.
LEMMA GrantedStable ==
    ASSUME TypeOK, GrantGrows,
           NEW s, NEW k, NEW id \in LockId, Granted(s, k, id)
    PROVE  Granted(s, k, id)'
BY DEF GrantGrows, Granted, LockId

\* While records only advance, a message or a handle stays right.
LEMMA RequestStable ==
    ASSUME TypeOK, Advance, GrantGrows, NEW m \in req, RequestOK(m)
    PROVE  RequestOK(m)'
<1>1. m \in Request
  BY DEF TypeOK, ServerTypeOK
<1>2. CASE m.type = "update"
  <2>1. m.key \in Key /\ m.inc \in Nat /\ m.version \in Nat /\ m.lock \in LockId
    BY <1>1, <1>2 DEF Request
  <2>2. Known(m.key, m.inc, m.version, m.base)'
    BY <1>2, <2>1, KnownStable DEF RequestOK
  <2>3. Granted(m.from, m.key, m.lock)'
    BY <1>2, <2>1, GrantedStable DEF RequestOK
  <2>4. QED
    BY <1>2, <2>2, <2>3 DEF RequestOK
<1>3. CASE m.type = "unlock"
  <2>1. m.lock \in LockId
    BY <1>1, <1>3 DEF Request, LockId
  <2>2. Granted(m.from, m.key, m.lock)'
    BY <1>3, <2>1, GrantedStable DEF RequestOK
  <2>3. QED
    BY <1>3, <2>2 DEF RequestOK
<1>4. CASE m.type \notin {"update", "unlock"}
  BY <1>4 DEF RequestOK
<1>5. QED
  BY <1>2, <1>3, <1>4

\* A response stays right while records only advance.
LEMMA ResponseStable ==
    ASSUME TypeOK, Advance, GrantGrows, NEW r \in rsp, ResponseOK(r)
    PROVE  ResponseOK(r)'
<1>1. CASE r.type = "query" /\ r.result = "OK"
  <2>1. r.key \in Key /\ r.inc \in Nat /\ r.version \in Nat /\ r.lock \in LockId
    BY <1>1 DEF TypeOK, ServerTypeOK, Response
  <2>2. Known(r.key, r.inc, r.version, r.data)'
    BY <1>1, <2>1, KnownStable DEF ResponseOK
  <2>3. Granted(r.to, r.key, r.lock)'
    BY <1>1, <2>1, GrantedStable DEF ResponseOK
  <2>4. QED
    BY <2>2, <2>3 DEF ResponseOK
<1>2. CASE ~(r.type = "query" /\ r.result = "OK")
  BY <1>2 DEF ResponseOK
<1>3. QED
  BY <1>1, <1>2

\* A handle stays right while records only advance.
LEMMA HandleStable ==
    ASSUME TypeOK, Advance, GrantGrows, NEW s \in Sess, NEW h \in Handles,
           HandlesOK(s, h)
    PROVE  HandlesOK(s, h)'
<1> SUFFICES ASSUME NEW k \in Key PROVE HandleOK(s, k, h[k])'
  BY DEF HandlesOK
<1>1. HandleOK(s, k, h[k])
  BY DEF HandlesOK
<1>2. /\ h[k].inc \in Nat /\ h[k].version \in Nat /\ h[k].lock \in LockId
      /\ h[k].finish \in BOOLEAN
  BY DEF Handles, DBHandle
<1>3. h[k].finish => Known(k, h[k].inc, h[k].version, h[k].data)'
  BY <1>1, <1>2, KnownStable DEF HandleOK
<1>4. Granted(s, k, h[k].lock)'
  BY <1>1, <1>2, GrantedStable DEF HandleOK
<1>5. QED
  BY <1>3, <1>4 DEF HandleOK

-----------------------------------------------------------------------------
(* What each handler of the server does to records, locks and responses.   *)

\* A response is added that is right, and the request is gone.
Answered(m) ==
    /\ req' = req \ {m}
    /\ \/ UNCHANGED rsp
       \/ \E r \in Response :
             /\ rsp' = rsp \cup {r}
             /\ ResponseOK(r)'
             /\ (r.type = "query" /\ r.result = "OK") =>
                   /\ r.inc = inc'[r.key]
                   /\ r.version = ctl'[r.key].version
                   /\ r.data = data'[r.key]

LocksHave == \A k \in Key : ctl[k].lock # NoLock => ctl[k].has

\* Dropping a lock that has timed out changes nothing else.
LEMMA TimeoutKeeps ==
    ASSUME NEW c \in Control
    PROVE  LET u == UpdateTimeoutLock(c)
           IN  /\ u \in Control /\ u.has = c.has /\ u.version = c.version
               /\ u.lock \in {c.lock, NoLock}
               /\ ~Expired(c) => u = c
<1>1. c.lock # NoLock /\ Expired(c) =>
        UpdateTimeoutLock(c) = [c EXCEPT !.lock = NoLock, !.lockTime = 0]
  BY DEF UpdateTimeoutLock
<1>2. ~(c.lock # NoLock /\ Expired(c)) => UpdateTimeoutLock(c) = c
  BY DEF UpdateTimeoutLock
<1>3. UpdateTimeoutLock(c) \in Control
  BY TimeoutType
<1>4. QED
  BY <1>1, <1>2, <1>3 DEF Control

\* A query reply that is not OK says nothing.
LEMMA RefusalAnswers ==
    ASSUME TypeOK, NEW m \in req, m.type = "query",
           NEW res \in {"LEVELDB", "ALREADY_LOCK"}, NEW v \in Nat,
           NEW l \in LockId, NEW h \in BOOLEAN,
           ReplyWith(m, QueryRsp(m, res, v, l, h, NoData))
    PROVE  Answered(m)
<1>0. PICK r : r = QueryRsp(m, res, v, l, h, NoData)
  OBVIOUS
<1>1. m.from \in Sess /\ m.key \in Key
  BY DEF TypeOK, ServerTypeOK, Request
<1>2. r \in Response
  BY <1>0, <1>1 DEF QueryRsp, Response, Results, Value, TypeOK, ServerTypeOK
<1>3. r.result = res
  BY <1>0 DEF QueryRsp
<1>4. ResponseOK(r)'
  BY <1>3 DEF ResponseOK
<1>5. QED
  BY <1>0, <1>2, <1>3, <1>4 DEF ReplyWith, Answered

\* A query reply that is OK tells the record as it is, and its lock id has
\* been drawn for the sender.
LEMMA TailAnswers ==
    ASSUME TypeOK, NEW m \in req, m.type = "query", RequestOK(m),
           NEW v \in Nat, NEW l \in LockId, QueryTail(m, v, l),
           UNCHANGED <<data, inc>>, ctl'[m.key].version = v,
           Granted(m.from, m.key, l)'
    PROVE  Answered(m)
<1>1. m.from \in Sess /\ m.key \in Key
  BY DEF TypeOK, ServerTypeOK, Request
<1>2. m.version # v
  BY ConstantsAssumption DEF RequestOK
<1>3. PICK ok \in DbOutcome :
         ReplyWith(m, IF ok
            THEN QueryRsp(m, "OK", v, l, TRUE, data[m.key])
            ELSE QueryRsp(m, "LEVELDB", v, l, TRUE, NoData))
  BY <1>2 DEF QueryTail
<1>4. CASE ok
  <2>0. PICK r : r = QueryRsp(m, "OK", v, l, TRUE, data[m.key])
    OBVIOUS
  <2>1. r \in Response
    BY <1>1, <2>0 DEF QueryRsp, Response, Results, TypeOK, ServerTypeOK
  <2>2. /\ r.key = m.key /\ r.inc = inc[m.key] /\ r.version = v
        /\ r.data = data[m.key] /\ r.lock = l /\ r.to = m.from
    BY <2>0 DEF QueryRsp
  <2>3. inc[m.key] \in Nat
    BY <1>1 DEF TypeOK, ServerTypeOK
  <2>4. Known(m.key, inc[m.key], v, data[m.key])'
    BY <2>3 DEF Known
  <2>5. ResponseOK(r)'
    BY <2>2, <2>4 DEF ResponseOK
  <2>6. ReplyWith(m, r)
    BY <1>3, <1>4, <2>0
  <2>7. QED
    BY <2>1, <2>2, <2>5, <2>6 DEF ReplyWith, Answered
<1>5. CASE ~ok
  BY <1>3, <1>5, RefusalAnswers
<1>6. QED
  BY <1>4, <1>5

\* QueryDataHandler changes no value and no version, and its reply is right.
LEMMA QueryKeeps ==
    ASSUME LeaseInv, NEW m \in req, Query(m)
    PROVE  Advance /\ GrantGrows /\ LocksHave' /\ Answered(m)
<1> USE DEF LeaseInv
<1> DEFINE c == UpdateTimeoutLock(ctl[m.key])
<1>1. m.from \in Sess /\ m.key \in Key /\ m.type = "query"
  BY DEF Query, TypeOK, ServerTypeOK, Request
<1>2. ctl[m.key] \in Control /\ c \in Control /\ c.version = ctl[m.key].version
  BY <1>1, TimeoutKeeps DEF TypeOK, ServerTypeOK
<1>3. UNCHANGED <<data, inc>>
  BY DEF Query
<1>4. ASSUME UNCHANGED <<ctl, grant>>
      PROVE  Advance /\ GrantGrows /\ LocksHave'
  BY <1>3, <1>4 DEF Advance, GrantGrows, LocksHave
<1>5. NoLock \in LockId /\ c.version \in Nat
  BY <1>2 DEF LockId, Control
<1>6. CASE QueryFails(m)
  BY <1>1, <1>4, <1>5, <1>6, RefusalAnswers DEF QueryFails
<1>7. CASE QueryRefused(m)
  BY <1>1, <1>4, <1>5, <1>7, RefusalAnswers DEF QueryRefused
<1>8. CASE QueryReads(m)
  <2>1. QueryTail(m, ctl[m.key].version, NoLock) /\ UNCHANGED <<ctl, grant>>
    BY <1>8 DEF QueryReads
  <2>2. Granted(m.from, m.key, NoLock)'
    BY DEF Granted
  <2>3. Answered(m)
    BY <1>1, <1>2, <1>3, <1>5, <2>1, <2>2, TailAnswers
  <2>4. QED
    BY <1>4, <2>1, <2>3
<1>9. CASE QueryLocks(m)
  <2>1. PICK id \in Drawable :
           \/ /\ ctl' = [ctl EXCEPT ![m.key] =
                            [c EXCEPT !.has = TRUE, !.lock = id,
                                      !.lockTime = clock]]
              /\ grant' = [grant EXCEPT ![id] = @ \cup {<<m.from, m.key>>}]
              /\ QueryTail(m, c.version, id)
           \/ /\ DbMayFail
              /\ ReplyWith(m, QueryRsp(m, "LEVELDB", c.version, id,
                                       FALSE, NoData))
              /\ UNCHANGED <<ctl, grant>>
    BY <1>9 DEF QueryLocks
  <2>2. id \in LockIds /\ id \in LockId
    BY DEF Drawable, LockId
  <2>3. CASE UNCHANGED <<ctl, grant>> /\
             ReplyWith(m, QueryRsp(m, "LEVELDB", c.version, id, FALSE, NoData))
    BY <1>1, <1>4, <1>5, <2>2, <2>3, RefusalAnswers
  <2>4. CASE /\ ctl' = [ctl EXCEPT ![m.key] =
                            [c EXCEPT !.has = TRUE, !.lock = id,
                                      !.lockTime = clock]]
             /\ grant' = [grant EXCEPT ![id] = @ \cup {<<m.from, m.key>>}]
             /\ QueryTail(m, c.version, id)
    <3>1. ctl'[m.key] = [c EXCEPT !.has = TRUE, !.lock = id, !.lockTime = clock]
      BY <1>1, <2>4 DEF TypeOK, ServerTypeOK
    <3>2. ctl'[m.key].has /\ ctl'[m.key].version = c.version
      BY <1>2, <3>1 DEF Control
    <3>3. \A k \in Key \ {m.key} : ctl'[k] = ctl[k]
      BY <2>4 DEF TypeOK, ServerTypeOK
    <3>4. LocksHave' /\ Advance
      BY <1>2, <1>3, <3>2, <3>3 DEF LocksHave, Advance
    <3>5. GrantGrows /\ <<m.from, m.key>> \in grant'[id]
      BY <2>2, <2>4 DEF GrantGrows, TypeOK, ServerTypeOK
    <3>6. Granted(m.from, m.key, id)'
      BY <3>5 DEF Granted
    <3>7. Answered(m)
      BY <1>1, <1>3, <1>5, <2>2, <2>4, <3>2, <3>6, TailAnswers
    <3>8. QED
      BY <3>4, <3>5, <3>7
  <2>5. QED
    BY <2>1, <2>3, <2>4
<1>10. QED
  BY <1>6, <1>7, <1>8, <1>9 DEF Query

\* The replies of the other handlers say nothing of the record.
LEMMA PlainAnswers ==
    ASSUME TypeOK, NEW m \in req, m.type \in {"update", "insert", "delete"},
           NEW res \in Results, ReplyWith(m, Rsp(m, res))
    PROVE  Answered(m)
<1>0. PICK r : r = Rsp(m, res)
  OBVIOUS
<1>1. m.from \in Sess /\ m.key \in Key
  BY DEF TypeOK, ServerTypeOK, Request
<1>2. r \in Response /\ r.type # "query"
  BY <1>0, <1>1 DEF Rsp, Response
<1>3. ResponseOK(r)'
  BY <1>2 DEF ResponseOK
<1>4. QED
  BY <1>0, <1>2, <1>3 DEF ReplyWith, Answered

\* UpdateDataHandler moves a record to its next version, or changes nothing.
LEMMA UpdateKeeps ==
    ASSUME LeaseInv, NEW m \in req, Update(m)
    PROVE  Advance /\ GrantGrows /\ LocksHave' /\ Answered(m)
<1> USE DEF LeaseInv
<1> DEFINE c == UpdateTimeoutLock(ctl[m.key])
<1>1. m.key \in Key /\ m.type = "update"
  BY DEF Update, TypeOK, ServerTypeOK, Request
<1>2. ctl[m.key] \in Control /\ c \in Control /\ c.version = ctl[m.key].version
  BY <1>1, TimeoutKeeps DEF TypeOK, ServerTypeOK
<1>3. UNCHANGED <<grant, inc>>
  BY DEF Update
<1>4. {"OK", "LEVELDB"} \subseteq Results /\ UpdateCheck(m, c) \in Results
  BY DEF UpdateCheck, Results
<1>5. Answered(m)
  <2>1. PICK res \in Results : ReplyWith(m, Rsp(m, res))
    BY <1>4 DEF Update
  <2>2. QED BY <1>1, <2>1, PlainAnswers
<1>6. CASE UNCHANGED <<ctl, data>>
  BY <1>3, <1>5, <1>6 DEF Advance, GrantGrows, LocksHave
<1>7. CASE ctl' = [ctl EXCEPT ![m.key] = Updated(c)]
  <2>1. Updated(c).has /\ Updated(c).version = ctl[m.key].version + 1
    BY <1>2 DEF Updated, NoControl
  <2>2. ctl'[m.key] = Updated(c) /\ \A k \in Key \ {m.key} : ctl'[k] = ctl[k]
    BY <1>1, <1>7 DEF TypeOK, ServerTypeOK
  <2>3. \A k \in Key \ {m.key} : data'[k] = data[k]
    BY DEF Update, TypeOK, ServerTypeOK
  <2>4. QED
    BY <1>3, <1>5, <2>1, <2>2, <2>3 DEF Advance, GrantGrows, LocksHave
<1>8. QED
  BY <1>6, <1>7 DEF Update

\* DeleteDataHandler starts a new incarnation of the record.
LEMMA DeleteKeeps ==
    ASSUME LeaseInv, NEW m \in req, Delete(m)
    PROVE  Advance /\ GrantGrows /\ LocksHave' /\ Answered(m)
<1> USE DEF LeaseInv
<1>1. m.key \in Key /\ m.type = "delete" /\ "OK" \in Results
  BY DEF Delete, TypeOK, ServerTypeOK, Request, Results
<1>2. Answered(m)
  BY <1>1, PlainAnswers DEF Delete
<1>3. inc'[m.key] = inc[m.key] + 1 /\ grant' = grant
  BY <1>1 DEF Delete, TypeOK, ServerTypeOK
<1>4. \A k \in Key \ {m.key} :
        ctl'[k] = ctl[k] /\ data'[k] = data[k] /\ inc'[k] = inc[k]
  BY DEF Delete, TypeOK, ServerTypeOK
<1>5. ctl'[m.key] \in {ctl[m.key], NoControl}
  BY <1>1 DEF Delete, TypeOK, ServerTypeOK
<1>6. NoControl.lock = NoLock
  BY DEF NoControl
<1>7. QED
  BY <1>2, <1>3, <1>4, <1>5, <1>6 DEF Advance, GrantGrows, LocksHave

\* InsertDataHandler starts a new incarnation, or changes nothing.
LEMMA InsertKeeps ==
    ASSUME LeaseInv, NEW m \in req, Insert(m)
    PROVE  Advance /\ GrantGrows /\ LocksHave' /\ Answered(m)
<1> USE DEF LeaseInv
<1>1. m.key \in Key /\ m.type = "insert"
  BY DEF Insert, TypeOK, ServerTypeOK, Request
<1>2. {"OK", "LEVELDB", "ALREADY_HAS_DATA"} \subseteq Results
  BY DEF Results
<1>3. Answered(m)
  <2>1. PICK res \in Results : ReplyWith(m, Rsp(m, res))
    BY <1>2 DEF Insert
  <2>2. QED BY <1>1, <2>1, PlainAnswers
<1>4. grant' = grant
  BY DEF Insert
<1>5. CASE UNCHANGED <<ctl, data, inc>>
  BY <1>3, <1>4, <1>5 DEF Advance, GrantGrows, LocksHave
<1>6. CASE /\ ctl' = [ctl EXCEPT ![m.key] =
                          [NoControl EXCEPT !.has = TRUE, !.version = 1]]
           /\ inc' = [inc EXCEPT ![m.key] = @ + 1]
  <2>1. inc'[m.key] = inc[m.key] + 1 /\ ctl'[m.key].lock = NoLock
    BY <1>1, <1>6 DEF TypeOK, ServerTypeOK, NoControl
  <2>2. \A k \in Key \ {m.key} :
          ctl'[k] = ctl[k] /\ data'[k] = data[k] /\ inc'[k] = inc[k]
    BY DEF Insert, TypeOK, ServerTypeOK
  <2>3. QED
    BY <1>3, <1>4, <2>1, <2>2 DEF Advance, GrantGrows, LocksHave
<1>7. QED
  BY <1>5, <1>6 DEF Insert

\* UnlockDataHandler changes no value and no version.
LEMMA UnlockKeeps ==
    ASSUME LeaseInv, NEW m \in req, Unlock(m)
    PROVE  Advance /\ GrantGrows /\ LocksHave' /\ Answered(m)
<1> USE DEF LeaseInv
<1> DEFINE c == UpdateTimeoutLock(ctl[m.key])
           u == [c EXCEPT !.has = TRUE, !.lock = NoLock, !.lockTime = 0]
<1>1. m.key \in Key
  BY DEF TypeOK, ServerTypeOK, Request
<1>2. ctl[m.key] \in Control /\ c \in Control /\ c.version = ctl[m.key].version
  BY <1>1, TimeoutKeeps DEF TypeOK, ServerTypeOK
<1>3. Answered(m) /\ UNCHANGED <<data, grant, inc>>
  BY DEF Unlock, Answered
<1>4. u.lock = NoLock /\ u.version = ctl[m.key].version
  BY <1>2 DEF Control
<1>5. CASE UNCHANGED ctl
  BY <1>3, <1>5 DEF Advance, GrantGrows, LocksHave
<1>6. CASE ctl' = [ctl EXCEPT ![m.key] = u]
  <2>1. ctl'[m.key] = u /\ \A k \in Key \ {m.key} : ctl'[k] = ctl[k]
    BY <1>1, <1>6 DEF TypeOK, ServerTypeOK
  <2> HIDE DEF u
  <2>2. QED
    BY <1>3, <1>4, <2>1 DEF Advance, GrantGrows, LocksHave
<1>7. QED
  BY <1>5, <1>6 DEF Unlock

-----------------------------------------------------------------------------
(* LeaseInv is an invariant.                                               *)

\* LeaseInv holds when nothing has been sent.
LEMMA LeaseInvInit == Init => LeaseInv
<1> SUFFICES ASSUME Init PROVE LeaseInv
  OBVIOUS
<1>1. TypeOK
  BY ServerInitType, SessionInitType DEF Init, TypeOK
<1>2. \A k \in Key : ctl[k].lock = NoLock
  BY DEF Init, ServerInit, NoControl
<1>3. \A s \in Sess : HandlesOK(s, handle[s])
  BY DEF Init, SessionInit, HandlesOK, HandleOK, NoHandle, Granted
<1>4. req = {} /\ rsp = {} /\ \A s \in Sess : state[s] = "IDLE"
  BY DEF Init, ServerInit, SessionInit
<1>5. QED
  BY <1>1, <1>2, <1>3, <1>4 DEF LeaseInv, VersionNamesData

\* A handler of the server keeps LeaseInv.
LEMMA ServerKeeps ==
    ASSUME LeaseInv, Server
    PROVE  LeaseInv'
<1> USE DEF LeaseInv
<1>1. PICK m \in req : Serve(m) /\ UNCHANGED sessionVars
  BY DEF Server
<1>2. TypeOK'
  BY ServerType
<1>3. Advance /\ GrantGrows /\ LocksHave' /\ Answered(m)
  BY <1>1, QueryKeeps, UpdateKeeps, DeleteKeeps, InsertKeeps, UnlockKeeps
     DEF Serve
<1>4. \A n \in req' : RequestOK(n)'
  BY <1>3, RequestStable DEF Answered
<1>5. \A r \in rsp' : ResponseOK(r)'
  BY <1>3, ResponseStable DEF Answered
<1>6. UNCHANGED <<state, handle, cur>>
  BY <1>1 DEF sessionVars
<1>7. ASSUME NEW s \in Sess PROVE HandlesOK(s, handle[s])'
  <2>1. handle[s] \in Handles
    BY DEF TypeOK, SessionTypeOK, Handles
  <2>2. PICK h : h = handle[s] /\ h = handle'[s]
    BY <1>6
  <2>3. HandlesOK(s, h)'
    BY <1>3, <2>1, <2>2, HandleStable
  <2>4. QED
    BY <2>2, <2>3
<1>8. \A s \in Sess : state'[s] = "UPDATE_WAIT" => IsQueryReady(handle'[s])
  BY <1>6
<1>9. VersionNamesData'
  <2> SUFFICES ASSUME NEW p \in rsp', NEW q \in rsp',
                      p.type = "query", q.type = "query",
                      p.result = "OK", q.result = "OK",
                      p.key = q.key, p.inc = q.inc, p.version = q.version
               PROVE  p.data = q.data
    BY DEF VersionNamesData
  <2>1. CASE p \in rsp /\ q \in rsp
    BY <2>1 DEF VersionNamesData
  <2>2. ASSUME NEW r \in Response, rsp' = rsp \cup {r},
               r.type = "query", r.result = "OK",
               r.inc = inc'[r.key], r.version = ctl'[r.key].version,
               r.data = data'[r.key],
               NEW x \in rsp', x.type = "query", x.result = "OK",
               x.key = r.key, x.inc = r.inc, x.version = r.version
        PROVE  x.data = r.data
    <3>1. Known(x.key, x.inc, x.version, x.data)'
      BY <1>5, <2>2 DEF ResponseOK
    <3>2. QED
      BY <2>2, <3>1 DEF Known
  <2>3. QED
    BY <1>3, <2>1, <2>2 DEF Answered
<1>10. QED
  BY <1>2, <1>3, <1>4, <1>5, <1>7, <1>8, <1>9 DEF LocksHave

\* What a session's step must keep.
SessionsOK ==
    /\ \A m \in req : RequestOK(m)
    /\ \A s \in Sess : HandlesOK(s, handle[s])
    /\ \A s \in Sess : state[s] = "UPDATE_WAIT" => IsQueryReady(handle[s])

Frozen == UNCHANGED <<ctl, data, inc, grant>>

\* While the records stay as they are, right messages and handles stay right.
LEMMA FrozenKeeps ==
    ASSUME Frozen
    PROVE  /\ \A x : RequestOK(x) => RequestOK(x)'
           /\ \A x : ResponseOK(x) => ResponseOK(x)'
           /\ \A s, h : HandlesOK(s, h) => HandlesOK(s, h)'
BY DEF Frozen, RequestOK, ResponseOK, HandlesOK, HandleOK, Known, Granted

\* A session's step that sends the requests of M and leaves h as its handles.
LEMMA SessionsKept ==
    ASSUME LeaseInv, Frozen, NEW s \in Sess, NEW h \in Handles, NEW M,
           handle' = [handle EXCEPT ![s] = h], req' = req \cup M,
           \A m \in M : RequestOK(m), HandlesOK(s, h),
           \A t \in Sess \ {s} : state'[t] = state[t],
           state'[s] = "UPDATE_WAIT" => IsQueryReady(h)
    PROVE  SessionsOK'
<1>1. \A m \in req' : RequestOK(m)'
  BY FrozenKeeps DEF LeaseInv
<1>2. handle'[s] = h /\ \A t \in Sess \ {s} : handle'[t] = handle[t]
  BY DEF LeaseInv, TypeOK, SessionTypeOK
<1>3. ASSUME NEW t \in Sess PROVE HandlesOK(t, handle[t])'
  <2>1. PICK g : g = handle'[t] /\ HandlesOK(t, g)
    BY <1>2 DEF LeaseInv
  <2>2. HandlesOK(t, g)'
    BY <2>1, FrozenKeeps
  <2>3. QED
    BY <2>1, <2>2
<1>4. \A t \in Sess : state'[t] = "UPDATE_WAIT" => IsQueryReady(handle'[t])
  BY <1>2 DEF LeaseInv
<1>5. QED
  BY <1>1, <1>3, <1>4 DEF SessionsOK

\* An unlock notify names a lock id of the session.
LEMMA FinishKeeps ==
    ASSUME LeaseInv, Frozen, NEW s \in Sess, NEW h \in Handles,
           HandlesOK(s, h), Finish(s, h)
    PROVE  SessionsOK'
<1> DEFINE M == {UnlockReq(s, h, k) : k \in ToUnlock(h)}
<1>1. ASSUME NEW m \in M PROVE RequestOK(m)
  <2>1. PICK k \in ToUnlock(h) : m = UnlockReq(s, h, k)
    OBVIOUS
  <2>2. k \in Key
    BY DEF ToUnlock, Used
  <2>3. m.type = "unlock" /\ m.from = s /\ m.key = k /\ m.lock = h[k].lock
    BY <2>1 DEF UnlockReq
  <2>4. Granted(s, k, h[k].lock)
    BY <2>2 DEF HandlesOK, HandleOK
  <2>5. QED
    BY <2>3, <2>4 DEF RequestOK
<1>2. /\ handle' = [handle EXCEPT ![s] = h] /\ req' = req \cup M
      /\ state' = [state EXCEPT ![s] = "FINISH"]
  BY DEF Finish
<1>3. state'[s] # "UPDATE_WAIT" /\ \A t \in Sess \ {s} : state'[t] = state[t]
  BY <1>2 DEF LeaseInv, TypeOK, SessionTypeOK
<1> HIDE DEF M
<1>4. QED
  BY <1>1, <1>2, <1>3, SessionsKept

\* An update names what its session knows of the record; only a session
\* whose queries are all answered sends one.
LEMMA SendKeeps ==
    ASSUME LeaseInv, Frozen, NEW s \in Sess, NEW h \in Handles,
           NEW k \in Key, NEW op \in {"update", "insert", "delete"},
           HandlesOK(s, h),
           op = "update" => h[k].used /\ IsQueryReady(h),
           Send(op, s, h, k)
    PROVE  SessionsOK'
<1> DEFINE g == AfterSend(op, h, k)
<1>1. PICK m : m = OpReq(op, s, h, k)
  OBVIOUS
<1>2. HandleOK(s, k, h[k])
  BY DEF HandlesOK
<1>3. RequestOK(m)
  <2>1. CASE op = "update"
    <3>1. /\ m.type = "update" /\ m.from = s /\ m.key = k /\ m.inc = h[k].inc
          /\ m.version = h[k].version /\ m.base = h[k].data
          /\ m.lock = h[k].lock
      BY <1>1, <2>1 DEF OpReq, UpdateReq
    <3>2. h[k].finish
      BY <2>1 DEF IsQueryReady, Used
    <3>3. QED
      BY <1>2, <3>1, <3>2 DEF RequestOK, HandleOK
  <2>2. CASE op # "update"
    <3>1. m.type = op
      BY <1>1, <2>2 DEF OpReq, BareReq
    <3>2. QED
      BY <2>2, <3>1 DEF RequestOK
  <2>3. QED
    BY <2>1, <2>2
<1>4. g \in Handles
  BY AfterSendType
<1>5. /\ \A j \in Key : /\ g[j].finish = h[j].finish /\ g[j].used = h[j].used
                       /\ g[j].version = h[j].version
                       /\ g[j].data = h[j].data /\ g[j].inc = h[j].inc
                       /\ g[j].lock \in {h[j].lock, NoLock}
  BY DEF AfterSend, Handles, DBHandle
<1>6. HandlesOK(s, g)
  BY <1>5 DEF HandlesOK, HandleOK, Granted
<1>7. IsQueryReady(h) => IsQueryReady(g)
  BY <1>5 DEF IsQueryReady, Used
<1>8. /\ handle' = [handle EXCEPT ![s] = g] /\ req' = req \cup {m}
      /\ state' = [state EXCEPT ![s] = WaitState(op)]
  BY <1>1 DEF Send
<1>9. WaitState(op) = "UPDATE_WAIT" => op = "update"
  BY DEF WaitState
<1>10. /\ state'[s] = "UPDATE_WAIT" => IsQueryReady(g)
       /\ \A t \in Sess \ {s} : state'[t] = state[t]
  BY <1>7, <1>8, <1>9 DEF LeaseInv, TypeOK, SessionTypeOK
<1> HIDE DEF g
<1>11. PICK M : M = {m}
  OBVIOUS
<1>12. req' = req \cup M /\ \A n \in M : RequestOK(n)
  BY <1>3, <1>8, <1>11
<1>13. QED
  BY <1>4, <1>6, <1>8, <1>10, <1>12, SessionsKept

\* Going on with the next handle keeps what sessions know right.
LEMMA ProceedKeeps ==
    ASSUME LeaseInv, Frozen, NEW s \in Sess, NEW h \in Handles,
           HandlesOK(s, h), IsQueryReady(h), Proceed(s, h)
    PROVE  SessionsOK'
<1>1. Used(h) \subseteq Key /\ \A k \in Used(h) : h[k].used
  BY DEF Used
<1>2. Ops \subseteq {"update", "insert", "delete"}
  BY SessionAssumption
<1>3. CASE Finish(s, h)
  BY <1>3, FinishKeeps
<1>4. CASE \E k \in Used(h), op \in Ops : ~h[k].done /\ Send(op, s, h, k)
  BY <1>1, <1>2, <1>4, SendKeeps
<1>5. QED
  BY <1>3, <1>4 DEF Proceed

\* A client request that asks for records knows nothing of them yet.
LEMMA QueryRequestKeeps ==
    ASSUME LeaseInv, NEW s \in Sess, QueryRequest(s)
    PROVE  SessionsOK'
<1>1. PICK K \in SUBSET Key, L \in SUBSET Key :
         /\ handle' = [handle EXCEPT ![s] = Asked(K, L)]
         /\ req' = req \cup {QueryReq(s, Asked(K, L), k) : k \in K}
  BY DEF QueryRequest
<1> DEFINE M == {QueryReq(s, Asked(K, L), k) : k \in K}
<1>2. \A m \in M : m.type = "query" /\ m.version = NoVersion
  BY DEF QueryReq
<1>3. \A m \in M : RequestOK(m)
  BY <1>2 DEF RequestOK
<1>4. Asked(K, L) \in Handles
  BY AskedType
<1>5. HandlesOK(s, Asked(K, L))
  BY DEF HandlesOK, HandleOK, Asked, AddQueryDataAndLock, AddQueryData,
         NoHandle, Granted
<1>6. Frozen /\ state' = [state EXCEPT ![s] = "QUERY_WAIT"]
  BY DEF QueryRequest, Frozen
<1>7. state'[s] # "UPDATE_WAIT" /\ \A t \in Sess \ {s} : state'[t] = state[t]
  BY <1>6 DEF LeaseInv, TypeOK, SessionTypeOK
<1> HIDE DEF M
<1>8. req' = req \cup M
  BY <1>1 DEF M
<1>9. QED
  BY <1>1, <1>3, <1>4, <1>5, <1>6, <1>7, <1>8, SessionsKept

\* A client request served without a query knows nothing either.
LEMMA DirectRequestKeeps ==
    ASSUME LeaseInv, NEW s \in Sess, DirectRequest(s)
    PROVE  SessionsOK'
<1>1. PICK k \in Key, op \in Ops \ {"update"} :
         Send(op, s, [handle[s] EXCEPT ![k].used = TRUE], k)
  BY DEF DirectRequest
<1> DEFINE h == [handle[s] EXCEPT ![k].used = TRUE]
<1>2. op \in {"update", "insert", "delete"} /\ op # "update"
  BY SessionAssumption
<1>3. h \in Handles
  BY UsedType DEF LeaseInv
<1>4. \A j \in Key : /\ h[j].finish = handle[s][j].finish
                    /\ h[j].version = handle[s][j].version
                    /\ h[j].data = handle[s][j].data
                    /\ h[j].inc = handle[s][j].inc
                    /\ h[j].lock = handle[s][j].lock
  BY DEF LeaseInv, TypeOK, SessionTypeOK, DBHandle
<1>5. HandlesOK(s, handle[s])
  BY DEF LeaseInv
<1>6. HandlesOK(s, h)
  BY <1>4, <1>5 DEF HandlesOK, HandleOK
<1>7. Frozen
  BY DEF DirectRequest, Frozen
<1> HIDE DEF h
<1>8. QED
  BY <1>1, <1>2, <1>3, <1>6, <1>7, SendKeeps DEF h

\* A response: its session learns what the server knew when it answered.
LEMMA ServerResponseKeeps ==
    ASSUME LeaseInv, NEW r \in rsp, ServerResponse(r)
    PROVE  SessionsOK'
<1> DEFINE s == r.to
           h == Filled(handle[s], r)
<1>1. s \in Sess /\ r \in Response
  BY DEF LeaseInv, TypeOK, ServerTypeOK, Response
<1>2. handle[s] \in Handles /\ HandlesOK(s, handle[s])
  BY <1>1 DEF LeaseInv, TypeOK, SessionTypeOK, Handles
<1>3. Frozen
  BY DEF ServerResponse, Frozen
<1>4. ASSUME QueryMessage(s, r), r.result = "OK"
      PROVE  h \in Handles /\ HandlesOK(s, h)
  <2>1. r.type = "query"
    BY <1>4 DEF QueryMessage
  <2>2. h \in Handles
    BY <1>1, <1>2, <2>1, FilledType
  <2>3. Known(r.key, r.inc, r.version, r.data) /\ Granted(s, r.key, r.lock)
    BY <1>4, <2>1 DEF LeaseInv, ResponseOK
  <2>4. /\ h[r.key].version = r.version /\ h[r.key].data = r.data
        /\ h[r.key].inc = r.inc
        /\ h[r.key].lock \in {handle[s][r.key].lock, r.lock}
    <3>1. r.key \in Key
      BY <1>1 DEF Response
    <3>2. QED
      BY <1>2, <3>1 DEF Filled, Handles, DBHandle
  <2>5. \A k \in Key \ {r.key} : h[k] = handle[s][k]
    BY <1>2 DEF Filled, Handles
  <2>6. QED
    BY <1>2, <2>2, <2>3, <2>4, <2>5 DEF HandlesOK, HandleOK
<1>5. CASE QueryMessage(s, r)
  <2>1. CASE r.result # "OK" /\ Finish(s, handle[s])
    BY <1>1, <1>2, <1>3, <2>1, FinishKeeps
  <2>2. CASE r.result = "OK" /\ Finish(s, h)
    BY <1>1, <1>3, <1>4, <1>5, <2>2, FinishKeeps
  <2>3. CASE r.result = "OK" /\ IsQueryReady(h) /\ Proceed(s, h)
    BY <1>1, <1>3, <1>4, <1>5, <2>3, ProceedKeeps
  <2>4. CASE /\ r.result = "OK" /\ handle' = [handle EXCEPT ![s] = h]
             /\ UNCHANGED <<state, cur, req>>
    <3>1. state[s] # "UPDATE_WAIT"
      BY <1>5 DEF QueryMessage
    <3> HIDE DEF h
    <3>2. PICK M : M = {}
      OBVIOUS
    <3>3. req' = req \cup M /\ \A m \in M : RequestOK(m)
      BY <2>4, <3>2
    <3>4. QED
      BY <1>1, <1>3, <1>4, <1>5, <2>4, <3>1, <3>3, SessionsKept
  <2>5. QED
    BY <1>5, <2>1, <2>2, <2>3, <2>4 DEF QueryMessage
<1>6. CASE OpMessage(s, r)
  <2>1. CASE state[s] = "UPDATE_WAIT" /\ Proceed(s, handle[s])
    BY <1>1, <1>2, <1>3, <2>1, ProceedKeeps DEF LeaseInv
  <2>2. CASE Finish(s, handle[s])
    BY <1>1, <1>2, <1>3, <2>2, FinishKeeps
  <2>3. QED
    BY <1>6, <2>1, <2>2 DEF OpMessage
<1>7. CASE LateMessage(s)
  <2>1. UNCHANGED <<state, handle, req>>
    BY <1>7 DEF LateMessage
  <2>2. QED
    BY <1>3, <2>1, FrozenKeeps DEF LeaseInv, SessionsOK, Frozen, RequestOK,
       HandlesOK, HandleOK, Known, Granted, IsQueryReady, Used
<1>8. QED
  BY <1>5, <1>6, <1>7 DEF ServerResponse

\* A step of a session keeps LeaseInv.
LEMMA SessionKeeps ==
    ASSUME LeaseInv, Session
    PROVE  LeaseInv'
<1>1. SessionsOK'
  <2>1. ASSUME NEW s \in Sess, WaitResponseTimeout(s) PROVE SessionsOK'
    <3>1. handle[s] \in Handles /\ HandlesOK(s, handle[s])
      BY DEF LeaseInv, TypeOK, SessionTypeOK, Handles
    <3>2. Frozen /\ Finish(s, handle[s])
      BY <2>1 DEF WaitResponseTimeout, Frozen
    <3>3. QED
      BY <3>1, <3>2, FinishKeeps
  <2>2. QED
    BY <2>1, QueryRequestKeeps, DirectRequestKeeps, ServerResponseKeeps
       DEF Session
<1>2. TypeOK'
  BY StepType DEF LeaseInv, Next
<1>3. Frozen /\ rsp' \subseteq rsp
  BY DEF Session, QueryRequest, DirectRequest, WaitResponseTimeout,
         ServerResponse, Frozen
<1>4. \A r \in rsp' : ResponseOK(r)'
  BY <1>3, FrozenKeeps DEF LeaseInv
<1>5. VersionNamesData'
  BY <1>3 DEF LeaseInv, VersionNamesData
<1>6. \A k \in Key : ctl'[k].lock # NoLock => ctl'[k].has
  BY <1>3 DEF LeaseInv, Frozen
<1>7. QED
  BY <1>1, <1>2, <1>4, <1>5, <1>6 DEF LeaseInv, SessionsOK

\* LeaseInv is inductive.
LEMMA LeaseInvStep ==
    ASSUME LeaseInv, [Next]_vars
    PROVE  LeaseInv'
<1>1. CASE Server
  BY <1>1, ServerKeeps
<1>2. CASE Session
  BY <1>2, SessionKeeps
<1>3. CASE Time \/ UNCHANGED vars
  <2>1. TypeOK'
    BY StepType DEF LeaseInv
  <2>2. UNCHANGED <<ctl, data, req, rsp, grant, inc, state, handle>>
    BY <1>3 DEF Time, Tick, vars, serverVars, sessionVars
  <2>3. QED
    BY <2>1, <2>2 DEF LeaseInv, RequestOK, ResponseOK, HandlesOK, HandleOK,
       Known, Granted, IsQueryReady, Used, VersionNamesData
<1>4. QED
  BY <1>1, <1>2, <1>3 DEF Next, Done

\* LeaseInv holds in every reachable state.
LEMMA LeaseInvariant == Spec => []LeaseInv
<1>1. QED
  BY LeaseInvInit, LeaseInvStep, PTL DEF Spec

-----------------------------------------------------------------------------
\* A version names a value: two reads of one incarnation of a record that
\* report the same version report the same data.
THEOREM ReadsAgree == Spec => []VersionNamesData
<1>1. LeaseInv => VersionNamesData
  BY DEF LeaseInv
<1>2. QED
  BY <1>1, LeaseInvariant, PTL

\* An update that is applied replaces the value its session read.
LEMMA UpdateSafe ==
    ASSUME LeaseInv, [Next]_vars, NEW m \in req, m.type = "update",
           m \notin req', ctl'[m.key].version # ctl[m.key].version,
           m.inc = inc[m.key]
    PROVE  m.base = data[m.key]
<1>1. m.key \in Key
  BY DEF LeaseInv, TypeOK, ServerTypeOK, Request
<1>2. Server
  BY DEF Next, Session, QueryRequest, DirectRequest, WaitResponseTimeout,
         ServerResponse, Time, Tick, Done, vars, serverVars
<1>3. PICK n \in req : Serve(n)
  BY <1>2 DEF Server
<1>4. req' = req \ {n}
  BY <1>3, QueryKeeps, UpdateKeeps, DeleteKeeps, InsertKeeps, UnlockKeeps
     DEF Serve, Answered
<1>5. m = n
  BY <1>4
<1>6. Update(m)
  BY <1>3, <1>5 DEF Serve, Query, Delete, Insert, Unlock
<1> DEFINE c == UpdateTimeoutLock(ctl[m.key])
<1>7. c.version = ctl[m.key].version
  BY <1>1, TimeoutKeeps DEF LeaseInv, TypeOK, ServerTypeOK
<1>8. UpdateCheck(m, c) = "OK"
  BY <1>6 DEF Update
<1>9. m.version = ctl[m.key].version
  BY <1>7, <1>8 DEF UpdateCheck
<1>10. Known(m.key, m.inc, m.version, m.base)
  BY DEF LeaseInv, RequestOK
<1>11. QED
  BY <1>9, <1>10 DEF Known

\* No update is lost: when one is applied, the record still holds what its
\* session read, whatever expired, collided or was lost in between.
THEOREM UpdatesNotLost == Spec => NoLostUpdate
<1>1. LeaseInv /\ [Next]_vars =>
        [\A m \in req :
            ( /\ m.type = "update" /\ m \notin req'
              /\ ctl'[m.key].version # ctl[m.key].version
              /\ m.inc = inc[m.key] )
            => m.base = data[m.key]]_vars
  BY UpdateSafe
<1>2. QED
  BY <1>1, LeaseInvariant, PTL DEF Spec, NoLostUpdate

\* Who may change a record whose lock is in force.
MayChange(m, k) ==
    /\ m.key = k
    /\ \/ m.type = "delete"
       \/ m.type = "insert" /\ DbMayFail
       \/ <<m.from, k>> \in grant[ctl[k].lock]

\* A request that changes a record whose lock is in force may do so: a query
\* is refused; an update or an unlock names the lock, so it was drawn for
\* its sender; an insert does not see the control record.
LEMMA ChangeAllowed ==
    ASSUME LeaseInv, NEW m \in req, Serve(m), NEW k \in Key, InForce(k),
           ctl'[k] # ctl[k] \/ data'[k] # data[k]
    PROVE  MayChange(m, k)
<1> USE DEF LeaseInv
<1> DEFINE c == UpdateTimeoutLock(ctl[m.key])
<1>1. m.key \in Key /\ ctl[m.key] \in Control
  BY DEF TypeOK, ServerTypeOK, Request
<1>2. m.key = k
  <2>1. \A j \in Key \ {m.key} : ctl'[j] = ctl[j] /\ data'[j] = data[j]
    BY DEF Serve, Query, QueryFails, QueryRefused, QueryLocks, QueryReads,
           Update, Delete, Insert, Unlock, TypeOK, ServerTypeOK
  <2>2. QED BY <2>1
<1>3. ctl[k].lock # NoLock /\ ctl[k].has /\ ~Expired(ctl[k])
  BY <1>1, <1>2, ConstantsAssumption
     DEF InForce, Expired, TypeOK, ServerTypeOK, Control
<1>4. c = ctl[k]
  BY <1>1, <1>2, <1>3, TimeoutKeeps
<1>5. CASE Query(m)
  <2>1. ~QueryLocks(m)
    BY <1>3, <1>4 DEF QueryLocks, MayLock
  <2>2. UNCHANGED <<ctl, data>>
    BY <1>5, <2>1 DEF Query, QueryFails, QueryRefused, QueryReads
  <2>3. QED BY <2>2
<1>6. CASE Update(m)
  <2>1. UpdateCheck(m, c) = "OK" /\ m.type = "update"
    BY <1>6 DEF Update
  <2>2. m.lock = ctl[k].lock
    BY <1>4, <2>1 DEF UpdateCheck
  <2>3. Granted(m.from, m.key, m.lock)
    BY <2>1 DEF RequestOK
  <2>4. QED
    BY <1>2, <1>3, <2>2, <2>3 DEF Granted, MayChange
<1>7. CASE Delete(m)
  BY <1>2, <1>7 DEF Delete, MayChange
<1>8. CASE Insert(m)
  <2>1. PICK readable \in DbOutcome : ~Has(m.key, readable)
    BY <1>8 DEF Insert
  <2>2. DbMayFail
    BY <1>2, <1>3, <2>1 DEF Has, DbOutcome
  <2>3. QED
    BY <1>2, <1>8, <2>2 DEF Insert, MayChange
<1>9. CASE Unlock(m)
  <2>1. OwnLock(m, c) /\ m.type = "unlock"
    BY <1>9 DEF Unlock
  <2>2. m.lock = ctl[k].lock
    BY <1>4, <2>1 DEF OwnLock
  <2>3. Granted(m.from, m.key, m.lock)
    BY <2>1 DEF RequestOK
  <2>4. QED
    BY <1>2, <1>3, <2>2, <2>3 DEF Granted, MayChange
<1>10. QED
  BY <1>5, <1>6, <1>7, <1>8, <1>9 DEF Serve

\* No step changes a record under a lock in force without permission.
LEMMA ExclusiveStep ==
    ASSUME LeaseInv, [Next]_vars, NEW k \in Key, InForce(k),
           ctl'[k] # ctl[k] \/ data'[k] # data[k]
    PROVE  \E m \in req \ req' : MayChange(m, k)
<1>1. Server
  BY DEF Next, Session, QueryRequest, DirectRequest, WaitResponseTimeout,
         ServerResponse, Time, Tick, Done, vars, serverVars
<1>2. PICK m \in req : Serve(m)
  BY <1>1 DEF Server
<1>3. req' = req \ {m}
  BY <1>2, QueryKeeps, UpdateKeeps, DeleteKeeps, InsertKeeps, UnlockKeeps
     DEF Serve, Answered
<1>4. QED
  BY <1>2, <1>3, ChangeAllowed

\* The lock is a lease: while it is in force, its record changes only by a
\* request of a session its id was drawn for, by a delete, or by an insert
\* that could not read the control record.
THEOREM LockExcludes == Spec => LeaseExclusive
<1>1. LeaseInv /\ [Next]_vars =>
        [\A k \in Key :
            InForce(k) /\ (ctl'[k] # ctl[k] \/ data'[k] # data[k])
            => \E m \in req \ req' :
                  /\ m.key = k
                  /\ \/ m.type = "delete"
                     \/ m.type = "insert" /\ DbMayFail
                     \/ <<m.from, k>> \in grant[ctl[k].lock]]_vars
  BY ExclusiveStep DEF MayChange
<1>2. QED
  BY <1>1, LeaseInvariant, PTL DEF Spec, LeaseExclusive

-----------------------------------------------------------------------------
(* The holder is not refused: while a lock id stays in its record, so does *)
(* the version that was read with it.                                      *)

\* Whoever has lock id l from reading version v of record k, incarnation i:
\* if the record is still locked with it, it still has that version.
Holds(k, i, v, l) ==
    l # NoLock => /\ grant[l] # {}
                  /\ (i = inc[k] /\ ctl[k].lock = l) => v = ctl[k].version

HolderRequest(m) ==
    m.type = "update" => Holds(m.key, m.inc, m.version, m.lock)

HolderResponse(r) ==
    r.type = "query" /\ r.result = "OK" =>
        Holds(r.key, r.inc, r.version, r.lock)

\* A handle without its answer has no lock id.
HolderHandle(k, h) == IF h.finish THEN Holds(k, h.inc, h.version, h.lock)
                                  ELSE h.lock = NoLock

HolderHandles(h) == \A k \in Key : HolderHandle(k, h[k])

HolderInv ==
    /\ LeaseInv
    /\ FitInv
    /\ \A m \in req : HolderRequest(m)
    /\ \A r \in rsp : HolderResponse(r)
    /\ \A s \in Sess : HolderHandles(handle[s])

\* A lock id that has been drawn is in a record only if it was there before,
\* and then with the version it had.
LockStays ==
    \A k \in Key, l \in LockIds :
        (inc'[k] = inc[k] /\ grant[l] # {} /\ ctl'[k].lock = l)
        => ctl[k].lock = l /\ ctl'[k].version = ctl[k].version

\* So what was read with the lock stays what the record has.
LEMMA HoldsStable ==
    ASSUME TypeOK, Advance, GrantGrows, LockStays,
           NEW k \in Key, NEW i \in Nat, NEW v, NEW l \in LockId,
           i <= inc[k], Holds(k, i, v, l)
    PROVE  Holds(k, i, v, l)'
<1>1. inc[k] \in Nat /\ inc'[k] \in {inc[k], inc[k] + 1}
  BY DEF TypeOK, ServerTypeOK, Advance
<1>2. i = inc'[k] => inc'[k] = inc[k]
  BY <1>1
<1>3. l # NoLock => l \in LockIds /\ grant'[l] # {}
  BY DEF LockId, Holds, GrantGrows
<1>4. QED
  BY <1>2, <1>3 DEF Holds, LockStays

\* With distinct draws a handler puts no drawn id into a record, and changes
\* the version of a record only with its lock.
LEMMA ServeLocks ==
    ASSUME LeaseInv, DrawsDistinct, NEW m \in req, Serve(m)
    PROVE  LockStays
<1> USE DEF LeaseInv
<1> DEFINE c == UpdateTimeoutLock(ctl[m.key])
<1>1. m.key \in Key
  BY DEF TypeOK, ServerTypeOK, Request
<1>2. ctl[m.key] \in Control /\ c \in Control /\ c.version = ctl[m.key].version
  BY <1>1, TimeoutKeeps DEF TypeOK, ServerTypeOK
<1>3. NoLock \notin LockIds
  BY DEF NoLock, LockIds
<1>4. CASE UNCHANGED ctl
  BY <1>4 DEF LockStays
<1>5. ASSUME \A k \in Key \ {m.key} : ctl'[k] = ctl[k],
             ctl'[m.key].lock \notin LockIds
      PROVE  LockStays
  BY <1>5 DEF LockStays
<1>6. ASSUME \A k \in Key \ {m.key} : ctl'[k] = ctl[k],
             inc'[m.key] = inc[m.key] + 1
      PROVE  LockStays
  <2>1. inc'[m.key] # inc[m.key]
    BY <1>1, <1>6 DEF TypeOK, ServerTypeOK
  <2>2. QED
    BY <1>6, <2>1 DEF LockStays
<1>7. \A k \in Key \ {m.key} : ctl'[k] = ctl[k]
  BY DEF Serve, Query, QueryFails, QueryRefused, QueryLocks, QueryReads,
         Update, Delete, Insert, Unlock, TypeOK, ServerTypeOK
<1>8. CASE Query(m)
  <2>1. CASE QueryLocks(m)
    <3>1. PICK id \in Drawable :
             \/ ctl' = [ctl EXCEPT ![m.key] =
                           [c EXCEPT !.has = TRUE, !.lock = id,
                                     !.lockTime = clock]]
             \/ UNCHANGED ctl
      BY <2>1 DEF QueryLocks
    <3>2. grant[id] = {}
      BY DEF Drawable
    <3>3. CASE ctl' = [ctl EXCEPT ![m.key] =
                           [c EXCEPT !.has = TRUE, !.lock = id,
                                     !.lockTime = clock]]
      <4>1. ctl'[m.key].lock = id
        BY <1>1, <1>2, <3>3 DEF TypeOK, ServerTypeOK, Control
      <4>2. QED
        BY <1>7, <3>2, <4>1 DEF LockStays
    <3>4. QED
      BY <1>4, <3>1, <3>3
  <2>2. QED
    BY <1>4, <1>8, <2>1 DEF Query, QueryFails, QueryRefused, QueryReads
<1>9. CASE Update(m)
  <2>1. ctl' = [ctl EXCEPT ![m.key] = Updated(c)] \/ UNCHANGED ctl
    BY <1>9 DEF Update
  <2>2. Updated(c).lock = NoLock
    BY DEF Updated, NoControl
  <2>3. QED
    BY <1>1, <1>3, <1>4, <1>5, <1>7, <2>1, <2>2 DEF TypeOK, ServerTypeOK
<1>10. CASE Delete(m)
  <2>1. inc'[m.key] = inc[m.key] + 1
    BY <1>1, <1>10 DEF Delete, TypeOK, ServerTypeOK
  <2>2. QED
    BY <1>6, <1>7, <2>1
<1>11. CASE Insert(m)
  <2>1. inc'[m.key] = inc[m.key] + 1 \/ UNCHANGED ctl
    BY <1>1, <1>11 DEF Insert, TypeOK, ServerTypeOK
  <2>2. QED
    BY <1>4, <1>6, <1>7, <2>1
<1>12. CASE Unlock(m)
  <2>1. \/ ctl' = [ctl EXCEPT ![m.key] =
                      [c EXCEPT !.has = TRUE, !.lock = NoLock, !.lockTime = 0]]
        \/ UNCHANGED ctl
    BY <1>12 DEF Unlock
  <2>2. [c EXCEPT !.has = TRUE, !.lock = NoLock, !.lockTime = 0].lock = NoLock
    BY <1>2 DEF Control
  <2>3. QED
    BY <1>1, <1>3, <1>4, <1>5, <1>7, <2>1, <2>2 DEF TypeOK, ServerTypeOK
<1>13. QED
  BY <1>8, <1>9, <1>10, <1>11, <1>12 DEF Serve

\* A handler of the server keeps HolderInv.
LEMMA ServerHolds ==
    ASSUME HolderInv, DrawsDistinct, Server
    PROVE  HolderInv'
<1> USE DEF HolderInv
<1>1. PICK m \in req : Serve(m) /\ UNCHANGED sessionVars
  BY DEF Server
<1>2. LeaseInv' /\ FitInv'
  BY ServerKeeps, ServerFits
<1>3. TypeOK /\ Advance /\ GrantGrows /\ Answered(m) /\ LockStays
  BY <1>1, QueryKeeps, UpdateKeeps, DeleteKeeps, InsertKeeps, UnlockKeeps,
     ServeLocks DEF Serve, LeaseInv
<1>4. ASSUME NEW n \in req' PROVE HolderRequest(n)'
  <2>1. n \in req /\ n \in Request
    BY <1>3 DEF Answered, TypeOK, ServerTypeOK
  <2>2. CASE n.type = "update"
    <3>1. n.key \in Key /\ n.inc \in Nat /\ n.lock \in LockId
      BY <2>1, <2>2 DEF Request
    <3>2. n.inc <= inc[n.key]
      BY <2>1, <2>2 DEF LeaseInv, RequestOK, Known
    <3>3. Holds(n.key, n.inc, n.version, n.lock)'
      BY <1>3, <2>1, <2>2, <3>1, <3>2, HoldsStable DEF HolderRequest
    <3>4. QED
      BY <3>3 DEF HolderRequest
  <2>3. QED
    BY <2>2 DEF HolderRequest
<1>5. ASSUME NEW r \in rsp' PROVE HolderResponse(r)'
  <2>1. CASE r \in rsp /\ r.type = "query" /\ r.result = "OK"
    <3>1. r.key \in Key /\ r.inc \in Nat /\ r.lock \in LockId
      BY <1>3, <2>1 DEF TypeOK, ServerTypeOK, Response
    <3>2. r.inc <= inc[r.key]
      BY <2>1 DEF LeaseInv, ResponseOK, Known
    <3>3. Holds(r.key, r.inc, r.version, r.lock)'
      BY <1>3, <2>1, <3>1, <3>2, HoldsStable DEF HolderResponse
    <3>4. QED
      BY <3>3 DEF HolderResponse
  <2>2. CASE r \notin rsp /\ r.type = "query" /\ r.result = "OK"
    <3>1. r.version = ctl'[r.key].version
      BY <1>3, <2>2 DEF Answered
    <3>2. Granted(r.to, r.key, r.lock)'
      BY <1>2, <2>2 DEF LeaseInv, ResponseOK
    <3>3. QED
      BY <3>1, <3>2 DEF Granted, HolderResponse, Holds
  <2>3. QED
    BY <2>1, <2>2 DEF HolderResponse
<1>6. ASSUME NEW s \in Sess PROVE HolderHandles(handle[s])'
  <2> SUFFICES ASSUME NEW k \in Key PROVE HolderHandle(k, handle[s][k])'
    BY DEF HolderHandles
  <2>1. PICK h : h = handle[s][k] /\ h = handle'[s][k]
    BY <1>1 DEF sessionVars
  <2>2. h \in DBHandle /\ HolderHandle(k, h)
    <3>1. HolderHandles(handle[s]) /\ handle[s] \in [Key -> DBHandle]
      BY <1>3 DEF TypeOK, SessionTypeOK
    <3>2. QED
      BY <2>1, <3>1 DEF HolderHandles
  <2>3. CASE h.finish
    <3>1. h.inc \in Nat /\ h.lock \in LockId
      BY <2>2 DEF DBHandle
    <3>2. h.inc <= inc[k]
      BY <2>1, <2>3 DEF LeaseInv, HandlesOK, HandleOK, Known
    <3>3. Holds(k, h.inc, h.version, h.lock)'
      BY <1>3, <2>2, <2>3, <3>1, <3>2, HoldsStable DEF HolderHandle
    <3>4. QED
      BY <2>1, <2>3, <3>3 DEF HolderHandle
  <2>4. CASE ~h.finish
    BY <2>1, <2>2, <2>4 DEF HolderHandle
  <2>5. QED
    BY <2>3, <2>4
<1>7. QED
  BY <1>2, <1>4, <1>5, <1>6

\* While the records stay as they are, what is held stays right.
LEMMA FrozenHolds ==
    ASSUME Frozen
    PROVE  /\ \A x : HolderRequest(x) => HolderRequest(x)'
           /\ \A x : HolderResponse(x) => HolderResponse(x)'
           /\ \A h : HolderHandles(h) => HolderHandles(h)'
BY DEF Frozen, HolderRequest, HolderResponse, HolderHandles, HolderHandle,
       Holds

\* A session's step keeps this: what it sends, and its handles, say of a
\* lock id what its answer said.
HoldingsOK ==
    /\ \A m \in req : HolderRequest(m)
    /\ \A s \in Sess : HolderHandles(handle[s])

LEMMA HoldingsKept ==
    ASSUME HolderInv, Frozen, NEW s \in Sess, NEW h \in Handles, NEW M,
           handle' = [handle EXCEPT ![s] = h], req' = req \cup M,
           \A m \in M : HolderRequest(m), HolderHandles(h)
    PROVE  HoldingsOK'
<1>1. \A m \in req' : HolderRequest(m)'
  BY FrozenHolds DEF HolderInv
<1>2. handle'[s] = h /\ \A t \in Sess \ {s} : handle'[t] = handle[t]
  BY DEF HolderInv, LeaseInv, TypeOK, SessionTypeOK
<1>3. ASSUME NEW t \in Sess PROVE HolderHandles(handle[t])'
  <2>1. PICK g : g = handle'[t] /\ HolderHandles(g)
    BY <1>2 DEF HolderInv
  <2>2. HolderHandles(g)'
    BY <2>1, FrozenHolds
  <2>3. QED
    BY <2>1, <2>2
<1>4. QED
  BY <1>1, <1>3 DEF HoldingsOK

\* Unlock notifies name no version.
LEMMA FinishHolds ==
    ASSUME HolderInv, Frozen, NEW s \in Sess, NEW h \in Handles,
           HolderHandles(h), Finish(s, h)
    PROVE  HoldingsOK'
<1>1. PICK M : M = {UnlockReq(s, h, k) : k \in ToUnlock(h)}
  OBVIOUS
<1>2. \A m \in M : HolderRequest(m)
  BY <1>1 DEF UnlockReq, HolderRequest
<1>3. QED
  BY <1>1, <1>2, HoldingsKept DEF Finish

\* An update names the version and the lock id of its handle, which then has
\* no lock id any more.
LEMMA SendHolds ==
    ASSUME HolderInv, Frozen, NEW s \in Sess, NEW h \in Handles,
           NEW k \in Key, NEW op \in {"update", "insert", "delete"},
           HolderHandles(h), op = "update" => h[k].finish,
           Send(op, s, h, k)
    PROVE  HoldingsOK'
<1>1. PICK g : g = AfterSend(op, h, k)
  OBVIOUS
<1>2. PICK M : M = {OpReq(op, s, h, k)}
  OBVIOUS
<1>3. \A m \in M : HolderRequest(m)
  BY <1>2 DEF OpReq, UpdateReq, BareReq, HolderRequest, HolderHandles,
     HolderHandle
<1>4. g \in Handles
  BY <1>1, AfterSendType
<1>5. \A j \in Key : /\ g[j].finish = h[j].finish /\ g[j].inc = h[j].inc
                    /\ g[j].version = h[j].version
                    /\ g[j].lock \in {h[j].lock, NoLock}
  BY <1>1 DEF AfterSend, Handles, DBHandle
<1>6. HolderHandles(g)
  BY <1>5 DEF HolderHandles, HolderHandle, Holds
<1>7. QED
  BY <1>1, <1>2, <1>3, <1>4, <1>6, HoldingsKept DEF Send

LEMMA ProceedHolds ==
    ASSUME HolderInv, Frozen, NEW s \in Sess, NEW h \in Handles,
           HolderHandles(h), IsQueryReady(h), Proceed(s, h)
    PROVE  HoldingsOK'
<1>1. Used(h) \subseteq Key /\ Ops \subseteq {"update", "insert", "delete"}
  BY SessionAssumption DEF Used
<1>2. \A k \in Used(h) : h[k].finish
  BY DEF IsQueryReady
<1>3. CASE Finish(s, h)
  BY <1>3, FinishHolds
<1>4. CASE \E k \in Used(h), op \in Ops : ~h[k].done /\ Send(op, s, h, k)
  BY <1>1, <1>2, <1>4, SendHolds
<1>5. QED
  BY <1>3, <1>4 DEF Proceed

\* A session that starts holds nothing.
LEMMA RequestHolds ==
    ASSUME HolderInv, NEW s \in Sess, QueryRequest(s) \/ DirectRequest(s)
    PROVE  HoldingsOK'
<1>1. Frozen
  BY DEF QueryRequest, DirectRequest, Frozen
<1>2. CASE QueryRequest(s)
  <2>1. PICK K \in SUBSET Key, L \in SUBSET Key :
           /\ handle' = [handle EXCEPT ![s] = Asked(K, L)]
           /\ req' = req \cup {QueryReq(s, Asked(K, L), k) : k \in K}
    BY <1>2 DEF QueryRequest
  <2>2. PICK M : M = {QueryReq(s, Asked(K, L), k) : k \in K}
    OBVIOUS
  <2>3. \A m \in M : HolderRequest(m)
    BY <2>2 DEF QueryReq, HolderRequest
  <2>4. Asked(K, L) \in Handles
    BY AskedType
  <2>5. HolderHandles(Asked(K, L))
    BY DEF HolderHandles, HolderHandle, Asked, AddQueryDataAndLock,
       AddQueryData, NoHandle
  <2>6. QED
    BY <1>1, <2>1, <2>2, <2>3, <2>4, <2>5, HoldingsKept
<1>3. CASE DirectRequest(s)
  <2>1. PICK k \in Key, op \in Ops \ {"update"} :
           Send(op, s, [handle[s] EXCEPT ![k].used = TRUE], k)
    BY <1>3 DEF DirectRequest
  <2>2. op \in {"update", "insert", "delete"} /\ op # "update"
    BY SessionAssumption
  <2>3. PICK h : h = [handle[s] EXCEPT ![k].used = TRUE]
    OBVIOUS
  <2>4. h \in Handles
    BY <2>3, UsedType DEF HolderInv, LeaseInv
  <2>5. \A j \in Key : /\ h[j].finish = handle[s][j].finish
                      /\ h[j].version = handle[s][j].version
                      /\ h[j].inc = handle[s][j].inc
                      /\ h[j].lock = handle[s][j].lock
    BY <2>3 DEF HolderInv, LeaseInv, TypeOK, SessionTypeOK, DBHandle
  <2>6. HolderHandles(handle[s])
    BY DEF HolderInv
  <2>7. HolderHandles(h)
    BY <2>5, <2>6 DEF HolderHandles, HolderHandle
  <2>8. QED
    BY <1>1, <2>1, <2>2, <2>3, <2>4, <2>7, SendHolds
<1>4. QED
  BY <1>2, <1>3

\* An answer fills a handle that had none, so version and lock id of a
\* handle come from the same answer.
LEMMA ServerResponseHolds ==
    ASSUME HolderInv, NEW r \in rsp, ServerResponse(r)
    PROVE  HoldingsOK'
<1>1. PICK s : s = r.to
  OBVIOUS
<1>2. PICK h : h = Filled(handle[s], r)
  OBVIOUS
<1>3. s \in Sess /\ r \in Response
  BY <1>1 DEF HolderInv, LeaseInv, TypeOK, ServerTypeOK, Response
<1>4. handle[s] \in Handles /\ HolderHandles(handle[s])
  BY <1>3 DEF HolderInv, LeaseInv, TypeOK, SessionTypeOK, Handles
<1>5. Frozen
  BY DEF ServerResponse, Frozen
<1>6. ASSUME QueryMessage(s, r), r.result = "OK"
      PROVE  h \in Handles /\ HolderHandles(h)
  <2>1. r.type = "query" /\ state[s] = "QUERY_WAIT"
    BY <1>6 DEF QueryMessage
  <2>2. r.key \in Key
    BY <1>3 DEF Response
  <2>3. h \in Handles
    BY <1>2, <1>3, <1>4, <2>1, FilledType
  <2>4. Fits(s, r.key, r.type)
    BY <1>1, <1>3 DEF HolderInv, FitInv, SessionFits, Answers
  <2>5. handle[s][r.key].lock = NoLock
    BY <1>4, <2>1, <2>2, <2>4 DEF Fits, HolderHandles, HolderHandle
  <2>6. /\ h[r.key].finish /\ h[r.key].version = r.version
        /\ h[r.key].inc = r.inc /\ h[r.key].lock = r.lock
    BY <1>2, <1>4, <2>2, <2>5, ZenonT(30) DEF Filled, Handles, DBHandle
  <2>7. \A k \in Key \ {r.key} : h[k] = handle[s][k]
    BY <1>2, <1>4 DEF Filled, Handles
  <2>8. Holds(r.key, r.inc, r.version, r.lock)
    BY <1>6, <2>1 DEF HolderInv, HolderResponse
  <2>9. QED
    BY <1>4, <2>3, <2>6, <2>7, <2>8 DEF HolderHandles, HolderHandle
<1>7. CASE QueryMessage(s, r)
  <2>1. CASE r.result # "OK" /\ Finish(s, handle[s])
    BY <1>3, <1>4, <1>5, <2>1, FinishHolds
  <2>2. CASE r.result = "OK" /\ Finish(s, h)
    BY <1>3, <1>5, <1>6, <1>7, <2>2, FinishHolds
  <2>3. CASE r.result = "OK" /\ IsQueryReady(h) /\ Proceed(s, h)
    BY <1>3, <1>5, <1>6, <1>7, <2>3, ProceedHolds
  <2>4. CASE /\ r.result = "OK" /\ handle' = [handle EXCEPT ![s] = h]
             /\ UNCHANGED <<state, cur, req>>
    <3>1. PICK M : M = {}
      OBVIOUS
    <3>2. req' = req \cup M /\ \A m \in M : HolderRequest(m)
      BY <2>4, <3>1
    <3>3. QED
      BY <1>3, <1>5, <1>6, <1>7, <2>4, <3>2, HoldingsKept
  <2>5. QED
    BY <1>2, <1>7, <2>1, <2>2, <2>3, <2>4 DEF QueryMessage
<1>8. CASE OpMessage(s, r)
  <2>1. CASE state[s] = "UPDATE_WAIT" /\ Proceed(s, handle[s])
    BY <1>3, <1>4, <1>5, <2>1, ProceedHolds DEF HolderInv, LeaseInv
  <2>2. CASE Finish(s, handle[s])
    BY <1>3, <1>4, <1>5, <2>2, FinishHolds
  <2>3. QED
    BY <1>8, <2>1, <2>2 DEF OpMessage
<1>9. CASE LateMessage(s)
  <2>1. UNCHANGED <<handle, req>>
    BY <1>9 DEF LateMessage
  <2>2. QED
    BY <1>5, <2>1, FrozenHolds
       DEF HolderInv, HoldingsOK, HolderRequest, HolderHandles, HolderHandle,
           Holds, Frozen
<1>10. QED
  BY <1>1, <1>7, <1>8, <1>9 DEF ServerResponse

\* HolderInv is inductive, if lock ids do not repeat.
LEMMA HolderInvStep ==
    ASSUME HolderInv, DrawsDistinct, [Next]_vars
    PROVE  HolderInv'
<1>1. LeaseInv' /\ FitInv'
  BY LeaseInvStep, FitInvStep DEF HolderInv
<1>2. CASE Server
  BY <1>2, ServerHolds
<1>3. CASE Session
  <2>1. HoldingsOK'
    <3>1. ASSUME NEW s \in Sess, WaitResponseTimeout(s) PROVE HoldingsOK'
      <4>1. handle[s] \in Handles /\ HolderHandles(handle[s])
        BY DEF HolderInv, LeaseInv, TypeOK, SessionTypeOK, Handles
      <4>2. Frozen /\ Finish(s, handle[s])
        BY <3>1 DEF WaitResponseTimeout, Frozen
      <4>3. QED
        BY <4>1, <4>2, FinishHolds
    <3>2. QED
      BY <1>3, <3>1, RequestHolds, ServerResponseHolds DEF Session
  <2>2. Frozen /\ rsp' \subseteq rsp
    BY <1>3 DEF Session, QueryRequest, DirectRequest, WaitResponseTimeout,
       ServerResponse, Frozen
  <2>3. \A r \in rsp' : HolderResponse(r)'
    BY <2>2, FrozenHolds DEF HolderInv
  <2>4. QED
    BY <1>1, <2>1, <2>3 DEF HolderInv, HoldingsOK
<1>4. CASE Time \/ UNCHANGED vars
  <2>1. UNCHANGED <<ctl, req, rsp, grant, inc, handle>>
    BY <1>4 DEF Time, Tick, vars, serverVars, sessionVars
  <2>2. QED
    BY <1>1, <2>1 DEF HolderInv, HolderRequest, HolderResponse, HolderHandles,
       HolderHandle, Holds
<1>5. QED
  BY <1>2, <1>3, <1>4 DEF Next, Done

\* HolderInv holds in every reachable state, if lock ids do not repeat.
LEMMA HolderInvariant == ASSUME DrawsDistinct PROVE Spec => []HolderInv
<1>1. Init => HolderInv
  <2> SUFFICES ASSUME Init PROVE HolderInv
    OBVIOUS
  <2>1. \A s \in Sess : HolderHandles(handle[s])
    BY DEF Init, SessionInit, HolderHandles, HolderHandle, NoHandle
  <2>2. req = {} /\ rsp = {} /\ LeaseInv
    BY LeaseInvInit DEF Init, ServerInit
  <2>3. FitInv
    BY FitInvInit
  <2>4. QED
    BY <2>1, <2>2, <2>3 DEF HolderInv
<1>2. HolderInv /\ [Next]_vars => HolderInv'
  BY HolderInvStep
<1>3. QED
  BY <1>1, <1>2, PTL DEF Spec

\* The holder is never refused: while the lock an update names is in force
\* and the record has not been deleted, the update names its version too, so
\* UpdateDataHandler finds both checks satisfied.
THEOREM HolderAccepted == Spec => []HolderNotRefused
<1>1. CASE DrawsDistinct
  <2>1. HolderInv => HolderNotRefused
    BY DEF HolderInv, HolderRequest, HolderNotRefused, Holds, InForce
  <2>2. QED
    BY <1>1, <2>1, HolderInvariant, PTL
<1>2. CASE ~DrawsDistinct
  <2>1. HolderNotRefused
    BY <1>2 DEF HolderNotRefused
  <2>2. QED
    BY <2>1, PTL
<1>3. QED
  BY <1>1, <1>2

-----------------------------------------------------------------------------
(* The data server implements RecordLease.                                 *)

\* A lock id has one owner, and the lock of a record has one for it.
OneOwner ==
    /\ \A id \in LockIds : \A p, q \in grant[id] : p = q
    /\ \A k \in Key : ctl[k].lock # NoLock =>
          \E s \in Sess : <<s, k>> \in grant[ctl[k].lock]

OwnerInv == LeaseInv /\ OneOwner

\* With distinct draws each id is drawn once.
LEMMA ServeOwner ==
    ASSUME OwnerInv, DrawsDistinct, NEW m \in req, Serve(m)
    PROVE  OneOwner'
<1> USE DEF OwnerInv
<1> DEFINE c == UpdateTimeoutLock(ctl[m.key])
<1>1. m.key \in Key /\ m.from \in Sess
  BY DEF LeaseInv, TypeOK, ServerTypeOK, Request
<1>2. ctl[m.key] \in Control /\ c \in Control
  BY <1>1, TimeoutKeeps DEF LeaseInv, TypeOK, ServerTypeOK
<1>3. \A k \in Key \ {m.key} : ctl'[k] = ctl[k]
  BY DEF Serve, Query, QueryFails, QueryRefused, QueryLocks, QueryReads,
         Update, Delete, Insert, Unlock, LeaseInv, TypeOK, ServerTypeOK
<1>4. ASSUME grant' = grant, ctl'[m.key].lock \in {ctl[m.key].lock, NoLock}
      PROVE  OneOwner'
  BY <1>3, <1>4 DEF OneOwner
<1>5. CASE Query(m)
  <2>1. CASE QueryLocks(m) /\ ~UNCHANGED <<ctl, grant>>
    <3>1. PICK id \in Drawable :
             /\ ctl' = [ctl EXCEPT ![m.key] =
                           [c EXCEPT !.has = TRUE, !.lock = id,
                                     !.lockTime = clock]]
             /\ grant' = [grant EXCEPT ![id] = @ \cup {<<m.from, m.key>>}]
      BY <2>1 DEF QueryLocks
    <3>2. id \in LockIds /\ grant[id] = {}
      BY DEF Drawable
    <3>3. /\ grant'[id] = {<<m.from, m.key>>}
          /\ \A l \in LockIds \ {id} : grant'[l] = grant[l]
      BY <3>1, <3>2 DEF LeaseInv, TypeOK, ServerTypeOK
    <3>4. ctl'[m.key].lock = id
      BY <1>1, <1>2, <3>1 DEF LeaseInv, TypeOK, ServerTypeOK, Control
    <3>5. ASSUME NEW k \in Key, k # m.key, ctl'[k].lock # NoLock
          PROVE  \E s \in Sess : <<s, k>> \in grant'[ctl'[k].lock]
      <4>1. PICK s \in Sess : <<s, k>> \in grant[ctl[k].lock]
        BY <1>3, <3>5 DEF OneOwner
      <4>2. ctl[k].lock \in LockIds
        BY <1>3, <3>5
           DEF LeaseInv, TypeOK, ServerTypeOK, Control, LockId
      <4>3. QED
        BY <1>3, <3>2, <3>3, <3>5, <4>1, <4>2
    <3>6. QED
      BY <1>1, <3>3, <3>4, <3>5 DEF OneOwner
  <2>2. QED
    BY <1>4, <1>5, <2>1 DEF Query, QueryFails, QueryRefused, QueryReads
<1>6. CASE Update(m)
  <2>1. ctl' = [ctl EXCEPT ![m.key] = Updated(c)] \/ UNCHANGED ctl
    BY <1>6 DEF Update
  <2>2. Updated(c).lock = NoLock
    BY DEF Updated, NoControl
  <2>3. QED
    BY <1>1, <1>4, <1>6, <2>1, <2>2 DEF Update, LeaseInv, TypeOK, ServerTypeOK
<1>7. CASE Delete(m)
  BY <1>1, <1>4, <1>7 DEF Delete, NoControl, LeaseInv, TypeOK, ServerTypeOK
<1>8. CASE Insert(m)
  <2>1. \/ ctl' = [ctl EXCEPT ![m.key] =
                      [NoControl EXCEPT !.has = TRUE, !.version = 1]]
        \/ UNCHANGED ctl
    BY <1>8 DEF Insert
  <2>2. [NoControl EXCEPT !.has = TRUE, !.version = 1].lock = NoLock
    BY DEF NoControl
  <2>3. QED
    BY <1>1, <1>4, <1>8, <2>1, <2>2
       DEF Insert, LeaseInv, TypeOK, ServerTypeOK
<1>9. CASE Unlock(m)
  <2>1. \/ ctl' = [ctl EXCEPT ![m.key] =
                      [c EXCEPT !.has = TRUE, !.lock = NoLock, !.lockTime = 0]]
        \/ UNCHANGED ctl
    BY <1>9 DEF Unlock
  <2>2. [c EXCEPT !.has = TRUE, !.lock = NoLock, !.lockTime = 0].lock = NoLock
    BY <1>2 DEF Control
  <2>3. QED
    BY <1>1, <1>4, <1>9, <2>1, <2>2
       DEF Unlock, LeaseInv, TypeOK, ServerTypeOK
<1>10. QED
  BY <1>5, <1>6, <1>7, <1>8, <1>9 DEF Serve

\* No other step touches a lock or a draw.
LEMMA OthersLeaveRecords ==
    ASSUME Session \/ Time \/ Done \/ UNCHANGED vars
    PROVE  UNCHANGED <<ctl, data, grant>>
BY DEF Session, QueryRequest, DirectRequest, WaitResponseTimeout,
       ServerResponse, Time, Tick, Done, vars, serverVars

\* OwnerInv holds in every reachable state, if lock ids do not repeat.
LEMMA OwnerInvariant == ASSUME DrawsDistinct PROVE Spec => []OwnerInv
<1>1. Init => OwnerInv
  BY LeaseInvInit DEF Init, ServerInit, NoControl, OwnerInv, OneOwner
<1>2. OwnerInv /\ [Next]_vars => OwnerInv'
  <2> SUFFICES ASSUME OwnerInv, [Next]_vars PROVE OwnerInv'
    OBVIOUS
  <2>1. LeaseInv'
    BY LeaseInvStep DEF OwnerInv
  <2>2. CASE Server
    BY <2>1, <2>2, ServeOwner DEF Server, OwnerInv
  <2>3. CASE ~Server
    BY <2>1, <2>3, OthersLeaveRecords DEF Next, OwnerInv, OneOwner
  <2>4. QED
    BY <2>2, <2>3
<1>3. QED
  BY <1>1, <1>2, PTL DEF Spec

\* The holder of a record whose lock is in force is the id's owner.
LEMMA HolderIs ==
    ASSUME OneOwner, TypeOK, NEW k \in Key, NEW s \in Sess, InForce(k),
           <<s, k>> \in grant[ctl[k].lock]
    PROVE  Holder(k) = s
<1>1. ctl[k].lock \in LockIds
  BY DEF InForce, TypeOK, ServerTypeOK, Control, LockId
<1>2. \A t \in Sess : <<t, k>> \in grant[ctl[k].lock] => t = s
  BY <1>1 DEF OneOwner
<1>3. QED
  BY <1>2 DEF Holder

\* The records a request is not about have their holders still.
LEMMA OthersHeld ==
    ASSUME OwnerInv, DrawsDistinct, NEW m \in req, Serve(m),
           NEW k \in Key, k # m.key
    PROVE  Holder(k)' = Holder(k) /\ data'[k] = data[k]
<1>1. ctl'[k] = ctl[k] /\ data'[k] = data[k] /\ clock' = clock
  BY DEF Serve, Query, QueryFails, QueryRefused, QueryLocks, QueryReads,
         Update, Delete, Insert, Unlock, OwnerInv, LeaseInv, TypeOK,
         ServerTypeOK
<1>2. InForce(k)' <=> InForce(k)
  BY <1>1 DEF InForce
<1>3. InForce(k) => grant'[ctl[k].lock] = grant[ctl[k].lock]
  <2> SUFFICES ASSUME InForce(k)
               PROVE  grant'[ctl[k].lock] = grant[ctl[k].lock]
    OBVIOUS
  <2>1. ctl[k].lock \in LockIds
    BY DEF InForce, OwnerInv, LeaseInv, TypeOK, ServerTypeOK, Control, LockId
  <2>2. grant[ctl[k].lock] # {}
    BY DEF InForce, OwnerInv, OneOwner
  <2>3. \/ grant' = grant
        \/ \E id \in Drawable :
              grant' = [grant EXCEPT ![id] = @ \cup {<<m.from, m.key>>}]
    BY DEF Serve, Query, QueryFails, QueryRefused, QueryLocks, QueryReads,
           Update, Delete, Insert, Unlock
  <2>4. \A id \in Drawable : id \in LockIds /\ grant[id] = {}
    BY DEF Drawable
  <2>5. QED
    BY <2>1, <2>2, <2>3, <2>4 DEF OwnerInv, LeaseInv, TypeOK, ServerTypeOK
<1>4. CASE InForce(k)
  <2>1. PICK g : g = grant[ctl[k].lock]
    OBVIOUS
  <2>2. g = grant'[ctl'[k].lock]
    BY <1>1, <1>3, <1>4, <2>1
  <2>3. Holder(k) = CHOOSE s \in Sess : <<s, k>> \in g
    BY <1>4, <2>1 DEF Holder
  <2>4. Holder(k)' = CHOOSE s \in Sess : <<s, k>> \in g
    BY <1>2, <1>4, <2>2 DEF Holder
  <2>5. QED
    BY <1>1, <2>3, <2>4
<1>5. CASE ~InForce(k)
  BY <1>1, <1>2, <1>5 DEF Holder
<1>6. QED
  BY <1>4, <1>5

\* The holders of all records but k stay; values too.
Elsewhere(k) ==
    \A j \in Key \ {k} : Holder(j)' = Holder(j) /\ data'[j] = data[j]

\* What a step does to holders and values, as a step of RecordLease.
LEMMA AcquireMaps ==
    ASSUME NEW k \in Key, NEW s \in Sess, Elsewhere(k), UNCHANGED data,
           Holder(k) = Nobody, Holder(k)' = s
    PROVE  Lease!Acquire(k, s)
<1>1. [j \in Key |-> Holder(j)]' = [[j \in Key |-> Holder(j)] EXCEPT ![k] = s]
  BY DEF Elsewhere
<1>2. QED
  BY <1>1 DEF Lease!Acquire

LEMMA WriteMaps ==
    ASSUME NEW k \in Key, NEW s \in Sess, Elsewhere(k),
           data' = [data EXCEPT ![k] = s],
           Holder(k) \in {Nobody, s}, Holder(k)' = Nobody
    PROVE  Lease!Write(k, s)
<1>1. [j \in Key |-> Holder(j)]' =
        [[j \in Key |-> Holder(j)] EXCEPT ![k] = Nobody]
  BY DEF Elsewhere
<1>2. QED
  BY <1>1 DEF Lease!Write

LEMMA RemoveMaps ==
    ASSUME NEW k \in Key, Elsewhere(k), data' = [data EXCEPT ![k] = NoData],
           Holder(k)' = Nobody
    PROVE  Lease!Remove(k)
<1>1. [j \in Key |-> Holder(j)]' =
        [[j \in Key |-> Holder(j)] EXCEPT ![k] = Nobody]
  BY DEF Elsewhere
<1>2. QED
  BY <1>1 DEF Lease!Remove

LEMMA ReleaseMaps ==
    ASSUME UNCHANGED data,
           \A k \in Key : Holder(k)' \in {Holder(k), Nobody}
    PROVE  Lease!Release
<1>1. PICK K : K = {k \in Key : Holder(k)' = Nobody}
  OBVIOUS
<1>2. K \in SUBSET Key
  BY <1>1
<1>3. \A j \in Key : Holder(j)' = IF j \in K THEN Nobody ELSE Holder(j)
  BY <1>1
<1>4. [j \in Key |-> Holder(j)]' =
        [j \in Key |-> IF j \in K THEN Nobody ELSE [i \in Key |-> Holder(i)][j]]
  BY <1>3
<1>5. QED
  BY <1>2, <1>4 DEF Lease!Release

\* A record that is not locked now is nobody's.
LEMMA NotLocked ==
    ASSUME NEW k \in Key, ctl'[k].lock = NoLock
    PROVE  Holder(k)' = Nobody
BY DEF Holder, InForce

\* A handler that leaves record, lock and draws alone changes no holding.
LEMMA QuietMaps ==
    ASSUME UNCHANGED <<ctl, data, grant, clock>>
    PROVE  Lease!Release
<1>1. \A k \in Key : Holder(k)' = Holder(k)
  BY DEF Holder, InForce
<1>2. QED
  BY <1>1, ReleaseMaps

\* A lock the handler finds gone was in force no more.
LEMMA GoneNotInForce ==
    ASSUME TypeOK, NEW k \in Key, UpdateTimeoutLock(ctl[k]).lock = NoLock
    PROVE  ~InForce(k)
<1>1. ctl[k] \in Control
  BY DEF TypeOK, ServerTypeOK
<1>2. InForce(k) => ~Expired(ctl[k])
  BY <1>1, ConstantsAssumption
     DEF InForce, Expired, TypeOK, ServerTypeOK, Control
<1>3. ~Expired(ctl[k]) => UpdateTimeoutLock(ctl[k]) = ctl[k]
  BY <1>1, TimeoutKeeps
<1>4. QED
  BY <1>2, <1>3 DEF InForce

\* A query takes the holding of a record nobody holds, or changes nothing.
LEMMA QueryMaps ==
    ASSUME OwnerInv, DrawsDistinct, ~DbMayFail, NEW m \in req, Query(m)
    PROVE  Lease!Next
<1> DEFINE k == m.key
           c == UpdateTimeoutLock(ctl[k])
<1>1. TypeOK /\ Serve(m) /\ UNCHANGED <<data, clock>>
  BY DEF OwnerInv, LeaseInv, Serve, Query
<1>2. k \in Key /\ m.from \in Sess /\ ctl[k] \in Control /\ c \in Control
  BY <1>1, TimeoutKeeps DEF TypeOK, ServerTypeOK, Request
<1>3. CASE UNCHANGED <<ctl, grant>>
  BY <1>1, <1>3, QuietMaps DEF Lease!Next
<1>4. CASE QueryLocks(m) /\ ~UNCHANGED <<ctl, grant>>
  <2>1. PICK id \in Drawable :
           /\ ctl' = [ctl EXCEPT ![k] =
                         [c EXCEPT !.has = TRUE, !.lock = id,
                                   !.lockTime = clock]]
           /\ grant' = [grant EXCEPT ![id] = @ \cup {<<m.from, k>>}]
    BY <1>4 DEF QueryLocks
  <2>2. c.lock = NoLock
    BY <1>4 DEF QueryLocks, MayLock
  <2>3. id \in LockIds /\ grant[id] = {} /\ id # NoLock
    BY DEF Drawable, LockIds, NoLock
  <2>4. ctl'[k].lock = id /\ ctl'[k].lockTime = clock
    BY <1>1, <1>2, <2>1 DEF TypeOK, ServerTypeOK, Control
  <2>5. grant'[id] = {<<m.from, k>>}
    BY <1>1, <2>1, <2>3 DEF TypeOK, ServerTypeOK
  <2>6. InForce(k)'
    BY <1>1, <2>3, <2>4, ConstantsAssumption
       DEF InForce, TypeOK, ServerTypeOK
  <2>7. Holder(k)' = m.from
    BY <1>2, <2>4, <2>5, <2>6 DEF Holder
  <2>8. Holder(k) = Nobody
    BY <1>1, <1>2, <2>2, GoneNotInForce DEF Holder
  <2>9. Elsewhere(k)
    BY <1>1, OthersHeld DEF Elsewhere
  <2>10. Lease!Acquire(k, m.from)
    BY <1>1, <1>2, <2>7, <2>8, <2>9, AcquireMaps
  <2>11. QED
    BY <1>2, <2>10 DEF Lease!Next
<1>5. QED
  BY <1>3, <1>4 DEF Query, QueryFails, QueryRefused, QueryReads

\* An update that is applied is a write by the holder, or of a record nobody
\* holds.
LEMMA UpdateMaps ==
    ASSUME OwnerInv, DrawsDistinct, NEW m \in req, Update(m)
    PROVE  Lease!Next
<1> DEFINE k == m.key
           c == UpdateTimeoutLock(ctl[k])
<1>1. TypeOK /\ Serve(m) /\ UNCHANGED <<clock, grant>> /\ m.type = "update"
  BY DEF OwnerInv, LeaseInv, Serve, Update
<1>2. k \in Key /\ m.from \in Sess /\ ctl[k] \in Control
  BY <1>1 DEF TypeOK, ServerTypeOK, Request
<1>3. CASE UNCHANGED <<ctl, data>>
  BY <1>1, <1>3, QuietMaps DEF Lease!Next
<1>4. CASE /\ UpdateCheck(m, c) = "OK"
           /\ ctl' = [ctl EXCEPT ![k] = Updated(c)]
           /\ data' = [data EXCEPT ![k] = m.from]
  <2>1. m.lock = c.lock
    BY <1>4 DEF UpdateCheck
  <2>2. ctl'[k].lock = NoLock
    BY <1>1, <1>2, <1>4 DEF TypeOK, ServerTypeOK, Updated, NoControl
  <2>3. Holder(k)' = Nobody
    BY <1>2, <2>2, NotLocked
  <2>4. Elsewhere(k)
    BY <1>1, OthersHeld DEF Elsewhere
  <2>5. Holder(k) \in {Nobody, m.from}
    <3>1. CASE ~InForce(k)
      BY <3>1 DEF Holder
    <3>2. CASE InForce(k)
      <4>1. c.lock # NoLock
        BY <1>1, <1>2, <3>2, GoneNotInForce
      <4>2. c.lock = ctl[k].lock
        BY <1>2, <4>1, TimeoutKeeps
      <4>3. <<m.from, k>> \in grant[ctl[k].lock]
        BY <1>1, <2>1, <4>1, <4>2
           DEF OwnerInv, LeaseInv, RequestOK, Granted
      <4>4. Holder(k) = m.from
        BY <1>1, <1>2, <3>2, <4>3, HolderIs DEF OwnerInv
      <4>5. QED
        BY <4>4
    <3>3. QED BY <3>1, <3>2
  <2>6. Lease!Write(k, m.from)
    BY <1>2, <1>4, <2>3, <2>4, <2>5, WriteMaps
  <2>7. QED
    BY <1>2, <2>6 DEF Lease!Next
<1>5. QED
  BY <1>3, <1>4 DEF Update

\* A delete removes the record, whoever holds it.
LEMMA DeleteMaps ==
    ASSUME OwnerInv, DrawsDistinct, ~DbMayFail, NEW m \in req, Delete(m)
    PROVE  Lease!Next
<1> DEFINE k == m.key
<1>1. TypeOK /\ Serve(m)
  BY DEF OwnerInv, LeaseInv, Serve
<1>2. k \in Key
  BY <1>1 DEF TypeOK, ServerTypeOK, Request
<1>3. /\ ctl' = [ctl EXCEPT ![k] = NoControl]
      /\ data' = [data EXCEPT ![k] = NoData]
  BY DEF Delete, DbOutcome
<1>4. ctl'[k].lock = NoLock
  BY <1>1, <1>2, <1>3 DEF TypeOK, ServerTypeOK, NoControl
<1>5. Elsewhere(k)
  BY <1>1, OthersHeld DEF Elsewhere
<1>6. Lease!Remove(k)
  BY <1>2, <1>3, <1>4, <1>5, NotLocked, RemoveMaps
<1>7. QED
  BY <1>2, <1>6 DEF Lease!Next

\* An insert writes a record that is not there, so not held.
LEMMA InsertMaps ==
    ASSUME OwnerInv, DrawsDistinct, ~DbMayFail, NEW m \in req, Insert(m)
    PROVE  Lease!Next
<1> DEFINE k == m.key
<1>1. TypeOK /\ Serve(m) /\ UNCHANGED <<clock, grant>>
  BY DEF OwnerInv, LeaseInv, Serve, Insert
<1>2. k \in Key /\ m.from \in Sess
  BY <1>1 DEF TypeOK, ServerTypeOK, Request
<1>3. CASE UNCHANGED <<ctl, data>>
  BY <1>1, <1>3, QuietMaps DEF Lease!Next
<1>4. CASE /\ ~Has(k, TRUE)
           /\ ctl' = [ctl EXCEPT ![k] =
                         [NoControl EXCEPT !.has = TRUE, !.version = 1]]
           /\ data' = [data EXCEPT ![k] = m.from]
  <2>1. Holder(k) = Nobody
    BY <1>2, <1>4 DEF Has, OwnerInv, LeaseInv, Holder, InForce
  <2>2. [NoControl EXCEPT !.has = TRUE, !.version = 1].lock = NoLock
    BY DEF NoControl
  <2>3. ctl'[k].lock = NoLock
    BY <1>1, <1>2, <1>4, <2>2 DEF TypeOK, ServerTypeOK
  <2>4. Elsewhere(k)
    BY <1>1, OthersHeld DEF Elsewhere
  <2>5. Lease!Write(k, m.from)
    BY <1>2, <1>4, <2>1, <2>3, <2>4, NotLocked, WriteMaps
  <2>6. QED
    BY <1>2, <2>5 DEF Lease!Next
<1>5. QED
  BY <1>3, <1>4 DEF Insert, DbOutcome

\* An unlock ends a holding.
LEMMA UnlockMaps ==
    ASSUME OwnerInv, DrawsDistinct, NEW m \in req, Unlock(m)
    PROVE  Lease!Next
<1> DEFINE k == m.key
           c == UpdateTimeoutLock(ctl[k])
<1>1. TypeOK /\ Serve(m) /\ UNCHANGED <<data, clock, grant>>
  BY DEF OwnerInv, LeaseInv, Serve, Unlock
<1>2. k \in Key /\ c \in Control
  BY <1>1, TimeoutKeeps DEF TypeOK, ServerTypeOK, Request
<1>3. CASE UNCHANGED ctl
  BY <1>1, <1>3, QuietMaps DEF Lease!Next
<1>4. CASE ctl' = [ctl EXCEPT ![k] =
                      [c EXCEPT !.has = TRUE, !.lock = NoLock, !.lockTime = 0]]
  <2>1. ctl'[k].lock = NoLock
    BY <1>1, <1>2, <1>4 DEF TypeOK, ServerTypeOK, Control
  <2>2. Elsewhere(k)
    BY <1>1, OthersHeld DEF Elsewhere
  <2>3. \A j \in Key : Holder(j)' \in {Holder(j), Nobody}
    BY <1>2, <2>1, <2>2, NotLocked DEF Elsewhere
  <2>4. Lease!Release
    BY <1>1, <2>3, ReleaseMaps
  <2>5. QED
    BY <2>4 DEF Lease!Next
<1>5. QED
  BY <1>3, <1>4 DEF Unlock

\* Time ends holdings, and only that.
LEMMA TickMaps ==
    ASSUME TypeOK, Tick
    PROVE  Lease!Next
<1>1. UNCHANGED <<ctl, data, grant>> /\ clock' = clock + 1
  BY DEF Tick
<1>2. ASSUME NEW k \in Key PROVE InForce(k)' => InForce(k)
  <2>1. ctl[k].lockTime \in Nat /\ clock \in Nat
    BY DEF TypeOK, ServerTypeOK, Control
  <2>2. QED
    BY <1>1, <2>1, ConstantsAssumption DEF InForce
<1>3. ASSUME NEW k \in Key PROVE Holder(k)' \in {Holder(k), Nobody}
  <2>1. CASE InForce(k)'
    BY <1>1, <1>2, <2>1 DEF Holder
  <2>2. CASE ~InForce(k)'
    BY <2>2 DEF Holder
  <2>3. QED BY <2>1, <2>2
<1>4. Lease!Release
  BY <1>1, <1>3, ReleaseMaps
<1>5. QED
  BY <1>4 DEF Lease!Next

\* The data server keeps the promise of RecordLease, for any sessions, keys
\* and timeout, if lock ids do not repeat and no database operation fails:
\* a lock has one holder, who alone may write, until it writes, gives the
\* record back, or the lock times out.
THEOREM LeaseRefined ==
    ASSUME DrawsDistinct, ~DbMayFail
    PROVE  Spec => LeaseSpec
<1>1. Init => Lease!Init
  <2> SUFFICES ASSUME Init PROVE Lease!Init
    OBVIOUS
  <2>1. \A k \in Key : Holder(k) = Nobody
    BY DEF Init, ServerInit, NoControl, Holder, InForce
  <2>2. QED
    BY <2>1 DEF Init, ServerInit, Lease!Init
<1>2. ASSUME OwnerInv, [Next]_vars PROVE [Lease!Next]_Lease!leaseVars
  <2>1. TypeOK
    BY <1>2 DEF OwnerInv, LeaseInv
  <2>2. CASE Server
    BY <1>2, <2>2, QueryMaps, UpdateMaps, DeleteMaps, InsertMaps, UnlockMaps
       DEF Server, Serve
  <2>3. CASE Time
    BY <2>1, <2>3, TickMaps DEF Time
  <2>4. CASE Session \/ UNCHANGED vars
    <3>1. UNCHANGED <<ctl, data, grant, clock>>
      BY <2>4 DEF Session, QueryRequest, DirectRequest, WaitResponseTimeout,
         ServerResponse, vars, serverVars
    <3>2. Lease!Release
      BY <3>1, QuietMaps
    <3>3. QED
      BY <3>2 DEF Lease!Next
  <2>5. QED
    BY <1>2, <2>2, <2>3, <2>4 DEF Next, Done
<1>3. QED
  BY <1>1, <1>2, OwnerInvariant, PTL DEF Spec, LeaseSpec, Lease!Spec
=============================================================================
