------------------------- MODULE DataSessionProofs -------------------------
(***************************************************************************)
(* Type correctness of DataSession: one lemma per handler of the server    *)
(* and per step of a session, then the theorem.                            *)
(***************************************************************************)
EXTENDS DataSession, TLAPS

-----------------------------------------------------------------------------
(* The data server.                                                        *)

\* The empty database is well typed.
LEMMA ServerInitType == ServerInit => ServerTypeOK
BY ConstantsAssumption DEF ServerInit, ServerTypeOK, Control, NoControl,
   LockId, Value, NoLock

\* Dropping a lock that has timed out leaves a control record.
LEMMA TimeoutType ==
    ASSUME NEW c \in Control
    PROVE  UpdateTimeoutLock(c) \in Control
BY DEF UpdateTimeoutLock, Control, LockId

\* The reply of a query is well typed.
LEMMA QueryTailType ==
    ASSUME ServerTypeOK, NEW m \in req, m.type = "query",
           NEW v \in Nat, NEW l \in LockId, QueryTail(m, v, l)
    PROVE  req' \subseteq Request /\ rsp' \subseteq Response
<1> DEFINE R(res, h, d) == QueryRsp(m, res, v, l, h, d)
<1>1. m.from \in Sess /\ m.key \in Key
  BY DEF ServerTypeOK, Request
<1>2. ASSUME NEW res \in Results, NEW h \in BOOLEAN, NEW d \in Value
      PROVE  R(res, h, d) \in Response
  BY <1>1, <1>2 DEF ServerTypeOK, Response, QueryRsp
<1>3. data[m.key] \in Value /\ NoData \in Value
  BY <1>1 DEF ServerTypeOK, Value
<1>4. \A res \in Results, h \in BOOLEAN, d \in Value : ReplyWith(m, R(res, h, d))
        => req' \subseteq Request /\ rsp' \subseteq Response
  BY <1>2 DEF ServerTypeOK, ReplyWith
<1>5. "OK" \in Results /\ "LEVELDB" \in Results
  BY DEF Results
<1>6. QED
  BY <1>3, <1>4, <1>5 DEF QueryTail

\* QueryDataHandler keeps the types: the id it draws is a lock id.
LEMMA QueryType ==
    ASSUME ServerTypeOK, NEW m \in req, Query(m)
    PROVE  ServerTypeOK'
<1> USE DEF ServerTypeOK
<1> DEFINE c == UpdateTimeoutLock(ctl[m.key])
<1>1. m.from \in Sess /\ m.key \in Key /\ m.type = "query" /\ m \in Request
  BY DEF Query, Request
<1>2. ctl[m.key] \in Control /\ c \in Control
  BY <1>1, TimeoutType
<1>3. c.version \in Nat /\ c.lock \in LockId /\ ctl[m.key].version \in Nat
  BY <1>2 DEF Control
<1>4. UNCHANGED <<data, clock, inc>>
  BY DEF Query
<1>5. \A res \in Results, v \in Nat, l \in LockId, h \in BOOLEAN, d \in Value :
        ReplyWith(m, QueryRsp(m, res, v, l, h, d))
        => req' \subseteq Request /\ rsp' \subseteq Response
  <2> SUFFICES ASSUME NEW res \in Results, NEW v \in Nat, NEW l \in LockId,
                      NEW h \in BOOLEAN, NEW d \in Value
               PROVE  QueryRsp(m, res, v, l, h, d) \in Response
    BY DEF ReplyWith
  <2> QED BY <1>1 DEF QueryRsp, Response
<1>6. /\ NoLock \in LockId /\ NoData \in Value
      /\ LockIds \subseteq LockId
      /\ {"OK", "LEVELDB", "ALREADY_LOCK"} \subseteq Results
  BY DEF LockId, Value, Results
<1>7. CASE QueryFails(m)
  BY <1>4, <1>5, <1>6, <1>7 DEF QueryFails
<1>8. CASE QueryRefused(m)
  BY <1>3, <1>4, <1>5, <1>6, <1>8 DEF QueryRefused
<1>9. CASE QueryReads(m)
  BY <1>1, <1>3, <1>4, <1>6, <1>9, QueryTailType DEF QueryReads
<1>10. CASE QueryLocks(m)
  <2>1. PICK id \in Drawable :
           \/ /\ ctl' = [ctl EXCEPT ![m.key] =
                            [c EXCEPT !.has = TRUE, !.lock = id,
                                      !.lockTime = clock]]
              /\ grant' = [grant EXCEPT ![id] = @ \cup {<<m.from, m.key>>}]
              /\ QueryTail(m, c.version, id)
           \/ /\ DbMayFail
              /\ ReplyWith(m, QueryRsp(m, "LEVELDB", c.version, id,
                                       FALSE, NoData))
              /\ UNCHANGED <<ctl, grant>>
    BY <1>10 DEF QueryLocks
  <2>2. id \in LockIds
    BY <2>1 DEF Drawable
  <2>3. req' \subseteq Request /\ rsp' \subseteq Response
    BY <1>1, <1>3, <1>5, <1>6, <2>1, <2>2, QueryTailType
  <2>4. [c EXCEPT !.has = TRUE, !.lock = id, !.lockTime = clock] \in Control
    BY <1>2, <1>6, <2>2 DEF Control
  <2>5. ctl' \in [Key -> Control]
    BY <2>1, <2>4
  <2>6. grant' \in [LockIds -> SUBSET (Sess \X Key)]
    <3>1. grant[id] \cup {<<m.from, m.key>>} \in SUBSET (Sess \X Key)
      BY <1>1, <2>2
    <3>2. QED BY <2>1, <3>1
  <2>7. QED
    BY <1>4, <2>3, <2>5, <2>6
<1>11. QED
  BY <1>7, <1>8, <1>9, <1>10 DEF Query

\* The replies of the other handlers are well typed.
LEMMA RspType ==
    ASSUME ServerTypeOK, NEW m \in req, NEW res \in Results,
           m.type \in {"update", "insert", "delete"},
           ReplyWith(m, Rsp(m, res))
    PROVE  req' \subseteq Request /\ rsp' \subseteq Response
<1>1. m.from \in Sess /\ m.key \in Key
  BY DEF ServerTypeOK, Request
<1>2. Rsp(m, res) \in Response
  BY <1>1 DEF Rsp, Response
<1>3. QED
  BY <1>2 DEF ServerTypeOK, ReplyWith

\* UpdateDataHandler keeps the types.
LEMMA UpdateType ==
    ASSUME ServerTypeOK, NEW m \in req, Update(m)
    PROVE  ServerTypeOK'
<1> USE DEF ServerTypeOK
<1> DEFINE c == UpdateTimeoutLock(ctl[m.key])
<1>1. m.from \in Sess /\ m.key \in Key /\ m.type = "update"
  BY DEF Update, Request
<1>2. c \in Control
  BY <1>1, TimeoutType
<1>3. {"OK", "LEVELDB"} \subseteq Results /\ UpdateCheck(m, c) \in Results
  BY DEF UpdateCheck, Results
<1>4. req' \subseteq Request /\ rsp' \subseteq Response
  <2>1. PICK res \in Results : ReplyWith(m, Rsp(m, res))
    BY <1>3 DEF Update
  <2>2. QED BY <1>1, <2>1, RspType
<1>5. Updated(c) \in Control
  <2>1. c.version + 1 \in Nat
    BY <1>2 DEF Control
  <2> HIDE DEF c
  <2>2. QED BY <2>1 DEF Updated, Control, NoControl, LockId
<1>6. m.from \in Value
  BY <1>1 DEF Value
<1>7. ctl' \in [Key -> Control] /\ data' \in [Key -> Value]
  BY <1>5, <1>6 DEF Update
<1>8. QED
  BY <1>4, <1>7 DEF Update

\* DeleteDataHandler keeps the types.
LEMMA DeleteType ==
    ASSUME ServerTypeOK, NEW m \in req, Delete(m)
    PROVE  ServerTypeOK'
<1> USE DEF ServerTypeOK
<1>1. m.key \in Key /\ m.type = "delete"
  BY DEF Delete, Request
<1>2. "OK" \in Results
  BY DEF Results
<1>3. req' \subseteq Request /\ rsp' \subseteq Response
  BY <1>1, <1>2, RspType DEF Delete
<1>4. NoControl \in Control /\ NoData \in Value
  BY DEF NoControl, Control, LockId, Value
<1>5. ctl' \in [Key -> Control] /\ data' \in [Key -> Value]
  BY <1>4 DEF Delete
<1>6. inc' \in [Key -> Nat] /\ UNCHANGED <<clock, grant>>
  BY <1>1 DEF Delete
<1>7. QED
  BY <1>3, <1>5, <1>6

\* InsertDataHandler keeps the types.
LEMMA InsertType ==
    ASSUME ServerTypeOK, NEW m \in req, Insert(m)
    PROVE  ServerTypeOK'
<1> USE DEF ServerTypeOK
<1>1. m.from \in Sess /\ m.key \in Key /\ m.type = "insert"
  BY DEF Insert, Request
<1>2. {"OK", "LEVELDB", "ALREADY_HAS_DATA"} \subseteq Results
  BY DEF Results
<1>3. req' \subseteq Request /\ rsp' \subseteq Response
  <2>1. PICK res \in Results : ReplyWith(m, Rsp(m, res))
    BY <1>2 DEF Insert
  <2>2. QED BY <1>1, <2>1, RspType
<1>4. [NoControl EXCEPT !.has = TRUE, !.version = 1] \in Control
  BY DEF NoControl, Control, LockId
<1>5. ctl' \in [Key -> Control] /\ data' \in [Key -> Value]
  BY <1>1, <1>4 DEF Insert, Value
<1>6. inc' \in [Key -> Nat] /\ UNCHANGED <<clock, grant>>
  BY <1>1 DEF Insert
<1>7. QED
  BY <1>3, <1>5, <1>6

\* UnlockDataHandler keeps the types.
LEMMA UnlockType ==
    ASSUME ServerTypeOK, NEW m \in req, Unlock(m)
    PROVE  ServerTypeOK'
<1> USE DEF ServerTypeOK
<1> DEFINE c == UpdateTimeoutLock(ctl[m.key])
<1>1. m.key \in Key
  BY DEF Request
<1>2. c \in Control
  BY <1>1, TimeoutType
<1>3. [c EXCEPT !.has = TRUE, !.lock = NoLock, !.lockTime = 0] \in Control
  BY <1>2 DEF Control, LockId
<1>4. ctl' \in [Key -> Control]
  BY <1>3 DEF Unlock
<1>5. QED
  BY <1>4 DEF Unlock

-----------------------------------------------------------------------------
(* The sessions.                                                           *)

\* No session has run: well typed.
LEMMA SessionInitType == SessionInit => SessionTypeOK
<1> SUFFICES ASSUME SessionInit PROVE SessionTypeOK
  OBVIOUS
<1>1. (CHOOSE k \in Key : TRUE) \in Key
  BY SessionAssumption
<1>2. NoHandle \in DBHandle
  BY DEF NoHandle, DBHandle, LockId, Value
<1>3. QED
  BY <1>1, <1>2 DEF SessionInit, SessionTypeOK

\* The handles of a session.
Handles == [Key -> DBHandle]

\* Ending a session keeps the types: only handles with a lock are unlocked.
LEMMA FinishType ==
    ASSUME TypeOK, NEW s \in Sess, NEW h \in Handles, Finish(s, h)
    PROVE  SessionTypeOK' /\ req' \subseteq Request
<1>1. \A k \in ToUnlock(h) : UnlockReq(s, h, k) \in Request
  <2> SUFFICES ASSUME NEW k \in ToUnlock(h) PROVE UnlockReq(s, h, k) \in Request
    OBVIOUS
  <2>1. k \in Key /\ h[k].lock \in LockIds
    BY DEF ToUnlock, Used, Handles, DBHandle, LockId
  <2>2. QED
    BY <2>1 DEF UnlockReq, Request
<1>2. QED
  BY <1>1 DEF Finish, TypeOK, ServerTypeOK, SessionTypeOK, Handles

\* The handles after a send are handles.
LEMMA AfterSendType ==
    ASSUME NEW h \in Handles, NEW k \in Key, NEW op
    PROVE  AfterSend(op, h, k) \in Handles
<1> DEFINE lock == IF op = "update" THEN NoLock ELSE h[k].lock
<1>1. h[k] \in DBHandle
  BY DEF Handles
<1>2. [h[k] EXCEPT !.done = TRUE, !.lock = lock] \in DBHandle
  BY <1>1 DEF DBHandle, LockId
<1>3. AfterSend(op, h, k) = [h EXCEPT ![k] =
        [h[k] EXCEPT !.done = TRUE, !.lock = lock]]
  BY DEF AfterSend, Handles
<1>4. QED
  BY <1>2, <1>3 DEF Handles

\* Sending an update, insert or delete keeps the types.
LEMMA SendType ==
    ASSUME TypeOK, NEW s \in Sess, NEW h \in Handles, NEW k \in Key,
           NEW op \in {"update", "insert", "delete"}, Send(op, s, h, k)
    PROVE  SessionTypeOK' /\ req' \subseteq Request
<1>1. OpReq(op, s, h, k) \in Request
  <2>1. h[k].version \in Nat /\ h[k].lock \in LockId /\ h[k].data \in Value
          /\ h[k].inc \in Nat
    BY DEF Handles, DBHandle
  <2>2. QED
    BY <2>1 DEF OpReq, UpdateReq, BareReq, Request
<1>2. AfterSend(op, h, k) \in Handles
  BY AfterSendType
<1>3. WaitState(op) \in Waiting
  BY DEF WaitState, Waiting
<1>4. QED
  BY <1>1, <1>2, <1>3 DEF Send, TypeOK, ServerTypeOK, SessionTypeOK, Handles

\* Going on with the next handle keeps the types.
LEMMA ProceedType ==
    ASSUME TypeOK, NEW s \in Sess, NEW h \in Handles, Proceed(s, h)
    PROVE  SessionTypeOK' /\ req' \subseteq Request
<1>1. CASE Finish(s, h)
  BY <1>1, FinishType
<1>2. CASE \E k \in Used(h), op \in Ops : ~h[k].done /\ Send(op, s, h, k)
  <2>1. Used(h) \subseteq Key /\ Ops \subseteq {"update", "insert", "delete"}
    BY SessionAssumption DEF Used
  <2>2. QED
    BY <1>2, <2>1, SendType
<1>3. QED
  BY <1>1, <1>2 DEF Proceed

\* The handles a query starts from.
LEMMA AskedType ==
    ASSUME NEW K, NEW L
    PROVE  Asked(K, L) \in Handles
<1>1. {NoHandle, AddQueryData, AddQueryDataAndLock} \subseteq DBHandle
  <2>1. NoHandle \in DBHandle
    BY DEF NoHandle, DBHandle, LockId, Value
  <2>2. AddQueryData \in DBHandle
    BY <2>1 DEF AddQueryData, DBHandle
  <2>3. AddQueryDataAndLock \in DBHandle
    BY <2>2 DEF AddQueryDataAndLock, DBHandle
  <2>4. QED BY <2>1, <2>2, <2>3
<1>2. QED
  BY <1>1 DEF Asked, Handles

\* The handles an insert or a delete starts from.
LEMMA UsedType ==
    ASSUME TypeOK, NEW s \in Sess, NEW k \in Key
    PROVE  [handle[s] EXCEPT ![k].used = TRUE] \in Handles
<1>1. handle[s] \in Handles /\ handle[s][k] \in DBHandle
  BY DEF TypeOK, SessionTypeOK, Handles
<1>2. [handle[s][k] EXCEPT !.used = TRUE] \in DBHandle
  BY <1>1 DEF DBHandle
<1>3. QED
  BY <1>1, <1>2 DEF Handles

\* A client request keeps the types.
LEMMA QueryRequestType ==
    ASSUME TypeOK, NEW s \in Sess, QueryRequest(s)
    PROVE  TypeOK'
<1>1. PICK K \in SUBSET Key, L \in SUBSET Key :
         /\ handle' = [handle EXCEPT ![s] = Asked(K, L)]
         /\ req' = req \cup {QueryReq(s, Asked(K, L), k) : k \in K}
  BY DEF QueryRequest
<1>3. Asked(K, L) \in Handles
  BY AskedType
<1>4. \A k \in K : QueryReq(s, Asked(K, L), k) \in Request
  <2> SUFFICES ASSUME NEW k \in K PROVE QueryReq(s, Asked(K, L), k) \in Request
    OBVIOUS
  <2>1. Asked(K, L)[k].need \in BOOLEAN
    BY <1>3 DEF Handles, DBHandle
  <2>2. QED
    BY <2>1 DEF QueryReq, Request
<1>5. state' \in [Sess -> Waiting \cup {"IDLE", "FINISH"}]
  BY DEF QueryRequest, TypeOK, SessionTypeOK, Waiting
<1>6. UNCHANGED <<cur, ctl, data, clock, rsp, grant, inc>>
  BY DEF QueryRequest
<1>7. QED
  BY <1>1, <1>3, <1>4, <1>5, <1>6
     DEF TypeOK, SessionTypeOK, ServerTypeOK, Handles

\* A client request served without a query keeps the types.
LEMMA DirectRequestType ==
    ASSUME TypeOK, NEW s \in Sess, DirectRequest(s)
    PROVE  TypeOK'
<1>1. PICK k \in Key, op \in Ops :
         Send(op, s, [handle[s] EXCEPT ![k].used = TRUE], k)
  BY DEF DirectRequest
<1>2. op \in {"update", "insert", "delete"}
  BY SessionAssumption
<1>3. [handle[s] EXCEPT ![k].used = TRUE] \in Handles
  BY UsedType
<1>4. SessionTypeOK' /\ req' \subseteq Request
  BY <1>1, <1>2, <1>3, SendType
<1>5. QED
  BY <1>4 DEF DirectRequest, TypeOK, ServerTypeOK

\* A query response is noted in a handle.
LEMMA FilledType ==
    ASSUME NEW h \in Handles, NEW r \in Response, r.type = "query"
    PROVE  Filled(h, r) \in Handles
<1>1. /\ r.key \in Key /\ r.version \in Nat /\ r.lock \in LockId
      /\ r.data \in Value /\ r.inc \in Nat
  BY DEF Response
<1> DEFINE g == [h[r.key] EXCEPT !.finish = TRUE, !.version = r.version,
                                 !.lock = IF r.lock = NoLock THEN @ ELSE r.lock,
                                 !.data = r.data, !.inc = r.inc]
<1>2. h[r.key] \in DBHandle
  BY <1>1 DEF Handles
<1>3. g \in DBHandle
  BY <1>1, <1>2 DEF DBHandle
<1>4. Filled(h, r) = [h EXCEPT ![r.key] = g]
  BY <1>1 DEF Filled, Handles
<1>5. QED
  BY <1>3, <1>4 DEF Handles

\* A response, whatever state its session is in, keeps the types.
LEMMA ServerResponseType ==
    ASSUME TypeOK, NEW r \in rsp, ServerResponse(r)
    PROVE  TypeOK'
<1> DEFINE s == r.to
           h == Filled(handle[s], r)
<1>1. s \in Sess /\ r \in Response
  BY DEF TypeOK, ServerTypeOK, Response
<1>2. handle[s] \in Handles
  BY <1>1 DEF TypeOK, SessionTypeOK, Handles
<1>3. ASSUME QueryMessage(s, r) PROVE SessionTypeOK' /\ req' \subseteq Request
  <2>1. h \in Handles
    BY <1>1, <1>2, <1>3, FilledType DEF QueryMessage
  <2>2. CASE Finish(s, handle[s]) \/ Finish(s, h) \/ Proceed(s, h)
    BY <1>1, <1>2, <2>1, <2>2, FinishType, ProceedType
  <2>3. CASE handle' = [handle EXCEPT ![s] = h] /\ UNCHANGED <<state, cur, req>>
    BY <2>1, <2>3 DEF TypeOK, SessionTypeOK, ServerTypeOK, Handles
  <2>4. QED
    BY <1>3, <2>2, <2>3 DEF QueryMessage
<1>4. ASSUME OpMessage(s, r) PROVE SessionTypeOK' /\ req' \subseteq Request
  BY <1>1, <1>2, <1>4, FinishType, ProceedType DEF OpMessage
<1>5. ASSUME LateMessage(s) PROVE SessionTypeOK' /\ req' \subseteq Request
  BY <1>5 DEF LateMessage, TypeOK, SessionTypeOK, ServerTypeOK
<1>6. SessionTypeOK' /\ req' \subseteq Request
  BY <1>3, <1>4, <1>5 DEF ServerResponse
<1>7. rsp' \subseteq Response
  BY DEF ServerResponse, TypeOK, ServerTypeOK
<1>8. QED
  BY <1>6, <1>7 DEF ServerResponse, TypeOK, ServerTypeOK

\* A timeout keeps the types.
LEMMA TimeoutStepType ==
    ASSUME TypeOK, NEW s \in Sess, WaitResponseTimeout(s)
    PROVE  TypeOK'
<1>1. handle[s] \in Handles
  BY DEF TypeOK, SessionTypeOK, Handles
<1>2. SessionTypeOK' /\ req' \subseteq Request
  BY <1>1, FinishType DEF WaitResponseTimeout
<1>3. QED
  BY <1>2 DEF WaitResponseTimeout, TypeOK, ServerTypeOK

-----------------------------------------------------------------------------
\* A step of the data server keeps the types.
LEMMA ServerType ==
    ASSUME TypeOK, Server
    PROVE  TypeOK'
<1>1. ServerTypeOK'
  BY QueryType, UpdateType, DeleteType, InsertType, UnlockType
     DEF Server, Serve, TypeOK
<1>2. SessionTypeOK'
  BY DEF Server, sessionVars, TypeOK, SessionTypeOK
<1>3. QED
  BY <1>1, <1>2 DEF TypeOK

\* Every step keeps the types.
LEMMA StepType ==
    ASSUME TypeOK, [Next]_vars
    PROVE  TypeOK'
<1>1. CASE Server
  BY <1>1, ServerType
<1>2. CASE Session
  BY <1>2, QueryRequestType, DirectRequestType, TimeoutStepType,
     ServerResponseType DEF Session
<1>3. CASE Time
  BY <1>3 DEF Time, Tick, sessionVars, TypeOK, ServerTypeOK, SessionTypeOK
<1>4. CASE UNCHANGED vars
  BY <1>4 DEF vars, serverVars, sessionVars, TypeOK, ServerTypeOK, SessionTypeOK
<1>5. QED
  BY <1>1, <1>2, <1>3, <1>4 DEF Next, Done

\* Type correctness: what handlers and sessions exchange and keep is of the
\* declared types, for every number of sessions, records and lock ids.
THEOREM TypeCorrect == Spec => []TypeOK
<1>1. Init => TypeOK
  BY ServerInitType, SessionInitType DEF Init, TypeOK
<1>2. TypeOK /\ [Next]_vars => TypeOK'
  BY StepType
<1>3. QED
  BY <1>1, <1>2, PTL DEF Spec

-----------------------------------------------------------------------------
(* A session and its calls.  A response is matched by its session and the  *)
(* type of its sender alone, so that it fits the session's state must come *)
(* from the calls: FitInv counts, for a session that waits, the requests   *)
(* and the responses under way.                                            *)

\* A call op of session s on the record of k is what s now waits for.
Fits(s, k, op) ==
    /\ state[s] # "IDLE"
    /\ state[s] \in Waiting => state[s] = WaitState(op)
    /\ state[s] = "QUERY_WAIT" => handle[s][k].used /\ ~handle[s][k].finish
    /\ state[s] \in Waiting \ {"QUERY_WAIT"} => k = cur[s]

\* The calls of s under way: requests that will be answered, and answers.
Asks(s) == {m \in req : m.type # "unlock" /\ m.from = s}

Answers(s) == {r \in rsp : r.to = s}

\* Of the calls of s on one record one message is under way.
OneEach(s) ==
    /\ \A m, n \in Asks(s) : m.key = n.key => m = n
    /\ \A p, q \in Answers(s) : p.key = q.key => p = q
    /\ \A m \in Asks(s), r \in Answers(s) : m.key # r.key

SessionFits(s) ==
    /\ \A m \in Asks(s) : Fits(s, m.key, m.type)
    /\ \A r \in Answers(s) : Fits(s, r.key, r.type)
    /\ state[s] \in Waiting => OneEach(s)

FitInv == TypeOK /\ \A s \in Sess : SessionFits(s)

\* A request is taken, and answered at most once with its key and type.
Taken(m) ==
    /\ req' = req \ {m}
    /\ \/ UNCHANGED rsp
       \/ /\ m.type # "unlock"
          /\ \E r \in Response :
                /\ rsp' = rsp \cup {r}
                /\ r.to = m.from /\ r.key = m.key /\ r.type = m.type

\* Every handler of the server takes its request.
LEMMA ServeTakes ==
    ASSUME TypeOK, NEW m \in req, Serve(m)
    PROVE  Taken(m)
<1>1. m \in Request /\ m.from \in Sess /\ m.key \in Key
  BY DEF TypeOK, ServerTypeOK, Request
<1>2. rsp' \subseteq Response
  <2>1. ServerTypeOK'
    BY QueryType, UpdateType, DeleteType, InsertType, UnlockType
       DEF Serve, TypeOK
  <2>2. QED BY <2>1 DEF ServerTypeOK
<1>3. ASSUME NEW r, ReplyWith(m, r), m.type # "unlock",
             r.to = m.from, r.key = m.key, r.type = m.type
      PROVE  Taken(m)
  <2>1. r \in Response
    BY <1>2, <1>3 DEF ReplyWith
  <2>2. QED
    BY <1>3, <2>1 DEF ReplyWith, Taken
<1>4. ASSUME NEW res, m.type # "unlock", ReplyWith(m, Rsp(m, res))
      PROVE  Taken(m)
  <2>1. PICK r : r = Rsp(m, res)
    OBVIOUS
  <2>2. r.to = m.from /\ r.key = m.key /\ r.type = m.type
    BY <2>1 DEF Rsp
  <2>3. QED
    BY <1>3, <1>4, <2>1, <2>2
<1>5. CASE Query(m)
  <2>1. ASSUME NEW res, NEW v, NEW l, NEW h, NEW d,
               ReplyWith(m, QueryRsp(m, res, v, l, h, d))
        PROVE  Taken(m)
    <3>1. PICK r : r = QueryRsp(m, res, v, l, h, d)
      OBVIOUS
    <3>2. r.to = m.from /\ r.key = m.key /\ r.type = "query"
      BY <3>1 DEF QueryRsp
    <3>3. QED
      BY <1>3, <1>5, <2>1, <3>1, <3>2 DEF Query
  <2>2. ASSUME NEW v, NEW l, QueryTail(m, v, l) PROVE Taken(m)
    <3>1. CASE m.version = v
      BY <2>1, <2>2, <3>1 DEF QueryTail
    <3>2. CASE m.version # v
      <4>1. PICK ok \in DbOutcome :
               ReplyWith(m, IF ok
                  THEN QueryRsp(m, "OK", v, l, TRUE, data[m.key])
                  ELSE QueryRsp(m, "LEVELDB", v, l, TRUE, NoData))
        BY <2>2, <3>2 DEF QueryTail
      <4>2. QED
        BY <2>1, <4>1
    <3>3. QED BY <3>1, <3>2
  <2>3. CASE QueryLocks(m)
    BY <2>1, <2>2, <2>3 DEF QueryLocks
  <2>4. QED
    BY <1>5, <2>1, <2>2, <2>3 DEF Query, QueryFails, QueryRefused, QueryReads
<1>6. CASE Update(m)
  BY <1>4, <1>6 DEF Update
<1>7. CASE Delete(m)
  BY <1>4, <1>7 DEF Delete
<1>8. CASE Insert(m)
  BY <1>4, <1>8 DEF Insert
<1>9. CASE Unlock(m)
  BY <1>9 DEF Unlock, Taken
<1>10. QED
  BY <1>5, <1>6, <1>7, <1>8, <1>9 DEF Serve

\* The server turns a session's request into its answer: the calls under
\* way are on the same records as before.
LEMMA ServerFits ==
    ASSUME FitInv, Server
    PROVE  FitInv'
<1>1. PICK m \in req : Serve(m) /\ UNCHANGED sessionVars
  BY DEF Server
<1>2. TypeOK' /\ Taken(m) /\ UNCHANGED <<state, handle, cur>>
  BY <1>1, ServerType, ServeTakes DEF FitInv, sessionVars
<1>3. ASSUME NEW s \in Sess PROVE SessionFits(s)'
  <2>1. \A k, op : Fits(s, k, op)' <=> Fits(s, k, op)
    BY <1>2 DEF Fits
  <2>2. Asks(s)' = Asks(s) \ {m}
    BY <1>2 DEF Taken, Asks
  <2>3. SessionFits(s)
    BY DEF FitInv
  <2>4. CASE Answers(s)' = Answers(s)
    BY <1>2, <2>1, <2>2, <2>3, <2>4 DEF SessionFits, OneEach
  <2>5. CASE Answers(s)' # Answers(s)
    <3>1. PICK r \in Response :
             /\ m \in Asks(s) /\ Answers(s)' = Answers(s) \cup {r}
             /\ r.key = m.key /\ r.type = m.type
      BY <1>2, <2>5 DEF Taken, Answers, Asks
    <3>2. QED
      BY <1>2, <2>1, <2>2, <2>3, <3>1 DEF SessionFits, OneEach
  <2>6. QED
    BY <2>4, <2>5
<1>4. QED
  BY <1>2, <1>3 DEF FitInv

\* A step of session s: it leaves the other sessions alone and adds requests
\* of s only.
StepOf(s) ==
    /\ \A t \in Sess \ {s} : /\ state'[t] = state[t]
                             /\ handle'[t] = handle[t]
                             /\ cur'[t] = cur[t]
    /\ \A m \in req' : m \in req \/ m.from = s
    /\ req \subseteq req'
    /\ rsp' \subseteq rsp

\* So the calls of the other sessions still fit.
LEMMA OthersFit ==
    ASSUME FitInv, TypeOK', NEW s \in Sess, StepOf(s), SessionFits(s)'
    PROVE  FitInv'
<1>1. ASSUME NEW t \in Sess, t # s PROVE SessionFits(t)'
  <2>1. Asks(t)' = Asks(t) /\ Answers(t)' \subseteq Answers(t)
    BY <1>1 DEF StepOf, Asks, Answers
  <2>2. state'[t] = state[t] /\ handle'[t] = handle[t] /\ cur'[t] = cur[t]
    BY <1>1 DEF StepOf
  <2>3. SessionFits(t)
    BY DEF FitInv
  <2>4. QED
    BY <2>1, <2>2, <2>3 DEF SessionFits, OneEach, Fits
<1>2. QED
  BY <1>1 DEF FitInv

\* Whatever a finished session left behind fits: it is dropped.
LEMMA FinishFits ==
    ASSUME FitInv, NEW s \in Sess, NEW h, Finish(s, h), rsp' \subseteq rsp
    PROVE  StepOf(s) /\ SessionFits(s)'
<1>1. state'[s] = "FINISH" /\ \A t \in Sess \ {s} : state'[t] = state[t]
  BY DEF Finish, FitInv, TypeOK, SessionTypeOK
<1>2. \A k \in Key : UnlockReq(s, h, k).from = s
  BY DEF UnlockReq
<1>3. StepOf(s)
  BY <1>1, <1>2 DEF Finish, StepOf, ToUnlock, Used, FitInv, TypeOK, SessionTypeOK
<1>4. state'[s] \notin Waiting /\ state'[s] # "IDLE"
  BY <1>1 DEF Waiting
<1>5. SessionFits(s)'
  BY <1>4 DEF SessionFits, Fits, Waiting
<1>6. QED
  BY <1>3, <1>5

\* No call of s is left once the step has taken its response.
NoneLeft(s) == Asks(s) = {} /\ Answers(s)' = {}

\* The next call of a session that has none under way is the only one.
LEMMA SendFits ==
    ASSUME FitInv, NEW s \in Sess, NEW h, NEW k \in Key,
           NEW op \in {"update", "insert", "delete"}, Send(op, s, h, k),
           rsp' \subseteq rsp, NoneLeft(s)
    PROVE  StepOf(s) /\ SessionFits(s)'
<1>1. PICK m : m = OpReq(op, s, h, k)
  OBVIOUS
<1>2. m.from = s /\ m.key = k /\ m.type = op
  BY <1>1 DEF OpReq, UpdateReq, BareReq
<1>3. req' = req \cup {m}
  BY <1>1 DEF Send
<1>4. StepOf(s)
  BY <1>2, <1>3 DEF Send, StepOf, FitInv, TypeOK, SessionTypeOK
<1>5. state'[s] = WaitState(op) /\ cur'[s] = k
  BY DEF Send, FitInv, TypeOK, SessionTypeOK
<1>6. state'[s] \in Waiting \ {"QUERY_WAIT"} /\ state'[s] # "IDLE"
  BY <1>5 DEF WaitState, Waiting
<1>7. Asks(s)' = {m}
  BY <1>2, <1>3 DEF NoneLeft, Asks
<1>8. Fits(s, k, op)'
  BY <1>5, <1>6 DEF Fits
<1>9. QED
  BY <1>2, <1>4, <1>7, <1>8 DEF NoneLeft, SessionFits, OneEach

\* A session that goes on with none of its calls under way.
LEMMA ProceedFits ==
    ASSUME FitInv, NEW s \in Sess, NEW h, Proceed(s, h),
           rsp' \subseteq rsp, NoneLeft(s)
    PROVE  StepOf(s) /\ SessionFits(s)'
<1>1. Used(h) \subseteq Key /\ Ops \subseteq {"update", "insert", "delete"}
  BY SessionAssumption DEF Used
<1>2. QED
  BY <1>1, FinishFits, SendFits DEF Proceed

\* A session asks for each of its records once.
LEMMA QueryRequestFits ==
    ASSUME FitInv, NEW s \in Sess, QueryRequest(s)
    PROVE  StepOf(s) /\ SessionFits(s)'
<1>1. PICK K \in SUBSET Key, L \in SUBSET Key :
         /\ handle' = [handle EXCEPT ![s] = Asked(K, L)]
         /\ req' = req \cup {QueryReq(s, Asked(K, L), k) : k \in K}
  BY DEF QueryRequest
<1>2. PICK f : f = [k \in Key |-> QueryReq(s, Asked(K, L), k)]
  OBVIOUS
<1>3. /\ req' = req \cup {f[k] : k \in K}
      /\ \A k \in K : f[k].from = s /\ f[k].key = k /\ f[k].type = "query"
  BY <1>1, <1>2 DEF QueryReq
<1>4. /\ state' = [state EXCEPT ![s] = "QUERY_WAIT"] /\ UNCHANGED <<cur, rsp>>
      /\ state[s] = "IDLE"
  BY DEF QueryRequest
<1>5. StepOf(s)
  BY <1>1, <1>3, <1>4 DEF StepOf, FitInv, TypeOK, SessionTypeOK
<1>6. Asks(s) = {} /\ Answers(s) = {}
  BY <1>4 DEF FitInv, SessionFits, Fits
<1>7. Asks(s)' = {f[k] : k \in K} /\ Answers(s)' = {}
  BY <1>3, <1>4, <1>6 DEF Asks, Answers
<1>8. state'[s] = "QUERY_WAIT" /\ handle'[s] = Asked(K, L)
  BY <1>1, <1>4 DEF FitInv, TypeOK, SessionTypeOK
<1>9. \A k \in K : Asked(K, L)[k].used /\ ~Asked(K, L)[k].finish
  BY DEF Asked, AddQueryDataAndLock, AddQueryData, NoHandle
<1>10. \A k \in K : Fits(s, k, "query")'
  BY <1>8, <1>9 DEF Fits, WaitState
<1>11. QED
  BY <1>3, <1>5, <1>7, <1>10 DEF SessionFits, OneEach

\* A session that starts with an insert or a delete makes that one call.
LEMMA DirectRequestFits ==
    ASSUME FitInv, NEW s \in Sess, DirectRequest(s)
    PROVE  StepOf(s) /\ SessionFits(s)'
<1>1. PICK k \in Key, op \in Ops \ {"update"} :
         Send(op, s, [handle[s] EXCEPT ![k].used = TRUE], k)
  BY DEF DirectRequest
<1>2. op \in {"update", "insert", "delete"}
  BY SessionAssumption
<1>3. state[s] = "IDLE" /\ rsp' = rsp
  BY DEF DirectRequest
<1>4. NoneLeft(s)
  BY <1>3 DEF FitInv, SessionFits, Fits, NoneLeft, Answers
<1>5. QED
  BY <1>1, <1>2, <1>3, <1>4, SendFits

\* The last answer of those a session waits for leaves none of its calls.
LEMMA LastAnswer ==
    ASSUME FitInv, NEW r \in rsp, rsp' = rsp \ {r}, r.to \in Sess,
           \/ state[r.to] \in Waiting \ {"QUERY_WAIT"}
           \/ /\ state[r.to] = "QUERY_WAIT" /\ r \in Response
              /\ r.type = "query" /\ IsQueryReady(Filled(handle[r.to], r))
    PROVE  NoneLeft(r.to)
<1> DEFINE s == r.to
           h == Filled(handle[s], r)
<1>1. SessionFits(s) /\ r \in Answers(s)
  BY DEF FitInv, Answers
<1>2. OneEach(s)
  BY <1>1 DEF SessionFits, Waiting
<1>3. \A m \in Asks(s) : m.key # r.key
  BY <1>1, <1>2 DEF OneEach
<1>4. \A p \in Answers(s)' : p \in Answers(s) /\ p.key # r.key
  BY <1>1, <1>2 DEF OneEach, Answers
<1>5. CASE state[s] \in Waiting \ {"QUERY_WAIT"}
  BY <1>1, <1>3, <1>4, <1>5 DEF SessionFits, Fits, NoneLeft
<1>6. CASE state[s] = "QUERY_WAIT" /\ r \in Response /\ IsQueryReady(h)
  <2>1. ASSUME NEW k \in Key, k # r.key, Fits(s, k, "query") PROVE FALSE
    <3>1. h[k] = handle[s][k]
      BY <2>1 DEF Filled, FitInv, TypeOK, SessionTypeOK
    <3>2. h[k].used /\ ~h[k].finish
      BY <1>6, <2>1, <3>1 DEF Fits
    <3>3. QED
      BY <1>6, <2>1, <3>2 DEF IsQueryReady, Used
  <2>2. \A m \in Asks(s) : m.key \in Key /\ Fits(s, m.key, "query")
    BY <1>1, <1>6
       DEF SessionFits, Fits, Asks, FitInv, TypeOK, ServerTypeOK, Request,
           Waiting
  <2>3. \A p \in Answers(s) : p.key \in Key /\ Fits(s, p.key, "query")
    BY <1>1, <1>6
       DEF SessionFits, Fits, Answers, FitInv, TypeOK, ServerTypeOK, Response,
           Waiting
  <2>4. QED
    BY <1>3, <1>4, <2>1, <2>2, <2>3 DEF NoneLeft
<1>7. QED
  BY <1>5, <1>6

\* A response: the session waits for the others, or has none under way.
LEMMA ServerResponseFits ==
    ASSUME FitInv, NEW r \in rsp, ServerResponse(r)
    PROVE  r.to \in Sess /\ StepOf(r.to) /\ SessionFits(r.to)'
<1> DEFINE s == r.to
           h == Filled(handle[s], r)
<1>1. s \in Sess /\ r \in Response
  BY DEF FitInv, TypeOK, ServerTypeOK, Response
<1>2. rsp' = rsp \ {r}
  BY DEF ServerResponse
<1>3. CASE Finish(s, handle[s]) \/ Finish(s, h)
  BY <1>1, <1>2, <1>3, FinishFits
<1>4. CASE /\ state[s] = "QUERY_WAIT" /\ r.type = "query" /\ IsQueryReady(h)
           /\ Proceed(s, h)
  BY <1>1, <1>2, <1>4, LastAnswer, ProceedFits
<1>5. CASE state[s] \in Waiting \ {"QUERY_WAIT"} /\ Proceed(s, handle[s])
  BY <1>1, <1>2, <1>5, LastAnswer, ProceedFits
<1>6. CASE /\ state[s] = "QUERY_WAIT"
           /\ handle' = [handle EXCEPT ![s] = h]
           /\ UNCHANGED <<state, cur, req>>
  <2>1. StepOf(s)
    BY <1>1, <1>2, <1>6 DEF StepOf, FitInv, TypeOK, SessionTypeOK
  <2>2. Asks(s)' = Asks(s) /\ Answers(s)' = Answers(s) \ {r}
    BY <1>2, <1>6 DEF Asks, Answers
  <2>3. SessionFits(s) /\ r \in Answers(s) /\ OneEach(s)
    BY <1>1, <1>6 DEF FitInv, SessionFits, Waiting, Answers
  <2>4. \A k \in Key \ {r.key} : handle'[s][k] = handle[s][k]
    BY <1>1, <1>6 DEF Filled, FitInv, TypeOK, SessionTypeOK
  <2>5. \A op : \A k \in Key \ {r.key} : Fits(s, k, op) => Fits(s, k, op)'
    BY <1>6, <2>4 DEF Fits
  <2>6. \A m \in Asks(s)' : m.key \in Key \ {r.key}
    BY <2>2, <2>3 DEF OneEach, Asks, FitInv, TypeOK, ServerTypeOK, Request
  <2>7. \A p \in Answers(s)' : p.key \in Key \ {r.key}
    BY <2>2, <2>3 DEF OneEach, Answers, FitInv, TypeOK, ServerTypeOK, Response
  <2>8. QED
    BY <1>1, <1>6, <2>1, <2>2, <2>3, <2>5, <2>6, <2>7 DEF SessionFits, OneEach
<1>7. CASE LateMessage(s)
  <2>1. StepOf(s)
    BY <1>2, <1>7 DEF LateMessage, StepOf
  <2>2. state'[s] = "FINISH"
    BY <1>7 DEF LateMessage
  <2>3. SessionFits(s)'
    BY <2>2 DEF SessionFits, Fits, Waiting
  <2>4. QED
    BY <1>1, <2>1, <2>3
<1>8. QED
  BY <1>3, <1>4, <1>5, <1>6, <1>7 DEF ServerResponse, QueryMessage, OpMessage

\* FitInv is inductive.
LEMMA FitInvStep ==
    ASSUME FitInv, [Next]_vars
    PROVE  FitInv'
<1>1. TypeOK'
  BY StepType DEF FitInv
<1>2. CASE Server
  BY <1>2, ServerFits
<1>3. CASE Session
  <2>1. ASSUME NEW s \in Sess, WaitResponseTimeout(s)
        PROVE  StepOf(s) /\ SessionFits(s)'
    BY <2>1, FinishFits DEF WaitResponseTimeout
  <2>2. \E s \in Sess : StepOf(s) /\ SessionFits(s)'
    BY <1>3, <2>1, QueryRequestFits, DirectRequestFits, ServerResponseFits
       DEF Session
  <2>3. QED
    BY <1>1, <2>2, OthersFit
<1>4. CASE Time \/ UNCHANGED vars
  <2>1. UNCHANGED <<req, rsp, state, handle, cur>>
    BY <1>4 DEF Time, Tick, vars, serverVars, sessionVars
  <2>2. QED
    BY <1>1, <2>1 DEF FitInv, SessionFits, OneEach, Fits, Asks, Answers
<1>5. QED
  BY <1>2, <1>3, <1>4 DEF Next, Done

\* No call is under way at the start.
LEMMA FitInvInit == Init => FitInv
<1> SUFFICES ASSUME Init PROVE FitInv
  OBVIOUS
<1>1. TypeOK
  BY ServerInitType, SessionInitType DEF Init, TypeOK
<1>2. \A s \in Sess : /\ Asks(s) = {} /\ Answers(s) = {}
                      /\ state[s] \notin Waiting
  BY DEF Init, ServerInit, SessionInit, Asks, Answers, Waiting
<1>3. QED
  BY <1>1, <1>2 DEF FitInv, SessionFits

\* FitInv holds in every reachable state.
LEMMA FitInvariant == Spec => []FitInv
<1>1. QED
  BY FitInvInit, FitInvStep, PTL DEF Spec

\* A waiting session never has a response of another kind, or for another
\* record, on its way: GetServerResponse may look at the session and the
\* sender's type alone.
THEOREM ResponsesFit == Spec => []ResponseFitsState
<1>1. FitInv => ResponseFitsState
  <2> SUFFICES ASSUME FitInv, NEW r \in rsp
               PROVE  Fits(r.to, r.key, r.type)
    BY DEF ResponseFitsState, Fits
  <2>1. r.to \in Sess
    BY DEF FitInv, TypeOK, ServerTypeOK, Response
  <2>2. QED
    BY <2>1 DEF FitInv, SessionFits, Answers
<1>2. QED
  BY <1>1, FitInvariant, PTL
=============================================================================
