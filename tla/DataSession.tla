---------------------------- MODULE DataSession ----------------------------
(***************************************************************************)
(* Sessions of a game server that read, lock and write records of the data *)
(* server: the DBSVR part of the state machine of BasicHandler.            *)
(*                                                                         *)
(* RunStateMachine loops until the session waits or is finished, so the    *)
(* states in between (DBSVR_QUERY, _SUCCESS, _NEXT, _MESSAGE, _TIMEOUT)    *)
(* are never seen by another event and every action below runs the loop to *)
(* its next WAIT or to FINISH.  What a concrete handler does when its data *)
(* is ready (OnDBSvrQuerySuccess) is a choice among the operations in Ops. *)
(*                                                                         *)
(* A session is identified by a fresh id; after FINISH it is released and  *)
(* messages for it find no session.                                        *)
(***************************************************************************)
EXTENDS DataServer

CONSTANTS
    RobotKey,  \* the keys of DATA_TYPE_ROBOT_DATA, the one type handlers store
    Ops        \* the operations a handler may start when its data is ready

ASSUME SessionAssumption ==
    /\ Key # {}
    /\ RobotKey \subseteq Key
    /\ Ops \subseteq {"update", "insert", "delete"}

VARIABLES
    state,   \* state[s]: session_state at the end of RunStateMachine
    handle,  \* handle[s][k]: the DBHandle of k, if s has one
    cur      \* cur[s]: the key db_process_index points at

sessionVars == <<state, handle, cur>>
vars == <<serverVars, sessionVars>>

-----------------------------------------------------------------------------
WaitState(op) == CASE op = "query"  -> "QUERY_WAIT"
                   [] op = "update" -> "UPDATE_WAIT"
                   [] op = "insert" -> "INSERT_WAIT"
                   [] op = "delete" -> "DELETE_WAIT"

Waiting == {"QUERY_WAIT", "UPDATE_WAIT", "INSERT_WAIT", "DELETE_WAIT"}

\* done: db_process_index has passed the handle.  inc is history.
DBHandle == [used: BOOLEAN, need: BOOLEAN, finish: BOOLEAN, done: BOOLEAN,
             version: Nat, lock: LockId, data: Value, inc: Nat]

NoHandle == [used |-> FALSE, need |-> FALSE, finish |-> FALSE, done |-> FALSE,
             version |-> 0, lock |-> NoLock, data |-> NoData, inc |-> 0]

SessionTypeOK ==
    /\ state \in [Sess -> Waiting \cup {"IDLE", "FINISH"}]
    /\ handle \in [Sess -> [Key -> DBHandle]]
    /\ cur \in [Sess -> Key]

Used(h) == {k \in Key : h[k].used}

\* The requests a session sends for key k with handles h.
QueryReq(s, h, k) ==
    [type |-> "query", from |-> s, key |-> k, need |-> h[k].need,
     version |-> NoVersion]

UpdateReq(s, h, k) ==
    [type |-> "update", from |-> s, key |-> k, version |-> h[k].version,
     lock |-> h[k].lock, base |-> h[k].data, inc |-> h[k].inc]

BareReq(op, s, k) == [type |-> op, from |-> s, key |-> k]

OpReq(op, s, h, k) ==
    IF op = "update" THEN UpdateReq(s, h, k) ELSE BareReq(op, s, k)

UnlockReq(s, h, k) ==
    [type |-> "unlock", from |-> s, key |-> k, lock |-> h[k].lock]

\* The handles OnSessionFinish unlocks.
ToUnlock(h) == {k \in Used(h) : h[k].need /\ h[k].lock # NoLock}

-----------------------------------------------------------------------------
\* SESSION_STATE_FINISH: unlock notifies go out and the session is released.
Finish(s, h) ==
    /\ state' = [state EXCEPT ![s] = "FINISH"]
    /\ handle' = [handle EXCEPT ![s] = h]
    /\ req' = req \cup {UnlockReq(s, h, k) : k \in ToUnlock(h)}
    /\ UNCHANGED cur

\* DBSVR_UPDATE, _INSERT or _DELETE for key k: one message, then wait.  An
\* update uses up the lock id of the handle: it is a one time lock.
AfterSend(op, h, k) ==
    [h EXCEPT ![k].done = TRUE,
              ![k].lock = IF op = "update" THEN NoLock ELSE @]

Send(op, s, h, k) ==
    /\ state' = [state EXCEPT ![s] = WaitState(op)]
    /\ handle' = [handle EXCEPT ![s] = AfterSend(op, h, k)]
    /\ cur' = [cur EXCEPT ![s] = k]
    /\ req' = req \cup {OpReq(op, s, h, k)}

\* QUERY_SUCCESS: the handler works on one of the handles that are left, or
\* ends the session.
Proceed(s, h) ==
    \/ \E k \in Used(h), op \in Ops : ~h[k].done /\ Send(op, s, h, k)
    \/ Finish(s, h)

-----------------------------------------------------------------------------
SessionInit ==
    /\ state = [s \in Sess |-> "IDLE"]
    /\ handle = [s \in Sess |-> [k \in Key |-> NoHandle]]
    /\ cur = [s \in Sess |-> CHOOSE k \in Key : TRUE]

\* AddQueryData and AddQueryDataAndLock.
AddQueryData == [NoHandle EXCEPT !.used = TRUE]

AddQueryDataAndLock == [AddQueryData EXCEPT !.need = TRUE]

\* The handles of a session that asks for the records of K, those of L with
\* the lock.
Asked(K, L) ==
    [k \in Key |-> IF k \in L THEN AddQueryDataAndLock
                   ELSE IF k \in K THEN AddQueryData ELSE NoHandle]

\* A client request whose handler asks for the records of K, those of L with
\* the lock; all queries are sent at once.
QueryRequest(s) ==
    /\ state[s] = "IDLE"
    /\ \E K \in SUBSET Key : \E L \in SUBSET K :
          /\ K # {}
          /\ handle' = [handle EXCEPT ![s] = Asked(K, L)]
          /\ req' = req \cup {QueryReq(s, Asked(K, L), k) : k \in K}
    /\ state' = [state EXCEPT ![s] = "QUERY_WAIT"]
    /\ UNCHANGED <<cur, ctl, data, clock, rsp, grant, inc>>

\* A client request whose handler inserts or deletes a record unseen.
DirectRequest(s) ==
    /\ state[s] = "IDLE"
    /\ \E k \in Key, op \in Ops \ {"update"} :
          Send(op, s, [handle[s] EXCEPT ![k].used = TRUE], k)
    /\ UNCHANGED <<ctl, data, clock, rsp, grant, inc>>

-----------------------------------------------------------------------------
\* Mutant: the version of the response is not saved.
FilledNoVersion(h, r) ==
    [h EXCEPT ![r.key].finish = TRUE,
              ![r.key].lock = IF r.lock = NoLock THEN @ ELSE r.lock,
              ![r.key].data = r.data, ![r.key].inc = r.inc]

\* The handle of r's record after OnDBSvrQueryMessage.
Filled(h, r) ==
    [h EXCEPT ![r.key].finish = TRUE, ![r.key].version = r.version,
              ![r.key].lock = IF r.lock = NoLock THEN @ ELSE r.lock,
              ![r.key].data = r.data, ![r.key].inc = r.inc]

\* Mutant: one finished query is enough.
IsSomeQueryReady(h) == \E k \in Used(h) : h[k].finish

IsQueryReady(h) == \A k \in Used(h) : h[k].finish

\* A query response: an error ends the session, and so does a record of a
\* type that is not stored, after its lock id has been noted; with the last
\* response the handler goes on.
QueryMessage(s, r) ==
    /\ state[s] = "QUERY_WAIT" /\ r.type = "query"
    /\ LET h == Filled(handle[s], r)
       IN  \/ r.result # "OK" /\ Finish(s, handle[s])
           \/ r.result = "OK" /\ r.key \notin RobotKey /\ Finish(s, h)
           \/ r.result = "OK" /\ r.key \in RobotKey /\ IsQueryReady(h)
                /\ Proceed(s, h)
           \/ /\ r.result = "OK" /\ r.key \in RobotKey /\ ~IsQueryReady(h)
              /\ handle' = [handle EXCEPT ![s] = h]
              /\ UNCHANGED <<state, cur, req>>

\* The response to the update, insert or delete the session waits for.  The
\* session ends unless it was an update that worked.
OpMessage(s, r) ==
    /\ state[s] \in Waiting \ {"QUERY_WAIT"}
    /\ IF state[s] = "UPDATE_WAIT" /\ r.result = "OK" /\ r.key = cur[s]
       THEN Proceed(s, handle[s])
       ELSE Finish(s, handle[s])

\* A response whose session has been released is dropped.
LateMessage(s) ==
    /\ state[s] = "FINISH"
    /\ UNCHANGED <<state, handle, cur, req>>

ServerResponse(r) ==
    /\ r \in rsp
    /\ rsp' = rsp \ {r}
    /\ QueryMessage(r.to, r) \/ OpMessage(r.to, r) \/ LateMessage(r.to)
    /\ UNCHANGED <<ctl, data, clock, grant, inc>>

\* The timer of a waiting session fires before its response.
WaitResponseTimeout(s) ==
    /\ state[s] \in Waiting
    /\ Finish(s, handle[s])
    /\ UNCHANGED <<ctl, data, clock, rsp, grant, inc>>

-----------------------------------------------------------------------------
Init == ServerInit /\ SessionInit

Server == /\ \E m \in req : Serve(m)
          /\ UNCHANGED sessionVars

Session == \/ \E s \in Sess : \/ QueryRequest(s)
                              \/ DirectRequest(s)
                              \/ WaitResponseTimeout(s)
           \/ \E r \in rsp : ServerResponse(r)

Time == Tick /\ UNCHANGED sessionVars

\* Every session is over, every message delivered, the clock at its bound.
Done == /\ \A s \in Sess : state[s] = "FINISH"
        /\ req = {} /\ rsp = {} /\ clock = MaxClock
        /\ UNCHANGED vars

Next == Server \/ Session \/ Time \/ Done

Spec == Init /\ [][Next]_vars

TypeOK == ServerTypeOK /\ SessionTypeOK

-----------------------------------------------------------------------------
\* No lost update: when an update is applied, the record still holds the
\* value its session read, in the same incarnation of the record, whatever
\* timeouts, lock expiries, losses and id collisions happened in between.
NoLostUpdate ==
    [][\A m \in req :
          ( /\ m.type = "update" /\ m \notin req'
            /\ ctl'[m.key].version # ctl[m.key].version
            /\ m.inc = inc[m.key] )
          => m.base = data[m.key]]_vars

\* The lock is a lease: while it has not timed out, its record changes only
\* by a request of a session the lock's id was drawn for (with distinct
\* draws: the one holder), or by a delete, which looks at no lock, or by an
\* insert that could not read the control record.
LeaseExclusive ==
    [][\A k \in Key :
          InForce(k) /\ (ctl'[k] # ctl[k] \/ data'[k] # data[k])
          => \E m \in req \ req' :
                /\ m.key = k
                /\ \/ m.type = "delete"
                   \/ m.type = "insert" /\ DbMayFail
                   \/ <<m.from, k>> \in grant[ctl[k].lock]]_vars

\* The holder is never refused: while the lock an update names is in force
\* and the record has not been deleted, the update also names the version.
HolderNotRefused ==
    DrawsDistinct =>
    \A m \in req :
        ( /\ m.type = "update" /\ m.inc = inc[m.key]
          /\ InForce(m.key) /\ m.lock = ctl[m.key].lock )
        => m.version = ctl[m.key].version

\* A version names a value: two reads of one incarnation of a record that
\* report the same version report the same data.
VersionNamesData ==
    \A p, q \in rsp :
        ( /\ p.type = "query" /\ q.type = "query"
          /\ p.result = "OK" /\ q.result = "OK"
          /\ p.key = q.key /\ p.inc = q.inc /\ p.version = q.version )
        => p.data = q.data

\* GetServerResponse looks at the sender's type only, not at what the
\* message is: a waiting session never has a response of another kind, or
\* for another record, on its way.
ResponseFitsState ==
    \A r \in rsp :
        /\ state[r.to] # "IDLE"
        /\ state[r.to] \in Waiting => state[r.to] = WaitState(r.type)
        /\ state[r.to] = "QUERY_WAIT" =>
              handle[r.to][r.key].used /\ ~handle[r.to][r.key].finish
        /\ state[r.to] \in Waiting \ {"QUERY_WAIT"} => r.key = cur[r.to]

\* "check exist" (InsertDataHandler): an insert never replaces a record.
InsertNeverOverwrites ==
    [][\A m \in req :
          (m.type = "insert" /\ m \notin req' /\ ctl[m.key].has)
          => data'[m.key] = data[m.key]]_vars

-----------------------------------------------------------------------------
\* The data server implements RecordLease, if lock ids do not repeat and no
\* database operation fails.
Nobody == NoData

Holder(k) == IF InForce(k) THEN CHOOSE s \in Sess : <<s, k>> \in grant[ctl[k].lock]
                           ELSE Nobody

Lease == INSTANCE RecordLease WITH
            holder <- [k \in Key |-> Holder(k)], value <- data

LeaseSpec == Lease!Spec
=============================================================================
