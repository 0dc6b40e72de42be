----------------------------- MODULE DataServer -----------------------------
(***************************************************************************)
(* The data server (datasvrd): a LevelDB of records guarded by a control   *)
(* record each - a version, and a lock that the server gives away for      *)
(* db_lock_timeout milliseconds - and the five handlers that serve other   *)
(* servers' sessions: query, update, delete, insert and unlock.            *)
(*                                                                         *)
(* A handler runs to completion in one turn of the event loop, so it is    *)
(* one action.  A request is delivered at most once, in any order: the     *)
(* sender spreads its messages over every proxy and a proxy drops what it  *)
(* cannot forward, so a request that is never handled is a lost one.       *)
(*                                                                         *)
(* History variables (no code state): grant and inc, and the fields inc    *)
(* and base of messages.  No guard reads them, except that grant makes     *)
(* DrawsDistinct expressible.                                              *)
(***************************************************************************)
EXTENDS Naturals, FiniteSets

CONSTANTS
    Sess,          \* the sessions of other servers; also the values they write
    Key,           \* (data type, id) pairs: one record each
    NoData,        \* the value of a message with no data field set
    NoVersion,     \* a query that names no version
    MaxLockId,     \* MAX_LOCK_ID; ids are drawn at random from 1..MaxLockId
    DrawsDistinct, \* TRUE: two draws never return the same id
    DbLockTimeout, \* db_lock_timeout of the deployment configuration
    MaxClock,      \* bound on the clock
    DbMayFail      \* TRUE: any single LevelDB operation may fail

LockIds == 1..MaxLockId
NoLock  == 0

ASSUME ConstantsAssumption ==
    /\ MaxLockId \in Nat \ {0}
    /\ DbLockTimeout \in Nat
    /\ MaxClock \in Nat
    /\ DrawsDistinct \in BOOLEAN
    /\ DbMayFail \in BOOLEAN
    /\ NoData \notin Sess
    /\ NoVersion \notin Nat

VARIABLES
    ctl,    \* ctl[k]: the DBControlInfo of record k
    data,   \* data[k]: the value of record k
    clock,  \* ClockTimeMilli of the server
    req,    \* requests on their way to the server
    rsp,    \* responses on their way to the sessions
    grant,  \* history: grant[id] is the set of <<s, k>> id was drawn for
    inc     \* history: how often record k was deleted or inserted

serverVars == <<ctl, data, clock, req, rsp, grant, inc>>

-----------------------------------------------------------------------------
Value  == Sess \cup {NoData}
LockId == LockIds \cup {NoLock}

Control == [has: BOOLEAN, version: Nat, lock: LockId, lockTime: Nat]

\* What a query of a key that is not in the database leaves in the message.
NoControl == [has |-> FALSE, version |-> 0, lock |-> NoLock, lockTime |-> 0]

Results == {"OK", "LEVELDB", "ALREADY_LOCK", "VERSION_NOT_MATCH",
            "LOCK_NOT_MATCH", "ALREADY_HAS_DATA"}

Request ==
    [type: {"query"}, from: Sess, key: Key, need: BOOLEAN,
     version: Nat \cup {NoVersion}]
      \cup
    [type: {"update"}, from: Sess, key: Key, version: Nat, lock: LockId,
     base: Value, inc: Nat]
      \cup
    [type: {"insert", "delete"}, from: Sess, key: Key]
      \cup
    [type: {"unlock"}, from: Sess, key: Key, lock: LockIds]

Response ==
    [type: {"query"}, to: Sess, key: Key, result: Results, version: Nat,
     lock: LockId, hasData: BOOLEAN, data: Value, inc: Nat]
      \cup
    [type: {"update", "insert", "delete"}, to: Sess, key: Key, result: Results]

ServerTypeOK ==
    /\ ctl \in [Key -> Control]
    /\ data \in [Key -> Value]
    /\ clock \in Nat
    /\ req \subseteq Request
    /\ rsp \subseteq Response
    /\ grant \in [LockIds -> SUBSET (Sess \X Key)]
    /\ inc \in [Key -> Nat]

-----------------------------------------------------------------------------
Expired(c) == c.lockTime + DbLockTimeout < clock

\* A lock older than db_lock_timeout is dropped from the copy the handler
\* works on; the database still holds it until the handler saves the copy.
UpdateTimeoutLock(c) ==
    IF c.lock # NoLock /\ Expired(c)
    THEN [c EXCEPT !.lock = NoLock, !.lockTime = 0]
    ELSE c

\* Record k is locked and its lock has not timed out: what the properties
\* say of the lock, independently of the handlers.
InForce(k) == ctl[k].lock # NoLock /\ clock <= ctl[k].lockTime + DbLockTimeout

\* The outcomes of one LevelDB operation: TRUE for success.
DbOutcome == IF DbMayFail THEN BOOLEAN ELSE {TRUE}

ReplyWith(m, r) == /\ req' = req \ {m}
                   /\ rsp' = rsp \cup {r}

QueryRsp(m, result, version, lock, hasData, d) ==
    [type |-> "query", to |-> m.from, key |-> m.key, result |-> result,
     version |-> version, lock |-> lock, hasData |-> hasData, data |-> d,
     inc |-> inc[m.key]]

Rsp(m, result) ==
    [type |-> m.type, to |-> m.from, key |-> m.key, result |-> result]

-----------------------------------------------------------------------------
ServerInit ==
    /\ ctl = [k \in Key |-> NoControl]
    /\ data = [k \in Key |-> NoData]
    /\ clock = 0
    /\ req = {}
    /\ rsp = {}
    /\ grant = [id \in LockIds |-> {}]
    /\ inc = [k \in Key |-> 0]

\* Mutant: the random draw is off by one at its upper end.
DrawableOffByOne == 1..(MaxLockId + 1)

\* The ids a random draw may return.
Drawable == {id \in LockIds : DrawsDistinct => grant[id] = {}}

\* The tail of a query: the reply carries the data unless the sender named
\* the current version, or the data cannot be read (a lock stays taken then).
QueryTail(m, version, lock) ==
    IF m.version = version
    THEN ReplyWith(m, QueryRsp(m, "OK", version, lock, FALSE, NoData))
    ELSE \E ok \in DbOutcome :
            ReplyWith(m, IF ok
                THEN QueryRsp(m, "OK", version, lock, TRUE, data[m.key])
                ELSE QueryRsp(m, "LEVELDB", version, lock, TRUE, NoData))

\* QueryDataHandler: the control record cannot be read.
QueryFails(m) ==
    /\ DbMayFail
    /\ ReplyWith(m, QueryRsp(m, "LEVELDB", 0, NoLock, FALSE, NoData))
    /\ UNCHANGED <<ctl, grant>>

\* Mutant: a locked record is locked again.
MayAlwaysLock(m, c) == m.need

\* ... the request needs the lock and may take it: nobody has it.
MayLock(m, c) == m.need /\ c.lock = NoLock

\* ... the request needs the lock and someone else has it.
QueryRefused(m) ==
    LET c == UpdateTimeoutLock(ctl[m.key])
    IN  /\ m.need
        /\ c.lock # NoLock
        /\ ReplyWith(m, QueryRsp(m, "ALREADY_LOCK", c.version, NoLock,
                                 FALSE, NoData))
        /\ UNCHANGED <<ctl, grant>>

\* ... the request needs the lock and gets it, if the control record can be
\* saved.
QueryLocks(m) ==
    LET c == UpdateTimeoutLock(ctl[m.key])
    IN  /\ MayLock(m, c)
        /\ \E id \in Drawable :
              \/ /\ ctl' = [ctl EXCEPT ![m.key] =
                                [c EXCEPT !.has = TRUE, !.lock = id,
                                          !.lockTime = clock]]
                 /\ grant' = [grant EXCEPT ![id] = @ \cup {<<m.from, m.key>>}]
                 /\ QueryTail(m, c.version, id)
              \/ /\ DbMayFail
                 /\ ReplyWith(m, QueryRsp(m, "LEVELDB", c.version, id,
                                          FALSE, NoData))
                 /\ UNCHANGED <<ctl, grant>>

\* ... the request only reads.
QueryReads(m) ==
    /\ ~m.need
    /\ QueryTail(m, ctl[m.key].version, NoLock)
    /\ UNCHANGED <<ctl, grant>>

Query(m) ==
    /\ m \in req /\ m.type = "query"
    /\ QueryFails(m) \/ QueryRefused(m) \/ QueryLocks(m) \/ QueryReads(m)
    /\ UNCHANGED <<data, clock, inc>>

-----------------------------------------------------------------------------
\* Mutant: the version of an update is not checked.
UpdateCheckLockOnly(m, c) == IF m.lock # c.lock THEN "LOCK_NOT_MATCH" ELSE "OK"

\* The first check of UpdateDataHandler that fails, or "OK".
UpdateCheck(m, c) ==
    CASE m.version # c.version -> "VERSION_NOT_MATCH"
      [] m.version = c.version /\ m.lock # c.lock -> "LOCK_NOT_MATCH"
      [] OTHER -> "OK"

\* Mutant: the version is not advanced.
UpdatedSameVersion(c) == [NoControl EXCEPT !.has = TRUE, !.version = c.version]

\* The control record an applied update saves.
Updated(c) == [NoControl EXCEPT !.has = TRUE, !.version = c.version + 1]

\* UpdateDataHandler: an update is applied when its version and lock match;
\* control record and data are written in one batch, and the lock is gone.
Update(m) ==
    /\ m \in req /\ m.type = "update"
    /\ LET c == UpdateTimeoutLock(ctl[m.key])
       IN  \/ /\ DbMayFail
              /\ ReplyWith(m, Rsp(m, "LEVELDB"))
              /\ UNCHANGED <<ctl, data>>
           \/ /\ UpdateCheck(m, c) # "OK"
              /\ ReplyWith(m, Rsp(m, UpdateCheck(m, c)))
              /\ UNCHANGED <<ctl, data>>
           \/ /\ UpdateCheck(m, c) = "OK"
              /\ ReplyWith(m, Rsp(m, "OK"))
              /\ ctl' = [ctl EXCEPT ![m.key] = Updated(c)]
              /\ data' = [data EXCEPT ![m.key] = m.from]
    /\ UNCHANGED <<clock, grant, inc>>

\* DeleteDataHandler: control record and data are deleted one after the
\* other whatever the lock and the version are; neither result is looked at.
\* A crash of the server between the two is the case where only the first
\* takes effect.
Delete(m) ==
    /\ m \in req /\ m.type = "delete"
    /\ \E ctlGone, dataGone \in DbOutcome :
          /\ ctl' = IF ctlGone THEN [ctl EXCEPT ![m.key] = NoControl] ELSE ctl
          /\ data' = IF dataGone THEN [data EXCEPT ![m.key] = NoData] ELSE data
    /\ ReplyWith(m, Rsp(m, "OK"))
    /\ inc' = [inc EXCEPT ![m.key] = @ + 1]
    /\ UNCHANGED <<clock, grant>>

\* LevelDBManager::Has: a control record that cannot be read is reported
\* exactly like one that is not there.
Has(k, readable) == ctl[k].has /\ readable

\* InsertDataHandler.
Insert(m) ==
    /\ m \in req /\ m.type = "insert"
    /\ \E readable \in DbOutcome :
          \/ /\ Has(m.key, readable)
             /\ ReplyWith(m, Rsp(m, "ALREADY_HAS_DATA"))
             /\ UNCHANGED <<ctl, data, inc>>
          \/ /\ ~Has(m.key, readable)
             /\ ReplyWith(m, Rsp(m, "OK"))
             /\ ctl' = [ctl EXCEPT ![m.key] =
                           [NoControl EXCEPT !.has = TRUE, !.version = 1]]
             /\ data' = [data EXCEPT ![m.key] = m.from]
             /\ inc' = [inc EXCEPT ![m.key] = @ + 1]
          \/ /\ ~Has(m.key, readable) /\ DbMayFail
             /\ ReplyWith(m, Rsp(m, "LEVELDB"))
             /\ UNCHANGED <<ctl, data, inc>>
    /\ UNCHANGED <<clock, grant>>

\* Mutant: any unlock notify unlocks.
AnyLock(m, c) == TRUE

\* The check of UnlockDataHandler: the lock is the one the sender names.
OwnLock(m, c) == c.lock = m.lock

\* UnlockDataHandler: no reply, and no effect unless the lock is the sender's.
Unlock(m) ==
    /\ m \in req /\ m.type = "unlock"
    /\ req' = req \ {m}
    /\ LET c == UpdateTimeoutLock(ctl[m.key])
       IN  \/ /\ OwnLock(m, c)
              /\ ctl' = [ctl EXCEPT ![m.key] =
                            [c EXCEPT !.has = TRUE, !.lock = NoLock,
                                      !.lockTime = 0]]
           \/ /\ ~OwnLock(m, c) \/ DbMayFail
              /\ UNCHANGED ctl
    /\ UNCHANGED <<data, clock, rsp, grant, inc>>

Tick == /\ clock < MaxClock
        /\ clock' = clock + 1
        /\ UNCHANGED <<ctl, data, req, rsp, grant, inc>>

Serve(m) == Query(m) \/ Update(m) \/ Delete(m) \/ Insert(m) \/ Unlock(m)
=============================================================================
