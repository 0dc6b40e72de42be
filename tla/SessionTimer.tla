---------------------------- MODULE SessionTimer ----------------------------
(***************************************************************************)
(* The request sessions of one server: SessionManager, TimerManager and    *)
(* the wait / response / timeout part of BasicHandler.                     *)
(*                                                                         *)
(* A request that arrives is given a session, if one is free.  Its handler *)
(* answers at once or calls other servers and waits: RunStateMachine then  *)
(* sets a timer and returns to the event loop, so between two events every *)
(* session waits.  Responses find their session by its id alone.           *)
(*                                                                         *)
(* A released timer is only marked deleted; it keeps its place in the map  *)
(* until it expires.  GameServer saves sessions and timers in shared       *)
(* memory when it is told to stop, and recovers them when it starts again; *)
(* the events it handles between the signal and the end of the loop are    *)
(* not in what it saved.  A crash, or the stop of any other server, loses  *)
(* them all.                                                               *)
(*                                                                         *)
(* History (no code state): the fields owner and call of messages, which   *)
(* no guard reads but as the (type, id) of the record a response is about; *)
(* status and answers.                                                     *)
(***************************************************************************)
EXTENDS Naturals, FiniteSets

CONSTANTS
    Request,       \* the requests that arrive, once each
    Free,          \* what an unused place of a map holds
    NoTimer,       \* has_timer_id() is false
    SessionSize,   \* session_size of the deployment configuration
    TimerSize,     \* timer_size of the deployment configuration
    MaxSessionId,  \* MAX_SESSION_ID
    MaxTimerId,    \* MAX_TIMER_ID
    FirstSession,  \* the two counters when the model begins: the server may
    FirstTimer,    \* have run for long, so that its ids are about to wrap
    Timeout,       \* DEF_SESSION_TIMEOUT, in ticks of the model
    LeakTime,      \* DEF_SESSION_LEAK_TIME, in ticks of the model
    MaxCalls,      \* bound on the calls one session makes
    MaxRestarts,   \* bound on restarts with recovery
    MaxCrashes     \* bound on restarts without

SessionId == 0..MaxSessionId
TimerId   == 0..MaxTimerId

ASSUME ManagerAssumption ==
    /\ SessionSize \in 1..MaxSessionId
    /\ TimerSize \in 1..MaxTimerId
    /\ MaxSessionId \in Nat /\ MaxTimerId \in Nat
    /\ FirstSession \in SessionId /\ FirstTimer \in TimerId
    /\ Timeout \in Nat \ {0} /\ LeakTime \in Nat \ {0}
    /\ MaxCalls \in Nat /\ MaxRestarts \in Nat /\ MaxCrashes \in Nat
    /\ NoTimer \notin TimerId

VARIABLES
    session,     \* session[i]: the session with id i, or Free
    timer,       \* timer[t]: the timer with id t, or Free
    maxSession,  \* _cur_max_id of SessionManager, masked
    maxTimer,    \* _cur_max_id of TimerManager, masked
    saved,       \* the maps in shared memory, once the server is to stop
    net,         \* responses of other servers on their way to this one
    status,      \* history: what became of a request
    answers,     \* history: how many responses were sent to a request
    stops        \* how often the server was restarted, and crashed

vars == <<session, timer, maxSession, maxTimer, saved, net, status, answers,
          stops>>

-----------------------------------------------------------------------------
\* Several queries of records are sent at once; every other call is alone.
\* The result of an HTTP request comes from curl, in the same process.
Kind == {"db", "server", "curl"}

Call == 1..MaxCalls

Session == [owner: Request, kind: Kind, pending: SUBSET Call, calls: 0..MaxCalls,
            timer: TimerId \cup {NoTimer}, age: 0..(LeakTime + 1), sent: BOOLEAN]

Timer == [session: SessionId, left: 0..Timeout, deleted: BOOLEAN]

Message == [to: SessionId, kind: Kind, owner: Request, call: Call]

TypeOK ==
    /\ session \in [SessionId -> Session \cup {Free}]
    /\ timer \in [TimerId -> Timer \cup {Free}]
    /\ maxSession \in SessionId /\ maxTimer \in TimerId
    /\ saved = Free \/ saved \in [session: [SessionId -> Session \cup {Free}],
                                  timer: [TimerId -> Timer \cup {Free}]]
    /\ net \subseteq Message
    /\ status \in [Request -> {"new", "taken", "refused", "lost"}]
    /\ answers \in [Request -> Nat]
    /\ stops \in [restarts: 0..MaxRestarts, crashes: 0..MaxCrashes]

\* The ids in use in a map.
Live(map) == {i \in DOMAIN map : map[i] # Free}

Full(map, size) == Cardinality(Live(map)) >= size

\* Mutant: ids are not masked.
NextIdUnmasked(cur, map) == cur + 1

\* Mutant: the smallest free id is taken.
NextIdSmallest(cur, map) ==
    CHOOSE i \in DOMAIN map \ Live(map) : \A j \in DOMAIN map \ Live(map) : i <= j

\* do { id = (++_cur_max_id) & MAX; } while (exist(id))
NextId(cur, map) ==
    LET n    == Cardinality(DOMAIN map)
        Hit  == {j \in 1..n : map[(cur + j) % n] = Free}
    IN  (cur + (CHOOSE j \in Hit : \A i \in Hit : j <= i)) % n

NewSession(r) == [owner |-> r, kind |-> "server", pending |-> {}, calls |-> 0,
                  timer |-> NoTimer, age |-> 0, sent |-> FALSE]

-----------------------------------------------------------------------------
Init ==
    /\ session = [i \in SessionId |-> Free]
    /\ timer = [t \in TimerId |-> Free]
    /\ maxSession = FirstSession /\ maxTimer = FirstTimer
    /\ saved = Free
    /\ net = {}
    /\ status = [r \in Request |-> "new"]
    /\ answers = [r \in Request |-> 0]
    /\ stops = [restarts |-> 0, crashes |-> 0]

\* ReleaseTimer: an id that is not in the map is ignored.
ReleaseTimer(tm, t) ==
    IF t \in Live(tm) THEN [tm EXCEPT ![t].deleted = TRUE] ELSE tm

\* timer_id() of a session without a timer is 0.
TimerIdOf(x) == IF x.timer = NoTimer THEN 0 ELSE x.timer

\* Mutant: a response that was sent early is sent again.
FinishSendsAgain(i, x, tm) ==
    /\ session' = [session EXCEPT ![i] = Free]
    /\ answers' = [answers EXCEPT ![x.owner] = @ + 1]
    /\ timer' = tm
    /\ UNCHANGED maxTimer

\* SESSION_STATE_FINISH: the response is sent, unless it was before, and the
\* session released.  x is session i without its timer, tm the timers.
Finish(i, x, tm) ==
    /\ session' = [session EXCEPT ![i] = Free]
    /\ answers' = [answers EXCEPT ![x.owner] = IF x.sent THEN @ ELSE @ + 1]
    /\ timer' = tm
    /\ UNCHANGED maxTimer

\* Mutant: only the first wait of a session has a timer.
SetSessionTimerOnce(i, x, tm) ==
    /\ session' = [session EXCEPT ![i] = [x EXCEPT !.timer =
                      IF x.calls = 1 THEN NextId(maxTimer, tm) ELSE NoTimer]]
    /\ timer' = IF x.calls > 1 THEN tm ELSE
                 [tm EXCEPT ![NextId(maxTimer, tm)] =
                     [session |-> i, left |-> Timeout, deleted |-> FALSE]]
    /\ maxTimer' = IF x.calls = 1 THEN NextId(maxTimer, tm) ELSE maxTimer

\* SetSessionTimer, at the end of RunStateMachine: without a free place in
\* the timer map the session waits with no timer.
SetSessionTimer(i, x, tm) ==
    IF Full(tm, TimerSize)
    THEN /\ session' = [session EXCEPT ![i] = x]
         /\ timer' = tm
         /\ UNCHANGED maxTimer
    ELSE LET t == NextId(maxTimer, tm)
         IN  /\ session' = [session EXCEPT ![i] = [x EXCEPT !.timer = t]]
             /\ timer' = [tm EXCEPT ![t] = [session |-> i, left |-> Timeout,
                                           deleted |-> FALSE]]
             /\ maxTimer' = t

\* The handler calls n other servers and the session waits; it may already
\* send its response.  msgs are the messages on their way.
CallAndWait(i, x, tm, msgs) ==
    \E kind \in Kind, n \in 1..2, early \in BOOLEAN :
        LET new == (x.calls + 1)..(x.calls + n)
        IN  /\ x.calls + n <= MaxCalls
            /\ n = 1 \/ kind = "db"
            /\ early => ~x.sent
            /\ net' = msgs \cup {[to |-> i, kind |-> kind, owner |-> x.owner,
                                  call |-> c] : c \in new}
            /\ answers' = [answers EXCEPT ![x.owner] = IF early THEN @ + 1 ELSE @]
            /\ SetSessionTimer(i, [x EXCEPT !.kind = kind, !.pending = new,
                                            !.calls = @ + n,
                                            !.sent = @ \/ early], tm)

\* RunStateMachine until the session waits or is released.
RunStateMachine(i, x, tm, msgs) ==
    \/ Finish(i, x, tm) /\ net' = msgs
    \/ x.pending = {} /\ CallAndWait(i, x, tm, msgs)
    \/ /\ x.pending # {} /\ x.kind = "db"
       /\ SetSessionTimer(i, x, tm)
       /\ net' = msgs /\ UNCHANGED answers

-----------------------------------------------------------------------------
\* OnConnectionMessage with a request: a full server drops it.
GetRequest(r) ==
    /\ status[r] = "new"
    /\ IF Full(session, SessionSize)
       THEN /\ status' = [status EXCEPT ![r] = "refused"]
            /\ UNCHANGED <<session, timer, maxSession, maxTimer, net, answers>>
       ELSE LET i == NextId(maxSession, session)
            IN  /\ status' = [status EXCEPT ![r] = "taken"]
                /\ maxSession' = i
                /\ RunStateMachine(i, NewSession(r), timer, net)
    /\ UNCHANGED <<saved, stops>>

\* The session after it got m: its timer is released, the call answered.
Answered(x, m) == [x EXCEPT !.timer = NoTimer, !.pending = @ \ {m.call}]

\* Mutant: the timer of a session that is answered stays alive.
AcceptKeepsTimer(i, m) ==
    RunStateMachine(i, Answered(session[i], m), timer, net \ {m})

Accept(i, m) ==
    RunStateMachine(i, Answered(session[i], m),
                    ReleaseTimer(timer, TimerIdOf(session[i])), net \ {m})

\* GetServerResponse: a response of another kind of server than the session
\* waits for is dropped.  GetCurlResult looks at nothing.
Expected(i, m) == m.kind = "curl" \/ session[i].kind = m.kind

GetResponse(m) ==
    /\ m \in net
    /\ IF m.to \in Live(session) /\ Expected(m.to, m)
       THEN Accept(m.to, m)
       ELSE /\ net' = net \ {m}
            /\ UNCHANGED <<session, timer, maxTimer, answers>>
    /\ UNCHANGED <<maxSession, saved, status, stops>>

\* The call, or its response, is lost.
Lose(m) ==
    /\ m \in net /\ m.kind # "curl"
    /\ net' = net \ {m}
    /\ UNCHANGED <<session, timer, maxSession, maxTimer, saved, status, answers,
                   stops>>

-----------------------------------------------------------------------------
Due == {t \in Live(timer) : timer[t].left = 0}

\* The sessions whose timers fire.
TimedOut == {timer[t].session : t \in {t \in Due : ~timer[t].deleted}}
              \cap Live(session)

\* OnTick: every timer that is due leaves the map; the sessions of those not
\* deleted end with an error response (WaitResponseTimeout).
OnTick ==
    /\ Due # {}
    /\ timer' = [t \in TimerId |-> IF t \in Due THEN Free ELSE timer[t]]
    /\ session' = [i \in SessionId |-> IF i \in TimedOut THEN Free ELSE session[i]]
    /\ answers' = [r \in Request |-> answers[r] + Cardinality(
                      {i \in TimedOut : session[i].owner = r /\ ~session[i].sent})]
    /\ UNCHANGED <<maxSession, maxTimer, saved, net, status, stops>>

\* Mutant: the leak check looks at nothing.
NoLeak == {}

Leaked == {i \in Live(session) : session[i].age > LeakTime}

\* The leak check releases old sessions and their timers, with no response.
LeakCheck ==
    /\ Leaked # {}
    /\ session' = [i \in SessionId |-> IF i \in Leaked THEN Free ELSE session[i]]
    /\ timer' = [t \in TimerId |->
                    IF t \in Live(timer) /\ t \in {session[i].timer : i \in Leaked}
                    THEN [timer[t] EXCEPT !.deleted = TRUE] ELSE timer[t]]
    /\ UNCHANGED <<maxSession, maxTimer, saved, net, status, answers, stops>>

\* Time passes.  The loop is not held up: it runs OnTick, every 10 ms, before
\* a tick of the model is over, and the leak check before another is; the
\* last turn of a loop that is to end is shorter than a tick.
Tick ==
    /\ Due = {} /\ Leaked = {} /\ saved = Free
    /\ Live(session) # {} \/ Live(timer) # {}
    /\ session' = [i \in SessionId |->
                      IF i \in Live(session)
                      THEN [session[i] EXCEPT !.age = IF @ <= LeakTime THEN @ + 1
                                                                      ELSE @]
                      ELSE Free]
    /\ timer' = [t \in TimerId |->
                    IF t \in Live(timer) THEN [timer[t] EXCEPT !.left = @ - 1]
                                         ELSE Free]
    /\ UNCHANGED <<maxSession, maxTimer, saved, net, status, answers, stops>>

-----------------------------------------------------------------------------
\* The largest id in use, or 0.
MaxLive(map) == CHOOSE n \in DOMAIN map :
                    /\ n \in Live(map) \cup {0}
                    /\ \A i \in Live(map) : i <= n

\* The requests of the sessions in one map and not in another.
Dropped(from, to) ==
    {from[i].owner : i \in Live(from)} \ {to[i].owner : i \in Live(to)}

Forget(R) == [r \in Request |-> IF r \in R THEN "lost" ELSE status[r]]

\* The signal to stop: OnExit saves both maps, and the loop is to end.
Stop ==
    /\ saved = Free
    /\ stops.restarts < MaxRestarts
    /\ stops' = [stops EXCEPT !.restarts = @ + 1]
    /\ saved' = [session |-> session, timer |-> timer]
    /\ UNCHANGED <<session, timer, maxSession, maxTimer, net, status, answers>>

\* GameServer has stopped and starts again: both maps are recovered, the
\* counters are the largest ids in the maps.  HTTP requests are gone.
Restart ==
    /\ saved # Free
    /\ session' = saved.session
    /\ timer' = saved.timer
    /\ maxSession' = MaxLive(saved.session)
    /\ maxTimer' = MaxLive(saved.timer)
    /\ saved' = Free
    /\ net' = {m \in net : m.kind # "curl"}
    /\ status' = Forget(Dropped(session, saved.session))
    /\ UNCHANGED <<answers, stops>>

\* The server ends with nothing saved and starts again.
Crash ==
    /\ saved = Free
    /\ stops.crashes < MaxCrashes
    /\ stops' = [stops EXCEPT !.crashes = @ + 1]
    /\ session' = [i \in SessionId |-> Free]
    /\ timer' = [t \in TimerId |-> Free]
    /\ maxSession' = 0 /\ maxTimer' = 0
    /\ net' = {m \in net : m.kind # "curl"}
    /\ status' = Forget({session[i].owner : i \in Live(session)})
    /\ UNCHANGED <<saved, answers>>

\* Nothing is left to do.
Done ==
    /\ \A r \in Request : status[r] # "new"
    /\ Live(session) = {} /\ Live(timer) = {} /\ net = {} /\ saved = Free
    /\ UNCHANGED vars

Next ==
    \/ \E r \in Request : GetRequest(r)
    \/ \E m \in net : GetResponse(m) \/ Lose(m)
    \/ OnTick \/ LeakCheck \/ Tick
    \/ Stop \/ Restart \/ Crash \/ Done

\* The event loop runs its timers for ever; a server that is to stop does, and
\* the script that stopped it starts it again.
Fairness == WF_vars(OnTick) /\ WF_vars(LeakCheck) /\ WF_vars(Tick)
              /\ WF_vars(Restart)

Spec == Init /\ [][Next]_vars /\ Fairness

-----------------------------------------------------------------------------
\* Timers and sessions agree: a timer that is not deleted is the one timer of
\* a session that waits, so it never ends a later wait, and a session that
\* was given a timer has it until it is answered.  Timer 0 is left out: it is
\* what timer_id() says for no timer, so that any session that waits without
\* one deletes it.
TimersMatch ==
    /\ \A t \in Live(timer) : ~timer[t].deleted =>
          /\ timer[t].session \in Live(session)
          /\ session[timer[t].session].timer = t
    /\ \A i \in Live(session) : session[i].timer \notin {NoTimer, 0} =>
          /\ session[i].timer \in Live(timer)
          /\ ~timer[session[i].timer].deleted
          /\ timer[session[i].timer].session = i

\* A session takes only the responses to its own calls, and only those it
\* waits for, though responses name nothing but a session id.
ResponseIsOwn ==
    [][\A m \in net :
          ( /\ m \notin net' /\ m.to \in Live(session)
            /\ session'[m.to] # session[m.to] )
          => /\ m.owner = session[m.to].owner
             /\ m.call \in session[m.to].pending]_vars

\* No request gets two responses, whatever times out, is sent early or comes
\* late, while the server runs.
AtMostOneResponse == \A r \in Request : answers[r] <= 1

\* Session i waits with no timer that will end its wait, for a reason: the
\* map of timers is full, or its timer was timer 0.
Untimed(i) ==
    LET t == session[i].timer
    IN  \/ t = NoTimer /\ Full(timer, TimerSize)
        \/ t = 0 /\ (timer[0] = Free \/ timer[0].deleted \/ timer[0].session # i)

\* Every request that was given a session is answered, unless its session was
\* lost when the server went down, or once waited without a timer.
EveryRequestAnswered ==
    \A r \in Request :
        \/ (status[r] = "taken") ~> (answers[r] > 0 \/ status[r] = "lost")
        \/ <>(\E i \in Live(session) : session[i].owner = r /\ Untimed(i))

\* Every session is released, timers or not.
EverySessionEnds ==
    \A i \in SessionId : (session[i] # Free) ~> (session[i] = Free)
=============================================================================
