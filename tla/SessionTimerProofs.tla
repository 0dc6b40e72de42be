-------------------------- MODULE SessionTimerProofs --------------------------
(***************************************************************************)
(* Sessions and their timers, for any number of requests and ids and any   *)
(* size of the maps: types, that a timer ends only the wait it was set     *)
(* for, and, without recovery, that no request is answered twice and a     *)
(* session takes no response but its own.                                  *)
(*                                                                         *)
(* RunStateMachine has few effects, which Ran lists: the session ends, or  *)
(* it waits with a new timer, or with none.  What it is run on is a        *)
(* session whose timer was released, so no timer points at it.             *)
(***************************************************************************)
EXTENDS SessionTimer, FiniteSetTheorems, WellFoundedInduction, TLAPS

SessionMap == [SessionId -> Session \cup {Free}]
TimerMap == [TimerId -> Timer \cup {Free}]

\* TimersMatch, of any two maps
Match(ss, tm) ==
    /\ \A t \in Live(tm) : ~tm[t].deleted =>
           tm[t].session \in Live(ss) /\ ss[tm[t].session].timer = t
    /\ \A i \in Live(ss) : ss[i].timer \notin {NoTimer, 0} =>
           ss[i].timer \in Live(tm) /\ ~tm[ss[i].timer].deleted /\ tm[ss[i].timer].session = i

MatchInv == Match(session, timer) /\ (saved # Free => Match(saved.session, saved.timer))

\* the same but for session i, at which no timer points
Loose(ss, tm, i) ==
    /\ \A t \in Live(tm) : ~tm[t].deleted =>
           tm[t].session \in Live(ss) \ {i} /\ ss[tm[t].session].timer = t
    /\ \A j \in Live(ss) \ {i} : ss[j].timer \notin {NoTimer, 0} =>
           ss[j].timer \in Live(tm) /\ ~tm[ss[j].timer].deleted /\ tm[ss[j].timer].session = j

\* who was answered, while nothing is recovered
AnswersInv ==
    /\ saved = Free
    /\ \A i, j \in Live(session) : session[i].owner = session[j].owner => i = j
    /\ \A i \in Live(session) :
           /\ status[session[i].owner] # "new"
           /\ answers[session[i].owner] = IF session[i].sent THEN 1 ELSE 0
    /\ \A r \in Request : answers[r] <= 1 /\ (status[r] = "new" => answers[r] = 0)

-----------------------------------------------------------------------------
(* Ids.                                                                    *)

LEMMA SmallestExists ==
    ASSUME NEW S \in SUBSET Nat, S # {}
    PROVE  \E x \in S : \A y \in S : x <= y
<1>1. \E x \in S : \A y \in S : ~(<<y, x>> \in OpToRel(<, Nat))
  BY NatLessThanWellFounded, WFMin
<1>2. PICK x \in S : \A y \in S : ~(<<y, x>> \in OpToRel(<, Nat))
  BY <1>1
<1>3. ASSUME NEW y \in S PROVE x <= y
  <2>1. x \in Nat /\ y \in Nat
    OBVIOUS
  <2>2. ~(<<y, x>> \in {ss \in Nat \X Nat : ss[1] < ss[2]})
    BY <1>2 DEF OpToRel
  <2> QED BY <2>1, <2>2
<1> QED BY <1>3

LEMMA Modulo ==
    ASSUME NEW n \in Nat \ {0}, NEW a \in 0..(n - 1)
    PROVE  a % n = a /\ (a + n) % n = a
OBVIOUS

LEMMA ModuloType ==
    ASSUME NEW n \in Nat \ {0}, NEW a \in Nat
    PROVE  a % n \in 0..(n - 1)
OBVIOUS

\* a map that is not full has a free id, and the next one is found
LEMMA NextIdIsFree ==
    ASSUME NEW M \in Nat, NEW X, NEW map \in [0..M -> X], NEW size \in 1..M,
           NEW cur \in 0..M, ~Full(map, size)
    PROVE  NextId(cur, map) \in 0..M /\ map[NextId(cur, map)] = Free
<1> DEFINE n == Cardinality(DOMAIN map)
           Hit == {j \in 1..n : map[(cur + j) % n] = Free}
<1>1. n = M + 1 /\ IsFiniteSet(0..M) /\ DOMAIN map = 0..M
  <2>1. DOMAIN map = 0..M
    OBVIOUS
  <2>2. Cardinality(0..M) = M + 1 /\ IsFiniteSet(0..M)
    BY FS_Interval
  <2> QED BY <2>1, <2>2
<1>2. PICK i \in 0..M : map[i] = Free
  <2>1. Live(map) # 0..M
    <3> SUFFICES ASSUME Live(map) = 0..M PROVE FALSE
      OBVIOUS
    <3>1. Cardinality(Live(map)) = M + 1
      BY <1>1
    <3> QED BY <3>1 DEF Full
  <2> QED BY <2>1 DEF Live
<1>3. Hit # {}
  <2> DEFINE j == IF i > cur THEN i - cur ELSE i - cur + (M + 1)
  <2>1. j \in 1..(M + 1) /\ (cur + j = i \/ cur + j = i + (M + 1))
    OBVIOUS
  <2>2. (cur + j) % (M + 1) = i
    <3> DEFINE N == M + 1
    <3>1. N \in Nat \ {0} /\ i \in 0..(N - 1)
      OBVIOUS
    <3> HIDE DEF N
    <3>2. i % N = i /\ (i + N) % N = i
      BY <3>1, Modulo
    <3>3. CASE cur + j = i
      BY <3>2, <3>3 DEF N
    <3>4. CASE cur + j = i + (M + 1)
      BY <3>2, <3>4 DEF N
    <3> QED BY <2>1, <3>3, <3>4
  <2> HIDE DEF j
  <2>3. j \in Hit
    BY <1>1, <1>2, <2>1, <2>2
  <2> QED BY <2>3
<1>4. Hit \in SUBSET Nat
  BY <1>1
<1> DEFINE h == CHOOSE j \in Hit : \A k \in Hit : j <= k
<1>5. h \in Hit
  <2> HIDE DEF Hit
  <2> QED BY <1>3, <1>4, SmallestExists
<1>6. NextId(cur, map) = (cur + h) % n
  BY DEF NextId
<1> HIDE DEF h
<1>7. h \in 1..n /\ map[(cur + h) % n] = Free
  BY <1>5
<1>8. (cur + h) % n \in 0..M
  <2>1. cur + h \in Nat /\ M + 1 \in Nat \ {0}
    BY <1>1, <1>7
  <2> DEFINE N == M + 1
  <2>2. (cur + h) % N \in 0..M
    <3>1. 0..(N - 1) = 0..M /\ N \in Nat \ {0}
      OBVIOUS
    <3> HIDE DEF N
    <3> QED BY <2>1, <3>1, ModuloType
  <2> QED BY <1>1, <2>2
<1> QED BY <1>6, <1>7, <1>8

-----------------------------------------------------------------------------
(* RunStateMachine.                                                        *)

NewTimer(i) == [session |-> i, left |-> Timeout, deleted |-> FALSE]

\* session i, which was x, waits as y
Waits(i, x, y, tm) ==
    /\ y \in Session /\ y.owner = x.owner /\ (x.sent => y.sent)
    /\ session' = [session EXCEPT ![i] = y]
    /\ answers' = [answers EXCEPT ![x.owner] = IF y.sent /\ ~x.sent THEN @ + 1 ELSE @]
    /\ \/ y.timer = NoTimer /\ timer' = tm
       \/ /\ y.timer \in TimerId /\ tm[y.timer] = Free
          /\ timer' = [tm EXCEPT ![y.timer] = NewTimer(i)]

Ends(i, x, tm) ==
    /\ session' = [session EXCEPT ![i] = Free]
    /\ answers' = [answers EXCEPT ![x.owner] = IF x.sent THEN @ ELSE @ + 1]
    /\ timer' = tm

Ran(i, x, tm) ==
    /\ Ends(i, x, tm) \/ \E y \in Session : Waits(i, x, y, tm)
    /\ maxTimer' \in TimerId /\ net' \subseteq Message

LEMMA TimerSet ==
    ASSUME NEW i \in SessionId, NEW tm \in TimerMap, maxTimer \in TimerId,
           NEW x \in Session, x.timer = NoTimer, SetSessionTimer(i, x, tm)
    PROVE  \E y \in Session :
               /\ y.owner = x.owner /\ y.sent = x.sent
               /\ session' = [session EXCEPT ![i] = y] /\ maxTimer' \in TimerId
               /\ \/ y.timer = NoTimer /\ timer' = tm
                  \/ /\ y.timer \in TimerId /\ tm[y.timer] = Free
                     /\ timer' = [tm EXCEPT ![y.timer] = NewTimer(i)]
<1>1. CASE Full(tm, TimerSize)
  BY <1>1 DEF SetSessionTimer
<1>2. CASE ~Full(tm, TimerSize)
  <2> DEFINE t == NextId(maxTimer, tm)
             y == [x EXCEPT !.timer = t]
  <2>1. t \in TimerId /\ tm[t] = Free
    BY <1>2, NextIdIsFree, ManagerAssumption DEF TimerId, TimerMap
  <2>2. /\ session' = [session EXCEPT ![i] = y]
        /\ timer' = [tm EXCEPT ![t] = NewTimer(i)] /\ maxTimer' = t
    BY <1>2 DEF SetSessionTimer, NewTimer
  <2> HIDE DEF t
  <2>3. y \in Session /\ y.owner = x.owner /\ y.sent = x.sent /\ y.timer = t
    BY <2>1 DEF Session
  <2> HIDE DEF y
  <2> QED BY <2>1, <2>2, <2>3
<1> QED BY <1>1, <1>2

LEMMA Running ==
    ASSUME NEW i \in SessionId, NEW tm \in TimerMap, maxTimer \in TimerId,
           NEW x \in Session, x.timer = NoTimer, NEW msgs \in SUBSET Message,
           answers \in [Request -> Nat],
           RunStateMachine(i, x, tm, msgs)
    PROVE  Ran(i, x, tm)
<1>1. CASE Finish(i, x, tm) /\ net' = msgs
  BY <1>1 DEF Finish, Ran, Ends
<1>2. CASE CallAndWait(i, x, tm, msgs)
  <2>1. PICK kind \in Kind, n \in 1..2, early \in BOOLEAN :
            LET new == (x.calls + 1)..(x.calls + n)
            IN  /\ x.calls + n <= MaxCalls
                /\ early => ~x.sent
                /\ net' = msgs \cup {[to |-> i, kind |-> kind, owner |-> x.owner,
                                      call |-> c] : c \in new}
                /\ answers' = [answers EXCEPT ![x.owner] = IF early THEN @ + 1 ELSE @]
                /\ SetSessionTimer(i, [x EXCEPT !.kind = kind, !.pending = new,
                                                !.calls = @ + n,
                                                !.sent = @ \/ early], tm)
    BY <1>2 DEF CallAndWait
  <2> DEFINE new == (x.calls + 1)..(x.calls + n)
             z == [x EXCEPT !.kind = kind, !.pending = new, !.calls = @ + n, !.sent = @ \/ early]
  <2>2. x.calls \in 0..MaxCalls /\ x.calls + n \in 0..MaxCalls /\ new \subseteq Call
        /\ x.owner \in Request
    BY <2>1, ManagerAssumption DEF Session, Call
  <2>3. z \in Session /\ z.owner = x.owner /\ z.timer = NoTimer /\ z.sent = (x.sent \/ early)
    BY <2>2 DEF Session
  <2>4. net' \subseteq Message
    BY <2>1, <2>2 DEF Message
  <2>5. SetSessionTimer(i, z, tm)
    BY <2>1
  <2> HIDE DEF z, new
  <2>6. PICK y \in Session :
               /\ y.owner = z.owner /\ y.sent = z.sent
               /\ session' = [session EXCEPT ![i] = y] /\ maxTimer' \in TimerId
               /\ \/ y.timer = NoTimer /\ timer' = tm
                  \/ /\ y.timer \in TimerId /\ tm[y.timer] = Free
                     /\ timer' = [tm EXCEPT ![y.timer] = NewTimer(i)]
    BY <2>3, <2>5, TimerSet
  <2>7. (y.sent /\ ~x.sent) = early /\ (x.sent => y.sent)
    BY <2>1, <2>3, <2>6 DEF Session
  <2>8. answers' = [answers EXCEPT ![x.owner] = IF y.sent /\ ~x.sent THEN @ + 1 ELSE @]
    BY <2>1, <2>7
  <2>9. Waits(i, x, y, tm)
    BY <2>3, <2>6, <2>7, <2>8 DEF Waits
  <2> QED BY <2>4, <2>6, <2>9 DEF Ran
<1>3. CASE SetSessionTimer(i, x, tm) /\ net' = msgs /\ UNCHANGED answers
  <2>1. PICK y \in Session :
               /\ y.owner = x.owner /\ y.sent = x.sent
               /\ session' = [session EXCEPT ![i] = y] /\ maxTimer' \in TimerId
               /\ \/ y.timer = NoTimer /\ timer' = tm
                  \/ /\ y.timer \in TimerId /\ tm[y.timer] = Free
                     /\ timer' = [tm EXCEPT ![y.timer] = NewTimer(i)]
    BY <1>3, TimerSet
  <2>2. answers' = [answers EXCEPT ![x.owner] = IF y.sent /\ ~x.sent THEN @ + 1 ELSE @]
    BY <1>3, <2>1
  <2>3. Waits(i, x, y, tm)
    BY <2>1, <2>2 DEF Waits
  <2> QED BY <1>3, <2>1, <2>3 DEF Ran
<1> QED BY <1>1, <1>2, <1>3 DEF RunStateMachine

LEMMA RanTypes ==
    ASSUME session \in SessionMap, answers \in [Request -> Nat],
           NEW i \in SessionId, NEW tm \in TimerMap, NEW x \in Session, Ran(i, x, tm)
    PROVE  /\ session' \in SessionMap /\ timer' \in TimerMap /\ answers' \in [Request -> Nat]
           /\ maxTimer' \in TimerId /\ net' \subseteq Message
<1>1. x.owner \in Request
  BY DEF Session
<1>2. NewTimer(i) \in Timer
  BY ManagerAssumption DEF NewTimer, Timer
<1>3. CASE Ends(i, x, tm)
  BY <1>1, <1>3 DEF Ends, Ran, SessionMap
<1>4. CASE \E y \in Session : Waits(i, x, y, tm)
  <2>1. PICK y \in Session : Waits(i, x, y, tm)
    BY <1>4
  <2>2. session' \in SessionMap /\ answers' \in [Request -> Nat]
    BY <1>1, <2>1 DEF Waits, SessionMap
  <2>3. timer' \in TimerMap
    BY <1>2, <2>1 DEF Waits, TimerMap
  <2> QED BY <2>2, <2>3 DEF Ran
<1> QED BY <1>3, <1>4 DEF Ran

\* a session with no timer pointing at it, run, agrees with its timers again
LEMMA RanMatches ==
    ASSUME session \in SessionMap, NEW i \in SessionId, NEW tm \in TimerMap,
           NEW x \in Session, Ran(i, x, tm), Loose(session, tm, i), Free \notin Session, Free \notin Timer
    PROVE  Match(session', timer')
<1>1. CASE Ends(i, x, tm)
  <2>1. Live(session') = Live(session) \ {i} /\ timer' = tm
        /\ \A j \in Live(session') : session'[j] = session[j]
    BY <1>1 DEF Ends, Live, SessionMap
  <2> QED BY <2>1 DEF Loose, Match
<1>2. CASE \E y \in Session : Waits(i, x, y, tm)
  <2>1. PICK y \in Session : Waits(i, x, y, tm)
    BY <1>2
  <2>2. /\ Live(session') = Live(session) \cup {i} /\ session'[i] = y
        /\ \A j \in Live(session') \ {i} : session'[j] = session[j]
    BY <2>1 DEF Waits, Live, SessionMap
  <2>3. CASE y.timer = NoTimer /\ timer' = tm
    BY <2>2, <2>3 DEF Loose, Match
  <2>4. CASE /\ y.timer \in TimerId /\ tm[y.timer] = Free
             /\ timer' = [tm EXCEPT ![y.timer] = NewTimer(i)]
    <3> DEFINE t == y.timer
    <3>1. /\ t \notin Live(tm) /\ Live(timer') = Live(tm) \cup {t}
          /\ timer'[t] = NewTimer(i) /\ \A u \in Live(tm) : timer'[u] = tm[u]
      <4>1. NewTimer(i) # Free
        <5>1. NewTimer(i) \in Timer
          BY ManagerAssumption DEF NewTimer, Timer
        <5> QED BY <5>1
      <4> QED BY <2>4, <4>1 DEF Live, TimerMap
    <3>2. NewTimer(i).session = i /\ ~NewTimer(i).deleted
      BY DEF NewTimer
    <3>3. \A u \in Live(timer') : ~timer'[u].deleted =>
              timer'[u].session \in Live(session') /\ session'[timer'[u].session].timer = u
      <4> TAKE u \in Live(timer')
      <4>1. CASE u = t
        BY <2>2, <3>1, <3>2, <4>1
      <4>2. CASE u # t
        BY <2>2, <3>1, <4>2 DEF Loose
      <4> QED BY <4>1, <4>2
    <3>4. \A j \in Live(session') : session'[j].timer \notin {NoTimer, 0} =>
              /\ session'[j].timer \in Live(timer') /\ ~timer'[session'[j].timer].deleted
              /\ timer'[session'[j].timer].session = j
      <4> TAKE j \in Live(session')
      <4>1. CASE j = i
        BY <2>2, <3>1, <3>2, <4>1
      <4>2. CASE j # i
        BY <2>2, <3>1, <4>2 DEF Loose
      <4> QED BY <4>1, <4>2
    <3> QED BY <3>3, <3>4 DEF Match
  <2> QED BY <2>1, <2>3, <2>4 DEF Waits
<1> QED BY <1>1, <1>2 DEF Ran

-----------------------------------------------------------------------------
(* The steps.                                                              *)

\* an unused place is neither a session nor a timer
FreeIsNone == Free \notin Session /\ Free \notin Timer

LEMMA NewSessionType ==
    ASSUME NEW r \in Request
    PROVE  /\ NewSession(r) \in Session /\ NewSession(r).owner = r
           /\ NewSession(r).timer = NoTimer /\ ~NewSession(r).sent
BY ManagerAssumption DEF NewSession, Session, Kind

LEMMA RequestStep ==
    ASSUME FreeIsNone, TypeOK, MatchInv, NEW r \in Request, GetRequest(r)
    PROVE  TypeOK' /\ MatchInv'
<1>1. saved' = saved /\ stops' = stops
  BY DEF GetRequest
<1>2. CASE Full(session, SessionSize)
  <2>1. /\ UNCHANGED <<session, timer, maxSession, maxTimer, net, answers>>
        /\ status' = [status EXCEPT ![r] = "refused"]
    BY <1>2 DEF GetRequest
  <2> QED BY <1>1, <2>1 DEF TypeOK, MatchInv
<1>3. CASE ~Full(session, SessionSize)
  <2> DEFINE i == NextId(maxSession, session)
             x == NewSession(r)
  <2>1. /\ status' = [status EXCEPT ![r] = "taken"] /\ maxSession' = i
        /\ RunStateMachine(i, x, timer, net)
    BY <1>3 DEF GetRequest
  <2>2. i \in SessionId /\ session[i] = Free
    BY <1>3, NextIdIsFree, ManagerAssumption DEF SessionId, TypeOK
  <2>3. x \in Session /\ x.timer = NoTimer
    BY NewSessionType
  <2> HIDE DEF i, x
  <2>4. /\ session \in SessionMap /\ timer \in TimerMap /\ maxTimer \in TimerId
        /\ net \in SUBSET Message /\ answers \in [Request -> Nat]
    BY DEF TypeOK, SessionMap, TimerMap
  <2>5. Ran(i, x, timer)
    BY <2>1, <2>2, <2>3, <2>4, Running
  <2>6. /\ session' \in SessionMap /\ timer' \in TimerMap /\ answers' \in [Request -> Nat]
        /\ maxTimer' \in TimerId /\ net' \subseteq Message
    BY <2>2, <2>3, <2>4, <2>5, RanTypes
  <2>7. TypeOK'
    <3>1. status' \in [Request -> {"new", "taken", "refused", "lost"}]
      BY <2>1 DEF TypeOK
    <3> QED BY <1>1, <2>1, <2>2, <2>6, <3>1 DEF TypeOK, SessionMap, TimerMap
  <2>8. Loose(session, timer, i)
    BY <2>2 DEF MatchInv, Match, Loose, Live
  <2>9. Match(session', timer')
    BY <2>2, <2>3, <2>4, <2>5, <2>8, RanMatches DEF FreeIsNone
  <2> QED BY <1>1, <2>7, <2>9 DEF MatchInv
<1> QED BY <1>2, <1>3

LEMMA AnsweredType ==
    ASSUME NEW x \in Session, NEW m
    PROVE  /\ Answered(x, m) \in Session /\ Answered(x, m).timer = NoTimer
           /\ Answered(x, m).owner = x.owner /\ Answered(x, m).sent = x.sent
BY DEF Answered, Session

\* a session's own timer is released, and no other
LEMMA ReleaseLoosens ==
    ASSUME FreeIsNone, session \in SessionMap, timer \in TimerMap, Match(session, timer),
           NEW i \in Live(session)
    PROVE  LET tm == ReleaseTimer(timer, TimerIdOf(session[i]))
           IN  tm \in TimerMap /\ Loose(session, tm, i)
<1> DEFINE u == TimerIdOf(session[i])
           tm == ReleaseTimer(timer, u)
<1>1. i \in SessionId /\ session[i] \in Session
  BY DEF Live, SessionMap
<1>2. /\ session[i].timer \in TimerId \cup {NoTimer}
      /\ session[i].timer # NoTimer => u = session[i].timer
      /\ session[i].timer = NoTimer => u = 0
  BY <1>1 DEF TimerIdOf, Session
<1> HIDE DEF u
<1>3. \A t \in Live(timer) : timer[t] \in Timer /\ t \in TimerId
  BY DEF Live, TimerMap
<1>4. /\ Live(tm) = Live(timer) /\ tm \in TimerMap
      /\ \A t \in Live(tm) : /\ t # u => tm[t] = timer[t]
                             /\ t = u => tm[t].deleted
  <2>1. CASE u \notin Live(timer)
    BY <2>1 DEF ReleaseTimer
  <2>2. CASE u \in Live(timer)
    <3> DEFINE d == [timer[u] EXCEPT !.deleted = TRUE]
    <3>1. d \in Timer /\ d.deleted /\ d # Free
      BY <1>3, <2>2 DEF Timer, FreeIsNone
    <3>2. tm = [timer EXCEPT ![u] = d]
      BY <2>2 DEF ReleaseTimer
    <3> HIDE DEF d, tm
    <3> QED BY <2>2, <3>1, <3>2 DEF Live, TimerMap
  <2> QED BY <2>1, <2>2
<1> HIDE DEF tm
<1>5. \A t \in Live(tm) : ~tm[t].deleted =>
          tm[t].session \in Live(session) \ {i} /\ session[tm[t].session].timer = t
  <2> SUFFICES ASSUME NEW t \in Live(tm), ~tm[t].deleted
               PROVE  tm[t].session \in Live(session) \ {i} /\ session[tm[t].session].timer = t
    OBVIOUS
  <2>1. t # u /\ tm[t] = timer[t] /\ t \in TimerId
    BY <1>3, <1>4
  <2>2. tm[t].session \in Live(session) /\ session[tm[t].session].timer = t
    BY <1>4, <2>1 DEF Match
  <2>3. session[i].timer # t
    BY <1>2, <2>1, ManagerAssumption
  <2> QED BY <2>2, <2>3
<1>6. \A j \in Live(session) \ {i} : session[j].timer \notin {NoTimer, 0} =>
          /\ session[j].timer \in Live(tm) /\ ~tm[session[j].timer].deleted
          /\ tm[session[j].timer].session = j
  <2> SUFFICES ASSUME NEW j \in Live(session) \ {i}, session[j].timer \notin {NoTimer, 0}
               PROVE  /\ session[j].timer \in Live(tm) /\ ~tm[session[j].timer].deleted
                      /\ tm[session[j].timer].session = j
    OBVIOUS
  <2> DEFINE t == session[j].timer
  <2>1. t \in Live(timer) /\ ~timer[t].deleted /\ timer[t].session = j
    BY DEF Match
  <2>2. t # u
    <3>1. CASE session[i].timer = NoTimer
      BY <1>2, <3>1
    <3>2. CASE session[i].timer # NoTimer
      <4> SUFFICES ASSUME t = u PROVE FALSE
        OBVIOUS
      <4>1. session[i].timer = t
        BY <1>2, <3>2
      <4>2. timer[t].session = i
        BY <4>1 DEF Match
      <4> QED BY <2>1, <4>2
    <3> QED BY <3>1, <3>2
  <2> QED BY <1>4, <2>1, <2>2
<1> QED BY <1>4, <1>5, <1>6 DEF Loose, tm, u

LEMMA ResponseStep ==
    ASSUME FreeIsNone, TypeOK, MatchInv, NEW m \in net, GetResponse(m)
    PROVE  TypeOK' /\ MatchInv'
<1>1. UNCHANGED <<maxSession, saved, status, stops>>
  BY DEF GetResponse
<1>2. CASE m.to \in Live(session) /\ Expected(m.to, m)
  <2> DEFINE i == m.to
             x == Answered(session[i], m)
             tm == ReleaseTimer(timer, TimerIdOf(session[i]))
  <2>1. RunStateMachine(i, x, tm, net \ {m})
    BY <1>2 DEF GetResponse, Accept
  <2>2. /\ session \in SessionMap /\ timer \in TimerMap /\ maxTimer \in TimerId
        /\ net \ {m} \in SUBSET Message /\ answers \in [Request -> Nat]
    BY DEF TypeOK, SessionMap, TimerMap
  <2>3. i \in SessionId /\ session[i] \in Session
    BY <1>2, <2>2 DEF Live, SessionMap
  <2>4. x \in Session /\ x.timer = NoTimer
    BY <2>3, AnsweredType
  <2>5. tm \in TimerMap /\ Loose(session, tm, i)
    BY <1>2, <2>2, ReleaseLoosens DEF MatchInv
  <2> HIDE DEF i, x, tm
  <2>6. Ran(i, x, tm)
    BY <2>1, <2>2, <2>3, <2>4, <2>5, Running
  <2>7. /\ session' \in SessionMap /\ timer' \in TimerMap /\ answers' \in [Request -> Nat]
        /\ maxTimer' \in TimerId /\ net' \subseteq Message
    BY <2>2, <2>3, <2>4, <2>5, <2>6, RanTypes
  <2>8. TypeOK'
    BY <1>1, <2>7 DEF TypeOK, SessionMap, TimerMap
  <2>9. Match(session', timer')
    BY <2>2, <2>3, <2>4, <2>5, <2>6, RanMatches DEF FreeIsNone
  <2> QED BY <1>1, <2>8, <2>9 DEF MatchInv
<1>3. CASE ~(m.to \in Live(session) /\ Expected(m.to, m))
  <2>1. net' = net \ {m} /\ UNCHANGED <<session, timer, maxTimer, answers>>
    BY <1>3 DEF GetResponse
  <2> QED BY <1>1, <2>1 DEF TypeOK, MatchInv
<1> QED BY <1>2, <1>3

LEMMA LoseStep ==
    ASSUME TypeOK, MatchInv, NEW m \in net, Lose(m)
    PROVE  TypeOK' /\ MatchInv'
BY DEF Lose, TypeOK, MatchInv

LEMMA TickStep ==
    ASSUME FreeIsNone, TypeOK, MatchInv, Tick
    PROVE  TypeOK' /\ MatchInv'
<1>1. /\ Due = {} /\ UNCHANGED <<maxSession, maxTimer, saved, net, status, answers, stops>>
      /\ session' = [i \in SessionId |->
                        IF i \in Live(session)
                        THEN [session[i] EXCEPT !.age = IF @ <= LeakTime THEN @ + 1 ELSE @]
                        ELSE Free]
      /\ timer' = [t \in TimerId |-> IF t \in Live(timer) THEN [timer[t] EXCEPT !.left = @ - 1]
                                                        ELSE Free]
  BY DEF Tick
<1>2. \A i \in Live(session) : i \in SessionId /\ session[i] \in Session
  BY DEF Live, TypeOK
<1>3. \A t \in Live(timer) : t \in TimerId /\ timer[t] \in Timer /\ timer[t].left # 0
  BY <1>1 DEF Live, TypeOK, Due
<1>4. \A i \in Live(session) : /\ session'[i] \in Session /\ session'[i].timer = session[i].timer
                               /\ session'[i].owner = session[i].owner
                               /\ session'[i].sent = session[i].sent
  <2> TAKE i \in Live(session)
  <2> DEFINE x == [session[i] EXCEPT !.age = IF @ <= LeakTime THEN @ + 1 ELSE @]
  <2>1. session'[i] = x
    BY <1>1, <1>2
  <2>2. x \in Session /\ x.timer = session[i].timer /\ x.owner = session[i].owner
        /\ x.sent = session[i].sent
    BY <1>2, ManagerAssumption DEF Session
  <2> QED BY <2>1, <2>2
<1>5. \A t \in Live(timer) : /\ timer'[t] \in Timer /\ timer'[t].session = timer[t].session
                             /\ timer'[t].deleted = timer[t].deleted
  <2> TAKE t \in Live(timer)
  <2> DEFINE x == [timer[t] EXCEPT !.left = @ - 1]
  <2>1. timer'[t] = x
    BY <1>1, <1>3
  <2>2. x \in Timer /\ x.session = timer[t].session /\ x.deleted = timer[t].deleted
    BY <1>3, ManagerAssumption DEF Timer
  <2> QED BY <2>1, <2>2
<1>6. session' \in SessionMap /\ timer' \in TimerMap
  BY <1>1, <1>4, <1>5 DEF SessionMap, TimerMap
<1>7. Live(session') = Live(session) /\ Live(timer') = Live(timer)
  BY <1>1, <1>2, <1>3, <1>4, <1>5 DEF Live, FreeIsNone, TypeOK
<1>8. TypeOK'
  BY <1>1, <1>6 DEF TypeOK, SessionMap, TimerMap
<1>9. Match(session', timer')
  BY <1>4, <1>5, <1>7 DEF MatchInv, Match
<1> QED BY <1>1, <1>8, <1>9 DEF MatchInv

LEMMA OnTickStep ==
    ASSUME FreeIsNone, TypeOK, MatchInv, OnTick
    PROVE  TypeOK' /\ MatchInv'
<1>1. /\ UNCHANGED <<maxSession, maxTimer, saved, net, status, stops>>
      /\ timer' = [t \in TimerId |-> IF t \in Due THEN Free ELSE timer[t]]
      /\ session' = [i \in SessionId |-> IF i \in TimedOut THEN Free ELSE session[i]]
      /\ answers' = [r \in Request |-> answers[r] + Cardinality(
                        {i \in TimedOut : session[i].owner = r /\ ~session[i].sent})]
  BY DEF OnTick
<1>2. answers' \in [Request -> Nat]
  <2> SUFFICES ASSUME NEW r \in Request
               PROVE  Cardinality({i \in TimedOut : session[i].owner = r /\ ~session[i].sent}) \in Nat
    BY <1>1 DEF TypeOK
  <2>1. IsFiniteSet(SessionId)
    BY FS_Interval, ManagerAssumption DEF SessionId
  <2>2. {i \in TimedOut : session[i].owner = r /\ ~session[i].sent} \in SUBSET SessionId
    BY DEF TimedOut, Live, TypeOK
  <2>3. IsFiniteSet({i \in TimedOut : session[i].owner = r /\ ~session[i].sent})
    BY <2>1, <2>2, FS_Subset
  <2> QED BY <2>3, FS_CardinalityType
<1>3. TypeOK'
  BY <1>1, <1>2 DEF TypeOK
<1>4. /\ Live(timer') = Live(timer) \ Due /\ Live(session') = Live(session) \ TimedOut
      /\ \A t \in Live(timer') : timer'[t] = timer[t]
      /\ \A i \in Live(session') : session'[i] = session[i]
  BY <1>1 DEF Live, TypeOK
<1>5. Match(session, timer)
  BY DEF MatchInv
<1>6. \A t \in Live(timer') : ~timer'[t].deleted =>
          timer'[t].session \in Live(session') /\ session'[timer'[t].session].timer = t
  <2> SUFFICES ASSUME NEW t \in Live(timer'), ~timer[t].deleted
               PROVE  timer[t].session \in Live(session') /\ session'[timer[t].session].timer = t
    BY <1>4
  <2>1. timer[t].session \in Live(session) /\ session[timer[t].session].timer = t /\ t \notin Due
    BY <1>4, <1>5 DEF Match
  <2>2. timer[t].session \notin TimedOut
    <3> SUFFICES ASSUME timer[t].session \in TimedOut PROVE FALSE
      OBVIOUS
    <3>1. PICK u \in Due : ~timer[u].deleted /\ timer[u].session = timer[t].session
      BY DEF TimedOut
    <3>2. session[timer[u].session].timer = u
      BY <1>5, <3>1 DEF Match, Due
    <3> QED BY <2>1, <3>1, <3>2
  <2> QED BY <1>4, <2>1, <2>2
<1>7. \A i \in Live(session') : session'[i].timer \notin {NoTimer, 0} =>
          /\ session'[i].timer \in Live(timer') /\ ~timer'[session'[i].timer].deleted
          /\ timer'[session'[i].timer].session = i
  <2> SUFFICES ASSUME NEW i \in Live(session'), session[i].timer \notin {NoTimer, 0}
               PROVE  /\ session[i].timer \in Live(timer') /\ ~timer'[session[i].timer].deleted
                      /\ timer'[session[i].timer].session = i
    BY <1>4
  <2>1. /\ session[i].timer \in Live(timer) /\ ~timer[session[i].timer].deleted
        /\ timer[session[i].timer].session = i
    BY <1>4, <1>5 DEF Match
  <2>2. session[i].timer \notin Due
    BY <1>4, <2>1 DEF TimedOut
  <2> QED BY <1>4, <2>1, <2>2
<1>8. Match(session', timer')
  BY <1>6, <1>7 DEF Match
<1> QED BY <1>1, <1>3, <1>8 DEF MatchInv

LEMMA LeakStep ==
    ASSUME FreeIsNone, TypeOK, MatchInv, LeakCheck
    PROVE  TypeOK' /\ MatchInv'
<1> DEFINE Old == {session[i].timer : i \in Leaked}
<1>1. /\ UNCHANGED <<maxSession, maxTimer, saved, net, status, answers, stops>>
      /\ session' = [i \in SessionId |-> IF i \in Leaked THEN Free ELSE session[i]]
      /\ timer' = [t \in TimerId |-> IF t \in Live(timer) /\ t \in Old
                                     THEN [timer[t] EXCEPT !.deleted = TRUE] ELSE timer[t]]
  BY DEF LeakCheck
<1>2. \A t \in Live(timer) : t \in TimerId /\ timer[t] \in Timer
  BY DEF Live, TypeOK
<1>3. \A t \in Live(timer) : [timer[t] EXCEPT !.deleted = TRUE] \in Timer
                             /\ [timer[t] EXCEPT !.deleted = TRUE].deleted
  BY <1>2 DEF Timer
<1>4. session' \in SessionMap /\ timer' \in TimerMap
  <2> HIDE DEF Old
  <2> QED BY <1>1, <1>3 DEF TypeOK, SessionMap, TimerMap
<1>5. TypeOK'
  BY <1>1, <1>4 DEF TypeOK, SessionMap, TimerMap
<1>6. /\ Live(timer') = Live(timer) /\ Live(session') = Live(session) \ Leaked
      /\ \A t \in Live(timer) : /\ t \in Old => timer'[t].deleted
                                /\ t \notin Old => timer'[t] = timer[t]
      /\ \A i \in Live(session') : session'[i] = session[i]
  <2> HIDE DEF Old
  <2> QED BY <1>1, <1>2, <1>3 DEF Live, TypeOK, FreeIsNone
<1>7. Match(session, timer)
  BY DEF MatchInv
<1>8. \A t \in Live(timer') : ~timer'[t].deleted =>
          timer'[t].session \in Live(session') /\ session'[timer'[t].session].timer = t
  <2> SUFFICES ASSUME NEW t \in Live(timer'), ~timer'[t].deleted
               PROVE  timer'[t].session \in Live(session') /\ session'[timer'[t].session].timer = t
    OBVIOUS
  <2>1. t \notin Old /\ timer'[t] = timer[t]
    BY <1>6
  <2>2. timer[t].session \in Live(session) /\ session[timer[t].session].timer = t
    BY <1>6, <1>7, <2>1 DEF Match
  <2>3. timer[t].session \notin Leaked
    BY <2>1, <2>2
  <2> QED BY <1>6, <2>1, <2>2, <2>3
<1>9. \A i \in Live(session') : session'[i].timer \notin {NoTimer, 0} =>
          /\ session'[i].timer \in Live(timer') /\ ~timer'[session'[i].timer].deleted
          /\ timer'[session'[i].timer].session = i
  <2> SUFFICES ASSUME NEW i \in Live(session'), session[i].timer \notin {NoTimer, 0}
               PROVE  /\ session[i].timer \in Live(timer') /\ ~timer'[session[i].timer].deleted
                      /\ timer'[session[i].timer].session = i
    BY <1>6
  <2>1. /\ session[i].timer \in Live(timer) /\ ~timer[session[i].timer].deleted
        /\ timer[session[i].timer].session = i
    BY <1>6, <1>7 DEF Match
  <2>2. session[i].timer \notin Old
    <3> SUFFICES ASSUME NEW j \in Leaked, session[j].timer = session[i].timer PROVE FALSE
      OBVIOUS
    <3>1. timer[session[i].timer].session = j
      BY <1>7 DEF Match, Leaked
    <3> QED BY <1>6, <2>1, <3>1
  <2> QED BY <1>6, <2>1, <2>2
<1>10. Match(session', timer')
  BY <1>8, <1>9 DEF Match
<1> QED BY <1>1, <1>5, <1>10 DEF MatchInv

-----------------------------------------------------------------------------
(* Stop, recovery and crash.                                               *)

LEMMA LargestExists ==
    ASSUME NEW M \in Nat, NEW S \in SUBSET (0..M), S # {}
    PROVE  \E x \in S : \A y \in S : y <= x
<1> DEFINE T == {M - x : x \in S}
<1>1. T \in SUBSET Nat /\ T # {}
  <2>1. \A x \in S : x \in 0..M
    OBVIOUS
  <2>2. \A x \in S : M - x \in Nat
    BY <2>1
  <2> QED BY <2>2
<1>2. PICK a \in T : \A b \in T : a <= b
  <2> HIDE DEF T
  <2> QED BY <1>1, SmallestExists
<1>3. PICK x \in S : a = M - x
  BY <1>2
<1>4. \A y \in S : M - x <= M - y
  BY <1>2, <1>3
<1> QED BY <1>4

LEMMA MaxLiveType ==
    ASSUME NEW M \in Nat, NEW X, NEW map \in [0..M -> X]
    PROVE  MaxLive(map) \in 0..M
<1> DEFINE S == Live(map) \cup {0}
<1>1. S \in SUBSET (0..M) /\ S # {}
  BY DEF Live
<1>2. PICK x \in S : \A y \in S : y <= x
  <2> HIDE DEF S
  <2> QED BY <1>1, LargestExists
<1>3. /\ x \in DOMAIN map /\ x \in Live(map) \cup {0}
      /\ \A i \in Live(map) : i <= x
  BY <1>1, <1>2
<1>4. \E n \in DOMAIN map : n \in Live(map) \cup {0} /\ \A i \in Live(map) : i <= n
  BY <1>3
<1> QED BY <1>4 DEF MaxLive

LEMMA StopStep ==
    ASSUME TypeOK, MatchInv, Stop
    PROVE  TypeOK' /\ MatchInv'
<1>1. /\ UNCHANGED <<session, timer, maxSession, maxTimer, net, status, answers>>
      /\ saved' = [session |-> session, timer |-> timer]
      /\ stops' = [stops EXCEPT !.restarts = @ + 1] /\ stops.restarts < MaxRestarts
  BY DEF Stop
<1>2. stops' \in [restarts: 0..MaxRestarts, crashes: 0..MaxCrashes]
  BY <1>1, ManagerAssumption DEF TypeOK
<1>3. saved'.session = session /\ saved'.timer = timer
  BY <1>1
<1> QED BY <1>1, <1>2, <1>3 DEF TypeOK, MatchInv

LEMMA RestartStep ==
    ASSUME TypeOK, MatchInv, Restart
    PROVE  TypeOK' /\ MatchInv'
<1>1. /\ session' = saved.session /\ timer' = saved.timer /\ saved # Free
      /\ saved' = Free /\ net' \subseteq net /\ UNCHANGED <<answers, stops>>
      /\ maxSession' = MaxLive(saved.session) /\ maxTimer' = MaxLive(saved.timer)
      /\ status' = Forget(Dropped(session, saved.session))
  BY DEF Restart
<1>2. /\ saved.session \in [SessionId -> Session \cup {Free}]
      /\ saved.timer \in [TimerId -> Timer \cup {Free}]
  BY <1>1 DEF TypeOK
<1>3. maxSession' \in SessionId /\ maxTimer' \in TimerId
  BY <1>1, <1>2, MaxLiveType, ManagerAssumption DEF SessionId, TimerId
<1>4. status' \in [Request -> {"new", "taken", "refused", "lost"}]
  BY <1>1 DEF Forget, TypeOK
<1>5. TypeOK'
  BY <1>1, <1>2, <1>3, <1>4 DEF TypeOK
<1>6. Match(session', timer')
  BY <1>1 DEF MatchInv
<1> QED BY <1>1, <1>5, <1>6 DEF MatchInv

LEMMA CrashStep ==
    ASSUME TypeOK, MatchInv, Crash
    PROVE  TypeOK' /\ MatchInv'
<1>1. /\ session' = [i \in SessionId |-> Free] /\ timer' = [t \in TimerId |-> Free]
      /\ saved = Free /\ saved' = saved /\ net' \subseteq net /\ answers' = answers
      /\ maxSession' = 0 /\ maxTimer' = 0
      /\ status' = Forget({session[i].owner : i \in Live(session)})
      /\ stops' = [stops EXCEPT !.crashes = @ + 1] /\ stops.crashes < MaxCrashes
  BY DEF Crash
<1>2. stops' \in [restarts: 0..MaxRestarts, crashes: 0..MaxCrashes]
  BY <1>1, ManagerAssumption DEF TypeOK
<1>3. maxSession' \in SessionId /\ maxTimer' \in TimerId
  BY <1>1, ManagerAssumption DEF SessionId, TimerId
<1>4. status' \in [Request -> {"new", "taken", "refused", "lost"}]
  BY <1>1 DEF Forget, TypeOK
<1>5. TypeOK'
  BY <1>1, <1>2, <1>3, <1>4 DEF TypeOK
<1>6. Live(session') = {} /\ Live(timer') = {}
  BY <1>1 DEF Live
<1>7. Match(session', timer')
  BY <1>6 DEF Match
<1> QED BY <1>1, <1>5, <1>7 DEF MatchInv

LEMMA Began == Init => TypeOK /\ MatchInv
<1> SUFFICES ASSUME Init PROVE TypeOK /\ MatchInv
  OBVIOUS
<1>1. TypeOK
  BY ManagerAssumption DEF Init, TypeOK
<1>2. Live(session) = {} /\ Live(timer) = {}
  BY DEF Init, Live
<1> QED BY <1>1, <1>2 DEF Init, MatchInv, Match

LEMMA Inductive == FreeIsNone /\ TypeOK /\ MatchInv /\ [Next]_vars => TypeOK' /\ MatchInv'
<1> SUFFICES ASSUME FreeIsNone, TypeOK, MatchInv, [Next]_vars PROVE TypeOK' /\ MatchInv'
  OBVIOUS
<1>1. CASE \E r \in Request : GetRequest(r)
  BY <1>1, RequestStep
<1>2. CASE \E m \in net : GetResponse(m) \/ Lose(m)
  BY <1>2, ResponseStep, LoseStep
<1>3. CASE OnTick \/ LeakCheck \/ Tick
  BY <1>3, OnTickStep, LeakStep, TickStep
<1>4. CASE Stop \/ Restart \/ Crash
  BY <1>4, StopStep, RestartStep, CrashStep
<1>5. CASE Done \/ UNCHANGED vars
  <2>1. UNCHANGED vars
    BY <1>5 DEF Done
  <2> QED BY <2>1 DEF vars, TypeOK, MatchInv
<1> QED BY <1>1, <1>2, <1>3, <1>4, <1>5 DEF Next

THEOREM SessionInvariant ==
    ASSUME FreeIsNone
    PROVE  Spec => [](TypeOK /\ MatchInv)
<1>1. Init => TypeOK /\ MatchInv
  BY Began
<1>2. TypeOK /\ MatchInv /\ [Next]_vars => (TypeOK /\ MatchInv)'
  BY Inductive
<1> QED BY <1>1, <1>2, PTL DEF Spec

\* Sessions, timers, the two counters and what is saved keep their types; a new
\* id is always found in a map that is not full, wherever the counter stands.
THEOREM TypeCorrect ==
    ASSUME FreeIsNone
    PROVE  Spec => []TypeOK
<1> QED BY SessionInvariant, PTL

\* A timer that is not deleted is the timer of the session it names, and a
\* session with a timer is the one it names, through responses, timeouts, the
\* leak check, a full map, ids that wrap, crash and recovery.
THEOREM TimersPointBack ==
    ASSUME FreeIsNone
    PROVE  Spec => []TimersMatch
<1>1. MatchInv => TimersMatch
  BY DEF MatchInv, Match, TimersMatch
<1> QED BY <1>1, SessionInvariant, PTL

-----------------------------------------------------------------------------
(* One response.                                                           *)

LEMMA RanAnswers ==
    ASSUME TypeOK, NEW i \in SessionId, NEW tm \in TimerMap,
           NEW x \in Session, Ran(i, x, tm), FreeIsNone,
           \A j \in Live(session) \ {i} : session[j].owner # x.owner,
           \A j, k \in Live(session) : session[j].owner = session[k].owner => j = k,
           \A j \in Live(session) \ {i} :
               answers[session[j].owner] = IF session[j].sent THEN 1 ELSE 0,
           answers[x.owner] = IF x.sent THEN 1 ELSE 0,
           \A r \in Request : answers[r] <= 1
    PROVE  /\ \A j, k \in Live(session') : session'[j].owner = session'[k].owner => j = k
           /\ \A j \in Live(session') :
                  answers'[session'[j].owner] = IF session'[j].sent THEN 1 ELSE 0
           /\ \A r \in Request : answers'[r] <= 1 /\ (r # x.owner => answers'[r] = answers[r])
           /\ \A j \in Live(session') :
                  \/ session'[j].owner = x.owner
                  \/ j \in Live(session) /\ session'[j] = session[j]
<1>1. x.owner \in Request /\ x.sent \in BOOLEAN
  BY DEF Session
<1>2. answers \in [Request -> Nat] /\ DOMAIN session = SessionId
  BY DEF TypeOK
<1>3. \A j \in Live(session) : session[j] \in Session /\ session[j].owner \in Request
  BY DEF TypeOK, Live, Session
<1>4. CASE Ends(i, x, tm)
  <2>1. Live(session') = Live(session) \ {i}
        /\ \A j \in Live(session') : session'[j] = session[j]
    BY <1>2, <1>4 DEF Ends, Live
  <2>2. \A r \in Request : answers'[r] = IF r = x.owner THEN 1 ELSE answers[r]
    BY <1>1, <1>2, <1>4 DEF Ends
  <2> QED BY <1>1, <1>3, <2>1, <2>2
<1>5. CASE \E y \in Session : Waits(i, x, y, tm)
  <2>1. PICK y \in Session : Waits(i, x, y, tm)
    BY <1>5
  <2>2. /\ Live(session') = Live(session) \cup {i} /\ session'[i] = y
        /\ \A j \in Live(session') \ {i} : session'[j] = session[j]
    BY <1>2, <2>1 DEF Waits, Live, FreeIsNone
  <2>3. y.owner = x.owner /\ y.sent \in BOOLEAN /\ (x.sent => y.sent)
    BY <2>1 DEF Waits, Session
  <2>4. \A r \in Request : answers'[r] = IF r = x.owner THEN (IF y.sent THEN 1 ELSE 0)
                                                       ELSE answers[r]
    BY <1>1, <1>2, <2>1, <2>3 DEF Waits
  <2>5. \A j \in Live(session') \ {i} :
            j \in Live(session) /\ session'[j].owner # x.owner /\ session'[j].owner \in Request
    BY <1>3, <2>2
  <2>6. \A j, k \in Live(session') : session'[j].owner = session'[k].owner => j = k
    BY <2>2, <2>3, <2>5
  <2>7. \A j \in Live(session') :
                  answers'[session'[j].owner] = IF session'[j].sent THEN 1 ELSE 0
    <3> TAKE j \in Live(session')
    <3>1. CASE j = i
      BY <1>1, <2>2, <2>3, <2>4, <3>1
    <3>2. CASE j # i
      BY <2>2, <2>4, <2>5, <3>2
    <3> QED BY <3>1, <3>2
  <2>8. \A r \in Request : answers'[r] <= 1 /\ (r # x.owner => answers'[r] = answers[r])
    BY <2>4
  <2> QED BY <2>2, <2>3, <2>5, <2>6, <2>7, <2>8
<1> QED BY <1>4, <1>5 DEF Ran

LEMMA RequestAnswers ==
    ASSUME FreeIsNone, TypeOK, AnswersInv, NEW r \in Request, GetRequest(r)
    PROVE  AnswersInv'
<1>1. saved' = saved /\ status[r] = "new"
  BY DEF GetRequest
<1>2. CASE Full(session, SessionSize)
  <2>1. /\ UNCHANGED <<session, answers>>
        /\ status' = [status EXCEPT ![r] = "refused"]
    BY <1>2 DEF GetRequest
  <2>2. \A i \in Live(session) : session[i].owner \in Request
    BY DEF Live, TypeOK, Session
  <2> QED BY <1>1, <2>1, <2>2 DEF TypeOK, AnswersInv
<1>3. CASE ~Full(session, SessionSize)
  <2> DEFINE i == NextId(maxSession, session)
             x == NewSession(r)
  <2>1. status' = [status EXCEPT ![r] = "taken"] /\ RunStateMachine(i, x, timer, net)
    BY <1>3 DEF GetRequest
  <2>2. i \in SessionId /\ session[i] = Free
    BY <1>3, NextIdIsFree, ManagerAssumption DEF SessionId, TypeOK
  <2>3. x \in Session /\ x.timer = NoTimer /\ x.owner = r /\ ~x.sent
    BY NewSessionType
  <2> HIDE DEF i, x
  <2>4. /\ timer \in TimerMap /\ maxTimer \in TimerId
        /\ net \in SUBSET Message /\ answers \in [Request -> Nat]
    BY DEF TypeOK, TimerMap
  <2>5. Ran(i, x, timer)
    BY <2>1, <2>2, <2>3, <2>4, Running
  <2>6. \A j \in Live(session) : session[j].owner # r
    BY <1>1 DEF AnswersInv
  <2>7. /\ \A j, k \in Live(session') : session'[j].owner = session'[k].owner => j = k
        /\ \A j \in Live(session') :
               answers'[session'[j].owner] = IF session'[j].sent THEN 1 ELSE 0
        /\ \A q \in Request : answers'[q] <= 1 /\ (q # r => answers'[q] = answers[q])
        /\ \A j \in Live(session') :
               \/ session'[j].owner = r
               \/ j \in Live(session) /\ session'[j] = session[j]
    <3>1. answers[x.owner] = IF x.sent THEN 1 ELSE 0
      BY <1>1, <2>3 DEF AnswersInv
    <3>2. \A j \in Live(session) \ {i} : session[j].owner # x.owner
      BY <2>3, <2>6
    <3> QED BY <2>2, <2>3, <2>4, <2>5, <3>1, <3>2, RanAnswers DEF AnswersInv
  <2>8. \A q \in Request : status'[q] = IF q = r THEN "taken" ELSE status[q]
    BY <2>1 DEF TypeOK
  <2>9. \A j \in Live(session') : status'[session'[j].owner] # "new"
    <3> TAKE j \in Live(session')
    <3>1. CASE session'[j].owner = r
      BY <2>8, <3>1
    <3>2. CASE j \in Live(session) /\ session'[j] = session[j]
      <4>1. session[j].owner \in Request /\ status[session[j].owner] # "new"
        BY <3>2 DEF AnswersInv, Live, TypeOK, Session
      <4> QED BY <2>8, <3>2, <4>1
    <3> QED BY <2>7, <3>1, <3>2
  <2>10. \A q \in Request : status'[q] = "new" => answers'[q] = 0
    BY <2>7, <2>8 DEF AnswersInv
  <2> QED BY <1>1, <2>7, <2>9, <2>10 DEF AnswersInv
<1> QED BY <1>2, <1>3

LEMMA ResponseAnswers ==
    ASSUME FreeIsNone, TypeOK, MatchInv, AnswersInv, NEW m \in net, GetResponse(m)
    PROVE  AnswersInv'
<1>1. UNCHANGED <<saved, status>>
  BY DEF GetResponse
<1>2. CASE m.to \in Live(session) /\ Expected(m.to, m)
  <2> DEFINE i == m.to
             x == Answered(session[i], m)
             tm == ReleaseTimer(timer, TimerIdOf(session[i]))
  <2>1. RunStateMachine(i, x, tm, net \ {m})
    BY <1>2 DEF GetResponse, Accept
  <2>2. /\ session \in SessionMap /\ timer \in TimerMap /\ maxTimer \in TimerId
        /\ net \ {m} \in SUBSET Message /\ answers \in [Request -> Nat]
    BY DEF TypeOK, SessionMap, TimerMap
  <2>3. i \in SessionId /\ session[i] \in Session /\ i \in Live(session)
    BY <1>2, <2>2 DEF Live, SessionMap
  <2>4. x \in Session /\ x.timer = NoTimer /\ x.owner = session[i].owner
        /\ x.sent = session[i].sent
    BY <2>3, AnsweredType
  <2>5. tm \in TimerMap
    BY <1>2, <2>2, ReleaseLoosens DEF MatchInv
  <2> HIDE DEF i, x, tm
  <2>6. Ran(i, x, tm)
    BY <2>1, <2>2, <2>3, <2>4, <2>5, Running
  <2>7. /\ \A j, k \in Live(session') : session'[j].owner = session'[k].owner => j = k
        /\ \A j \in Live(session') :
               answers'[session'[j].owner] = IF session'[j].sent THEN 1 ELSE 0
        /\ \A q \in Request : answers'[q] <= 1 /\ (q # x.owner => answers'[q] = answers[q])
        /\ \A j \in Live(session') :
               \/ session'[j].owner = x.owner
               \/ j \in Live(session) /\ session'[j] = session[j]
    <3>1. answers[x.owner] = IF x.sent THEN 1 ELSE 0
      BY <2>3, <2>4 DEF AnswersInv
    <3>2. \A j \in Live(session) \ {i} : session[j].owner # x.owner
      BY <2>3, <2>4 DEF AnswersInv
    <3> QED BY <2>3, <2>4, <2>5, <2>6, <3>1, <3>2, RanAnswers DEF AnswersInv
  <2>8. status[x.owner] # "new"
    BY <2>3, <2>4 DEF AnswersInv
  <2>9. \A j \in Live(session') : status[session'[j].owner] # "new"
    BY <2>7, <2>8 DEF AnswersInv
  <2>10. \A q \in Request : status[q] = "new" => answers'[q] = 0
    BY <2>7, <2>8 DEF AnswersInv
  <2> QED BY <1>1, <2>7, <2>9, <2>10 DEF AnswersInv
<1>3. CASE ~(m.to \in Live(session) /\ Expected(m.to, m))
  <2>1. UNCHANGED <<session, answers>>
    BY <1>3 DEF GetResponse
  <2> QED BY <1>1, <2>1 DEF AnswersInv
<1> QED BY <1>2, <1>3

\* sessions that keep who they are for keep the invariant
LEMMA SameOwners ==
    ASSUME AnswersInv, UNCHANGED <<saved, status, answers>>,
           \A i \in Live(session') : /\ i \in Live(session)
                                     /\ session'[i].owner = session[i].owner
                                     /\ session'[i].sent = session[i].sent
    PROVE  AnswersInv'
BY DEF AnswersInv

LEMMA TickAnswers ==
    ASSUME FreeIsNone, TypeOK, AnswersInv, Tick \/ LeakCheck
    PROVE  AnswersInv'
<1>1. UNCHANGED <<saved, status, answers>>
  BY DEF Tick, LeakCheck
<1>2. \A i \in Live(session) : i \in SessionId /\ session[i] \in Session
  BY DEF Live, TypeOK
<1>3. CASE Tick
  <2>1. /\ DOMAIN session' = SessionId
        /\ \A i \in SessionId : session'[i] =
              IF i \in Live(session)
              THEN [session[i] EXCEPT !.age = IF @ <= LeakTime THEN @ + 1 ELSE @] ELSE Free
    BY <1>3 DEF Tick
  <2>2. \A i \in Live(session') : /\ i \in Live(session)
                                  /\ session'[i].owner = session[i].owner
                                  /\ session'[i].sent = session[i].sent
    <3> SUFFICES ASSUME NEW i \in Live(session')
                 PROVE  /\ i \in Live(session) /\ session'[i].owner = session[i].owner
                        /\ session'[i].sent = session[i].sent
      OBVIOUS
    <3>1. i \in Live(session)
      BY <1>3, <2>1 DEF Live, Tick
    <3>2. session'[i] = [session[i] EXCEPT !.age = IF @ <= LeakTime THEN @ + 1 ELSE @]
      BY <1>2, <2>1, <3>1
    <3> QED BY <1>2, <3>1, <3>2 DEF Session
  <2> QED BY <1>1, <2>2, SameOwners
<1>4. CASE LeakCheck
  <2>1. session' = [i \in SessionId |-> IF i \in Leaked THEN Free ELSE session[i]]
    BY <1>4 DEF LeakCheck
  <2>2. \A i \in Live(session') : i \in Live(session) /\ session'[i] = session[i]
    BY <2>1 DEF Live, TypeOK
  <2> QED BY <1>1, <2>2, SameOwners
<1> QED BY <1>3, <1>4

LEMMA OnTickAnswers ==
    ASSUME TypeOK, AnswersInv, OnTick
    PROVE  AnswersInv'
<1> DEFINE Late(r) == {i \in TimedOut : session[i].owner = r /\ ~session[i].sent}
<1>1. /\ UNCHANGED <<saved, status>>
      /\ session' = [i \in SessionId |-> IF i \in TimedOut THEN Free ELSE session[i]]
      /\ \A r \in Request : answers'[r] = answers[r] + Cardinality(Late(r))
  BY DEF OnTick
<1>2. \A i \in Live(session') : i \in Live(session) \ TimedOut /\ session'[i] = session[i]
  BY <1>1 DEF Live, TypeOK
<1>3. TimedOut \subseteq Live(session) /\ \A i \in Live(session) : session[i].owner \in Request
  BY DEF TimedOut, Live, TypeOK, Session
<1>4. \A r \in Request : \/ Late(r) = {}
                         \/ answers[r] = 0 /\ \E i \in TimedOut : session[i].owner = r /\ Late(r) = {i}
  <2> SUFFICES ASSUME NEW r \in Request, Late(r) # {}
               PROVE  answers[r] = 0 /\ \E i \in TimedOut : session[i].owner = r /\ Late(r) = {i}
    OBVIOUS
  <2>1. PICK i \in TimedOut : session[i].owner = r /\ ~session[i].sent
    OBVIOUS
  <2>2. answers[r] = 0
    BY <1>3, <2>1 DEF AnswersInv
  <2>3. \A j \in Late(r) : j = i
    BY <1>3, <2>1 DEF AnswersInv
  <2> QED BY <2>1, <2>2, <2>3
<1>5. Cardinality({}) = 0 /\ \A i \in TimedOut : Cardinality({i}) = 1
  BY FS_EmptySet, FS_Singleton
<1>6. \A r \in Request : answers[r] \in Nat
  BY DEF TypeOK
<1>7. \A r \in Request : answers'[r] <= 1 /\ (status[r] = "new" => answers'[r] = 0)
  <2> TAKE r \in Request
  <2>1. CASE Late(r) = {}
    <3>1. answers'[r] = answers[r]
      BY <1>1, <1>5, <1>6, <2>1
    <3> QED BY <3>1 DEF AnswersInv
  <2>2. CASE answers[r] = 0 /\ \E i \in TimedOut : session[i].owner = r /\ Late(r) = {i}
    <3>1. PICK i \in TimedOut : session[i].owner = r /\ Late(r) = {i}
      BY <2>2
    <3>2. Cardinality(Late(r)) = 1
      BY <1>5, <3>1
    <3>3. answers'[r] = 1
      <4> HIDE DEF Late
      <4> QED BY <1>1, <2>2, <3>2
    <3>4. status[r] # "new"
      BY <1>3, <3>1 DEF AnswersInv
    <3> QED BY <3>3, <3>4
  <2> QED BY <1>4, <2>1, <2>2
<1>8. \A i \in Live(session') : answers'[session[i].owner] = answers[session[i].owner]
  <2> TAKE i \in Live(session')
  <2>1. session[i].owner \in Request
    BY <1>2, <1>3
  <2>2. Late(session[i].owner) = {}
    BY <1>2, <1>3 DEF AnswersInv
  <2> QED BY <1>1, <1>5, <1>6, <2>1, <2>2
<1>9. \A i \in Live(session') : answers'[session'[i].owner] = IF session'[i].sent THEN 1 ELSE 0
  BY <1>2, <1>8 DEF AnswersInv
<1> HIDE DEF Late
<1> QED BY <1>1, <1>2, <1>7, <1>9 DEF AnswersInv

LEMMA CrashAnswers ==
    ASSUME TypeOK, AnswersInv, Crash
    PROVE  AnswersInv'
<1>1. /\ saved' = saved /\ answers' = answers
      /\ session' = [i \in SessionId |-> Free]
      /\ status' = Forget({session[i].owner : i \in Live(session)})
  BY DEF Crash
<1>2. Live(session') = {}
  BY <1>1 DEF Live
<1>3. \A r \in Request : status'[r] = "new" => status[r] = "new"
  BY <1>1 DEF Forget
<1> QED BY <1>1, <1>2, <1>3 DEF AnswersInv

LEMMA AnswersKept ==
    MaxRestarts = 0 /\ FreeIsNone /\ TypeOK /\ MatchInv /\ AnswersInv /\ [Next]_vars => AnswersInv'
<1> SUFFICES ASSUME MaxRestarts = 0, FreeIsNone, TypeOK, MatchInv, AnswersInv, [Next]_vars
             PROVE  AnswersInv'
  OBVIOUS
<1>1. CASE \E r \in Request : GetRequest(r)
  BY <1>1, RequestAnswers
<1>2. CASE \E m \in net : GetResponse(m)
  BY <1>2, ResponseAnswers
<1>3. CASE OnTick \/ LeakCheck \/ Tick
  BY <1>3, OnTickAnswers, TickAnswers
<1>4. CASE Stop
  <2>1. stops.restarts \in Nat /\ stops.restarts < 0
    BY <1>4 DEF Stop, TypeOK
  <2> QED BY <2>1
<1>5. CASE Restart
  BY <1>5 DEF Restart, AnswersInv
<1>6. CASE Crash
  BY <1>6, CrashAnswers
<1>7. CASE (\E m \in net : Lose(m)) \/ Done \/ UNCHANGED vars
  <2>1. UNCHANGED <<session, saved, status, answers>>
    BY <1>7 DEF Lose, Done, vars
  <2> QED BY <2>1 DEF AnswersInv
<1> QED BY <1>1, <1>2, <1>3, <1>4, <1>5, <1>6, <1>7 DEF Next

\* A server that recovers nothing sends no request two responses, for any
\* number of requests and sessions, whatever is lost, late, or times out.
THEOREM OneResponse ==
    ASSUME FreeIsNone, MaxRestarts = 0
    PROVE  Spec => []AtMostOneResponse
<1>1. Init => AnswersInv
  BY DEF Init, AnswersInv, Live
<1>2. TypeOK /\ MatchInv /\ AnswersInv /\ [Next]_vars => AnswersInv'
  BY AnswersKept
<1>3. AnswersInv => AtMostOneResponse
  BY DEF AnswersInv, AtMostOneResponse
<1> QED BY <1>1, <1>2, <1>3, SessionInvariant, PTL DEF Spec

-----------------------------------------------------------------------------
(* Own responses.                                                          *)

\* session x waits for what m answers
Awaits(m, x) == m.owner = x.owner /\ m.kind = x.kind /\ m.call \in x.pending

\* what is on its way to a session is what it waits for
OwnInv ==
    /\ saved = Free
    /\ \A m \in net : m.to \in Live(session) => Awaits(m, session[m.to])

\* no session gets the id of one that a response is still on its way to
IdsRested == \A m \in net : session[m.to] = Free => session'[m.to] = Free

LEMMA TimerKeepsCalls ==
    ASSUME NEW i \in SessionId, NEW tm, NEW x \in Session, SetSessionTimer(i, x, tm)
    PROVE  \E y : /\ session' = [session EXCEPT ![i] = y]
                  /\ y.owner = x.owner /\ y.kind = x.kind /\ y.pending = x.pending
<1> DEFINE y == [x EXCEPT !.timer = NextId(maxTimer, tm)]
<1>1. session' = [session EXCEPT ![i] = x] \/ session' = [session EXCEPT ![i] = y]
  BY DEF SetSessionTimer
<1>2. y.owner = x.owner /\ y.kind = x.kind /\ y.pending = x.pending
  BY DEF Session
<1> HIDE DEF y
<1> QED BY <1>1, <1>2

\* session i, which is x, gets ready with the messages msgs under way
LEMMA RanOwn ==
    ASSUME TypeOK, NEW i \in SessionId, NEW x \in Session, NEW tm, NEW msgs \in SUBSET Message,
           RunStateMachine(i, x, tm, msgs),
           \A m \in msgs : m.to \in Live(session) \ {i} => Awaits(m, session[m.to]),
           \A m \in msgs : m.to = i => session'[i] = Free \/ Awaits(m, x)
    PROVE  \A m \in net' : m.to \in Live(session') => Awaits(m, session'[m.to])
<1>1. DOMAIN session = SessionId
  BY DEF TypeOK
<1>2. ASSUME NEW y, session' = [session EXCEPT ![i] = y]
      PROVE  /\ session'[i] = y
             /\ \A m \in msgs : m.to \in Live(session') \ {i} => Awaits(m, session'[m.to])
  <2>1. session'[i] = y /\ \A j \in SessionId \ {i} : session'[j] = session[j]
    BY <1>1, <1>2
  <2>2. Live(session') \ {i} \subseteq Live(session) \ {i} /\ Live(session) \subseteq SessionId
    BY <1>1, <1>2, <2>1 DEF Live
  <2> QED BY <2>1, <2>2
<1>3. CASE Finish(i, x, tm) /\ net' = msgs
  <2>1. session' = [session EXCEPT ![i] = Free]
    BY <1>3 DEF Finish
  <2>2. session'[i] = Free
    BY <1>2, <2>1
  <2>3. i \notin Live(session')
    BY <2>2 DEF Live
  <2> QED BY <1>2, <1>3, <2>1, <2>3
<1>4. CASE x.pending = {} /\ CallAndWait(i, x, tm, msgs)
  <2>1. PICK kind \in Kind, n \in 1..2, early \in BOOLEAN :
            LET new == (x.calls + 1)..(x.calls + n)
            IN  /\ net' = msgs \cup {[to |-> i, kind |-> kind, owner |-> x.owner,
                                      call |-> c] : c \in new}
                /\ x.calls + n <= MaxCalls
                /\ SetSessionTimer(i, [x EXCEPT !.kind = kind, !.pending = new,
                                                !.calls = @ + n,
                                                !.sent = @ \/ early], tm)
    BY <1>4 DEF CallAndWait
  <2> DEFINE new == (x.calls + 1)..(x.calls + n)
             z == [x EXCEPT !.kind = kind, !.pending = new, !.calls = @ + n, !.sent = @ \/ early]
             Asked == {[to |-> i, kind |-> kind, owner |-> x.owner, call |-> c] : c \in new}
  <2>2. new \subseteq Call /\ x.calls + n \in 0..MaxCalls
    BY <2>1, ManagerAssumption DEF Session, Call
  <2>3. z \in Session /\ z.owner = x.owner /\ z.kind = kind /\ z.pending = new
    BY <2>2 DEF Session
  <2>4. SetSessionTimer(i, z, tm) /\ net' = msgs \cup Asked
    BY <2>1
  <2>5. \A m \in Asked : m.to = i /\ m.kind = kind /\ m.owner = x.owner /\ m.call \in new
    OBVIOUS
  <2> HIDE DEF z, new, Asked
  <2>6. PICK y : /\ session' = [session EXCEPT ![i] = y]
                 /\ y.owner = z.owner /\ y.kind = z.kind /\ y.pending = z.pending
    BY <2>3, <2>4, TimerKeepsCalls
  <2>7. session'[i] = y /\ \A m \in msgs : m.to \in Live(session') \ {i} => Awaits(m, session'[m.to])
    BY <1>2, <2>6
  <2>8. \A m \in msgs : m.to = i => session'[i] = Free
    BY <1>4 DEF Awaits
  <2>9. \A m \in Asked : Awaits(m, y)
    BY <2>3, <2>5, <2>6 DEF Awaits
  <2>10. ASSUME NEW m \in net', m.to \in Live(session') PROVE Awaits(m, session'[m.to])
    <3>1. CASE m \in Asked
      BY <2>5, <2>7, <2>9, <3>1
    <3>2. CASE m \in msgs
      <4>1. m.to # i
        BY <2>8, <2>10, <3>2 DEF Live
      <4> QED BY <2>7, <2>10, <3>2, <4>1
    <3> QED BY <2>4, <3>1, <3>2
  <2> QED BY <2>10
<1>5. CASE SetSessionTimer(i, x, tm) /\ net' = msgs
  <2>1. PICK y : /\ session' = [session EXCEPT ![i] = y]
                 /\ y.owner = x.owner /\ y.kind = x.kind /\ y.pending = x.pending
    BY <1>5, TimerKeepsCalls
  <2>2. session'[i] = y /\ \A m \in msgs : m.to \in Live(session') \ {i} => Awaits(m, session'[m.to])
    BY <1>2, <2>1
  <2>3. ASSUME NEW m \in msgs, m.to = i, m.to \in Live(session') PROVE Awaits(m, session'[m.to])
    <3>1. Awaits(m, x)
      BY <2>3 DEF Live
    <3> QED BY <2>1, <2>2, <2>3, <3>1 DEF Awaits
  <2> QED BY <1>5, <2>2, <2>3
<1> QED BY <1>3, <1>4, <1>5 DEF RunStateMachine

LEMMA RequestOwn ==
    ASSUME TypeOK, OwnInv, IdsRested, NEW r \in Request, GetRequest(r)
    PROVE  OwnInv'
<1>1. saved' = saved
  BY DEF GetRequest
<1>2. CASE Full(session, SessionSize)
  <2>1. UNCHANGED <<session, net>>
    BY <1>2 DEF GetRequest
  <2> QED BY <1>1, <2>1 DEF OwnInv
<1>3. CASE ~Full(session, SessionSize)
  <2> DEFINE i == NextId(maxSession, session)
  <2>1. RunStateMachine(i, NewSession(r), timer, net)
    BY <1>3 DEF GetRequest
  <2>2. i \in SessionId /\ session[i] = Free
    BY <1>3, NextIdIsFree, ManagerAssumption DEF SessionId, TypeOK
  <2> HIDE DEF i
  <2>3. \A m \in net : m.to = i => session'[i] = Free
    BY <2>2 DEF IdsRested
  <2>4. NewSession(r) \in Session /\ net \in SUBSET Message
    BY NewSessionType DEF TypeOK
  <2>5. \A m \in net' : m.to \in Live(session') => Awaits(m, session'[m.to])
    BY <2>1, <2>2, <2>3, <2>4, RanOwn DEF OwnInv
  <2> QED BY <1>1, <2>5 DEF OwnInv
<1> QED BY <1>2, <1>3

\* a call is answered once: what is left on its way to its session is about
\* the others it waits for
LEMMA ResponseOwn ==
    ASSUME TypeOK, OwnInv, NEW m \in net, GetResponse(m)
    PROVE  OwnInv'
<1>1. saved' = saved
  BY DEF GetResponse
<1>2. CASE m.to \in Live(session) /\ Expected(m.to, m)
  <2> DEFINE i == m.to
             x == Answered(session[i], m)
             tm == ReleaseTimer(timer, TimerIdOf(session[i]))
  <2>1. RunStateMachine(i, x, tm, net \ {m})
    BY <1>2 DEF GetResponse, Accept
  <2>2. i \in SessionId /\ session[i] \in Session /\ i \in Live(session)
    BY <1>2 DEF Live, TypeOK
  <2>3. x \in Session /\ x.owner = session[i].owner /\ x.kind = session[i].kind
        /\ x.pending = session[i].pending \ {m.call}
    BY <2>2 DEF Answered, Session
  <2>4. net \ {m} \in SUBSET Message
    BY DEF TypeOK
  <2>5. ASSUME NEW w \in net \ {m}, w.to = i PROVE Awaits(w, x)
    <3>1. Awaits(w, session[i]) /\ Awaits(m, session[i])
      BY <2>2, <2>5 DEF OwnInv
    <3>2. w.call # m.call
      <4> SUFFICES ASSUME w.call = m.call PROVE FALSE
        OBVIOUS
      <4>1. w \in Message /\ m \in Message
        BY DEF TypeOK
      <4>2. w.to = m.to /\ w.kind = m.kind /\ w.owner = m.owner /\ w.call = m.call
        BY <2>5, <3>1 DEF Awaits
      <4>3. w = m
        BY <4>1, <4>2 DEF Message
      <4> QED BY <4>3
    <3> QED BY <2>3, <3>1, <3>2 DEF Awaits
  <2> HIDE DEF i, x, tm
  <2>6. \A w \in net \ {m} : w.to \in Live(session) \ {i} => Awaits(w, session[w.to])
    BY DEF OwnInv
  <2>7. \A w \in net' : w.to \in Live(session') => Awaits(w, session'[w.to])
    BY <2>1, <2>2, <2>3, <2>4, <2>5, <2>6, RanOwn
  <2> QED BY <1>1, <2>7 DEF OwnInv
<1>3. CASE ~(m.to \in Live(session) /\ Expected(m.to, m))
  <2>1. net' \subseteq net /\ session' = session
    BY <1>3 DEF GetResponse
  <2> QED BY <1>1, <2>1 DEF OwnInv
<1> QED BY <1>2, <1>3

\* steps that answer nobody and call nobody
LEMMA OthersOwn ==
    ASSUME OwnInv, saved' = saved, net' \subseteq net,
           \A i \in Live(session') : /\ i \in Live(session)
                                     /\ session'[i].owner = session[i].owner
                                     /\ session'[i].kind = session[i].kind
                                     /\ session'[i].pending = session[i].pending
    PROVE  OwnInv'
BY DEF OwnInv, Awaits

LEMMA OwnKept ==
    MaxRestarts = 0 /\ TypeOK /\ OwnInv /\ [Next]_vars /\ [IdsRested]_vars => OwnInv'
<1> SUFFICES ASSUME MaxRestarts = 0, TypeOK, OwnInv, [Next]_vars, [IdsRested]_vars
             PROVE  OwnInv'
  OBVIOUS
<1>0. \A i \in Live(session) : i \in SessionId /\ session[i] \in Session
  BY DEF Live, TypeOK
<1>1. CASE UNCHANGED vars
  BY <1>1, OthersOwn DEF vars
<1>2. CASE IdsRested /\ \E r \in Request : GetRequest(r)
  BY <1>2, RequestOwn
<1>3. CASE \E m \in net : GetResponse(m)
  BY <1>3, ResponseOwn
<1>4. CASE OnTick \/ LeakCheck \/ Crash
  <2>1. saved' = saved /\ net' \subseteq net
    BY <1>4 DEF OnTick, LeakCheck, Crash
  <2>2. \A i \in Live(session') : i \in Live(session) /\ session'[i] = session[i]
    BY <1>4 DEF OnTick, LeakCheck, Crash, Live, TypeOK
  <2> QED BY <2>1, <2>2, OthersOwn
<1>5. CASE Tick
  <2>1. saved' = saved /\ net' = net /\ DOMAIN session' = SessionId
        /\ \A i \in SessionId : session'[i] =
              IF i \in Live(session)
              THEN [session[i] EXCEPT !.age = IF @ <= LeakTime THEN @ + 1 ELSE @] ELSE Free
    BY <1>5 DEF Tick
  <2>2. ASSUME NEW i \in Live(session')
        PROVE  /\ i \in Live(session) /\ session'[i].owner = session[i].owner
               /\ session'[i].kind = session[i].kind /\ session'[i].pending = session[i].pending
    <3>1. i \in Live(session)
      BY <2>1, <2>2 DEF Live
    <3>2. session'[i] = [session[i] EXCEPT !.age = IF @ <= LeakTime THEN @ + 1 ELSE @]
      BY <1>0, <2>1, <3>1
    <3> QED BY <1>0, <3>1, <3>2 DEF Session
  <2> QED BY <2>1, <2>2, OthersOwn
<1>6. CASE Stop
  <2>1. stops.restarts \in Nat /\ stops.restarts < 0
    BY <1>6 DEF Stop, TypeOK
  <2> QED BY <2>1
<1>7. CASE Restart
  BY <1>7 DEF Restart, OwnInv
<1>8. CASE (\E m \in net : Lose(m)) \/ Done
  <2>1. UNCHANGED <<session, saved>> /\ net' \subseteq net
    BY <1>8 DEF Lose, Done, vars
  <2> QED BY <2>1, OthersOwn
<1> QED BY <1>1, <1>2, <1>3, <1>4, <1>5, <1>6, <1>7, <1>8 DEF Next

\* A session of a server that recovers nothing takes only responses to its own
\* calls, and only those it waits for, however many requests, ids that wrap,
\* lost calls and timeouts there are: as long as no id is given away while a
\* response to it is on its way, which is all that tells sessions apart.
THEOREM ResponsesAreOwn ==
    ASSUME FreeIsNone, MaxRestarts = 0
    PROVE  Spec /\ [][IdsRested]_vars => ResponseIsOwn
<1>1. Init => OwnInv
  BY DEF Init, OwnInv
<1>2. TypeOK /\ OwnInv /\ [Next]_vars /\ [IdsRested]_vars => OwnInv'
  BY OwnKept
<1>3. OwnInv =>
        [\A m \in net :
            ( /\ m \notin net' /\ m.to \in Live(session)
              /\ session'[m.to] # session[m.to] )
            => /\ m.owner = session[m.to].owner
               /\ m.call \in session[m.to].pending]_vars
  BY DEF OwnInv, Awaits
<1> QED BY <1>1, <1>2, <1>3, SessionInvariant, PTL DEF Spec, ResponseIsOwn
=============================================================================
