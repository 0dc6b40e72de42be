--------------------------- MODULE EventLoopProofs ---------------------------
(***************************************************************************)
(* For any number of connections and descriptors: what the loop has        *)
(* registered under a descriptor is the open socket with that descriptor,  *)
(* a socket ends in error only for what happened to it, and a service gets *)
(* the messages of a connection as they were sent, the last ones too.      *)
(*                                                                         *)
(* Match says the first of the loop's state by itself.  A handler changes  *)
(* that state in steps - it shuts sockets down, lets go of some, closes    *)
(* those without a reference - each of which keeps Match; so its order,    *)
(* and which connection a service closes, do not matter.  Flow says what   *)
(* was read and handled, the same way.                                     *)
(***************************************************************************)
EXTENDS EventLoop, SequenceTheorems, FiniteSetTheorems, WellFoundedInduction, TLAPS

\* what the constants must be
FilesOK == Files \in Nat /\ NoConn \notin Conn

Fields == {"fd", "reading", "unused", "taken", "end", "held", "delivered"}

Ends == {"none", "peer", "service", "error"}

Match(s) ==
    /\ DOMAIN s = Fields
    /\ s.fd \in [Conn -> Fd \cup {Closed}]
    /\ s.reading \in [Fd -> Conn \cup {NoConn}]
    /\ s.end \in [Conn -> Ends]
    /\ s.held \subseteq Conn
    /\ \A c \in s.held : s.fd[c] # Closed
    /\ \A c \in Conn : s.fd[c] # Closed => (s.end[c] = "none" <=> s.reading[s.fd[c]] = c)
    /\ \A f \in Fd : s.reading[f] # NoConn => s.fd[s.reading[f]] = f
    /\ \A c, d \in Conn : s.fd[c] = s.fd[d] /\ s.fd[c] # Closed => c = d

\* r comes of s by handlers: a closed socket stays as it is, a registration
\* may go, and a socket is shut down for an error only where blame says so
Handled(s, r, blame) ==
    /\ \A c \in Conn : s.fd[c] = Closed => r.fd[c] = Closed /\ r.end[c] = s.end[c]
    /\ \A f \in Fd : r.reading[f] \in {s.reading[f], NoConn}
    /\ \A c \in Conn : r.end[c] = "error" => s.end[c] = "error" \/ c \in blame

\* a connection that is still to be accepted has no socket
Fresh ==
    /\ \A c \in Conn : peer[c] = "none" \/ c \in ToSet(backlog) =>
           io.fd[c] = Closed /\ io.end[c] = "none"
    /\ \A c \in ToSet(backlog) : peer[c] # "none"

ListenEvent == [fd |-> Listen, flags |-> {"in"}]

BatchOK ==
    /\ batch \subseteq [fd : 1..Timer, flags : SUBSET {"in", "err"}]
    /\ \A e \in batch : e.fd = Listen => e = ListenEvent /\ backlog # <<>>

\* an error flag still to be handled is about the connection it will be taken for
FlagsOK ==
    \A e \in batch : e.fd \in Fd /\ "err" \in e.flags /\ io.reading[e.fd] # NoConn =>
        \/ peer[io.reading[e.fd]] = "reset"
        \/ "event" \in inherited[io.reading[e.fd]]

Queued ==
    /\ backlog \in Seq(Conn)
    /\ \A i, j \in 1..Len(backlog) : backlog[i] = backlog[j] => i = j

PeerTypes ==
    /\ peer \in [Conn -> {"none", "open", "fin", "reset"}]
    /\ inherited \in [Conn -> SUBSET {"bytes", "event"}]

EventInv ==
    /\ PeerTypes /\ Queued /\ BatchOK
    /\ Match(io) /\ Fresh /\ FlagsOK /\ EndsByItsOwn

-----------------------------------------------------------------------------
LEMMA SmallestExists ==
    ASSUME NEW S \in SUBSET Nat, S # {}
    PROVE  \E x \in S : \A y \in S : x <= y
<1>1. \E x \in S : \A y \in S : ~(<<y, x>> \in OpToRel(<, Nat))
  BY NatLessThanWellFounded, WFMin
<1>2. PICK x \in S : \A y \in S : ~(<<y, x>> \in OpToRel(<, Nat))
  BY <1>1
<1>3. ASSUME NEW y \in S PROVE x <= y
  <2>1. x \in Nat /\ y \in Nat
    OBVIOUS
  <2>2. ~(<<y, x>> \in {ss \in Nat \X Nat : ss[1] < ss[2]})
    BY <1>2 DEF OpToRel
  <2> QED BY <2>1, <2>2
<1> QED BY <1>3

LEMMA MinIsIn ==
    ASSUME NEW S \in SUBSET Nat, S # {}
    PROVE  Min(S) \in S
BY SmallestExists DEF Min

-----------------------------------------------------------------------------
(* The steps of a handler.                                                 *)

LEMMA FdsApart ==
    ASSUME FilesOK
    PROVE  /\ Fd \subseteq 1..Timer /\ Listen \in 1..Timer /\ Timer \in 1..Timer
           /\ Listen \notin Fd /\ Timer \notin Fd /\ Closed \notin Fd
           /\ Listen # Timer /\ Fd \subseteq Nat
BY DEF FilesOK, Fd, Listen, Timer, Closed

LEMMA ShutDownMatches ==
    ASSUME FilesOK, NEW s, Match(s), NEW c \in Conn, s.fd[c] # Closed, NEW why \in Ends \ {"none"},
           NEW blame, why = "error" => c \in blame
    PROVE  LET r == ShutDown(s, c, why)
           IN  Match(r) /\ Handled(s, r, blame) /\ r.fd = s.fd /\ r.held = s.held
<1> DEFINE r == ShutDown(s, c, why)
<1>1. s.fd[c] \in Fd /\ NoConn \notin Conn
  BY DEF FilesOK, Match
<1>2. /\ DOMAIN r = Fields /\ r.fd = s.fd /\ r.held = s.held
      /\ r.reading = [s.reading EXCEPT ![s.fd[c]] = NoConn]
      /\ r.end = [s.end EXCEPT ![c] = IF @ = "none" THEN why ELSE @]
  BY DEF ShutDown, AsyncCancel, Match, Fields
<1> HIDE DEF r
<1>3. /\ r.reading \in [Fd -> Conn \cup {NoConn}] /\ r.end \in [Conn -> Ends]
      /\ r.fd \in [Conn -> Fd \cup {Closed}] /\ r.held \subseteq Conn
      /\ \A d \in r.held : r.fd[d] # Closed
  BY <1>1, <1>2 DEF Match, Ends
<1>4. \A f \in Fd : r.reading[f] = IF f = s.fd[c] THEN NoConn ELSE s.reading[f]
  BY <1>1, <1>2 DEF Match
<1>5. \A d \in Conn : r.end[d] = IF d = c THEN (IF s.end[c] = "none" THEN why ELSE s.end[c]) ELSE s.end[d]
  BY <1>2 DEF Match
<1>6. r.end[c] # "none"
  BY <1>5 DEF Ends
<1>7. ASSUME NEW d \in Conn, r.fd[d] # Closed
      PROVE  r.end[d] = "none" <=> r.reading[r.fd[d]] = d
  <2>1. s.fd[d] \in Fd /\ (d # c => s.fd[d] # s.fd[c])
    BY <1>2, <1>7 DEF Match
  <2>2. CASE d = c
    BY <1>1, <1>2, <1>4, <1>6, <2>2
  <2>3. CASE d # c
    BY <1>2, <1>4, <1>5, <1>7, <2>1, <2>3 DEF Match
  <2> QED BY <2>2, <2>3
<1>8. \A f \in Fd : r.reading[f] # NoConn => r.fd[r.reading[f]] = f
  BY <1>2, <1>4 DEF Match
<1>9. \A d, e \in Conn : r.fd[d] = r.fd[e] /\ r.fd[d] # Closed => d = e
  BY <1>2 DEF Match
<1>10. Match(r)
  BY <1>2, <1>3, <1>7, <1>8, <1>9 DEF Match
<1>11. Handled(s, r, blame)
  BY <1>2, <1>4, <1>5 DEF Handled
<1> QED BY <1>2, <1>10, <1>11 DEF r

LEMMA LetGoMatches ==
    ASSUME NEW s, Match(s), NEW X, NEW blame
    PROVE  LET r == [s EXCEPT !.held = @ \ X]
           IN  Match(r) /\ Handled(s, r, blame) /\ r.fd = s.fd
<1> DEFINE r == [s EXCEPT !.held = @ \ X]
<1>1. /\ DOMAIN r = Fields /\ r.fd = s.fd /\ r.held = s.held \ X
      /\ r.reading = s.reading /\ r.end = s.end
  BY DEF Match, Fields
<1> HIDE DEF r
<1>2. Match(r)
  BY <1>1 DEF Match
<1>3. Handled(s, r, blame)
  BY <1>1 DEF Handled, Match
<1> QED BY <1>1, <1>2, <1>3 DEF r

LEMMA HandledTwice ==
    ASSUME NEW s, NEW r, NEW t, NEW blame, Handled(s, r, blame), Handled(r, t, blame)
    PROVE  Handled(s, t, blame)
BY DEF Handled

LEMMA CloseMatches ==
    ASSUME FilesOK, NEW s, Match(s), NEW c \in Conn \cup {NoConn}, c # NoConn => s.fd[c] # Closed,
           NEW blame
    PROVE  LET r == ConnectionClose(s, c)
           IN  Match(r) /\ Handled(s, r, blame) /\ r.fd = s.fd
<1>1. CASE c = NoConn
  BY <1>1 DEF ConnectionClose, Handled, Match
<1>2. CASE c # NoConn
  <2> DEFINE t == ShutDown(s, c, "service")
             u == [t EXCEPT !.held = @ \ {c}]
  <2>1. Match(t) /\ Handled(s, t, blame) /\ t.fd = s.fd
    BY <1>2, ShutDownMatches DEF Ends
  <2> HIDE DEF t
  <2>2. Match(u) /\ Handled(t, u, blame) /\ u.fd = t.fd
    BY <2>1, LetGoMatches
  <2>3. ConnectionClose(s, c) = u
    BY <1>2 DEF ConnectionClose, t
  <2> HIDE DEF u
  <2> QED BY <2>1, <2>2, <2>3, HandledTwice
<1> QED BY <1>1, <1>2

LEMMA ReleaseMatches ==
    ASSUME NEW s, Match(s), NEW blame
    PROVE  Match(Release(s)) /\ Handled(s, Release(s), blame)
<1> DEFINE r == Release(s)
           Gone(c) == s.fd[c] # Closed /\ c \notin s.held /\ s.reading[s.fd[c]] # c
<1>1. /\ DOMAIN r = Fields /\ r.held = s.held /\ r.reading = s.reading /\ r.end = s.end
      /\ r.fd = [c \in Conn |-> IF Gone(c) THEN Closed ELSE s.fd[c]]
  BY DEF Release, Match, Fields
<1> HIDE DEF r
<1>2. \A c \in Conn : r.fd[c] = Closed \/ (r.fd[c] = s.fd[c] /\ ~Gone(c))
  BY <1>1
<1>3. r.fd \in [Conn -> Fd \cup {Closed}]
  BY <1>1 DEF Match
<1>4. \A c \in r.held : r.fd[c] # Closed
  BY <1>1 DEF Match
<1>5. ASSUME NEW f \in Fd, r.reading[f] # NoConn PROVE r.fd[r.reading[f]] = f
  BY <1>1, <1>5 DEF Match
<1>6. \A c \in Conn : r.fd[c] # Closed => (r.end[c] = "none" <=> r.reading[r.fd[c]] = c)
  BY <1>1, <1>2 DEF Match
<1>7. \A c, d \in Conn : r.fd[c] = r.fd[d] /\ r.fd[c] # Closed => c = d
  BY <1>1, <1>2 DEF Match
<1> HIDE DEF Gone
<1>8. Match(r)
  BY <1>1, <1>3, <1>4, <1>5, <1>6, <1>7 DEF Match
<1>9. Handled(s, r, blame)
  <2>1. \A c \in Conn : s.fd[c] = Closed => r.fd[c] = Closed
    BY <1>2
  <2> QED BY <1>1, <2>1 DEF Handled
<1> QED BY <1>8, <1>9 DEF r

-----------------------------------------------------------------------------
(* The handlers of the events of a connection.                             *)

LEMMA ReadMatches ==
    ASSUME FilesOK, NEW s, Match(s), NEW c \in Conn, s.fd[c] # Closed,
           NEW d \in Conn \cup {NoConn}, d # NoConn => s.fd[d] # Closed, NEW k, NEW blame
    PROVE  LET r == OnSocketRead(s, c, d, k)
           IN  Match(r) /\ Handled(s, r, blame) /\ r.fd = s.fd
<1> DEFINE buffer == Receive(s, c)
           n == Complete(buffer)
           handled == IF s.end[c] # "none" THEN 0
                      ELSE IF d = c THEN Min({k, n}) ELSE n
           got == [s EXCEPT !.taken[c] = sent[c],
                            !.unused[s.fd[c]] = <<>>,
                            !.delivered[c] = @ \o Messages(buffer, handled)]
           closed == IF k <= handled THEN ConnectionClose(got, d) ELSE got
           r == [closed EXCEPT !.unused[s.fd[c]] = @ \o SubSeq(buffer, 2 * n + 1, Len(buffer))]
<1>1. OnSocketRead(s, c, d, k) = r
  BY DEF OnSocketRead
<1> HIDE DEF handled, n, buffer
<1>2. /\ DOMAIN got = Fields /\ got.fd = s.fd /\ got.held = s.held
      /\ got.reading = s.reading /\ got.end = s.end
  BY DEF Match, Fields
<1> HIDE DEF got
<1>3. Match(got) /\ Handled(s, got, blame)
  BY <1>2 DEF Match, Handled
<1>4. Match(ConnectionClose(got, d)) /\ Handled(got, ConnectionClose(got, d), blame)
      /\ ConnectionClose(got, d).fd = got.fd
  BY <1>2, <1>3, CloseMatches
<1>5. Match(closed) /\ Handled(s, closed, blame) /\ closed.fd = s.fd
  BY <1>2, <1>3, <1>4, HandledTwice
<1> HIDE DEF closed
<1>6. /\ DOMAIN r = Fields /\ r.fd = closed.fd /\ r.held = closed.held
      /\ r.reading = closed.reading /\ r.end = closed.end
  BY <1>5 DEF Match, Fields
<1> HIDE DEF r
<1>7. Match(r) /\ Handled(s, r, blame) /\ r.fd = s.fd
  BY <1>5, <1>6 DEF Match, Handled
<1> QED BY <1>1, <1>7

LEMMA ReadEventMatches ==
    ASSUME FilesOK, NEW s, Match(s), NEW c \in Conn, s.fd[c] # Closed,
           NEW d \in Conn \cup {NoConn}, d # NoConn => s.fd[d] # Closed, NEW k,
           peer[c] \in {"open", "fin", "reset"}, NEW blame, peer[c] = "reset" => c \in blame
    PROVE  LET r == OnReadEvent(s, c, d, k)
           IN  Match(r) /\ Handled(s, r, blame) /\ r.fd = s.fd
<1> DEFINE read == OnSocketRead(s, c, d, k)
<1>1. Match(read) /\ Handled(s, read, blame) /\ read.fd = s.fd
  BY ReadMatches
<1>2. OnReadEvent(s, c, d, k) =
          CASE peer[c] = "open" -> read
            [] peer[c] = "fin" -> [ShutDown(read, c, "peer") EXCEPT !.held = @ \ {c}]
            [] peer[c] = "reset" -> ShutDown(read, c, "error")
  BY DEF OnReadEvent
<1> HIDE DEF read
<1>3. CASE peer[c] = "open"
  BY <1>1, <1>2, <1>3
<1>4. CASE peer[c] = "fin"
  <2> DEFINE t == ShutDown(read, c, "peer")
             u == [t EXCEPT !.held = @ \ {c}]
  <2>1. Match(t) /\ Handled(read, t, blame) /\ t.fd = read.fd
    BY <1>1, ShutDownMatches DEF Ends
  <2>2. OnReadEvent(s, c, d, k) = u
    BY <1>2, <1>4
  <2> HIDE DEF t
  <2>3. Match(u) /\ Handled(t, u, blame) /\ u.fd = t.fd
    BY <2>1, LetGoMatches
  <2> HIDE DEF u
  <2> QED BY <1>1, <2>1, <2>2, <2>3, HandledTwice
<1>5. CASE peer[c] = "reset"
  <2> DEFINE t == ShutDown(read, c, "error")
  <2>1. Match(t) /\ Handled(read, t, blame) /\ t.fd = read.fd
    BY <1>1, <1>5, ShutDownMatches DEF Ends
  <2>2. OnReadEvent(s, c, d, k) = t
    BY <1>2, <1>5
  <2> HIDE DEF t
  <2> QED BY <1>1, <2>1, <2>2, HandledTwice
<1> QED BY <1>3, <1>4, <1>5

LEMMA ReadFlagMatches ==
    ASSUME FilesOK, NEW s, Match(s), NEW f \in Fd,
           NEW d \in Conn \cup {NoConn}, d # NoConn => s.fd[d] # Closed, NEW k, NEW blame,
           s.reading[f] # NoConn => /\ peer[s.reading[f]] \in {"open", "fin", "reset"}
                                    /\ peer[s.reading[f]] = "reset" => s.reading[f] \in blame
    PROVE  LET r == OnReadFlag(s, f, d, k)
           IN  Match(r) /\ Handled(s, r, blame) /\ r.fd = s.fd
<1>1. CASE s.reading[f] = NoConn
  <2> DEFINE r == AsyncCancel(s, f)
  <2>1. /\ DOMAIN r = Fields /\ r.fd = s.fd /\ r.held = s.held
        /\ r.reading = s.reading /\ r.end = s.end
    BY <1>1 DEF Match, Fields, AsyncCancel
  <2>2. OnReadFlag(s, f, d, k) = r
    BY <1>1 DEF OnReadFlag
  <2> HIDE DEF r
  <2>3. Match(r) /\ Handled(s, r, blame)
    BY <2>1 DEF Match, Handled
  <2> QED BY <2>1, <2>2, <2>3
<1>2. CASE s.reading[f] # NoConn
  <2>1. s.reading[f] \in Conn /\ s.fd[s.reading[f]] = f /\ f # Closed
    BY <1>2, FdsApart DEF Match
  <2>2. OnReadFlag(s, f, d, k) = OnReadEvent(s, s.reading[f], d, k)
    BY <1>2 DEF OnReadFlag
  <2> QED BY <1>2, <2>1, <2>2, ReadEventMatches
<1> QED BY <1>1, <1>2

LEMMA ErrorEventMatches ==
    ASSUME FilesOK, NEW s, Match(s), NEW f \in Fd, NEW blame,
           s.reading[f] # NoConn => s.reading[f] \in blame
    PROVE  LET r == OnErrorEvent(s, f) IN Match(r) /\ Handled(s, r, blame)
<1>1. CASE s.reading[f] = NoConn
  BY <1>1 DEF OnErrorEvent, Handled, Match
<1>2. CASE s.reading[f] # NoConn
  <2>1. s.reading[f] \in Conn /\ s.fd[s.reading[f]] = f /\ f # Closed
    BY <1>2, FdsApart DEF Match
  <2>2. OnErrorEvent(s, f) = ShutDown(s, s.reading[f], "error")
    BY <1>2 DEF OnErrorEvent
  <2> QED BY <1>2, <2>1, <2>2, ShutDownMatches DEF Ends
<1> QED BY <1>1, <1>2

-----------------------------------------------------------------------------
(* The steps of the system.                                                *)

\* the connections that may end in error
Blame == {c \in Conn : peer[c] = "reset" \/ "event" \in inherited[c]}

LEMMA Handles ==
    ASSUME FilesOK, EventInv, Match(io'), Handled(io, io', Blame), batch' \subseteq batch,
           UNCHANGED <<peer, backlog, inherited>>
    PROVE  EventInv'
<1>1. PeerTypes' /\ Queued'
  BY DEF EventInv, PeerTypes, Queued
<1>2. BatchOK'
  BY DEF EventInv, BatchOK, ListenEvent, Listen, Timer
<1>3. Match(io)'
  OBVIOUS
<1>4. Fresh'
  BY DEF EventInv, Fresh, Handled
<1>5. FlagsOK'
  BY DEF EventInv, FlagsOK, Handled
<1>6. EndsByItsOwn'
  BY DEF EventInv, EndsByItsOwn, Handled, Blame
<1> QED BY <1>1, <1>2, <1>3, <1>4, <1>5, <1>6 DEF EventInv

LEMMA EventBegan == FilesOK /\ LoopInit => EventInv
<1> SUFFICES ASSUME FilesOK, LoopInit PROVE EventInv
  OBVIOUS
<1>1. /\ DOMAIN io = Fields /\ io.fd = [c \in Conn |-> Closed] /\ io.held = {}
      /\ io.reading = [f \in Fd |-> NoConn] /\ io.end = [c \in Conn |-> "none"]
  BY DEF LoopInit, InitIo, Fields
<1>2. Match(io)
  BY <1>1 DEF Match, Ends, FilesOK
<1>3. PeerTypes /\ Queued /\ BatchOK /\ FlagsOK
  BY DEF LoopInit, PeerTypes, Queued, BatchOK, FlagsOK
<1>4. Fresh /\ EndsByItsOwn
  BY <1>1 DEF LoopInit, Fresh, EndsByItsOwn, ToSet
<1> QED BY <1>2, <1>3, <1>4 DEF EventInv

LEMMA ConnectStep ==
    ASSUME FilesOK, EventInv, NEW c \in Conn, Connect(c)
    PROVE  EventInv'
<1>1. /\ peer[c] = "none" /\ peer' = [peer EXCEPT ![c] = "open"]
      /\ backlog' = Append(backlog, c) /\ UNCHANGED <<io, batch, inherited>>
  BY DEF Connect
<1>2. backlog \in Seq(Conn) /\ c \notin ToSet(backlog)
  BY <1>1 DEF EventInv, Queued, Fresh
<1>3. Len(backlog) \in Nat /\ DOMAIN backlog = 1..Len(backlog)
  BY <1>2, LenProperties
<1>4. /\ backlog' \in Seq(Conn) /\ Len(backlog') = Len(backlog) + 1
      /\ \A i \in 1..Len(backlog) : backlog'[i] = backlog[i]
      /\ backlog'[Len(backlog) + 1] = c
  BY <1>1, <1>2, AppendProperties
<1>5. DOMAIN backlog' = 1..(Len(backlog) + 1)
  BY <1>4, LenProperties
<1>6. ToSet(backlog') = ToSet(backlog) \cup {c}
  BY <1>3, <1>4, <1>5 DEF ToSet
<1>7. PeerTypes'
  BY <1>1 DEF EventInv, PeerTypes
<1>8. Queued'
  <2>1. \A i \in 1..Len(backlog) : backlog[i] # c
    BY <1>2, <1>3 DEF ToSet
  <2> QED BY <1>3, <1>4, <2>1 DEF EventInv, Queued
<1>9. BatchOK'
  <2>1. backlog' # <<>>
    BY <1>3, <1>4, EmptySeq
  <2> QED BY <1>1, <2>1 DEF EventInv, BatchOK, ListenEvent, Listen, Timer
<1>10. Match(io)'
  BY <1>1 DEF EventInv
<1>11. Fresh'
  BY <1>1, <1>6 DEF EventInv, Fresh, PeerTypes
<1>12. \A e \in Conn : peer[e] = "reset" => peer'[e] = "reset"
  BY <1>1 DEF EventInv, PeerTypes
<1>13. FlagsOK'
  <2> SUFFICES ASSUME NEW e \in batch, e.fd \in Fd, "err" \in e.flags, io.reading[e.fd] # NoConn
               PROVE  \/ peer'[io.reading[e.fd]] = "reset"
                      \/ "event" \in inherited[io.reading[e.fd]]
    BY <1>1 DEF FlagsOK, Fd
  <2>1. io.reading[e.fd] \in Conn
    BY DEF EventInv, Match
  <2> QED BY <1>12, <2>1 DEF EventInv, FlagsOK
<1>14. EndsByItsOwn'
  BY <1>1, <1>12 DEF EventInv, EndsByItsOwn
<1> QED BY <1>7, <1>8, <1>9, <1>10, <1>11, <1>13, <1>14 DEF EventInv

LEMMA PeerStep ==
    ASSUME FilesOK, EventInv, NEW c \in Conn, Send(c) \/ PeerEnds(c)
    PROVE  EventInv'
<1>1. /\ UNCHANGED <<backlog, io, batch, inherited>>
      /\ peer' = peer \/ \E how \in {"fin", "reset"} : peer[c] = "open" /\ peer' = [peer EXCEPT ![c] = how]
  BY DEF Send, PeerEnds
<1>2. PeerTypes'
  BY <1>1 DEF EventInv, PeerTypes
<1>3. Queued' /\ Match(io)'
  BY <1>1 DEF EventInv, Queued
<1>4. BatchOK'
  BY <1>1 DEF EventInv, BatchOK, ListenEvent, Listen, Timer
<1>5. \A e \in Conn : (peer[e] = "reset" => peer'[e] = "reset") /\ (peer[e] = "none" <=> peer'[e] = "none")
  BY <1>1 DEF EventInv, PeerTypes
<1>6. Fresh'
  <2>1. ToSet(backlog) \subseteq Conn
    BY LenProperties DEF EventInv, Queued, ToSet
  <2> QED BY <1>1, <1>5, <2>1 DEF EventInv, Fresh
<1>7. FlagsOK'
  <2> SUFFICES ASSUME NEW e \in batch, e.fd \in Fd, "err" \in e.flags, io.reading[e.fd] # NoConn
               PROVE  \/ peer'[io.reading[e.fd]] = "reset"
                      \/ "event" \in inherited[io.reading[e.fd]]
    BY <1>1 DEF FlagsOK, Fd
  <2>1. io.reading[e.fd] \in Conn
    BY DEF EventInv, Match
  <2> QED BY <1>5, <2>1 DEF EventInv, FlagsOK
<1>8. EndsByItsOwn'
  BY <1>1, <1>5 DEF EventInv, EndsByItsOwn
<1> QED BY <1>2, <1>3, <1>4, <1>6, <1>7, <1>8 DEF EventInv

LEMMA WaitStep ==
    ASSUME FilesOK, EventInv, WaitEvent
    PROVE  EventInv'
<1>1. UNCHANGED <<peer, sent, backlog, io, inherited>>
  BY DEF WaitEvent
<1>2. \A e \in batch' : \/ /\ e.fd \in Fd /\ io.reading[e.fd] # NoConn
                           /\ e.flags = Flags(io.reading[e.fd])
                        \/ e = ListenEvent /\ backlog # <<>>
                        \/ e.fd = Timer /\ e.flags = {"in"}
  BY DEF WaitEvent, Ready, ListenEvent
<1>3. BatchOK'
  <2>1. \A c : Flags(c) \subseteq {"in", "err"}
    BY DEF Flags
  <2>2. ListenEvent.fd \in 1..Timer /\ ListenEvent.flags \subseteq {"in", "err"}
    BY FdsApart DEF ListenEvent
  <2>3. \A e \in batch' : e.fd \in 1..Timer /\ e.flags \subseteq {"in", "err"}
    BY <1>2, <2>1, <2>2, FdsApart
  <2>4. \A e \in batch' : e.fd = Listen => e = ListenEvent /\ backlog # <<>>
    BY <1>2, FdsApart
  <2>5. \A e \in batch' : e = [fd |-> e.fd, flags |-> e.flags]
    BY DEF WaitEvent, Ready
  <2>6. batch' \subseteq [fd : 1..Timer, flags : SUBSET {"in", "err"}]
    BY <2>3, <2>5
  <2> QED BY <1>1, <2>4, <2>6 DEF BatchOK, ListenEvent, Listen, Timer
<1>4. FlagsOK'
  <2> SUFFICES ASSUME NEW e \in batch', e.fd \in Fd, "err" \in e.flags, io.reading[e.fd] # NoConn
               PROVE  peer[io.reading[e.fd]] = "reset"
    BY <1>1 DEF FlagsOK, Fd
  <2>1. e.flags = Flags(io.reading[e.fd])
    BY <1>2, FdsApart DEF ListenEvent
  <2> QED BY <2>1 DEF Flags
<1>5. PeerTypes' /\ Queued' /\ Match(io)' /\ Fresh' /\ EndsByItsOwn'
  BY <1>1 DEF EventInv, PeerTypes, Queued, Fresh, EndsByItsOwn
<1> QED BY <1>3, <1>4, <1>5 DEF EventInv

LEMMA TimerStep ==
    ASSUME FilesOK, EventInv, NEW e \in batch, OnTimerEvent(e)
    PROVE  EventInv'
<1>1. PICK c \in io.held \cup {NoConn} : io' = Release(ConnectionClose(io, c))
  BY DEF OnTimerEvent
<1>2. c \in Conn \cup {NoConn} /\ (c # NoConn => io.fd[c] # Closed) /\ Match(io)
  BY DEF EventInv, Match
<1>3. Match(ConnectionClose(io, c)) /\ Handled(io, ConnectionClose(io, c), Blame)
  BY <1>2, CloseMatches
<1>4. Match(io') /\ Handled(io, io', Blame)
  BY <1>1, <1>3, ReleaseMatches, HandledTwice
<1> QED BY <1>4, Handles DEF OnTimerEvent

LEMMA ConnStep ==
    ASSUME FilesOK, EventInv, NEW e \in batch, OnConnEvent(e)
    PROVE  EventInv'
<1>1. /\ e.fd \in Fd
      /\ \E d \in io.held \cup {io.reading[e.fd], NoConn}, k \in 1..(MaxCells \div 2) :
             LET read == IF "in" \in e.flags THEN OnReadFlag(io, e.fd, d, k) ELSE io
                 both == IF "err" \in e.flags THEN OnErrorEvent(read, e.fd) ELSE read
             IN  io' = Release(both)
  BY DEF OnConnEvent
<1>2. PICK d \in io.held \cup {io.reading[e.fd], NoConn}, k \in 1..(MaxCells \div 2) :
             LET read == IF "in" \in e.flags THEN OnReadFlag(io, e.fd, d, k) ELSE io
                 both == IF "err" \in e.flags THEN OnErrorEvent(read, e.fd) ELSE read
             IN  io' = Release(both)
  BY <1>1
<1> DEFINE f == e.fd
           read == IF "in" \in e.flags THEN OnReadFlag(io, f, d, k) ELSE io
           both == IF "err" \in e.flags THEN OnErrorEvent(read, f) ELSE read
<1>3. io' = Release(both)
  BY <1>2
<1>4. Match(io) /\ f \in Fd /\ f # Closed
  BY <1>1, FdsApart DEF EventInv
<1>5. d \in Conn \cup {NoConn} /\ (d # NoConn => io.fd[d] # Closed)
  BY <1>4 DEF Match
<1>6. io.reading[f] # NoConn => /\ io.reading[f] \in Conn
                                /\ peer[io.reading[f]] \in {"open", "fin", "reset"}
                                /\ peer[io.reading[f]] = "reset" => io.reading[f] \in Blame
  <2> SUFFICES ASSUME io.reading[f] # NoConn
               PROVE  /\ io.reading[f] \in Conn
                      /\ peer[io.reading[f]] \in {"open", "fin", "reset"}
                      /\ peer[io.reading[f]] = "reset" => io.reading[f] \in Blame
    OBVIOUS
  <2>1. io.reading[f] \in Conn /\ io.fd[io.reading[f]] # Closed
    BY <1>4 DEF Match
  <2>2. peer[io.reading[f]] # "none"
    BY <2>1 DEF EventInv, Fresh
  <2> QED BY <2>1, <2>2 DEF EventInv, PeerTypes, Blame
<1>7. Match(read) /\ Handled(io, read, Blame)
  <2>1. Handled(io, io, Blame)
    BY DEF Handled
  <2>2. Match(OnReadFlag(io, f, d, k)) /\ Handled(io, OnReadFlag(io, f, d, k), Blame)
    BY <1>4, <1>5, <1>6, ReadFlagMatches
  <2> QED BY <1>4, <2>1, <2>2
<1>8. Match(both) /\ Handled(io, both, Blame)
  <2>1. CASE "err" \in e.flags
    <3>1. read.reading[f] # NoConn => read.reading[f] \in Blame
      <4> SUFFICES ASSUME read.reading[f] # NoConn PROVE read.reading[f] \in Blame
        OBVIOUS
      <4>1. read.reading[f] = io.reading[f]
        BY <1>4, <1>7 DEF Handled
      <4> QED BY <1>4, <1>6, <2>1, <4>1 DEF EventInv, FlagsOK, Blame
    <3> HIDE DEF read
    <3>2. Match(OnErrorEvent(read, f)) /\ Handled(read, OnErrorEvent(read, f), Blame)
      BY <1>4, <1>7, <3>1, ErrorEventMatches
    <3> QED BY <1>7, <2>1, <3>2, HandledTwice
  <2>2. CASE "err" \notin e.flags
    BY <1>7, <2>2
  <2> QED BY <2>1, <2>2
<1> HIDE DEF both, read
<1>9. Match(io') /\ Handled(io, io', Blame)
  BY <1>3, <1>8, ReleaseMatches, HandledTwice
<1> QED BY <1>9, Handles DEF OnConnEvent

\* what an accept does to the loop's state
Accepted(s, c, f, more) == [s EXCEPT !.fd[c] = f, !.reading[f] = c, !.held = @ \cup more]

LEMMA AcceptMatches ==
    ASSUME FilesOK, Match(io), NEW c \in Conn, io.fd[c] = Closed, io.end[c] = "none",
           NEW f \in Free, NEW more \in {{}, {c}}
    PROVE  LET r == Accepted(io, c, f, more)
           IN  /\ Match(r) /\ r.end = io.end
               /\ \A d \in Conn : d # c => r.fd[d] = io.fd[d]
               /\ \A g \in Fd : r.reading[g] = IF g = f THEN c ELSE io.reading[g]
<1> DEFINE r == Accepted(io, c, f, more)
<1>1. f \in Fd /\ f # Closed /\ NoConn \notin Conn /\ (\A d \in Conn : io.fd[d] # f)
  BY FdsApart DEF Free, FilesOK
<1>2. /\ DOMAIN r = Fields /\ r.held = io.held \cup more /\ r.end = io.end
      /\ r.fd = [io.fd EXCEPT ![c] = f] /\ r.reading = [io.reading EXCEPT ![f] = c]
  BY DEF Accepted, Match, Fields
<1> HIDE DEF r
<1>3. /\ \A d \in Conn : r.fd[d] = IF d = c THEN f ELSE io.fd[d]
      /\ \A g \in Fd : r.reading[g] = IF g = f THEN c ELSE io.reading[g]
  BY <1>1, <1>2 DEF Match
<1>4. /\ r.fd \in [Conn -> Fd \cup {Closed}] /\ r.reading \in [Fd -> Conn \cup {NoConn}]
      /\ r.end \in [Conn -> Ends] /\ r.held \subseteq Conn
  BY <1>1, <1>2 DEF Match
<1>5. \A d \in r.held : r.fd[d] # Closed
  BY <1>1, <1>2, <1>3 DEF Match
<1>6. ASSUME NEW d \in Conn, r.fd[d] # Closed
      PROVE  r.end[d] = "none" <=> r.reading[r.fd[d]] = d
  <2>1. CASE d = c
    BY <1>1, <1>2, <1>3, <2>1
  <2>2. CASE d # c
    <3>1. r.fd[d] = io.fd[d] /\ io.fd[d] \in Fd /\ io.fd[d] # f
      BY <1>1, <1>3, <1>6, <2>2 DEF Match
    <3> QED BY <1>2, <1>3, <1>6, <3>1 DEF Match
  <2> QED BY <2>1, <2>2
<1>7. ASSUME NEW g \in Fd, r.reading[g] # NoConn PROVE r.fd[r.reading[g]] = g
  <2>1. CASE g = f
    BY <1>3, <2>1
  <2>2. CASE g # f
    <3>1. r.reading[g] = io.reading[g] /\ io.reading[g] \in Conn
      BY <1>3, <1>7, <2>2 DEF Match
    <3>2. io.fd[io.reading[g]] = g /\ g # Closed
      BY <1>7, <3>1, FdsApart DEF Match
    <3> QED BY <1>3, <3>1, <3>2
  <2> QED BY <2>1, <2>2
<1>8. \A d, e \in Conn : r.fd[d] = r.fd[e] /\ r.fd[d] # Closed => d = e
  BY <1>1, <1>3 DEF Match
<1>9. Match(r)
  BY <1>2, <1>4, <1>5, <1>6, <1>7, <1>8 DEF Match
<1> QED BY <1>2, <1>3, <1>9 DEF r

LEMMA AcceptStep ==
    ASSUME FilesOK, EventInv, NEW e \in batch, OnAcceptEvent(e)
    PROVE  EventInv'
<1>1. /\ e.fd = Listen /\ batch' = batch \ {e} /\ peer' = peer
  BY DEF OnAcceptEvent
<1>2. e = ListenEvent /\ backlog # <<>>
  BY <1>1 DEF EventInv, BatchOK
<1>3. BatchOK'
  BY <1>1, <1>2 DEF EventInv, BatchOK, ListenEvent, Listen, Timer
<1>4. CASE Free = {}
  <2>1. UNCHANGED <<backlog, io, inherited>>
    BY <1>4 DEF OnAcceptEvent
  <2>2. PeerTypes' /\ Queued' /\ Match(io)' /\ Fresh' /\ EndsByItsOwn'
    BY <1>1, <2>1 DEF EventInv, PeerTypes, Queued, Fresh, EndsByItsOwn
  <2>3. FlagsOK'
    BY <1>1, <2>1 DEF EventInv, FlagsOK
  <2> QED BY <1>3, <2>2, <2>3 DEF EventInv
<1>5. CASE Free # {}
  <2> DEFINE c == Head(backlog)
             f == Min(Free)
  <2>1. PICK held \in {{}, {c}} :
            /\ backlog' = Tail(backlog)
            /\ io' = Accepted(io, c, f, held)
            /\ inherited' = [inherited EXCEPT ![c] =
                   (IF io.unused[f] = <<>> THEN {} ELSE {"bytes"})
                   \cup (IF \E late \in batch' : late.fd = f THEN {"event"} ELSE {})]
    BY <1>5 DEF OnAcceptEvent, Accepted
  <2>2. Free \in SUBSET Nat
    BY FdsApart DEF Free
  <2>3. f \in Free
    BY <1>5, <2>2, MinIsIn
  <2> HIDE DEF f
  <2>4. /\ backlog \in Seq(Conn) /\ Len(backlog) \in Nat /\ Len(backlog) # 0
        /\ DOMAIN backlog = 1..Len(backlog)
    BY <1>2, LenProperties, EmptySeq DEF EventInv, Queued
  <2>5. c \in Conn /\ c \in ToSet(backlog)
    BY <2>4, HeadTailProperties DEF ToSet
  <2>6. /\ backlog' \in Seq(Conn) /\ Len(backlog') = Len(backlog) - 1
        /\ \A i \in 1..Len(backlog') : backlog'[i] = backlog[i + 1]
    BY <1>2, <2>1, <2>4, HeadTailProperties
  <2>7. backlog[1] = c
    BY <2>4
  <2>8. \A i \in 1..Len(backlog') : i + 1 \in 1..Len(backlog) /\ i + 1 # 1
    BY <2>4, <2>6
  <2>9. Queued'
    BY <2>4, <2>6, <2>8 DEF EventInv, Queued
  <2>10. DOMAIN backlog' = 1..Len(backlog')
    BY <2>6, LenProperties
  <2>11. ToSet(backlog') \subseteq ToSet(backlog) /\ c \notin ToSet(backlog')
    <3>1. 1 \in 1..Len(backlog)
      BY <2>4
    <3>2. \A i \in 1..Len(backlog') : backlog'[i] # c
      BY <2>6, <2>7, <2>8, <3>1 DEF EventInv, Queued
    <3> QED BY <2>4, <2>6, <2>8, <2>10, <3>2 DEF ToSet
  <2> HIDE DEF c
  <2>12. io.fd[c] = Closed /\ io.end[c] = "none" /\ peer[c] # "none"
    BY <2>5 DEF EventInv, Fresh
  <2>13. /\ Match(io)' /\ io'.end = io.end
         /\ \A d \in Conn : d # c => io'.fd[d] = io.fd[d]
         /\ \A g \in Fd : io'.reading[g] = IF g = f THEN c ELSE io.reading[g]
    <3> DEFINE r == Accepted(io, c, f, held)
    <3>1. Match(io)
      BY DEF EventInv
    <3>2. /\ Match(r) /\ r.end = io.end
          /\ \A d \in Conn : d # c => r.fd[d] = io.fd[d]
          /\ \A g \in Fd : r.reading[g] = IF g = f THEN c ELSE io.reading[g]
      BY <2>3, <2>5, <2>12, <3>1, AcceptMatches
    <3>3. io' = r
      BY <2>1
    <3> HIDE DEF r
    <3> QED BY <3>2, <3>3
  <2>14. /\ PeerTypes'
         /\ \A d \in Conn : d # c => inherited'[d] = inherited[d]
         /\ (\E late \in batch' : late.fd = f) => "event" \in inherited'[c]
    BY <1>1, <2>1, <2>5 DEF EventInv, PeerTypes
  <2>15. Fresh'
    <3>1. \A d \in Conn : peer[d] = "none" \/ d \in ToSet(backlog') => d # c
      BY <2>11, <2>12
    <3> QED BY <1>1, <2>11, <2>13, <3>1 DEF EventInv, Fresh
  <2>16. FlagsOK'
    <3> SUFFICES ASSUME NEW b \in batch', b.fd \in Fd, "err" \in b.flags,
                        io'.reading[b.fd] # NoConn
                 PROVE  \/ peer[io'.reading[b.fd]] = "reset"
                        \/ "event" \in inherited'[io'.reading[b.fd]]
      BY <1>1 DEF FlagsOK, Fd
    <3>1. CASE b.fd = f
      BY <2>13, <2>14, <3>1
    <3>2. CASE b.fd # f
      <4>1. io'.reading[b.fd] = io.reading[b.fd] /\ io.reading[b.fd] \in Conn
        BY <2>13, <3>2 DEF EventInv, Match
      <4>2. io.reading[b.fd] # c
        BY <2>12, <4>1, FdsApart DEF EventInv, Match
      <4> QED BY <1>1, <2>14, <4>1, <4>2 DEF EventInv, FlagsOK
    <3> QED BY <3>1, <3>2
  <2>17. EndsByItsOwn'
    BY <1>1, <2>12, <2>13, <2>14 DEF EventInv, EndsByItsOwn
  <2> QED BY <1>3, <2>9, <2>13, <2>14, <2>15, <2>16, <2>17 DEF EventInv
<1> QED BY <1>4, <1>5

LEMMA EventStutters ==
    ASSUME EventInv, UNCHANGED loopVars
    PROVE  EventInv'
<1>1. PeerTypes' /\ Queued' /\ BatchOK' /\ Match(io)'
  BY DEF loopVars, EventInv, PeerTypes, Queued, BatchOK, ListenEvent, Listen, Timer
<1>2. Fresh' /\ FlagsOK' /\ EndsByItsOwn'
  BY DEF loopVars, EventInv, Fresh, FlagsOK, EndsByItsOwn
<1> QED BY <1>1, <1>2 DEF EventInv

LEMMA EventInductive == FilesOK /\ EventInv /\ [LoopNext]_loopVars => EventInv'
<1> SUFFICES ASSUME FilesOK, EventInv, [LoopNext]_loopVars PROVE EventInv'
  OBVIOUS
<1>1. CASE WaitEvent
  BY <1>1, WaitStep
<1>2. CASE \E e \in batch : OnAcceptEvent(e) \/ OnTimerEvent(e) \/ OnConnEvent(e)
  BY <1>2, AcceptStep, TimerStep, ConnStep
<1>3. CASE \E c \in Conn : Connect(c) \/ Send(c) \/ PeerEnds(c)
  BY <1>3, ConnectStep, PeerStep
<1>4. CASE UNCHANGED loopVars
  BY <1>4, EventStutters
<1> QED BY <1>1, <1>2, <1>3, <1>4 DEF LoopNext, Run

\* The loop's registrations and its open sockets always match, over accepts,
\* reads, closes by either side and by a timer, and descriptors used again.
THEOREM EventInvariant ==
    ASSUME FilesOK
    PROVE  LoopSpec => []EventInv
<1>1. LoopInit => EventInv
  BY EventBegan
<1>2. EventInv /\ [LoopNext]_loopVars => EventInv'
  BY EventInductive
<1> QED BY <1>1, <1>2, PTL DEF LoopSpec

\* A socket that is not shut down is registered under its own descriptor, one
\* that is shut down nowhere, and open sockets have different descriptors, for
\* any number of connections and descriptors.
THEOREM SocketsRegistered ==
    ASSUME FilesOK
    PROVE  LoopSpec => []CompletionsMatch
<1>1. EventInv => CompletionsMatch
  BY DEF EventInv, Match, CompletionsMatch
<1> QED BY <1>1, EventInvariant, PTL

\* A connection is shut down in error only when its peer broke it, or an event of
\* the descriptor's former connection was still to be handled when it was accepted.
THEOREM ErrorsAreOwn ==
    ASSUME FilesOK
    PROVE  LoopSpec => []EndsByItsOwn
<1>1. EventInv => EndsByItsOwn
  BY DEF EventInv
<1> QED BY <1>1, EventInvariant, PTL

-----------------------------------------------------------------------------
(* The bytes of a connection, cut into messages.                           *)

CellSet == {Cell(c, i) : c \in Conn, i \in Nat}

\* the i-th message of c, its first n, and the h after the first m
Msg(c, i) == Cells(c, 2 * i - 2, 2 * i)
Msgs(c, n) == [i \in 1..n |-> Msg(c, i)]
MsgsAfter(c, m, h) == [i \in 1..h |-> Msg(c, m + i)]

LEMMA CellsSeq ==
    ASSUME NEW c \in Conn, NEW a \in Nat, NEW b \in Nat, a <= b
    PROVE  /\ Cells(c, a, b) \in Seq(CellSet) /\ Len(Cells(c, a, b)) = b - a
           /\ \A i \in 1..(b - a) : Cells(c, a, b)[i] = Cell(c, a + i)
<1>1. b - a \in Nat
  OBVIOUS
<1>2. \A i \in 1..(b - a) : Cell(c, a + i) \in CellSet
  BY <1>1 DEF CellSet
<1>3. Cells(c, a, b) \in [1..(b - a) -> CellSet]
  BY <1>2 DEF Cells
<1>4. Cells(c, a, b) \in Seq(CellSet)
  BY <1>1, <1>3, SeqDef
<1>5. DOMAIN Cells(c, a, b) = 1..(b - a)
  BY DEF Cells
<1>6. Len(Cells(c, a, b)) = b - a
  BY <1>1, <1>4, <1>5, LenProperties
<1> QED BY <1>4, <1>6 DEF Cells

LEMMA NoCells == ASSUME NEW c \in Conn, NEW a \in Nat PROVE Cells(c, a, a) = <<>>
<1>1. Cells(c, a, a) \in Seq(CellSet) /\ Len(Cells(c, a, a)) = 0
  BY CellsSeq
<1> QED BY <1>1, EmptySeq

\* what was left of a read and what the next one gets
LEMMA CellsJoin ==
    ASSUME NEW c \in Conn, NEW a \in Nat, NEW m \in Nat, NEW b \in Nat, a <= m, m <= b
    PROVE  Cells(c, a, m) \o Cells(c, m, b) = Cells(c, a, b)
<1> DEFINE s == Cells(c, a, m)
           t == Cells(c, m, b)
           u == Cells(c, a, b)
<1>1. /\ s \in Seq(CellSet) /\ Len(s) = m - a /\ \A i \in 1..(m - a) : s[i] = Cell(c, a + i)
      /\ t \in Seq(CellSet) /\ Len(t) = b - m /\ \A i \in 1..(b - m) : t[i] = Cell(c, m + i)
      /\ u \in Seq(CellSet) /\ Len(u) = b - a /\ \A i \in 1..(b - a) : u[i] = Cell(c, a + i)
  <2>1. s \in Seq(CellSet) /\ Len(s) = m - a /\ \A i \in 1..(m - a) : s[i] = Cell(c, a + i)
    BY CellsSeq
  <2>2. t \in Seq(CellSet) /\ Len(t) = b - m /\ \A i \in 1..(b - m) : t[i] = Cell(c, m + i)
    BY CellsSeq
  <2>3. u \in Seq(CellSet) /\ Len(u) = b - a /\ \A i \in 1..(b - a) : u[i] = Cell(c, a + i)
    <3>1. a <= b
      OBVIOUS
    <3> QED BY <3>1, CellsSeq
  <2> QED BY <2>1, <2>2, <2>3
<1> HIDE DEF s, t, u
<1>2. /\ s \o t \in Seq(CellSet) /\ Len(s \o t) = b - a
      /\ \A i \in 1..(b - a) : (s \o t)[i] = IF i <= m - a THEN s[i] ELSE t[i - (m - a)]
  <2>1. Len(s) = m - a /\ Len(s) + Len(t) = b - a
    BY <1>1
  <2>2. /\ s \o t \in Seq(CellSet) /\ Len(s \o t) = Len(s) + Len(t)
        /\ \A i \in 1..(Len(s) + Len(t)) :
               (s \o t)[i] = IF i <= Len(s) THEN s[i] ELSE t[i - Len(s)]
    BY <1>1, ConcatProperties
  <2> QED BY <2>1, <2>2
<1>3. ASSUME NEW i \in 1..(b - a) PROVE (s \o t)[i] = u[i]
  <2>1. CASE i <= m - a
    BY <1>1, <1>2, <2>1
  <2>2. CASE ~(i <= m - a)
    <3>1. PICK j : j = i - (m - a)
      OBVIOUS
    <3>2. j \in 1..(b - m) /\ m + j = a + i
      BY <2>2, <3>1
    <3>3. t[j] = Cell(c, m + j)
      BY <1>1, <3>2
    <3>4. (s \o t)[i] = t[j]
      BY <1>2, <2>2, <3>1
    <3>5. u[i] = Cell(c, a + i)
      BY <1>1
    <3> QED BY <3>2, <3>3, <3>4, <3>5
  <2> QED BY <2>1, <2>2
<1>4. s \o t = u
  BY <1>1, <1>2, <1>3, SeqEqual
<1> QED BY <1>4 DEF s, t, u

\* cells i + 1 to j of those from a to b
Part(c, a, b, i, j) == SubSeq(Cells(c, a, b), i + 1, j) = Cells(c, a + i, a + j)

LEMMA CellsPart ==
    ASSUME NEW c \in Conn, NEW a \in Nat, NEW b \in Nat, NEW i \in Nat, NEW j \in Nat,
           a <= b, i <= j, j <= b - a
    PROVE  Part(c, a, b, i, j)
<1> DEFINE s == Cells(c, a, b)
           t == SubSeq(s, i + 1, j)
           u == Cells(c, a + i, a + j)
<1>1. s \in Seq(CellSet) /\ Len(s) = b - a /\ \A k \in 1..(b - a) : s[k] = Cell(c, a + k)
  BY CellsSeq
<1>2. /\ u \in Seq(CellSet) /\ Len(u) = j - i
      /\ \A k \in 1..(j - i) : u[k] = Cell(c, (a + i) + k)
  <2>1. a + i \in Nat /\ a + j \in Nat /\ a + i <= a + j /\ (a + j) - (a + i) = j - i
    OBVIOUS
  <2> DEFINE x == a + i
             y == a + j
  <2>2. x \in Nat /\ y \in Nat /\ x <= y /\ y - x = j - i
    BY <2>1
  <2> HIDE DEF s, x, y
  <2>3. /\ Cells(c, x, y) \in Seq(CellSet) /\ Len(Cells(c, x, y)) = y - x
        /\ \A k \in 1..(y - x) : Cells(c, x, y)[k] = Cell(c, x + k)
    BY <2>2, CellsSeq
  <2> QED BY <2>2, <2>3 DEF x, y
<1> HIDE DEF s, u
<1>3. \A k \in (i + 1)..j : s[k] \in CellSet
  BY <1>1, ElementOfSeq
<1>4. /\ t \in Seq(CellSet) /\ Len(t) = j - i
      /\ \A k \in 1..(j - i) : t[k] = s[(i + 1) + k - 1]
  <2>1. j - (i + 1) + 1 = j - i /\ (~(i + 1 <= j) => j - i = 0)
    OBVIOUS
  <2>2. i + 1 \in Int /\ j \in Int
    OBVIOUS
  <2>3. /\ t \in Seq(CellSet) /\ Len(t) = IF i + 1 <= j THEN j - (i + 1) + 1 ELSE 0
        /\ \A k \in 1..(j - (i + 1) + 1) : t[k] = s[(i + 1) + k - 1]
    BY <1>3, <2>2, SubSeqProperties
  <2> HIDE DEF t
  <2> QED BY <2>1, <2>3
<1> HIDE DEF t
<1>5. ASSUME NEW k \in 1..(j - i) PROVE t[k] = u[k]
  <2>1. (i + 1) + k - 1 \in 1..(b - a) /\ a + ((i + 1) + k - 1) = (a + i) + k
    OBVIOUS
  <2> QED BY <1>1, <1>2, <1>4, <2>1
<1>6. t = u
  BY <1>2, <1>4, <1>5, SeqEqual
<1> QED BY <1>6 DEF s, t, u, Part

\* every message that is all there is found
LEMMA CompleteCells ==
    ASSUME NEW c \in Conn, NEW m \in Nat, NEW b \in Nat, 2 * m <= b
    PROVE  Complete(Cells(c, 2 * m, b)) = (b \div 2) - m
<1> DEFINE s == Cells(c, 2 * m, b)
           n == (b \div 2) - m
           S == {k \in 0..(Len(s) \div 2) : \A i \in 1..k : s[2 * i - 1].part = "head"}
<1>1. Len(s) = b - 2 * m /\ \A i \in 1..(b - 2 * m) : s[i] = Cell(c, 2 * m + i)
  BY CellsSeq
<1> HIDE DEF s
<1>2. Len(s) \div 2 = n /\ n \in Nat
  BY <1>1
<1>3. ASSUME NEW i \in 1..n PROVE s[2 * i - 1].part = "head"
  <2>1. 2 * i - 1 \in 1..(b - 2 * m)
    BY <1>2
  <2>2. s[2 * i - 1] = Cell(c, 2 * m + (2 * i - 1))
    BY <1>1, <2>1
  <2>3. (2 * m + (2 * i - 1)) % 2 = 1
    BY <2>1
  <2> QED BY <2>2, <2>3 DEF Cell
<1>4. n \in S /\ \A k \in S : n >= k
  BY <1>2, <1>3
<1>5. S \subseteq Nat
  BY <1>2
<1>6. Max(S) \in S /\ \A k \in S : Max(S) >= k
  BY <1>4 DEF Max
<1>7. Max(S) = n
  <2>1. PICK x : x = Max(S)
    OBVIOUS
  <2>2. n >= x /\ x >= n
    BY <1>4, <1>6, <2>1
  <2>3. n \in Nat /\ x \in Nat
    BY <1>2, <1>5, <1>6, <2>1
  <2> HIDE DEF S, n
  <2> QED BY <2>1, <2>2, <2>3
<1>8. Complete(s) = Max(S)
  BY DEF Complete
<1> QED BY <1>7, <1>8 DEF s

LEMMA MessagesCells ==
    ASSUME NEW c \in Conn, NEW m \in Nat, NEW b \in Nat, 2 * m <= b,
           NEW h \in Nat, h <= (b \div 2) - m
    PROVE  Messages(Cells(c, 2 * m, b), h) = MsgsAfter(c, m, h)
<1> SUFFICES ASSUME NEW i \in 1..h
             PROVE  MessageAt(Cells(c, 2 * m, b), i) = Msg(c, m + i)
  BY DEF Messages, MsgsAfter
<1>1. /\ 2 * i - 2 \in Nat /\ 2 * i \in Nat /\ 2 * i - 2 <= 2 * i /\ 2 * i <= b - 2 * m
      /\ (2 * i - 2) + 1 = 2 * i - 1 /\ 2 * m \in Nat
      /\ 2 * m + (2 * i - 2) = 2 * (m + i) - 2 /\ 2 * m + 2 * i = 2 * (m + i)
  OBVIOUS
<1> DEFINE x == 2 * i - 2
           y == 2 * i
           a == 2 * m
<1>2. x \in Nat /\ y \in Nat /\ a \in Nat /\ x <= y /\ y <= b - a /\ a <= b
  BY <1>1
<1>3. x + 1 = 2 * i - 1 /\ a + x = 2 * (m + i) - 2 /\ a + y = 2 * (m + i)
  BY <1>1
<1> HIDE DEF x, y, a
<1>4. Part(c, a, b, x, y)
  BY <1>2, CellsPart
<1>5. SubSeq(Cells(c, a, b), 2 * i - 1, y) = Cells(c, 2 * (m + i) - 2, 2 * (m + i))
  BY <1>3, <1>4 DEF Part
<1> QED BY <1>5 DEF MessageAt, Msg, y, a

LEMMA MsgsSeq ==
    ASSUME NEW c \in Conn, NEW n \in Nat
    PROVE  /\ Msgs(c, n) \in Seq(Seq(CellSet)) /\ Len(Msgs(c, n)) = n
           /\ \A i \in 1..n : Msgs(c, n)[i] = Msg(c, i)
<1>1. ASSUME NEW i \in 1..n PROVE Msg(c, i) \in Seq(CellSet)
  <2> DEFINE x == 2 * i - 2
             y == 2 * i
  <2>1. x \in Nat /\ y \in Nat /\ x <= y
    OBVIOUS
  <2> HIDE DEF x, y
  <2>2. Cells(c, x, y) \in Seq(CellSet)
    BY <2>1, CellsSeq
  <2> QED BY <2>2 DEF Msg, x, y
<1>2. Msgs(c, n) \in [1..n -> Seq(CellSet)]
  BY <1>1 DEF Msgs
<1>3. Msgs(c, n) \in Seq(Seq(CellSet))
  BY <1>2, SeqDef
<1>4. DOMAIN Msgs(c, n) = 1..n
  BY DEF Msgs
<1>5. Len(Msgs(c, n)) = n
  BY <1>3, <1>4, LenProperties
<1> QED BY <1>3, <1>5 DEF Msgs

LEMMA MsgsAfterSeq ==
    ASSUME NEW c \in Conn, NEW m \in Nat, NEW h \in Nat
    PROVE  /\ MsgsAfter(c, m, h) \in Seq(Seq(CellSet)) /\ Len(MsgsAfter(c, m, h)) = h
           /\ \A i \in 1..h : MsgsAfter(c, m, h)[i] = Msg(c, m + i)
<1>1. ASSUME NEW i \in 1..h PROVE Msg(c, m + i) \in Seq(CellSet)
  <2> DEFINE n == m + i
  <2>1. n \in Nat /\ n \in 1..n
    OBVIOUS
  <2> HIDE DEF n
  <2>2. Msgs(c, n)[n] = Msg(c, n) /\ Msgs(c, n) \in Seq(Seq(CellSet)) /\ Len(Msgs(c, n)) = n
    BY <2>1, MsgsSeq
  <2>3. Msg(c, n) \in Seq(CellSet)
    BY <2>1, <2>2, ElementOfSeq
  <2> QED BY <2>3 DEF n
<1>2. MsgsAfter(c, m, h) \in [1..h -> Seq(CellSet)]
  BY <1>1 DEF MsgsAfter
<1>3. MsgsAfter(c, m, h) \in Seq(Seq(CellSet))
  BY <1>2, SeqDef
<1>4. DOMAIN MsgsAfter(c, m, h) = 1..h
  BY DEF MsgsAfter
<1>5. Len(MsgsAfter(c, m, h)) = h
  BY <1>3, <1>4, LenProperties
<1> QED BY <1>3, <1>5 DEF MsgsAfter

LEMMA MsgsGrow ==
    ASSUME NEW c \in Conn, NEW m \in Nat, NEW h \in Nat
    PROVE  Msgs(c, m) \o MsgsAfter(c, m, h) = Msgs(c, m + h)
<1> DEFINE s == Msgs(c, m)
           t == MsgsAfter(c, m, h)
           n == m + h
           u == Msgs(c, n)
<1>1. n \in Nat /\ n = m + h
  OBVIOUS
<1> HIDE DEF n
<1>2. /\ s \in Seq(Seq(CellSet)) /\ Len(s) = m /\ \A i \in 1..m : s[i] = Msg(c, i)
      /\ u \in Seq(Seq(CellSet)) /\ Len(u) = n /\ \A i \in 1..n : u[i] = Msg(c, i)
  BY <1>1, MsgsSeq
<1>3. t \in Seq(Seq(CellSet)) /\ Len(t) = h /\ \A i \in 1..h : t[i] = Msg(c, m + i)
  BY MsgsAfterSeq
<1> HIDE DEF s, t, u
<1>4. /\ s \o t \in Seq(Seq(CellSet)) /\ Len(s \o t) = n
      /\ \A i \in 1..n : (s \o t)[i] = IF i <= m THEN s[i] ELSE t[i - m]
  <2>1. /\ s \o t \in Seq(Seq(CellSet)) /\ Len(s \o t) = Len(s) + Len(t)
        /\ \A i \in 1..(Len(s) + Len(t)) :
               (s \o t)[i] = IF i <= Len(s) THEN s[i] ELSE t[i - Len(s)]
    BY <1>2, <1>3, ConcatProperties
  <2> QED BY <1>1, <1>2, <1>3, <2>1
<1>5. ASSUME NEW i \in 1..n PROVE (s \o t)[i] = u[i]
  <2>1. CASE i <= m
    BY <1>1, <1>2, <1>4, <2>1
  <2>2. CASE ~(i <= m)
    <3>1. PICK j : j = i - m
      OBVIOUS
    <3>2. j \in 1..h /\ m + j = i
      BY <1>1, <2>2, <3>1
    <3>3. t[j] = Msg(c, m + j)
      BY <1>3, <3>2
    <3>4. (s \o t)[i] = t[j] /\ u[i] = Msg(c, i)
      BY <1>2, <1>4, <2>2, <3>1
    <3> QED BY <3>2, <3>3, <3>4
  <2> QED BY <2>1, <2>2
<1>6. s \o t = u
  BY <1>2, <1>4, <1>5, SeqEqual
<1> QED BY <1>6 DEF s, t, u, n

LEMMA MsgsPrefix ==
    ASSUME NEW c \in Conn, NEW n \in Nat, NEW m \in Nat, n <= m
    PROVE  IsPrefix(Msgs(c, n), Msgs(c, m))
<1> DEFINE s == Msgs(c, n)
           u == Msgs(c, m)
           t == SubSeq(u, 1, n)
<1>1. /\ s \in Seq(Seq(CellSet)) /\ Len(s) = n /\ \A i \in 1..n : s[i] = Msg(c, i)
      /\ u \in Seq(Seq(CellSet)) /\ Len(u) = m /\ \A i \in 1..m : u[i] = Msg(c, i)
  BY MsgsSeq
<1> HIDE DEF s, u
<1>2. \A i \in 1..n : u[i] \in Seq(CellSet)
  BY <1>1, ElementOfSeq
<1>3. t \in Seq(Seq(CellSet)) /\ Len(t) = n /\ \A i \in 1..n : t[i] = u[1 + i - 1]
  <2>1. /\ t \in Seq(Seq(CellSet)) /\ Len(t) = IF 1 <= n THEN n - 1 + 1 ELSE 0
        /\ \A i \in 1..(n - 1 + 1) : t[i] = u[1 + i - 1]
    BY <1>2, SubSeqProperties
  <2> HIDE DEF t
  <2> QED BY <2>1
<1> HIDE DEF t
<1>4. ASSUME NEW i \in 1..n PROVE t[i] = s[i]
  <2>1. 1 + i - 1 = i /\ i \in 1..m
    OBVIOUS
  <2> QED BY <1>1, <1>3, <2>1
<1>5. t = s
  BY <1>1, <1>3, <1>4, SeqEqual
<1> QED BY <1>1, <1>5 DEF IsPrefix, s, t, u

\* what is left of the first t cells when the messages among them are taken
Rest(c, t) == Cells(c, 2 * (t \div 2), t)

\* a read takes the messages that are complete then, and leaves the rest
LEMMA ReadCells ==
    ASSUME NEW c \in Conn, NEW t \in Nat, NEW b \in Nat, t <= b
    PROVE  LET buffer == Rest(c, t) \o Cells(c, t, b)
               n == (b \div 2) - (t \div 2)
           IN  /\ Complete(buffer) = n
               /\ SubSeq(buffer, 2 * n + 1, Len(buffer)) = Rest(c, b)
               /\ \A h \in 0..n : Msgs(c, t \div 2) \o Messages(buffer, h) = Msgs(c, (t \div 2) + h)
<1> DEFINE m == t \div 2
           n == (b \div 2) - m
           a == 2 * m
           buffer == Rest(c, t) \o Cells(c, t, b)
<1>1. /\ m \in Nat /\ n \in Nat /\ a \in Nat /\ a <= t /\ a <= b /\ 2 * m <= b
      /\ 2 * n <= b - a /\ a + 2 * n = 2 * (b \div 2) /\ n <= (b \div 2) - m /\ a = 2 * m
  OBVIOUS
<1> HIDE DEF m, n, a
<1>2. Rest(c, t) = Cells(c, a, t)
  BY DEF Rest, a, m
<1>3. buffer = Cells(c, a, b)
  <2>1. Cells(c, a, t) \o Cells(c, t, b) = Cells(c, a, b)
    BY <1>1, CellsJoin, ZenonT(30)
  <2> QED BY <1>2, <2>1
<1> HIDE DEF buffer
<1>4. Complete(buffer) = n
  <2>1. Complete(Cells(c, 2 * m, b)) = (b \div 2) - m
    BY <1>1, CompleteCells
  <2> QED BY <1>1, <1>3, <2>1 DEF n
<1>5. SubSeq(buffer, 2 * n + 1, Len(buffer)) = Rest(c, b)
  <2> DEFINE x == 2 * n
             y == b - a
  <2>1. Len(buffer) = y
    BY <1>1, <1>3, CellsSeq
  <2>2. x \in Nat /\ y \in Nat /\ x <= y /\ y <= b - a /\ a + y = b /\ a + x = 2 * (b \div 2)
    BY <1>1
  <2> HIDE DEF x, y
  <2>3. Part(c, a, b, x, y)
    BY <1>1, <2>2, CellsPart
  <2>4. SubSeq(buffer, x + 1, y) = Rest(c, b)
    BY <1>3, <2>2, <2>3 DEF Part, Rest
  <2> QED BY <2>1, <2>4 DEF x
<1>6. ASSUME NEW h \in 0..n PROVE Msgs(c, m) \o Messages(buffer, h) = Msgs(c, m + h)
  <2>1. h \in Nat /\ h <= (b \div 2) - m
    BY <1>1
  <2>2. Messages(Cells(c, 2 * m, b), h) = MsgsAfter(c, m, h)
    BY <1>1, <2>1, MessagesCells
  <2>3. Messages(buffer, h) = MsgsAfter(c, m, h)
    BY <1>1, <1>3, <2>2
  <2> QED BY <1>1, <2>1, <2>3, MsgsGrow
<1> QED BY <1>4, <1>5, <1>6 DEF buffer, m, n

LEMMA StreamMessages ==
    ASSUME NEW c \in Conn, NEW b \in Nat
    PROVE  Messages(Cells(c, 0, b), b \div 2) = Msgs(c, b \div 2)
<1> DEFINE h == b \div 2
           m == 0
<1>1. h \in Nat /\ m \in Nat /\ 2 * m <= b /\ h <= (b \div 2) - m /\ 2 * m = 0
  OBVIOUS
<1> HIDE DEF h, m
<1>2. Messages(Cells(c, 2 * m, b), h) = MsgsAfter(c, m, h)
  BY <1>1, MessagesCells
<1>3. MsgsAfter(c, m, h) = Msgs(c, h)
  <2>1. \A i \in 1..h : m + i = i
    BY DEF m
  <2>2. \A i \in 1..h : Msg(c, m + i) = Msg(c, i)
    BY <2>1
  <2> QED BY <2>2 DEF MsgsAfter, Msgs
<1>4. Cells(c, 2 * m, b) = Cells(c, 0, b)
  BY <1>1
<1> QED BY <1>2, <1>3, <1>4 DEF h

-----------------------------------------------------------------------------
(* What a connection has been read and its service has got, in any state   *)
(* of the loop: a connection that got nothing of its descriptor's last one *)
(* has had all the messages complete in what was received, and what is     *)
(* left of that is the unused data of its descriptor.                      *)

Clean(c) == "bytes" \notin inherited[c]

SentOK == sent \in [Conn -> Nat]

FlowTypes(s) ==
    /\ DOMAIN s.unused = Fd /\ s.taken \in [Conn -> Nat] /\ DOMAIN s.delivered = Conn
    /\ \A c \in Conn : s.taken[c] \in 0..sent[c]

\* a connection that is still to be accepted
Unread(s, c) ==
    s.end[c] = "none" /\ s.fd[c] = Closed => s.taken[c] = 0 /\ s.delivered[c] = <<>>

CutRight(s, c) ==
    s.end[c] = "none" /\ s.fd[c] # Closed /\ Clean(c) =>
        /\ s.unused[s.fd[c]] = Rest(c, s.taken[c])
        /\ s.delivered[c] = Msgs(c, s.taken[c] \div 2)

HandledInOrder(s, c) ==
    Clean(c) => \E n \in 0..(sent[c] \div 2) : s.delivered[c] = Msgs(c, n)

WholeAtEnd(s, c) ==
    Clean(c) /\ s.end[c] = "peer" => s.delivered[c] = Msgs(c, sent[c] \div 2)

Flow(s) ==
    /\ FlowTypes(s)
    /\ \A c \in Conn : Unread(s, c) /\ CutRight(s, c) /\ HandledInOrder(s, c) /\ WholeAtEnd(s, c)

LEMMA ShutDownFlows ==
    ASSUME FilesOK, SentOK, NEW s, Match(s), Flow(s), NEW c \in Conn, s.fd[c] # Closed,
           NEW why \in Ends \ {"none"},
           why = "peer" /\ s.end[c] = "none" => s.taken[c] = sent[c]
    PROVE  LET r == ShutDown(s, c, why)
           IN  Flow(r) /\ r.fd = s.fd /\ r.taken = s.taken
<1> DEFINE r == ShutDown(s, c, why)
<1>1. s.fd[c] \in Fd
  BY DEF Match
<1>2. /\ r.fd = s.fd /\ r.taken = s.taken /\ r.delivered = s.delivered
      /\ r.unused = [s.unused EXCEPT ![s.fd[c]] = <<>>]
      /\ r.end = [s.end EXCEPT ![c] = IF @ = "none" THEN why ELSE @]
  BY DEF ShutDown, AsyncCancel, Match, Fields
<1> HIDE DEF r
<1>3. FlowTypes(r)
  BY <1>2 DEF Flow, FlowTypes
<1>4. /\ \A d \in Conn \ {c} : r.end[d] = s.end[d]
      /\ r.end[c] = IF s.end[c] = "none" THEN why ELSE s.end[c]
      /\ \A g \in Fd \ {s.fd[c]} : r.unused[g] = s.unused[g]
  BY <1>1, <1>2 DEF Match, Flow, FlowTypes
<1>5. r.end[c] # "none"
  BY <1>4
<1>6. ASSUME NEW d \in Conn PROVE Unread(r, d) /\ CutRight(r, d)
  <2>1. CASE d = c
    BY <1>5, <2>1 DEF Unread, CutRight
  <2>2. CASE d # c
    <3>1. Unread(r, d)
      BY <1>2, <1>4, <2>2 DEF Flow, Unread
    <3>2. ASSUME s.fd[d] # Closed PROVE s.fd[d] \in Fd \ {s.fd[c]}
      BY <2>2, <3>2 DEF Match
    <3>3. CutRight(r, d)
      BY <1>2, <1>4, <2>2, <3>2 DEF Flow, CutRight
    <3> QED BY <3>1, <3>3
  <2> QED BY <2>1, <2>2
<1>7. ASSUME NEW d \in Conn PROVE HandledInOrder(r, d)
  BY <1>2 DEF Flow, HandledInOrder
<1>8. ASSUME NEW d \in Conn PROVE WholeAtEnd(r, d)
  <2>1. CASE d # c \/ s.end[c] # "none"
    BY <1>2, <1>4, <2>1 DEF Flow, WholeAtEnd
  <2>2. CASE d = c /\ s.end[c] = "none"
    <3>1. Clean(c) => s.delivered[c] = Msgs(c, s.taken[c] \div 2)
      BY <2>2 DEF Flow, CutRight
    <3> QED BY <1>2, <1>4, <2>2, <3>1 DEF WholeAtEnd
  <2> QED BY <2>1, <2>2
<1>9. Flow(r)
  BY <1>3, <1>6, <1>7, <1>8 DEF Flow
<1> QED BY <1>2, <1>9 DEF r

\* what does not touch the streams
LEMMA SameFlows ==
    ASSUME NEW s, NEW r, Flow(s), r.unused = s.unused, r.taken = s.taken,
           r.delivered = s.delivered, r.end = s.end,
           \A c \in Conn : r.fd[c] = s.fd[c] \/ (r.fd[c] = Closed /\ s.end[c] # "none")
    PROVE  Flow(r)
<1>1. FlowTypes(r)
  BY DEF Flow, FlowTypes
<1>2. ASSUME NEW c \in Conn PROVE Unread(r, c) /\ CutRight(r, c) /\ HandledInOrder(r, c) /\ WholeAtEnd(r, c)
  <2>1. Unread(s, c) /\ CutRight(s, c) /\ HandledInOrder(s, c) /\ WholeAtEnd(s, c)
    BY DEF Flow
  <2>2. Unread(r, c) /\ CutRight(r, c)
    BY <2>1 DEF Unread, CutRight
  <2>3. HandledInOrder(r, c) /\ WholeAtEnd(r, c)
    BY <2>1 DEF HandledInOrder, WholeAtEnd
  <2> QED BY <2>2, <2>3
<1> QED BY <1>1, <1>2 DEF Flow

LEMMA LetGoFlows ==
    ASSUME NEW s, Match(s), Flow(s), NEW X
    PROVE  Flow([s EXCEPT !.held = @ \ X])
<1> DEFINE r == [s EXCEPT !.held = @ \ X]
<1>1. /\ r.fd = s.fd /\ r.unused = s.unused /\ r.taken = s.taken
      /\ r.delivered = s.delivered /\ r.end = s.end
  BY DEF Match, Fields
<1> HIDE DEF r
<1>2. Flow(r)
  BY <1>1, SameFlows
<1> QED BY <1>2 DEF r

LEMMA ReleaseFlows ==
    ASSUME NEW s, Match(s), Flow(s)
    PROVE  Flow(Release(s))
<1> DEFINE r == Release(s)
           Gone(c) == s.fd[c] # Closed /\ c \notin s.held /\ s.reading[s.fd[c]] # c
<1>1. /\ r.unused = s.unused /\ r.taken = s.taken /\ r.delivered = s.delivered /\ r.end = s.end
      /\ r.fd = [c \in Conn |-> IF Gone(c) THEN Closed ELSE s.fd[c]]
  BY DEF Release, Match, Fields
<1> HIDE DEF r
<1>2. ASSUME NEW c \in Conn PROVE r.fd[c] = s.fd[c] \/ (r.fd[c] = Closed /\ s.end[c] # "none")
  BY <1>1 DEF Match
<1>3. Flow(r)
  BY <1>1, <1>2, SameFlows
<1> QED BY <1>3 DEF r

LEMMA CloseFlows ==
    ASSUME FilesOK, SentOK, NEW s, Match(s), Flow(s), NEW c \in Conn \cup {NoConn},
           c # NoConn => s.fd[c] # Closed
    PROVE  Flow(ConnectionClose(s, c))
<1>1. CASE c = NoConn
  BY <1>1 DEF ConnectionClose
<1>2. CASE c # NoConn
  <2> DEFINE t == ShutDown(s, c, "service")
             u == [t EXCEPT !.held = @ \ {c}]
  <2>1. Match(t) /\ Flow(t)
    BY <1>2, ShutDownMatches, ShutDownFlows DEF Ends
  <2>2. ConnectionClose(s, c) = u
    BY <1>2 DEF ConnectionClose
  <2> HIDE DEF t
  <2>3. Flow(u)
    BY <2>1, LetGoFlows
  <2> QED BY <2>2, <2>3
<1> QED BY <1>1, <1>2

LEMMA MinOfTwo ==
    ASSUME NEW k \in Nat, NEW n \in Nat
    PROVE  Min({k, n}) = IF k <= n THEN k ELSE n
<1> DEFINE S == {k, n}
<1>1. S \in SUBSET Nat /\ S # {}
  OBVIOUS
<1>2. \E x \in S : \A y \in S : x <= y
  BY <1>1, SmallestExists
<1>3. Min(S) \in S /\ \A y \in S : Min(S) <= y
  BY <1>2 DEF Min
<1> QED BY <1>3

LEMMA CloseSteps ==
    ASSUME FilesOK, NEW s, Match(s), NEW d \in Conn
    PROVE  LET r == ConnectionClose(s, d)
           IN  /\ DOMAIN r = Fields /\ r.fd = s.fd /\ r.taken = s.taken
               /\ r.delivered = s.delivered
               /\ r.unused = [s.unused EXCEPT ![s.fd[d]] = <<>>]
               /\ r.end = [s.end EXCEPT ![d] = IF @ = "none" THEN "service" ELSE @]
<1> DEFINE t == ShutDown(s, d, "service")
           r == [t EXCEPT !.held = @ \ {d}]
<1>1. /\ DOMAIN t = Fields /\ t.fd = s.fd /\ t.taken = s.taken /\ t.delivered = s.delivered
      /\ t.unused = [s.unused EXCEPT ![s.fd[d]] = <<>>]
      /\ t.end = [s.end EXCEPT ![d] = IF @ = "none" THEN "service" ELSE @]
  BY DEF ShutDown, AsyncCancel, Match, Fields
<1>2. ConnectionClose(s, d) = r
  BY DEF ConnectionClose, FilesOK
<1> HIDE DEF t
<1>3. /\ DOMAIN r = Fields /\ r.fd = t.fd /\ r.taken = t.taken /\ r.delivered = t.delivered
      /\ r.unused = t.unused /\ r.end = t.end
  BY <1>1 DEF Fields
<1> HIDE DEF r
<1> QED BY <1>1, <1>2, <1>3

\* the messages complete in what was received are handled, but for those after
\* the one whose handler closes their own connection
LEMMA ReadFlows ==
    ASSUME FilesOK, SentOK, NEW s, Match(s), Flow(s),
           NEW c \in Conn, s.fd[c] # Closed, s.end[c] = "none",
           NEW d \in Conn \cup {NoConn}, d # NoConn => s.fd[d] # Closed, NEW k \in Nat
    PROVE  LET r == OnSocketRead(s, c, d, k)
           IN  Flow(r) /\ r.taken[c] = sent[c]
<1> DEFINE f == s.fd[c]
           buffer == Receive(s, c)
           n == Complete(buffer)
           handled == IF s.end[c] # "none" THEN 0
                      ELSE IF d = c THEN Min({k, n}) ELSE n
           got == [s EXCEPT !.taken[c] = sent[c],
                            !.unused[s.fd[c]] = <<>>,
                            !.delivered[c] = @ \o Messages(buffer, handled)]
           closes == k <= handled /\ d # NoConn
           closed == IF k <= handled THEN ConnectionClose(got, d) ELSE got
           rest == SubSeq(buffer, 2 * n + 1, Len(buffer))
           r == [closed EXCEPT !.unused[s.fd[c]] = @ \o rest]
<1>1. OnSocketRead(s, c, d, k) = r
  BY DEF OnSocketRead
<1>2. /\ f \in Fd /\ (d # NoConn => s.fd[d] \in Fd) /\ NoConn \notin Conn
      /\ sent[c] \in Nat /\ s.taken[c] \in 0..sent[c]
  BY DEF Match, Flow, FlowTypes, FilesOK, SentOK
<1>3. Clean(c) => /\ buffer = Rest(c, s.taken[c]) \o Cells(c, s.taken[c], sent[c])
                  /\ s.delivered[c] = Msgs(c, s.taken[c] \div 2)
  BY DEF Receive, Flow, CutRight
<1>4. handled = IF d = c THEN Min({k, n}) ELSE n
  OBVIOUS
<1> HIDE DEF buffer, n, handled, rest
<1>5. /\ DOMAIN got = Fields /\ got.fd = s.fd /\ got.end = s.end /\ got.reading = s.reading
      /\ got.held = s.held /\ got.taken = [s.taken EXCEPT ![c] = sent[c]]
      /\ got.unused = [s.unused EXCEPT ![f] = <<>>]
      /\ got.delivered = [s.delivered EXCEPT ![c] = @ \o Messages(buffer, handled)]
  BY DEF Match, Fields
<1> HIDE DEF got
<1>6. Match(got)
  BY <1>5 DEF Match
<1>7. /\ DOMAIN closed = Fields /\ closed.fd = s.fd /\ closed.taken = got.taken
      /\ closed.delivered = got.delivered
      /\ closed.unused = IF closes THEN [got.unused EXCEPT ![s.fd[d]] = <<>>] ELSE got.unused
      /\ closed.end = IF closes THEN [s.end EXCEPT ![d] = IF @ = "none" THEN "service" ELSE @]
                      ELSE s.end
  <2>1. CASE closes
    <3>1. d \in Conn
      BY <2>1
    <3>2. LET q == ConnectionClose(got, d)
          IN  /\ DOMAIN q = Fields /\ q.fd = got.fd /\ q.taken = got.taken
              /\ q.delivered = got.delivered
              /\ q.unused = [got.unused EXCEPT ![got.fd[d]] = <<>>]
              /\ q.end = [got.end EXCEPT ![d] = IF @ = "none" THEN "service" ELSE @]
      BY <1>6, <3>1, CloseSteps
    <3> QED BY <1>5, <2>1, <3>2
  <2>2. CASE ~closes
    <3>1. closed = got
      BY <2>2 DEF ConnectionClose
    <3> QED BY <1>5, <2>2, <3>1
  <2> QED BY <2>1, <2>2
<1> HIDE DEF closed
<1>8. /\ r.fd = s.fd /\ r.taken = closed.taken /\ r.delivered = closed.delivered /\ r.end = closed.end
      /\ r.unused = [closed.unused EXCEPT ![f] = @ \o rest]
  BY <1>7 DEF Fields
<1> HIDE DEF r
<1>9. /\ DOMAIN s.unused = Fd /\ s.taken \in [Conn -> Nat] /\ DOMAIN s.delivered = Conn
  BY DEF Flow, FlowTypes
<1>10. /\ r.taken \in [Conn -> Nat] /\ r.taken[c] = sent[c]
       /\ \A e \in Conn \ {c} : r.taken[e] = s.taken[e]
       /\ DOMAIN r.delivered = Conn
       /\ r.delivered[c] = s.delivered[c] \o Messages(buffer, handled)
       /\ \A e \in Conn \ {c} : r.delivered[e] = s.delivered[e]
  BY <1>2, <1>5, <1>7, <1>8, <1>9
<1>11. /\ DOMAIN r.unused = Fd /\ r.unused[f] = <<>> \o rest
       /\ \A g \in Fd \ {f} : r.unused[g] = IF closes /\ g = s.fd[d] THEN <<>> ELSE s.unused[g]
  <2>1. /\ DOMAIN closed.unused = Fd
        /\ \A g \in Fd : closed.unused[g] = IF g = f \/ (closes /\ g = s.fd[d]) THEN <<>> ELSE s.unused[g]
    BY <1>2, <1>5, <1>7, <1>9
  <2> HIDE DEF closes
  <2> QED BY <1>2, <1>8, <2>1
<1>12. \A e \in Conn : r.end[e] = IF closes /\ e = d /\ s.end[e] = "none" THEN "service" ELSE s.end[e]
  BY <1>7, <1>8 DEF Match
<1>13. FlowTypes(r)
  <2>1. \A e \in Conn : s.taken[e] \in 0..sent[e]
    BY DEF Flow, FlowTypes
  <2>2. \A e \in Conn : r.taken[e] \in 0..sent[e]
    BY <2>1, <1>2, <1>10
  <2> QED BY <2>2, <1>10, <1>11 DEF FlowTypes
<1>14. ASSUME NEW e \in Conn, e # c
       PROVE  Unread(r, e) /\ CutRight(r, e) /\ HandledInOrder(r, e) /\ WholeAtEnd(r, e)
  <2>1. Unread(s, e) /\ CutRight(s, e) /\ HandledInOrder(s, e) /\ WholeAtEnd(s, e)
    BY DEF Flow
  <2>2. r.taken[e] = s.taken[e] /\ r.delivered[e] = s.delivered[e] /\ r.fd[e] = s.fd[e]
    BY <1>8, <1>10, <1>14
  <2>3. r.end[e] = s.end[e] \/ r.end[e] = "service"
    BY <1>12
  <2>4. Unread(r, e) /\ HandledInOrder(r, e) /\ WholeAtEnd(r, e)
    BY <2>1, <2>2, <2>3 DEF Unread, HandledInOrder, WholeAtEnd
  <2>5. CutRight(r, e)
    <3> SUFFICES ASSUME r.end[e] = "none", r.fd[e] # Closed, Clean(e)
                 PROVE  /\ r.unused[r.fd[e]] = Rest(e, r.taken[e])
                        /\ r.delivered[e] = Msgs(e, r.taken[e] \div 2)
      BY DEF CutRight
    <3>1. s.end[e] = "none" /\ ~(closes /\ e = d)
      BY <1>12
    <3>2. s.fd[e] \in Fd \ {f}
      BY <1>14, <2>2 DEF Match
    <3>3. closes => s.fd[e] # s.fd[d]
      BY <2>2, <3>1 DEF Match
    <3>4. r.unused[s.fd[e]] = s.unused[s.fd[e]]
      BY <1>11, <3>2, <3>3
    <3> QED BY <2>1, <2>2, <3>1, <3>4 DEF CutRight
  <2> QED BY <2>4, <2>5
<1>15. Unread(r, c) /\ WholeAtEnd(r, c)
  BY <1>8, <1>12 DEF Unread, WholeAtEnd
<1>16. HandledInOrder(r, c) /\ CutRight(r, c)
  <2> SUFFICES ASSUME Clean(c) PROVE HandledInOrder(r, c) /\ CutRight(r, c)
    BY DEF HandledInOrder, CutRight
  <2> DEFINE t == s.taken[c]
             b == sent[c]
             m == t \div 2
  <2>1. t \in Nat /\ b \in Nat /\ t <= b /\ m \in Nat /\ b \div 2 \in Nat /\ m <= b \div 2
    BY <1>2
  <2> HIDE DEF t, b
  <2>2. /\ n = (b \div 2) - m
        /\ rest = Rest(c, b)
        /\ \A h \in 0..n : Msgs(c, m) \o Messages(buffer, h) = Msgs(c, m + h)
    <3>1. LET bf == Rest(c, t) \o Cells(c, t, b)
              q == (b \div 2) - (t \div 2)
          IN  /\ Complete(bf) = q
              /\ SubSeq(bf, 2 * q + 1, Len(bf)) = Rest(c, b)
              /\ \A h \in 0..q : Msgs(c, t \div 2) \o Messages(bf, h) = Msgs(c, (t \div 2) + h)
      BY <2>1, ReadCells
    <3>2. buffer = Rest(c, t) \o Cells(c, t, b)
      BY <1>3 DEF t, b
    <3> QED BY <3>1, <3>2 DEF n, rest
  <2> HIDE DEF m
  <2>3. n \in Nat /\ m + n = b \div 2
    BY <2>1, <2>2
  <2>4. handled \in 0..n /\ (~(closes /\ d = c) => handled = n)
    <3>1. Min({k, n}) = IF k <= n THEN k ELSE n
      BY <2>3, MinOfTwo
    <3> QED BY <1>2, <1>4, <2>3, <3>1
  <2>5. r.delivered[c] = Msgs(c, m + handled)
    BY <1>3, <1>10, <2>2, <2>4 DEF m, t
  <2>6. HandledInOrder(r, c)
    <3>1. m + handled \in 0..(b \div 2)
      BY <2>1, <2>3, <2>4
    <3> QED BY <2>5, <3>1 DEF HandledInOrder, b
  <2>7. CutRight(r, c)
    <3> SUFFICES ASSUME r.end[c] = "none"
                 PROVE  r.unused[f] = Rest(c, r.taken[c]) /\ r.delivered[c] = Msgs(c, r.taken[c] \div 2)
      BY <1>8 DEF CutRight
    <3>1. handled = n
      BY <1>12, <2>4
    <3>2. r.delivered[c] = Msgs(c, b \div 2)
      BY <2>3, <2>5, <3>1
    <3>3. <<>> \o rest = rest
      <4> DEFINE a == 2 * (b \div 2)
      <4>1. a \in Nat /\ a <= b
        BY <2>1
      <4> HIDE DEF a
      <4>2. Cells(c, a, b) \in Seq(CellSet)
        BY <2>1, <4>1, CellsSeq
      <4>3. rest \in Seq(CellSet)
        BY <2>2, <4>2 DEF Rest, a
      <4> QED BY <4>3, ConcatEmptySeq
    <3> QED BY <1>10, <1>11, <2>2, <3>2, <3>3 DEF b
  <2> QED BY <2>6, <2>7
<1>17. Flow(r)
  BY <1>13, <1>14, <1>15, <1>16 DEF Flow
<1> QED BY <1>1, <1>10, <1>17

LEMMA ReadEventFlows ==
    ASSUME FilesOK, SentOK, NEW s, Match(s), Flow(s),
           NEW c \in Conn, s.fd[c] # Closed, s.end[c] = "none",
           NEW d \in Conn \cup {NoConn}, d # NoConn => s.fd[d] # Closed, NEW k \in Nat,
           peer[c] \in {"open", "fin", "reset"}
    PROVE  Flow(OnReadEvent(s, c, d, k))
<1> DEFINE read == OnSocketRead(s, c, d, k)
<1>1. Match(read) /\ read.fd = s.fd
  BY ReadMatches
<1>2. Flow(read) /\ read.taken[c] = sent[c]
  BY ReadFlows
<1>3. OnReadEvent(s, c, d, k) =
          CASE peer[c] = "open" -> read
            [] peer[c] = "fin" -> [ShutDown(read, c, "peer") EXCEPT !.held = @ \ {c}]
            [] peer[c] = "reset" -> ShutDown(read, c, "error")
  BY DEF OnReadEvent
<1> HIDE DEF read
<1>4. CASE peer[c] = "open"
  BY <1>2, <1>3, <1>4
<1>5. CASE peer[c] = "fin"
  <2> DEFINE t == ShutDown(read, c, "peer")
             u == [t EXCEPT !.held = @ \ {c}]
  <2>1. Match(t)
    BY <1>1, ShutDownMatches DEF Ends
  <2>2. Flow(t)
    BY <1>1, <1>2, ShutDownFlows DEF Ends
  <2>3. OnReadEvent(s, c, d, k) = u
    BY <1>3, <1>5
  <2> HIDE DEF t
  <2>4. Flow(u)
    BY <2>1, <2>2, LetGoFlows
  <2> QED BY <2>3, <2>4
<1>6. CASE peer[c] = "reset"
  <2>1. Flow(ShutDown(read, c, "error"))
    BY <1>1, <1>2, ShutDownFlows DEF Ends
  <2> QED BY <1>3, <1>6, <2>1
<1> QED BY <1>4, <1>5, <1>6

LEMMA ReadFlagFlows ==
    ASSUME FilesOK, SentOK, NEW s, Match(s), Flow(s), NEW f \in Fd,
           NEW d \in Conn \cup {NoConn}, d # NoConn => s.fd[d] # Closed, NEW k \in Nat,
           s.reading[f] # NoConn => peer[s.reading[f]] \in {"open", "fin", "reset"}
    PROVE  Flow(OnReadFlag(s, f, d, k))
<1>1. CASE s.reading[f] = NoConn
  <2> DEFINE r == AsyncCancel(s, f)
  <2>1. /\ r.fd = s.fd /\ r.taken = s.taken /\ r.delivered = s.delivered /\ r.end = s.end
        /\ r.unused = [s.unused EXCEPT ![f] = <<>>]
    BY DEF Match, Fields, AsyncCancel
  <2>2. OnReadFlag(s, f, d, k) = r
    BY <1>1 DEF OnReadFlag
  <2> HIDE DEF r
  <2>3. FlowTypes(r) /\ \A g \in Fd \ {f} : r.unused[g] = s.unused[g]
    BY <2>1 DEF Flow, FlowTypes
  <2>4. ASSUME NEW c \in Conn
        PROVE  Unread(r, c) /\ CutRight(r, c) /\ HandledInOrder(r, c) /\ WholeAtEnd(r, c)
    <3>1. Unread(s, c) /\ CutRight(s, c) /\ HandledInOrder(s, c) /\ WholeAtEnd(s, c)
      BY DEF Flow
    <3>2. Unread(r, c) /\ HandledInOrder(r, c) /\ WholeAtEnd(r, c)
      BY <2>1, <3>1 DEF Unread, HandledInOrder, WholeAtEnd
    <3>3. s.end[c] = "none" /\ s.fd[c] # Closed => s.fd[c] \in Fd \ {f}
      BY <1>1 DEF Match, FilesOK
    <3>4. CutRight(r, c)
      BY <2>1, <2>3, <3>1, <3>3 DEF CutRight
    <3> QED BY <3>2, <3>4
  <2> QED BY <2>2, <2>3, <2>4 DEF Flow
<1>2. CASE s.reading[f] # NoConn
  <2>1. /\ s.reading[f] \in Conn /\ s.fd[s.reading[f]] # Closed
        /\ s.end[s.reading[f]] = "none"
    BY <1>2, FdsApart DEF Match
  <2>2. OnReadFlag(s, f, d, k) = OnReadEvent(s, s.reading[f], d, k)
    BY <1>2 DEF OnReadFlag
  <2> QED BY <1>2, <2>1, <2>2, ReadEventFlows
<1> QED BY <1>1, <1>2

LEMMA ErrorEventFlows ==
    ASSUME FilesOK, SentOK, NEW s, Match(s), Flow(s), NEW f \in Fd
    PROVE  Flow(OnErrorEvent(s, f))
<1>1. CASE s.reading[f] = NoConn
  BY <1>1 DEF OnErrorEvent
<1>2. CASE s.reading[f] # NoConn
  <2>1. s.reading[f] \in Conn /\ s.fd[s.reading[f]] # Closed
    BY <1>2, FdsApart DEF Match
  <2>2. OnErrorEvent(s, f) = ShutDown(s, s.reading[f], "error")
    BY <1>2 DEF OnErrorEvent
  <2> QED BY <2>1, <2>2, ShutDownFlows DEF Ends
<1> QED BY <1>1, <1>2

\* the loop's state matches, and so do the streams
StreamInv == EventInv /\ SentOK /\ Flow(io)

LEMMA StreamsBegin == FilesOK /\ LoopInit => StreamInv
<1> SUFFICES ASSUME FilesOK, LoopInit PROVE StreamInv
  OBVIOUS
<1>1. EventInv
  BY EventBegan
<1>2. SentOK /\ \A c \in Conn : sent[c] = 0
  BY DEF LoopInit, SentOK
<1>3. /\ io.fd = [c \in Conn |-> Closed] /\ io.unused = [f \in Fd |-> <<>>]
      /\ io.taken = [c \in Conn |-> 0] /\ io.end = [c \in Conn |-> "none"]
      /\ io.delivered = [c \in Conn |-> <<>>]
  BY DEF LoopInit, InitIo
<1>4. FlowTypes(io)
  BY <1>2, <1>3 DEF FlowTypes
<1>5. ASSUME NEW c \in Conn
      PROVE  Unread(io, c) /\ CutRight(io, c) /\ HandledInOrder(io, c) /\ WholeAtEnd(io, c)
  <2>1. Unread(io, c) /\ CutRight(io, c) /\ WholeAtEnd(io, c)
    BY <1>3 DEF Unread, CutRight, WholeAtEnd
  <2>2. Msgs(c, 0) = <<>>
    BY MsgsSeq, EmptySeq
  <2>3. 0 \in 0..(sent[c] \div 2)
    BY <1>2
  <2>4. HandledInOrder(io, c)
    BY <1>3, <2>2, <2>3 DEF HandledInOrder
  <2> QED BY <2>1, <2>4
<1> QED BY <1>1, <1>2, <1>4, <1>5 DEF StreamInv, Flow

LEMMA SendKeepsStreams ==
    ASSUME FilesOK, StreamInv, NEW c \in Conn, Send(c)
    PROVE  SentOK' /\ Flow(io)'
<1>1. /\ io' = io /\ inherited' = inherited /\ sent' = [sent EXCEPT ![c] = @ + 1]
      /\ io.end[c] = "none"
  BY DEF Send
<1>2. /\ SentOK' /\ sent'[c] = sent[c] + 1 /\ (\A d \in Conn \ {c} : sent'[d] = sent[d])
      /\ (\A d \in Conn : sent[d] \in Nat)
  BY <1>1 DEF StreamInv, SentOK
<1>3. FlowTypes(io)'
  BY <1>1, <1>2 DEF StreamInv, Flow, FlowTypes
<1>4. ASSUME NEW d \in Conn
      PROVE  Unread(io, d)' /\ CutRight(io, d)' /\ HandledInOrder(io, d)' /\ WholeAtEnd(io, d)'
  <2>1. Unread(io, d) /\ CutRight(io, d) /\ HandledInOrder(io, d) /\ WholeAtEnd(io, d)
    BY DEF StreamInv, Flow
  <2>2. Unread(io, d)' /\ CutRight(io, d)'
    BY <1>1, <2>1 DEF Unread, CutRight, Clean
  <2>3. HandledInOrder(io, d)'
    <3>1. \A n \in 0..(sent[d] \div 2) : n \in 0..(sent'[d] \div 2)
      BY <1>2
    <3> QED BY <1>1, <2>1, <3>1 DEF HandledInOrder, Clean
  <2>4. WholeAtEnd(io, d)'
    BY <1>1, <1>2, <2>1 DEF WholeAtEnd, Clean
  <2> QED BY <2>2, <2>3, <2>4
<1> QED BY <1>2, <1>3, <1>4 DEF Flow

LEMMA AcceptKeepsStreams ==
    ASSUME FilesOK, StreamInv, NEW e \in batch, OnAcceptEvent(e)
    PROVE  SentOK' /\ Flow(io)'
<1>1. e = ListenEvent /\ backlog # <<>> /\ sent' = sent
  BY DEF OnAcceptEvent, StreamInv, EventInv, BatchOK
<1>2. SentOK'
  BY <1>1 DEF StreamInv, SentOK
<1>3. CASE Free = {}
  BY <1>1, <1>3 DEF OnAcceptEvent, StreamInv, Flow, FlowTypes, Unread, CutRight, HandledInOrder,
                    WholeAtEnd, Clean, SentOK
<1>4. CASE Free # {}
  <2>1. PICK c \in {Head(backlog)}, f \in {Min(Free)} :
            /\ \E held \in {{}, {c}} : io' = Accepted(io, c, f, held)
            /\ inherited' = [inherited EXCEPT ![c] =
                   (IF io.unused[f] = <<>> THEN {} ELSE {"bytes"})
                   \cup (IF \E late \in batch' : late.fd = f THEN {"event"} ELSE {})]
    BY <1>4 DEF OnAcceptEvent, Accepted
  <2>2. f \in Free
    <3>1. Free \in SUBSET Nat
      BY FdsApart DEF Free
    <3> QED BY <1>4, <3>1, MinIsIn
  <2>3. c \in Conn /\ c \in ToSet(backlog)
    <3>1. /\ backlog \in Seq(Conn) /\ Len(backlog) \in Nat /\ Len(backlog) # 0
          /\ DOMAIN backlog = 1..Len(backlog)
      BY <1>1, LenProperties, EmptySeq DEF StreamInv, EventInv, Queued
    <3> QED BY <3>1, HeadTailProperties DEF ToSet
  <2>4. io.fd[c] = Closed /\ io.end[c] = "none"
    BY <2>3 DEF StreamInv, EventInv, Fresh
  <2>5. f \in Fd /\ f # Closed /\ (\A d \in Conn : io.fd[d] # f) /\ Match(io)
    BY <2>2, FdsApart DEF Free, StreamInv, EventInv
  <2>6. /\ io'.fd = [io.fd EXCEPT ![c] = f] /\ io'.end = io.end /\ io'.unused = io.unused
        /\ io'.taken = io.taken /\ io'.delivered = io.delivered
    BY <2>1, <2>5 DEF Accepted, Match, Fields
  <2>7. io'.fd[c] = f /\ \A d \in Conn \ {c} : io'.fd[d] = io.fd[d]
    BY <2>3, <2>5, <2>6 DEF Match
  <2>8. /\ \A d \in Conn \ {c} : inherited'[d] = inherited[d]
        /\ "bytes" \notin inherited'[c] => io.unused[f] = <<>>
    BY <2>1, <2>3 DEF StreamInv, EventInv, PeerTypes
  <2>9. FlowTypes(io)'
    BY <1>1, <2>6 DEF StreamInv, Flow, FlowTypes
  <2>10. ASSUME NEW d \in Conn, d # c
         PROVE  Unread(io, d)' /\ CutRight(io, d)' /\ HandledInOrder(io, d)' /\ WholeAtEnd(io, d)'
    <3>1. Unread(io, d) /\ CutRight(io, d) /\ HandledInOrder(io, d) /\ WholeAtEnd(io, d)
      BY DEF StreamInv, Flow
    <3>2. io'.fd[d] = io.fd[d] /\ inherited'[d] = inherited[d]
      BY <2>7, <2>8, <2>10
    <3>3. Unread(io, d)' /\ CutRight(io, d)'
      BY <2>6, <3>1, <3>2 DEF Unread, CutRight, Clean
    <3>4. HandledInOrder(io, d)' /\ WholeAtEnd(io, d)'
      BY <1>1, <2>6, <3>1, <3>2 DEF HandledInOrder, WholeAtEnd, Clean
    <3> QED BY <3>3, <3>4
  <2>11. Unread(io, c)' /\ CutRight(io, c)' /\ HandledInOrder(io, c)' /\ WholeAtEnd(io, c)'
    <3>1. io.taken[c] = 0 /\ io.delivered[c] = <<>>
      BY <2>3, <2>4 DEF StreamInv, Flow, Unread
    <3>2. Msgs(c, 0) = <<>>
      BY <2>3, MsgsSeq, EmptySeq
    <3>3. Rest(c, 0) = <<>>
      <4> DEFINE z == 2 * (0 \div 2)
      <4>1. z = 0
        OBVIOUS
      <4> HIDE DEF z
      <4>2. Cells(c, z, 0) = <<>>
        BY <2>3, <4>1, NoCells
      <4> QED BY <4>2 DEF Rest, z
    <3>4. Unread(io, c)' /\ WholeAtEnd(io, c)'
      BY <2>4, <2>5, <2>6, <2>7 DEF Unread, WholeAtEnd
    <3>5. CutRight(io, c)'
      <4>1. 0 \div 2 = 0
        OBVIOUS
      <4> QED BY <2>6, <2>7, <2>8, <3>1, <3>2, <3>3, <4>1 DEF CutRight, Clean
    <3>6. HandledInOrder(io, c)'
      <4>1. 0 \in 0..(sent[c] \div 2)
        BY <2>3 DEF StreamInv, SentOK
      <4> QED BY <1>1, <2>6, <3>1, <3>2, <4>1 DEF HandledInOrder
    <3> QED BY <3>4, <3>5, <3>6
  <2> QED BY <1>2, <2>9, <2>10, <2>11 DEF Flow
<1> QED BY <1>3, <1>4

LEMMA TimerKeepsStreams ==
    ASSUME FilesOK, StreamInv, NEW e \in batch, OnTimerEvent(e)
    PROVE  Flow(io')
<1>1. PICK c \in io.held \cup {NoConn} : io' = Release(ConnectionClose(io, c))
  BY DEF OnTimerEvent
<1>2. /\ c \in Conn \cup {NoConn} /\ (c # NoConn => io.fd[c] # Closed)
      /\ Match(io) /\ Flow(io) /\ SentOK
  BY DEF StreamInv, EventInv, Match
<1>3. Match(ConnectionClose(io, c))
  BY <1>2, CloseMatches
<1>4. Flow(ConnectionClose(io, c))
  BY <1>2, CloseFlows
<1> QED BY <1>1, <1>3, <1>4, ReleaseFlows

LEMMA ConnKeepsStreams ==
    ASSUME FilesOK, StreamInv, NEW e \in batch, OnConnEvent(e)
    PROVE  Flow(io')
<1>1. e.fd \in Fd
  BY DEF OnConnEvent
<1>2. PICK d \in io.held \cup {io.reading[e.fd], NoConn}, k \in 1..(MaxCells \div 2) :
             LET read == IF "in" \in e.flags THEN OnReadFlag(io, e.fd, d, k) ELSE io
                 both == IF "err" \in e.flags THEN OnErrorEvent(read, e.fd) ELSE read
             IN  io' = Release(both)
  BY DEF OnConnEvent
<1> DEFINE f == e.fd
           read == IF "in" \in e.flags THEN OnReadFlag(io, f, d, k) ELSE io
           both == IF "err" \in e.flags THEN OnErrorEvent(read, f) ELSE read
<1>3. io' = Release(both)
  BY <1>2
<1>4. Match(io) /\ Flow(io) /\ SentOK /\ f \in Fd /\ f # Closed /\ k \in Nat
  BY <1>1, FdsApart DEF StreamInv, EventInv
<1>5. d \in Conn \cup {NoConn} /\ (d # NoConn => io.fd[d] # Closed)
  BY <1>4 DEF Match
<1>6. io.reading[f] # NoConn => peer[io.reading[f]] \in {"open", "fin", "reset"}
  <2> SUFFICES ASSUME io.reading[f] # NoConn
               PROVE  peer[io.reading[f]] \in {"open", "fin", "reset"}
    OBVIOUS
  <2>1. io.reading[f] \in Conn /\ io.fd[io.reading[f]] # Closed
    BY <1>4 DEF Match
  <2>2. peer[io.reading[f]] # "none"
    BY <2>1 DEF StreamInv, EventInv, Fresh
  <2> QED BY <2>1, <2>2 DEF StreamInv, EventInv, PeerTypes
<1>7. Match(read) /\ Flow(read)
  <2>1. Flow(OnReadFlag(io, f, d, k))
    BY <1>4, <1>5, <1>6, ReadFlagFlows
  <2>2. Match(OnReadFlag(io, f, d, k))
    <3> DEFINE blame == Conn
    <3>1. io.reading[f] # NoConn => io.reading[f] \in blame
      BY <1>4 DEF Match
    <3> HIDE DEF blame
    <3> QED BY <1>4, <1>5, <1>6, <3>1, ReadFlagMatches
  <2> QED BY <1>4, <2>1, <2>2
<1>8. Match(both) /\ Flow(both)
  <2> HIDE DEF read
  <2>1. Flow(OnErrorEvent(read, f))
    BY <1>4, <1>7, ErrorEventFlows
  <2>2. Match(OnErrorEvent(read, f))
    <3> DEFINE blame == Conn
    <3>1. read.reading[f] # NoConn => read.reading[f] \in blame
      BY <1>4, <1>7 DEF Match
    <3> HIDE DEF blame
    <3> QED BY <1>4, <1>7, <3>1, ErrorEventMatches
  <2> QED BY <1>7, <2>1, <2>2
<1> HIDE DEF both, read
<1> QED BY <1>3, <1>8, ReleaseFlows

LEMMA StreamsStep == FilesOK /\ StreamInv /\ [LoopNext]_loopVars => StreamInv'
<1> SUFFICES ASSUME FilesOK, StreamInv, [LoopNext]_loopVars PROVE StreamInv'
  OBVIOUS
<1>1. EventInv'
  BY EventInductive DEF StreamInv
<1>2. ASSUME Flow(io'), sent' = sent, inherited' = inherited PROVE SentOK' /\ Flow(io)'
  BY <1>2 DEF StreamInv, SentOK, Flow, FlowTypes, Unread, CutRight, HandledInOrder, WholeAtEnd, Clean
<1>3. ASSUME io' = io, sent' = sent, inherited' = inherited PROVE SentOK' /\ Flow(io)'
  <2>1. Flow(io')
    BY <1>3 DEF StreamInv
  <2> QED BY <1>2, <1>3, <2>1
<1>4. CASE WaitEvent
  BY <1>1, <1>3, <1>4 DEF WaitEvent, StreamInv
<1>5. ASSUME NEW e \in batch, OnAcceptEvent(e) PROVE StreamInv'
  BY <1>1, <1>5, AcceptKeepsStreams DEF StreamInv
<1>6. ASSUME NEW e \in batch, OnTimerEvent(e) \/ OnConnEvent(e) PROVE StreamInv'
  <2>1. Flow(io') /\ sent' = sent /\ inherited' = inherited
    BY <1>6, TimerKeepsStreams, ConnKeepsStreams DEF OnTimerEvent, OnConnEvent
  <2> QED BY <1>1, <1>2, <2>1 DEF StreamInv
<1>7. ASSUME NEW c \in Conn, Connect(c) \/ PeerEnds(c) PROVE StreamInv'
  BY <1>1, <1>3, <1>7 DEF Connect, PeerEnds, StreamInv
<1>8. ASSUME NEW c \in Conn, Send(c) PROVE StreamInv'
  BY <1>1, <1>8, SendKeepsStreams DEF StreamInv
<1>9. CASE UNCHANGED loopVars
  BY <1>1, <1>3, <1>9 DEF loopVars, StreamInv
<1> QED BY <1>4, <1>5, <1>6, <1>7, <1>8, <1>9 DEF LoopNext, Run

\* The streams stay cut right, over reads that end inside a message, handlers
\* that close connections and descriptors used again.
THEOREM StreamInvariant ==
    ASSUME FilesOK
    PROVE  LoopSpec => []StreamInv
<1>1. LoopInit => StreamInv
  BY StreamsBegin
<1>2. StreamInv /\ [LoopNext]_loopVars => StreamInv'
  BY StreamsStep
<1> QED BY <1>1, <1>2, PTL DEF LoopSpec

\* A service gets the messages of a connection as they were sent, in order and
\* once, however its bytes arrive, unless the connection's descriptor had bytes
\* left of the one before.
THEOREM MessagesInOrder ==
    ASSUME FilesOK
    PROVE  LoopSpec => []OwnMessages
<1>1. StreamInv => OwnMessages
  <2> SUFFICES ASSUME StreamInv, NEW c \in Conn, "bytes" \notin inherited[c]
               PROVE  IsPrefix(io.delivered[c], Messages(Stream(c), sent[c] \div 2))
    BY DEF OwnMessages
  <2>1. sent[c] \in Nat /\ sent[c] \div 2 \in Nat
    BY DEF StreamInv, SentOK
  <2>2. PICK n \in 0..(sent[c] \div 2) : io.delivered[c] = Msgs(c, n)
    BY DEF StreamInv, Flow, HandledInOrder, Clean
  <2>3. Messages(Stream(c), sent[c] \div 2) = Msgs(c, sent[c] \div 2)
    BY <2>1, StreamMessages DEF Stream
  <2> DEFINE m == sent[c] \div 2
  <2>4. n \in Nat /\ m \in Nat /\ n <= m
    BY <2>1
  <2> HIDE DEF m
  <2>5. IsPrefix(Msgs(c, n), Msgs(c, m))
    BY <2>4, MsgsPrefix
  <2> QED BY <2>2, <2>3, <2>5 DEF m
<1> QED BY <1>1, StreamInvariant, PTL

\* When a peer closes, every message it sent has been handled.
THEOREM AllHandledAtClose ==
    ASSUME FilesOK
    PROVE  LoopSpec => []NoneLostAtClose
<1>1. StreamInv => NoneLostAtClose
  <2> SUFFICES ASSUME StreamInv, NEW c \in Conn, io.end[c] = "peer", "bytes" \notin inherited[c]
               PROVE  Len(io.delivered[c]) = sent[c] \div 2
    BY DEF NoneLostAtClose
  <2> DEFINE m == sent[c] \div 2
  <2>1. m \in Nat
    BY DEF StreamInv, SentOK
  <2>2. io.delivered[c] = Msgs(c, m)
    BY DEF StreamInv, Flow, WholeAtEnd, Clean
  <2> HIDE DEF m
  <2>3. Len(Msgs(c, m)) = m
    BY <2>1, MsgsSeq
  <2> QED BY <2>2, <2>3 DEF m
<1> QED BY <1>1, StreamInvariant, PTL
-----------------------------------------------------------------------------
(* The types, with the bound on what is sent.                              *)

CellsOK == MaxCells \in Nat /\ IsFiniteSet(Conn)

SentBounded == sent \in [Conn -> 0..MaxCells]

\* Each of a connection's cells is one of the cells sent.
LEMMA CellsCounted ==
    ASSUME CellsOK, SentBounded, NEW c \in Conn
    PROVE  sent[c] <= Cardinality(SentCells) /\ Cardinality(SentCells) \in Nat
<1>1. MaxCells \in Nat /\ IsFiniteSet(Conn) /\ sent[c] \in 0..MaxCells
  BY DEF CellsOK, SentBounded
<1> DEFINE g == [i \in 1..sent[c] |-> <<c, i>>]
<1>2. IsFiniteSet(1..MaxCells)
  BY <1>1, FS_Interval
<1>3. IsFiniteSet(Conn \X (1..MaxCells))
  BY <1>1, <1>2, FS_Product
<1>4. SentCells \subseteq Conn \X (1..MaxCells)
  BY DEF SentCells
<1>5. IsFiniteSet(SentCells)
  BY <1>3, <1>4, FS_Subset
<1>6. \A i \in 1..sent[c] : <<c, i>> \in SentCells
  BY <1>1 DEF SentCells
<1>7. g \in Injection(1..sent[c], SentCells)
  BY <1>6 DEF Injection, IsInjective
<1>8. Cardinality(1..sent[c]) <= Cardinality(SentCells)
  BY <1>5, <1>7, FS_Injection
<1>9. Cardinality(1..sent[c]) = sent[c]
  BY <1>1, FS_Interval
<1> QED BY <1>5, <1>8, <1>9, FS_CardinalityType

LEMMA BoundsStep == CellsOK /\ SentBounded /\ [LoopNext]_loopVars => SentBounded'
<1> SUFFICES ASSUME CellsOK, SentBounded, [LoopNext]_loopVars PROVE SentBounded'
  OBVIOUS
<1>1. ASSUME NEW c \in Conn, Send(c) PROVE SentBounded'
  <2>1. sent' = [sent EXCEPT ![c] = @ + 1] /\ Cardinality(SentCells) < MaxCells
    BY <1>1 DEF Send
  <2>2. sent[c] <= Cardinality(SentCells) /\ Cardinality(SentCells) \in Nat
    BY CellsCounted
  <2>3. MaxCells \in Nat /\ sent[c] \in 0..MaxCells
    BY DEF CellsOK, SentBounded
  <2>4. sent[c] + 1 \in 0..MaxCells
    BY <2>1, <2>2, <2>3
  <2> QED BY <2>1, <2>4 DEF SentBounded
<1>2. ASSUME sent' = sent PROVE SentBounded'
  BY <1>2 DEF SentBounded
<1>3. CASE Run
  BY <1>2, <1>3 DEF Run, WaitEvent, OnAcceptEvent, OnTimerEvent, OnConnEvent
<1>4. ASSUME NEW c \in Conn, Connect(c) \/ PeerEnds(c) PROVE SentBounded'
  BY <1>2, <1>4 DEF Connect, PeerEnds
<1>5. CASE UNCHANGED loopVars
  BY <1>2, <1>5 DEF loopVars
<1> QED BY <1>1, <1>3, <1>4, <1>5 DEF LoopNext

BoundedInv == StreamInv /\ SentBounded

LEMMA BoundedBegins == FilesOK /\ CellsOK /\ LoopInit => BoundedInv
<1> SUFFICES ASSUME FilesOK, CellsOK, LoopInit PROVE BoundedInv
  OBVIOUS
<1>1. SentBounded
  BY DEF CellsOK, LoopInit, SentBounded
<1> QED BY <1>1, StreamsBegin DEF BoundedInv

LEMMA BoundedStep == FilesOK /\ CellsOK /\ BoundedInv /\ [LoopNext]_loopVars => BoundedInv'
BY StreamsStep, BoundsStep DEF BoundedInv

LEMMA BoundedTypes == FilesOK /\ CellsOK /\ BoundedInv => EventTypeOK
<1> SUFFICES ASSUME FilesOK, CellsOK, BoundedInv PROVE EventTypeOK
  OBVIOUS
<1>1. /\ PeerTypes /\ Queued /\ BatchOK /\ Match(io) /\ FlowTypes(io)
      /\ SentBounded /\ MaxCells \in Nat
  BY DEF BoundedInv, StreamInv, EventInv, Flow, CellsOK
<1>2. io.taken \in [Conn -> 0..MaxCells]
  BY <1>1 DEF FlowTypes, SentBounded
<1>3. ToSet(backlog) \subseteq Conn
  BY <1>1, ElementOfSeq, LenProperties DEF Queued, ToSet
<1>4. batch \subseteq [fd : 1..Timer, flags : SUBSET {"in", "err"}]
  BY <1>1 DEF BatchOK
<1> QED BY <1>1, <1>2, <1>3, <1>4 DEF EventTypeOK, PeerTypes, SentBounded, Match, Ends

\* What the loop keeps of sockets, events and bytes keeps its type, and no
\* connection has more cells than are sent over all of them.
THEOREM EventTypes ==
    ASSUME FilesOK, CellsOK
    PROVE  LoopSpec => []EventTypeOK
<1>1. LoopInit => BoundedInv
  BY BoundedBegins
<1>2. BoundedInv /\ [LoopNext]_loopVars => BoundedInv'
  BY BoundedStep
<1>3. BoundedInv => EventTypeOK
  BY BoundedTypes
<1> QED BY <1>1, <1>2, <1>3, PTL DEF LoopSpec
=============================================================================
