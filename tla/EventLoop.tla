----------------------------- MODULE EventLoop -----------------------------
(***************************************************************************)
(* lsf::asio::async::ProactorSerivce with the epoll driver, the completion *)
(* queue and the unused data buffer, under an accepting service: from the  *)
(* bytes a peer sends to the messages the service gets.                    *)
(*                                                                         *)
(* Everything the loop keeps is keyed by descriptor, and a descriptor is   *)
(* closed, and so free for the next connection, when the last reference to *)
(* its socket goes: the completion's or the service's.                     *)
(*                                                                         *)
(* A message is two cells, its head and its body.  A peer sends them one   *)
(* at a time; the handler of a message may close one connection.           *)
(***************************************************************************)
EXTENDS Naturals, FiniteSets, Sequences, SequencesExt, FiniteSetsExt

CONSTANTS
    Conn,         \* connections, each made once
    Files,        \* bound: descriptors for connections
    MaxCells,     \* bound: cells sent, over all connections
    NoConn

Fd == 1..Files
Closed == 0       \* "no descriptor"
Listen == Files + 1
Timer == Files + 2

VARIABLES
    peer,         \* the other end of each connection
    sent,         \* cells it has sent
    backlog,      \* connections to be accepted
    io,           \* the loop and its sockets, see InitIo
    batch,        \* events of the last WaitEvent still to be handled, in any order
    inherited     \* history: what a connection got of its descriptor's last one

loopVars == <<peer, sent, backlog, io, batch, inherited>>

-----------------------------------------------------------------------------
(* The bytes of a connection.                                              *)

Cell(c, i) == [conn |-> c, part |-> IF i % 2 = 1 THEN "head" ELSE "body", msg |-> (i + 1) \div 2]

Cells(c, from, to) == [i \in 1..(to - from) |-> Cell(c, from + i)]

\* messages complete at the front of a buffer: GetSingleMessageFromStream
\* takes what a head says, and stops at what is no head
Complete(buffer) ==
    Max({n \in 0..(Len(buffer) \div 2) : \A i \in 1..n : buffer[2 * i - 1].part = "head"})

MessageAt(buffer, i) == SubSeq(buffer, 2 * i - 1, 2 * i)

Messages(buffer, n) == [i \in 1..n |-> MessageAt(buffer, i)]

-----------------------------------------------------------------------------
(* The loop's state and what changes it.                                   *)

InitIo ==
    [fd |-> [c \in Conn |-> Closed],         \* the socket's descriptor
     reading |-> [f \in Fd |-> NoConn],      \* read completion and registration
     unused |-> [f \in Fd |-> <<>>],         \* ReadDataBuffer
     taken |-> [c \in Conn |-> 0],           \* cells received
     end |-> [c \in Conn |-> "none"],        \* what shut the socket down
     held |-> {},                            \* sockets the service refers to
     delivered |-> [c \in Conn |-> <<>>]]    \* history: messages handled

\* mutant: forgets the completion
AsyncCancelKeepsRead(s, f) == [s EXCEPT !.unused[f] = <<>>]

AsyncCancel(s, f) == [s EXCEPT !.reading[f] = NoConn, !.unused[f] = <<>>]

\* AsyncCancel, then Socket::ShutDown, for the reason why
ShutDown(s, c, why) ==
    [AsyncCancel(s, s.fd[c]) EXCEPT !.end[c] = IF @ = "none" THEN why ELSE @]

\* BasicService::ConnectionClose, if there is one to close; the service's
\* OnConnectionClose lets go of the socket
ConnectionClose(s, c) ==
    IF c = NoConn THEN s ELSE [ShutDown(s, c, "service") EXCEPT !.held = @ \ {c}]

\* a socket without a reference closes its descriptor
Release(s) ==
    [s EXCEPT !.fd = [c \in Conn |-> IF @[c] # Closed /\ c \notin s.held /\ s.reading[@[c]] # c
                                     THEN Closed ELSE @[c]]]

\* mutant: what was left comes after what is received
ReceiveBefore(s, c) == Cells(c, s.taken[c], sent[c]) \o s.unused[s.fd[c]]

\* CheckUnusedData, and recv until nothing is left
Receive(s, c) == s.unused[s.fd[c]] \o Cells(c, s.taken[c], sent[c])

\* OnSocketRead: the handler of the k-th message closes d, a service skips the
\* messages of a socket that is shut, and what is left of the bytes is saved
OnSocketRead(s, c, d, k) ==
    LET buffer == Receive(s, c)
        n == Complete(buffer)
        handled == IF s.end[c] # "none" THEN 0
                   ELSE IF d = c THEN Min({k, n}) ELSE n
        got == [s EXCEPT !.taken[c] = sent[c],
                         !.unused[s.fd[c]] = <<>>,
                         !.delivered[c] = @ \o Messages(buffer, handled)]
        closed == IF k <= handled THEN ConnectionClose(got, d) ELSE got
    IN  [closed EXCEPT !.unused[s.fd[c]] = @ \o SubSeq(buffer, 2 * n + 1, Len(buffer))]

\* mutant: shuts down before it hands on what it has read
OnReadEventShutFirst(s, c, d, k) ==
    CASE peer[c] = "open" -> OnSocketRead(s, c, d, k)
      [] peer[c] = "fin" -> [OnSocketRead(ShutDown(s, c, "peer"), c, d, k) EXCEPT !.held = @ \ {c}]
      [] peer[c] = "reset" -> OnSocketRead(ShutDown(s, c, "error"), c, d, k)

\* then the end of the stream: only a peer that closed is reported to the service
OnReadEvent(s, c, d, k) ==
    LET read == OnSocketRead(s, c, d, k)
    IN  CASE peer[c] = "open" -> read
          [] peer[c] = "fin" -> [ShutDown(read, c, "peer") EXCEPT !.held = @ \ {c}]
          [] peer[c] = "reset" -> ShutDown(read, c, "error")

\* the read flag of an event: what is registered under the descriptor now
OnReadFlag(s, f, d, k) ==
    IF s.reading[f] = NoConn THEN AsyncCancel(s, f) ELSE OnReadEvent(s, s.reading[f], d, k)

\* its error flag
OnErrorEvent(s, f) ==
    IF s.reading[f] = NoConn THEN s ELSE ShutDown(s, s.reading[f], "error")

-----------------------------------------------------------------------------
(* The peers.  What they do on a connection that is shut has no effect.    *)

Connect(c) ==
    /\ peer[c] = "none"
    /\ peer' = [peer EXCEPT ![c] = "open"]
    /\ backlog' = Append(backlog, c)
    /\ UNCHANGED <<sent, io, batch, inherited>>

\* the cells sent so far, for the bound
SentCells == {x \in Conn \X (1..MaxCells) : x[2] <= sent[x[1]]}

Send(c) ==
    /\ peer[c] = "open" /\ io.end[c] = "none"
    /\ Cardinality(SentCells) < MaxCells
    /\ sent' = [sent EXCEPT ![c] = @ + 1]
    /\ UNCHANGED <<peer, backlog, io, batch, inherited>>

\* closes, or breaks
PeerEnds(c) ==
    /\ peer[c] = "open" /\ io.end[c] = "none"
    /\ \E how \in {"fin", "reset"} : peer' = [peer EXCEPT ![c] = how]
    /\ UNCHANGED <<sent, backlog, io, batch, inherited>>

-----------------------------------------------------------------------------
(* The loop.                                                               *)

\* mutant: a peer that closed counts as an error
FlagsHup(c) ==
    IF peer[c] \in {"fin", "reset"} THEN {"err"} ELSE IF io.taken[c] < sent[c] THEN {"in"} ELSE {}

\* events of a registered descriptor: level triggered
Flags(c) ==
    CASE peer[c] = "reset" -> {"in", "err"}
      [] peer[c] = "fin" \/ io.taken[c] < sent[c] -> {"in"}
      [] OTHER -> {}

Ready ==
    {[fd |-> f, flags |-> Flags(io.reading[f])] :
        f \in {g \in Fd : io.reading[g] # NoConn /\ Flags(io.reading[g]) # {}}}
    \cup {[fd |-> f, flags |-> {"in"}] : f \in IF backlog = <<>> THEN {} ELSE {Listen}}

\* all that is ready; the timer may be among it
WaitEvent ==
    /\ batch = {}
    /\ \E timer \in {{}, {[fd |-> Timer, flags |-> {"in"}]}} :
           Ready \cup timer # {} /\ batch' = Ready \cup timer
    /\ UNCHANGED <<peer, sent, backlog, io, inherited>>

Free == Fd \ {io.fd[c] : c \in Conn}

\* OnAcceptEvent and the service's OnSocketAccept: the lowest free descriptor;
\* without one accept fails, and the connection waits.  The service holds the
\* socket unless it cannot.
OnAcceptEvent(e) ==
    /\ e.fd = Listen
    /\ batch' = batch \ {e}
    /\ IF Free = {} THEN UNCHANGED <<backlog, io, inherited>>
       ELSE LET c == Head(backlog)
                f == Min(Free)
            IN  /\ backlog' = Tail(backlog)
                /\ \E held \in {{}, {c}} :
                       io' = [io EXCEPT !.fd[c] = f, !.reading[f] = c, !.held = @ \cup held]
                /\ inherited' = [inherited EXCEPT ![c] =
                       (IF io.unused[f] = <<>> THEN {} ELSE {"bytes"})
                       \cup (IF \E late \in batch' : late.fd = f THEN {"event"} ELSE {})]
    /\ UNCHANGED <<peer, sent>>

\* a timer of the service closes a connection, or none
OnTimerEvent(e) ==
    /\ e.fd = Timer
    /\ batch' = batch \ {e}
    /\ \E c \in io.held \cup {NoConn} : io' = Release(ConnectionClose(io, c))
    /\ UNCHANGED <<peer, sent, backlog, inherited>>

\* an event of a connection's descriptor: its read flag, then its error flag
OnConnEvent(e) ==
    /\ e.fd \in Fd
    /\ batch' = batch \ {e}
    /\ \E d \in io.held \cup {io.reading[e.fd], NoConn}, k \in 1..(MaxCells \div 2) :
           LET read == IF "in" \in e.flags THEN OnReadFlag(io, e.fd, d, k) ELSE io
               both == IF "err" \in e.flags THEN OnErrorEvent(read, e.fd) ELSE read
           IN  io' = Release(both)
    /\ UNCHANGED <<peer, sent, backlog, inherited>>

-----------------------------------------------------------------------------
LoopInit ==
    /\ peer = [c \in Conn |-> "none"]
    /\ sent = [c \in Conn |-> 0]
    /\ backlog = <<>>
    /\ io = InitIo
    /\ batch = {}
    /\ inherited = [c \in Conn |-> {}]

Run ==
    \/ WaitEvent
    \/ \E e \in batch : OnAcceptEvent(e) \/ OnTimerEvent(e) \/ OnConnEvent(e)

LoopNext == Run \/ \E c \in Conn : Connect(c) \/ Send(c) \/ PeerEnds(c)

\* The loop never stops turning.  It always can: a timer may be ready.
Turning == []<><<Run>>_loopVars

LoopSpec == LoopInit /\ [][LoopNext]_loopVars /\ Turning

-----------------------------------------------------------------------------
(* Properties.                                                             *)

Stream(c) == Cells(c, 0, sent[c])

EventTypeOK ==
    /\ peer \in [Conn -> {"none", "open", "fin", "reset"}]
    /\ sent \in [Conn -> 0..MaxCells]
    /\ ToSet(backlog) \subseteq Conn
    /\ io.fd \in [Conn -> Fd \cup {Closed}] /\ io.reading \in [Fd -> Conn \cup {NoConn}]
    /\ io.taken \in [Conn -> 0..MaxCells] /\ io.held \subseteq Conn
    /\ io.end \in [Conn -> {"none", "peer", "service", "error"}]
    /\ batch \subseteq [fd : 1..Timer, flags : SUBSET {"in", "err"}]
    /\ inherited \in [Conn -> SUBSET {"bytes", "event"}]

\* A service gets the messages of a connection as they were sent, in order and
\* once, however reads cut them: unless the descriptor had bytes left of the
\* connection before.
OwnMessages ==
    \A c \in Conn : "bytes" \notin inherited[c] =>
        IsPrefix(io.delivered[c], Messages(Stream(c), sent[c] \div 2))

\* A peer that sends and closes has its last messages handled: the loop reports
\* the end of a stream after what came before it.
NoneLostAtClose ==
    \A c \in Conn : io.end[c] = "peer" /\ "bytes" \notin inherited[c] =>
        Len(io.delivered[c]) = sent[c] \div 2

\* The loop shuts a connection down for what happened to that connection, over
\* descriptors that are used again: unless an event fetched before the
\* connection was accepted is handled after.
EndsByItsOwn ==
    \A c \in Conn : io.end[c] = "error" => peer[c] = "reset" \/ "event" \in inherited[c]

\* A socket that is not shut down is registered, under its own descriptor, and
\* one that is shut down nowhere; no two open sockets have one descriptor.
CompletionsMatch ==
    /\ \A c \in Conn : io.fd[c] # Closed => (io.end[c] = "none" <=> io.reading[io.fd[c]] = c)
    /\ \A f \in Fd : io.reading[f] # NoConn => io.fd[io.reading[f]] = f
    /\ \A c, d \in Conn : io.fd[c] = io.fd[d] /\ io.fd[c] # Closed => c = d

\* What is sent on an accepted connection reaches the service message by message,
\* or the connection ends.
Unhandled(c) ==
    /\ io.fd[c] # Closed /\ io.end[c] = "none" /\ "bytes" \notin inherited[c]
    /\ Len(io.delivered[c]) < sent[c] \div 2

EveryMessage == \A c \in Conn : []<>~Unhandled(c)
=============================================================================
