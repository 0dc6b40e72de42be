----------------------------- MODULE ClientConn -----------------------------
(***************************************************************************)
(* The connections of clients: the connection server (connsvrd), which     *)
(* has them, the game server, whose ClientConnManager is told of them, and *)
(* the one connection between the two servers.                             *)
(*                                                                         *)
(* A client connection is known by its descriptor, which the next client   *)
(* may be given once it is closed.  The game server learns of it from the  *)
(* first message a logged in client sends, which is marked new, and of its *)
(* end from a notice of its own.  What is sent while the connection of the *)
(* servers is down is dropped, what is on its way when it breaks is lost.  *)
(*                                                                         *)
(* Every handler runs to completion in its server's event loop.  A session *)
(* of the game server answers some time after its request (SessionTimer    *)
(* says when); there is always a free one here.  Time sync requests change *)
(* no state.                                                               *)
(*                                                                         *)
(* History (no code state): lost, asked, answered, and the client of       *)
(* messages, which is their uid as long as the properties look at it.      *)
(***************************************************************************)
EXTENDS Naturals, FiniteSets, SequencesExt

CONSTANTS
    Client,         \* the clients, which connect once each
    Fd,             \* the descriptors the connection server has for clients
    Free,           \* an unused descriptor or place of a map
    NoConn,         \* a message with no conn_id
    NeedHeartBeat,  \* need_heart_beat of the deployment configuration
    ClientConnSize, \* client_conn_size of the deployment configuration
    Relogin,        \* TRUE: a client may send a login without uid at any time
    HeartBeatTimeout, \* DEF_HEART_BEAT_TIMEOUT, in ticks of the model
    MaxAsk,         \* bound on the requests of one client
    MaxFailures     \* bound on breaks of the connection and crashes

ASSUME ConnAssumption ==
    /\ NeedHeartBeat \in BOOLEAN /\ Relogin \in BOOLEAN
    /\ ClientConnSize \in Nat \ {0} /\ HeartBeatTimeout \in Nat \ {0}
    /\ MaxAsk \in Nat /\ MaxFailures \in Nat
    /\ Free \notin Client /\ NoConn \notin Fd

VARIABLES
    peer,      \* peer[c]: what client c did with its connection
    sock,      \* sock[f]: the SockInfo of descriptor f (_sock_map), or Free
    conns,     \* conns[f]: the client of ClientConn f at the game server
    link,      \* the connection of the servers: is it there, and who thinks so
    up, down,  \* the messages on it, to the game server and back
    sessions,  \* the requests the game server has not answered
    saved,     \* both in shared memory, once the game server is to stop
    lost,      \* history: descriptors the game server missed a message about
    asked,     \* history: the requests of a client that were handled
    answered,  \* history: the responses a client received
    failures   \* how often something failed

connVars == <<peer, sock>>
gameVars == <<conns, sessions, saved, asked>>
linkVars == <<link, up, down, lost>>
vars == <<connVars, gameVars, linkVars, answered, failures>>

-----------------------------------------------------------------------------
SockInfo == [client: Client, login: BOOLEAN, new: BOOLEAN, connected: BOOLEAN,
             silent: 0..(HeartBeatTimeout + 1)]

Message == [conn: Fd, client: Client, new: BOOLEAN, close: BOOLEAN]

Response == [conn: Fd \cup {NoConn}, client: Client]

Conns == [Fd -> Client \cup {Free}]

Session == [conn: Fd, client: Client, number: 1..MaxAsk]

TypeOK ==
    /\ peer \in [Client -> {"out", "open", "closed", "reset"}]
    /\ sock \in [Fd -> SockInfo \cup {Free}]
    /\ conns \in Conns
    /\ link \in [tcp: BOOLEAN, conn: BOOLEAN, game: BOOLEAN]
    /\ up \in Seq(Message) /\ down \in Seq(Response)
    /\ sessions \subseteq Session
    /\ saved = Free \/ saved \in [conns: Conns, sessions: SUBSET Session]
    /\ lost \subseteq Fd
    /\ asked \in [Client -> 0..MaxAsk] /\ answered \in [Client -> Nat]
    /\ failures \in 0..MaxFailures

Used(map) == {f \in Fd : map[f] # Free}

\* The descriptors of connections the game server has been told of.
Told == {f \in Used(sock) : ~sock[f].new}

\* The messages that tell it that a connection began or ended.
IsNotice(m) == m.new \/ m.close

Notices(s) == {i \in DOMAIN s : IsNotice(s[i])}

Init ==
    /\ peer = [c \in Client |-> "out"]
    /\ sock = [f \in Fd |-> Free]
    /\ conns = [f \in Fd |-> Free]
    /\ link = [tcp |-> TRUE, conn |-> TRUE, game |-> TRUE]
    /\ up = <<>> /\ down = <<>>
    /\ sessions = {} /\ saved = Free /\ lost = {}
    /\ asked = [c \in Client |-> 0] /\ answered = [c \in Client |-> 0]
    /\ failures = 0

-----------------------------------------------------------------------------
\* TransferMessage, of every message of s: without a connection to the game
\* server it is dropped.
TransferMessage(s) ==
    /\ IF link.conn /\ link.tcp
       THEN /\ up' = up \o s
            /\ lost' = lost \ {s[i].conn : i \in {j \in DOMAIN s : s[j].new}}
       ELSE /\ lost' = lost \cup {s[i].conn : i \in Notices(s)}
            /\ UNCHANGED up
    /\ UNCHANGED <<link, down>>

\* Mutant: the notice is about the client's uid.
CloseByUid(f) ==
    [conn |-> sock[f].client, client |-> sock[f].client, new |-> FALSE, close |-> TRUE]

\* The close notice of connection f.
Close(f) == [conn |-> f, client |-> sock[f].client, new |-> FALSE, close |-> TRUE]

CloseNotices(F) == LET order == SetToSeq(F \cap Told)
                   IN  [i \in DOMAIN order |-> Close(order[i])]

Alive(f) == f \in Used(sock) /\ sock[f].connected

Says(f) == Alive(f) /\ peer[sock[f].client] = "open"

\* OnConnectionCreate.
Accept(c, f) ==
    /\ peer[c] = "out" /\ sock[f] = Free
    /\ peer' = [peer EXCEPT ![c] = "open"]
    /\ sock' = [sock EXCEPT ![f] = [client |-> c, login |-> FALSE, new |-> TRUE,
                                    connected |-> TRUE, silent |-> 0]]
    /\ UNCHANGED <<gameVars, linkVars, answered, failures>>

\* HandleLogin.
Login(f) ==
    /\ Says(f)
    /\ sock' = [sock EXCEPT ![f].login = TRUE]
    /\ UNCHANGED <<peer, gameVars, linkVars, answered, failures>>

\* ... a login with no uid: the connection is closed and nobody told.
BadLogin(f) ==
    /\ Says(f)
    /\ Relogin \/ sock[f].new
    /\ sock' = [sock EXCEPT ![f] = Free]
    /\ peer' = [peer EXCEPT ![sock[f].client] = "closed"]
    /\ lost' = lost \cup ({f} \cap Told)
    /\ UNCHANGED <<gameVars, link, up, down, answered, failures>>

\* HandleHeartBeat.
HeartBeat(f) ==
    /\ Says(f)
    /\ sock' = [sock EXCEPT ![f].silent = 0]
    /\ UNCHANGED <<peer, gameVars, linkVars, answered, failures>>

\* HandleOther: a request of a client that is logged in.
Other(f) ==
    LET c == sock[f].client
    IN  /\ Says(f) /\ sock[f].login
        /\ asked[c] + Cardinality({i \in DOMAIN up : up[i].client = c}) < MaxAsk
        /\ sock' = [sock EXCEPT ![f].new = FALSE]
        /\ TransferMessage(<<[conn |-> f, client |-> c, new |-> sock[f].new,
                              close |-> FALSE]>>)
        /\ UNCHANGED <<peer, gameVars, answered, failures>>

\* The client closes its connection, or it breaks.
Leave(c) ==
    /\ peer[c] = "open"
    /\ \E how \in {"closed", "reset"} : peer' = [peer EXCEPT ![c] = how]
    /\ UNCHANGED <<sock, gameVars, linkVars, answered, failures>>

\* Mutant: nobody is told.
PeerCloseSilently(f) ==
    /\ sock' = [sock EXCEPT ![f] = Free]
    /\ TransferMessage(<<>>)

\* OnConnectionPeerClose and OnConnectionClose.
PeerClose(f) ==
    /\ sock' = [sock EXCEPT ![f] = Free]
    /\ TransferMessage(CloseNotices({f}))

\* The event loop reads the end of the stream ...
ReadEnd(f) ==
    /\ Alive(f) /\ peer[sock[f].client] = "closed"
    /\ PeerClose(f)
    /\ UNCHANGED <<peer, gameVars, answered, failures>>

\* ... or an error: it shuts the socket down and calls nobody.
ReadError(f) ==
    /\ Alive(f) /\ peer[sock[f].client] = "reset"
    /\ sock' = [sock EXCEPT ![f].connected = FALSE]
    /\ UNCHANGED <<peer, gameVars, linkVars, answered, failures>>

\* Time passes.  Connections that are silent for too long all are the same.
Tick ==
    /\ NeedHeartBeat
    /\ \E f \in Used(sock) : sock[f].silent <= HeartBeatTimeout
    /\ sock' = [f \in Fd |->
                  IF f \in Used(sock) /\ sock[f].silent <= HeartBeatTimeout
                  THEN [sock[f] EXCEPT !.silent = @ + 1] ELSE sock[f]]
    /\ UNCHANGED <<peer, gameVars, linkVars, answered, failures>>

Silent == {f \in Used(sock) : sock[f].silent > HeartBeatTimeout}

\* Mutant: the connections are closed before the notices are made.
HeartBeatCloseFirst(F) ==
    /\ sock' = [f \in Fd |-> IF f \in F THEN Free ELSE sock[f]]
    /\ TransferMessage(<<>>)

HeartBeatClose(F) ==
    /\ sock' = [f \in Fd |-> IF f \in F THEN Free ELSE sock[f]]
    /\ TransferMessage(CloseNotices(F))

\* The heart beat check of OnRun.
HeartBeatCheck ==
    /\ NeedHeartBeat /\ Silent # {}
    /\ HeartBeatClose(Silent)
    /\ peer' = [c \in Client |->
                  IF peer[c] = "open" /\ \E f \in Silent : sock[f].client = c
                  THEN "closed" ELSE peer[c]]
    /\ UNCHANGED <<gameVars, answered, failures>>

-----------------------------------------------------------------------------
\* What the game server sends is lost if the connection is broken.
Send(r) == down' = IF link.tcp THEN Append(down, r) ELSE down

\* CreateClientConn fails: the message is dropped.  The answer that is to
\* close the connection is made from itself and so has no conn_id.
Refuse(m) ==
    /\ m.new /\ Cardinality(Used(conns)) >= ClientConnSize
    /\ lost' = lost \cup {m.conn}
    /\ Send([conn |-> NoConn, client |-> m.client])
    /\ UNCHANGED <<conns, sessions, asked>>

\* ReleaseClientConn.
Release(m) ==
    /\ m.close
    /\ conns' = [conns EXCEPT ![m.conn] = Free]
    /\ UNCHANGED <<sessions, asked, lost, down>>

\* CreateClientConn, if the message is marked new, and a session for it.
TakeRequest(m) ==
    /\ ~m.close
    /\ m.new => Cardinality(Used(conns)) < ClientConnSize
    /\ conns' = [conns EXCEPT ![m.conn] = IF m.new THEN m.client ELSE @]
    /\ asked' = [asked EXCEPT ![m.client] = @ + 1]
    /\ sessions' = sessions \cup {[conn |-> m.conn, client |-> m.client,
                                   number |-> asked[m.client] + 1]}
    /\ UNCHANGED <<lost, down>>

\* OnConnectionMessage of the game server.
GameMessage ==
    /\ up # <<>>
    /\ up' = Tail(up)
    /\ Refuse(Head(up)) \/ Release(Head(up)) \/ TakeRequest(Head(up))
    /\ UNCHANGED <<connVars, saved, link, answered, failures>>

\* Mutant: the response has no conn head.
ResponseToNobody(s) == [conn |-> NoConn, client |-> s.client]

\* The response of a session has the conn head of its request.
ResponseOf(s) == [conn |-> s.conn, client |-> s.client]

\* TransferResponse: dropped, if the game server knows the connection is gone.
Respond(s) ==
    /\ sessions' = sessions \ {s}
    /\ IF link.game THEN Send(ResponseOf(s)) ELSE UNCHANGED down
    /\ UNCHANGED <<connVars, conns, saved, asked, link, up, lost,
                   answered, failures>>

\* OnConnectionMessage of the connection server and SendMessageToClient: the
\* client that has the descriptor now gets the response.
ConnMessage ==
    /\ down # <<>>
    /\ down' = Tail(down)
    /\ LET f == Head(down).conn
       IN  IF f # NoConn /\ f \in Used(sock) /\ sock[f].connected
           THEN answered' = [answered EXCEPT ![sock[f].client] = @ + 1]
           ELSE UNCHANGED answered
    /\ UNCHANGED <<connVars, gameVars, link, up, lost, failures>>

-----------------------------------------------------------------------------
Fail == failures < MaxFailures /\ failures' = failures + 1

\* The connection of the servers is gone, and all messages on it.
Broken(conn, game) ==
    /\ link' = [tcp |-> FALSE, conn |-> conn, game |-> game]
    /\ up' = <<>> /\ down' = <<>>

Break ==
    /\ Fail /\ link.tcp
    /\ Broken(link.conn, link.game)
    /\ lost' = lost \cup {up[i].conn : i \in Notices(up)}
    /\ UNCHANGED <<connVars, gameVars, answered>>

\* Each server notices.
ConnNotices ==
    /\ ~link.tcp /\ link.conn
    /\ link' = [link EXCEPT !.conn = FALSE]
    /\ UNCHANGED <<connVars, gameVars, up, down, lost, answered, failures>>

GameNotices ==
    /\ ~link.tcp /\ link.game
    /\ link' = [link EXCEPT !.game = FALSE]
    /\ UNCHANGED <<connVars, gameVars, up, down, lost, answered, failures>>

\* OnConnectionCheck connects again; OnConnectionCreate of the connection
\* server takes the new connection and closes the old one.
Reconnect ==
    /\ ~link.game
    /\ link' = [tcp |-> TRUE, conn |-> TRUE, game |-> TRUE]
    /\ UNCHANGED <<connVars, gameVars, up, down, lost, answered, failures>>

\* The game server is told to stop: the signal handler saves its managers.
GameStop ==
    /\ Fail /\ saved = Free
    /\ saved' = [conns |-> conns, sessions |-> sessions]
    /\ UNCHANGED <<connVars, conns, sessions, asked, linkVars, answered>>

\* It ends, starts again and recovers them: what it handled since is gone.
GameRestart ==
    /\ saved # Free
    /\ Broken(link.conn, FALSE)
    /\ conns' = saved.conns
    /\ sessions' = saved.sessions
    /\ saved' = Free
    /\ lost' = lost \cup {up[i].conn : i \in Notices(up)}
                    \cup {f \in Fd : conns[f] # saved.conns[f]}
    /\ UNCHANGED <<connVars, asked, answered, failures>>

\* The game server ends with nothing saved and starts again.
GameCrash ==
    /\ Fail /\ saved = Free
    /\ Broken(link.conn, FALSE)
    /\ conns' = [f \in Fd |-> Free]
    /\ sessions' = {}
    /\ saved' = Free
    /\ lost' = Told
    /\ UNCHANGED <<connVars, asked, answered>>

\* The connection server ends and starts again.
ConnCrash ==
    /\ Fail
    /\ Broken(FALSE, link.game)
    /\ sock' = [f \in Fd |-> Free]
    /\ peer' = [c \in Client |-> IF peer[c] = "open" THEN "closed" ELSE peer[c]]
    /\ lost' = Used(conns)
    /\ UNCHANGED <<gameVars, answered>>

\* Nothing is left to do.
Done ==
    /\ \A c \in Client : peer[c] \in {"closed", "reset"}
    /\ \A f \in Fd : ~Alive(f)
    /\ up = <<>> /\ down = <<>> /\ sessions = {} /\ saved = Free /\ link.tcp
    /\ UNCHANGED vars

Conn == \/ \E f \in Fd : \/ \E c \in Client : Accept(c, f)
                         \/ Login(f) \/ BadLogin(f) \/ HeartBeat(f) \/ Other(f)
                         \/ ReadEnd(f) \/ ReadError(f)
        \/ Tick \/ HeartBeatCheck \/ ConnMessage \/ ConnNotices

Game == \/ GameMessage \/ GameNotices \/ Reconnect \/ GameRestart
        \/ \E s \in sessions : Respond(s)

Next == \/ Conn \/ Game
        \/ \E c \in Client : Leave(c)
        \/ Break \/ GameStop \/ GameCrash \/ ConnCrash
        \/ Done

\* Both event loops take every event that is ready, and run their timers; the
\* sessions of the game server end.
Fairness ==
    /\ \A f \in Fd : WF_vars(ReadEnd(f)) /\ WF_vars(ReadError(f))
    /\ WF_vars(Tick) /\ WF_vars(HeartBeatCheck)
    /\ WF_vars(GameMessage) /\ WF_vars(ConnMessage)
    /\ WF_vars(ConnNotices) /\ WF_vars(GameNotices) /\ WF_vars(Reconnect)
    /\ WF_vars(\E s \in sessions : Respond(s))

Spec == Init /\ [][Next]_vars /\ Fairness

-----------------------------------------------------------------------------
\* The client the game server will have for f when it has handled all that is
\* on its way to it.
View(f) ==
    LET about == {i \in Notices(up) : up[i].conn = f}
        last  == CHOOSE i \in about : \A j \in about : j <= i
    IN  CASE about = {}         -> conns[f]
          [] about # {} /\ up[last].new   -> up[last].client
          [] OTHER              -> Free

\* The game server's map follows the connections: but for those it missed a
\* message about, it has, or will have without anything more being sent, the
\* clients of the connections it was told of and no others.  A new connection
\* on the descriptor ends what was missed.
ViewsAgree ==
    \A f \in Fd \ lost :
        View(f) = IF f \in Told THEN sock[f].client ELSE Free

\* In the end the game server has forgotten all clients that left, whose
\* connections broke, fell silent or were closed, whatever failed in between,
\* but where it missed a message about the connection.
LeftIsForgotten ==
    <>[](\A c \in Client : peer[c] \in {"closed", "reset"} =>
                              \A f \in Fd \ lost : conns[f] # c)

\* In the end all requests that were handled are answered, where the client is
\* still there, if nothing fails.
RequestAnswered ==
    <>[](\A c \in Client :
            answered[c] >= asked[c] \/ peer[c] # "open" \/ failures > 0)

=============================================================================
