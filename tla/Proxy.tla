------------------------------- MODULE Proxy -------------------------------
(***************************************************************************)
(* Messages between servers over the proxies: the connections every server *)
(* keeps to every proxy (BasicConnectService), its registration there      *)
(* (ConnectServerMsgTransferService), and the proxy's table of sockets, by *)
(* which it routes (AcceptServerMsgTransferService).                       *)
(*                                                                         *)
(* A link is one TCP connection with what is under way on it; one that     *)
(* both ends are done with is used for the next connection.  The servers   *)
(* are of one type, and ids begin with 0, as in the deployment.            *)
(***************************************************************************)
EXTENDS Naturals, Sequences, FiniteSets, FiniteSetsExt

CONSTANTS
    Servers, Proxies,    \* how many
    Links,               \* bound: links of a server and a proxy at a time
    MaxMessages,         \* bound: messages sent
    MaxFaults,           \* bound: links cut, connects that fail, proxies restarted
    MaxSlow,             \* bound: checks that find a connect still under way
    Pauses               \* whether a server may pause before it sends

Server == 0..(Servers - 1)
ProxyId == 0..(Proxies - 1)
NoLink == 0
Link == Server \X ProxyId \X (1..Links)
Message == 1..MaxMessages
Register == 0    \* the register request, among the messages on a link

VARIABLES
    conn,      \* _conn_scok of each server
    index,     \* _last_random_send_index of each server, modulo Proxies
    sock,      \* _sock_map of each proxy
    link,      \* the links
    message,   \* the messages: how to be routed, and how many each server got
    bounds,    \* faults and slow connects so far
    last,      \* history: how each server sent its last message
    calm       \* history: messages sent while all was connected, and no fault since

linkVars == <<conn, index, sock, link, message, bounds, last, calm>>

-----------------------------------------------------------------------------
(* Links.  near is the server's socket, far the proxy's.                   *)

NewLink ==
    [near |-> "connecting", far |-> "none", cut |-> FALSE, registered |-> FALSE,
     up |-> <<>>, down |-> <<>>]

NoneLink == [NewLink EXCEPT !.near = "shut", !.far = "shut"]

IsUnused(s, p, i) ==
    /\ link[s, p, i] = NoneLink
    /\ conn[s][p] # i /\ sock[p][s] # i

Connected(s, p) == link[s, p, conn[s][p]].near = "open"

\* ShutDown of one end: what it has not read is lost.  An end that does not
\* exist yet is never made.
ShutNear(r) == IF r.far = "open" THEN [r EXCEPT !.near = "shut", !.down = <<>>] ELSE NoneLink
ShutFar(r) ==
    IF r.near = "shut" THEN NoneLink
    ELSE [r EXCEPT !.far = "shut", !.registered = FALSE, !.up = <<>>]

\* the end of the proxy's process
LoseFar(r) == IF r.near = "shut" THEN NoneLink ELSE [ShutFar(r) EXCEPT !.cut = TRUE, !.down = <<>>]

SendUp(r, m) == IF r.cut \/ r.far = "shut" THEN r ELSE [r EXCEPT !.up = Append(@, m)]
SendDown(r, m) == IF r.cut \/ r.near = "shut" THEN r ELSE [r EXCEPT !.down = Append(@, m)]

Settled ==
    \A s \in Server, p \in ProxyId :
        /\ Connected(s, p) /\ sock[p][s] = conn[s][p]
        /\ LET r == link[s, p, conn[s][p]] IN r.far = "open" /\ ~r.cut

\* and no other socket is on its way
Calm == Settled /\ \A s \in Server, p \in ProxyId, i \in 1..Links :
                       i = conn[s][p] \/ IsUnused(s, p, i)

-----------------------------------------------------------------------------
(* A server.                                                               *)

\* mutant: leaves a socket alone that has been connected
ToConnectNew(s) == {p \in ProxyId : link[s, p, conn[s][p]].near = "connecting"}

ToConnect(s) == {p \in ProxyId : ~Connected(s, p)}

\* OnConnectionCheck: a new socket wherever the last one is not connected, also
\* where its connect is under way: that one goes on, held by its completion
OnConnectionCheck(s) ==
    LET late == {p \in ToConnect(s) : link[s, p, conn[s][p]].near = "connecting"}
        Unused(p) == {i \in 1..Links : IsUnused(s, p, i)}
    IN  /\ ToConnect(s) # {} /\ \A p \in ToConnect(s) : Unused(p) # {}
        /\ bounds' = [bounds EXCEPT !.slow = @ + Cardinality(late)] /\ bounds'.slow <= MaxSlow
        /\ conn' = [conn EXCEPT ![s] = [p \in ProxyId |-> IF p \in ToConnect(s) THEN Min(Unused(p)) ELSE @[p]]]
        /\ link' = [k \in Link |-> IF k[1] = s /\ k[2] \in ToConnect(s) /\ k[3] = conn'[s][k[2]]
                                   THEN NewLink ELSE link[k]]
        /\ UNCHANGED <<index, sock, message, last, calm>>

\* OnConnectEvent, OnSocketConnect, OnConnectionCreate: registers at once
OnSocketConnect(k) ==
    /\ link[k].near = "connecting"
    /\ link' = [link EXCEPT ![k] = SendUp([@ EXCEPT !.near = "open"], Register)]
    /\ UNCHANGED <<conn, index, sock, message, bounds, last, calm>>

\* the proxy a server tries first: the next one after a pause
SendIndex(s, pause) == IF pause THEN (index[s] + 1) % Proxies ELSE index[s]

\* Transfer... and ConnectionSendBySequence: by the first connected proxy from there
ConnectionSendBySequence(s, m, pause, kind, dst) ==
    /\ message[m].kind = "none" /\ \A n \in 1..(m - 1) : message[n].kind # "none"
    /\ index' = [index EXCEPT ![s] = SendIndex(s, pause)]
    /\ \E i \in 0..(Proxies - 1) :
           LET By(j) == (index'[s] + j) % Proxies
               k == <<s, By(i), conn[s][By(i)]>>
           IN  /\ Connected(s, By(i)) /\ \A j \in 0..(i - 1) : ~Connected(s, By(j))
               /\ link' = [link EXCEPT ![k] = SendUp(@, m)]
               /\ last' = [last EXCEPT ![s] = [message |-> m, pause |-> pause, by |-> By(i), link |-> k[3]]]
    /\ message' = [message EXCEPT ![m].kind = kind, ![m].dst = dst]
    /\ calm' = IF Calm THEN calm \cup {m} ELSE calm
    /\ UNCHANGED <<conn, sock, bounds>>

\* OnSocketRead: a message for this server
ServerReads(k) ==
    /\ link[k].near = "open" /\ link[k].down # <<>>
    /\ message' = [message EXCEPT ![Head(link[k].down)].got[k[1]] = @ + 1]
    /\ link' = [link EXCEPT ![k].down = Tail(@)]
    /\ UNCHANGED <<conn, index, sock, bounds, last, calm>>

\* the loop of the server finds the end of a stream, or an error
ServerSeesEnd(k) ==
    /\ link[k].near = "open" /\ link[k].down = <<>> /\ (link[k].cut \/ link[k].far = "shut")
    /\ link' = [link EXCEPT ![k] = ShutNear(@)]
    /\ UNCHANGED <<conn, index, sock, message, bounds, last, calm>>

-----------------------------------------------------------------------------
(* A proxy.                                                                *)

ProxyAccepts(k) ==
    /\ link[k].far = "none" /\ link[k].near = "open" /\ ~link[k].cut
    /\ link' = [link EXCEPT ![k].far = "open"]
    /\ UNCHANGED <<conn, index, sock, message, bounds, last, calm>>

\* mutant: the socket before stays open
HandleRegisterKeepsOld(k) ==
    /\ link' = [link EXCEPT ![k].up = Tail(@), ![k].registered = TRUE]
    /\ sock' = [sock EXCEPT ![k[2]][k[1]] = k[3]]
    /\ UNCHANGED message

\* a socket registered before is closed, then replaced
HandleRegisterRequest(k) ==
    LET old == <<k[1], k[2], sock[k[2]][k[1]]>>
    IN  /\ link' = [r \in Link |->
                       IF r = k THEN [link[r] EXCEPT !.up = Tail(@), !.registered = TRUE]
                       ELSE IF r = old /\ link[r].far = "open" THEN ShutFar(link[r])
                       ELSE link[r]]
        /\ sock' = [sock EXCEPT ![k[2]][k[1]] = k[3]]
        /\ UNCHANGED message

\* servers whose socket the table has, connected or not
Known(p) == {s \in Server : sock[p][s] # NoLink}

Only(set) == {{s} : s \in set}

\* mutant: does not stop after the first
TargetsNoBreak(p, kind, dst) ==
    CASE kind = "id" -> {{dst}}
      [] kind \in {"broadcast", "random"} -> {Known(p)}
      [] kind = "except" -> {Known(p) \ {dst}}

\* mutant: forgets which server is excepted
TargetsIgnoresExcept(p, kind, dst) ==
    CASE kind = "id" -> {{dst}}
      [] kind = "broadcast" -> {Known(p)}
      [] OTHER -> IF Known(p) = {} THEN {{}} ELSE Only(Known(p))

\* the servers a message may be sent to.  A hash id is reduced to a server's.
\* Beginning at random, the first known server is any of them.
Targets(p, kind, dst) ==
    CASE kind = "id" -> {{dst}}
      [] kind = "broadcast" -> {Known(p)}
      [] kind = "random" -> IF Known(p) = {} THEN {{}} ELSE Only(Known(p))
      [] kind = "except" -> IF Known(p) \ {dst} = {} THEN {Known(p)} ELSE Only(Known(p) \ {dst})

\* TransferMessageByTypeAndId to each: not to a socket that is not connected
HandleMessageTransfer(k) ==
    LET p == k[2]
        m == Head(link[k].up)
    IN  /\ \E to \in Targets(p, message[m].kind, message[m].dst) :
               link' = [r \in Link |->
                   LET read == IF r = k THEN [link[r] EXCEPT !.up = Tail(@)] ELSE link[r]
                   IN  IF r[2] = p /\ r[1] \in to /\ sock[p][r[1]] = r[3] /\ read.far = "open"
                       THEN SendDown(read, m) ELSE read]
        /\ UNCHANGED <<sock, message>>

\* OnConnectionMessage
ProxyReads(k) ==
    /\ link[k].far = "open" /\ link[k].up # <<>>
    /\ IF Head(link[k].up) = Register THEN HandleRegisterRequest(k) ELSE HandleMessageTransfer(k)
    /\ UNCHANGED <<conn, index, bounds, last, calm>>

\* the table keeps the socket
ProxySeesEnd(k) ==
    /\ link[k].far = "open" /\ link[k].up = <<>> /\ (link[k].cut \/ link[k].near = "shut")
    /\ link' = [link EXCEPT ![k] = ShutFar(@)]
    /\ UNCHANGED <<conn, index, sock, message, bounds, last, calm>>

-----------------------------------------------------------------------------
(* Faults.                                                                 *)

Fault ==
    /\ bounds.faults < MaxFaults
    /\ bounds' = [bounds EXCEPT !.faults = @ + 1]
    /\ calm' = {}
    /\ UNCHANGED <<conn, index, message, last>>

OnSocketConnectFail(k) ==
    /\ link[k].near = "connecting"
    /\ Fault
    /\ link' = [link EXCEPT ![k] = NoneLink]
    /\ UNCHANGED sock

Cut(k) ==
    /\ "open" \in {link[k].near, link[k].far} /\ ~link[k].cut
    /\ Fault
    /\ link' = [link EXCEPT ![k].cut = TRUE, ![k].up = <<>>, ![k].down = <<>>]
    /\ UNCHANGED sock

\* InitSocketMapFromServerConfig: the table is as large as before, and empty
RestartProxy(p) ==
    /\ Fault
    /\ link' = [k \in Link |-> IF k[2] = p THEN LoseFar(link[k]) ELSE link[k]]
    /\ sock' = [sock EXCEPT ![p] = [s \in Server |-> NoLink]]

-----------------------------------------------------------------------------
\* OnInitSocket: a server has connected and registered before its loop starts
LinkInit ==
    /\ conn = [s \in Server |-> [p \in ProxyId |-> 1]]
    /\ index = [s \in Server |-> 0]
    /\ sock = [p \in ProxyId |-> [s \in Server |-> NoLink]]
    /\ link = [k \in Link |-> IF k[3] = 1 THEN [NewLink EXCEPT !.near = "open", !.up = <<Register>>]
                              ELSE NoneLink]
    /\ message = [m \in Message |-> [kind |-> "none", dst |-> 0, got |-> [s \in Server |-> 0]]]
    /\ bounds = [faults |-> 0, slow |-> 0]
    /\ last = [s \in Server |-> [message |-> 0, pause |-> FALSE, by |-> 0, link |-> NoLink]]
    /\ calm = {}

ServerStep(k) == OnSocketConnect(k) \/ ServerReads(k) \/ ServerSeesEnd(k)
ProxyStep(k) == ProxyAccepts(k) \/ ProxyReads(k) \/ ProxySeesEnd(k)

LinkNext ==
    \/ \E s \in Server : OnConnectionCheck(s)
    \/ \E s, dst \in Server, m \in Message, pause \in Pauses, kind \in {"id", "broadcast", "random", "except"} :
           ConnectionSendBySequence(s, m, pause, kind, dst)
    \/ \E k \in Link : ServerStep(k) \/ ProxyStep(k) \/ OnSocketConnectFail(k) \/ Cut(k)
    \/ \E p \in ProxyId : RestartProxy(p)

\* Timers and loops run, and a connect that is not answered ends.
LinkFairness ==
    /\ \A s \in Server : WF_linkVars(OnConnectionCheck(s))
    /\ \A k \in Link : WF_linkVars(ServerStep(k)) /\ WF_linkVars(ProxyStep(k))

LinkSpec == LinkInit /\ [][LinkNext]_linkVars /\ LinkFairness

-----------------------------------------------------------------------------
(* Properties.                                                             *)

ProxyTypeOK ==
    /\ conn \in [Server -> [ProxyId -> 1..Links]] /\ sock \in [ProxyId -> [Server -> 0..Links]]
    /\ index \in [Server -> ProxyId]
    /\ \A k \in Link :
           /\ link[k].near \in {"connecting", "open", "shut"}
           /\ link[k].far \in {"none", "open", "shut"}
           /\ link[k].up \in Seq(Message \cup {Register}) /\ link[k].down \in Seq(Message)
    /\ \A m \in Message : message[m].got \in [Server -> Nat]
    /\ bounds.faults \in 0..MaxFaults /\ bounds.slow \in 0..MaxSlow

\* A proxy has no open socket of a server besides the one it sends by, over late
\* connects that register after the socket that replaced them.
RegisteredIsCurrent ==
    \A s \in Server, p \in ProxyId, i \in 1..Links :
        link[s, p, i].registered /\ link[s, p, i].far = "open" => sock[p][s] = i

\* No message comes twice, over reconnections and a server's several sockets, or
\* to a server it is not for; all but a broadcast come to one server.
GotBy(m) == {s \in Server : message[m].got[s] > 0}
AtMostOnce ==
    \A m \in Message :
        /\ \A s \in Server : message[m].got[s] <= 1
        /\ message[m].kind = "id" => GotBy(m) \subseteq {message[m].dst}
        /\ message[m].kind # "broadcast" => Cardinality(GotBy(m)) <= 1

\* After the last fault every server comes to be connected and registered at
\* every proxy by the same socket, and stays so.
Settles == <>[]Settled

\* A message sent when all are connected arrives, if no fault follows: at all
\* servers, at the one, at any, or at one that is not excepted.
Arrived(m) ==
    CASE message[m].kind = "id" -> GotBy(m) = {message[m].dst}
      [] message[m].kind = "broadcast" -> GotBy(m) = Server
      [] message[m].kind = "random" -> GotBy(m) # {}
      [] OTHER -> GotBy(m) # {} /\ (Servers > 1 => message[m].dst \notin GotBy(m))
CalmArrives == []<>(\A m \in calm : Arrived(m))

\* Of two messages a server sends without a pause the second goes by the proxy of
\* the first, as long as that connection stands.
SameProxy ==
    [][\A s \in Server :
           /\ last'[s].message # last[s].message /\ ~last'[s].pause
           /\ last[s].message # 0 /\ Connected(s, last[s].by) /\ conn[s][last[s].by] = last[s].link
           => last'[s].by = last[s].by]_linkVars
=============================================================================
