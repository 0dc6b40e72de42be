---------------------------- MODULE ConfigCenter ----------------------------
(***************************************************************************)
(* The config center and the servers that ask it.  The center reads its    *)
(* files when it starts.  A server asks for its own configuration and the  *)
(* game configuration when it starts, and whenever it connects again: one  *)
(* handler with two blocking calls, between which anything may happen.     *)
(*                                                                         *)
(* A configuration is a version: the edit it came with.  A server is known *)
(* by type and id.  A connect ends before the next check (Proxy has those  *)
(* that do not), and the center is listed in its own file.                 *)
(***************************************************************************)
EXTENDS Naturals, FiniteSets

CONSTANTS
    Asker,          \* the servers that ask
    GameServer,     \* those of them that are game servers
    MaxEdits,       \* bound: edits of the files
    MaxTroubles     \* bound: ends of processes, wires cut, calls timed out

ASSUME AskerAssumption == GameServer \subseteq Asker /\ MaxEdits \in Nat /\ MaxTroubles \in Nat

Nothing == 0               \* not listed; an empty list
Version == 0..(MaxEdits + 1)
GameList == {"tables", "dirty_words"}
NoAnswer == [to |-> "none"]

VARIABLES
    files,     \* deploy.cfg and the tables, as they are edited
    center,    \* _deploy_config and _game_config of the center
    asker,     \* _server_config and _game_config of each server, and where it is
    wire,      \* _conn_scok[0] of each server, and what is under way
    counts     \* edits and troubles so far

configVars == <<files, center, asker, wire, counts>>

NoWire == [near |-> "shut", far |-> "gone", ask |-> "none", answer |-> NoAnswer]
AskedWire == [near |-> "open", far |-> "open", ask |-> "server", answer |-> NoAnswer]

-----------------------------------------------------------------------------
(* The files and the center.                                               *)

\* an edit of deploy.cfg that lists, changes or drops some servers, or one of a
\* table: dirty_words are for all, the rows of tables are for one server each
Edit ==
    /\ counts.edits < MaxEdits
    /\ counts' = [counts EXCEPT !.edits = @ + 1]
    /\ \E v \in {Nothing, counts.edits + 2} :
           \/ \E some \in SUBSET Asker \ {{}} :
                  files' = [files EXCEPT !.server = [a \in Asker |-> IF a \in some THEN v ELSE @[a]]]
           \/ \E a \in GameServer : files' = [files EXCEPT !.game[a].tables = v]
           \/ files' = [files EXCEPT !.game = [a \in GameServer |-> [@[a] EXCEPT !.dirty_words = v]]]
    /\ UNCHANGED <<center, asker, wire>>

\* ReloadGameConfig: whether the tables can be read; its result is ignored
InitFromFile(readable) ==
    [up |-> TRUE, server |-> files.server,
     game |-> IF readable THEN files.game
              ELSE [a \in GameServer |-> [l \in GameList |-> Nothing]]]

CenterStart ==
    /\ ~center.up
    /\ \E readable \in BOOLEAN : center' = InitFromFile(readable)
    /\ UNCHANGED <<files, asker, wire, counts>>

Trouble ==
    /\ counts.troubles < MaxTroubles
    /\ counts' = [counts EXCEPT !.troubles = @ + 1]
    /\ UNCHANGED files

\* an answer already sent still arrives
FarGone(w) == [w EXCEPT !.far = "gone", !.ask = "none"]

CenterEnd ==
    /\ center.up /\ Trouble
    /\ center' = [center EXCEPT !.up = FALSE]
    /\ wire' = [a \in Asker |-> FarGone(wire[a])]
    /\ UNCHANGED asker

\* GetServerConfig: not found, if the server is not listed
GetServerConfig(a) == [to |-> "server", config |-> center.server[a]]

\* GetGameConfig: nothing for other types
GetGameConfig(a) ==
    [to |-> "game",
     config |-> IF a \in GameServer THEN center.game[a] ELSE [l \in GameList |-> Nothing]]

\* OnConnectionMessage of the center
HandleGetConfig(a) ==
    /\ wire[a].far = "open" /\ wire[a].ask # "none"
    /\ wire' = [wire EXCEPT
           ![a].ask = "none",
           ![a].answer = IF wire[a].ask = "server" THEN GetServerConfig(a) ELSE GetGameConfig(a)]
    /\ UNCHANGED <<files, center, asker, counts>>

-----------------------------------------------------------------------------
(* A server.                                                               *)

NewAsker ==
    [at |-> "down", runs |-> FALSE, server |-> Nothing, game |-> [l \in GameList |-> Nothing]]

\* OnInitConfigService: connects, or does not start
AskerStart(a) ==
    /\ asker[a].at = "down" /\ center.up
    /\ asker' = [asker EXCEPT ![a].at = "server"]
    /\ wire' = [wire EXCEPT ![a] = AskedWire]
    /\ UNCHANGED <<files, center, counts>>

\* OnConnectionCheck, and the OnSocketConnect of the connect it begins
AskAgain(a) ==
    /\ asker[a].at = "loop" /\ wire[a].near = "shut" /\ center.up
    /\ asker' = [asker EXCEPT ![a].at = "server"]
    /\ wire' = [wire EXCEPT ![a] = AskedWire]
    /\ UNCHANGED <<files, center, counts>>

\* mutant: keeps a list it has
GameConfigMergeKeeps(old, new) == [l \in GameList |-> IF old[l] # Nothing THEN old[l] ELSE new[l]]

\* a list that is empty at the center replaces nothing
GameConfigMerge(old, new) == [l \in GameList |-> IF new[l] = Nothing THEN old[l] ELSE new[l]]

\* mutant: a failed second call leaves the connection as it is
AfterFailureKeepsGame(a) ==
    /\ asker' = [asker EXCEPT ![a] = IF @.runs THEN [@ EXCEPT !.at = "loop"] ELSE NewAsker]
    /\ wire' = [wire EXCEPT ![a] = IF asker[a].at = "game" /\ asker[a].runs THEN @ ELSE NoWire]

\* the end of OnConnectionCreate by ConnectionClose; at the start it is that of
\* the process
AfterFailure(a) ==
    /\ asker' = [asker EXCEPT ![a] = IF @.runs THEN [@ EXCEPT !.at = "loop"] ELSE NewAsker]
    /\ wire' = [wire EXCEPT ![a] = NoWire]

\* InitServerConfig has its answer: what follows is InitGameConfig's question
InitServerConfig(a) ==
    /\ asker[a].at = "server" /\ wire[a].answer.to = "server"
    /\ IF wire[a].answer.config = Nothing THEN AfterFailure(a)
       ELSE /\ asker' = [asker EXCEPT ![a].server = wire[a].answer.config, ![a].at = "game"]
            /\ wire' = [wire EXCEPT ![a].answer = NoAnswer,
                                    ![a].ask = IF wire[a].far = "open" THEN "game" ELSE "none"]
    /\ UNCHANGED <<files, center, counts>>

\* InitGameConfig has its answer.  The check of type and id cannot fail: the
\* configuration was found by them.  At the start OnInitSocket gives up when the
\* end of the connection was read with the answer.
InitGameConfig(a) ==
    /\ asker[a].at = "game" /\ wire[a].answer.to = "game"
    /\ \/ /\ asker' = [asker EXCEPT ![a].game = GameConfigMerge(@, wire[a].answer.config),
                                     ![a].at = "loop", ![a].runs = TRUE]
          /\ wire' = [wire EXCEPT ![a].answer = NoAnswer]
       \/ ~asker[a].runs /\ wire[a].far = "gone" /\ AfterFailure(a)
    /\ UNCHANGED <<files, center, counts>>

Waits(a) == asker[a].at \in {"server", "game"} /\ wire[a].answer = NoAnswer

\* SendAndRecv finds the connection gone
CallFails(a) ==
    /\ Waits(a) /\ wire[a].far = "gone"
    /\ AfterFailure(a)
    /\ UNCHANGED <<files, center, counts>>

\* SendAndRecv gives up after a second
CallTimesOut(a) ==
    /\ Waits(a) /\ wire[a].far = "open"
    /\ Trouble /\ AfterFailure(a)
    /\ UNCHANGED center

\* OnSocketPeerClose, or a read error
SeesEnd(a) ==
    /\ asker[a].at = "loop" /\ wire[a].near = "open" /\ wire[a].far = "gone"
    /\ wire' = [wire EXCEPT ![a] = NoWire]
    /\ UNCHANGED <<files, center, asker, counts>>

CutWire(a) ==
    /\ wire[a].far = "open" /\ Trouble
    /\ wire' = [wire EXCEPT ![a] = [FarGone(@) EXCEPT !.answer = NoAnswer]]
    /\ UNCHANGED <<center, asker>>

AskerEnd(a) ==
    /\ asker[a].at # "down" /\ Trouble
    /\ asker' = [asker EXCEPT ![a] = NewAsker]
    /\ wire' = [wire EXCEPT ![a] = NoWire]
    /\ UNCHANGED center

-----------------------------------------------------------------------------
ConfigInit ==
    /\ files = [server |-> [a \in Asker |-> 1], game |-> [a \in GameServer |-> [l \in GameList |-> 1]]]
    /\ center = [up |-> FALSE, server |-> [a \in Asker |-> Nothing],
                 game |-> [a \in GameServer |-> [l \in GameList |-> Nothing]]]
    /\ asker = [a \in Asker |-> NewAsker]
    /\ wire = [a \in Asker |-> NoWire]
    /\ counts = [edits |-> 0, troubles |-> 0]

\* what a server in its loop does, and what it waits for
Asks(a) == AskAgain(a) \/ HandleGetConfig(a) \/ InitServerConfig(a) \/ InitGameConfig(a)
Notices(a) == CallFails(a) \/ SeesEnd(a)

ConfigNext ==
    \/ Edit \/ CenterStart \/ CenterEnd
    \/ \E a \in Asker :
           Asks(a) \/ Notices(a) \/ AskerStart(a) \/ CallTimesOut(a) \/ CutWire(a) \/ AskerEnd(a)

\* Loops run, the reconnect timer too; nobody need start a process.
ConfigFairness == \A a \in Asker : WF_configVars(Asks(a)) /\ WF_configVars(Notices(a))

ConfigSpec == ConfigInit /\ [][ConfigNext]_configVars /\ ConfigFairness

-----------------------------------------------------------------------------
(* Properties.                                                             *)

GameConfig == [GameList -> Version]

Answer ==
    {NoAnswer} \cup [to : {"server"}, config : Version] \cup [to : {"game"}, config : GameConfig]

ConfigTypeOK ==
    /\ files \in [server : [Asker -> Version], game : [GameServer -> GameConfig]]
    /\ center \in [up : BOOLEAN, server : [Asker -> Version], game : [GameServer -> GameConfig]]
    /\ asker \in [Asker -> [at : {"down", "server", "game", "loop"}, runs : BOOLEAN,
                            server : Version, game : GameConfig]]
    /\ wire \in [Asker -> [near : {"open", "shut"}, far : {"open", "gone"},
                           ask : {"none", "server", "game"}, answer : Answer]]
    /\ counts \in [edits : 0..MaxEdits, troubles : 0..MaxTroubles]

\* what the center has for a server: its configuration, and every list not empty
Holds(a) ==
    /\ asker[a].server = center.server[a]
    /\ a \in GameServer =>
           \A l \in GameList : center.game[a][l] # Nothing => asker[a].game[l] = center.game[a][l]

\* A server whose connection to the center stands and that is back in its loop
\* holds what the center has loaded, through ends of either between the two calls.
ConnectedIsCurrent ==
    \A a \in Asker : asker[a].at = "loop" /\ wire[a].near = "open" /\ wire[a].far = "open" => Holds(a)

\* After the last trouble every running server that is listed comes to hold what
\* the center has loaded, however its calls failed before.
ConfigArrives ==
    <>[](\A a \in Asker : center.up /\ asker[a].runs /\ center.server[a] # Nothing => Holds(a))
=============================================================================
