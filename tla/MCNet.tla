------------------------------- MODULE MCNet -------------------------------
(***************************************************************************)
(* One part of the communication below the services, for TLC: the threads  *)
(* that perform HTTP requests, the event loop under an accepting service,  *)
(* the links of servers and proxies, or the config center.  kind chooses   *)
(* it at the start, and the others stay as they begin.                     *)
(***************************************************************************)
EXTENDS CurlThread, EventLoop, Proxy, ConfigCenter

VARIABLE kind

netVars == <<curlVars, loopVars, linkVars, configVars, kind>>

MCInit ==
    /\ kind \in {"curl", "loop", "links", "config"}
    /\ CurlInit /\ LoopInit /\ LinkInit /\ ConfigInit

MCNext ==
    /\ UNCHANGED kind
    /\ \/ kind = "curl" /\ CurlNext /\ UNCHANGED <<loopVars, linkVars, configVars>>
       \/ kind = "loop" /\ LoopNext /\ UNCHANGED <<curlVars, linkVars, configVars>>
       \/ kind = "links" /\ LinkNext /\ UNCHANGED <<curlVars, loopVars, configVars>>
       \/ kind = "config" /\ ConfigNext /\ UNCHANGED <<curlVars, loopVars, linkVars>>

\* the fairness of each, where it is the one
MCSpec ==
    /\ MCInit /\ [][MCNext]_netVars
    /\ WF_curlVars(kind = "curl" /\ ProcessOnTick)
    /\ \A w \in Worker : WF_curlVars(kind = "curl" /\ ProcessWorker(w))
    /\ kind = "loop" => Turning
    /\ \A s \in Server : WF_linkVars(kind = "links" /\ OnConnectionCheck(s))
    /\ \A k \in Link :
           /\ WF_linkVars(kind = "links" /\ ServerStep(k))
           /\ WF_linkVars(kind = "links" /\ ProxyStep(k))
    /\ \A a \in Asker :
           /\ WF_configVars(kind = "config" /\ Asks(a))
           /\ WF_configVars(kind = "config" /\ Notices(a))

\* Settles, where the links are what runs: otherwise they never register.
LinksSettle == kind = "links" => Settles

TypeOK == CurlTypeOK /\ EventTypeOK /\ ProxyTypeOK /\ ConfigTypeOK
=============================================================================
