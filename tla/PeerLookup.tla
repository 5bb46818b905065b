----------------------------- MODULE PeerLookup -----------------------------
(***************************************************************************)
(* Finding a peer (lib/stream_peer.cpp): the lookups that a stream_peer    *)
(* has asked of routing clients, the signals it has connected to, and the  *)
(* table of peers of a host (include/sss/internal/stream_host_state.h).    *)
(*                                                                         *)
(* Routing clients and key exchanges are external: a client is created and *)
(* destroyed at any time, answers any lookup, late or twice, and announces *)
(* itself as ready; a key exchange ends some time after it was started and *)
(* tells of its end itself.  reconnect_timer_ has no handler: all that its *)
(* start leaves behind is that a report is due.                            *)
(***************************************************************************)
EXTENDS FiniteSets

CONSTANTS
    Peers,      \* peer identities
    Clients     \* addresses of routing client objects

VARIABLES
    peers,      \* peers_: the peers that have a stream_peer object
    alive,      \* the routing clients that exist
    hooks,      \* the handlers connected to the signals of clients
    connected,  \* connected_routing_clients_ of every peer
    lookups,    \* lookups_ of every peer
    kex,        \* key_exchanges_initiated_ of a peer is not empty
    news        \* history: what became of the last search for a peer

lookupVars == <<peers, alive, hooks, connected, lookups, kex, news>>

\* A search is going on, was reported as failed by on_channel_failed, should be
\* reported by reconnect_timer_, or was left to a key exchange, now over.
News == {"none", "searching", "failed", "due", "exchanged"}

LookupInit ==
    /\ peers = {} /\ alive = {} /\ hooks = {}
    /\ connected = [p \in Peers |-> {}]
    /\ lookups = [p \in Peers |-> {}]
    /\ kex = [p \in Peers |-> FALSE]
    /\ news = [p \in Peers |-> "none"]

\* stream_host_state::stream_peer creates the peer, if it must.
StreamPeer(p) == peers' = peers \cup {p}

\* peer::add_location_hint: a key exchange with the endpoint.
AddLocationHint(p) ==
    /\ StreamPeer(p)
    /\ kex' = [kex EXCEPT ![p] = TRUE]
    /\ news' = [news EXCEPT ![p] = "searching"]

CreateClient(rc) ==
    /\ rc \notin alive
    /\ alive' = alive \cup {rc}
    /\ UNCHANGED <<peers, hooks, connected, lookups, kex, news>>

KexEnds(p) ==
    /\ kex[p]
    /\ kex' = [kex EXCEPT ![p] = FALSE]
    /\ news' = [news EXCEPT ![p] = IF lookups[p] = {} THEN "exchanged" ELSE @]
    /\ UNCHANGED <<peers, alive, hooks, connected, lookups>>

\* connect_routing_client: once for every client.
ConnectRoutingClient(p, rc) ==
    IF rc \in connected[p] THEN UNCHANGED <<connected, hooks>>
    ELSE /\ connected' = [connected EXCEPT ![p] = @ \cup {rc}]
         /\ hooks' = hooks \cup {<<p, rc>>}

RoutingClientReady(p, rc) ==
    /\ p \in peers /\ rc \in alive
    /\ rc \notin lookups[p]
    /\ ConnectRoutingClient(p, rc)
    /\ lookups' = [lookups EXCEPT ![p] = @ \cup {rc}]
    /\ news' = [news EXCEPT ![p] = "searching"]
    /\ UNCHANGED <<peers, alive, kex>>

\* Mutant: the test comes before the lookup is marked as completed.
LookupFailed_TestFirst(p, rc) ==
    /\ lookups' = [lookups EXCEPT ![p] = @ \ {rc}]
    /\ news' = [news EXCEPT ![p] = IF lookups[p] = {} /\ ~kex[p] THEN "failed" ELSE @]
    /\ UNCHANGED <<peers, kex>>

\* A lookup failed: report it, unless there is still hope.
LookupFailed(p, rc) ==
    /\ lookups' = [lookups EXCEPT ![p] = @ \ {rc}]
    /\ news' = [news EXCEPT ![p] = IF lookups'[p] = {} /\ ~kex[p] THEN "failed" ELSE @]
    /\ UNCHANGED <<peers, kex>>

LookupFound(p, rc) ==
    /\ lookups' = [lookups EXCEPT ![p] = @ \ {rc}]
    /\ AddLocationHint(p)

\* lookup_done: every peer that listens to the client hears the answer; the
\* ones it is not about, and a peer that did not ask, ignore it.
LookupDone(p, rc) ==
    /\ <<p, rc>> \in hooks
    /\ rc \in lookups[p]
    /\ LookupFailed(p, rc) \/ LookupFound(p, rc)
    /\ UNCHANGED <<alive, hooks, connected>>

\* Mutant: the client stays among the ones connected to.
Forget_KeepConnected(rc) ==
    /\ lookups' = [p \in Peers |-> IF <<p, rc>> \in hooks THEN lookups[p] \ {rc} ELSE lookups[p]]
    /\ UNCHANGED connected

\* regclient_destroyed, at every peer connected to the client.
Forget(rc) ==
    LET Rest(S) == [p \in Peers |-> IF <<p, rc>> \in hooks THEN S[p] \ {rc} ELSE S[p]]
    IN  lookups' = Rest(lookups) /\ connected' = Rest(connected)

\* The other half of regclient_destroyed: a peer left without any hope starts
\* reconnect_timer_, which should tell the streams that still wait.
StartReconnectTimer(rc) ==
    LET Hopeless(p) == <<p, rc>> \in hooks /\ lookups'[p] = {} /\ ~kex[p]
    IN  news' = [p \in Peers |-> IF Hopeless(p) /\ news[p] = "searching" THEN "due" ELSE news[p]]

\* A routing client goes away, and its signals with it.
DestroyClient(rc) ==
    /\ rc \in alive
    /\ alive' = alive \ {rc}
    /\ Forget(rc)
    /\ StartReconnectTimer(rc)
    /\ hooks' = {h \in hooks : h[2] # rc}
    /\ UNCHANGED <<peers, kex>>

LookupNext ==
    \/ \E rc \in Clients : CreateClient(rc) \/ DestroyClient(rc)
    \/ \E p \in Peers, rc \in Clients : RoutingClientReady(p, rc) \/ LookupDone(p, rc)
    \/ \E p \in Peers : KexEnds(p)

-----------------------------------------------------------------------------
\* Every lookup under way will be heard of, and no pointer to a routing client
\* outlives it: a peer has handlers at exactly the clients it has noted, all of
\* them alive, and has asked no other.  A client that is destroyed and replaced
\* by one at the same address is connected to anew.
LookupsAreHeard ==
    /\ \A p \in Peers : /\ connected[p] = {rc \in Clients : <<p, rc>> \in hooks}
                        /\ lookups[p] \subseteq connected[p]
    /\ \A h \in hooks : h[1] \in peers /\ h[2] \in alive

\* A search is never given up early and never forgotten: streams that wait for a
\* peer hear nothing while a lookup or a key exchange may still find it, and
\* when the last of them is gone, in whatever order clients answer, disappear
\* and key exchanges end, the failure is reported, or is due to be reported by
\* reconnect_timer_, or is left to the key exchange.
SearchesEnd ==
    \A p \in Peers : news[p] = "searching" <=> lookups[p] # {} \/ kex[p]
=============================================================================
