--------------------------- MODULE StreamConnect ---------------------------
(***************************************************************************)
(* Opening, accepting and closing streams: the application's stream        *)
(* objects (lib/stream.cpp), the base streams behind them                  *)
(* (lib/base_stream.cpp) and the servers that listen for services          *)
(* (lib/server.cpp, include/sss/internal/stream_host_state.h).             *)
(*                                                                         *)
(* Stream n has two ends, <<n, "near">> at the host that opened it and     *)
(* <<n, "far">> at its peer.  An end is a base_stream; Other(e) is what    *)
(* the packets of e reach.  The handlers of incoming packets are disabled  *)
(* at this commit: that the first packet of a stream, a service request or *)
(* a reply arrives is a step of the environment, and what the code does    *)
(* then is rx_substream, got_service_request and got_service_reply.  A     *)
(* stream is its own unique id; the receive side's table of 16-bit stream  *)
(* ids, the counter that rx_substream derives, which nothing reads, and    *)
(* the signals of link status are left out.                                *)
(***************************************************************************)
EXTENDS PeerLookup, Integers, Sequences

CONSTANTS
    Services,   \* pairs of service and protocol name
    Servers,    \* server objects
    Users,      \* the application's stream objects
    Modes,      \* the listen modes an application asks for
    Shutdowns,  \* the ways in which it shuts streams down
    MaxStreams, \* bound on the streams opened
    None        \* a null pointer

ASSUME NoneIsNothing ==
    /\ None \notin Peers \cup Services \cup Servers \cup Users
    /\ None \notin (1..MaxStreams) \X {"near", "far"}
ASSUME StreamBound == MaxStreams \in Nat
ASSUME ModesExist ==
    /\ Modes \subseteq {"reject", "unlimited", "inherit"}
    /\ Shutdowns \subseteq {"read", "write", "close", "reset"}

VARIABLES
    streams,    \* the streams opened: peer, service, and the end it is a child of
    ends,       \* the base stream at each end
    user,       \* stream_ of every stream object
    listeners,  \* listeners_ of the host of every peer
    conns,      \* received_connections_ of every server
    replies,    \* the service reply written at the far end of every stream
    handed      \* history: the server every stream was handed to

serviceVars == <<listeners, conns, replies, handed>>
connectVars == <<streams, ends, user, serviceVars>>
vars == <<connectVars, lookupVars>>

Ends == (1..MaxStreams) \X {"near", "far"}
Near(n) == <<n, "near">>
Far(n) == <<n, "far">>
Other(e) == IF e[2] = "near" THEN Far(e[1]) ELSE Near(e[1])

\* stream_ of a stream object that has no stream.
Null == <<0, "null">>

\* base_stream::state, with "none" for an end that is not constructed.
States == {"none", "created", "wait_service", "accepting", "connected", "disconnected"}
\* stream::listen_mode: unlimited, alone or with the flag inherit.
ListenModes == {"reject", "unlimited", "inherit"}

NoEnd == [st |-> "none", owner |-> None, endRead |-> FALSE, listen |-> "reject", subs |-> <<>>]

\* The base_stream constructor: a child inherits its parent's listen mode.
NewEnd(parent) ==
    [NoEnd EXCEPT !.st = "created",
                  !.listen = IF parent # None /\ ends[parent].listen = "inherit"
                             THEN "inherit" ELSE "reject"]

Init ==
    /\ LookupInit
    /\ streams = <<>>
    /\ ends = [e \in Ends |-> NoEnd]
    /\ user = [u \in Users |-> Null]
    /\ listeners = [ps \in Peers \X Services |-> None]
    /\ conns = [v \in Servers |-> <<>>]
    /\ replies = [n \in 1..MaxStreams |-> "none"]
    /\ handed = [n \in 1..MaxStreams |-> None]

-----------------------------------------------------------------------------
(* Stream objects.                                                         *)

IsLinkUp(b) == b.st = "connected"

\* base_stream::shutdown.  Closing for writing has no effect at this commit.
Shut(b, mode) ==
    IF mode = "reset" THEN [b EXCEPT !.st = "disconnected"]
    ELSE IF IsLinkUp(b) /\ mode \in {"read", "close"} THEN [b EXCEPT !.endRead = TRUE]
    ELSE b

\* Mutant: the base stream keeps its link back to the stream object.
Released_KeepOwner(u) ==
    IF user[u] = Null THEN ends
    ELSE [ends EXCEPT ![user[u]] = Shut(@, "close")]

\* The ends after stream::disconnect of a stream object.
Released(u) ==
    IF user[u] = Null THEN ends
    ELSE [ends EXCEPT ![user[u]] = [Shut(@, "close") EXCEPT !.owner = None]]

\* stream::disconnect, also from ~stream.
Disconnect(u) ==
    /\ user[u] # Null
    /\ ends' = Released(u)
    /\ user' = [user EXCEPT ![u] = Null]
    /\ UNCHANGED <<streams, serviceVars>>

Shutdown(u, mode) ==
    /\ user[u] # Null
    /\ ends' = [ends EXCEPT ![user[u]] = Shut(@, mode)]
    /\ UNCHANGED <<streams, user, serviceVars>>

\* base_stream::connect_to: a new stream asks for a service and waits for the reply.
WaitForService(u) == [NewEnd(None) EXCEPT !.st = "wait_service", !.owner = u]

\* stream::connect_to: the stream object lets go of its stream and gets a new one.
ConnectTo(u, p, s, hint) ==
    LET n == Len(streams) + 1 IN
    /\ n <= MaxStreams
    /\ streams' = Append(streams, [peer |-> p, service |-> s, parent |-> None])
    /\ ends' = [Released(u) EXCEPT ![Near(n)] = WaitForService(u)]
    /\ user' = [user EXCEPT ![u] = Near(n)]
    /\ IF hint THEN AddLocationHint(p) ELSE StreamPeer(p) /\ UNCHANGED <<kex, news>>
    /\ UNCHANGED <<serviceVars, alive, hooks, connected, lookups>>

\* connect_at: another location hint for the peer of a stream, here one that
\* was opened with connect_to.
ConnectAt(u) ==
    /\ user[u] # Null /\ user[u][2] = "near" /\ streams[user[u][1]].parent = None
    /\ AddLocationHint(streams[user[u][1]].peer)
    /\ UNCHANGED <<connectVars, alive, hooks, connected, lookups>>

\* stream::create, for a base stream that has no owner: a new stream object.
Adopt(u, e) ==
    /\ user[u] = Null
    /\ user' = [user EXCEPT ![u] = e]

-----------------------------------------------------------------------------
(* Substreams.                                                             *)

Listen(u, mode) ==
    /\ user[u] # Null
    /\ ends' = [ends EXCEPT ![user[u]].listen = mode]
    /\ UNCHANGED <<streams, user, serviceVars>>

\* base_stream::open_substream: a substream needs no service.
Substream(parent, child) == [NewEnd(parent) EXCEPT !.st = "connected", !.owner = child]

OpenSubstream(u, child) ==
    LET n == Len(streams) + 1 IN
    /\ user[u] # Null
    /\ n <= MaxStreams
    /\ streams' = Append(streams, [streams[user[u][1]] EXCEPT !.service = None,
                                                             !.parent = user[u]])
    /\ ends' = [ends EXCEPT ![Near(n)] = Substream(user[u], child)]
    /\ child # u /\ Adopt(child, Near(n))
    /\ UNCHANGED serviceVars

\* rx_substream: the first packet of a top-level stream reaches the root stream
\* of the channel, which always listens; that of a substream the other end of
\* its parent.
RxTopLevel(n) ==
    /\ streams[n].parent = None
    /\ ends[Far(n)].st = "none"
    /\ ends' = [ends EXCEPT ![Far(n)] = [NewEnd(None) EXCEPT !.st = "accepting"]]
    /\ UNCHANGED <<streams, user, serviceVars>>

RxSubstream(n) ==
    LET parent == Other(streams[n].parent) IN
    /\ streams[n].parent # None
    /\ ends[Far(n)].st = "none"
    /\ ends[parent].st # "none" /\ ends[parent].listen # "reject"
    /\ ends' = [ends EXCEPT ![Far(n)] = Substream(parent, None),
                            ![parent].subs = Append(@, Far(n))]
    /\ UNCHANGED <<streams, user, serviceVars>>

\* Mutant: the accepted substream stays in the queue.
AcceptSubstream_Keep(u, child) ==
    /\ user[u] # Null
    /\ ends[user[u]].subs # <<>>
    /\ LET sub == Head(ends[user[u]].subs) IN
       /\ ends' = [ends EXCEPT ![sub].owner = child]
       /\ Adopt(child, sub)
    /\ UNCHANGED <<streams, serviceVars>>

AcceptSubstream(u, child) ==
    /\ user[u] # Null
    /\ ends[user[u]].subs # <<>>
    /\ LET sub == Head(ends[user[u]].subs) IN
       /\ ends' = [ends EXCEPT ![user[u]].subs = Tail(@), ![sub].owner = child]
       /\ Adopt(child, sub)
    /\ UNCHANGED <<streams, serviceVars>>

-----------------------------------------------------------------------------
(* Services.                                                               *)

Active(v) == \E p \in Peers, s \in Services : listeners[<<p, s>>] = v

\* server::listen, once on a server, for a pair nobody listens on.
ServerListen(v, p, s) ==
    /\ ~Active(v)
    /\ listeners[<<p, s>>] = None
    /\ listeners' = [listeners EXCEPT ![<<p, s>>] = v]
    /\ UNCHANGED <<streams, ends, user, conns, replies, handed>>

\* Mutant: the reply goes out before the listener is looked up.
Serve_ReplyFirst(n) ==
    LET srv == listeners[<<streams[n].peer, streams[n].service>>] IN
    /\ replies' = [replies EXCEPT ![n] = "ok"]
    /\ IF srv = None
       THEN ends' = [ends EXCEPT ![Far(n)].st = "disconnected"] /\ UNCHANGED <<conns, handed>>
       ELSE /\ ends' = [ends EXCEPT ![Far(n)].st = "connected"]
            /\ conns' = [conns EXCEPT ![srv] = Append(@, Far(n))]
            /\ handed' = [handed EXCEPT ![n] = srv]

\* A request for a service is answered, and the stream handed to the server.
Serve(n) ==
    LET srv == listeners[<<streams[n].peer, streams[n].service>>] IN
    IF srv = None
    THEN /\ ends' = [ends EXCEPT ![Far(n)].st = "disconnected"]
         /\ replies' = [replies EXCEPT ![n] = "not_found"]
         /\ UNCHANGED <<conns, handed>>
    ELSE /\ ends' = [ends EXCEPT ![Far(n)].st = "connected"]
         /\ conns' = [conns EXCEPT ![srv] = Append(@, Far(n))]
         /\ handed' = [handed EXCEPT ![n] = srv]
         /\ replies' = [replies EXCEPT ![n] = "ok"]

GotServiceRequest(n) ==
    /\ ends[Far(n)].st = "accepting"
    /\ Serve(n)
    /\ UNCHANGED <<streams, user, listeners>>

\* The record is not a service request: the stream fails.
GotBadRequest(n) ==
    /\ ends[Far(n)].st = "accepting"
    /\ ends' = [ends EXCEPT ![Far(n)].st = "disconnected"]
    /\ UNCHANGED <<streams, user, serviceVars>>

\* Mutant: the status of the reply becomes the state of the stream.
GotServiceReply_RawStatus(n) ==
    /\ ends[Near(n)].st = "wait_service"
    /\ replies[n] # "none"
    /\ ends' = [ends EXCEPT ![Near(n)].st = replies[n]]
    /\ UNCHANGED <<streams, user, serviceVars>>

\* The reply makes or breaks the stream, owned by then or not.
GotServiceReply(n) ==
    /\ ends[Near(n)].st = "wait_service"
    /\ replies[n] # "none"
    /\ ends' = [ends EXCEPT ![Near(n)].st =
                    IF replies[n] = "ok" THEN "connected" ELSE "disconnected"]
    /\ UNCHANGED <<streams, user, serviceVars>>

\* server::accept
Accept(v, u) ==
    /\ conns[v] # <<>>
    /\ Adopt(u, Head(conns[v]))
    /\ ends' = [ends EXCEPT ![Head(conns[v])].owner = u]
    /\ conns' = [conns EXCEPT ![v] = Tail(@)]
    /\ UNCHANGED <<streams, listeners, replies, handed>>

-----------------------------------------------------------------------------
\* The steps of the application, other than ConnectTo.
AppNext ==
    \E u \in Users :
        \/ Disconnect(u)
        \/ \E mode \in Shutdowns : Shutdown(u, mode)
        \/ \E mode \in Modes : Listen(u, mode)
        \/ \E child \in Users : OpenSubstream(u, child) \/ AcceptSubstream(u, child)
        \/ \E v \in Servers : Accept(v, u)

\* The steps that packets bring about.
RxNext ==
    \E n \in DOMAIN streams :
        \/ RxTopLevel(n) \/ RxSubstream(n)
        \/ GotServiceRequest(n) \/ GotBadRequest(n) \/ GotServiceReply(n)

ServerNext == \E v \in Servers, p \in Peers, s \in Services : ServerListen(v, p, s)

Next ==
    \/ (AppNext \/ RxNext \/ ServerNext) /\ UNCHANGED lookupVars
    \/ \E u \in Users, p \in Peers, s \in Services, hint \in BOOLEAN : ConnectTo(u, p, s, hint)
    \/ \E u \in Users : ConnectAt(u)
    \/ LookupNext /\ UNCHANGED connectVars

Spec == Init /\ [][Next]_vars

-----------------------------------------------------------------------------
\* The type of every variable.
TypeOK ==
    /\ Len(streams) <= MaxStreams
    /\ \A n \in DOMAIN streams :
          streams[n].peer \in Peers /\ streams[n].service \in Services \cup {None}
    /\ \A e \in Ends : /\ ends[e].st \in States /\ ends[e].listen \in ListenModes
                       /\ ends[e].owner \in Users \cup {None}
    /\ \A u \in Users : user[u] \in Ends \cup {Null}
    /\ \A p \in Peers, s \in Services : listeners[<<p, s>>] \in Servers \cup {None}

\* A stream object and its base stream point at each other and at nobody else,
\* through reconnecting, accepting and destroying: a signal of a base stream
\* (link up, link down, error) never reaches a stream object that has moved on.
OwnerExact ==
    /\ \A u \in Users : user[u] # Null => ends[user[u]].owner = u
    /\ \A e \in Ends : ends[e].owner # None => user[ends[e].owner] = e

\* Where an incoming stream waits to be accepted: servers and parent streams.
Waiting(e) ==
    {v \in Servers : \E i \in DOMAIN conns[v] : conns[v][i] = e}
        \cup {p \in Ends : \E i \in DOMAIN ends[p].subs : ends[p].subs[i] = e}

\* An incoming stream is handed over once: it waits in one queue at one place,
\* and nobody owns it while it waits.
HandedOnce ==
    /\ \A e \in Ends : /\ Cardinality(Waiting(e)) <= 1
                       /\ Waiting(e) # {} => ends[e].owner = None
    /\ \A v \in Servers : \A i, j \in DOMAIN conns[v] : conns[v][i] = conns[v][j] => i = j
    /\ \A p \in Ends : \A i, j \in DOMAIN ends[p].subs :
          ends[p].subs[i] = ends[p].subs[j] => i = j

\* Both ends agree: a stream that the service has confirmed exists at the far
\* end and was given to the server that listens for this service there.
ConnectedMeansServed ==
    \A n \in DOMAIN streams :
        streams[n].parent = None /\ ends[Near(n)].st = "connected" =>
            /\ ends[Far(n)].st \in {"connected", "disconnected"}
            /\ handed[n] # None
            /\ handed[n] = listeners[<<streams[n].peer, streams[n].service>>]
=============================================================================
