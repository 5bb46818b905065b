------------------------ MODULE StreamConnectProofs ------------------------
(***************************************************************************)
(* Proofs about modules PeerLookup and StreamConnect, for every set of     *)
(* peers, routing clients, services, servers and stream objects and every  *)
(* number of streams.                                                      *)
(***************************************************************************)
EXTENDS StreamConnect, SequenceFacts, FiniteSetTheorems, TLAPS

-----------------------------------------------------------------------------
(* Peer lookup.                                                            *)

LookupTypes ==
    /\ hooks \subseteq Peers \X Clients
    /\ connected \in [Peers -> SUBSET Clients]
    /\ lookups \in [Peers -> SUBSET Clients]
    /\ kex \in [Peers -> BOOLEAN]
    /\ news \in [Peers -> News]

LookupInv == LookupTypes /\ LookupsAreHeard /\ SearchesEnd

\* A location hint, or the creation of a peer, leaves the lookups alone and
\* begins a search.
LEMMA HintPreserves ==
    ASSUME LookupInv, NEW p, UNCHANGED <<alive, hooks, connected, lookups>>,
           AddLocationHint(p) \/ (StreamPeer(p) /\ UNCHANGED <<kex, news>>)
    PROVE  LookupInv'
<1>1. LookupTypes'
  BY DEF LookupInv, LookupTypes, AddLocationHint, News
<1>2. LookupsAreHeard'
  BY DEF LookupInv, LookupsAreHeard, AddLocationHint, StreamPeer
<1>3. SearchesEnd'
  BY DEF LookupInv, LookupTypes, SearchesEnd, AddLocationHint
<1> QED BY <1>1, <1>2, <1>3 DEF LookupInv

\* The steps of the peer and of the routing clients.
LEMMA LookupPreserves ==
    ASSUME LookupInv, LookupNext
    PROVE  LookupInv'
<1>1. ASSUME NEW rc \in Clients, CreateClient(rc)
      PROVE  LookupInv'
  BY <1>1 DEF CreateClient, LookupInv, LookupTypes, LookupsAreHeard, SearchesEnd
<1>2. ASSUME NEW rc \in Clients, DestroyClient(rc)
      PROVE  LookupInv'
  <2>0. /\ UNCHANGED <<peers, kex>>
        /\ alive' = alive \ {rc}
        /\ hooks' = {h \in hooks : h[2] # rc}
        /\ lookups' = [p \in Peers |-> IF <<p, rc>> \in hooks THEN lookups[p] \ {rc} ELSE lookups[p]]
        /\ connected' = [p \in Peers |-> IF <<p, rc>> \in hooks THEN connected[p] \ {rc} ELSE connected[p]]
    BY <1>2 DEF DestroyClient, Forget
  <2>a. \A p \in Peers : news'[p] = IF (<<p, rc>> \in hooks /\ lookups'[p] = {} /\ ~kex[p])
                                         /\ news[p] = "searching"
                                     THEN "due" ELSE news[p]
    BY <1>2 DEF DestroyClient, StartReconnectTimer
  <2>1. LookupTypes'
    <3>1. news' \in [Peers -> News]
      BY <1>2 DEF DestroyClient, StartReconnectTimer, LookupInv, LookupTypes, News
    <3> QED BY <2>0, <3>1 DEF LookupInv, LookupTypes
  <2>2. LookupsAreHeard'
    <3>1. ASSUME NEW p \in Peers
          PROVE  /\ connected'[p] = {c \in Clients : <<p, c>> \in hooks'}
                 /\ lookups'[p] \subseteq connected'[p]
      <4>1. ASSUME NEW c PROVE <<p, c>> \in hooks' <=> <<p, c>> \in hooks /\ c # rc
        BY <2>0
      <4> QED BY <2>0, <4>1 DEF LookupInv, LookupTypes, LookupsAreHeard
    <3>2. ASSUME NEW h \in hooks' PROVE h[1] \in peers' /\ h[2] \in alive'
      BY <2>0 DEF LookupInv, LookupsAreHeard
    <3> QED BY <3>1, <3>2 DEF LookupsAreHeard
  <2>3. SearchesEnd'
    <3> SUFFICES ASSUME NEW p \in Peers
                 PROVE  news'[p] = "searching" <=> lookups'[p] # {} \/ kex'[p]
      BY DEF SearchesEnd
    <3>1. news[p] = "searching" <=> lookups[p] # {} \/ kex[p]
      BY DEF LookupInv, SearchesEnd
    <3>2. CASE <<p, rc>> \in hooks
      BY <2>0, <2>a, <3>1, <3>2
    <3>3. CASE <<p, rc>> \notin hooks
      BY <2>0, <2>a, <3>1, <3>3
    <3> QED BY <3>2, <3>3
  <2> QED BY <2>1, <2>2, <2>3 DEF LookupInv
<1>3. ASSUME NEW p \in Peers, NEW rc \in Clients, RoutingClientReady(p, rc)
      PROVE  LookupInv'
  <2>0. /\ p \in peers /\ rc \in alive
        /\ lookups' = [lookups EXCEPT ![p] = @ \cup {rc}]
        /\ news' = [news EXCEPT ![p] = "searching"]
        /\ UNCHANGED <<peers, alive, kex>>
    BY <1>3 DEF RoutingClientReady
  <2>1. /\ connected' = [connected EXCEPT ![p] = @ \cup {rc}]
        /\ hooks' = hooks \cup {<<p, rc>>}
    <3>1. CASE rc \in connected[p]
      BY <1>3, <3>1 DEF RoutingClientReady, ConnectRoutingClient, LookupInv, LookupTypes, LookupsAreHeard
    <3>2. CASE rc \notin connected[p]
      BY <1>3, <3>2 DEF RoutingClientReady, ConnectRoutingClient
    <3> QED BY <3>1, <3>2
  <2>2. LookupTypes'
    BY <2>0, <2>1 DEF LookupInv, LookupTypes, News
  <2>3. LookupsAreHeard'
    BY <2>0, <2>1 DEF LookupInv, LookupTypes, LookupsAreHeard
  <2>4. SearchesEnd'
    BY <2>0 DEF LookupInv, LookupTypes, SearchesEnd
  <2> QED BY <2>2, <2>3, <2>4 DEF LookupInv
<1>4. ASSUME NEW p \in Peers, NEW rc \in Clients, LookupDone(p, rc)
      PROVE  LookupInv'
  <2>0. /\ rc \in lookups[p] /\ news[p] = "searching"
        /\ lookups' = [lookups EXCEPT ![p] = @ \ {rc}]
        /\ UNCHANGED <<alive, hooks, connected>>
    BY <1>4 DEF LookupDone, LookupFailed, LookupFound, LookupInv, SearchesEnd
  <2>1. CASE LookupFailed(p, rc)
    <3>1. /\ news' = [news EXCEPT ![p] = IF lookups'[p] = {} /\ ~kex[p] THEN "failed" ELSE @]
          /\ UNCHANGED <<peers, kex>>
      BY <2>1 DEF LookupFailed
    <3>2. LookupTypes'
      BY <2>0, <3>1 DEF LookupInv, LookupTypes, News
    <3>3. LookupsAreHeard'
      BY <2>0, <3>1 DEF LookupInv, LookupTypes, LookupsAreHeard
    <3>4. SearchesEnd'
      BY <2>0, <3>1 DEF LookupInv, LookupTypes, SearchesEnd
    <3> QED BY <3>2, <3>3, <3>4 DEF LookupInv
  <2>2. CASE LookupFound(p, rc)
    <3>1. /\ news' = [news EXCEPT ![p] = "searching"] /\ kex' = [kex EXCEPT ![p] = TRUE]
          /\ peers' = peers \cup {p}
      BY <2>2 DEF LookupFound, AddLocationHint, StreamPeer
    <3>2. LookupTypes'
      BY <2>0, <3>1 DEF LookupInv, LookupTypes, News
    <3>3. LookupsAreHeard'
      BY <2>0, <3>1 DEF LookupInv, LookupTypes, LookupsAreHeard
    <3>4. SearchesEnd'
      BY <2>0, <3>1 DEF LookupInv, LookupTypes, SearchesEnd
    <3> QED BY <3>2, <3>3, <3>4 DEF LookupInv
  <2> QED BY <1>4, <2>1, <2>2 DEF LookupDone
<1>5. ASSUME NEW p \in Peers, KexEnds(p)
      PROVE  LookupInv'
  BY <1>5 DEF KexEnds, LookupInv, LookupTypes, LookupsAreHeard, SearchesEnd, News
<1> QED BY <1>1, <1>2, <1>3, <1>4, <1>5 DEF LookupNext

LEMMA SpecLookupInv == Spec => []LookupInv
<1>1. Init => LookupInv
  BY DEF Init, LookupInit, LookupInv, LookupTypes, LookupsAreHeard, SearchesEnd, News
<1>2. LookupInv /\ [Next]_vars => LookupInv'
  <2> SUFFICES ASSUME LookupInv, [Next]_vars PROVE LookupInv'
    OBVIOUS
  <2>1. CASE UNCHANGED lookupVars
    BY <2>1 DEF lookupVars, LookupInv, LookupTypes, LookupsAreHeard, SearchesEnd
  <2>2. ASSUME NEW u \in Users, NEW p \in Peers, NEW s \in Services, NEW hint \in BOOLEAN,
               ConnectTo(u, p, s, hint)
        PROVE  LookupInv'
    BY <2>2, HintPreserves DEF ConnectTo
  <2>3. ASSUME NEW u \in Users, ConnectAt(u)
        PROVE  LookupInv'
    BY <2>3, HintPreserves DEF ConnectAt
  <2>4. CASE LookupNext
    BY <2>4, LookupPreserves
  <2> QED BY <2>1, <2>2, <2>3, <2>4 DEF Next, vars
<1> QED BY <1>1, <1>2, PTL DEF Spec

\* A peer hears of every lookup it has asked for, and keeps no pointer to a
\* routing client that is gone, whatever clients come, answer and go.
THEOREM EveryLookupIsHeard == Spec => []LookupsAreHeard
<1>1. LookupInv => LookupsAreHeard
  BY DEF LookupInv
<1> QED BY <1>1, SpecLookupInv, PTL

\* For any number of peers and clients, a search is reported as over exactly
\* when no lookup and no key exchange is left, or its report is due.
THEOREM SearchesComeToAnEnd == Spec => []SearchesEnd
<1>1. LookupInv => SearchesEnd
  BY DEF LookupInv
<1> QED BY <1>1, SpecLookupInv, PTL

-----------------------------------------------------------------------------
(* Streams, their ends and the queues they wait in.                        *)

EndRec == [st : States, owner : Users \cup {None}, endRead : BOOLEAN,
           listen : ListenModes, subs : Seq(Ends)]
StreamRec == [peer : Peers, service : Services \cup {None}, parent : Ends \cup {None}]

\* Assigning a field of a base stream leaves the others alone.
LEMMA EndFields ==
    ASSUME NEW b \in EndRec
    PROVE  /\ b.st \in States /\ b.owner \in Users \cup {None}
           /\ b.listen \in ListenModes /\ b.subs \in Seq(Ends)
           /\ \A x \in States :
                 /\ [b EXCEPT !.st = x] \in EndRec /\ [b EXCEPT !.st = x].st = x
                 /\ [b EXCEPT !.st = x].owner = b.owner /\ [b EXCEPT !.st = x].subs = b.subs
           /\ \A x \in Users \cup {None} :
                 /\ [b EXCEPT !.owner = x] \in EndRec /\ [b EXCEPT !.owner = x].owner = x
                 /\ [b EXCEPT !.owner = x].st = b.st /\ [b EXCEPT !.owner = x].subs = b.subs
           /\ \A x \in ListenModes :
                 /\ [b EXCEPT !.listen = x] \in EndRec /\ [b EXCEPT !.listen = x].owner = b.owner
                 /\ [b EXCEPT !.listen = x].st = b.st /\ [b EXCEPT !.listen = x].subs = b.subs
           /\ \A x \in Seq(Ends) :
                 /\ [b EXCEPT !.subs = x] \in EndRec /\ [b EXCEPT !.subs = x].owner = b.owner
                 /\ [b EXCEPT !.subs = x].st = b.st /\ [b EXCEPT !.subs = x].subs = x
           /\ /\ [b EXCEPT !.endRead = TRUE] \in EndRec /\ [b EXCEPT !.endRead = TRUE].owner = b.owner
              /\ [b EXCEPT !.endRead = TRUE].st = b.st /\ [b EXCEPT !.endRead = TRUE].subs = b.subs
BY Zenon DEF EndRec

\* An end that waits to be accepted.
Idle(e) == ends[e].owner = None /\ ends[e].st \in {"connected", "disconnected"}

Types ==
    /\ streams \in Seq(StreamRec) /\ Len(streams) <= MaxStreams
    /\ ends \in [Ends -> EndRec]
    /\ user \in [Users -> Ends \cup {Null}]
    /\ conns \in [Servers -> Seq(Ends)]
    /\ listeners \in [Peers \X Services -> Servers \cup {None}]
    /\ replies \in [1..MaxStreams -> {"none", "ok", "not_found"}]
    /\ handed \in [1..MaxStreams -> Servers \cup {None}]

\* Ends of streams that are not opened yet do not exist; an end that does not
\* exist, or whose service is not known yet, has no owner.
Unborn ==
    \A e \in Ends : /\ e[1] > Len(streams) => ends[e].st = "none"
                    /\ ends[e].st \in {"none", "accepting"} => ends[e].owner = None

\* Each end is in the states of its side: only the opener waits for a service,
\* and only the first packet of a top-level stream brings a request.
Sides ==
    \A n \in 1..MaxStreams :
        /\ ends[Near(n)].st # "accepting" /\ ends[Far(n)].st # "wait_service"
        /\ ends[Far(n)].st = "accepting" => streams[n].parent = None

\* A stream that is not a substream was opened for a service.
ForService ==
    \A n \in DOMAIN streams : streams[n].parent = None => streams[n].service \in Services

\* A positive reply says that the stream was handed to the server that listens,
\* and only such a reply connects a stream.
Served ==
    \A n \in 1..MaxStreams :
        /\ replies[n] # "none" => n \in DOMAIN streams /\ streams[n].parent = None
        /\ replies[n] = "ok" =>
              /\ ends[Far(n)].st \in {"connected", "disconnected"}
              /\ handed[n] # None
              /\ handed[n] = listeners[<<streams[n].peer, streams[n].service>>]
        /\ n \in DOMAIN streams /\ streams[n].parent = None /\ ends[Near(n)].st = "connected"
              => replies[n] = "ok"

\* Everything that waits in a queue is idle, and waits at one place only.
QueuesIdle ==
    /\ \A v \in Servers : \A i \in DOMAIN conns[v] : Idle(conns[v][i])
    /\ \A p \in Ends : \A i \in DOMAIN ends[p].subs : Idle(ends[p].subs[i])
QueuesApart ==
    /\ \A v, w \in Servers : \A i \in DOMAIN conns[v], j \in DOMAIN conns[w] :
          conns[v][i] = conns[w][j] => v = w /\ i = j
    /\ \A p, q \in Ends : \A i \in DOMAIN ends[p].subs, j \in DOMAIN ends[q].subs :
          ends[p].subs[i] = ends[q].subs[j] => p = q /\ i = j
    /\ \A v \in Servers, p \in Ends : \A i \in DOMAIN conns[v], j \in DOMAIN ends[p].subs :
          conns[v][i] # ends[p].subs[j]

CInv ==
    /\ Types /\ Unborn /\ OwnerExact /\ QueuesIdle /\ QueuesApart
    /\ Sides /\ ForService /\ Served

\* Steps that append to no queue keep the queues apart, and what waits in them
\* idle, if they keep idle ends idle.
LEMMA QueuesRest ==
    ASSUME CInv, Types', conns' = conns,
           \A e \in Ends : ends'[e].subs \in {ends[e].subs, <<>>},
           \A e \in Ends : Idle(e) => Idle(e)'
    PROVE  QueuesIdle' /\ QueuesApart'
<1>1. \A p \in Ends : /\ DOMAIN ends'[p].subs \subseteq DOMAIN ends[p].subs
                     /\ \A i \in DOMAIN ends'[p].subs :
                           ends'[p].subs[i] = ends[p].subs[i] /\ ends[p].subs[i] \in Ends
  <2> SUFFICES ASSUME NEW p \in Ends
               PROVE  /\ DOMAIN ends'[p].subs \subseteq DOMAIN ends[p].subs
                      /\ \A i \in DOMAIN ends'[p].subs :
                            ends'[p].subs[i] = ends[p].subs[i] /\ ends[p].subs[i] \in Ends
    OBVIOUS
  <2>1. ends[p].subs \in Seq(Ends)
    BY EndFields DEF CInv, Types
  <2>2. DOMAIN <<>> = {}
    OBVIOUS
  <2> QED BY <2>1, <2>2, SeqFacts
<1>2. \A v \in Servers : \A i \in DOMAIN conns[v] : conns[v][i] \in Ends
  BY SeqFacts DEF CInv, Types
<1>3. QueuesIdle'
  BY <1>1, <1>2 DEF CInv, QueuesIdle
<1>4. QueuesApart'
  BY <1>1 DEF CInv, QueuesApart
<1> QED BY <1>3, <1>4

\* The ends of a stream, and their names.
LEMMA EndNames ==
    /\ \A n \in 1..MaxStreams : /\ Near(n) \in Ends /\ Far(n) \in Ends
                                /\ Near(n)[1] = n /\ Far(n)[1] = n
                                /\ Near(n)[2] = "near" /\ Far(n)[2] = "far"
    /\ \A e \in Ends : /\ e[1] \in 1..MaxStreams
                       /\ e = Near(e[1]) \/ e = Far(e[1])
                       /\ Other(e) \in Ends
    /\ \A n, m \in 1..MaxStreams : /\ Near(n) # Far(m)
                                   /\ Near(n) = Near(m) => n = m
                                   /\ Far(n) = Far(m) => n = m
    /\ Null \notin Ends
<1> USE StreamBound
<1>1. \A n \in 1..MaxStreams : /\ Near(n) \in Ends /\ Far(n) \in Ends
                               /\ Near(n)[1] = n /\ Far(n)[1] = n
                               /\ Near(n)[2] = "near" /\ Far(n)[2] = "far"
  BY DEF Ends, Near, Far
<1>2. \A e \in Ends : /\ e[1] \in 1..MaxStreams
                      /\ e = Near(e[1]) \/ e = Far(e[1])
                      /\ Other(e) \in Ends
  BY DEF Ends, Near, Far, Other
<1>3. \A n, m \in 1..MaxStreams : /\ Near(n) # Far(m)
                                  /\ Near(n) = Near(m) => n = m
                                  /\ Far(n) = Far(m) => n = m
  BY DEF Near, Far
<1>4. Null \notin Ends
  BY DEF Null, Ends
<1> QED BY <1>1, <1>2, <1>3, <1>4

\* A stream object that has a stream has an existing end of an opened stream.
LEMMA Owns ==
    ASSUME CInv, NEW u \in Users, user[u] # Null
    PROVE  /\ user[u] \in Ends /\ ends[user[u]] \in EndRec /\ ends[user[u]].owner = u
           /\ ends[user[u]].st \in States \ {"none", "accepting"}
           /\ user[u][1] \in 1..Len(streams) /\ u # None
<1>1. user[u] \in Ends /\ ends[user[u]].owner = u
  BY DEF CInv, Types, OwnerExact
<1>2. u # None
  BY NoneIsNothing
<1>3. ends[user[u]] \in EndRec
  BY <1>1 DEF CInv, Types
<1>4. ends[user[u]].st \in States \ {"none", "accepting"}
  BY <1>1, <1>2, <1>3, EndFields DEF CInv, Unborn
<1>5. Len(streams) \in Nat
  BY SeqFacts DEF CInv, Types
<1>6. user[u][1] \in 1..Len(streams)
  BY <1>1, <1>4, <1>5, EndNames, StreamBound DEF CInv, Unborn
<1> QED BY <1>1, <1>2, <1>3, <1>4, <1>6

\* Shutting a stream down leaves its place and its owner alone.
LEMMA ShutFacts ==
    ASSUME NEW b \in EndRec, NEW mode
    PROVE  /\ Shut(b, mode) \in EndRec
           /\ Shut(b, mode).owner = b.owner /\ Shut(b, mode).subs = b.subs
           /\ Shut(b, mode).st \in {b.st, "disconnected"}
           /\ mode # "reset" => Shut(b, mode).st = b.st
<1>1. "disconnected" \in States
  BY DEF States
<1>2. \/ mode = "reset" /\ Shut(b, mode) = [b EXCEPT !.st = "disconnected"]
      \/ mode # "reset" /\ Shut(b, mode) = [b EXCEPT !.endRead = TRUE]
      \/ mode # "reset" /\ Shut(b, mode) = b
  BY DEF Shut
<1>3. CASE Shut(b, mode) = [b EXCEPT !.st = "disconnected"] /\ mode = "reset"
  BY <1>1, <1>3 DEF EndRec
<1>4. CASE Shut(b, mode) = [b EXCEPT !.endRead = TRUE]
  BY <1>4, EndFields
<1> QED BY <1>2, <1>3, <1>4

\* Steps that only move ends to another state: a reset or a failure, or the
\* confirmation of the service.
LEMMA StatePreserves ==
    ASSUME CInv, UNCHANGED <<streams, user, serviceVars>>,
           ends' \in [Ends -> EndRec],
           \A e \in Ends :
              /\ ends'[e].owner = ends[e].owner /\ ends'[e].subs = ends[e].subs
              /\ \/ ends'[e].st = ends[e].st
                 \/ ends[e].st # "none" /\ ends'[e].st = "disconnected"
                 \/ /\ \E n \in 1..MaxStreams : e = Near(n) /\ replies[n] = "ok"
                    /\ ends[e].st = "wait_service" /\ ends'[e].st = "connected"
    PROVE  CInv'
<1> USE DEF serviceVars
<1>1. Types'
  BY DEF CInv, Types
<1>2. Unborn'
  BY DEF CInv, Unborn
<1>3. OwnerExact'
  <2>1. \A u \in Users : user[u] \in Ends \cup {Null}
    BY DEF CInv, Types
  <2> QED BY <2>1 DEF CInv, OwnerExact
<1>4. QueuesIdle' /\ QueuesApart'
  BY <1>1, QueuesRest DEF Idle
<1>5. Sides'
  BY EndNames DEF CInv, Sides
<1>6. ForService'
  BY DEF CInv, ForService
<1>7. Served'
  BY EndNames DEF CInv, Served
<1> QED BY <1>1, <1>2, <1>3, <1>4, <1>5, <1>6, <1>7 DEF CInv

LEMMA ShutdownPreserves ==
    ASSUME CInv, NEW u \in Users, NEW mode, Shutdown(u, mode)
    PROVE  CInv'
<1>1. \A e \in Ends : ends'[e] = IF e = user[u] THEN Shut(ends[e], mode) ELSE ends[e]
  BY Owns DEF Shutdown, CInv, Types
<1>2. ends' \in [Ends -> EndRec]
  BY Owns, ShutFacts DEF Shutdown, CInv, Types
<1>3. \A e \in Ends : /\ ends'[e].owner = ends[e].owner /\ ends'[e].subs = ends[e].subs
                     /\ \/ ends'[e].st = ends[e].st
                        \/ ends[e].st # "none" /\ ends'[e].st = "disconnected"
  BY <1>1, Owns, ShutFacts DEF Shutdown
<1> QED BY <1>2, <1>3, StatePreserves DEF Shutdown

LEMMA ListenPreserves ==
    ASSUME CInv, NEW u \in Users, NEW mode \in Modes, Listen(u, mode)
    PROVE  CInv'
<1>0. mode \in ListenModes
  BY ModesExist DEF ListenModes
<1>1. \A e \in Ends : ends'[e] = IF e = user[u] THEN [ends[e] EXCEPT !.listen = mode] ELSE ends[e]
  BY Owns DEF Listen, CInv, Types
<1>2. ends' \in [Ends -> EndRec]
  BY <1>0, Owns, EndFields DEF Listen, CInv, Types
<1>3. \A e \in Ends : /\ ends'[e].owner = ends[e].owner /\ ends'[e].subs = ends[e].subs
                     /\ ends'[e].st = ends[e].st
  <2> SUFFICES ASSUME NEW e \in Ends
               PROVE  /\ ends'[e].owner = ends[e].owner /\ ends'[e].subs = ends[e].subs
                      /\ ends'[e].st = ends[e].st
    OBVIOUS
  <2>1. ends[e] \in EndRec
    BY DEF CInv, Types
  <2> QED BY <1>0, <1>1, <2>1 DEF EndRec
<1> QED BY <1>2, <1>3, StatePreserves DEF Listen

LEMMA ReplyPreserves ==
    ASSUME CInv, NEW n \in DOMAIN streams, GotBadRequest(n) \/ GotServiceReply(n)
    PROVE  CInv'
<1>0. n \in 1..MaxStreams
  BY SeqFacts, StreamBound DEF CInv, Types
<1>1. PICK e \in {Near(n), Far(n)}, x \in {"connected", "disconnected"} :
          /\ ends' = [ends EXCEPT ![e].st = x] /\ ends[e].st # "none"
          /\ x = "connected" => e = Near(n) /\ replies[n] = "ok" /\ ends[e].st = "wait_service"
  BY DEF GotBadRequest, GotServiceReply
<1>2. e \in Ends /\ x \in States
  BY <1>0, EndNames DEF States
<1>3. \A d \in Ends : ends'[d] = IF d = e THEN [ends[d] EXCEPT !.st = x] ELSE ends[d]
  BY <1>1, <1>2 DEF CInv, Types
<1>4. ends' \in [Ends -> EndRec]
  <2>1. ends \in [Ends -> EndRec] /\ \A r \in EndRec : [r EXCEPT !.st = x] \in EndRec
    BY <1>2, EndFields DEF CInv, Types
  <2>2. [ends[e] EXCEPT !.st = x] \in EndRec
    BY <1>2, <2>1
  <2> QED BY <1>1, <1>2, <2>1, <2>2
<1>5. \A d \in Ends :
        /\ ends'[d].owner = ends[d].owner /\ ends'[d].subs = ends[d].subs
        /\ ends'[d].st = IF d = e THEN x ELSE ends[d].st
  <2> SUFFICES ASSUME NEW d \in Ends
               PROVE  /\ ends'[d].owner = ends[d].owner /\ ends'[d].subs = ends[d].subs
                      /\ ends'[d].st = IF d = e THEN x ELSE ends[d].st
    OBVIOUS
  <2>1. ends[d] \in EndRec
    BY DEF CInv, Types
  <2>2. CASE d = e
    BY <1>2, <1>3, <2>1, <2>2 DEF EndRec
  <2> QED BY <1>3, <2>2
<1> QED BY <1>0, <1>1, <1>4, <1>5, StatePreserves DEF GotBadRequest, GotServiceReply

\* What stream::disconnect leaves behind.
LEMMA ReleasedFacts ==
    ASSUME CInv, NEW u \in Users
    PROVE  /\ Released(u) \in [Ends -> EndRec]
           /\ \A e \in Ends :
                 /\ Released(u)[e].st = ends[e].st /\ Released(u)[e].subs = ends[e].subs
                 /\ Released(u)[e].owner = IF ends[e].owner = u THEN None ELSE ends[e].owner
<1>1. ends \in [Ends -> EndRec] /\ u # None
  BY NoneIsNothing DEF CInv, Types
<1>2. CASE user[u] = Null
  <2>1. \A e \in Ends : ends[e].owner # u
    BY <1>1, <1>2, EndNames DEF CInv, OwnerExact
  <2> QED BY <1>1, <1>2, <2>1 DEF Released
<1>3. CASE user[u] # Null
  <2> DEFINE b == Shut(ends[user[u]], "close")
  <2>1. /\ b \in EndRec /\ b.st = ends[user[u]].st /\ b.subs = ends[user[u]].subs
        /\ user[u] \in Ends /\ ends[user[u]].owner = u
    BY <1>3, Owns, ShutFacts
  <2>2. Released(u) = [ends EXCEPT ![user[u]] = [b EXCEPT !.owner = None]]
    BY <1>3 DEF Released
  <2> HIDE DEF b
  <2>3. /\ [b EXCEPT !.owner = None] \in EndRec /\ [b EXCEPT !.owner = None].owner = None
        /\ [b EXCEPT !.owner = None].st = b.st /\ [b EXCEPT !.owner = None].subs = b.subs
    BY <2>1 DEF EndRec
  <2>4. \A e \in Ends : ends[e].owner = u => e = user[u]
    BY <1>1 DEF CInv, OwnerExact
  <2>5. Released(u) \in [Ends -> EndRec]
    BY <1>1, <2>1, <2>2, <2>3
  <2>6. \A e \in Ends : Released(u)[e] = IF e = user[u] THEN [b EXCEPT !.owner = None] ELSE ends[e]
    BY <1>1, <2>1, <2>2
  <2> QED BY <2>1, <2>3, <2>4, <2>5, <2>6
<1> QED BY <1>2, <1>3

LEMMA DisconnectPreserves ==
    ASSUME CInv, NEW u \in Users, Disconnect(u)
    PROVE  CInv'
<1> USE DEF serviceVars
<1>0. /\ UNCHANGED <<streams, serviceVars>> /\ ends' = Released(u)
      /\ user' = [user EXCEPT ![u] = Null] /\ user \in [Users -> Ends \cup {Null}]
      /\ \A x \in Users : user'[x] = IF x = u THEN Null ELSE user[x]
  BY DEF Disconnect, CInv, Types
<1>1. Types'
  BY <1>0, ReleasedFacts DEF CInv, Types
<1>2. /\ \A e \in Ends : ends'[e].st = ends[e].st /\ ends'[e].subs = ends[e].subs
      /\ \A e \in Ends : ends'[e].owner = IF ends[e].owner = u THEN None ELSE ends[e].owner
  BY <1>0, ReleasedFacts
<1>3. Unborn'
  BY <1>0, <1>2 DEF CInv, Unborn
<1>4. OwnerExact'
  BY <1>0, <1>2, EndNames, NoneIsNothing DEF CInv, OwnerExact
<1>5. QueuesIdle' /\ QueuesApart'
  BY <1>0, <1>1, <1>2, QueuesRest DEF Idle
<1>6. Sides'
  BY <1>0, <1>2, EndNames DEF CInv, Sides
<1>7. ForService' /\ Served'
  BY <1>0, <1>2, EndNames DEF CInv, ForService, Served
<1> QED BY <1>1, <1>3, <1>4, <1>5, <1>6, <1>7 DEF CInv

\* A new stream: its near end comes into being, owned by a stream object that
\* has no other, and nobody else's state changes.
Opens(n, r, u, old, b) ==
    /\ n = Len(streams) + 1 /\ n <= MaxStreams
    /\ r \in StreamRec /\ streams' = Append(streams, r)
    /\ u \in Users /\ user' = [user EXCEPT ![u] = Near(n)]
    /\ old \in [Ends -> EndRec]
    /\ \A e \in Ends : old[e].st = ends[e].st /\ old[e].subs = ends[e].subs
    /\ \A e \in Ends : old[e].owner = IF ends[e].owner = u THEN None ELSE ends[e].owner
    /\ b \in EndRec /\ b.owner = u /\ b.subs = <<>>
    /\ ends' = [old EXCEPT ![Near(n)] = b]
    /\ \/ r.parent = None /\ r.service \in Services /\ b.st = "wait_service"
       \/ r.parent # None /\ b.st = "connected"
    /\ UNCHANGED serviceVars

LEMMA OpenPreserves ==
    ASSUME CInv, NEW n, NEW r, NEW u, NEW old, NEW b, Opens(n, r, u, old, b)
    PROVE  CInv'
<1> USE DEF Opens
<1> USE DEF serviceVars
<1>0. /\ streams \in Seq(StreamRec) /\ Len(streams) \in Nat /\ n \in 1..MaxStreams
      /\ DOMAIN streams = 1..Len(streams) /\ DOMAIN streams' = 1..n
      /\ Len(streams') = n /\ streams' \in Seq(StreamRec)
      /\ \A m \in 1..n : streams'[m] = IF m = n THEN r ELSE streams[m]
      /\ Near(n) \in Ends /\ Far(n) \in Ends
  BY SeqFacts, EndNames, StreamBound DEF CInv, Types
<1>1. \A e \in Ends : ends'[e] = IF e = Near(n) THEN b ELSE old[e]
  BY <1>0
<1>2. ends[Near(n)].st = "none" /\ ends[Far(n)].st = "none" /\ ends[Near(n)].owner = None
  BY <1>0, EndNames DEF CInv, Unborn
<1>3. Types'
  <2>1. ends' \in [Ends -> EndRec] /\ user' \in [Users -> Ends \cup {Null}]
    BY <1>0 DEF CInv, Types
  <2> QED BY <1>0, <2>1 DEF CInv, Types
<1>4. Unborn'
  <2> SUFFICES ASSUME NEW e \in Ends
               PROVE  /\ e[1] > n => ends'[e].st = "none"
                      /\ ends'[e].st \in {"none", "accepting"} => ends'[e].owner = None
    BY <1>0 DEF Unborn
  <2>1. CASE e = Near(n)
    <3>1. e[1] = n /\ n \in Nat
      BY <1>0, <2>1, EndNames
    <3>2. ends'[e].st \notin {"none", "accepting"}
      BY <1>1, <2>1
    <3> QED BY <3>1, <3>2
  <2>2. CASE e # Near(n)
    <3>1. /\ e[1] > Len(streams) => ends[e].st = "none"
          /\ ends[e].st \in {"none", "accepting"} => ends[e].owner = None
      BY DEF CInv, Unborn
    <3>2. ends'[e].st = ends[e].st /\ ends'[e].owner \in {None, ends[e].owner}
      BY <1>1, <2>2
    <3>3. e[1] > n => e[1] > Len(streams)
      BY <1>0, EndNames
    <3> QED BY <3>1, <3>2, <3>3
  <2> QED BY <2>1, <2>2
<1>5. OwnerExact'
  <2>1. \A x \in Users : user'[x] = IF x = u THEN Near(n) ELSE user[x]
    BY DEF CInv, Types
  <2>2. \A x \in Users : x # None /\ user[x] \in Ends \cup {Null}
    BY NoneIsNothing DEF CInv, Types
  <2>3. /\ \A x \in Users : user[x] # Null => ends[user[x]].owner = x
        /\ \A e \in Ends : ends[e].owner # None => user[ends[e].owner] = e
        /\ \A e \in Ends : ends[e].owner \in Users \cup {None}
    BY EndFields DEF CInv, Types, OwnerExact
  <2>4. ASSUME NEW x \in Users, user'[x] # Null PROVE ends'[user'[x]].owner = x
    <3>1. CASE x = u
      BY <1>0, <1>1, <2>1, <3>1
    <3>2. CASE x # u
      <4>1. user'[x] = user[x] /\ user[x] \in Ends /\ ends[user[x]].owner = x
        BY <2>1, <2>2, <2>3, <2>4, <3>2
      <4>2. user[x] # Near(n)
        BY <1>2, <2>2, <4>1
      <4> QED BY <1>1, <3>2, <4>1, <4>2
    <3> QED BY <3>1, <3>2
  <2>5. ASSUME NEW e \in Ends, ends'[e].owner # None PROVE user'[ends'[e].owner] = e
    <3>1. CASE e = Near(n)
      BY <1>1, <2>1, <3>1
    <3>2. CASE e # Near(n)
      <4>1. ends'[e].owner = ends[e].owner /\ ends[e].owner # u /\ ends[e].owner # None
        BY <1>1, <2>5, <3>2
      <4> QED BY <2>1, <2>3, <4>1
    <3> QED BY <3>1, <3>2
  <2> QED BY <2>4, <2>5 DEF OwnerExact
<1>6. QueuesIdle' /\ QueuesApart'
  <2>1. \A e \in Ends : ends'[e].subs \in {ends[e].subs, <<>>}
    BY <1>1
  <2>2. \A e \in Ends : Idle(e) => Idle(e)'
    BY <1>1, <1>2 DEF Idle
  <2> QED BY <1>3, <2>1, <2>2, QueuesRest
<1>7. \A m \in 1..MaxStreams : /\ ends'[Far(m)].st = ends[Far(m)].st
                               /\ m # n => ends'[Near(m)].st = ends[Near(m)].st
  BY <1>0, <1>1, EndNames
<1>8. \A m \in 1..MaxStreams : ends[Far(m)].st = "accepting" => m \in 1..Len(streams)
  BY <1>0, EndNames DEF CInv, Unborn
<1>9. Sides'
  <2>1. ends'[Near(n)].st # "accepting"
    BY <1>0, <1>1
  <2>2. \A m \in 1..MaxStreams : ends'[Near(m)].st # "accepting"
    BY <1>7, <2>1 DEF CInv, Sides
  <2> QED BY <1>0, <1>7, <1>8, <2>2 DEF CInv, Sides
<1>10. ForService'
  BY <1>0 DEF CInv, ForService
<1>11. Served'
  <2> SUFFICES ASSUME NEW m \in 1..MaxStreams
               PROVE  /\ replies[m] # "none" => m \in DOMAIN streams' /\ streams'[m].parent = None
                      /\ replies[m] = "ok" =>
                            /\ ends'[Far(m)].st \in {"connected", "disconnected"}
                            /\ handed[m] # None
                            /\ handed[m] = listeners[<<streams'[m].peer, streams'[m].service>>]
                      /\ m \in DOMAIN streams' /\ streams'[m].parent = None
                            /\ ends'[Near(m)].st = "connected" => replies[m] = "ok"
    BY DEF Served
  <2>1. CASE m = n
    <3>1. m \notin DOMAIN streams
      BY <1>0, <2>1
    <3>2. replies[m] = "none"
      BY <3>1 DEF CInv, Served
    <3> QED BY <1>0, <1>1, <2>1, <3>2
  <2>2. CASE m # n
    <3>1. m \in DOMAIN streams' <=> m \in DOMAIN streams
      BY <1>0, <2>2
    <3>2. m \in DOMAIN streams => streams'[m] = streams[m]
      BY <1>0, <2>2
    <3>3. /\ replies[m] # "none" => m \in DOMAIN streams /\ streams[m].parent = None
          /\ replies[m] = "ok" =>
                /\ ends[Far(m)].st \in {"connected", "disconnected"}
                /\ handed[m] # None
                /\ handed[m] = listeners[<<streams[m].peer, streams[m].service>>]
          /\ m \in DOMAIN streams /\ streams[m].parent = None /\ ends[Near(m)].st = "connected"
                => replies[m] = "ok"
      BY DEF CInv, Served
    <3>4. ends'[Far(m)].st = ends[Far(m)].st /\ ends'[Near(m)].st = ends[Near(m)].st
      BY <1>7, <2>2
    <3> QED BY <3>1, <3>2, <3>3, <3>4
  <2> QED BY <2>1, <2>2
<1> QED BY <1>3, <1>4, <1>5, <1>6, <1>9, <1>10, <1>11 DEF CInv

\* A new end, before it is connected or waits for a service.
LEMMA NewEndFacts ==
    ASSUME NEW parent, parent = None \/ ends[parent] \in EndRec
    PROVE  /\ NewEnd(parent) \in EndRec
           /\ NewEnd(parent).owner = None /\ NewEnd(parent).subs = <<>>
<1> DEFINE mode == IF parent # None /\ ends[parent].listen = "inherit" THEN "inherit" ELSE "reject"
<1>1. mode \in ListenModes /\ <<>> \in Seq(Ends) /\ "created" \in States
  BY DEF ListenModes, States
<1>2. NewEnd(parent) = [NoEnd EXCEPT !.st = "created", !.listen = mode]
  BY Zenon DEF NewEnd
<1> HIDE DEF mode
<1>3. NewEnd(parent) = [st |-> "created", owner |-> None, endRead |-> FALSE,
                        listen |-> mode, subs |-> <<>>]
  BY <1>2 DEF NoEnd
<1> QED BY <1>1, <1>3 DEF EndRec

LEMMA OpenedFacts ==
    ASSUME NEW parent, parent = None \/ ends[parent] \in EndRec, NEW owner \in Users \cup {None}
    PROVE  /\ Substream(parent, owner) \in EndRec
           /\ Substream(parent, owner).owner = owner
           /\ Substream(parent, owner).subs = <<>> /\ Substream(parent, owner).st = "connected"
           /\ WaitForService(owner) \in EndRec
           /\ WaitForService(owner).owner = owner
           /\ WaitForService(owner).subs = <<>> /\ WaitForService(owner).st = "wait_service"
<1>1. {"connected", "wait_service"} \subseteq States
  BY DEF States
<1>2. NewEnd(parent) \in EndRec /\ NewEnd(parent).subs = <<>>
  BY NewEndFacts
<1>3. NewEnd(None) \in EndRec /\ NewEnd(None).subs = <<>>
  BY NewEndFacts
<1>4. /\ Substream(parent, owner) \in EndRec
      /\ Substream(parent, owner).owner = owner
      /\ Substream(parent, owner).subs = <<>> /\ Substream(parent, owner).st = "connected"
  BY <1>1, <1>2 DEF Substream, EndRec
<1>5. /\ WaitForService(owner) \in EndRec
      /\ WaitForService(owner).owner = owner
      /\ WaitForService(owner).subs = <<>> /\ WaitForService(owner).st = "wait_service"
  BY <1>1, <1>3 DEF WaitForService, EndRec
<1> QED BY <1>4, <1>5

LEMMA ConnectToPreserves ==
    ASSUME CInv, NEW u \in Users, NEW p \in Peers, NEW s \in Services, NEW hint,
           ConnectTo(u, p, s, hint)
    PROVE  CInv'
<1> DEFINE n == Len(streams) + 1
           r == [peer |-> p, service |-> s, parent |-> None]
           b == WaitForService(u)
<1>1. r \in StreamRec /\ r.parent = None /\ r.service \in Services
  BY DEF StreamRec
<1>2. b \in EndRec /\ b.owner = u /\ b.subs = <<>> /\ b.st = "wait_service"
  BY OpenedFacts
<1>3. /\ n <= MaxStreams /\ streams' = Append(streams, r) /\ UNCHANGED serviceVars
      /\ ends' = [Released(u) EXCEPT ![Near(n)] = b] /\ user' = [user EXCEPT ![u] = Near(n)]
  BY DEF ConnectTo
<1> HIDE DEF n, r, b
<1>4. Opens(n, r, u, Released(u), b)
  BY <1>1, <1>2, <1>3, ReleasedFacts DEF n, Opens
<1> QED BY <1>4, OpenPreserves

LEMMA OpenSubstreamPreserves ==
    ASSUME CInv, NEW u \in Users, NEW child \in Users, OpenSubstream(u, child)
    PROVE  CInv'
<1> DEFINE n == Len(streams) + 1
           r == [streams[user[u][1]] EXCEPT !.service = None, !.parent = user[u]]
           b == Substream(user[u], child)
<1>0. /\ user[u] \in Ends /\ user[u][1] \in 1..Len(streams) /\ user[u] # None
      /\ streams[user[u][1]] \in StreamRec /\ ends[user[u]] \in EndRec
  BY Owns, SeqFacts, NoneIsNothing DEF OpenSubstream, CInv, Types, Ends
<1>1. r \in StreamRec /\ r.parent # None
  BY <1>0 DEF StreamRec
<1>2. b \in EndRec /\ b.owner = child /\ b.subs = <<>> /\ b.st = "connected"
  BY <1>0, OpenedFacts
<1>3. /\ n <= MaxStreams /\ streams' = Append(streams, r) /\ UNCHANGED serviceVars
      /\ ends' = [ends EXCEPT ![Near(n)] = b] /\ user' = [user EXCEPT ![child] = Near(n)]
      /\ user[child] = Null
  BY DEF OpenSubstream, Adopt
<1>4. /\ ends \in [Ends -> EndRec] /\ child # None
      /\ \A e \in Ends : ends[e].owner # child
  BY <1>3, EndNames, NoneIsNothing DEF CInv, Types, OwnerExact
<1> HIDE DEF n, r, b
<1>5. Opens(n, r, child, ends, b)
  BY <1>1, <1>2, <1>3, <1>4 DEF n, Opens
<1> QED BY <1>5, OpenPreserves

\* A queue as it was, or without its first entry; e is not in it any more.
Shrunk(new, old, e) ==
    \E k \in {0, 1} : \A i \in DOMAIN new :
        i \in Nat /\ i + k \in DOMAIN old /\ new[i] = old[i + k] /\ new[i] # e

LEMMA ShrunkFacts ==
    ASSUME NEW q \in Seq(Ends), NEW e
    PROVE  /\ (\A i \in DOMAIN q : q[i] # e) => Shrunk(q, q, e)
           /\ q # <<>> /\ Head(q) = e /\ (\A i, j \in DOMAIN q : q[i] = q[j] => i = j)
                 => Shrunk(Tail(q), q, e)
<1>1. ASSUME \A i \in DOMAIN q : q[i] # e
      PROVE  Shrunk(q, q, e)
  <2>1. \A i \in DOMAIN q : i \in Nat /\ i + 0 = i
    BY SeqFacts
  <2> QED BY <1>1, <2>1 DEF Shrunk
<1>2. ASSUME q # <<>>, Head(q) = e, \A i, j \in DOMAIN q : q[i] = q[j] => i = j
      PROVE  Shrunk(Tail(q), q, e)
  <2>1. 1 \in DOMAIN q /\ q[1] = e
    BY <1>2, SeqFacts
  <2>2. ASSUME NEW i \in DOMAIN Tail(q)
        PROVE  i \in Nat /\ i + 1 \in DOMAIN q /\ i + 1 # 1 /\ Tail(q)[i] = q[i + 1]
    BY <1>2, SeqFacts
  <2>3. \A i \in DOMAIN Tail(q) : Tail(q)[i] # e
    BY <1>2, <2>1, <2>2
  <2> QED BY <2>2, <2>3 DEF Shrunk
<1> QED BY <1>1, <1>2

\* An idle end that leaves its queue gets an owner: a stream object that has no
\* stream.
Adopts(e, u) ==
    /\ e \in Ends /\ Idle(e)
    /\ u \in Users /\ user[u] = Null /\ user' = [user EXCEPT ![u] = e]
    /\ ends' \in [Ends -> EndRec]
    /\ \A d \in Ends : /\ ends'[d].st = ends[d].st
                       /\ ends'[d].owner = IF d = e THEN u ELSE ends[d].owner
                       /\ Shrunk(ends'[d].subs, ends[d].subs, e)
    /\ conns' \in [Servers -> Seq(Ends)]
    /\ \A v \in Servers : Shrunk(conns'[v], conns[v], e)
    /\ UNCHANGED <<streams, listeners, replies, handed>>

LEMMA AdoptPreserves ==
    ASSUME CInv, NEW e, NEW u, Adopts(e, u)
    PROVE  CInv'
<1>1. Types'
  BY DEF Adopts, CInv, Types
<1>2. Unborn'
  BY DEF Adopts, CInv, Unborn, Idle
<1>3. OwnerExact'
  <2>1. \A x \in Users : user'[x] = IF x = u THEN e ELSE user[x]
    BY DEF Adopts, CInv, Types
  <2>2. \A x \in Users : x # None /\ user[x] \in Ends \cup {Null}
    BY NoneIsNothing DEF CInv, Types
  <2>3. /\ e \in Ends /\ u \in Users /\ user[u] = Null /\ ends[e].owner = None
        /\ \A d \in Ends : ends'[d].owner = IF d = e THEN u ELSE ends[d].owner
    BY DEF Adopts, Idle
  <2>4. Null \notin Ends /\ \A d \in Ends : ends[d].owner \in Users \cup {None}
    BY EndNames, EndFields DEF CInv, Types
  <2> QED BY <2>1, <2>2, <2>3, <2>4 DEF CInv, OwnerExact
<1>4. /\ \A d \in Ends : Shrunk(ends'[d].subs, ends[d].subs, e)
      /\ \A v \in Servers : Shrunk(conns'[v], conns[v], e)
  BY DEF Adopts
<1>5. QueuesIdle'
  <2>1. \A d \in Ends : \A i \in DOMAIN ends'[d].subs :
           ends'[d].subs[i] \in Ends \ {e} /\ Idle(ends'[d].subs[i])
    <3> SUFFICES ASSUME NEW d \in Ends, NEW i \in DOMAIN ends'[d].subs
                 PROVE  ends'[d].subs[i] \in Ends \ {e} /\ Idle(ends'[d].subs[i])
      OBVIOUS
    <3>1. PICK j \in DOMAIN ends[d].subs : ends'[d].subs[i] = ends[d].subs[j] /\ ends'[d].subs[i] # e
      BY <1>4 DEF Shrunk
    <3>2. ends[d].subs \in Seq(Ends)
      BY EndFields DEF CInv, Types
    <3>3. ends[d].subs[j] \in Ends
      BY <3>1, <3>2, SeqFacts
    <3> QED BY <3>1, <3>3 DEF CInv, QueuesIdle
  <2>2. \A v \in Servers : \A i \in DOMAIN conns'[v] : conns'[v][i] \in Ends \ {e} /\ Idle(conns'[v][i])
    <3> SUFFICES ASSUME NEW v \in Servers, NEW i \in DOMAIN conns'[v]
                 PROVE  conns'[v][i] \in Ends \ {e} /\ Idle(conns'[v][i])
      OBVIOUS
    <3>1. PICK j \in DOMAIN conns[v] : conns'[v][i] = conns[v][j] /\ conns'[v][i] # e
      BY <1>4 DEF Shrunk
    <3>2. conns[v] \in Seq(Ends)
      BY DEF CInv, Types
    <3>3. conns[v][j] \in Ends
      BY <3>1, <3>2, SeqFacts
    <3> QED BY <3>1, <3>3 DEF CInv, QueuesIdle
  <2>3. \A d \in Ends \ {e} : Idle(d) => Idle(d)'
    BY DEF Adopts, Idle
  <2> QED BY <2>1, <2>2, <2>3 DEF QueuesIdle, Idle
<1>6. QueuesApart'
  BY <1>4 DEF CInv, QueuesApart, Shrunk
<1>7. /\ UNCHANGED <<streams, listeners, replies, handed>>
      /\ \A d \in Ends : ends'[d].st = ends[d].st
  BY DEF Adopts
<1>8. Sides'
  BY <1>7, EndNames DEF CInv, Sides
<1>9. ForService' /\ Served'
  BY <1>7, EndNames DEF CInv, ForService, Served
<1> QED BY <1>1, <1>2, <1>3, <1>5, <1>6, <1>7, <1>8, <1>9 DEF CInv

LEMMA AcceptPreserves ==
    ASSUME CInv, NEW v \in Servers, NEW u \in Users, Accept(v, u)
    PROVE  CInv'
<1> DEFINE e == Head(conns[v])
<1>1. /\ conns[v] \in Seq(Ends) /\ conns[v] # <<>> /\ e \in Ends
      /\ 1 \in DOMAIN conns[v] /\ e = conns[v][1] /\ Tail(conns[v]) \in Seq(Ends)
  BY SeqFacts DEF Accept, CInv, Types
<1>2. /\ conns' = [conns EXCEPT ![v] = Tail(conns[v])] /\ ends' = [ends EXCEPT ![e].owner = u]
      /\ user[u] = Null /\ user' = [user EXCEPT ![u] = e]
      /\ UNCHANGED <<streams, listeners, replies, handed>>
  BY DEF Accept, Adopt
<1>3. Idle(e)
  BY <1>1 DEF CInv, QueuesIdle
<1>4. \A w \in Servers : Shrunk(conns'[w], conns[w], e)
  <2> SUFFICES ASSUME NEW w \in Servers PROVE Shrunk(conns'[w], conns[w], e)
    OBVIOUS
  <2>0. conns[w] \in Seq(Ends) /\ conns'[w] = IF w = v THEN Tail(conns[v]) ELSE conns[w]
    BY <1>2 DEF CInv, Types
  <2>1. CASE w = v
    <3>1. \A i, j \in DOMAIN conns[v] : conns[v][i] = conns[v][j] => i = j
      BY DEF CInv, QueuesApart
    <3> QED BY <1>1, <2>0, <2>1, <3>1, ShrunkFacts
  <2>2. CASE w # v
    <3>1. \A i \in DOMAIN conns[w] : conns[w][i] # e
      BY <1>1, <2>2 DEF CInv, QueuesApart
    <3> QED BY <2>0, <2>2, <3>1, ShrunkFacts
  <2> QED BY <2>1, <2>2
<1>5. \A d \in Ends : \A i \in DOMAIN ends[d].subs : ends[d].subs[i] # e
  BY <1>1 DEF CInv, QueuesApart
<1>6. conns' \in [Servers -> Seq(Ends)]
  BY <1>1, <1>2 DEF CInv, Types
<1> HIDE DEF e
<1>7. /\ ends' \in [Ends -> EndRec]
      /\ \A d \in Ends : ends'[d] = IF d = e THEN [ends[d] EXCEPT !.owner = u] ELSE ends[d]
  BY <1>1, <1>2, EndFields DEF CInv, Types
<1>8. ASSUME NEW d \in Ends
      PROVE  /\ ends'[d].st = ends[d].st /\ Shrunk(ends'[d].subs, ends[d].subs, e)
             /\ ends'[d].owner = IF d = e THEN u ELSE ends[d].owner
  <2>1. ends[d] \in EndRec
    BY DEF CInv, Types
  <2>2. /\ ends'[d].st = ends[d].st /\ ends'[d].subs = ends[d].subs /\ ends[d].subs \in Seq(Ends)
        /\ ends'[d].owner = IF d = e THEN u ELSE ends[d].owner
    BY <1>7, <2>1 DEF EndRec
  <2> QED BY <1>5, <2>2, ShrunkFacts
<1>9. Adopts(e, u)
  BY <1>1, <1>2, <1>3, <1>4, <1>6, <1>7, <1>8 DEF Adopts
<1> QED BY <1>9, AdoptPreserves

LEMMA AcceptSubstreamPreserves ==
    ASSUME CInv, NEW u \in Users, NEW child \in Users, AcceptSubstream(u, child)
    PROVE  CInv'
<1> DEFINE p == user[u]
           e == Head(ends[p].subs)
<1>0. p \in Ends /\ ends[p] \in EndRec /\ ends[p].owner = u /\ u # None
  BY Owns DEF AcceptSubstream
<1>1. /\ ends[p].subs \in Seq(Ends) /\ ends[p].subs # <<>> /\ e \in Ends
      /\ 1 \in DOMAIN ends[p].subs /\ e = ends[p].subs[1] /\ Tail(ends[p].subs) \in Seq(Ends)
  <2>1. ends[p].subs \in Seq(Ends)
    BY <1>0, EndFields
  <2>2. ends[p].subs # <<>>
    BY DEF AcceptSubstream
  <2> QED BY <2>1, <2>2, SeqFacts
<1>2. Idle(e) /\ e # p
  BY <1>0, <1>1 DEF CInv, QueuesIdle, Idle
<1>3. /\ ends' = [ends EXCEPT ![p].subs = Tail(@), ![e].owner = child]
      /\ user[child] = Null /\ user' = [user EXCEPT ![child] = e]
      /\ conns' = conns /\ UNCHANGED <<streams, listeners, replies, handed>>
  BY DEF AcceptSubstream, Adopt, serviceVars
<1>4. conns \in [Servers -> Seq(Ends)] /\ ends \in [Ends -> EndRec]
  BY DEF CInv, Types
<1>5. \A w \in Servers : Shrunk(conns'[w], conns[w], e)
  <2>1. \A w \in Servers : \A i \in DOMAIN conns[w] : conns[w][i] # e
    BY <1>0, <1>1 DEF CInv, QueuesApart
  <2> QED BY <1>3, <1>4, <2>1, ShrunkFacts
<1>6. /\ \A d \in Ends : d # p => \A i \in DOMAIN ends[d].subs : ends[d].subs[i] # e
      /\ \A i, j \in DOMAIN ends[p].subs : ends[p].subs[i] = ends[p].subs[j] => i = j
  BY <1>0, <1>1 DEF CInv, QueuesApart
<1>7. Shrunk(Tail(ends[p].subs), ends[p].subs, e)
  BY <1>1, <1>6, ShrunkFacts
<1> HIDE DEF e, p
<1>8. \A d \in Ends : ends'[d] = IF d = e THEN [ends[d] EXCEPT !.owner = child]
                                 ELSE IF d = p THEN [ends[d] EXCEPT !.subs = Tail(ends[p].subs)]
                                 ELSE ends[d]
  BY <1>0, <1>1, <1>2, <1>3, <1>4
<1>9. ASSUME NEW d \in Ends
      PROVE  /\ ends'[d] \in EndRec
             /\ ends'[d].st = ends[d].st /\ Shrunk(ends'[d].subs, ends[d].subs, e)
             /\ ends'[d].owner = IF d = e THEN child ELSE ends[d].owner
  <2>1. ends[d] \in EndRec /\ ends[d].subs \in Seq(Ends)
    BY <1>4, EndFields
  <2>2. CASE d = e
    <3>1. /\ ends'[d] \in EndRec /\ ends'[d].st = ends[d].st /\ ends'[d].owner = child
          /\ ends'[d].subs = ends[d].subs
      BY <1>8, <2>1, <2>2 DEF EndRec
    <3> QED BY <1>2, <1>6, <2>1, <2>2, <3>1, ShrunkFacts
  <2>3. CASE d = p
    <3>1. /\ ends'[d] \in EndRec /\ ends'[d].st = ends[d].st /\ ends'[d].owner = ends[d].owner
          /\ ends'[d].subs = Tail(ends[p].subs)
      BY <1>1, <1>2, <1>8, <2>1, <2>3 DEF EndRec
    <3> QED BY <1>2, <1>7, <2>3, <3>1
  <2>4. CASE d # e /\ d # p
    BY <1>6, <1>8, <2>1, <2>4, ShrunkFacts
  <2> QED BY <2>2, <2>3, <2>4
<1>10. ends' \in [Ends -> EndRec]
  <2>1. ends' = [d \in Ends |-> ends'[d]]
    BY <1>3, <1>4
  <2> QED BY <1>9, <2>1
<1>11. Adopts(e, child)
  BY <1>1, <1>2, <1>3, <1>4, <1>5, <1>9, <1>10 DEF Adopts
<1> QED BY <1>11, AdoptPreserves

\* The entries of a queue with a new one at its end.
LEMMA AppendEntries ==
    ASSUME NEW q \in Seq(Ends), NEW x \in Ends
    PROVE  \A i \in DOMAIN Append(q, x) :
              \/ i \in DOMAIN q /\ Append(q, x)[i] = q[i]
              \/ i = Len(q) + 1 /\ Append(q, x)[i] = x
BY SeqFacts

\* An end that is not idle is in no queue.
LEMMA NotQueued ==
    ASSUME CInv, NEW x \in Ends, ~Idle(x)
    PROVE  /\ \A v \in Servers : \A i \in DOMAIN conns[v] : conns[v][i] # x
           /\ \A p \in Ends : \A i \in DOMAIN ends[p].subs : ends[p].subs[i] # x
BY DEF CInv, QueuesIdle

\* What waits in queues, before and after.
LEMMA QueueTypes ==
    ASSUME Types
    PROVE  /\ \A v \in Servers : conns[v] \in Seq(Ends) /\ \A i \in DOMAIN conns[v] : conns[v][i] \in Ends
           /\ \A p \in Ends : /\ ends[p].subs \in Seq(Ends)
                              /\ \A i \in DOMAIN ends[p].subs : ends[p].subs[i] \in Ends
<1>1. ASSUME NEW v \in Servers
      PROVE  conns[v] \in Seq(Ends) /\ \A i \in DOMAIN conns[v] : conns[v][i] \in Ends
  <2>1. conns[v] \in Seq(Ends)
    BY DEF Types
  <2> QED BY <2>1, SeqFacts
<1>2. ASSUME NEW p \in Ends
      PROVE  /\ ends[p].subs \in Seq(Ends)
             /\ \A i \in DOMAIN ends[p].subs : ends[p].subs[i] \in Ends
  <2>1. ends[p].subs \in Seq(Ends)
    BY EndFields DEF Types
  <2> QED BY <2>1, SeqFacts
<1> QED BY <1>1, <1>2

\* A stream joins the queue of a server.
LEMMA JoinServer ==
    ASSUME CInv, NEW x \in Ends, NEW v \in Servers, ~Idle(x), Idle(x)',
           \A e \in Ends : Idle(e) => Idle(e)',
           \A e \in Ends : ends'[e].subs = ends[e].subs,
           \A w \in Servers : conns'[w] = IF w = v THEN Append(conns[v], x) ELSE conns[w]
    PROVE  QueuesIdle' /\ QueuesApart'
<1>0. Types
  BY DEF CInv
<1>1. \A w \in Servers : \A i \in DOMAIN conns'[w] :
        \/ i \in DOMAIN conns[w] /\ conns'[w][i] = conns[w][i] /\ conns'[w][i] \in Ends \ {x}
        \/ w = v /\ i = Len(conns[v]) + 1 /\ conns'[w][i] = x
  <2> SUFFICES ASSUME NEW w \in Servers, NEW i \in DOMAIN conns'[w]
               PROVE  \/ i \in DOMAIN conns[w] /\ conns'[w][i] = conns[w][i] /\ conns'[w][i] \in Ends \ {x}
                      \/ w = v /\ i = Len(conns[v]) + 1 /\ conns'[w][i] = x
    OBVIOUS
  <2>1. /\ conns[w] \in Seq(Ends)
        /\ \A j \in DOMAIN conns[w] : conns[w][j] \in Ends \ {x}
    BY <1>0, NotQueued, QueueTypes
  <2>2. CASE w = v
    <3>1. conns'[w] = Append(conns[w], x)
      BY <2>2
    <3> QED BY <2>1, <2>2, <3>1, AppendEntries
  <2>3. CASE w # v
    BY <2>1, <2>3
  <2> QED BY <2>2, <2>3
<1>2. \A p \in Ends : \A i \in DOMAIN ends[p].subs : ends[p].subs[i] \in Ends \ {x}
  BY <1>0, NotQueued, QueueTypes
<1>3. QueuesIdle'
  BY <1>1, <1>2 DEF CInv, QueuesIdle
<1>4. QueuesApart'
  <2>1. \A d, w \in Servers : \A i \in DOMAIN conns'[d], j \in DOMAIN conns'[w] :
          conns'[d][i] = conns'[w][j] => d = w /\ i = j
    BY <1>1 DEF CInv, QueuesApart
  <2>2. \A p, q \in Ends : \A i \in DOMAIN ends'[p].subs, j \in DOMAIN ends'[q].subs :
          ends'[p].subs[i] = ends'[q].subs[j] => p = q /\ i = j
    BY DEF CInv, QueuesApart
  <2>3. \A w \in Servers, p \in Ends : \A i \in DOMAIN conns'[w], j \in DOMAIN ends'[p].subs :
          conns'[w][i] # ends'[p].subs[j]
    BY <1>1, <1>2 DEF CInv, QueuesApart
  <2> QED BY <2>1, <2>2, <2>3 DEF QueuesApart
<1> QED BY <1>3, <1>4

\* A substream joins the queue of its parent; its own queue is empty.
LEMMA JoinParent ==
    ASSUME CInv, NEW x \in Ends, NEW p \in Ends, p # x, ~Idle(x), Idle(x)',
           \A e \in Ends : Idle(e) => Idle(e)',
           \A e \in Ends : ends'[e].subs = IF e = p THEN Append(ends[p].subs, x)
                                           ELSE IF e = x THEN <<>> ELSE ends[e].subs,
           conns' = conns
    PROVE  QueuesIdle' /\ QueuesApart'
<1>0. Types
  BY DEF CInv
<1>1. \A e \in Ends : \A i \in DOMAIN ends'[e].subs :
        \/ /\ i \in DOMAIN ends[e].subs /\ ends'[e].subs[i] = ends[e].subs[i]
           /\ ends'[e].subs[i] \in Ends \ {x}
        \/ e = p /\ i = Len(ends[p].subs) + 1 /\ ends'[e].subs[i] = x
  <2> SUFFICES ASSUME NEW e \in Ends, NEW i \in DOMAIN ends'[e].subs
               PROVE  \/ /\ i \in DOMAIN ends[e].subs /\ ends'[e].subs[i] = ends[e].subs[i]
                         /\ ends'[e].subs[i] \in Ends \ {x}
                      \/ e = p /\ i = Len(ends[p].subs) + 1 /\ ends'[e].subs[i] = x
    OBVIOUS
  <2>1. /\ ends[e].subs \in Seq(Ends)
        /\ \A j \in DOMAIN ends[e].subs : ends[e].subs[j] \in Ends \ {x}
    BY <1>0, NotQueued, QueueTypes
  <2>2. CASE e = p
    <3>1. ends'[e].subs = Append(ends[e].subs, x)
      BY <2>2
    <3> QED BY <2>1, <2>2, <3>1, AppendEntries
  <2>3. CASE e = x
    <3>1. ends'[e].subs = <<>>
      BY <2>3
    <3>2. DOMAIN ends'[e].subs = {}
      BY <3>1
    <3> QED BY <3>2
  <2>4. CASE e # p /\ e # x
    BY <2>1, <2>4
  <2> QED BY <2>2, <2>3, <2>4
<1>2. \A v \in Servers : \A i \in DOMAIN conns[v] : conns[v][i] \in Ends \ {x}
  BY <1>0, NotQueued, QueueTypes
<1>3. QueuesIdle'
  BY <1>1, <1>2 DEF CInv, QueuesIdle
<1>4. QueuesApart'
  <2>1. \A v, w \in Servers : \A i \in DOMAIN conns'[v], j \in DOMAIN conns'[w] :
          conns'[v][i] = conns'[w][j] => v = w /\ i = j
    BY DEF CInv, QueuesApart
  <2>2. \A d, e \in Ends : \A i \in DOMAIN ends'[d].subs, j \in DOMAIN ends'[e].subs :
          ends'[d].subs[i] = ends'[e].subs[j] => d = e /\ i = j
    BY <1>1 DEF CInv, QueuesApart
  <2>3. \A w \in Servers, e \in Ends : \A i \in DOMAIN conns'[w], j \in DOMAIN ends'[e].subs :
          conns'[w][i] # ends'[e].subs[j]
    BY <1>1, <1>2 DEF CInv, QueuesApart
  <2> QED BY <2>1, <2>2, <2>3 DEF QueuesApart
<1> QED BY <1>3, <1>4

LEMMA RxTopLevelPreserves ==
    ASSUME CInv, NEW n \in DOMAIN streams, RxTopLevel(n)
    PROVE  CInv'
<1> DEFINE b == [NewEnd(None) EXCEPT !.st = "accepting"]
<1>0. n \in 1..MaxStreams /\ n <= Len(streams) /\ Far(n) \in Ends
  BY SeqFacts, EndNames, StreamBound DEF CInv, Types
<1>1. b \in EndRec /\ b.owner = None /\ b.subs = <<>> /\ b.st = "accepting"
  <2>1. NewEnd(None) \in EndRec /\ NewEnd(None).owner = None /\ NewEnd(None).subs = <<>>
    BY NewEndFacts
  <2> QED BY <2>1 DEF EndRec, States
<1>2. /\ ends' = [ends EXCEPT ![Far(n)] = b] /\ ends[Far(n)].st = "none"
      /\ UNCHANGED <<streams, user, listeners, conns, replies, handed>>
      /\ streams[n].parent = None /\ ends \in [Ends -> EndRec]
  BY DEF RxTopLevel, serviceVars, CInv, Types
<1> HIDE DEF b
<1>3. \A e \in Ends : ends'[e] = IF e = Far(n) THEN b ELSE ends[e]
  BY <1>0, <1>2
<1>4. Types'
  BY <1>0, <1>1, <1>2 DEF CInv, Types
<1>5. ends[Far(n)].owner = None
  BY <1>0, <1>2 DEF CInv, Unborn
<1>6. Unborn'
  BY <1>0, <1>1, <1>2, <1>3, EndNames DEF CInv, Unborn
<1>7. OwnerExact'
  <2>1. \A e \in Ends : ends'[e].owner = ends[e].owner
    BY <1>1, <1>3, <1>5
  <2>2. \A u \in Users : user[u] \in Ends \cup {Null}
    BY DEF CInv, Types
  <2> QED BY <1>2, <2>1, <2>2 DEF CInv, OwnerExact
<1>8. QueuesIdle' /\ QueuesApart'
  <2>1. \A e \in Ends : ends'[e].subs \in {ends[e].subs, <<>>}
    BY <1>1, <1>3
  <2>2. \A e \in Ends : Idle(e) => Idle(e)'
    BY <1>2, <1>3 DEF Idle
  <2> QED BY <1>2, <1>4, <2>1, <2>2, QueuesRest
<1>9. \A m \in 1..MaxStreams : /\ ends'[Near(m)].st = ends[Near(m)].st
                               /\ ends'[Far(m)].st = IF m = n THEN "accepting" ELSE ends[Far(m)].st
  BY <1>0, <1>1, <1>3, EndNames
<1>10. Sides'
  BY <1>2, <1>9 DEF CInv, Sides
<1>11. ForService'
  BY <1>2 DEF CInv, ForService
<1>12. Served'
  BY <1>0, <1>2, <1>9 DEF CInv, Served
<1> QED BY <1>4, <1>6, <1>7, <1>8, <1>10, <1>11, <1>12 DEF CInv

LEMMA RxSubstreamPreserves ==
    ASSUME CInv, NEW n \in DOMAIN streams, RxSubstream(n)
    PROVE  CInv'
<1> DEFINE p == Other(streams[n].parent)
           b == Substream(p, None)
           q == Append(ends[p].subs, Far(n))
<1>0. n \in 1..MaxStreams /\ n <= Len(streams) /\ Far(n) \in Ends
  BY SeqFacts, EndNames, StreamBound DEF CInv, Types
<1>1. p \in Ends /\ p # Far(n) /\ ends[p] \in EndRec
  <2>1. streams[n] \in StreamRec
    BY SeqFacts DEF CInv, Types
  <2>2. streams[n].parent \in Ends
    BY <2>1 DEF RxSubstream, StreamRec
  <2>3. p \in Ends
    BY <2>2, EndNames
  <2> QED BY <2>3 DEF RxSubstream, CInv, Types
<1>2. b \in EndRec /\ b.owner = None /\ b.subs = <<>> /\ b.st = "connected"
  BY <1>1, OpenedFacts
<1>3. /\ ends' = [ends EXCEPT ![Far(n)] = b, ![p].subs = q] /\ ends[Far(n)].st = "none"
      /\ UNCHANGED <<streams, user, listeners, conns, replies, handed>>
      /\ streams[n].parent # None /\ ends[p].st # "none" /\ ends \in [Ends -> EndRec]
  <2>1. ends' = [ends EXCEPT ![Far(n)] = b, ![p].subs = Append(@, Far(n))]
    BY DEF RxSubstream
  <2>2. ends \in [Ends -> EndRec]
    BY DEF CInv, Types
  <2>3. ends' = [ends EXCEPT ![Far(n)] = b, ![p].subs = q]
    BY <1>0, <1>1, <2>1, <2>2
  <2> QED BY <2>2, <2>3 DEF RxSubstream, serviceVars
<1>4. ends[p].subs \in Seq(Ends) /\ q \in Seq(Ends)
  <2>1. ends[p].subs \in Seq(Ends)
    BY <1>1, EndFields
  <2> QED BY <1>0, <2>1, SeqFacts
<1> HIDE DEF b, p
<1>5. /\ q = Append(ends[p].subs, Far(n)) /\ q \in Seq(Ends)
  BY <1>4
<1> HIDE DEF q
<1>6. \A e \in Ends : ends'[e] = IF e = Far(n) THEN b
                                 ELSE IF e = p THEN [ends[p] EXCEPT !.subs = q] ELSE ends[e]
  BY <1>0, <1>1, <1>3
<1>7. ASSUME NEW e \in Ends
      PROVE  /\ ends'[e] \in EndRec /\ ends'[e].st = IF e = Far(n) THEN "connected" ELSE ends[e].st
             /\ ends'[e].owner = ends[e].owner
             /\ ends'[e].subs = IF e = p THEN q ELSE IF e = Far(n) THEN <<>> ELSE ends[e].subs
  <2>1. ends[e] \in EndRec
    BY <1>3
  <2>2. CASE e = Far(n)
    <3>1. ends[e].owner = None
      BY <1>3, <2>2 DEF CInv, Unborn
    <3> QED BY <1>1, <1>2, <1>6, <2>2, <3>1
  <2>3. CASE e = p
    <3>1. ends'[e] = [ends[e] EXCEPT !.subs = q]
      BY <1>1, <1>6, <2>3
    <3> QED BY <1>1, <1>5, <2>1, <2>3, <3>1 DEF EndRec
  <2> QED BY <1>6, <2>1, <2>2, <2>3
<1>8. Types'
  <2>1. ends' = [e \in Ends |-> ends'[e]]
    BY <1>3
  <2>2. ends' \in [Ends -> EndRec]
    BY <1>7, <2>1
  <2> QED BY <1>3, <2>2 DEF CInv, Types
<1>9. Unborn'
  BY <1>0, <1>3, <1>7, EndNames DEF CInv, Unborn
<1>10. OwnerExact'
  <2>1. \A u \in Users : user[u] \in Ends \cup {Null}
    BY DEF CInv, Types
  <2> QED BY <1>3, <1>7, <2>1 DEF CInv, OwnerExact
<1>11. QueuesIdle' /\ QueuesApart'
  <2>1. ~Idle(Far(n)) /\ Idle(Far(n))'
    BY <1>0, <1>1, <1>2, <1>3, <1>6 DEF Idle
  <2>2. \A e \in Ends : Idle(e) => Idle(e)'
    BY <1>3, <1>7 DEF Idle
  <2> QED BY <1>0, <1>1, <1>3, <1>5, <1>7, <2>1, <2>2, JoinParent
<1>12. \A m \in 1..MaxStreams : /\ ends'[Near(m)].st = ends[Near(m)].st
                                /\ ends'[Far(m)].st = IF m = n THEN "connected" ELSE ends[Far(m)].st
  BY <1>0, <1>7, EndNames
<1>13. Sides'
  <2>1. /\ \A m \in 1..MaxStreams : ends[Near(m)].st # "accepting" /\ ends[Far(m)].st # "wait_service"
        /\ \A m \in 1..MaxStreams : ends[Far(m)].st = "accepting" => streams[m].parent = None
    BY DEF CInv, Sides
  <2>2. streams' = streams
    BY <1>3
  <2> SUFFICES ASSUME NEW m \in 1..MaxStreams
               PROVE  /\ ends'[Near(m)].st # "accepting" /\ ends'[Far(m)].st # "wait_service"
                      /\ ends'[Far(m)].st = "accepting" => streams[m].parent = None
    BY <2>2 DEF Sides
  <2> QED BY <1>12, <2>1
<1>14. ForService'
  BY <1>3 DEF CInv, ForService
<1>15. Served'
  <2>1. streams' = streams /\ replies' = replies /\ handed' = handed /\ listeners' = listeners
    BY <1>3
  <2> SUFFICES ASSUME NEW m \in 1..MaxStreams
               PROVE  /\ replies[m] # "none" => m \in DOMAIN streams /\ streams[m].parent = None
                      /\ replies[m] = "ok" =>
                            /\ ends'[Far(m)].st \in {"connected", "disconnected"}
                            /\ handed[m] # None
                            /\ handed[m] = listeners[<<streams[m].peer, streams[m].service>>]
                      /\ m \in DOMAIN streams /\ streams[m].parent = None
                            /\ ends'[Near(m)].st = "connected" => replies[m] = "ok"
    BY <2>1 DEF Served
  <2>2. /\ replies[m] # "none" => m \in DOMAIN streams /\ streams[m].parent = None
        /\ replies[m] = "ok" =>
              /\ ends[Far(m)].st \in {"connected", "disconnected"}
              /\ handed[m] # None
              /\ handed[m] = listeners[<<streams[m].peer, streams[m].service>>]
        /\ m \in DOMAIN streams /\ streams[m].parent = None /\ ends[Near(m)].st = "connected"
              => replies[m] = "ok"
    BY DEF CInv, Served
  <2>3. /\ ends'[Near(m)].st = ends[Near(m)].st
        /\ ends'[Far(m)].st \in {"connected", ends[Far(m)].st}
    BY <1>12
  <2> QED BY <2>2, <2>3
<1> QED BY <1>8, <1>9, <1>10, <1>11, <1>13, <1>14, <1>15 DEF CInv

\* A request for a service, whether a server listens or not.
LEMMA GotServiceRequestPreserves ==
    ASSUME CInv, NEW n \in DOMAIN streams, GotServiceRequest(n)
    PROVE  CInv'
<1> DEFINE ps == <<streams[n].peer, streams[n].service>>
           srv == listeners[ps]
           st == IF srv = None THEN "disconnected" ELSE "connected"
           reply == IF srv = None THEN "not_found" ELSE "ok"
<1>0. /\ n \in 1..MaxStreams /\ n <= Len(streams) /\ Far(n) \in Ends
      /\ streams[n] \in StreamRec /\ ends[Far(n)].st = "accepting"
      /\ UNCHANGED <<streams, user, listeners>>
  BY SeqFacts, EndNames, StreamBound DEF CInv, Types, GotServiceRequest
<1>1. streams[n].parent = None /\ streams[n].service \in Services /\ ps \in Peers \X Services
  <2>1. streams[n].parent = None /\ streams[n].peer \in Peers
    BY <1>0 DEF CInv, Sides, StreamRec
  <2> QED BY <2>1 DEF CInv, ForService
<1>2. srv \in Servers \cup {None}
  BY <1>1 DEF CInv, Types
<1>3. /\ ends' = [ends EXCEPT ![Far(n)].st = st] /\ replies' = [replies EXCEPT ![n] = reply]
      /\ conns' = IF srv = None THEN conns ELSE [conns EXCEPT ![srv] = Append(@, Far(n))]
      /\ handed' = IF srv = None THEN handed ELSE [handed EXCEPT ![n] = srv]
  BY DEF GotServiceRequest, Serve
<1>4. st \in States /\ reply \in {"ok", "not_found"} /\ st \in {"connected", "disconnected"}
  BY DEF States
<1>5. reply = "ok" => srv # None /\ srv = listeners[<<streams[n].peer, streams[n].service>>]
  OBVIOUS
<1>6. ends \in [Ends -> EndRec]
  BY DEF CInv, Types
<1>7. srv # None => st = "connected"
  OBVIOUS
<1> HIDE DEF st, reply, srv
<1>8. \A e \in Ends : ends'[e] = IF e = Far(n) THEN [ends[e] EXCEPT !.st = st] ELSE ends[e]
  BY <1>0, <1>3, <1>6
<1>9. ASSUME NEW e \in Ends
      PROVE  /\ ends'[e] \in EndRec /\ ends'[e].st = IF e = Far(n) THEN st ELSE ends[e].st
             /\ ends'[e].owner = ends[e].owner /\ ends'[e].subs = ends[e].subs
  <2>1. ends[e] \in EndRec
    BY <1>6
  <2>2. CASE e = Far(n)
    BY <1>4, <1>8, <2>1, <2>2 DEF EndRec
  <2> QED BY <1>8, <2>1, <2>2
<1>10. /\ \A m \in 1..MaxStreams : replies'[m] = IF m = n THEN reply ELSE replies[m]
       /\ \A m \in 1..MaxStreams : handed'[m] = IF m = n /\ srv # None THEN srv ELSE handed[m]
  BY <1>3 DEF CInv, Types
<1>11. Types'
  <2>1. ends' \in [Ends -> EndRec]
    <3>1. ends' = [e \in Ends |-> ends'[e]]
      BY <1>3, <1>6
    <3> QED BY <1>9, <3>1
  <2>2. /\ replies' \in [1..MaxStreams -> {"none", "ok", "not_found"}]
        /\ handed' \in [1..MaxStreams -> Servers \cup {None}]
    BY <1>2, <1>3, <1>4 DEF CInv, Types
  <2>3. conns' \in [Servers -> Seq(Ends)]
    <3>1. CASE srv = None
      BY <1>3, <3>1 DEF CInv, Types
    <3>2. CASE srv # None
      <4>1. srv \in Servers /\ conns[srv] \in Seq(Ends)
        BY <1>2, <3>2 DEF CInv, Types
      <4>2. Append(conns[srv], Far(n)) \in Seq(Ends)
        BY <1>0, <4>1, SeqFacts
      <4> QED BY <1>3, <3>2, <4>1, <4>2 DEF CInv, Types
    <3> QED BY <3>1, <3>2
  <2> QED BY <1>0, <2>1, <2>2, <2>3 DEF CInv, Types
<1>12. ends[Far(n)].owner = None
  BY <1>0 DEF CInv, Unborn
<1>13. Unborn'
  BY <1>0, <1>9, <1>12, EndNames DEF CInv, Unborn
<1>14. OwnerExact'
  <2>1. \A u \in Users : user[u] \in Ends \cup {Null}
    BY DEF CInv, Types
  <2> QED BY <1>0, <1>9, <2>1 DEF CInv, OwnerExact
<1>15. QueuesIdle' /\ QueuesApart'
  <2>1. \A e \in Ends : Idle(e) => Idle(e)'
    BY <1>4, <1>9 DEF Idle
  <2>2. CASE srv = None
    BY <1>3, <1>9, <1>11, <2>1, <2>2, QueuesRest
  <2>3. CASE srv # None
    <3>1. srv \in Servers
      BY <1>2, <2>3
    <3>2. \A w \in Servers : conns'[w] = IF w = srv THEN Append(conns[srv], Far(n)) ELSE conns[w]
      BY <1>3, <2>3, <3>1 DEF CInv, Types
    <3>3. ~Idle(Far(n)) /\ Idle(Far(n))'
      BY <1>0, <1>4, <1>9, <1>12 DEF Idle
    <3> QED BY <1>0, <1>9, <2>1, <3>1, <3>2, <3>3, JoinServer
  <2> QED BY <2>2, <2>3
<1>16. \A m \in 1..MaxStreams : /\ ends'[Near(m)].st = ends[Near(m)].st
                                /\ ends'[Far(m)].st = IF m = n THEN st ELSE ends[Far(m)].st
  BY <1>0, <1>9, EndNames
<1>17. Sides'
  BY <1>0, <1>4, <1>16 DEF CInv, Sides
<1>18. ForService'
  BY <1>0 DEF CInv, ForService
<1>19. Served'
  <2>1. replies[n] # "ok"
    BY <1>0 DEF CInv, Served
  <2>2. ends[Near(n)].st # "connected"
    BY <1>0, <1>1, <2>1 DEF CInv, Served
  <2> QED BY <1>0, <1>1, <1>4, <1>5, <1>10, <1>16, <2>2 DEF CInv, Served
<1> QED BY <1>11, <1>13, <1>14, <1>15, <1>17, <1>18, <1>19 DEF CInv

\* A server takes a name nobody listens on: no stream was ever handed there.
LEMMA ServerListenPreserves ==
    ASSUME CInv, NEW v \in Servers, NEW p \in Peers, NEW s \in Services, ServerListen(v, p, s)
    PROVE  CInv'
<1>0. /\ UNCHANGED <<streams, ends, user, conns, replies, handed>>
      /\ listeners[<<p, s>>] = None /\ listeners' = [listeners EXCEPT ![<<p, s>>] = v]
      /\ listeners \in [Peers \X Services -> Servers \cup {None}]
  BY DEF ServerListen, CInv, Types
<1>1. Types'
  BY <1>0 DEF CInv, Types
<1>2. Unborn' /\ Sides' /\ ForService'
  BY <1>0 DEF CInv, Unborn, Sides, ForService
<1>3. OwnerExact' /\ QueuesIdle' /\ QueuesApart'
  BY <1>0 DEF CInv, OwnerExact, QueuesIdle, QueuesApart, Idle
<1>4. Served'
  <2>1. \A x \in Peers \X Services : listeners[x] # None => listeners'[x] = listeners[x]
    BY <1>0
  <2>2. ASSUME NEW n \in 1..MaxStreams, replies[n] = "ok"
        PROVE  handed[n] = listeners'[<<streams[n].peer, streams[n].service>>]
    <3>1. n \in DOMAIN streams /\ streams[n].parent = None
      BY <2>2 DEF CInv, Served
    <3>2. streams[n] \in StreamRec /\ streams[n].service \in Services
      BY <3>1, SeqFacts DEF CInv, Types, ForService
    <3>3. <<streams[n].peer, streams[n].service>> \in Peers \X Services
      BY <3>2 DEF StreamRec
    <3> QED BY <2>1, <2>2, <3>3 DEF CInv, Served
  <2> QED BY <1>0, <2>2 DEF CInv, Served
<1> QED BY <1>1, <1>2, <1>3, <1>4 DEF CInv

LEMMA InitCInv == Init => CInv
<1> SUFFICES ASSUME Init PROVE CInv
  OBVIOUS
<1>1. /\ streams = <<>> /\ ends = [e \in Ends |-> NoEnd] /\ user = [u \in Users |-> Null]
      /\ conns = [v \in Servers |-> <<>>] /\ replies = [n \in 1..MaxStreams |-> "none"]
      /\ listeners = [ps \in Peers \X Services |-> None]
      /\ handed = [n \in 1..MaxStreams |-> None]
  BY DEF Init
<1>2. /\ NoEnd \in EndRec /\ NoEnd.st = "none" /\ NoEnd.owner = None /\ NoEnd.subs = <<>>
  BY DEF NoEnd, EndRec, States, ListenModes
<1> HIDE DEF NoEnd
<1>3. Types
  <2>1. <<>> \in Seq(StreamRec) /\ Len(<<>>) = 0 /\ <<>> \in Seq(Ends)
    OBVIOUS
  <2> QED BY <1>1, <1>2, <2>1, StreamBound DEF Types
<1>4. DOMAIN <<>> = {} /\ DOMAIN streams = {}
  BY <1>1
<1>5. Unborn /\ OwnerExact
  BY <1>1, <1>2 DEF Unborn, OwnerExact
<1>6. \A n \in 1..MaxStreams : ends[Near(n)].st = "none" /\ ends[Far(n)].st = "none"
  BY <1>1, <1>2, EndNames
<1>7. Sides /\ ForService
  BY <1>4, <1>6 DEF Sides, ForService
<1>8. Served
  BY <1>1, <1>4, <1>6 DEF Served
<1>9. (\A v \in Servers : DOMAIN conns[v] = {}) /\ (\A p \in Ends : DOMAIN ends[p].subs = {})
  BY <1>1, <1>2, <1>4
<1>10. QueuesIdle /\ QueuesApart
  BY <1>9 DEF QueuesIdle, QueuesApart
<1> QED BY <1>3, <1>5, <1>7, <1>8, <1>10 DEF CInv

\* Steps of the peer lookup, and steps outside, leave the streams alone.
LEMMA RestPreserves ==
    ASSUME CInv, UNCHANGED connectVars
    PROVE  CInv'
<1>1. UNCHANGED <<streams, ends, user, listeners, conns, replies, handed>>
  BY DEF connectVars, serviceVars
<1>2. Types' /\ Unborn' /\ Sides' /\ ForService' /\ Served'
  BY <1>1 DEF CInv, Types, Unborn, Sides, ForService, Served
<1>3. OwnerExact' /\ QueuesIdle' /\ QueuesApart'
  BY <1>1 DEF CInv, OwnerExact, QueuesIdle, QueuesApart, Idle
<1> QED BY <1>2, <1>3 DEF CInv

LEMMA SpecCInv == Spec => []CInv
<1>1. CInv /\ [Next]_vars => CInv'
  <2> SUFFICES ASSUME CInv, [Next]_vars PROVE CInv'
    OBVIOUS
  <2>1. CASE UNCHANGED connectVars
    BY <2>1, RestPreserves
  <2>2. CASE AppNext
    <3>1. PICK u \in Users :
            \/ Disconnect(u)
            \/ \E mode \in Shutdowns : Shutdown(u, mode)
            \/ \E mode \in Modes : Listen(u, mode)
            \/ \E child \in Users : OpenSubstream(u, child) \/ AcceptSubstream(u, child)
            \/ \E v \in Servers : Accept(v, u)
      BY <2>2 DEF AppNext
    <3> QED BY <3>1, DisconnectPreserves, ShutdownPreserves, ListenPreserves,
               OpenSubstreamPreserves, AcceptSubstreamPreserves, AcceptPreserves
  <2>3. CASE RxNext
    BY <2>3, RxTopLevelPreserves, RxSubstreamPreserves, GotServiceRequestPreserves, ReplyPreserves
       DEF RxNext
  <2>4. CASE ServerNext
    BY <2>4, ServerListenPreserves DEF ServerNext
  <2>5. ASSUME NEW u \in Users, NEW p \in Peers, NEW s \in Services, NEW hint \in BOOLEAN,
               ConnectTo(u, p, s, hint)
        PROVE  CInv'
    BY <2>5, ConnectToPreserves
  <2>6. ASSUME NEW u \in Users, ConnectAt(u)
        PROVE  CInv'
    BY <2>6, RestPreserves DEF ConnectAt
  <2> QED BY <2>1, <2>2, <2>3, <2>4, <2>5, <2>6 DEF Next, vars
<1> QED BY <1>1, InitCInv, PTL DEF Spec

\* The variables keep their types.
THEOREM StreamConnectTypes == Spec => []TypeOK
<1>1. CInv => TypeOK
  <2> SUFFICES ASSUME CInv PROVE TypeOK
    OBVIOUS
  <2>1. \A n \in DOMAIN streams : streams[n].peer \in Peers /\ streams[n].service \in Services \cup {None}
    <3>1. \A n \in DOMAIN streams : streams[n] \in StreamRec
      BY SeqFacts DEF CInv, Types
    <3> QED BY <3>1 DEF StreamRec
  <2>2. \A e \in Ends : /\ ends[e].st \in States /\ ends[e].listen \in ListenModes
                        /\ ends[e].owner \in Users \cup {None}
    BY EndFields DEF CInv, Types
  <2> QED BY <2>1, <2>2 DEF CInv, Types, TypeOK
<1> QED BY <1>1, SpecCInv, PTL

\* However stream objects connect, accept, reconnect and are destroyed, a
\* stream object and its base stream point at each other and at nobody else.
THEOREM OwnersStayExact == Spec => []OwnerExact
<1>1. CInv => OwnerExact
  BY DEF CInv
<1> QED BY <1>1, SpecCInv, PTL

\* An incoming stream waits in one queue at one place, unowned, until it is
\* accepted: it is never handed over twice.
THEOREM StreamsHandedOnce == Spec => []HandedOnce
<1>1. CInv => HandedOnce
  <2> SUFFICES ASSUME CInv PROVE HandedOnce
    OBVIOUS
  <2>1. ASSUME NEW e \in Ends
        PROVE  Cardinality(Waiting(e)) <= 1 /\ (Waiting(e) # {} => ends[e].owner = None)
    <3>1. CASE Waiting(e) = {}
      BY <3>1, FS_EmptySet
    <3>2. CASE Waiting(e) # {}
      <4>1. PICK w \in Waiting(e) : TRUE
        BY <3>2
      <4>2. Waiting(e) = {w}
        <5> DEFINE V == {v \in Servers : \E i \in DOMAIN conns[v] : conns[v][i] = e}
                   P == {p \in Ends : \E i \in DOMAIN ends[p].subs : ends[p].subs[i] = e}
        <5>1. \A v, u \in V : v = u
          BY DEF CInv, QueuesApart
        <5>2. \A p, q \in P : p = q
          BY DEF CInv, QueuesApart
        <5>3. V = {} \/ P = {}
          BY DEF CInv, QueuesApart
        <5>4. Waiting(e) = V \cup P
          BY DEF Waiting
        <5> HIDE DEF V, P
        <5> QED BY <4>1, <5>1, <5>2, <5>3, <5>4
      <4>3. ends[e].owner = None
        BY <4>1 DEF Waiting, CInv, QueuesIdle, Idle
      <4>4. Cardinality({w}) = 1
        BY FS_Singleton
      <4>5. Cardinality(Waiting(e)) <= 1
        BY <4>2, <4>4
      <4> QED BY <4>3, <4>5
    <3> QED BY <3>1, <3>2
  <2>2. /\ \A v \in Servers : \A i, j \in DOMAIN conns[v] : conns[v][i] = conns[v][j] => i = j
        /\ \A p \in Ends : \A i, j \in DOMAIN ends[p].subs : ends[p].subs[i] = ends[p].subs[j] => i = j
    BY DEF CInv, QueuesApart
  <2> QED BY <2>1, <2>2 DEF HandedOnce
<1> QED BY <1>1, SpecCInv, PTL

\* The two ends of a stream agree: what the near end takes for a confirmed
\* stream was handed, at the far end, to the server of the service asked for.
THEOREM ConfirmedMeansServed == Spec => []ConnectedMeansServed
<1>1. CInv => ConnectedMeansServed
  <2> SUFFICES ASSUME CInv, NEW n \in DOMAIN streams, streams[n].parent = None,
                      ends[Near(n)].st = "connected"
               PROVE  /\ ends[Far(n)].st \in {"connected", "disconnected"}
                      /\ handed[n] # None
                      /\ handed[n] = listeners[<<streams[n].peer, streams[n].service>>]
    BY DEF ConnectedMeansServed
  <2>1. n \in 1..MaxStreams
    BY SeqFacts, StreamBound DEF CInv, Types
  <2> QED BY <2>1 DEF CInv, Served
<1> QED BY <1>1, SpecCInv, PTL
=============================================================================
