----------------------------- MODULE RelayTunnel -----------------------------
(***************************************************************************)
(* The Relay: clients talk to a Node through the Hub (hub/relay.py, the    *)
(* websocket handlers of hub/app.py, NodeRelayManager of node_hub.py).     *)
(*                                                                         *)
(* The Node keeps one link to the Hub and makes a new one when it is lost; *)
(* the Hub may notice the loss before or after that.  A client registers   *)
(* under the identifier of its ticket, agrees on keys with the Node and    *)
(* sends requests, which the Node serves side by side.  The sequence       *)
(* numbers of a session admit no gap in either direction.                  *)
(***************************************************************************)
EXTENDS Integers, FiniteSets, Sequences, SequencesExt

CONSTANTS
    Visit,        \* the connections that clients make
    SessionOf,    \* of every visit: the identifier of its ticket; the ticket of a
                  \* resource may serve more than one visit
    Session,
    MaxRequests,  \* bound: requests of a visit
    MaxLinks,     \* bound: links that the Node makes
    Nobody

ASSUME TunnelAssumption ==
    /\ IsFiniteSet(Visit)
    /\ SessionOf \in [Visit -> Session]
    /\ MaxRequests \in Nat \ {0}
    /\ MaxLinks \in Nat \ {0}
    /\ Nobody \notin Visit

Link == 1..MaxLinks
Request == 1..MaxRequests

VARIABLES
    link,      \* of every link: is it up at the Node, is its handler there at the Hub
    nodes,     \* RelayBroker._nodes: the Node's link, 0: none
    clients,   \* RelayBroker._clients: the visit of every session
    visit,     \* of every visit: how far the client is, how many frames it has read
    handler,   \* of every visit: how far relay_client() is
    sessions,  \* of every link: the visit whose keys each of its sessions has
    job,       \* of every visit and request: how far _dispatch() is, on which link, and
               \* the number of its answer
    outbound,  \* of every visit: frames from the client to the Hub
    down,      \* of every link: frames from the Hub to the Node
    up,        \* of every link: frames from the Node to the Hub
    inbound,   \* of every visit: frames from the Hub to the client
    garbled,   \* history: the visits that were sent what they could not read
    stale      \* history: was a link replaced before the Hub had noticed its loss

yvars == <<link, nodes, clients, visit, handler, sessions, job, outbound, down, up, inbound,
           garbled, stale>>

\* by: the visit whose keys the frame is sealed with; number: its sequence number.
Frame == [kind : {"hello", "request", "reset", "answer"}, by : Visit, number : 0..MaxRequests]
VisitPc == {"idle", "ready", "secure", "closed"}

TunnelTypeOK ==
    /\ link \in [Link -> [node : {"none", "up", "lost"}, hub : {"none", "serving", "over"}]]
    /\ nodes \in 0..MaxLinks
    /\ clients \in [Session -> Visit \cup {Nobody}]
    /\ visit \in [Visit -> [pc : VisitPc, read : 0..MaxRequests, sent : 0..MaxRequests]]
    /\ handler \in [Visit -> {"none", "serving", "leaving", "over"}]
    /\ sessions \in [Link -> [Session -> Visit \cup {Nobody}]]
    /\ job \in [Visit -> [Request -> [pc : {"none", "running", "sealed", "sent"},
                                      link : 0..MaxLinks, number : 0..MaxRequests]]]
    /\ outbound \in [Visit -> Seq(Frame)] /\ inbound \in [Visit -> Seq(Frame)]
    /\ down \in [Link -> Seq(Frame)] /\ up \in [Link -> Seq(Frame)]
    /\ garbled \subseteq Visit
    /\ stale \in BOOLEAN

TunnelInit ==
    /\ link = [k \in Link |-> [node |-> "none", hub |-> "none"]]
    /\ nodes = 0
    /\ clients = [s \in Session |-> Nobody]
    /\ visit = [v \in Visit |-> [pc |-> "idle", read |-> 0, sent |-> 0]]
    /\ handler = [v \in Visit |-> "none"]
    /\ sessions = [k \in Link |-> [s \in Session |-> Nobody]]
    /\ job = [v \in Visit |-> [r \in Request |-> [pc |-> "none", link |-> 0, number |-> 0]]]
    /\ outbound = [v \in Visit |-> <<>>] /\ inbound = [v \in Visit |-> <<>>]
    /\ down = [k \in Link |-> <<>>] /\ up = [k \in Link |-> <<>>]
    /\ garbled = {} /\ stale = FALSE

Packet(kind, v, number) == [kind |-> kind, by |-> v, number |-> number]

\* A frame goes into the websocket of a link; of one that is lost it does not come out.
Sent(queues, k, frame) ==
    IF link[k].node = "up" THEN [queues EXCEPT ![k] = Append(@, frame)] ELSE queues

-----------------------------------------------------------------------------
(* The Node's link: NodeRelayManager._run(), relay_node() *)

NextLink == Cardinality({k \in Link : link[k].node # "none"}) + 1

\* register_node(): the link takes the place of one the Hub may still believe in, with all
\* clients; _connect() begins without sessions.
NodeConnects ==
    /\ \A k \in Link : link[k].node # "up"
    /\ NextLink \in Link
    /\ link' = [link EXCEPT ![NextLink] = [node |-> "up", hub |-> "serving"]]
    /\ nodes' = NextLink
    /\ stale' = (stale \/ nodes # 0)
    /\ UNCHANGED <<clients, visit, handler, sessions, job, outbound, down, up, inbound, garbled>>

LinkIsLost(k) ==
    /\ link[k].node = "up"
    /\ link' = [link EXCEPT ![k].node = "lost"]
    /\ down' = [down EXCEPT ![k] = <<>>] /\ up' = [up EXCEPT ![k] = <<>>]
    /\ sessions' = [sessions EXCEPT ![k] = [s \in Session |-> Nobody]]
    /\ UNCHANGED <<nodes, clients, visit, handler, job, outbound, inbound, garbled, stale>>

\* unregister_node(): only the link that is registered.
Unregisters(k) == nodes = k

\* Then its clients are closed.
HubMissesNode(k) ==
    /\ link[k].hub = "serving" /\ link[k].node = "lost"
    /\ link' = [link EXCEPT ![k].hub = "over"]
    /\ IF Unregisters(k)
       THEN /\ nodes' = 0
            /\ clients' = [s \in Session |-> Nobody]
            /\ visit' = [v \in Visit |->
                  IF \E s \in Session : clients[s] = v THEN [visit[v] EXCEPT !.pc = "closed"]
                                                       ELSE visit[v]]
       ELSE UNCHANGED <<nodes, clients, visit>>
    /\ UNCHANGED <<handler, sessions, job, outbound, down, up, inbound, garbled, stale>>

-----------------------------------------------------------------------------
(* The Hub's handler of a client: relay_client(), relay_resource_client() *)

Closed(v) == [visit EXCEPT ![v].pc = "closed"]

\* register_client() raises if the session exists; the handler then leaves all the same.
ClientConnects(v) ==
    /\ visit[v].pc = "idle"
    /\ IF clients[SessionOf[v]] = Nobody
       THEN /\ clients' = [clients EXCEPT ![SessionOf[v]] = v]
            /\ handler' = [handler EXCEPT ![v] = "serving"]
            /\ visit' = [visit EXCEPT ![v].pc = "ready"]
            /\ outbound' = [outbound EXCEPT ![v] = <<Packet("hello", v, 0)>>]
       ELSE /\ handler' = [handler EXCEPT ![v] = "leaving"]
            /\ visit' = Closed(v)
            /\ UNCHANGED <<clients, outbound>>
    /\ UNCHANGED <<link, nodes, sessions, job, down, up, inbound, garbled, stale>>

\* Without a Node the client is closed.
HubForwards(v) ==
    /\ handler[v] = "serving" /\ outbound[v] # <<>>
    /\ outbound' = [outbound EXCEPT ![v] = Tail(@)]
    /\ IF nodes = 0
       THEN /\ visit' = Closed(v)
            /\ handler' = [handler EXCEPT ![v] = "leaving"]
            /\ UNCHANGED down
       ELSE /\ down' = Sent(down, nodes, Head(outbound[v]))
            /\ UNCHANGED <<visit, handler>>
    /\ UNCHANGED <<link, nodes, clients, sessions, job, up, inbound, garbled, stale>>

HubMissesClient(v) ==
    /\ handler[v] = "serving" /\ visit[v].pc = "closed"
    /\ handler' = [handler EXCEPT ![v] = "leaving"]
    /\ UNCHANGED <<link, nodes, clients, visit, sessions, job, outbound, down, up, inbound,
                   garbled, stale>>

\* unregister_client(), whichever visit has the session by now, and a reset to the Node.
HandlerLeaves(v) ==
    /\ handler[v] = "leaving"
    /\ handler' = [handler EXCEPT ![v] = "over"]
    /\ clients' = [clients EXCEPT ![SessionOf[v]] = Nobody]
    /\ down' = IF nodes = 0 THEN down ELSE Sent(down, nodes, Packet("reset", v, 0))
    /\ outbound' = [outbound EXCEPT ![v] = <<>>] /\ inbound' = [inbound EXCEPT ![v] = <<>>]
    /\ UNCHANGED <<link, nodes, visit, sessions, job, up, garbled, stale>>

-----------------------------------------------------------------------------
(* The Node: _receive_frame(), _dispatch() *)

\* A frame that cannot be read is dropped.
NodeReceives(k) ==
    LET frame == Head(down[k])
        s == SessionOf[frame.by]
        holder == sessions[k][s]
    IN  /\ link[k].node = "up" /\ down[k] # <<>>
        /\ down' = [down EXCEPT ![k] = Tail(@)]
        /\ \/ /\ frame.kind = "reset"
              /\ sessions' = [sessions EXCEPT ![k][s] = Nobody]
              /\ UNCHANGED <<job, up>>
           \/ /\ frame.kind = "hello" /\ holder = Nobody
              /\ sessions' = [sessions EXCEPT ![k][s] = frame.by]
              /\ up' = [up EXCEPT ![k] = Append(@, Packet("hello", frame.by, 0))]
              /\ UNCHANGED job
           \/ /\ frame.kind = "request" /\ holder = frame.by
              /\ job' = [job EXCEPT ![frame.by][frame.number] =
                    [pc |-> "running", link |-> k, number |-> 0]]
              /\ UNCHANGED <<sessions, up>>
           \/ /\ \/ frame.kind = "hello" /\ holder # Nobody
                 \/ frame.kind = "request" /\ holder # frame.by
              /\ UNCHANGED <<sessions, job, up>>
        /\ UNCHANGED <<link, nodes, clients, visit, handler, outbound, inbound, garbled, stale>>

Jobs(v, pcs) == {r \in Request : job[v][r].pc \in pcs}

\* Mutation: numbers are taken without the lock.
SendLockFree_Never(v) == TRUE

\* session.send_lock
SendLockFree(v) == Jobs(v, {"sealed"}) = {}

\* _send_encrypted(): the number is taken with the lock held.
Seals(v, r) ==
    /\ job[v][r].pc = "running" /\ SendLockFree(v)
    /\ job' = [job EXCEPT ![v][r].pc = "sealed",
                          ![v][r].number = Cardinality(Jobs(v, {"sealed", "sent"})) + 1]
    /\ UNCHANGED <<link, nodes, clients, visit, handler, sessions, outbound, down, up, inbound,
                   garbled, stale>>

\* It goes to the link on which the request came, whether or not the session is still there.
Answers(v, r) ==
    /\ job[v][r].pc = "sealed"
    /\ job' = [job EXCEPT ![v][r].pc = "sent"]
    /\ up' = Sent(up, job[v][r].link, Packet("answer", v, job[v][r].number))
    /\ UNCHANGED <<link, nodes, clients, visit, handler, sessions, outbound, down, inbound,
                   garbled, stale>>

\* send_to_client(): to the visit that is registered under the session.
HubReturns(k) ==
    LET frame == Head(up[k])
        to == clients[SessionOf[frame.by]]
    IN  /\ link[k].hub = "serving" /\ up[k] # <<>>
        /\ up' = [up EXCEPT ![k] = Tail(@)]
        /\ inbound' = IF to = Nobody THEN inbound ELSE [inbound EXCEPT ![to] = Append(@, frame)]
        /\ UNCHANGED <<link, nodes, clients, visit, handler, sessions, job, outbound, down,
                       garbled, stale>>

-----------------------------------------------------------------------------
(* The client, as RemoteModelProvider._relay_rpc() is one *)

ClientReceives(v) ==
    LET frame == Head(inbound[v])
        mine == frame.by = v
    IN  /\ visit[v].pc \in {"ready", "secure"} /\ inbound[v] # <<>>
        /\ inbound' = [inbound EXCEPT ![v] = Tail(@)]
        /\ \/ /\ visit[v].pc = "ready" /\ mine /\ frame.kind = "hello"
              /\ visit' = [visit EXCEPT ![v].pc = "secure"]
              /\ UNCHANGED garbled
           \/ /\ visit[v].pc = "secure" /\ mine /\ frame.number = visit[v].read + 1
              /\ visit' = [visit EXCEPT ![v].read = @ + 1]
              /\ UNCHANGED garbled
           \/ /\ IF visit[v].pc = "ready" THEN ~mine \/ frame.kind # "hello"
                                          ELSE ~mine \/ frame.number # visit[v].read + 1
              /\ visit' = Closed(v)
              /\ garbled' = garbled \cup {v}
        /\ UNCHANGED <<link, nodes, clients, handler, sessions, job, outbound, down, up, stale>>

ClientAsks(v) ==
    /\ visit[v].pc = "secure" /\ visit[v].sent < MaxRequests
    /\ visit' = [visit EXCEPT ![v].sent = @ + 1]
    /\ outbound' = [outbound EXCEPT ![v] = Append(@, Packet("request", v, visit[v].sent + 1))]
    /\ UNCHANGED <<link, nodes, clients, handler, sessions, job, down, up, inbound, garbled, stale>>

\* It is content, gives up or dies.
ClientCloses(v) ==
    /\ visit[v].pc \in {"ready", "secure"}
    /\ visit' = Closed(v)
    /\ UNCHANGED <<link, nodes, clients, handler, sessions, job, outbound, down, up, inbound,
                   garbled, stale>>

-----------------------------------------------------------------------------

Linking(k) == HubMissesNode(k) \/ NodeReceives(k) \/ HubReturns(k)
Handling(v) == HubForwards(v) \/ HubMissesClient(v) \/ HandlerLeaves(v)
Dispatching(v) == \E r \in Request : Seals(v, r) \/ Answers(v, r)

Tied == NodeConnects \/ \E k \in Link : LinkIsLost(k) \/ Linking(k)
Visiting(v) ==
    \/ ClientConnects(v) \/ ClientReceives(v) \/ ClientAsks(v) \/ ClientCloses(v)
    \/ Handling(v) \/ Dispatching(v)

TunnelNext == Tied \/ \E v \in Visit : Visiting(v)

\* The event loops go on, requests are served, lost connections are noticed in the end
\* (pings); nobody is bound to reconnect.
TunnelFairness ==
    /\ \A k \in Link : WF_yvars(HubMissesNode(k)) /\ WF_yvars(NodeReceives(k)) /\ WF_yvars(HubReturns(k))
    /\ \A v \in Visit : WF_yvars(Handling(v)) /\ WF_yvars(Dispatching(v)) /\ WF_yvars(ClientReceives(v))

TunnelSpec == TunnelInit /\ [][TunnelNext]_yvars /\ TunnelFairness

-----------------------------------------------------------------------------

OwnTicket == {v \in Visit : \A w \in Visit : SessionOf[w] = SessionOf[v] => w = v}

\* NodeCipherSession and _send_encrypted(): the frames of a session arrive in the order of
\* their numbers, though requests are served side by side and links come and go.  Only a
\* visit whose ticket another one has used before may get what is not for it.
ReadsItsOwn == garbled \cap OwnTicket = {}

\* RelayBroker: who is registered is still served, and who is served under a ticket of his
\* own is registered.
RegistryIsTrue ==
    /\ \A s \in Session : clients[s] # Nobody => handler[clients[s]] \in {"serving", "leaving"}
    /\ \A v \in OwnTicket :
          handler[v] = "serving" /\ visit[v].pc # "closed" => clients[SessionOf[v]] = v

\* relay_client(): no session stays at the Node after its client has left, once the reset that
\* is under way has arrived.
SessionsEnd ==
    \A k \in Link, s \in Session :
        LET v == sessions[k][s]
        IN  v # Nobody /\ handler[v] = "over" =>
                \E w \in Visit : SessionOf[w] = s /\ Packet("reset", w, 0) \in Range(down[k])

TunnelSound == ReadsItsOwn /\ RegistryIsTrue /\ SessionsEnd

Expects(v) == visit[v].pc = "ready" \/ (visit[v].pc = "secure" /\ visit[v].read < visit[v].sent)

\* unregister_node() and send_to_node(): a client with a ticket of its own gets its answers or
\* is closed, also when the Node is lost; unless the Node was back before the Hub had noticed,
\* in which case the client stays registered and the Node does not know its session.
ClientIsServed == \A v \in OwnTicket : Expects(v) ~> ~Expects(v) \/ stale

=============================================================================
