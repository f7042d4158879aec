------------------------------ MODULE MqttHub ------------------------------
(***************************************************************************)
(* The MQTT broker of cave-home-mqtt: the router (broker/mod.rs, session.rs *)
(* and retain.rs) inside the server's Hub (runtime/mod.rs).                *)
(*                                                                         *)
(* serve_stream is one task per connection.  The broker and the registry   *)
(* of connections have a lock each, never held together, so a task's steps *)
(* are what it does under one of them; the packets a broker step returns   *)
(* travel in the task's acts until it dispatches them.                     *)
(*                                                                         *)
(* There is one topic and one filter, which matches it.  A message is the  *)
(* number its publisher gave it, the connection it came in by (via), its   *)
(* QoS and its kind: retained, clearing (retained, without payload), will  *)
(* or plain.  What a client does with its connections is external: wire    *)
(* holds a packet sent and not yet read, got what the client has read.     *)
(***************************************************************************)
EXTENDS Integers, Sequences, FiniteSets

CONSTANTS
    Clients,
    Publishers,      \* the clients that publish; the others subscribe
    Conns,           \* connections, numbered in the order a client opens them
    ClientOf,        \* [Conns -> Clients]
    ConnectOptions,  \* by connection: [clean_start, persistent, will (its kind, if any)]
    Subscriptions,   \* [qos: 0..2, no_local, if_new: BOOLEAN]
    Kinds,           \* the kinds of message published
    QosOf,           \* the QoS a publisher's messages may have, in their order
    MaxOpen,         \* bound: connections opened
    MaxMsg,          \* bound: messages per publisher
    Leaving,         \* bound: the connections a client may end with DISCONNECT
    MaxAsk,          \* bound: subscribes and unsubscribes per client
    MaxId            \* the largest packet identifier (65535 in the code)

ASSUME ConnsAssumption == Conns \subseteq Nat \ {0} /\ ClientOf \in [Conns -> Clients]
ASSUME MaxIdAssumption == MaxId \in Nat \ {0}

VARIABLES
    sessions,  \* Broker.sessions; present is FALSE for an absent entry
    wills,     \* Broker.wills: the connection whose will is stored
    retained,  \* Broker.retained
    conns,     \* Hub.conns: the registered connection, 0 if none
    pc,        \* the task of a connection
    acts,      \* what a broker step returned, not dispatched yet: publishes by
               \* client, replies to the task's own client
    tx,        \* publishes handed to the writer of a connection
    replies,   \* acknowledgements handed to the writer
    \* the clients
    wire, got, sent, asked, stage,
    \* history variables
    owner,     \* the connection of the last accepted CONNECT
    addressed, \* messages of QoS 1 and 2 addressed to a client
    routed,    \* QoS 2 messages routed
    twice,     \* QoS 2 messages routed more than once
    dropped,   \* clients that lost a session
    stale,     \* clients of which a superseded connection reached the broker
    raced,     \* clients with a teardown during a takeover
    overrun    \* clients whose queue held an identifier twice when it was resumed

broker_vars == <<sessions, wills, retained>>
client_vars == <<wire, got, sent, asked, stage>>
history_vars == <<owner, addressed, routed, twice, dropped, stale, raced, overrun>>
vars == <<broker_vars, conns, pc, acts, tx, replies, client_vars, history_vars>>

Session0 == [present |-> FALSE, connected |-> FALSE, persistent |-> FALSE, sub |-> {},
             next_packet_id |-> 0, outgoing_unacked |-> {}, outgoing_pubrel |-> {},
             incoming_qos2 |-> {}, queued |-> <<>>]

Least(a, b) == IF a <= b THEN a ELSE b

Ids(S) == {p.packet_id : p \in S}

\* The identifiers next_id leaves out: those of messages sent and not yet
\* acknowledged, not those of the queue.
Outstanding(s) == Ids(s.outgoing_unacked) \cup s.outgoing_pubrel

\* next_id: the next identifier, cyclically, that is not outstanding.  When all
\* are, the code goes round for ever; HasId is the guard of the steps that call it.
next_id(s) ==
    LET id(i) == ((s.next_packet_id + i - 1) % MaxId) + 1
        free(i) == id(i) \notin Outstanding(s)
    IN  id(CHOOSE i \in 1 .. MaxId : free(i) /\ \A j \in 1 .. i - 1 : ~free(j))

HasId(s) == 1 .. MaxId \ Outstanding(s) # {}

Packet(m, q, id) == [msg |-> m, qos |-> q, packet_id |-> id]

\* An entry of outgoing_unacked, replacing one with its identifier.
Unacked(S, p) == {u \in S : u.packet_id # p.packet_id} \cup {p}

-----------------------------------------------------------------------------
(* The router.                                                             *)

\* The QoS client c gets a message m of connection k with, if any.
Grants(c, k, m) ==
    {Least(m.qos, u.qos) : u \in {u \in sessions[c].sub : ~(u.no_local /\ c = ClientOf[k])}}

\* Mutants of Routed: an offline session is only given an identifier; it gets
\* the message in front of what is queued.
RoutedOnline(s, m, q) ==
    IF q = 0 THEN s
    ELSE LET p == Packet(m, q, next_id(s))
         IN  [s EXCEPT !.next_packet_id = p.packet_id,
                       !.outgoing_unacked = IF s.connected THEN Unacked(@, p) ELSE @]

RoutedFront(s, m, q) ==
    IF q = 0 THEN s
    ELSE LET p == Packet(m, q, next_id(s))
         IN  [s EXCEPT !.next_packet_id = p.packet_id,
                       !.outgoing_unacked = IF s.connected THEN Unacked(@, p) ELSE @,
                       !.queued = IF s.connected THEN @ ELSE <<p>> \o @]

\* route_publish for one session and granted QoS.
Routed(s, m, q) ==
    IF q = 0 THEN s
    ELSE LET p == Packet(m, q, next_id(s))
         IN  [s EXCEPT !.next_packet_id = p.packet_id,
                       !.outgoing_unacked = IF s.connected THEN Unacked(@, p) ELSE @,
                       !.queued = IF s.connected THEN @ ELSE Append(@, p)]

\* The sessions after routing m, and the packets to dispatch, by client.
RoutedSessions(k, m) ==
    [c \in Clients |->
        IF Grants(c, k, m) = {} THEN sessions[c]
        ELSE Routed(sessions[c], m, CHOOSE q \in Grants(c, k, m) : TRUE)]

RoutedPublishes(k, m) ==
    [c \in Clients |->
        IF Grants(c, k, m) = {} \/ ~sessions[c].connected THEN <<>>
        ELSE LET q == CHOOSE q \in Grants(c, k, m) : TRUE
             IN  <<Packet(m, q, IF q = 0 THEN 0 ELSE next_id(sessions[c]))>>]

NoPackets == [c \in Clients |-> <<>>]
NoActs == [publishes |-> NoPackets, replies |-> {}]

\* route_publish comes to an end.
Routable(k, m) == \A c \in Clients : Grants(c, k, m) \ {0} # {} => HasId(sessions[c])

\* RetainedStore::apply.
apply(m) ==
    retained' = CASE m.kind = "retained" -> {m}
                  [] m.kind = "clearing" -> {}
                  [] OTHER -> retained

Addressed(k, m) ==
    [c \in Clients |-> addressed[c] \cup {x \in {m} : Grants(c, k, m) \ {0} # {}}]

\* detach, of the session s.
detach(s) == IF s.persistent THEN [s EXCEPT !.connected = FALSE] ELSE Session0

-----------------------------------------------------------------------------
(* The Hub: connecting and parting.                                        *)

Opened(k) == pc[k] # "new"
Latest(k) == Opened(k) /\ \A j \in Conns : ClientOf[j] = ClientOf[k] /\ Opened(j) => j <= k

\* The session after a CONNECT: resumed or new, its queue drained.
Resumed(c, o) ==
    LET s == IF o.clean_start THEN Session0 ELSE sessions[c]
    IN  [s EXCEPT !.present = TRUE, !.connected = TRUE, !.persistent = o.persistent,
                  !.queued = <<>>,
                  !.outgoing_unacked =
                      {u \in @ : \A i \in 1 .. Len(s.queued) : s.queued[i].packet_id # u.packet_id}
                      \cup {s.queued[i] : i \in
                               {i \in 1 .. Len(s.queued) : \A j \in i + 1 .. Len(s.queued) :
                                   s.queued[j].packet_id # s.queued[i].packet_id}}]

\* A queued message has the identifier of another one, queued or unacknowledged:
\* only the last of them stays in outgoing_unacked when the session is resumed.
Collides(s) ==
    \E i \in 1 .. Len(s.queued) :
        \/ s.queued[i].packet_id \in Ids(s.outgoing_unacked)
        \/ \E j \in 1 .. i - 1 : s.queued[j].packet_id = s.queued[i].packet_id

\* Broker::connect, under the broker's lock; a CONNECT that authentication
\* rejects changes nothing.  The Close it sends to the old
\* connection of a takeover only ends what the client no longer reads.
Connect(k) ==
    LET c == ClientOf[k]
    IN  /\ pc[k] = "new"
        /\ Cardinality({j \in Conns : Opened(j)}) < MaxOpen
        /\ \A j \in Conns : ClientOf[j] = c /\ j < k => Opened(j)
        /\ \E o \in ConnectOptions[k] :
             /\ sessions' = [sessions EXCEPT ![c] = Resumed(c, o)]
             /\ wills' = [wills EXCEPT ![c] = {[via |-> k, n |-> 0, qos |-> 1, kind |-> x] : x \in o.will}]
             /\ acts' = [acts EXCEPT ![k].publishes[c] =
                            IF o.clean_start THEN <<>> ELSE sessions[c].queued]
             /\ dropped' = dropped \cup {x \in {c} : o.clean_start /\ sessions[c].present}
        /\ overrun' = overrun \cup {x \in {c} : Collides(sessions[c])}
        /\ owner' = [owner EXCEPT ![c] = k]
        /\ raced' = (raced \ {c}) \cup
                       {x \in {c} : \E j \in Conns : ClientOf[j] = c /\ pc[j] = "detaching"}
        /\ pc' = [pc EXCEPT ![k] = "connecting"]
        /\ UNCHANGED <<retained, conns, tx, replies, client_vars, addressed, routed, twice, stale>>

\* The rest of on_connect: the drained queue goes to the connection's own
\* writer, then the registry gets the connection.
Register(k) ==
    LET c == ClientOf[k]
    IN  /\ pc[k] = "connecting"
        /\ tx' = [tx EXCEPT ![k] = @ \o acts[k].publishes[c]]
        /\ acts' = [acts EXCEPT ![k] = NoActs]
        /\ conns' = [conns EXCEPT ![c] = k]
        /\ pc' = [pc EXCEPT ![k] = "serving"]
        /\ UNCHANGED <<broker_vars, replies, client_vars, history_vars>>

\* Registered, and with a stream the client still reads from.
Written(j) == conns[ClientOf[j]] = j /\ pc[j] # "closing" /\ Latest(j)

\* dispatch, under the registry's lock: to whoever is registered now.
Dispatch(k) ==
    /\ pc[k] \in {"dispatching", "parting"}
    /\ tx' = [j \in Conns |->
                 IF Written(j) THEN tx[j] \o acts[k].publishes[ClientOf[j]] ELSE tx[j]]
    /\ replies' = [j \in Conns |->
                      IF Written(j) /\ ClientOf[j] = ClientOf[k]
                      THEN replies[j] \cup acts[k].replies ELSE replies[j]]
    /\ acts' = [acts EXCEPT ![k] = NoActs]
    /\ pc' = [pc EXCEPT ![k] = IF @ = "parting" THEN "done" ELSE "serving"]
    /\ UNCHANGED <<broker_vars, conns, client_vars, history_vars>>

\* What neither side has read of a stream that ends is lost.
Cut(k) ==
    /\ wire' = [wire EXCEPT ![k] = {}]
    /\ tx' = [tx EXCEPT ![k] = SubSeq(@, 1, got[k])]
    /\ replies' = [replies EXCEPT ![k] = {}]

\* The stream ends or fails.
ReadEnd(k) ==
    /\ pc[k] = "serving"
    /\ pc' = [pc EXCEPT ![k] = "closing"]
    /\ Cut(k)
    /\ UNCHANGED <<broker_vars, conns, acts, got, sent, asked, stage, history_vars>>

\* Mutant of Unregister: a superseded connection goes on to detach.
UnregisterAny(k) ==
    LET c == ClientOf[k]
        mine == conns[c] = k
    IN  /\ pc[k] = "closing"
        /\ conns' = [conns EXCEPT ![c] = IF mine THEN 0 ELSE @]
        /\ pc' = [pc EXCEPT ![k] = "detaching"]
        /\ raced' = raced \cup
                 {x \in {c} : mine /\ \E j \in Conns : ClientOf[j] = c /\ pc[j] = "connecting"}
        /\ UNCHANGED <<broker_vars, acts, tx, replies, client_vars,
                       owner, addressed, routed, twice, dropped, stale, overrun>>

\* disconnect: only the registered connection goes on to detach.
Unregister(k) ==
    LET c == ClientOf[k]
        mine == conns[c] = k
    IN  /\ pc[k] = "closing"
        /\ conns' = [conns EXCEPT ![c] = IF mine THEN 0 ELSE @]
        /\ pc' = [pc EXCEPT ![k] = IF mine THEN "detaching" ELSE "done"]
        /\ raced' = raced \cup
                 {x \in {c} : mine /\ \E j \in Conns : ClientOf[j] = c /\ pc[j] = "connecting"}
        /\ UNCHANGED <<broker_vars, acts, tx, replies, client_vars,
                       owner, addressed, routed, twice, dropped, stale, overrun>>

Detached(S, c) == [S EXCEPT ![c] = detach(@)]

\* Broker::network_disconnect: the will, then detach.
NetworkDisconnect(k) ==
    LET c == ClientOf[k]
    IN  /\ pc[k] = "detaching"
        /\ wills' = [wills EXCEPT ![c] = {}]
        /\ IF wills[c] = {}
           THEN /\ sessions' = Detached(sessions, c)
                /\ UNCHANGED <<retained, acts, addressed>>
           ELSE \E m \in wills[c] :
                /\ Routable(k, m)
                /\ apply(m)
                /\ sessions' = Detached(RoutedSessions(k, m), c)
                /\ addressed' = Addressed(k, m)
                /\ acts' = [acts EXCEPT ![k].publishes = RoutedPublishes(k, m)]
        /\ dropped' = dropped \cup {x \in {c} : ~sessions[c].persistent}
        /\ pc' = [pc EXCEPT ![k] = IF wills[c] = {} THEN "done" ELSE "parting"]
        /\ UNCHANGED <<conns, tx, replies, client_vars, owner, routed, twice, stale, raced, overrun>>

-----------------------------------------------------------------------------
(* The Hub: handle, the packets after CONNECT.                             *)

\* The task of k reads a packet of this type.
Reads(k, type, p) == pc[k] = "serving" /\ wire[k] = {p} /\ p.type = type

\* A superseded connection is served like any other.
Served(k) ==
    /\ wire' = [wire EXCEPT ![k] = {}]
    /\ stale' = stale \cup {c \in {ClientOf[k]} : owner[c] # k}

\* The stored message m as the subscription u gets it, and the session then.
Stored(s, m, u) ==
    LET q == Least(m.qos, u.qos)
    IN  Packet([m EXCEPT !.kind = "stored"], q, IF q = 0 THEN 0 ELSE next_id(s))

Replayed(s, r) ==
    IF r.qos = 0 THEN s
    ELSE [s EXCEPT !.next_packet_id = r.packet_id, !.outgoing_unacked = Unacked(@, r)]

on_subscribe(k) ==
    LET c == ClientOf[k]
    IN  \E p \in wire[k] :
        /\ Reads(k, "subscribe", p)
        /\ LET s == [sessions[c] EXCEPT !.sub = {u \in {p.sub} : sessions[c].present}]
               M == IF s.present /\ ~(p.sub.if_new /\ sessions[c].sub # {}) THEN retained ELSE {}
           IN  IF M = {}
               THEN /\ sessions' = [sessions EXCEPT ![c] = s]
                    /\ UNCHANGED <<acts, addressed>>
               ELSE \E m \in M :
                    LET r == Stored(s, m, p.sub)
                    IN  /\ Least(m.qos, p.sub.qos) > 0 => HasId(s)
                        /\ sessions' = [sessions EXCEPT ![c] = Replayed(s, r)]
                        /\ acts' = [acts EXCEPT ![k].publishes[c] = <<r>>]
                        /\ addressed' = [addressed EXCEPT ![c] =
                               @ \cup {x \in {r.msg} : r.qos > 0}]
        /\ pc' = [pc EXCEPT ![k] = "dispatching"]
        /\ Served(k)
        /\ UNCHANGED <<wills, retained, conns, tx, replies, got, sent, asked, stage,
                       owner, routed, twice, dropped, raced, overrun>>

on_unsubscribe(k) ==
    \E p \in wire[k] :
        /\ Reads(k, "unsubscribe", p)
        /\ sessions' = [sessions EXCEPT ![ClientOf[k]].sub = {}]
        /\ Served(k)
        /\ UNCHANGED <<wills, retained, conns, pc, acts, tx, replies, got, sent, asked, stage,
                       owner, addressed, routed, twice, dropped, raced, overrun>>

\* The acknowledgement of a publish.
Reply(m) == IF m.qos = 0 THEN {} ELSE {[type |-> IF m.qos = 1 THEN "puback" ELSE "pubrec", ok |-> m.kind # "refused", packet_id |-> 1]}

\* Mutant of Duplicate: publishes are not compared with the open handshakes.
DuplicateNever(c, m) == FALSE

\* A QoS 2 publish whose handshake is open; publishers use the identifier 1.
Duplicate(c, m) == m.qos = 2 /\ 1 \in sessions[c].incoming_qos2

\* Refused by the hook or the ACL, a duplicate, or routed.
on_publish(k) ==
    LET c == ClientOf[k]
    IN  \E p \in wire[k] :
        /\ Reads(k, "publish", p)
        /\ LET m == [p.msg EXCEPT !.via = k]
               id == {<<c, x.n>> : x \in {x \in {m} : x.qos = 2}}
           IN  IF m.kind = "refused" \/ Duplicate(c, m)
               THEN /\ acts' = [acts EXCEPT ![k].replies = Reply(m)]
                    /\ UNCHANGED <<sessions, retained, addressed, routed, twice>>
               ELSE /\ Routable(k, m)
                    /\ apply(m)
                    /\ sessions' = [RoutedSessions(k, m) EXCEPT
                           ![c].incoming_qos2 = @ \cup {x \in {1} : m.qos = 2 /\ sessions[c].present}]
                    /\ acts' = [acts EXCEPT ![k] = [publishes |-> RoutedPublishes(k, m),
                                                    replies |-> Reply(m)]]
                    /\ addressed' = Addressed(k, m)
                    /\ twice' = twice \cup (id \cap routed)
                    /\ routed' = routed \cup id
        /\ pc' = [pc EXCEPT ![k] = "dispatching"]
        /\ Served(k)
        /\ UNCHANGED <<wills, conns, tx, replies, got, sent, asked, stage, owner, dropped, raced,
                       overrun>>

\* PUBACK, PUBREC, PUBREL and PUBCOMP: what each removes, adds and answers.
on_ack(k) ==
    LET c == ClientOf[k]
        answer(type, p) == [acts EXCEPT ![k].replies =
                               {[type |-> type, ok |-> TRUE, packet_id |-> p.packet_id]}]
    IN  \E p \in wire[k] :
        /\ \/ /\ Reads(k, "puback", p)
              /\ sessions' = [sessions EXCEPT ![c].outgoing_unacked =
                                 {u \in @ : u.packet_id # p.packet_id}]
              /\ UNCHANGED <<acts, pc>>
           \/ /\ Reads(k, "pubrec", p)
              /\ sessions' = [sessions EXCEPT
                                 ![c].outgoing_unacked = {u \in @ : u.packet_id # p.packet_id},
                                 ![c].outgoing_pubrel =
                                     @ \cup {x \in {p.packet_id} : sessions[c].present}]
              /\ acts' = answer("pubrel", p)
              /\ pc' = [pc EXCEPT ![k] = "dispatching"]
           \/ /\ Reads(k, "pubrel", p)
              /\ sessions' = [sessions EXCEPT ![c].incoming_qos2 = @ \ {p.packet_id}]
              /\ acts' = answer("pubcomp", p)
              /\ pc' = [pc EXCEPT ![k] = "dispatching"]
           \/ /\ Reads(k, "pubcomp", p)
              /\ sessions' = [sessions EXCEPT ![c].outgoing_pubrel = @ \ {p.packet_id}]
              /\ UNCHANGED <<acts, pc>>
        /\ Served(k)
        /\ UNCHANGED <<wills, retained, conns, tx, replies, got, sent, asked, stage,
                       owner, addressed, routed, twice, dropped, raced, overrun>>

\* DISCONNECT: the will is discarded, unless the client asks to keep it, and
\* the session detached.
on_disconnect(k) ==
    LET c == ClientOf[k]
    IN  \E p \in wire[k] :
        /\ Reads(k, "disconnect", p)
        /\ wills' = [wills EXCEPT ![c] = IF p.with_will THEN @ ELSE {}]
        /\ sessions' = Detached(sessions, c)
        /\ dropped' = dropped \cup {x \in {c} : ~sessions[c].persistent}
        /\ raced' = raced \cup {x \in {c} : owner[c] # k}
        /\ pc' = [pc EXCEPT ![k] = "closing"]
        /\ Cut(k)
        /\ stale' = stale \cup {x \in {c} : owner[c] # k}
        /\ UNCHANGED <<retained, conns, acts, got, sent, asked, stage,
                       owner, addressed, routed, twice, overrun>>

-----------------------------------------------------------------------------
(* The clients, external.                                                  *)

\* The client can send on k: it got the CONNACK and opened no other since.
Live(k) == pc[k] \in {"serving", "dispatching"} /\ Latest(k) /\ wire[k] = {}

Send(k, p) == wire' = [wire EXCEPT ![k] = {p}]

\* A subscriber subscribes, and unsubscribes once it has read two publishes.
ClientAsks(k) ==
    LET c == ClientOf[k]
    IN  /\ c \notin Publishers
        /\ Live(k)
        /\ asked[c] < MaxAsk
        /\ asked' = [asked EXCEPT ![c] = @ + 1]
        /\ \/ asked[c] = 0 /\ \E u \in Subscriptions : Send(k, [type |-> "subscribe", sub |-> u])
           \/ got[k] > 1 /\ Send(k, [type |-> "unsubscribe"])
        /\ UNCHANGED <<broker_vars, conns, pc, acts, tx, replies, got, sent, stage, history_vars>>

\* A client between two messages leaves; one with a will asks to send it.
ClientLeaves(k) ==
    LET c == ClientOf[k]
    IN  /\ Live(k)
        /\ k \in Leaving
        /\ stage[c].phase = "idle"
        /\ Send(k, [type |-> "disconnect", with_will |-> wills[c] # {}])
        /\ UNCHANGED <<broker_vars, conns, pc, acts, tx, replies, got, sent, asked, stage,
                       history_vars>>

\* A client reads the next publish and acknowledges it.
ClientReceives(k) ==
    /\ Live(k)
    /\ got[k] < Len(tx[k])
    /\ LET p == tx[k][got[k] + 1]
       IN  /\ got' = [got EXCEPT ![k] = @ + 1]
           /\ IF p.qos = 0 THEN UNCHANGED wire
              ELSE Send(k, [type |-> IF p.qos = 1 THEN "puback" ELSE "pubrec",
                            packet_id |-> p.packet_id])
    /\ UNCHANGED <<broker_vars, conns, pc, acts, tx, replies, sent, asked, stage, history_vars>>

\* A publisher sends its next message, or again the one it has no answer for
\* on a connection it has not used yet.
ClientPublishes(k) ==
    LET c == ClientOf[k]
    IN  /\ c \in Publishers
        /\ Live(k)
        /\ \/ /\ stage[c].phase = "idle"
              /\ sent[c] < MaxMsg
              /\ \E kind \in Kinds, q \in QosOf[sent[c] + 1] :
                   LET m == [via |-> k, n |-> sent[c] + 1, qos |-> q, kind |-> kind]
                   IN  /\ Send(k, [type |-> "publish", msg |-> m])
                       /\ stage' = [stage EXCEPT ![c] =
                              [phase |-> IF q = 0 THEN "idle" ELSE "publish", msg |-> m, on |-> k]]
              /\ sent' = [sent EXCEPT ![c] = @ + 1]
           \/ /\ stage[c].phase = "publish"
              /\ stage[c].on # k
              /\ Send(k, [type |-> "publish", msg |-> stage[c].msg])
              /\ stage' = [stage EXCEPT ![c].on = k]
              /\ UNCHANGED sent
           \/ /\ stage[c].phase = "release"
              /\ stage[c].on # k
              /\ Send(k, [type |-> "pubrel", packet_id |-> 1])
              /\ stage' = [stage EXCEPT ![c].on = k]
              /\ UNCHANGED sent
        /\ UNCHANGED <<broker_vars, conns, pc, acts, tx, replies, got, asked, history_vars>>

\* A client reads an acknowledgement and goes on with the handshake.
ClientReads(k) ==
    LET c == ClientOf[k]
    IN  /\ Live(k)
        /\ \E r \in replies[k] :
             /\ replies' = [replies EXCEPT ![k] = @ \ {r}]
             /\ CASE r.type = "pubrel" ->
                       /\ Send(k, [type |-> "pubcomp", packet_id |-> r.packet_id])
                       /\ UNCHANGED stage
                  [] r.type = "pubrec" /\ r.ok /\ stage[c].phase = "publish" ->
                       /\ Send(k, [type |-> "pubrel", packet_id |-> 1])
                       /\ stage' = [stage EXCEPT ![c].phase = "release", ![c].on = k]
                  [] \/ r.type = "puback" /\ stage[c].phase = "publish"
                     \/ r.type = "pubrec" /\ ~r.ok /\ stage[c].phase = "publish"
                     \/ r.type = "pubcomp" /\ stage[c].phase = "release" ->
                       /\ stage' = [stage EXCEPT ![c] = [phase |-> "idle", msg |-> 0, on |-> 0]]
                       /\ UNCHANGED wire
                  [] OTHER -> UNCHANGED <<wire, stage>>
        /\ UNCHANGED <<broker_vars, conns, pc, acts, tx, got, sent, asked, history_vars>>

-----------------------------------------------------------------------------
Init ==
    /\ sessions = [c \in Clients |-> Session0]
    /\ wills = [c \in Clients |-> {}]
    /\ retained = {}
    /\ conns = [c \in Clients |-> 0]
    /\ pc = [k \in Conns |-> "new"]
    /\ acts = [k \in Conns |-> NoActs]
    /\ tx = [k \in Conns |-> <<>>]
    /\ replies = [k \in Conns |-> {}]
    /\ wire = [k \in Conns |-> {}]
    /\ got = [k \in Conns |-> 0]
    /\ sent = [c \in Clients |-> 0]
    /\ asked = [c \in Clients |-> 0]
    /\ stage = [c \in Clients |-> [phase |-> "idle", msg |-> 0, on |-> 0]]
    /\ owner = [c \in Clients |-> 0]
    /\ addressed = [c \in Clients |-> {}]
    /\ routed = {} /\ twice = {} /\ dropped = {} /\ stale = {} /\ raced = {} /\ overrun = {}

Next ==
    \E k \in Conns :
        \/ Connect(k) \/ Register(k) \/ Dispatch(k)
        \/ ReadEnd(k) \/ Unregister(k) \/ NetworkDisconnect(k)
        \/ on_subscribe(k) \/ on_unsubscribe(k) \/ on_publish(k)
        \/ on_ack(k) \/ on_disconnect(k)
        \/ ClientAsks(k) \/ ClientLeaves(k) \/ ClientReceives(k) \/ ClientPublishes(k) \/ ClientReads(k)

Spec == Init /\ [][Next]_vars

-----------------------------------------------------------------------------
(* Properties.                                                             *)

Received(c) == UNION {{tx[k][i].msg : i \in 1 .. got[k]} : k \in {k \in Conns : ClientOf[k] = c}}

\* A message is queued, unacknowledged or was read by the client.
Held(c, m) ==
    \/ \E i \in 1 .. Len(sessions[c].queued) : sessions[c].queued[i].msg = m
    \/ \E u \in sessions[c].outgoing_unacked : u.msg = m
    \/ m \in Received(c)

\* The session forgets no message of QoS 1 or 2: once route_publish or a
\* subscription addressed it to a session, the session holds it until the client
\* has read it, through any disconnects, resumptions, takeovers and reuse of
\* identifiers, as long as the session exists.  (It holds it; connect sends the
\* queue again, never what is unacknowledged.)  A session that was resumed with
\* an identifier twice in its queue is left out: next_id does not look there.
NothingForgotten ==
    \A c \in Clients \ (dropped \cup overrun) : \A m \in addressed[c] : Held(c, m)

\* session.rs: next_id allocates an identifier "not already in use by an
\* in-flight outbound message".  Without the exception for the queue it fails.
IdentifiersSuffice == \A c \in Clients \ dropped : \A m \in addressed[c] : Held(c, m)

\* Every connection gets the messages that came in by another one in the order
\* they were published, across the queue of a resumed session and what is
\* routed while it resumes (on_connect registers after it has sent the queue).
\* Stored messages sent on a subscription are outside this order.
DeliveryOrder ==
    \A k \in Conns : \A i, j \in 1 .. Len(tx[k]) :
        LET a == tx[k][i].msg  b == tx[k][j].msg
        IN  (i < j /\ a.via = b.via /\ {a.kind, b.kind} \cap {"stored"} = {} /\ a.n * b.n > 0)
                => a.n < b.n

\* QoS 2 messages are routed exactly once: a message sent again on a later
\* connection is recognised, and one the broker answered with PUBREC has been
\* routed, although its packet identifier was used before.  A session that was
\* discarded, or a superseded connection that still reached the broker, voids
\* both.
ExactlyOnce ==
    \A c \in Publishers \ (dropped \cup stale) :
        /\ \A n \in 1 .. MaxMsg : <<c, n>> \notin twice
        /\ stage[c].phase = "release" => <<c, stage[c].msg.n>> \in routed

\* The connection of the last CONNECT, once registered, holds its session.
Holds(k) ==
    LET c == ClientOf[k]
    IN  owner[c] = k /\ conns[c] = k /\ pc[k] \in {"serving", "dispatching"} =>
            sessions[c].present /\ sessions[c].connected /\ \A m \in wills[c] : m.via = k

\* A connection that is served and registered keeps its session, unless the
\* teardown of another one overlapped its CONNECT or the other one still sent
\* a DISCONNECT.
SessionHeld == \A k \in Conns : ClientOf[k] \notin raced => Holds(k)

\* Hub: "A monotonic connection id disambiguates session takeover so a
\* superseded connection cannot detach the new one."
CannotDetachNew == \A k \in Conns : Holds(k)

=============================================================================
