--------------------------- MODULE MqttHubProofs ---------------------------
(***************************************************************************)
(* A registered connection keeps its session, for any clients, connections *)
(* and messages.  The two locks make a takeover and a teardown several     *)
(* steps each, so the argument follows the connection of the last CONNECT  *)
(* from the broker's lock to the registry's.                               *)
(***************************************************************************)
EXTENDS MqttHub, TLAPS

Fields == {"present", "connected", "persistent", "sub", "next_packet_id", "outgoing_unacked",
           "outgoing_pubrel", "incoming_qos2", "queued"}

Session(s) == s = [f \in Fields |-> s[f]]

ByClient(f) == f = [c \in Clients |-> f[c]]

Shape ==
    /\ ByClient(sessions) /\ \A c \in Clients : Session(sessions[c])
    /\ ByClient(wills) /\ ByClient(conns) /\ ByClient(owner)
    /\ pc = [k \in Conns |-> pc[k]]

\* The session of c is the one connection k asked for.
Attached(c, k) == sessions[c].present /\ sessions[c].connected /\ \A m \in wills[c] : m.via = k

\* Between the two locks of on_connect, or registered and served.
Current(k) ==
    /\ owner[ClientOf[k]] = k
    /\ \/ pc[k] = "connecting"
       \/ conns[ClientOf[k]] = k /\ pc[k] \in {"serving", "dispatching"}

\* No other connection of its client is between the locks of disconnect.
Undisturbed(k) == \A j \in Conns : ClientOf[j] = ClientOf[k] => pc[j] # "detaching"

HubInv ==
    /\ Shape
    /\ \A k \in Conns : (ClientOf[k] \notin raced /\ Current(k)) =>
           Attached(ClientOf[k], k) /\ Undisturbed(k)

-----------------------------------------------------------------------------

\* Routing changes neither the presence nor the connection of a session.
LEMMA RoutedAttached ==
    ASSUME NEW s, Session(s), NEW m, NEW g
    PROVE  LET r == Routed(s, m, g)
           IN  Session(r) /\ r.present = s.present /\ r.connected = s.connected
<1> DEFINE p == Packet(m, g, next_id(s))
           U == IF s.connected THEN Unacked(s.outgoing_unacked, p) ELSE s.outgoing_unacked
           Q == IF s.connected THEN s.queued ELSE Append(s.queued, p)
           r == [s EXCEPT !.next_packet_id = p.packet_id, !.outgoing_unacked = U, !.queued = Q]
<1>1. Routed(s, m, g) = IF g = 0 THEN s ELSE r
  BY DEF Routed
<1> HIDE DEF p, U, Q
<1>2. Session(r) /\ r.present = s.present /\ r.connected = s.connected
  BY Zenon DEF Session, Fields
<1> QED
  BY <1>1, <1>2

LEMMA RoutedSessionsAttached ==
    ASSUME Shape, NEW k, NEW m
    PROVE  LET S == RoutedSessions(k, m)
           IN  /\ ByClient(S)
               /\ \A c \in Clients : /\ Session(S[c])
                                     /\ S[c].present = sessions[c].present
                                     /\ S[c].connected = sessions[c].connected
<1> DEFINE S == RoutedSessions(k, m)
           g(c) == CHOOSE q \in Grants(c, k, m) : TRUE
<1>1. S = [c \in Clients |-> IF Grants(c, k, m) = {} THEN sessions[c] ELSE Routed(sessions[c], m, g(c))]
  BY DEF RoutedSessions
<1> HIDE DEF S, g
<1>2. ByClient(S)
  BY <1>1 DEF ByClient
<1>3. ASSUME NEW c \in Clients
      PROVE  /\ Session(S[c])
             /\ S[c].present = sessions[c].present
             /\ S[c].connected = sessions[c].connected
  <2>1. Session(sessions[c])
    BY DEF Shape
  <2>2. S[c] = sessions[c] \/ S[c] = Routed(sessions[c], m, g(c))
    BY <1>1
  <2> QED
    BY <2>1, <2>2, RoutedAttached
<1> QED
  BY <1>2, <1>3 DEF S

\* A step that connects and parts nobody.
LEMMA Kept ==
    ASSUME HubInv, Shape', UNCHANGED <<wills, conns, owner, raced>>,
           \A k \in Conns : /\ pc'[k] \in {"serving", "dispatching"} => pc[k] \in {"serving", "dispatching"}
                            /\ pc'[k] \in {"connecting", "detaching"} => pc'[k] = pc[k],
           \A c \in Clients : /\ sessions'[c].present = sessions[c].present
                              /\ sessions'[c].connected = sessions[c].connected
    PROVE  HubInv'
<1> SUFFICES ASSUME NEW k \in Conns, ClientOf[k] \notin raced, Current(k)'
             PROVE  Attached(ClientOf[k], k)' /\ Undisturbed(k)'
  BY DEF HubInv
<1>1. ClientOf[k] \in Clients
  BY ConnsAssumption
<1>2. Current(k)
  BY DEF Current
<1>3. Attached(ClientOf[k], k) /\ Undisturbed(k)
  BY <1>2 DEF HubInv
<1>4. Attached(ClientOf[k], k)'
  BY <1>1, <1>3 DEF Attached
<1>5. Undisturbed(k)'
  BY <1>3 DEF Undisturbed
<1> QED
  BY <1>4, <1>5

\* Broker::connect: the connection becomes the current one of its client.
LEMMA ConnectKeeps ==
    ASSUME HubInv, NEW j \in Conns, Connect(j)
    PROVE  HubInv'
<1> DEFINE c == ClientOf[j]
<1>1. PICK o \in ConnectOptions[j] :
        /\ sessions' = [sessions EXCEPT ![c] = Resumed(c, o)]
        /\ wills' = [wills EXCEPT ![c] = {[via |-> j, n |-> 0, qos |-> 1, kind |-> x] : x \in o.will}]
  BY Zenon DEF Connect
<1>2. /\ owner' = [owner EXCEPT ![c] = j] /\ pc' = [pc EXCEPT ![j] = "connecting"]
      /\ conns' = conns
      /\ raced' = (raced \ {c}) \cup
                      {x \in {c} : \E i \in Conns : ClientOf[i] = c /\ pc[i] = "detaching"}
  BY DEF Connect
<1>3. c \in Clients
  BY ConnsAssumption
<1>4. /\ Session(Resumed(c, o))
      /\ Resumed(c, o).present /\ Resumed(c, o).connected
  <2>1. Session(IF o.clean_start THEN Session0 ELSE sessions[c])
    BY <1>3 DEF HubInv, Shape, Session, Fields, Session0
  <2> QED
    BY <2>1, ZenonT(60) DEF Resumed, Session, Fields
<1> HIDE DEF c
<1>5. Shape'
  BY <1>1, <1>2, <1>3, <1>4, Zenon DEF HubInv, Shape, ByClient
<1>6. /\ owner'[c] = j /\ sessions'[c] = Resumed(c, o)
      /\ \A m \in wills'[c] : m.via = j
      /\ \A d \in Clients : d # c => /\ owner'[d] = owner[d] /\ sessions'[d] = sessions[d]
                                     /\ wills'[d] = wills[d] /\ (d \in raced' <=> d \in raced)
      /\ \A k \in Conns : k # j => pc'[k] = pc[k]
      /\ pc'[j] = "connecting"
  BY <1>1, <1>2, <1>3 DEF HubInv, Shape, ByClient
<1>7. ASSUME NEW k \in Conns, ClientOf[k] \notin raced', Current(k)'
      PROVE  Attached(ClientOf[k], k)' /\ Undisturbed(k)'
  <2>1. CASE ClientOf[k] = c
    <3>1. k = j
      BY <1>6, <1>7, <2>1 DEF Current
    <3>2. \A i \in Conns : ClientOf[i] = c => pc[i] # "detaching"
      BY <1>2, <1>7, <2>1
    <3> QED
      BY <1>4, <1>6, <2>1, <3>1, <3>2 DEF Attached, Undisturbed
  <2>2. CASE ClientOf[k] # c
    <3>1. ClientOf[k] \in Clients /\ k # j
      BY <2>2, ConnsAssumption, Zenon DEF c
    <3>2. Current(k) /\ ClientOf[k] \notin raced
      BY <1>2, <1>6, <1>7, <2>2, <3>1 DEF Current
    <3>3. Attached(ClientOf[k], k) /\ Undisturbed(k)
      BY <3>2 DEF HubInv
    <3> QED
      BY <1>6, <2>2, <3>1, <3>3 DEF Attached, Undisturbed
  <2> QED
    BY <2>1, <2>2
<1> QED
  BY <1>5, <1>7 DEF HubInv

\* The rest of on_connect: a connection that is still its client's current one
\* stays so; one that was overtaken hides the one that overtook it.
LEMMA RegisterKeeps ==
    ASSUME HubInv, NEW j \in Conns, Register(j)
    PROVE  HubInv'
<1>1. /\ pc[j] = "connecting" /\ pc' = [pc EXCEPT ![j] = "serving"]
      /\ conns' = [conns EXCEPT ![ClientOf[j]] = j]
      /\ UNCHANGED <<sessions, wills, owner, raced>>
  BY DEF Register, broker_vars, history_vars
<1>2. Shape'
  BY <1>1, ConnsAssumption, Zenon DEF HubInv, Shape, ByClient
<1>3. /\ \A k \in Conns : k # j => pc'[k] = pc[k]
      /\ pc'[j] = "serving" /\ conns'[ClientOf[j]] = j
      /\ \A c \in Clients : c # ClientOf[j] => conns'[c] = conns[c]
  BY <1>1, ConnsAssumption DEF HubInv, Shape, ByClient
<1>4. ASSUME NEW k \in Conns, ClientOf[k] \notin raced', Current(k)'
      PROVE  Attached(ClientOf[k], k)' /\ Undisturbed(k)'
  <2>1. Current(k)
    BY <1>1, <1>3, <1>4, ConnsAssumption DEF Current
  <2>2. Attached(ClientOf[k], k) /\ Undisturbed(k)
    BY <1>1, <1>4, <2>1 DEF HubInv
  <2> QED
    BY <1>1, <1>3, <2>2 DEF Attached, Undisturbed
<1> QED
  BY <1>2, <1>4, SMTT(60) DEF HubInv

\* disconnect, at the registry: it takes a connection that is not the current
\* one out only while the current one is connecting.
LEMMA UnregisterKeeps ==
    ASSUME HubInv, NEW j \in Conns, Unregister(j)
    PROVE  HubInv'
<1> DEFINE c == ClientOf[j]
           mine == conns[c] = j
<1>1. /\ pc[j] = "closing"
      /\ pc' = [pc EXCEPT ![j] = IF mine THEN "detaching" ELSE "done"]
      /\ conns' = [conns EXCEPT ![c] = IF mine THEN 0 ELSE @]
      /\ raced' = raced \cup
             {x \in {c} : mine /\ \E i \in Conns : ClientOf[i] = c /\ pc[i] = "connecting"}
      /\ UNCHANGED <<sessions, wills, owner>>
  BY DEF Unregister, broker_vars
<1>2. c \in Clients
  BY ConnsAssumption
<1>3. Shape'
  <2>1. Shape /\ UNCHANGED <<sessions, wills, owner>>
    BY <1>1 DEF HubInv
  <2>2. conns' = [d \in Clients |-> conns'[d]]
    BY <1>1, <2>1, Zenon DEF Shape, ByClient
  <2>3. pc' = [k \in Conns |-> pc'[k]]
    BY <1>1, <2>1, Zenon DEF Shape
  <2> QED
    BY <2>1, <2>2, <2>3, Zenon DEF Shape, ByClient, Session
<1>4. /\ \A k \in Conns : k # j => pc'[k] = pc[k]
      /\ pc'[j] = (IF mine THEN "detaching" ELSE "done")
      /\ conns'[c] = (IF mine THEN 0 ELSE conns[c])
      /\ \A d \in Clients : d # c => conns'[d] = conns[d]
  BY <1>1, <1>2 DEF HubInv, Shape, ByClient
<1>5. ASSUME NEW k \in Conns, ClientOf[k] \notin raced', Current(k)'
      PROVE  Attached(ClientOf[k], k)' /\ Undisturbed(k)'
  <2>1. k # j /\ k # 0 /\ ClientOf[k] \in Clients /\ ClientOf[k] \notin raced
    BY <1>1, <1>4, <1>5, ConnsAssumption DEF Current
  <2>2. Current(k)
    BY <1>1, <1>4, <1>5, <2>1 DEF Current
  <2>3. ClientOf[k] = c => ~mine
    BY <1>1, <1>4, <1>5, <2>1 DEF Current
  <2>4. Attached(ClientOf[k], k) /\ Undisturbed(k)
    BY <2>1, <2>2 DEF HubInv
  <2> QED
    BY <1>1, <1>4, <2>3, <2>4 DEF Attached, Undisturbed
<1> QED
  BY <1>3, <1>5 DEF HubInv

\* The sessions but c's keep their connection, and their shape.
LEMMA DetachOne ==
    ASSUME Shape, NEW c \in Clients, NEW S, ByClient(S),
           \A d \in Clients : /\ Session(S[d])
                              /\ S[d].present = sessions[d].present
                              /\ S[d].connected = sessions[d].connected
    PROVE  LET D == Detached(S, c)
           IN  /\ ByClient(D)
               /\ \A d \in Clients : Session(D[d])
               /\ \A d \in Clients \ {c} : /\ D[d].present = sessions[d].present
                                          /\ D[d].connected = sessions[d].connected
<1>1. Session(detach(S[c]))
  BY Zenon DEF detach, Session, Fields, Session0
<1>2. Detached(S, c) = [S EXCEPT ![c] = detach(S[c])]
  BY DEF Detached
<1> QED
  BY <1>1, <1>2 DEF ByClient

\* disconnect, at the broker: the current connection is undisturbed, so it is
\* not of this client.
LEMMA NetworkDisconnectKeeps ==
    ASSUME HubInv, NEW j \in Conns, NetworkDisconnect(j)
    PROVE  HubInv'
<1> DEFINE c == ClientOf[j]
<1>1. /\ pc[j] = "detaching"
      /\ pc' = [pc EXCEPT ![j] = IF wills[c] = {} THEN "done" ELSE "parting"]
      /\ wills' = [wills EXCEPT ![c] = {}]
      /\ UNCHANGED <<conns, owner, raced>>
  BY DEF NetworkDisconnect
<1>2. c \in Clients /\ Shape
  BY ConnsAssumption DEF HubInv
<1>3. /\ ByClient(sessions')
      /\ \A d \in Clients : Session(sessions'[d])
      /\ \A d \in Clients \ {c} : /\ sessions'[d].present = sessions[d].present
                                 /\ sessions'[d].connected = sessions[d].connected
  <2>1. CASE sessions' = Detached(sessions, c)
    BY <1>2, <2>1, DetachOne DEF Shape
  <2>2. CASE \E m : sessions' = Detached(RoutedSessions(j, m), c)
    BY <1>2, <2>2, DetachOne, RoutedSessionsAttached
  <2> QED
    BY <2>1, <2>2 DEF NetworkDisconnect
<1>4. Shape'
  BY <1>1, <1>2, <1>3, Zenon DEF Shape, ByClient
<1>5. /\ \A k \in Conns : k # j => pc'[k] = pc[k]
      /\ pc'[j] \in {"done", "parting"}
      /\ \A d \in Clients \ {c} : wills'[d] = wills[d]
  BY <1>1, <1>2 DEF Shape, ByClient
<1>6. ASSUME NEW k \in Conns, ClientOf[k] \notin raced', Current(k)'
      PROVE  Attached(ClientOf[k], k)' /\ Undisturbed(k)'
  <2>1. Current(k) /\ ClientOf[k] \notin raced /\ ClientOf[k] \in Clients
    BY <1>1, <1>5, <1>6, ConnsAssumption, Zenon DEF Current
  <2>2. Attached(ClientOf[k], k) /\ Undisturbed(k)
    BY <2>1 DEF HubInv
  <2>3. ClientOf[k] # c
    BY <1>1, <2>2 DEF Undisturbed
  <2> QED
    BY <1>3, <1>5, <2>1, <2>2, <2>3 DEF Attached, Undisturbed
<1> QED
  BY <1>4, <1>6 DEF HubInv

\* DISCONNECT of a connection that is not the current one is a race.
LEMMA DisconnectKeeps ==
    ASSUME HubInv, NEW j \in Conns, on_disconnect(j)
    PROVE  HubInv'
<1> DEFINE c == ClientOf[j]
<1>1. PICK p \in wire[j] :
        /\ Reads(j, "disconnect", p)
        /\ wills' = [wills EXCEPT ![c] = IF p.with_will THEN @ ELSE {}]
  BY Zenon DEF on_disconnect
<1>2. /\ sessions' = Detached(sessions, c)
      /\ pc' = [pc EXCEPT ![j] = "closing"]
      /\ raced' = raced \cup {x \in {c} : owner[c] # j}
      /\ UNCHANGED <<conns, owner>>
  BY DEF on_disconnect
<1>3. c \in Clients /\ Shape
  BY ConnsAssumption DEF HubInv
<1>4. /\ ByClient(sessions')
      /\ \A d \in Clients : Session(sessions'[d])
      /\ \A d \in Clients \ {c} : /\ sessions'[d].present = sessions[d].present
                                 /\ sessions'[d].connected = sessions[d].connected
  BY <1>2, <1>3, DetachOne DEF Shape
<1>5. Shape'
  BY <1>1, <1>2, <1>3, <1>4, Zenon DEF Shape, ByClient
<1>6. /\ \A k \in Conns : k # j => pc'[k] = pc[k]
      /\ pc'[j] = "closing"
      /\ \A d \in Clients \ {c} : wills'[d] = wills[d]
  BY <1>1, <1>2, <1>3 DEF Shape, ByClient
<1>7. ASSUME NEW k \in Conns, ClientOf[k] \notin raced', Current(k)'
      PROVE  Attached(ClientOf[k], k)' /\ Undisturbed(k)'
  <2>1. Current(k) /\ k # j /\ ClientOf[k] \notin raced /\ ClientOf[k] \in Clients
    BY <1>2, <1>6, <1>7, ConnsAssumption DEF Current
  <2>2. Attached(ClientOf[k], k) /\ Undisturbed(k)
    BY <2>1 DEF HubInv
  <2>3. ClientOf[k] # c
    BY <1>2, <1>7, <2>1 DEF Current
  <2> QED
    BY <1>4, <1>6, <2>1, <2>2, <2>3 DEF Attached, Undisturbed
<1> QED
  BY <1>5, <1>7 DEF HubInv

\* The task of a connection goes on without connecting or parting.
LEMMA PcKept ==
    ASSUME Shape, NEW j \in Conns,
           \/ pc' = pc
           \/ pc[j] = "serving" /\ pc' = [pc EXCEPT ![j] = "dispatching"]
           \/ pc[j] = "serving" /\ pc' = [pc EXCEPT ![j] = "closing"]
           \/ /\ pc[j] \in {"dispatching", "parting"}
              /\ pc' = [pc EXCEPT ![j] = IF @ = "parting" THEN "done" ELSE "serving"]
    PROVE  /\ pc' = [k \in Conns |-> pc'[k]]
           /\ \A k \in Conns : /\ pc'[k] \in {"serving", "dispatching"} => pc[k] \in {"serving", "dispatching"}
                               /\ pc'[k] \in {"connecting", "detaching"} => pc'[k] = pc[k]
BY DEF Shape

\* It changes a field of one session.
LEMMA FieldsKept ==
    ASSUME Shape, NEW c \in Clients, NEW s,
           Session(s), s.present = sessions[c].present, s.connected = sessions[c].connected,
           sessions' = [sessions EXCEPT ![c] = s]
    PROVE  /\ ByClient(sessions') /\ \A d \in Clients : Session(sessions'[d])
           /\ \A d \in Clients : /\ sessions'[d].present = sessions[d].present
                                /\ sessions'[d].connected = sessions[d].connected
BY DEF Shape, ByClient

\* What the steps of handle but DISCONNECT have in common.
Handled ==
    /\ UNCHANGED <<wills, conns, owner, raced>>
    /\ ByClient(sessions') /\ \A d \in Clients : Session(sessions'[d])
    /\ \A d \in Clients : /\ sessions'[d].present = sessions[d].present
                         /\ sessions'[d].connected = sessions[d].connected

LEMMA HandledKeeps ==
    ASSUME HubInv, Handled, NEW j \in Conns,
           \/ pc' = pc
           \/ pc[j] = "serving" /\ pc' = [pc EXCEPT ![j] = "dispatching"]
           \/ pc[j] = "serving" /\ pc' = [pc EXCEPT ![j] = "closing"]
           \/ /\ pc[j] \in {"dispatching", "parting"}
              /\ pc' = [pc EXCEPT ![j] = IF @ = "parting" THEN "done" ELSE "serving"]
    PROVE  HubInv'
<1>1. Shape
  BY DEF HubInv
<1>2. /\ pc' = [k \in Conns |-> pc'[k]]
      /\ \A k \in Conns : /\ pc'[k] \in {"serving", "dispatching"} => pc[k] \in {"serving", "dispatching"}
                          /\ pc'[k] \in {"connecting", "detaching"} => pc'[k] = pc[k]
  BY <1>1, PcKept
<1>3. Shape'
  BY <1>1, <1>2 DEF Handled, Shape, ByClient
<1> QED
  BY <1>2, <1>3, Kept DEF Handled

LEMMA SubscribeKeeps ==
    ASSUME HubInv, NEW j \in Conns, on_subscribe(j)
    PROVE  HubInv'
<1> DEFINE c == ClientOf[j]
<1>1. PICK p \in wire[j] :
        /\ pc[j] = "serving"
        /\ LET s == [sessions[c] EXCEPT !.sub = {u \in {p.sub} : sessions[c].present}]
           IN  \/ sessions' = [sessions EXCEPT ![c] = s]
              \/ \E r : sessions' = [sessions EXCEPT ![c] = Replayed(s, r)]
  BY ZenonT(60) DEF on_subscribe, Reads
<1>2. c \in Clients /\ Shape /\ Session(sessions[c])
  BY ConnsAssumption DEF HubInv, Shape
<1> DEFINE s == [sessions[c] EXCEPT !.sub = {u \in {p.sub} : sessions[c].present}]
<1>3. Session(s) /\ s.present = sessions[c].present /\ s.connected = sessions[c].connected
  BY <1>2 DEF Session, Fields
<1>4. PICK r : /\ sessions' = [sessions EXCEPT ![c] = r]
               /\ Session(r) /\ r.present = sessions[c].present /\ r.connected = sessions[c].connected
  <2>1. CASE sessions' = [sessions EXCEPT ![c] = s]
    BY <1>3, <2>1, Zenon
  <2>2. ASSUME NEW x, sessions' = [sessions EXCEPT ![c] = Replayed(s, x)]
        PROVE  \E r : /\ sessions' = [sessions EXCEPT ![c] = r]
                      /\ Session(r) /\ r.present = sessions[c].present
                      /\ r.connected = sessions[c].connected
    <3> HIDE DEF s
    <3> DEFINE r == Replayed(s, x)
    <3>1. Session(r) /\ r.present = s.present /\ r.connected = s.connected
      BY <1>3, Zenon DEF Replayed, Session, Fields
    <3> HIDE DEF r
    <3>2. sessions' = [sessions EXCEPT ![c] = r]
      BY <2>2 DEF r
    <3> QED
      BY <1>3, <3>1, <3>2, Zenon
  <2> QED
    BY <1>1, <2>1, <2>2
<1>5. Handled
  BY <1>2, <1>4, FieldsKept, Zenon DEF Handled, on_subscribe
<1>6. pc' = [pc EXCEPT ![j] = "dispatching"]
  BY DEF on_subscribe
<1> QED
  BY <1>1, <1>5, <1>6, HandledKeeps, Zenon

LEMMA UnsubscribeKeeps ==
    ASSUME HubInv, NEW j \in Conns, on_unsubscribe(j)
    PROVE  HubInv'
<1> DEFINE c == ClientOf[j]
           r == [sessions[c] EXCEPT !.sub = {}]
<1>1. c \in Clients /\ Shape /\ Session(sessions[c])
  BY ConnsAssumption DEF HubInv, Shape
<1>2. Session(r) /\ r.present = sessions[c].present /\ r.connected = sessions[c].connected
  BY <1>1 DEF Session, Fields
<1>3. sessions' = [sessions EXCEPT ![c] = r]
  BY DEF on_unsubscribe
<1> HIDE DEF r
<1>4. Handled
  BY <1>1, <1>2, <1>3, FieldsKept, Zenon DEF Handled, on_unsubscribe
<1> QED
  BY <1>4, HandledKeeps DEF on_unsubscribe

LEMMA PublishKeeps ==
    ASSUME HubInv, NEW j \in Conns, on_publish(j)
    PROVE  HubInv'
<1> DEFINE c == ClientOf[j]
<1>1. c \in Clients /\ Shape
  BY ConnsAssumption DEF HubInv
<1>2. PICK p \in wire[j] :
        \/ sessions' = sessions
        \/ \E m, I : sessions' = [RoutedSessions(j, m) EXCEPT ![c].incoming_qos2 = I]
  BY ZenonT(60) DEF on_publish
<1>3. CASE sessions' = sessions
  <2>1. Handled
    BY <1>1, <1>3 DEF Handled, Shape, on_publish
  <2> QED
    BY <2>1, HandledKeeps, Zenon DEF on_publish, Reads
<1>4. CASE \E m, I : sessions' = [RoutedSessions(j, m) EXCEPT ![c].incoming_qos2 = I]
  <2>1. PICK m, I : sessions' = [RoutedSessions(j, m) EXCEPT ![c].incoming_qos2 = I]
    BY <1>4, Zenon
  <2> DEFINE S == RoutedSessions(j, m)
             r == [S[c] EXCEPT !.incoming_qos2 = I]
  <2>2. /\ ByClient(S)
        /\ \A d \in Clients : /\ Session(S[d])
                             /\ S[d].present = sessions[d].present
                             /\ S[d].connected = sessions[d].connected
    BY <1>1, RoutedSessionsAttached
  <2>3. sessions' = [S EXCEPT ![c] = r]
    BY <2>1
  <2> HIDE DEF S
  <2>4. Session(r) /\ r.present = S[c].present /\ r.connected = S[c].connected
    BY <1>1, <2>2, ZenonT(60) DEF Session, Fields
  <2> HIDE DEF r
  <2>5. /\ ByClient(sessions') /\ \A d \in Clients : Session(sessions'[d])
        /\ \A d \in Clients : /\ sessions'[d].present = sessions[d].present
                             /\ sessions'[d].connected = sessions[d].connected
    BY <1>1, <2>2, <2>3, <2>4 DEF ByClient
  <2>6. Handled
    BY <2>5 DEF Handled, on_publish
  <2> QED
    BY <2>6, HandledKeeps, Zenon DEF on_publish, Reads
<1> QED
  BY <1>2, <1>3, <1>4, Zenon

LEMMA AckKeeps ==
    ASSUME HubInv, NEW j \in Conns, on_ack(j)
    PROVE  HubInv'
<1> DEFINE c == ClientOf[j]
<1>1. c \in Clients /\ Shape /\ Session(sessions[c])
  BY ConnsAssumption DEF HubInv, Shape
<1>2. PICK p \in wire[j] :
        \/ /\ \E U : sessions' = [sessions EXCEPT ![c].outgoing_unacked = U]
           /\ pc' = pc
        \/ /\ pc[j] = "serving"
           /\ \/ \E U, R : sessions' = [sessions EXCEPT ![c].outgoing_unacked = U,
                                                        ![c].outgoing_pubrel = R]
              \/ \E I : sessions' = [sessions EXCEPT ![c].incoming_qos2 = I]
           /\ pc' = [pc EXCEPT ![j] = "dispatching"]
        \/ /\ \E R : sessions' = [sessions EXCEPT ![c].outgoing_pubrel = R]
           /\ pc' = pc
  BY ZenonT(60) DEF on_ack, Reads
<1>3. \E r : /\ sessions' = [sessions EXCEPT ![c] = r]
             /\ Session(r) /\ r.present = sessions[c].present /\ r.connected = sessions[c].connected
  <2>1. ASSUME NEW U,
               sessions' = [sessions EXCEPT ![c].outgoing_unacked = U]
        PROVE  \E r : /\ sessions' = [sessions EXCEPT ![c] = r]
                      /\ Session(r) /\ r.present = sessions[c].present
                      /\ r.connected = sessions[c].connected
    <3> DEFINE r == [sessions[c] EXCEPT !.outgoing_unacked = U]
    <3>1. Session(r) /\ r.present = sessions[c].present /\ r.connected = sessions[c].connected
      BY <1>1 DEF Session, Fields
    <3>2. sessions' = [sessions EXCEPT ![c] = r]
      BY <1>1, <2>1 DEF Shape, ByClient
    <3> HIDE DEF r
    <3> QED
      BY <3>1, <3>2, Zenon
  <2>2. ASSUME NEW U, NEW R,
               sessions' = [sessions EXCEPT ![c].outgoing_unacked = U, ![c].outgoing_pubrel = R]
        PROVE  \E r : /\ sessions' = [sessions EXCEPT ![c] = r]
                      /\ Session(r) /\ r.present = sessions[c].present
                      /\ r.connected = sessions[c].connected
    <3> DEFINE r == [sessions[c] EXCEPT !.outgoing_unacked = U, !.outgoing_pubrel = R]
    <3>1. Session(r) /\ r.present = sessions[c].present /\ r.connected = sessions[c].connected
      BY <1>1, Zenon DEF Session, Fields
    <3>2. sessions' = [sessions EXCEPT ![c] = r]
      BY <1>1, <2>2, Zenon DEF Shape, ByClient
    <3> HIDE DEF r
    <3> QED
      BY <3>1, <3>2, Zenon
  <2>3. ASSUME NEW I,
               sessions' = [sessions EXCEPT ![c].incoming_qos2 = I]
        PROVE  \E r : /\ sessions' = [sessions EXCEPT ![c] = r]
                      /\ Session(r) /\ r.present = sessions[c].present
                      /\ r.connected = sessions[c].connected
    <3> DEFINE r == [sessions[c] EXCEPT !.incoming_qos2 = I]
    <3>1. Session(r) /\ r.present = sessions[c].present /\ r.connected = sessions[c].connected
      BY <1>1 DEF Session, Fields
    <3>2. sessions' = [sessions EXCEPT ![c] = r]
      BY <1>1, <2>3 DEF Shape, ByClient
    <3> HIDE DEF r
    <3> QED
      BY <3>1, <3>2, Zenon
  <2>4. ASSUME NEW R,
               sessions' = [sessions EXCEPT ![c].outgoing_pubrel = R]
        PROVE  \E r : /\ sessions' = [sessions EXCEPT ![c] = r]
                      /\ Session(r) /\ r.present = sessions[c].present
                      /\ r.connected = sessions[c].connected
    <3> DEFINE r == [sessions[c] EXCEPT !.outgoing_pubrel = R]
    <3>1. Session(r) /\ r.present = sessions[c].present /\ r.connected = sessions[c].connected
      BY <1>1 DEF Session, Fields
    <3>2. sessions' = [sessions EXCEPT ![c] = r]
      BY <1>1, <2>4 DEF Shape, ByClient
    <3> HIDE DEF r
    <3> QED
      BY <3>1, <3>2, Zenon
  <2> QED
    BY <1>2, <2>1, <2>2, <2>3, <2>4, ZenonT(60)
<1>4. Handled
  BY <1>1, <1>3, FieldsKept, Zenon DEF Handled, on_ack
<1> QED
  BY <1>2, <1>4, HandledKeeps

-----------------------------------------------------------------------------

\* The steps of the clients leave the broker and the registry alone.
ClientStep(k) ==
    ClientAsks(k) \/ ClientLeaves(k) \/ ClientReceives(k) \/ ClientPublishes(k) \/ ClientReads(k)

\* Who is connected, registered and attached fits together at every moment
\* between the broker's lock and the registry's.
THEOREM HubInvariance == Spec => []HubInv
<1>1. Init => HubInv
  <2> SUFFICES ASSUME Init PROVE HubInv
    OBVIOUS
  <2>1. Shape
    BY DEF Init, Shape, ByClient, Session, Fields, Session0
  <2>2. \A k \in Conns : ~Current(k)
    BY DEF Init, Current
  <2> QED
    BY <2>1, <2>2 DEF HubInv
<1>2. HubInv /\ [Next]_vars => HubInv'
  <2> SUFFICES ASSUME HubInv, [Next]_vars PROVE HubInv'
    OBVIOUS
  <2>0. ASSUME UNCHANGED <<sessions, wills, conns, owner, raced>> PROVE Handled
    BY <2>0 DEF HubInv, Shape, Handled
  <2>1. ASSUME NEW k \in Conns, Connect(k) \/ Register(k) PROVE HubInv'
    BY <2>1, ConnectKeeps, RegisterKeeps
  <2>2. ASSUME NEW k \in Conns, Unregister(k) \/ NetworkDisconnect(k) \/ on_disconnect(k) PROVE HubInv'
    BY <2>2, UnregisterKeeps, NetworkDisconnectKeeps, DisconnectKeeps
  <2>3. ASSUME NEW k \in Conns, on_subscribe(k) \/ on_unsubscribe(k) \/ on_publish(k) \/ on_ack(k) PROVE HubInv'
    BY <2>3, SubscribeKeeps, UnsubscribeKeeps, PublishKeeps, AckKeeps
  <2>4. ASSUME NEW k \in Conns, Dispatch(k) PROVE HubInv'
    BY <2>0, <2>4, HandledKeeps, Zenon DEF Dispatch, broker_vars, history_vars
  <2>5. ASSUME NEW k \in Conns, ReadEnd(k) PROVE HubInv'
    BY <2>0, <2>5, HandledKeeps, ZenonT(60) DEF ReadEnd, broker_vars, history_vars
  <2>6. ASSUME NEW k \in Conns, ClientStep(k) PROVE HubInv'
    <3>1. UNCHANGED <<broker_vars, conns, pc, history_vars>>
      BY <2>6, Zenon DEF ClientStep, ClientAsks, ClientLeaves, ClientReceives, ClientPublishes, ClientReads
    <3> QED
      BY <2>0, <3>1, HandledKeeps DEF broker_vars, history_vars
  <2>7. CASE UNCHANGED vars
    <3>1. UNCHANGED <<sessions, wills, conns, pc, owner, raced>>
      BY <2>7, Zenon DEF vars, broker_vars, history_vars
    <3> QED
      BY <3>1, ZenonT(60) DEF HubInv, Shape, ByClient, Session, Attached, Current, Undisturbed
  <2> QED
    BY <2>1, <2>2, <2>3, <2>4, <2>5, <2>6, <2>7 DEF Next, ClientStep
<1> QED
  BY <1>1, <1>2, PTL DEF Spec

\* Hub::disconnect never detaches the session of the connection that is
\* registered and served, unless the teardown of another one overlapped its
\* CONNECT or that one still sent a DISCONNECT.
THEOREM SessionAlwaysHeld == Spec => []SessionHeld
<1>1. HubInv => SessionHeld
  BY DEF HubInv, SessionHeld, Holds, Current, Attached
<1> QED
  BY <1>1, HubInvariance, PTL

=============================================================================
