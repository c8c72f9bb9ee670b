---------------------------- MODULE MqttSession ----------------------------
(***************************************************************************)
(* The MQTT session of the gateway: MQTTManager on top of the mosquitto    *)
(* client library, the TCP connection, and the broker's side of it.        *)
(*                                                                         *)
(* There is one thread.  A turn of the main loop calls IsConnected, which  *)
(* is one mosquitto_loop (read one packet, write what is queued, check the *)
(* keepalive), then either handles the board, which may publish and may    *)
(* block for a long time, or calls Reconnect; then it sleeps.  Nothing but *)
(* that loop keeps the session alive.                                      *)
(*                                                                         *)
(* Time is counted in whole units and passes only while the main thread    *)
(* blocks or sleeps, in sleep_for or in the select of mosquitto_loop.  The *)
(* broker answers what reached it before any time passes: the delay of a   *)
(* good link is below the unit.                                            *)
(***************************************************************************)
EXTENDS Integers, Sequences

CONSTANTS
  Topics,      \* the topics of SubscribeTopics, in its order
  KeepAlive,   \* DEFAULT_KEEP_ALIVE
  BlockTimes,  \* how long the port or the mutex may hold a turn up
  Patience,    \* a turn that is held up for longer is slow
  SleepTime,   \* the sleep at the end of a turn
  SelectTime,  \* the timeout of mosquitto_loop, 1000 ms
  MaxBacklog,  \* bound: no command is sent to a gateway that has so many unread packets
  MaxFaults    \* bound: faults of the network or the broker, and slow turns

ASSUME SessionAssumption ==
  /\ Topics \in Seq(STRING)
  /\ KeepAlive \in Nat \ {0}
  /\ BlockTimes \subseteq Nat
  /\ Patience \in Nat
  /\ SleepTime \in Nat \ {0} /\ SelectTime \in Nat
  /\ MaxBacklog \in Nat
  /\ MaxFaults \in Nat

VARIABLES
  pc,       \* where the main thread is
  sock,     \* mosq->sock is a socket
  state,    \* mosq->state
  out,      \* mosq->current_out_packet and out_packet
  wants,    \* select was asked about writing
  pinged,   \* mosq->ping_t is set
  inAge,    \* time since last_msg_in
  outAge,   \* time since next_msg_out was set to KeepAlive ahead
  link,     \* the TCP connection: "up", "cut" unnoticed, or "shut" by the broker
  up, down, \* packets on their way to the broker and to the gateway
  broker,   \* the broker's context of this connection: state, subs, idle time
  faults,   \* faults and slow turns so far
  slow,     \* there was a slow turn on this connection
  cutAge    \* time since the link was cut, 0 while it is not

client  == <<sock, state, out, wants, pinged, inAge, outAge>>
network == <<link, up, down>>
history == <<faults, slow, cutAge>>
vars == <<pc, client, network, broker, history>>

-----------------------------------------------------------------------------
(* Packets.                                                                *)

Topic == {Topics[i] : i \in DOMAIN Topics}
Plain(k) == [kind |-> k, topic |-> ""]
Subscribe(t) == [kind |-> "SUBSCRIBE", topic |-> t]

\* Mutant of Subscriptions: topics without a name.
NamelessSubscriptions == [i \in DOMAIN Topics |-> Subscribe("none")]

Subscriptions == [i \in DOMAIN Topics |-> Subscribe(Topics[i])]

UpPacket == {Plain("CONNECT"), Plain("PINGREQ"), Plain("PUBLISH")}
              \cup {Subscribe(t) : t \in Topic}
DownPacket == {"CONNACK", "REFUSED", "SUBACK", "PINGRESP", "COMMAND"}

Has(queue, p) == \E i \in DOMAIN queue : queue[i] = p

-----------------------------------------------------------------------------
(* The client library.                                                     *)

\* A context of the broker for a connection it has just accepted.
NewContext == [state |-> "new", subs |-> {}, idle |-> 0]

\* Mutant of CleanedUp: the packets of the old session are kept.
KeptQueue(queue) == queue

\* packet__cleanup_all, which reconnect calls first.
CleanedUp(queue) == <<>>

\* On a TCP connection that took d to come about CONNECT is queued and what
\* is queued is written at once.
Connected(d) ==
  /\ sock' = TRUE
  /\ state' = "connected"
  /\ link' = "up"
  /\ up' = Append(CleanedUp(out), Plain("CONNECT"))
  /\ out' = <<>>
  /\ inAge' = d

\* No TCP connection: mosquitto_reconnect fails, its result is ignored.
Unconnected ==
  /\ sock' = FALSE
  /\ state' = "connect_pending"
  /\ link' = "shut"
  /\ up' = <<>>
  /\ out' = CleanedUp(out)
  /\ inAge' = 0

\* Mutant of Fresh: an unanswered ping of the old connection counts on.
StalePing ==
  /\ wants' = FALSE
  /\ outAge' = 0
  /\ down' = <<>>
  /\ broker' = NewContext
  /\ slow' = FALSE
  /\ cutAge' = 0
  /\ UNCHANGED pinged

\* In either case.
Fresh ==
  /\ wants' = FALSE
  /\ pinged' = FALSE
  /\ outAge' = 0
  /\ down' = <<>>
  /\ broker' = NewContext
  /\ slow' = FALSE
  /\ cutAge' = 0

\* send__publish: no connection, no packet.
SendPublish(connected, queue) ==
  IF connected THEN Append(queue, Plain("PUBLISH")) ELSE queue

\* The socket is closed, then on_disconnect publishes "dis/1".
Close(queue) ==
  /\ sock' = FALSE
  /\ out' = SendPublish(sock', queue)
  /\ pc' = "reconnect"

\* packet__write on a queue.  The kernel takes what is written on a dead link
\* too; on one the broker has shut it may refuse, and the packets stay.
Sent(queue) ==
  /\ up' = IF link = "up" THEN up \o queue ELSE up
  /\ out' = <<>>
  /\ outAge' = IF queue = <<>> THEN outAge ELSE 0

Refused(queue) ==
  /\ link = "shut"
  /\ queue # <<>>
  /\ out' = queue
  /\ UNCHANGED <<up, outAge>>

-----------------------------------------------------------------------------
Init ==
  /\ pc = "loop"
  /\ sock \in BOOLEAN
  /\ state = IF sock THEN "connected" ELSE "connect_pending"
  /\ link = IF sock THEN "up" ELSE "shut"
  /\ up = IF sock THEN <<Plain("CONNECT")>> ELSE <<>>
  /\ out = <<>> /\ down = <<>>
  /\ wants = FALSE /\ pinged = FALSE
  /\ inAge = 0 /\ outAge = 0
  /\ broker = NewContext
  /\ faults = 0 /\ slow = FALSE /\ cutAge = 0

-----------------------------------------------------------------------------
(* The main thread: one mosquitto_loop.                                    *)

\* Mutant of LoopNoConn: IsConnected takes any result but an error of the
\* socket for a connection.
NoConnIgnored ==
  /\ pc = "loop" /\ ~sock
  /\ pc' = "turn"
  /\ UNCHANGED <<client, network, broker, history>>

\* MOSQ_ERR_NO_CONN: IsConnected is false.
LoopNoConn ==
  /\ pc = "loop" /\ ~sock
  /\ pc' = "reconnect"
  /\ UNCHANGED <<client, network, broker, history>>

\* Mutant of HandleConnack: subscriptions are not made in on_connect.
ConnackOnly(p) ==
  IF p = "CONNACK"
  THEN state' = "active" /\ pc' = "write" /\ UNCHANGED <<sock, out, pinged>>
  ELSE Close(out) /\ UNCHANGED <<state, pinged>>

\* on_connect subscribes, whatever the return code; only then is the session
\* active.  The subscriptions wait in the queue: this is a callback.
HandleConnack(p) ==
  IF p = "CONNACK"
  THEN /\ state' = "active"
       /\ out' = out \o Subscriptions
       /\ pc' = "write"
       /\ UNCHANGED <<sock, pinged>>
  ELSE /\ Close(out \o Subscriptions)
       /\ UNCHANGED <<state, pinged>>

\* SUBACK, PINGRESP and PUBLISH (a command) belong to an active session.
HandleOther(p) ==
  IF state = "active"
  THEN /\ pinged' = (pinged /\ p # "PINGRESP")
       /\ pc' = "write"
       /\ UNCHANGED <<sock, state, out>>
  ELSE Close(out) /\ UNCHANGED <<state, pinged>>

\* mosquitto_loop_read: one packet, or the end of the stream.
LoopRead ==
  /\ pc = "loop" /\ sock
  /\ down # <<>>
  /\ wants' = (out # <<>>)
  /\ down' = Tail(down)
  /\ inAge' = 0
  /\ IF Head(down) \in {"CONNACK", "REFUSED"}
     THEN HandleConnack(Head(down))
     ELSE HandleOther(Head(down))
  /\ UNCHANGED <<outAge, link, up, broker, history>>

LoopReadEnd ==
  /\ pc = "loop" /\ sock
  /\ down = <<>> /\ link = "shut"
  /\ Close(out)
  /\ UNCHANGED <<state, wants, pinged, inAge, outAge, network, broker, history>>

LoopReadNothing ==
  /\ pc = "loop" /\ sock
  /\ down = <<>> /\ link # "shut"
  /\ wants' = (out # <<>>)
  /\ pc' = "write"
  /\ UNCHANGED <<sock, state, out, pinged, inAge, outAge, network, broker, history>>

\* mosquitto_loop_write.  What was queued after the call of select is written
\* too if a byte of the socket pair is still unread, else one turn later.
LoopWrite ==
  /\ pc = "write"
  /\ \/ Sent(out) /\ pc' = "misc" /\ UNCHANGED sock
     \/ Refused(out) /\ Close(out)
     \/ ~wants /\ pc' = "misc" /\ UNCHANGED <<sock, out, up, outAge>>
  /\ UNCHANGED <<state, wants, pinged, inAge, link, down, broker, history>>

\* Mutant of Overdue: only what was sent last counts.
SilentTooLong == outAge >= KeepAlive

\* mosquitto__check_keepalive.
Overdue == outAge >= KeepAlive \/ inAge >= KeepAlive

LoopMisc ==
  /\ pc = "misc" /\ ~Overdue
  /\ pc' = "turn"
  /\ UNCHANGED <<client, network, broker, history>>

\* The timers restart even when the request could not be written; ping_t is
\* set unless the write failed.
LoopPing ==
  /\ pc = "misc" /\ Overdue
  /\ state = "active" /\ ~pinged
  /\ LET queue == Append(out, Plain("PINGREQ")) IN
       \/ /\ up' = IF link = "up" THEN up \o queue ELSE up
          /\ out' = <<>>
          /\ pinged' = TRUE
       \/ /\ link = "shut"
          /\ out' = queue
          /\ UNCHANGED <<up, pinged>>
  /\ inAge' = 0 /\ outAge' = 0
  /\ pc' = "turn"
  /\ UNCHANGED <<sock, state, wants, link, down, broker, history>>

LoopKeepaliveLost ==
  /\ pc = "misc" /\ Overdue
  /\ state # "active" \/ pinged
  /\ Close(out)
  /\ UNCHANGED <<state, wants, pinged, inAge, outAge, network, broker, history>>

-----------------------------------------------------------------------------
(* The rest of a turn.                                                     *)

\* Polling publishes before the board may block the turn, ListeningMaster
\* after that.  PublishTopic ignores what becomes of the message.
PublishTopic ==
  /\ pc \in {"turn", "answer"}
  /\ LET queue == SendPublish(sock, out) IN Sent(queue) \/ Refused(queue)
  /\ pc' = IF pc = "turn" THEN "block" ELSE "sleep"
  /\ UNCHANGED <<sock, state, wants, pinged, inAge, link, down, broker, history>>

\* Time passes.  Ages beyond the last value that matters are all alike.
Grace == (KeepAlive * 3) \div 2
Older(age, d, last) == IF age + d > last THEN last ELSE age + d

Passes(d) ==
  /\ link = "up" => up = <<>>
  /\ inAge' = Older(inAge, d, KeepAlive)
  /\ outAge' = Older(outAge, d, KeepAlive)
  /\ broker' = [broker EXCEPT !.idle = Older(@, d, Grace + 1)]
  /\ cutAge' = IF sock /\ link = "cut" THEN cutAge + d ELSE 0
  /\ UNCHANGED <<sock, state, out, wants, pinged, network>>

\* The serial port, or the mutex of the outbound queue, holds the thread up.
Block(d) ==
  /\ pc \in {"turn", "block"}
  /\ d > Patience => faults < MaxFaults
  /\ faults' = IF d > Patience THEN faults + 1 ELSE faults
  /\ slow' = (slow \/ d > Patience)
  /\ Passes(d)
  /\ pc' = "answer"

\* select waits on a socket that has nothing to read, and returns at the latest
\* after SelectTime; without a socket it is not called.
SelectWaits == IF sock /\ down = <<>> /\ link # "shut" THEN 0 .. SelectTime ELSE {0}

\* The sleep, and with it the select of the mosquitto_loop that follows.
Sleep ==
  /\ pc \in {"answer", "sleep"}
  /\ \E wait \in SelectWaits : Passes(SleepTime + wait)
  /\ pc' = "loop"
  /\ UNCHANGED <<faults, slow>>

Reconnect(d) ==
  /\ pc = "reconnect"
  /\ Connected(Older(0, d, KeepAlive))
  /\ Fresh
  /\ pc' = "sleep"
  /\ UNCHANGED faults

ReconnectFails ==
  /\ pc = "reconnect" /\ faults < MaxFaults
  /\ Unconnected
  /\ Fresh
  /\ pc' = "sleep"
  /\ faults' = faults + 1

-----------------------------------------------------------------------------
(* The broker and the network.                                             *)

\* What had not arrived yet when the connection broke is lost.
Prefix(queue) == {SubSeq(queue, 1, n) : n \in 0 .. Len(queue)}

Shut ==
  /\ link' = "shut"
  /\ up' = <<>>
  /\ down' \in Prefix(down)

Receives(answers) ==
  /\ up' = Tail(up)
  /\ down' = down \o answers
  /\ UNCHANGED link

Untouched == UNCHANGED <<pc, client, slow, cutAge>>

BrokerAccepts ==
  /\ link = "up" /\ up # <<>>
  /\ Head(up) = Plain("CONNECT") /\ broker.state = "new"
  /\ Receives(<<"CONNACK">>)
  /\ broker' = [state |-> "active", subs |-> {}, idle |-> 0]
  /\ Untouched /\ UNCHANGED faults

BrokerRefuses ==
  /\ link = "up" /\ up # <<>> /\ faults < MaxFaults
  /\ Head(up) = Plain("CONNECT") /\ broker.state = "new"
  /\ link' = "shut" /\ up' = <<>>
  /\ down' = Append(down, "REFUSED")
  /\ faults' = faults + 1
  /\ UNCHANGED broker
  /\ Untouched

\* Any other packet.  Without a session, or as a second CONNECT, it is a
\* breach of the protocol and ends the connection.
BrokerHandles ==
  /\ link = "up" /\ up # <<>>
  /\ ~(Head(up) = Plain("CONNECT") /\ broker.state = "new")
  /\ IF broker.state = "new" \/ Head(up) = Plain("CONNECT")
     THEN Shut /\ UNCHANGED broker
     ELSE /\ Receives(CASE Head(up).kind = "SUBSCRIBE" -> <<"SUBACK">>
                        [] Head(up).kind = "PINGREQ" -> <<"PINGRESP">>
                        [] OTHER -> <<>>)
          /\ broker' = [broker EXCEPT !.idle = 0,
                          !.subs = @ \cup {t \in Topic : Head(up) = Subscribe(t)}]
  /\ Untouched /\ UNCHANGED faults

\* keepalive__check.
BrokerDrops ==
  /\ link = "up"
  /\ broker.state = "active" /\ broker.idle > Grace
  /\ Shut
  /\ UNCHANGED <<broker, faults>>
  /\ Untouched

\* A command on one of the topics.
BrokerPublishes ==
  /\ link = "up" /\ broker.subs # {}
  /\ Len(down) < MaxBacklog
  /\ down' = Append(down, "COMMAND")
  /\ UNCHANGED <<link, up, broker, faults>>
  /\ Untouched

\* The broker restarts, resets the connection, or gives the session to
\* another gateway: all connect with the same CLIENT_ID.
BrokerCloses ==
  /\ link = "up" /\ faults < MaxFaults
  /\ Shut
  /\ faults' = faults + 1
  /\ UNCHANGED broker
  /\ Untouched

\* The link dies and nobody is told.
LinkCut ==
  /\ link = "up" /\ faults < MaxFaults
  /\ link' = "cut"
  /\ up' = <<>>
  /\ down' \in Prefix(down)
  /\ faults' = faults + 1
  /\ UNCHANGED broker
  /\ Untouched

-----------------------------------------------------------------------------
MainLoop ==
  \/ LoopNoConn
  \/ LoopRead \/ LoopReadEnd \/ LoopReadNothing
  \/ LoopWrite
  \/ LoopMisc \/ LoopPing \/ LoopKeepaliveLost
  \/ PublishTopic
  \/ \E d \in BlockTimes : Block(d)
  \/ Sleep
  \/ \E d \in BlockTimes : Reconnect(d)
  \/ ReconnectFails

Broker == BrokerAccepts \/ BrokerHandles

Next ==
  \/ MainLoop
  \/ Broker
  \/ BrokerRefuses \/ BrokerDrops \/ BrokerPublishes
  \/ BrokerCloses \/ LinkCut

\* The main thread never stops by itself, and the broker serves what it got.
Spec == Init /\ [][Next]_vars /\ WF_vars(MainLoop) /\ WF_vars(Broker)

-----------------------------------------------------------------------------
(* What the session is to be.                                              *)

\* Everything has the values the code can give it.
TypeOK ==
  /\ pc \in {"loop", "write", "misc", "turn", "block", "answer", "sleep", "reconnect"}
  /\ sock \in BOOLEAN
  /\ state \in {"connected", "connect_pending", "active"}
  /\ out \in Seq(UpPacket) /\ up \in Seq(UpPacket) /\ down \in Seq(DownPacket)
  /\ wants \in BOOLEAN /\ pinged \in BOOLEAN
  /\ inAge \in 0 .. KeepAlive /\ outAge \in 0 .. KeepAlive
  /\ link \in {"up", "cut", "shut"}
  /\ broker \in [state : {"new", "active"}, subs : SUBSET Topic, idle : 0 .. Grace + 1]
  /\ faults \in Nat /\ slow \in BOOLEAN /\ cutAge \in Nat

\* The stream of every connection starts with its CONNECT and has no other:
\* nothing that was queued for an earlier session, be it the subscriptions of
\* a refused one, a message the socket did not take, or the "disconnect" of
\* on_disconnect, gets into a later one.
Stream == up \o out

ConnectFirst ==
  sock /\ link = "up" =>
    /\ broker.state = "new" => Stream # <<>>
    /\ \A i \in DOMAIN Stream :
         Stream[i] = Plain("CONNECT") <=> (i = 1 /\ broker.state = "new")

\* Every topic is subscribed on the broker, or the packet that does it is on
\* its way, on every connection the library calls active: no reconnect and
\* no failed attempt leaves the gateway connected and deaf.
NeverDeaf ==
  sock /\ link = "up" /\ state = "active" =>
    \A t \in Topic : t \in broker.subs \/ Has(up, Subscribe(t)) \/ Has(out, Subscribe(t))

\* A link that died in silence is noticed in bounded time, though every
\* write on it seems to succeed and keeps next_msg_out ahead: two keepalives,
\* each seen up to a turn late, and a turn for every packet that was still to
\* be read, which are the commands and the answers to the subscriptions and to
\* a ping.
TurnEnd == SleepTime + SelectTime
LongTurn == Patience + TurnEnd
KeepaliveSeen == KeepAlive - 1 + LongTurn
MaxUnread == MaxBacklog + Len(Topics) + 1

\* What the keepalive has to leave room for: one packet is read in a turn, so
\* the answer to a ping waits behind the commands, and the answers to the
\* subscriptions may be ahead of them; the broker's patience is the other limit.
KeepsPace ==
  /\ LongTurn < KeepAlive
  /\ KeepaliveSeen <= Grace
  /\ MaxBacklog * LongTurn < KeepAlive
  /\ (MaxBacklog + Len(Topics)) * LongTurn < 2 * KeepAlive

CutNoticed == ~slow => cutAge <= 2 * KeepaliveSeen + MaxUnread * LongTurn

\* On a good link the session is ended by a fault or after a slow turn only:
\* neither side takes the other for dead because packets queue up behind
\* each other or because there is nothing to say.
HealthyKept ==
  [][(sock /\ link = "up" /\ ~slow /\ faults' = faults) => (sock' /\ link' = "up")]_vars

\* Once the faults are over the gateway is connected and subscribed to
\* everything, and stays so.
Recovers ==
  <>[](sock /\ link = "up" /\ state = "active" /\ broker.subs = Topic)

=============================================================================
