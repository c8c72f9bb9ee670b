------------------------- MODULE MqttSessionProofs -------------------------
(* Theorems of MqttSession: whatever the network, the broker and the turns  *)
(* of the main loop do, for every list of topics and every keepalive.       *)
EXTENDS MqttSession, TLAPS

-----------------------------------------------------------------------------
(* Lemmas about the operators of the model.                                *)

\* An age stays within the values that matter.
LEMMA OlderInRange ==
  ASSUME NEW last \in Nat, NEW age \in 0 .. last, NEW d \in Nat
  PROVE  Older(age, d, last) \in 0 .. last
BY DEF Older

\* What had arrived of a queue is a queue of the same packets.
LEMMA PrefixInSeq ==
  ASSUME NEW S, NEW queue \in Seq(S), NEW p \in Prefix(queue)
  PROVE  p \in Seq(S)
BY DEF Prefix

LEMMA GraceInNat == Grace \in Nat
BY SessionAssumption DEF SessionAssumption, Grace

\* The packets the client may queue.
LEMMA Queued ==
  /\ Plain("CONNECT") \in UpPacket
  /\ Plain("PINGREQ") \in UpPacket
  /\ Plain("PUBLISH") \in UpPacket
  /\ Subscriptions \in Seq(UpPacket)
<1>1. \A i \in DOMAIN Topics : Subscribe(Topics[i]) \in UpPacket
  BY DEF UpPacket, Topic
<1>2. Topics \in Seq(STRING)
  BY SessionAssumption DEF SessionAssumption
<1> QED
  BY <1>1, <1>2 DEF UpPacket, Subscriptions

-----------------------------------------------------------------------------
(* Type correctness.                                                       *)

\* What closing the socket leaves.
LEMMA CloseType ==
  ASSUME NEW queue \in Seq(UpPacket), Close(queue)
  PROVE  sock' = FALSE /\ out' = queue /\ pc' = "reconnect"
BY DEF Close, SendPublish

\* What a write on the socket leaves, or a refused one.
LEMMA SentType ==
  ASSUME TypeOK, NEW queue \in Seq(UpPacket), Sent(queue) \/ Refused(queue)
  PROVE  out' \in Seq(UpPacket) /\ up' \in Seq(UpPacket) /\ outAge' \in 0 .. KeepAlive
<1>1. up \in Seq(UpPacket) /\ outAge \in 0 .. KeepAlive /\ 0 \in 0 .. KeepAlive
  BY SessionAssumption DEF SessionAssumption, TypeOK
<1>2. up \o queue \in Seq(UpPacket) /\ <<>> \in Seq(UpPacket)
  BY <1>1
<1>3. CASE Sent(queue)
  BY <1>1, <1>2, <1>3 DEF Sent
<1>4. CASE Refused(queue)
  BY <1>1, <1>4 DEF Refused
<1> QED
  BY <1>3, <1>4

\* A turn of the client library keeps every variable in its type.
LEMMA LoopType ==
  ASSUME TypeOK,
         LoopNoConn \/ LoopRead \/ LoopReadEnd \/ LoopReadNothing \/ LoopWrite
           \/ LoopMisc \/ LoopPing \/ LoopKeepaliveLost
  PROVE  TypeOK'
<1> KeepAlive \in Nat \ {0}
  BY SessionAssumption DEF SessionAssumption
<1>1. CASE LoopNoConn
  BY <1>1 DEF LoopNoConn, client, network, history, TypeOK
<1>2. CASE LoopRead
  <2>1. down' \in Seq(DownPacket) /\ Head(down) \in DownPacket /\ inAge' = 0
    BY <1>2 DEF LoopRead, TypeOK
  <2>2. UNCHANGED <<outAge, link, up, broker, history>> /\ wants' \in BOOLEAN
    BY <1>2 DEF LoopRead
  <2>3. /\ pc' \in {"write", "reconnect"}
        /\ sock' \in BOOLEAN /\ state' \in {state, "active"} /\ pinged' \in BOOLEAN
        /\ out' \in Seq(UpPacket)
    <3>1. out \in Seq(UpPacket) /\ out \o Subscriptions \in Seq(UpPacket)
      BY Queued DEF TypeOK
    <3>2. CASE HandleConnack(Head(down))
      BY <3>1, <3>2, CloseType DEF HandleConnack, TypeOK
    <3>3. CASE HandleOther(Head(down))
      BY <3>1, <3>3, CloseType DEF HandleOther, TypeOK
    <3> QED BY <1>2, <3>2, <3>3 DEF LoopRead
  <2> QED
    BY <2>1, <2>2, <2>3 DEF TypeOK, history
<1>3. CASE LoopReadEnd
  BY <1>3, CloseType DEF LoopReadEnd, network, history, TypeOK
<1>4. CASE LoopReadNothing
  BY <1>4 DEF LoopReadNothing, network, history, TypeOK
<1>5. CASE LoopWrite
  <2>1. out' \in Seq(UpPacket) /\ up' \in Seq(UpPacket) /\ outAge' \in 0 .. KeepAlive
    <3>1. CASE Sent(out) \/ Refused(out)
      BY <3>1, SentType DEF TypeOK
    <3> QED BY <1>5, <3>1 DEF LoopWrite, TypeOK
  <2>2. pc' \in {"misc", "reconnect"} /\ sock' \in BOOLEAN
    BY <1>5 DEF LoopWrite, Close, TypeOK
  <2> QED
    BY <1>5, <2>1, <2>2 DEF LoopWrite, history, TypeOK
<1>6. CASE LoopMisc
  BY <1>6 DEF LoopMisc, client, network, history, TypeOK
<1>7. CASE LoopPing
  <2>1. /\ up \in Seq(UpPacket)
        /\ Append(out, Plain("PINGREQ")) \in Seq(UpPacket)
        /\ <<>> \in Seq(UpPacket)
    BY Queued DEF TypeOK
  <2>2. up \o Append(out, Plain("PINGREQ")) \in Seq(UpPacket)
    BY <2>1
  <2>3. out' \in Seq(UpPacket) /\ up' \in Seq(UpPacket) /\ pinged' \in BOOLEAN
    BY <1>7, <2>1, <2>2 DEF LoopPing, TypeOK
  <2> QED
    BY <1>7, <2>3 DEF LoopPing, history, TypeOK
<1>8. CASE LoopKeepaliveLost
  BY <1>8, CloseType DEF LoopKeepaliveLost, network, history, TypeOK
<1> QED
  BY <1>1, <1>2, <1>3, <1>4, <1>5, <1>6, <1>7, <1>8

\* Time passes within its bounds.
LEMMA PassesType ==
  ASSUME TypeOK, NEW d \in Nat, Passes(d)
  PROVE  /\ inAge' \in 0 .. KeepAlive /\ outAge' \in 0 .. KeepAlive
         /\ broker' \in [state : {"new", "active"}, subs : SUBSET Topic, idle : 0 .. Grace + 1]
         /\ cutAge' \in Nat
<1>1. KeepAlive \in Nat /\ Grace + 1 \in Nat
  BY GraceInNat, SessionAssumption DEF SessionAssumption
<1>2. inAge \in 0 .. KeepAlive /\ outAge \in 0 .. KeepAlive /\ broker.idle \in 0 .. Grace + 1
  BY DEF TypeOK
<1>3. inAge' \in 0 .. KeepAlive /\ outAge' \in 0 .. KeepAlive
  BY <1>1, <1>2, OlderInRange DEF Passes
<1>4. broker' \in [state : {"new", "active"}, subs : SUBSET Topic, idle : 0 .. Grace + 1]
  <2>1. Older(broker.idle, d, Grace + 1) \in 0 .. Grace + 1
    BY <1>1, <1>2, OlderInRange
  <2> QED BY <2>1 DEF Passes, TypeOK
<1>5. cutAge' \in Nat
  BY DEF Passes, TypeOK
<1> QED BY <1>3, <1>4, <1>5

\* The end of a turn takes the sleep and what select waits.
LEMMA SleepPasses ==
  ASSUME Sleep
  PROVE  \E d \in Nat : Passes(d) /\ d <= TurnEnd
<1>1. SleepTime \in Nat /\ SelectTime \in Nat
  BY SessionAssumption DEF SessionAssumption
<1>2. PICK wait \in 0 .. SelectTime : Passes(SleepTime + wait)
  <2>1. SelectWaits \subseteq 0 .. SelectTime
    BY <1>1 DEF SelectWaits
  <2> QED
    BY <2>1 DEF Sleep
<1>3. SleepTime + wait \in Nat /\ SleepTime + wait <= TurnEnd
  BY <1>1 DEF TurnEnd
<1> QED
  BY <1>2, <1>3

\* The rest of a turn does too.
LEMMA TurnType ==
  ASSUME TypeOK,
         PublishTopic \/ (\E d \in BlockTimes : Block(d)) \/ Sleep
           \/ (\E d \in BlockTimes : Reconnect(d)) \/ ReconnectFails
  PROVE  TypeOK'
<1> USE SessionAssumption DEF SessionAssumption
<1>1. CASE PublishTopic
  <2>1. SendPublish(sock, out) \in Seq(UpPacket)
    BY Queued DEF SendPublish, TypeOK
  <2>2. out' \in Seq(UpPacket) /\ up' \in Seq(UpPacket) /\ outAge' \in 0 .. KeepAlive
    BY <1>1, <2>1, SentType DEF PublishTopic
  <2>3. pc' \in {"block", "sleep"}
    BY <1>1 DEF PublishTopic
  <2> QED
    BY <1>1, <2>2, <2>3 DEF PublishTopic, history, TypeOK
<1>2. CASE \E d \in BlockTimes : Block(d)
  <2> PICK d \in BlockTimes : Block(d)
    BY <1>2
  <2>1. d \in Nat /\ Passes(d)
    BY DEF Block
  <2>2. faults' \in Nat /\ slow' \in BOOLEAN /\ pc' = "answer"
    BY DEF Block, TypeOK
  <2>3. UNCHANGED <<sock, state, out, wants, pinged, network>>
    BY <2>1 DEF Passes
  <2> QED
    BY <2>1, <2>2, <2>3, PassesType DEF network, TypeOK
<1>3. CASE Sleep
  <2>1. PICK d \in Nat : Passes(d)
    BY <1>3, SleepPasses
  <2>2. UNCHANGED <<sock, state, out, wants, pinged, network, faults, slow>> /\ pc' = "loop"
    BY <1>3, <2>1 DEF Sleep, Passes
  <2> QED
    BY <2>1, <2>2, PassesType DEF network, TypeOK
<1>4. ASSUME Fresh
      PROVE  /\ wants' \in BOOLEAN /\ pinged' \in BOOLEAN /\ outAge' \in 0 .. KeepAlive
             /\ down' \in Seq(DownPacket) /\ slow' \in BOOLEAN /\ cutAge' \in Nat
             /\ broker' \in [state : {"new", "active"}, subs : SUBSET Topic, idle : 0 .. Grace + 1]
  <2>1. 0 \in 0 .. Grace + 1 /\ 0 \in 0 .. KeepAlive
    BY GraceInNat
  <2>2. NewContext \in [state : {"new", "active"}, subs : SUBSET Topic, idle : 0 .. Grace + 1]
    BY <2>1 DEF NewContext
  <2>3. <<>> \in Seq(DownPacket)
    OBVIOUS
  <2>4. /\ wants' = FALSE /\ pinged' = FALSE /\ outAge' = 0 /\ down' = <<>>
        /\ slow' = FALSE /\ cutAge' = 0 /\ broker' = NewContext
    BY <1>4 DEF Fresh
  <2> QED
    BY <2>1, <2>2, <2>3, <2>4
<1>5. CASE \E d \in BlockTimes : Reconnect(d)
  <2> PICK d \in BlockTimes : Reconnect(d)
    BY <1>5
  <2>1. Older(0, d, KeepAlive) \in 0 .. KeepAlive
    <3>1. d \in Nat /\ KeepAlive \in Nat /\ 0 \in 0 .. KeepAlive
      OBVIOUS
    <3> QED
      BY <3>1, OlderInRange
  <2>2. /\ sock' = TRUE /\ state' = "connected" /\ link' = "up"
        /\ up' = <<Plain("CONNECT")>> /\ out' = <<>> /\ inAge' \in 0 .. KeepAlive
    BY <2>1 DEF Reconnect, Connected, CleanedUp
  <2>3. up' \in Seq(UpPacket) /\ out' \in Seq(UpPacket)
    BY <2>2, Queued
  <2>4. pc' = "sleep" /\ faults' = faults /\ Fresh
    BY DEF Reconnect
  <2> QED
    BY <1>4, <2>2, <2>3, <2>4 DEF TypeOK
<1>6. CASE ReconnectFails
  <2>1. /\ sock' = FALSE /\ state' = "connect_pending" /\ link' = "shut"
        /\ up' = <<>> /\ out' = <<>> /\ inAge' = 0
    BY <1>6 DEF ReconnectFails, Unconnected, CleanedUp
  <2>2. up' \in Seq(UpPacket) /\ out' \in Seq(UpPacket) /\ inAge' \in 0 .. KeepAlive
    BY <2>1
  <2>3. pc' = "sleep" /\ faults' \in Nat /\ Fresh
    BY <1>6 DEF ReconnectFails, TypeOK
  <2> QED
    BY <1>4, <2>1, <2>2, <2>3 DEF TypeOK
<1> QED
  BY <1>1, <1>2, <1>3, <1>5, <1>6

\* The broker and the network keep the types.
LEMMA BrokerType ==
  ASSUME TypeOK,
         BrokerAccepts \/ BrokerHandles \/ BrokerRefuses \/ BrokerDrops
           \/ BrokerPublishes \/ BrokerCloses \/ LinkCut
  PROVE  TypeOK'
<1>1. /\ up # <<>> => Tail(up) \in Seq(UpPacket) /\ Head(up) \in UpPacket
      /\ <<>> \in Seq(UpPacket)
      /\ \A p \in DownPacket : Append(down, p) \in Seq(DownPacket) /\ down \o <<p>> \in Seq(DownPacket)
      /\ down \o <<>> \in Seq(DownPacket)
      /\ \A p \in Prefix(down) : p \in Seq(DownPacket)
  BY PrefixInSeq DEF TypeOK
<1>2. ASSUME Untouched
      PROVE  UNCHANGED <<pc, sock, state, out, wants, pinged, inAge, outAge, slow, cutAge>>
  BY <1>2 DEF Untouched, client
<1>3. ASSUME Shut
      PROVE  link' = "shut" /\ up' \in Seq(UpPacket) /\ down' \in Seq(DownPacket)
  BY <1>1, <1>3 DEF Shut
<1>4. CASE BrokerAccepts
  <2>1. broker' \in [state : {"new", "active"}, subs : SUBSET Topic, idle : 0 .. Grace + 1]
    BY <1>4, GraceInNat DEF BrokerAccepts
  <2>2. up' \in Seq(UpPacket) /\ down' \in Seq(DownPacket) /\ link' = link
    BY <1>1, <1>4 DEF BrokerAccepts, Receives, DownPacket
  <2> QED
    BY <1>2, <1>4, <2>1, <2>2 DEF BrokerAccepts, TypeOK
<1>5. CASE BrokerHandles
  <2>1. CASE Shut /\ UNCHANGED broker
    BY <1>2, <1>3, <1>5, <2>1 DEF BrokerHandles, TypeOK
  <2>2. CASE ~(Shut /\ UNCHANGED broker)
    <3>1. broker' \in [state : {"new", "active"}, subs : SUBSET Topic, idle : 0 .. Grace + 1]
      <4>1. broker' = [broker EXCEPT !.idle = 0, !.subs = @ \cup {t \in Topic : Head(up) = Subscribe(t)}]
        BY <1>5, <2>2 DEF BrokerHandles
      <4>2. 0 \in 0 .. Grace + 1
        BY GraceInNat
      <4> QED
        BY <4>1, <4>2 DEF TypeOK
    <3>2. \E p \in {"SUBACK", "PINGRESP"} : Receives(<<p>>) \/ Receives(<<>>)
      BY <1>5, <2>2 DEF BrokerHandles
    <3>3. up' \in Seq(UpPacket) /\ down' \in Seq(DownPacket) /\ link' = link
      BY <1>1, <1>5, <3>2 DEF BrokerHandles, Receives, DownPacket
    <3> QED
      BY <1>2, <1>5, <3>1, <3>3 DEF BrokerHandles, TypeOK
  <2> QED BY <2>1, <2>2
<1>6. CASE BrokerRefuses
  <2>1. up' \in Seq(UpPacket) /\ down' \in Seq(DownPacket) /\ link' = "shut"
    BY <1>1, <1>6 DEF BrokerRefuses, DownPacket
  <2> QED
    BY <1>2, <1>6, <2>1 DEF BrokerRefuses, TypeOK
<1>7. CASE BrokerDrops
  BY <1>2, <1>3, <1>7 DEF BrokerDrops, TypeOK
<1>8. CASE BrokerPublishes
  <2>1. down' \in Seq(DownPacket)
    BY <1>1, <1>8 DEF BrokerPublishes, DownPacket
  <2> QED
    BY <1>2, <1>8, <2>1 DEF BrokerPublishes, TypeOK
<1>9. CASE BrokerCloses
  BY <1>2, <1>3, <1>9 DEF BrokerCloses, TypeOK
<1>10. CASE LinkCut
  BY <1>1, <1>2, <1>10 DEF LinkCut, TypeOK
<1> QED
  BY <1>4, <1>5, <1>6, <1>7, <1>8, <1>9, <1>10

\* Type correctness: ages and queues stay in range on every connection.
THEOREM TypeCorrect == Spec => []TypeOK
<1>1. Init => TypeOK
  <2> SUFFICES ASSUME Init PROVE TypeOK
    OBVIOUS
  <2>1. 0 \in 0 .. KeepAlive /\ 0 \in 0 .. Grace + 1
    BY GraceInNat, SessionAssumption DEF SessionAssumption
  <2>2. broker \in [state : {"new", "active"}, subs : SUBSET Topic, idle : 0 .. Grace + 1]
    BY <2>1 DEF Init, NewContext
  <2>3. up \in Seq(UpPacket) /\ out \in Seq(UpPacket) /\ down \in Seq(DownPacket)
    BY Queued DEF Init
  <2> QED
    BY <2>1, <2>2, <2>3 DEF Init, TypeOK
<1>2. TypeOK /\ [Next]_vars => TypeOK'
  <2> SUFFICES ASSUME TypeOK, [Next]_vars PROVE TypeOK'
    OBVIOUS
  <2>1. CASE MainLoop
    BY <2>1, LoopType, TurnType DEF MainLoop
  <2>2. CASE Next /\ ~MainLoop
    BY <2>2, BrokerType DEF Next, Broker
  <2>3. CASE UNCHANGED vars
    BY <2>3 DEF vars, client, network, history, TypeOK
  <2> QED
    BY <2>1, <2>2, <2>3
<1> QED
  BY <1>1, <1>2, PTL DEF Spec

-----------------------------------------------------------------------------
(* What a step does to the stream of packets.                              *)

Ended == ~(sock' /\ link' = "up")

\* The stream gets more packets at its end, none of them a CONNECT.
Grows ==
  \E more \in Seq(UpPacket) :
    /\ \A i \in DOMAIN more : more[i] # Plain("CONNECT")
    /\ Stream' = Stream \o more

SameConnection ==
  sock' = sock /\ link' = link /\ broker'.state = broker.state /\ broker'.subs = broker.subs

\* No packet more is a case of that.
LEMMA StreamKept ==
  ASSUME TypeOK, Stream' = Stream
  PROVE  Grows
<1>1. Stream \in Seq(UpPacket)
  BY DEF Stream, TypeOK
<1>2. Stream = Stream \o <<>> /\ <<>> \in Seq(UpPacket) /\ DOMAIN <<>> = {}
  BY <1>1
<1> QED
  BY <1>2 DEF Grows

\* A write moves packets from one end of the stream to the other.
LEMMA SentStream ==
  ASSUME TypeOK, NEW queue \in Seq(UpPacket), Sent(queue) \/ Refused(queue), link = "up"
  PROVE  Stream' = up \o queue
<1>1. up \o queue \in Seq(UpPacket) /\ up' = up \o queue /\ out' = <<>>
  BY DEF TypeOK, Sent, Refused
<1> QED
  BY <1>1 DEF Stream

\* One packet more, at the end.
LEMMA OneMore ==
  ASSUME TypeOK, NEW p \in UpPacket
  PROVE  /\ Append(out, p) \in Seq(UpPacket) /\ <<p>> \in Seq(UpPacket)
         /\ up \o Append(out, p) = Stream \o <<p>>
         /\ up \o Append(out, p) \in Seq(UpPacket)
<1>1. out \in Seq(UpPacket) /\ up \in Seq(UpPacket)
  BY DEF TypeOK
<1>2. Append(out, p) = out \o <<p>> /\ up \o (out \o <<p>>) = (up \o out) \o <<p>>
  BY <1>1
<1> QED
  BY <1>1, <1>2 DEF Stream

\* A ping or a message is no CONNECT.
LEMMA NotConnect ==
  ASSUME NEW k \in {"PINGREQ", "PUBLISH"}
  PROVE  \A i \in DOMAIN <<Plain(k)>> : <<Plain(k)>>[i] # Plain("CONNECT")
<1>1. Plain(k) # Plain("CONNECT")
  BY DEF Plain
<1>2. ASSUME NEW p, p # Plain("CONNECT")
      PROVE  \A i \in DOMAIN <<p>> : <<p>>[i] # Plain("CONNECT")
  BY <1>2
<1> QED
  BY <1>1, <1>2

\* A turn of the client library adds to the stream or ends the connection.
LEMMA LoopStream ==
  ASSUME TypeOK,
         LoopNoConn \/ LoopRead \/ LoopReadEnd \/ LoopReadNothing \/ LoopWrite
           \/ LoopMisc \/ LoopPing \/ LoopKeepaliveLost
  PROVE  Ended \/ (SameConnection /\ Grows)
<1>0. out \in Seq(UpPacket) /\ up \in Seq(UpPacket) /\ Subscriptions \in Seq(UpPacket)
  BY Queued DEF TypeOK
<1>1. CASE LoopNoConn \/ LoopReadNothing \/ LoopMisc
  <2>1. sock' = sock /\ link' = link /\ broker' = broker /\ up' = up /\ out' = out
    BY <1>1 DEF LoopNoConn, LoopReadNothing, LoopMisc, client, network
  <2>2. Stream' = Stream
    BY <2>1 DEF Stream
  <2> QED
    BY <2>1, <2>2, StreamKept DEF SameConnection
<1>2. CASE LoopRead
  <2>1. link' = link /\ broker' = broker /\ up' = up /\ sock
    BY <1>2 DEF LoopRead
  <2>2. CASE HandleConnack("CONNACK") /\ Head(down) = "CONNACK"
    <3>1. sock' = sock /\ out' = out \o Subscriptions
      BY <2>2 DEF HandleConnack
    <3>2. Stream' = Stream \o Subscriptions
      BY SMTT(30), <1>0, <2>1, <3>1 DEF Stream
    <3>3. \A i \in DOMAIN Subscriptions : Subscriptions[i] # Plain("CONNECT")
      BY SessionAssumption DEF SessionAssumption, Subscriptions, Subscribe, Plain
    <3>4. Grows
      BY <1>0, <3>2, <3>3 DEF Grows
    <3> QED
      BY <2>1, <3>1, <3>4 DEF SameConnection
  <2>3. CASE ~(HandleConnack("CONNACK") /\ Head(down) = "CONNACK")
    <3>1. sock' = FALSE \/ (sock' = sock /\ out' = out)
      BY <1>2, <2>3 DEF LoopRead, HandleConnack, HandleOther, Close
    <3>2. CASE sock' = sock /\ out' = out
      <4>1. Stream' = Stream
        BY <2>1, <3>2 DEF Stream
      <4> QED
        BY <2>1, <3>2, <4>1, StreamKept DEF SameConnection
    <3> QED
      BY <3>1, <3>2 DEF Ended
  <2> QED
    BY <2>2, <2>3
<1>3. CASE LoopReadEnd \/ LoopKeepaliveLost
  BY <1>3 DEF LoopReadEnd, LoopKeepaliveLost, Close, Ended
<1>4. CASE LoopWrite
  <2> SUFFICES ASSUME sock', link' = "up"
               PROVE  SameConnection /\ Grows
    BY DEF Ended
  <2>1. link' = link /\ broker' = broker
    BY <1>4 DEF LoopWrite
  <2>2. sock' = sock /\ (Sent(out) \/ (up' = up /\ out' = out))
    BY <1>4, <2>1 DEF LoopWrite, Refused, Close, TypeOK
  <2>3. Stream' = Stream
    BY <1>0, <2>1, <2>2, SentStream DEF Stream
  <2> QED
    BY <2>1, <2>2, <2>3, StreamKept DEF SameConnection
<1>5. CASE LoopPing
  <2> SUFFICES ASSUME link' = "up"
               PROVE  SameConnection /\ Grows
    BY DEF Ended
  <2>1. link' = link /\ broker' = broker /\ sock' = sock
    BY <1>5 DEF LoopPing
  <2>2. up' = up \o Append(out, Plain("PINGREQ")) /\ out' = <<>>
    BY <1>5, <2>1 DEF LoopPing
  <2>3. Stream' = Stream \o <<Plain("PINGREQ")>> /\ <<Plain("PINGREQ")>> \in Seq(UpPacket)
    BY <2>2, OneMore, Queued DEF Stream
  <2>4. Grows
    BY <2>3, NotConnect DEF Grows
  <2> QED
    BY <2>1, <2>4 DEF SameConnection
<1> QED
  BY <1>1, <1>2, <1>3, <1>4, <1>5

\* So does the rest of a turn, but for a reconnect.
LEMMA TurnStream ==
  ASSUME TypeOK,
         PublishTopic \/ (\E d \in BlockTimes : Block(d)) \/ Sleep \/ ReconnectFails
  PROVE  Ended \/ (SameConnection /\ Grows)
<1>1. CASE PublishTopic
  <2>1. link' = link /\ broker' = broker /\ sock' = sock
    BY <1>1 DEF PublishTopic
  <2> SUFFICES ASSUME link = "up", sock
               PROVE  SameConnection /\ Grows
    BY <2>1 DEF Ended
  <2> DEFINE queue == Append(out, Plain("PUBLISH"))
  <2>2. Sent(queue) \/ Refused(queue)
    BY <1>1 DEF PublishTopic, SendPublish
  <2>3. /\ queue \in Seq(UpPacket) /\ <<Plain("PUBLISH")>> \in Seq(UpPacket)
        /\ up \o queue = Stream \o <<Plain("PUBLISH")>>
    BY OneMore, Queued
  <2>4. Stream' = Stream \o <<Plain("PUBLISH")>>
    BY <2>2, <2>3, SentStream
  <2>5. Grows
    BY <2>3, <2>4, NotConnect DEF Grows
  <2> QED
    BY <2>1, <2>5 DEF SameConnection
<1>2. CASE (\E d \in BlockTimes : Block(d)) \/ Sleep
  <2>1. \E d : Passes(d)
    BY <1>2 DEF Block, Sleep
  <2>2. /\ sock' = sock /\ link' = link /\ up' = up /\ out' = out
        /\ broker'.state = broker.state /\ broker'.subs = broker.subs
    BY <2>1 DEF Passes, network, TypeOK
  <2>3. Stream' = Stream
    BY <2>2 DEF Stream
  <2> QED
    BY <2>2, <2>3, StreamKept DEF SameConnection
<1>3. CASE ReconnectFails
  BY <1>3 DEF ReconnectFails, Unconnected, Ended
<1> QED
  BY <1>1, <1>2, <1>3

\* The broker ends the connection, takes the first packet, or sends something.
LEMMA BrokerStream ==
  ASSUME TypeOK,
         BrokerAccepts \/ BrokerHandles \/ BrokerRefuses \/ BrokerDrops
           \/ BrokerPublishes \/ BrokerCloses \/ LinkCut
  PROVE  \/ Ended
         \/ SameConnection /\ Grows /\ (broker.subs # {} \/ down' = down)
         \/ /\ UNCHANGED <<sock, out, link, state>>
            /\ broker'.state = "active"
            /\ link = "up" /\ up # <<>> /\ up' = Tail(up)
            /\ \/ broker.state = "new"
               \/ broker'.subs = broker.subs \cup {t \in Topic : Head(up) = Subscribe(t)}
<1>1. CASE BrokerRefuses \/ BrokerDrops \/ BrokerCloses \/ LinkCut
  BY <1>1 DEF BrokerRefuses, BrokerDrops, BrokerCloses, LinkCut, Shut, Ended
<1>2. CASE BrokerPublishes
  <2>1. sock' = sock /\ link' = link /\ up' = up /\ out' = out /\ broker' = broker /\ broker.subs # {}
    BY <1>2 DEF BrokerPublishes, Untouched, client
  <2>2. Stream' = Stream
    BY <2>1 DEF Stream
  <2> QED
    BY <2>1, <2>2, StreamKept DEF SameConnection
<1>3. CASE BrokerAccepts
  BY <1>3 DEF BrokerAccepts, Receives, Untouched, client
<1>4. CASE BrokerHandles
  <2> SUFFICES ASSUME link' = "up"
               PROVE  /\ UNCHANGED <<sock, out, link, state>>
                      /\ broker'.state = "active"
                      /\ link = "up" /\ up # <<>> /\ up' = Tail(up)
                      /\ broker'.subs = broker.subs \cup {t \in Topic : Head(up) = Subscribe(t)}
    BY DEF Ended
  <2>1. UNCHANGED <<sock, out, link, state>> /\ link = "up" /\ up # <<>> /\ up' = Tail(up)
    BY <1>4 DEF BrokerHandles, Receives, Shut, Untouched, client
  <2>2. broker.state = "active"
    BY <1>4 DEF BrokerHandles, Shut, TypeOK
  <2>3. broker' = [broker EXCEPT !.idle = 0, !.subs = @ \cup {t \in Topic : Head(up) = Subscribe(t)}]
    BY <1>4 DEF BrokerHandles, Shut
  <2> QED
    BY <2>1, <2>2, <2>3 DEF TypeOK
<1> QED
  BY <1>1, <1>2, <1>3, <1>4

-----------------------------------------------------------------------------
(* One CONNECT on every connection, and nothing before it.                 *)

\* A step that appends packets other than CONNECT.
LEMMA StreamGrows ==
  ASSUME ConnectFirst, TypeOK, NEW more \in Seq(UpPacket),
         \A i \in DOMAIN more : more[i] # Plain("CONNECT"),
         SameConnection, Stream' = Stream \o more
  PROVE  ConnectFirst'
<1>1. Stream \in Seq(UpPacket) /\ broker'.state = broker.state
  BY DEF Stream, TypeOK, SameConnection
<1> SUFFICES ASSUME sock, link = "up"
             PROVE  /\ broker'.state = "new" => Stream \o more # <<>>
                    /\ \A i \in DOMAIN (Stream \o more) :
                         (Stream \o more)[i] = Plain("CONNECT") <=> (i = 1 /\ broker'.state = "new")
  BY DEF ConnectFirst, SameConnection
<1>2. broker.state = "new" => Stream # <<>>
  BY DEF ConnectFirst
<1>3. \A i \in DOMAIN Stream : Stream[i] = Plain("CONNECT") <=> (i = 1 /\ broker.state = "new")
  BY DEF ConnectFirst
<1>4. broker'.state = "new" => Stream \o more # <<>>
  BY <1>1, <1>2
<1>5. ASSUME NEW i \in DOMAIN (Stream \o more)
      PROVE  (Stream \o more)[i] = Plain("CONNECT") <=> (i = 1 /\ broker'.state = "new")
  <2>1. CASE i \in DOMAIN Stream
    <3>1. (Stream \o more)[i] = Stream[i]
      BY <1>1, <2>1
    <3> QED
      BY <1>1, <1>3, <2>1, <3>1
  <2>2. CASE i \notin DOMAIN Stream
    <3>1. i - Len(Stream) \in DOMAIN more /\ (Stream \o more)[i] = more[i - Len(Stream)]
      BY <1>1, <2>2
    <3>2. ~(i = 1 /\ broker.state = "new")
      BY <1>1, <1>2, <2>2
    <3> QED
      BY <1>1, <3>1, <3>2
  <2> QED
    BY <2>1, <2>2
<1> QED
  BY <1>4, <1>5

\* The stream of every connection has one CONNECT, its first packet, whatever
\* the queues held when the earlier connection ended.
THEOREM OneConnect == Spec => []ConnectFirst
<1>1. Init => ConnectFirst
  <2> SUFFICES ASSUME Init, sock PROVE ConnectFirst
    BY DEF ConnectFirst
  <2>1. Stream = <<Plain("CONNECT")>> /\ broker.state = "new"
    BY DEF Init, Stream, NewContext
  <2> QED
    BY <2>1 DEF ConnectFirst
<1>2. TypeOK /\ ConnectFirst /\ [Next]_vars => ConnectFirst'
  <2> SUFFICES ASSUME TypeOK, ConnectFirst, [Next]_vars PROVE ConnectFirst'
    OBVIOUS
  <2>1. CASE Ended
    BY <2>1 DEF Ended, ConnectFirst
  <2>2. CASE SameConnection /\ Grows
    BY <2>2, StreamGrows DEF Grows
  <2>3. CASE \E d \in BlockTimes : Reconnect(d)
    <3>1. up' = <<Plain("CONNECT")>> /\ out' = <<>> /\ broker'.state = "new"
      BY <2>3 DEF Reconnect, Connected, CleanedUp, Fresh, NewContext
    <3>2. Stream' = <<Plain("CONNECT")>>
      BY <3>1 DEF Stream
    <3> QED
      BY <3>1, <3>2 DEF ConnectFirst
  <2>4. CASE /\ UNCHANGED <<sock, out, link, state>>
             /\ broker'.state = "active"
             /\ link = "up" /\ up # <<>> /\ up' = Tail(up)
    <3>1. Stream \in Seq(UpPacket) /\ Stream # <<>> /\ Stream' = Tail(Stream)
      BY SMTT(60), <2>4 DEF Stream, TypeOK
    <3> SUFFICES ASSUME sock, NEW i \in DOMAIN Stream'
                 PROVE  Stream'[i] # Plain("CONNECT")
      BY <2>4 DEF ConnectFirst
    <3>2. i + 1 \in DOMAIN Stream /\ Stream'[i] = Stream[i + 1] /\ i + 1 # 1
      BY <3>1
    <3> QED
      BY <2>4, <3>2 DEF ConnectFirst
  <2>5. CASE UNCHANGED vars
    <3>1. SameConnection /\ Stream' = Stream
      BY <2>5 DEF vars, client, network, SameConnection, Stream
    <3> QED
      BY <2>2, <3>1, StreamKept
  <2>6. CASE MainLoop
    BY <2>1, <2>2, <2>3, <2>6, LoopStream, TurnStream DEF MainLoop
  <2>7. CASE Next /\ ~MainLoop
    BY <2>1, <2>2, <2>4, <2>7, BrokerStream DEF Next, Broker
  <2> QED
    BY <2>5, <2>6, <2>7
<1> QED
  BY <1>1, <1>2, TypeCorrect, PTL DEF Spec

-----------------------------------------------------------------------------
(* A connection the library calls active is subscribed to everything.      *)

\* Before the broker has accepted the session the library does not call it
\* active, and the broker has sent nothing.
NotYet ==
  sock /\ link = "up" /\ broker.state = "new" =>
    state # "active" /\ down = <<>> /\ broker.subs = {}

Covered(t) == t \in broker.subs \/ Has(Stream, Subscribe(t))

LEMMA HasConcat ==
  ASSUME NEW S, NEW q1 \in Seq(S), NEW q2 \in Seq(S), NEW p
  PROVE  Has(q1 \o q2, p) <=> Has(q1, p) \/ Has(q2, p)
<1>1. ASSUME Has(q1 \o q2, p) PROVE Has(q1, p) \/ Has(q2, p)
  <2> PICK i \in DOMAIN (q1 \o q2) : (q1 \o q2)[i] = p
    BY <1>1 DEF Has
  <2>1. CASE i <= Len(q1)
    BY <2>1 DEF Has
  <2>2. CASE i > Len(q1)
    <3>1. i - Len(q1) \in DOMAIN q2 /\ q2[i - Len(q1)] = p
      BY <2>2
    <3> QED
      BY <3>1 DEF Has
  <2> QED
    BY <2>1, <2>2
<1>2. ASSUME Has(q1, p) PROVE Has(q1 \o q2, p)
  <2> PICK i \in DOMAIN q1 : q1[i] = p
    BY <1>2 DEF Has
  <2>1. i \in DOMAIN (q1 \o q2) /\ (q1 \o q2)[i] = p
    OBVIOUS
  <2> QED
    BY <2>1 DEF Has
<1>3. ASSUME Has(q2, p) PROVE Has(q1 \o q2, p)
  <2> PICK i \in DOMAIN q2 : q2[i] = p
    BY <1>3 DEF Has
  <2>1. i + Len(q1) \in DOMAIN (q1 \o q2) /\ (q1 \o q2)[i + Len(q1)] = p
    OBVIOUS
  <2> QED
    BY <2>1 DEF Has
<1> QED
  BY <1>1, <1>2, <1>3

\* NeverDeaf in terms of the stream.
HearsAll == sock /\ link = "up" /\ state = "active" => \A t \in Topic : Covered(t)

LEMMA CoveredGrows ==
  ASSUME TypeOK, SameConnection, Grows, NEW t, Covered(t)
  PROVE  Covered(t)'
<1> PICK more \in Seq(UpPacket) : Stream' = Stream \o more
  BY DEF Grows
<1>1. Stream \in Seq(UpPacket)
  BY DEF Stream, TypeOK
<1>2. Has(Stream, Subscribe(t)) => Has(Stream', Subscribe(t))
  BY <1>1, HasConcat
<1> QED
  BY <1>2 DEF Covered, SameConnection

\* Where the library first calls a connection active it has queued everything.
LEMMA CoveredByConnack ==
  ASSUME TypeOK, LoopRead, HandleConnack("CONNACK"), NEW t \in Topic
  PROVE  Covered(t)'
<1>1. /\ out \in Seq(UpPacket) /\ up \in Seq(UpPacket) /\ Subscriptions \in Seq(UpPacket)
      /\ up' = up /\ out' = out \o Subscriptions
  BY Queued DEF TypeOK, LoopRead, HandleConnack
<1>2. Stream' = (up \o out) \o Subscriptions
  BY SMTT(30), <1>1 DEF Stream
<1>3. Has(Subscriptions, Subscribe(t))
  BY DEF Has, Subscriptions, Topic
<1>4. up \o out \in Seq(UpPacket)
  BY <1>1
<1>5. Has(Stream', Subscribe(t))
  BY <1>1, <1>2, <1>3, <1>4, HasConcat
<1> QED
  BY <1>5 DEF Covered

\* What the broker takes from the stream it subscribes to.
LEMMA CoveredHandled ==
  ASSUME TypeOK, UNCHANGED out, up # <<>>, up' = Tail(up),
         broker'.subs = broker.subs \cup {u \in Topic : Head(up) = Subscribe(u)},
         NEW t \in Topic, Covered(t)
  PROVE  Covered(t)'
<1>1. Stream \in Seq(UpPacket) /\ Stream # <<>> /\ Stream' = Tail(Stream) /\ Head(up) = Stream[1]
  <2>1. up \in Seq(UpPacket) /\ out \in Seq(UpPacket) /\ up' = Tail(up) /\ out' = out
    BY DEF TypeOK
  <2>2. /\ up \o out \in Seq(UpPacket) /\ up \o out # <<>>
        /\ Tail(up) \o out = Tail(up \o out)
        /\ Head(up) = (up \o out)[1]
    BY SMTT(30), <2>1
  <2> QED
    BY <2>1, <2>2 DEF Stream
<1>2. CASE t \in broker.subs
  BY <1>2 DEF Covered
<1>3. CASE Has(Stream, Subscribe(t))
  <2> PICK i \in DOMAIN Stream : Stream[i] = Subscribe(t)
    BY <1>3 DEF Has
  <2>1. CASE i = 1
    <3>1. Head(up) = Subscribe(t)
      BY <1>1, <2>1
    <3> QED
      BY <3>1 DEF Covered
  <2>2. CASE i # 1
    <3>1. i - 1 \in DOMAIN Stream' /\ Stream'[i - 1] = Subscribe(t)
      BY <1>1, <2>2
    <3>2. Has(Stream', Subscribe(t))
      BY <3>1 DEF Has
    <3> QED
      BY <3>2 DEF Covered
  <2> QED
    BY <2>1, <2>2
<1> QED
  BY <1>2, <1>3 DEF Covered

\* A turn but for a reconnect.
LEMMA LoopHears ==
  ASSUME TypeOK, NotYet, HearsAll, ~Ended,
         MainLoop, ~(\E d \in BlockTimes : Reconnect(d))
  PROVE  NotYet' /\ HearsAll'
<1>1. SameConnection /\ Grows
  BY LoopStream, TurnStream DEF MainLoop
<1>2. sock /\ link = "up"
  BY <1>1 DEF SameConnection, Ended
<1>3. CASE LoopRead
  <2>1. broker.state # "new"
    BY <1>2, <1>3 DEF NotYet, LoopRead
  <2>2. NotYet'
    BY <1>1, <2>1 DEF NotYet, SameConnection
  <2>3. state' = state \/ HandleConnack("CONNACK")
    BY <1>3 DEF LoopRead, HandleConnack, HandleOther
  <2>4. HearsAll'
    <3>1. CASE state' = state
      BY <1>1, <1>2, <3>1, CoveredGrows DEF HearsAll
    <3>2. CASE HandleConnack("CONNACK")
      BY <1>3, <3>2, CoveredByConnack DEF HearsAll
    <3> QED
      BY <2>3, <3>1, <3>2
  <2> QED
    BY <2>2, <2>4
<1>4. CASE ~LoopRead
  <2>1. state' = state /\ down' = down
    <3>1. CASE LoopNoConn \/ LoopReadNothing \/ LoopMisc
      BY <3>1 DEF LoopNoConn, LoopReadNothing, LoopMisc, client, network
    <3>2. CASE LoopReadEnd \/ LoopWrite \/ LoopPing \/ LoopKeepaliveLost \/ PublishTopic
      BY <3>2 DEF LoopReadEnd, LoopWrite, LoopPing, LoopKeepaliveLost, PublishTopic, network
    <3>3. CASE (\E d \in BlockTimes : Block(d)) \/ Sleep
      BY <3>3 DEF Block, Sleep, Passes, network
    <3>4. ~ReconnectFails
      BY DEF ReconnectFails, Unconnected, Ended
    <3> QED
      BY <1>4, <3>1, <3>2, <3>3, <3>4 DEF MainLoop
  <2>2. NotYet'
    BY <1>1, <1>2, <2>1 DEF NotYet, SameConnection
  <2>3. HearsAll'
    BY <1>1, <1>2, <2>1, CoveredGrows DEF HearsAll
  <2> QED
    BY <2>2, <2>3
<1> QED
  BY <1>3, <1>4

\* No reconnect, refused attempt or broken connection leaves the gateway on an
\* active session with a topic that is neither subscribed nor about to be.
THEOREM Subscribed == Spec => []NeverDeaf
<1>1. Init => NotYet /\ HearsAll
  BY DEF Init, NotYet, HearsAll, NewContext
<1>2. TypeOK /\ NotYet /\ HearsAll /\ [Next]_vars => NotYet' /\ HearsAll'
  <2> SUFFICES ASSUME TypeOK, NotYet, HearsAll, [Next]_vars, ~Ended
               PROVE  NotYet' /\ HearsAll'
    BY DEF Ended, NotYet, HearsAll
  <2>1. CASE \E d \in BlockTimes : Reconnect(d)
    BY <2>1 DEF Reconnect, Connected, Fresh, NewContext, NotYet, HearsAll
  <2>2. CASE MainLoop /\ ~(\E d \in BlockTimes : Reconnect(d))
    BY <2>2, LoopHears
  <2>3. CASE Next /\ ~MainLoop
    <3>1. state' = state
      BY <2>3 DEF Next, Broker, BrokerAccepts, BrokerHandles, BrokerRefuses, BrokerDrops,
                  BrokerPublishes, BrokerCloses, LinkCut, Untouched, client
    <3>2. CASE SameConnection /\ Grows /\ (broker.subs # {} \/ down' = down)
      <4>1. NotYet'
        BY <3>1, <3>2 DEF NotYet, SameConnection, Ended
      <4>2. HearsAll'
        BY <3>1, <3>2, CoveredGrows DEF HearsAll, SameConnection
      <4> QED
        BY <4>1, <4>2
    <3>3. CASE /\ UNCHANGED <<sock, out, link, state>>
               /\ broker'.state = "active"
               /\ link = "up" /\ up # <<>> /\ up' = Tail(up)
               /\ \/ broker.state = "new"
                  \/ broker'.subs = broker.subs \cup {t \in Topic : Head(up) = Subscribe(t)}
      <4>1. NotYet'
        BY <3>3 DEF NotYet
      <4>2. HearsAll'
        BY <3>3, CoveredHandled DEF HearsAll, NotYet
      <4> QED
        BY <4>1, <4>2
    <3> QED
      BY <2>3, <3>2, <3>3, BrokerStream DEF Next, Broker
  <2>4. CASE UNCHANGED vars
    <3>1. UNCHANGED <<sock, link, state, broker, up, out, down>>
      BY <2>4 DEF vars, client, network
    <3>2. SameConnection /\ Stream' = Stream
      BY <3>1 DEF SameConnection, Stream
    <3> QED
      BY <3>1, <3>2 DEF NotYet, HearsAll, Covered
  <2> QED
    BY <2>1, <2>2, <2>3, <2>4 DEF Next
<1>3. TypeOK /\ HearsAll => NeverDeaf
  <2> SUFFICES ASSUME TypeOK, HearsAll PROVE NeverDeaf
    OBVIOUS
  <2>1. \A p : Has(Stream, p) => Has(up, p) \/ Has(out, p)
    BY HasConcat DEF Stream, TypeOK
  <2> QED
    BY <2>1 DEF NeverDeaf, HearsAll, Covered
<1> QED
  BY <1>1, <1>2, <1>3, TypeCorrect, PTL DEF Spec

-----------------------------------------------------------------------------
(* What the client has still to read.                                      *)

\* Where the packets of a kind are in a stream, and the answers w in a queue.
KindAt(s, k) == {i \in DOMAIN s : s[i].kind = k}
WordAt(d, w) == {i \in DOMAIN d : d[i] = w}
One(S) == \A i, j \in S : i = j

\* One ping at most is on its way or being answered, and only while the client
\* waits for the answer.
PingAlone(s, d, waits) ==
  /\ One(KindAt(s, "PINGREQ")) /\ One(WordAt(d, "PINGRESP"))
  /\ KindAt(s, "PINGREQ") = {} \/ WordAt(d, "PINGRESP") = {}
  /\ ~waits => KindAt(s, "PINGREQ") = {} /\ WordAt(d, "PINGRESP") = {}

\* k subscriptions, next to one another in the stream, are still to be answered;
\* they and the queue together stay below n, but for the answer to a ping.
SubsDue(s, d, n, k) ==
  /\ \E p \in Nat : KindAt(s, "SUBSCRIBE") = p + 1 .. p + k
  /\ Len(d) + k <= n + (IF WordAt(d, "PINGRESP") = {} THEN 0 ELSE 1)

LEMMA KindAppend ==
  ASSUME NEW s \in Seq(UpPacket), NEW p \in UpPacket, NEW k
  PROVE  KindAt(s \o <<p>>, k) =
           IF p.kind = k THEN KindAt(s, k) \cup {Len(s) + 1} ELSE KindAt(s, k)
<1>1. PICK u : u = s \o <<p>>
  OBVIOUS
<1>2. PICK n \in Nat : n = Len(s)
  OBVIOUS
<1>3. DOMAIN u = 1 .. n + 1 /\ u[n + 1] = p /\ \A i \in 1 .. n : u[i] = s[i]
  BY <1>1, <1>2
<1>4. DOMAIN s = 1 .. n
  BY <1>2
<1>5. 1 .. n + 1 = (1 .. n) \cup {n + 1}
  OBVIOUS
<1> QED
  BY ONLY <1>1, <1>2, <1>3, <1>4, <1>5 DEF KindAt

LEMMA KindTail ==
  ASSUME NEW s \in Seq(UpPacket), s # <<>>, NEW k
  PROVE  /\ \A i : i \in KindAt(Tail(s), k) <=> i \in Nat \ {0} /\ i + 1 \in KindAt(s, k)
         /\ 1 \in KindAt(s, k) <=> Head(s).kind = k
<1>1. PICK u : u = Tail(s)
  OBVIOUS
<1>2. PICK n \in Nat : n = Len(s) /\ n >= 1
  OBVIOUS
<1>3. DOMAIN u = 1 .. n - 1 /\ \A i \in 1 .. n - 1 : u[i] = s[i + 1]
  BY <1>1, <1>2
<1>4. DOMAIN s = 1 .. n /\ Head(s) = s[1]
  BY <1>2
<1>5. \A i : i \in 1 .. n - 1 <=> i \in Nat \ {0} /\ i + 1 \in 1 .. n
  BY ONLY n \in Nat
<1> QED
  BY <1>1, <1>2, <1>3, <1>4, <1>5 DEF KindAt

LEMMA WordAppend ==
  ASSUME NEW S, NEW d \in Seq(S), NEW p \in S, NEW w
  PROVE  /\ WordAt(Append(d, p), w) = IF p = w THEN WordAt(d, w) \cup {Len(d) + 1} ELSE WordAt(d, w)
         /\ Len(Append(d, p)) = Len(d) + 1
<1>1. PICK u : u = Append(d, p)
  OBVIOUS
<1>2. PICK n \in Nat : n = Len(d)
  OBVIOUS
<1>3. DOMAIN u = 1 .. n + 1 /\ Len(u) = n + 1 /\ u[n + 1] = p /\ \A i \in 1 .. n : u[i] = d[i]
  BY <1>1, <1>2
<1>4. DOMAIN d = 1 .. n
  BY <1>2
<1>5. 1 .. n + 1 = (1 .. n) \cup {n + 1}
  OBVIOUS
<1> QED
  BY ONLY <1>1, <1>2, <1>3, <1>4, <1>5 DEF WordAt

LEMMA WordTail ==
  ASSUME NEW S, NEW d \in Seq(S), d # <<>>, NEW w
  PROVE  /\ \A i : i \in WordAt(Tail(d), w) <=> i \in Nat \ {0} /\ i + 1 \in WordAt(d, w)
         /\ 1 \in WordAt(d, w) <=> Head(d) = w
         /\ Len(Tail(d)) = Len(d) - 1
<1>1. PICK u : u = Tail(d)
  OBVIOUS
<1>2. PICK n \in Nat : n = Len(d) /\ n >= 1
  OBVIOUS
<1>3. DOMAIN u = 1 .. n - 1 /\ Len(u) = n - 1 /\ \A i \in 1 .. n - 1 : u[i] = d[i + 1]
  BY <1>1, <1>2
<1>4. DOMAIN d = 1 .. n /\ Head(d) = d[1]
  BY <1>2
<1>5. \A i : i \in 1 .. n - 1 <=> i \in Nat \ {0} /\ i + 1 \in 1 .. n
  BY ONLY n \in Nat
<1> QED
  BY <1>1, <1>2, <1>3, <1>4, <1>5 DEF WordAt

\* The indices of a sequence.
LEMMA Indices ==
  ASSUME NEW S, NEW s \in Seq(S), NEW k
  PROVE  KindAt(s, k) \subseteq 1 .. Len(s) /\ WordAt(s, k) \subseteq 1 .. Len(s)
         /\ Len(s) \in Nat
BY DEF KindAt, WordAt

\* A packet that asks for no answer of its own joins the stream.
LEMMA DueOnAppend ==
  ASSUME NEW s \in Seq(UpPacket), NEW d, NEW waits, NEW n, NEW k,
         NEW p \in UpPacket, p.kind \notin {"SUBSCRIBE", "PINGREQ"}
  PROVE  /\ PingAlone(s, d, waits) => PingAlone(s \o <<p>>, d, waits)
         /\ SubsDue(s, d, n, k) => SubsDue(s \o <<p>>, d, n, k)
BY ZenonT(40), KindAppend DEF PingAlone, SubsDue

\* So does a ping.
LEMMA DueOnPing ==
  ASSUME NEW s \in Seq(UpPacket), NEW d, NEW n, NEW k
  PROVE  /\ PingAlone(s, d, FALSE) => PingAlone(s \o <<Plain("PINGREQ")>>, d, TRUE)
         /\ SubsDue(s, d, n, k) => SubsDue(s \o <<Plain("PINGREQ")>>, d, n, k)
<1>1. PICK p \in UpPacket : p = Plain("PINGREQ")
  BY Queued
<1>2. p.kind = "PINGREQ"
  BY <1>1 DEF Plain
<1>3. /\ KindAt(s \o <<p>>, "PINGREQ") = KindAt(s, "PINGREQ") \cup {Len(s) + 1}
      /\ KindAt(s \o <<p>>, "SUBSCRIBE") = KindAt(s, "SUBSCRIBE")
  BY ONLY ZenonT(40), <1>2, KindAppend, s \in Seq(UpPacket), p \in UpPacket
<1>4. PingAlone(s, d, FALSE) => PingAlone(s \o <<p>>, d, TRUE)
  BY ONLY <1>3 DEF PingAlone, One
<1>5. SubsDue(s, d, n, k) => SubsDue(s \o <<p>>, d, n, k)
  BY ONLY <1>3 DEF SubsDue
<1> QED
  BY <1>1, <1>4, <1>5

\* The client reads an answer.
LEMMA DueOnRead ==
  ASSUME NEW s, NEW d \in Seq(DownPacket), d # <<>>, NEW waits \in BOOLEAN, NEW n \in Nat,
         NEW k \in Nat
  PROVE  /\ PingAlone(s, d, waits) => PingAlone(s, Tail(d), waits /\ Head(d) # "PINGRESP")
         /\ SubsDue(s, d, n, k) /\ PingAlone(s, d, waits) => SubsDue(s, Tail(d), n, k)
<1>1. PICK A : A = WordAt(d, "PINGRESP")
  OBVIOUS
<1>2. PICK B : B = WordAt(Tail(d), "PINGRESP")
  OBVIOUS
<1>3. PICK t : t = Tail(d)
  OBVIOUS
<1>4. PICK m \in Nat : m = Len(d)
  OBVIOUS
<1>5. /\ \A i : i \in B <=> i \in Nat \ {0} /\ i + 1 \in A
      /\ 1 \in A <=> Head(d) = "PINGRESP"
      /\ Len(t) = m - 1
  BY <1>1, <1>2, <1>3, <1>4, WordTail
<1>6. A \subseteq 1 .. m
  BY <1>1, <1>4, Indices
<1>7. One(A) => One(B)
  BY <1>5, <1>6 DEF One
<1>8. One(A) /\ Head(d) = "PINGRESP" => B = {}
  <2> SUFFICES ASSUME One(A), 1 \in A, NEW i \in B PROVE FALSE
    BY <1>5
  <2>1. i + 1 \in A /\ i \in Nat \ {0}
    BY <1>5
  <2>2. i + 1 = 1
    BY <2>1 DEF One
  <2> QED
    BY <2>1, <2>2
<1>9. Head(d) # "PINGRESP" => (A = {} <=> B = {})
  <2>1. A = {} => B = {}
    BY <1>5
  <2>2. ASSUME Head(d) # "PINGRESP", NEW i \in A PROVE i - 1 \in B
    <3>1. i \in Nat /\ i >= 1 /\ i # 1
      BY <1>5, <1>6, <2>2
    <3> QED
      BY <1>5, <3>1
  <2> QED
    BY <2>1, <2>2
<1>10. PingAlone(s, d, waits) => PingAlone(s, t, waits /\ Head(d) # "PINGRESP")
  <2> SUFFICES ASSUME PingAlone(s, d, waits)
               PROVE  PingAlone(s, t, waits /\ Head(d) # "PINGRESP")
    OBVIOUS
  <2>1. One(KindAt(s, "PINGREQ")) /\ One(A) /\ (KindAt(s, "PINGREQ") = {} \/ A = {})
        /\ (~waits => KindAt(s, "PINGREQ") = {} /\ A = {})
    BY <1>1 DEF PingAlone
  <2>2. A = {} => B = {}
    BY <1>5
  <2>3. Head(d) = "PINGRESP" => KindAt(s, "PINGREQ") = {}
    BY <1>5, <2>1
  <2>4. ~(waits /\ Head(d) # "PINGRESP") => KindAt(s, "PINGREQ") = {} /\ B = {}
    BY <1>8, <2>1, <2>2, <2>3
  <2> QED
    BY ONLY <1>2, <1>3, <1>7, <2>1, <2>2, <2>4 DEF PingAlone
<1>11. SubsDue(s, d, n, k) => SubsDue(s, t, n, k)
  <2> SUFFICES ASSUME SubsDue(s, d, n, k) PROVE SubsDue(s, t, n, k)
    OBVIOUS
  <2>1. m + k <= n + (IF A = {} THEN 0 ELSE 1)
    BY ONLY SubsDue(s, d, n, k), <1>1, <1>4 DEF SubsDue
  <2>2. (m - 1) + k <= n + (IF B = {} THEN 0 ELSE 1)
    <3>1. CASE Head(d) = "PINGRESP"
      BY ONLY <2>1, m \in Nat, n \in Nat, k \in Nat
    <3>2. CASE Head(d) # "PINGRESP"
      BY ONLY <1>9, <2>1, <3>2, m \in Nat, n \in Nat, k \in Nat
    <3> QED
      BY <3>1, <3>2
  <2>3. \E p \in Nat : KindAt(s, "SUBSCRIBE") = p + 1 .. p + k
    BY ONLY SubsDue(s, d, n, k) DEF SubsDue
  <2> QED
    BY ONLY <1>2, <1>3, <1>5, <2>2, <2>3 DEF SubsDue
<1> QED
  BY <1>3, <1>10, <1>11

\* What the broker answers to a packet.
AnswersTo(p) == CASE p.kind = "SUBSCRIBE" -> <<"SUBACK">>
                  [] p.kind = "PINGREQ" -> <<"PINGRESP">>
                  [] OTHER -> <<>>

\* The places of the packets that follow the first one of the stream.
Shifted(A, B) == \A i : i \in B <=> i \in Nat \ {0} /\ i + 1 \in A

FirstGone(A, B, k) ==
  /\ 1 \in A => k > 0 /\ B = 0 + 1 .. 0 + (k - 1)
  /\ 1 \notin A => \E q \in Nat : B = q + 1 .. q + k

LEMMA NextInterval ==
  ASSUME NEW A \in SUBSET Nat, NEW B, NEW p \in Nat, NEW k \in Nat, A = p + 1 .. p + k,
         Shifted(A, B)
  PROVE  FirstGone(A, B, k)
<1> USE DEF Shifted
<1>1. ASSUME 1 \in A PROVE k > 0 /\ B = 0 + 1 .. 0 + (k - 1)
  <2>1. p = 0 /\ k > 0
    BY <1>1
  <2>2. \A i : i \in B <=> i \in 0 + 1 .. 0 + (k - 1)
    BY <2>1
  <2> QED
    BY <2>1, <2>2
<1>2. ASSUME 1 \notin A PROVE \E q \in Nat : B = q + 1 .. q + k
  <2>1. CASE k = 0
    <3>1. A = {}
      BY <2>1
    <3>2. B = 0 + 1 .. 0 + k
      BY <2>1, <3>1
    <3> QED
      BY <3>2
  <2>2. CASE k > 0
    <3>1. p > 0
      BY <1>2, <2>2
    <3>2. PICK q \in Nat : p = q + 1
      BY <3>1
    <3>3. \A i : i \in B <=> i \in q + 1 .. q + k
      BY <3>2
    <3>4. B = q + 1 .. q + k
      BY <3>3
    <3> QED
      BY <3>4
  <2> QED
    BY <2>1, <2>2
<1> QED
  BY <1>1, <1>2 DEF FirstGone

\* The broker takes the first packet of the stream and answers it.
LEMMA DueOnAnswer ==
  ASSUME NEW s \in Seq(UpPacket), s # <<>>, NEW d \in Seq(DownPacket), NEW waits,
         NEW n \in Nat, NEW k \in Nat,
         PingAlone(s, d, waits), SubsDue(s, d, n, k)
  PROVE  /\ PingAlone(Tail(s), d \o AnswersTo(Head(s)), waits)
         /\ \E j \in 0 .. k : SubsDue(Tail(s), d \o AnswersTo(Head(s)), n, j)
<1>1. PICK A : A = KindAt(s, "PINGREQ")
  OBVIOUS
<1>2. PICK B : B = KindAt(Tail(s), "PINGREQ")
  OBVIOUS
<1>3. PICK P \in SUBSET Nat : P = KindAt(s, "SUBSCRIBE")
  BY Indices
<1>4. PICK Q : Q = KindAt(Tail(s), "SUBSCRIBE")
  OBVIOUS
<1>5. PICK W : W = WordAt(d, "PINGRESP")
  OBVIOUS
<1>6. PICK m \in Nat : m = Len(d)
  OBVIOUS
<1>7. PICK h : h = Head(s)
  OBVIOUS
<1>8. PICK e : e = d \o AnswersTo(h)
  OBVIOUS
<1>9. PICK V : V = WordAt(e, "PINGRESP")
  OBVIOUS
<1>10. /\ \A i : i \in B <=> i \in Nat \ {0} /\ i + 1 \in A
       /\ 1 \in A <=> h.kind = "PINGREQ"
  BY <1>1, <1>2, <1>7, KindTail
<1>11. /\ \A i : i \in Q <=> i \in Nat \ {0} /\ i + 1 \in P
       /\ 1 \in P <=> h.kind = "SUBSCRIBE"
  BY <1>3, <1>4, <1>7, KindTail
<1>12. A \subseteq Nat \ {0}
  BY <1>1, Indices
<1>13. PICK p \in Nat : P = p + 1 .. p + k
  BY <1>3 DEF SubsDue
<1>14. m + k <= n + (IF W = {} THEN 0 ELSE 1)
  BY ONLY SubsDue(s, d, n, k), <1>5, <1>6 DEF SubsDue
<1>15. One(A) /\ One(W) /\ (A = {} \/ W = {}) /\ (~waits => A = {} /\ W = {})
  BY <1>1, <1>5 DEF PingAlone
<1>16. /\ 1 \in P => k > 0 /\ Q = 0 + 1 .. 0 + (k - 1)
       /\ 1 \notin P => \E q \in Nat : Q = q + 1 .. q + k
  <2>1. Shifted(P, Q)
    BY <1>11 DEF Shifted
  <2>2. FirstGone(P, Q, k)
    BY ONLY P \in SUBSET Nat, p \in Nat, k \in Nat, <2>1, <1>13, NextInterval
  <2> QED
    BY ONLY <2>2 DEF FirstGone
<1>17. One(B) /\ (A = {} => B = {}) /\ (1 \in A => B = {})
  <2>1. One(B)
    <3> SUFFICES ASSUME NEW i \in B, NEW j \in B PROVE i = j
      BY DEF One
    <3>1. i + 1 = j + 1 /\ i \in Nat /\ j \in Nat
      BY <1>10, <1>15 DEF One
    <3> QED
      BY <3>1
  <2>2. ASSUME 1 \in A, NEW i \in B PROVE FALSE
    <3>1. i + 1 = 1 /\ i \in Nat \ {0}
      BY <1>10, <1>15, <2>2 DEF One
    <3> QED
      BY <3>1
  <2> QED
    BY <1>10, <2>1, <2>2
<1>18. CASE h.kind = "SUBSCRIBE"
  <2>1. e = Append(d, "SUBACK")
    BY <1>8, <1>18 DEF AnswersTo
  <2>2. "SUBACK" \in DownPacket /\ "SUBACK" # "PINGRESP"
    BY DEF DownPacket
  <2>3. V = W /\ Len(e) = m + 1
    BY ONLY <1>5, <1>6, <1>9, <2>1, <2>2, d \in Seq(DownPacket), WordAppend
  <2>4. PingAlone(Tail(s), e, waits)
    BY ONLY <1>2, <1>9, <1>15, <1>17, <2>3 DEF PingAlone
  <2>5. k > 0 /\ Q = 0 + 1 .. 0 + (k - 1)
    BY <1>11, <1>16, <1>18
  <2>6. PICK j \in 0 .. k : j = k - 1
    BY <2>5
  <2>7. (m + 1) + j <= n + (IF V = {} THEN 0 ELSE 1)
    BY <1>14, <2>3, <2>6
  <2>8. SubsDue(Tail(s), e, n, j)
    <3>1. 0 \in Nat
      OBVIOUS
    <3> QED
      BY ONLY <1>4, <1>9, <2>3, <2>5, <2>6, <2>7, <3>1 DEF SubsDue
  <2> QED
    BY <1>7, <1>8, <2>4, <2>8
<1>19. CASE h.kind = "PINGREQ"
  <2>1. e = Append(d, "PINGRESP")
    BY <1>8, <1>19 DEF AnswersTo
  <2>2. "PINGRESP" \in DownPacket
    BY DEF DownPacket
  <2>3. V = W \cup {m + 1} /\ Len(e) = m + 1
    BY ONLY <1>5, <1>6, <1>9, <2>1, <2>2, d \in Seq(DownPacket), WordAppend
  <2>4. 1 \in A /\ 1 \notin P
    BY <1>10, <1>11, <1>19
  <2>5. W = {} /\ waits
    BY <1>15, <2>4, Zenon
  <2>6. V = {m + 1}
    BY <2>3, <2>5
  <2>7. PingAlone(Tail(s), e, waits)
    BY ONLY <1>2, <1>9, <1>17, <2>4, <2>5, <2>6 DEF PingAlone, One
  <2>8. (m + 1) + k <= n + (IF V = {} THEN 0 ELSE 1)
    BY <1>14, <2>5, <2>6
  <2>9. SubsDue(Tail(s), e, n, k)
    BY ONLY <1>4, <1>9, <1>16, <2>3, <2>4, <2>8 DEF SubsDue
  <2> QED
    BY <1>7, <1>8, <2>7, <2>9
<1>20. CASE h.kind \notin {"SUBSCRIBE", "PINGREQ"}
  <2>1. e = d
    BY <1>8, <1>20 DEF AnswersTo
  <2>2. PingAlone(Tail(s), e, waits)
    BY ONLY <1>2, <1>5, <1>15, <1>17, <2>1 DEF PingAlone
  <2>3. 1 \notin P
    BY <1>11, <1>20
  <2>4. SubsDue(Tail(s), e, n, k)
    BY ONLY <1>4, <1>5, <1>6, <1>14, <1>16, <2>1, <2>3 DEF SubsDue
  <2> QED
    BY <1>7, <1>8, <2>2, <2>4
<1> QED
  BY <1>18, <1>19, <1>20

\* The broker has a command for the gateway.
LEMMA DueOnCommand ==
  ASSUME NEW s, NEW d \in Seq(DownPacket), NEW waits, NEW b \in Nat, NEW t \in Nat,
         NEW k \in 0 .. t, Len(d) < b
  PROVE  /\ PingAlone(s, d, waits) => PingAlone(s, Append(d, "COMMAND"), waits)
         /\ SubsDue(s, d, b + t, k) => SubsDue(s, Append(d, "COMMAND"), b + t, k)
<1>1. "COMMAND" \in DownPacket /\ "COMMAND" # "PINGRESP"
  BY DEF DownPacket
<1>2. PICK e : e = Append(d, "COMMAND")
  OBVIOUS
<1>3. PICK m \in Nat : m = Len(d)
  OBVIOUS
<1>4. WordAt(e, "PINGRESP") = WordAt(d, "PINGRESP") /\ Len(e) = m + 1
  BY ONLY <1>1, <1>2, <1>3, d \in Seq(DownPacket), WordAppend
<1>5. PingAlone(s, d, waits) => PingAlone(s, e, waits)
  BY ONLY <1>4 DEF PingAlone
<1>6. (m + 1) + k <= b + t + 0 /\ (m + 1) + k <= b + t + 1
  BY ONLY <1>3, Len(d) < b, m \in Nat, b \in Nat, t \in Nat, k \in 0 .. t
<1>7. SubsDue(s, d, b + t, k) => SubsDue(s, e, b + t, k)
  BY ONLY <1>4, <1>6 DEF SubsDue
<1> QED
  BY <1>2, <1>5, <1>7

\* Nothing in the stream is to be answered with more than the CONNACK.
Quiet(s) == KindAt(s, "SUBSCRIBE") = {} /\ KindAt(s, "PINGREQ") = {}

LEMMA Joined ==
  ASSUME NEW S, NEW s \in Seq(S), NEW v \in Seq(S)
  PROVE  /\ s \o v \in Seq(S) /\ DOMAIN (s \o v) = 1 .. Len(s) + Len(v)
         /\ \A i \in 1 .. Len(s) : (s \o v)[i] = s[i]
         /\ \A i \in Len(s) + 1 .. Len(s) + Len(v) : (s \o v)[i] = v[i - Len(s)]
OBVIOUS

\* The session is accepted and the client subscribes.
LEMMA DueOnConnack ==
  ASSUME NEW s \in Seq(UpPacket), Quiet(s), NEW waits, NEW b \in Nat
  PROVE  /\ PingAlone(s \o Subscriptions, <<>>, waits)
         /\ SubsDue(s \o Subscriptions, <<>>, b + Len(Topics), Len(Topics))
<1>1. PICK n \in Nat : n = Len(s)
  OBVIOUS
<1>2. PICK t \in Nat : t = Len(Topics)
  BY SessionAssumption DEF SessionAssumption
<1>3. PICK v \in Seq(UpPacket) : v = Subscriptions
  BY Queued
<1>4. Len(v) = t /\ \A i \in 1 .. t : v[i].kind = "SUBSCRIBE"
  <2>1. DOMAIN Topics = 1 .. t
    BY <1>2, SessionAssumption DEF SessionAssumption
  <2>2. v = [i \in 1 .. t |-> Subscribe(Topics[i])]
    BY <1>3, <2>1 DEF Subscriptions
  <2>3. DOMAIN v = 1 .. t /\ \A i \in 1 .. t : v[i].kind = "SUBSCRIBE"
    BY <2>2 DEF Subscribe
  <2>4. Len(v) = t
    BY <2>2
  <2> QED
    BY <2>3, <2>4
<1>5. PICK u \in Seq(UpPacket) : u = s \o v
  BY Joined
<1>6. /\ DOMAIN u = 1 .. n + t
      /\ \A i \in 1 .. n : u[i] = s[i]
      /\ \A i \in n + 1 .. n + t : u[i] = v[i - n]
  <2>1. n = Len(s) /\ t = Len(v)
    BY <1>1, <1>4
  <2> QED
    BY ONLY <1>5, <2>1, s \in Seq(UpPacket), v \in Seq(UpPacket), Joined
<1>7. \A i \in 1 .. n : s[i].kind \notin {"SUBSCRIBE", "PINGREQ"}
  BY <1>1 DEF Quiet, KindAt
<1>8. \A i \in n + 1 .. n + t : u[i].kind = "SUBSCRIBE"
  BY <1>4, <1>6
<1>9. \A i \in 1 .. n : u[i].kind \notin {"SUBSCRIBE", "PINGREQ"}
  BY <1>6, <1>7
<1>10. \A i \in 1 .. n + t : i \in 1 .. n \/ i \in n + 1 .. n + t
  OBVIOUS
<1>11. \A i \in n + 1 .. n + t : i \in 1 .. n + t
  OBVIOUS
<1>12. KindAt(u, "PINGREQ") = {}
  <2>1. "SUBSCRIBE" # "PINGREQ"
    OBVIOUS
  <2> QED
    BY ONLY <1>6, <1>8, <1>9, <1>10, <2>1 DEF KindAt
<1>13. KindAt(u, "SUBSCRIBE") = n + 1 .. n + t
  <2>1. \A i : i \in KindAt(u, "SUBSCRIBE") <=> i \in n + 1 .. n + t
    BY ONLY <1>6, <1>8, <1>9, <1>10, <1>11 DEF KindAt
  <2> QED
    BY <2>1
<1>14. WordAt(<<>>, "PINGRESP") = {} /\ Len(<<>>) = 0
  BY DEF WordAt
<1>15. PingAlone(u, <<>>, waits)
  BY <1>12, <1>14 DEF PingAlone, One
<1>16. 0 + t <= b + t + 0
  OBVIOUS
<1>17. SubsDue(u, <<>>, b + t, t)
  BY ONLY <1>13, <1>14, <1>16, n \in Nat DEF SubsDue
<1> QED
  BY <1>2, <1>3, <1>5, <1>15, <1>17

\* How far the client is behind on a good connection: before the session and in it.
Waiting ==
  /\ Quiet(Stream) /\ broker.subs = {} /\ down \in {<<>>, <<"CONNACK">>}
  /\ broker.state = "new" => down = <<>>

Served ==
  /\ broker.state = "active" /\ WordAt(down, "CONNACK") = {}
  /\ PingAlone(Stream, down, pinged)
  /\ \E k \in 0 .. Len(Topics) : SubsDue(Stream, down, MaxBacklog + Len(Topics), k)

Backlog ==
  sock /\ link = "up" => (state # "active" /\ Waiting) \/ (state = "active" /\ Served)

LEMMA BacklogTypes ==
  ASSUME TypeOK
  PROVE  /\ Stream \in Seq(UpPacket) /\ down \in Seq(DownPacket) /\ pinged \in BOOLEAN
         /\ Len(Topics) \in Nat /\ MaxBacklog \in Nat /\ MaxBacklog + Len(Topics) \in Nat
<1>1. Len(Topics) \in Nat /\ MaxBacklog \in Nat
  BY SessionAssumption DEF SessionAssumption
<1> QED
  BY <1>1 DEF TypeOK, Stream

\* Nothing that matters here changes.
LEMMA BacklogIdle ==
  ASSUME Backlog, SameConnection, Stream' = Stream, UNCHANGED <<down, state, pinged>>
  PROVE  Backlog'
BY DEF Backlog, Waiting, Served, SameConnection

\* A message joins the stream.
LEMMA BacklogPublish ==
  ASSUME TypeOK, Backlog, SameConnection, UNCHANGED <<down, state, pinged>>,
         Stream' = Stream \o <<Plain("PUBLISH")>>
  PROVE  Backlog'
<1> SUFFICES ASSUME sock, link = "up" PROVE Backlog'
  BY DEF Backlog, SameConnection
<1>1. PICK p \in UpPacket : p = Plain("PUBLISH")
  BY Queued
<1>2. p.kind = "PUBLISH"
  BY <1>1 DEF Plain
<1>3. PICK s \in Seq(UpPacket) : s = Stream
  BY BacklogTypes
<1>4. Stream' = s \o <<p>>
  BY <1>1, <1>3
<1>5. CASE state # "active"
  <2>1. Quiet(s)
    BY <1>3, <1>5 DEF Backlog, Waiting
  <2>2. Quiet(s \o <<p>>)
    BY <1>2, <2>1, KindAppend DEF Quiet
  <2> QED
    BY <1>4, <1>5, <2>2 DEF Backlog, Waiting, SameConnection
<1>6. CASE state = "active"
  <2>1. p.kind \notin {"SUBSCRIBE", "PINGREQ"}
    BY <1>2
  <2>2. PingAlone(s \o <<p>>, down, pinged)
    BY <1>3, <1>6, <2>1, DueOnAppend DEF Backlog, Served
  <2>3. \E k \in 0 .. Len(Topics) : SubsDue(s \o <<p>>, down, MaxBacklog + Len(Topics), k)
    BY <1>3, <1>6, <2>1, DueOnAppend DEF Backlog, Served
  <2> QED
    BY <1>4, <1>6, <2>2, <2>3 DEF Backlog, Served, SameConnection
<1> QED
  BY <1>5, <1>6

LEMMA BacklogPing ==
  ASSUME TypeOK, Backlog, SameConnection, UNCHANGED <<down, state>>,
         state = "active", ~pinged, pinged',
         Stream' = Stream \o <<Plain("PINGREQ")>>
  PROVE  Backlog'
<1> SUFFICES ASSUME sock, link = "up" PROVE Backlog'
  BY DEF Backlog, SameConnection
<1>1. PICK s \in Seq(UpPacket) : s = Stream
  BY BacklogTypes
<1>2. pinged = FALSE /\ pinged' = TRUE
  BY BacklogTypes, Zenon
<1>3. Served
  BY DEF Backlog
<1>4. PingAlone(s, down, FALSE)
  BY <1>1, <1>2, <1>3 DEF Served
<1>5. PingAlone(s \o <<Plain("PINGREQ")>>, down, TRUE)
  BY <1>4, DueOnPing
<1>6. \E k \in 0 .. Len(Topics) :
        SubsDue(s \o <<Plain("PINGREQ")>>, down, MaxBacklog + Len(Topics), k)
  BY <1>1, <1>3, DueOnPing DEF Served
<1>7. Served'
  BY <1>1, <1>2, <1>3, <1>5, <1>6 DEF Served, SameConnection
<1> QED
  BY <1>7 DEF Backlog

LEMMA BacklogRead ==
  ASSUME TypeOK, Backlog, LoopRead, ~Ended
  PROVE  Backlog'
<1>1. /\ sock /\ link = "up" /\ down # <<>> /\ down' = Tail(down) /\ sock'
      /\ UNCHANGED <<link, up, broker>>
  BY DEF LoopRead, Ended
<1>2. PICK s \in Seq(UpPacket) : s = Stream
  BY BacklogTypes
<1>3. PICK d \in Seq(DownPacket) : d = down
  BY BacklogTypes
<1>4. CASE state # "active"
  <2>1. Waiting
    BY <1>1, <1>4 DEF Backlog
  <2>2. down = <<"CONNACK">>
    BY <1>1, <2>1 DEF Waiting
  <2>3. Head(down) = "CONNACK" /\ Tail(down) = <<>>
    BY <2>2
  <2>4. state' = "active" /\ out' = out \o Subscriptions
    BY <2>3 DEF LoopRead, HandleConnack
  <2>5. Stream' = s \o Subscriptions
    <3>1. up \in Seq(UpPacket) /\ out \in Seq(UpPacket) /\ Subscriptions \in Seq(UpPacket)
      BY Queued DEF TypeOK
    <3> QED
      BY SMTT(30), <1>1, <1>2, <2>4, <3>1 DEF Stream
  <2>6. Quiet(s)
    BY <1>2, <2>1 DEF Waiting
  <2>7. /\ PingAlone(s \o Subscriptions, <<>>, pinged')
        /\ SubsDue(s \o Subscriptions, <<>>, MaxBacklog + Len(Topics), Len(Topics))
    BY <2>6, BacklogTypes, DueOnConnack
  <2>8. Len(Topics) \in 0 .. Len(Topics) /\ down' = <<>>
    BY <1>1, <2>3, BacklogTypes
  <2>9. broker'.state = "active"
    BY <1>1, <2>1, <2>2 DEF Waiting, TypeOK
  <2>10. WordAt(down', "CONNACK") = {}
    BY <2>8 DEF WordAt
  <2>11. Served'
    BY <2>5, <2>7, <2>8, <2>9, <2>10 DEF Served
  <2> QED
    BY <2>4, <2>11 DEF Backlog
<1>5. CASE state = "active"
  <2>1. Served
    BY <1>1, <1>5 DEF Backlog
  <2>2. Head(d) # "CONNACK" /\ WordAt(Tail(d), "CONNACK") = {}
    <3>1. d # <<>> /\ WordAt(d, "CONNACK") = {}
      BY <1>1, <1>3, <2>1 DEF Served
    <3> QED
      BY <3>1, WordTail
  <2>3. Head(d) # "REFUSED"
    BY <1>1, <1>3, <2>2 DEF LoopRead, HandleConnack, Close
  <2>4. UNCHANGED <<state, out>> /\ pinged' = (pinged /\ Head(d) # "PINGRESP")
    BY <1>3, <1>5, <2>2, <2>3 DEF LoopRead, HandleOther
  <2>5. Stream' = s
    BY <1>1, <1>2, <2>4 DEF Stream
  <2>6. PICK k \in 0 .. Len(Topics) : SubsDue(s, d, MaxBacklog + Len(Topics), k)
    BY <1>2, <1>3, <2>1 DEF Served
  <2>7. PICK w \in BOOLEAN : w = pinged
    BY BacklogTypes
  <2>8. PICK n \in Nat : n = MaxBacklog + Len(Topics)
    BY BacklogTypes
  <2>9. PingAlone(s, d, w) /\ SubsDue(s, d, n, k) /\ d # <<>> /\ k \in Nat
    BY <1>1, <1>2, <1>3, <2>1, <2>6, <2>7, <2>8, BacklogTypes DEF Served
  <2>10. PingAlone(s, Tail(d), w /\ Head(d) # "PINGRESP") /\ SubsDue(s, Tail(d), n, k)
    BY ONLY <2>9, d \in Seq(DownPacket), w \in BOOLEAN, n \in Nat, DueOnRead
  <2>11. PingAlone(s, Tail(d), pinged')
    BY ONLY <2>4, <2>7, <2>10
  <2>12. Served'
    BY <1>1, <1>3, <2>1, <2>2, <2>5, <2>8, <2>10, <2>11 DEF Served
  <2> QED
    BY <1>5, <2>4, <2>12 DEF Backlog
<1> QED
  BY <1>4, <1>5

LEMMA QuietConnect == Quiet(<<Plain("CONNECT")>>)
<1>1. ASSUME NEW p, p.kind = "CONNECT" PROVE Quiet(<<p>>)
  BY <1>1 DEF Quiet, KindAt
<1>2. Plain("CONNECT").kind = "CONNECT"
  BY DEF Plain
<1> QED
  BY <1>1, <1>2

\* A turn of the main loop.
LEMMA BacklogLoop ==
  ASSUME TypeOK, Backlog, MainLoop, ~Ended
  PROVE  Backlog'
<1>0. out \in Seq(UpPacket) /\ up \in Seq(UpPacket)
  BY DEF TypeOK
<1>1. CASE LoopNoConn \/ LoopReadNothing \/ LoopMisc
  <2>1. UNCHANGED <<sock, link, broker, up, out, down, state, pinged>>
    BY <1>1 DEF LoopNoConn, LoopReadNothing, LoopMisc, client, network
  <2> QED
    BY <2>1, BacklogIdle DEF SameConnection, Stream
<1>2. CASE LoopRead
  BY <1>2, BacklogRead
<1>3. CASE LoopReadEnd \/ LoopKeepaliveLost
  BY <1>3 DEF LoopReadEnd, LoopKeepaliveLost, Close, Ended
<1>4. CASE LoopWrite
  <2>1. UNCHANGED <<link, broker, down, state, pinged>> /\ link = "up" /\ sock'
    BY <1>4 DEF LoopWrite, Ended
  <2>2. sock' = sock /\ (Sent(out) \/ (up' = up /\ out' = out))
    BY <1>4, <2>1 DEF LoopWrite, Refused, Close, TypeOK
  <2>3. Stream' = Stream
    BY <1>0, <2>1, <2>2, SentStream DEF Stream
  <2> QED
    BY <2>1, <2>2, <2>3, BacklogIdle DEF SameConnection
<1>5. CASE LoopPing
  <2>1. UNCHANGED <<sock, link, broker, down, state>> /\ link = "up" /\ state = "active" /\ ~pinged
    BY <1>5 DEF LoopPing, Ended
  <2>2. up' = up \o Append(out, Plain("PINGREQ")) /\ out' = <<>> /\ pinged' = TRUE
    BY <1>5, <2>1 DEF LoopPing
  <2>3. Stream' = Stream \o <<Plain("PINGREQ")>>
    BY <2>2, OneMore, Queued DEF Stream
  <2> QED
    BY <2>1, <2>2, <2>3, BacklogPing DEF SameConnection
<1>6. CASE PublishTopic
  <2>1. UNCHANGED <<sock, link, broker, down, state, pinged>> /\ sock /\ link = "up"
    BY <1>6 DEF PublishTopic, Ended
  <2> DEFINE queue == Append(out, Plain("PUBLISH"))
  <2>2. Sent(queue) \/ Refused(queue)
    BY <1>6, <2>1 DEF PublishTopic, SendPublish
  <2>3. queue \in Seq(UpPacket) /\ up \o queue = Stream \o <<Plain("PUBLISH")>>
    BY OneMore, Queued
  <2>4. Stream' = Stream \o <<Plain("PUBLISH")>>
    BY <2>1, <2>2, <2>3, SentStream
  <2> QED
    BY <2>1, <2>4, BacklogPublish DEF SameConnection
<1>7. CASE (\E d \in BlockTimes : Block(d)) \/ Sleep
  <2>1. \E d : Passes(d)
    BY <1>7 DEF Block, Sleep
  <2>2. /\ UNCHANGED <<sock, link, up, out, down, state, pinged>>
        /\ broker'.state = broker.state /\ broker'.subs = broker.subs
    BY <2>1 DEF Passes, network, TypeOK
  <2> QED
    BY <2>2, BacklogIdle DEF SameConnection, Stream
<1>8. CASE \E d \in BlockTimes : Reconnect(d)
  <2>1. /\ up' = <<Plain("CONNECT")>> /\ out' = <<>> /\ state' = "connected"
        /\ down' = <<>> /\ broker'.subs = {}
    BY <1>8 DEF Reconnect, Connected, CleanedUp, Fresh, NewContext
  <2>2. Stream' = <<Plain("CONNECT")>>
    BY <2>1 DEF Stream
  <2>3. Quiet(Stream')
    BY <2>2, QuietConnect
  <2> QED
    BY <2>1, <2>3 DEF Backlog, Waiting
<1>9. CASE ReconnectFails
  BY <1>9 DEF ReconnectFails, Unconnected, Ended
<1> QED
  BY <1>1, <1>2, <1>3, <1>4, <1>5, <1>6, <1>7, <1>8, <1>9 DEF MainLoop

\* What the broker answers is no CONNACK.
LEMMA NoSecondConnack ==
  ASSUME NEW d \in Seq(DownPacket), NEW p, WordAt(d, "CONNACK") = {}
  PROVE  WordAt(d \o AnswersTo(p), "CONNACK") = {}
<1>1. CASE p.kind = "SUBSCRIBE"
  <2>1. d \o AnswersTo(p) = Append(d, "SUBACK") /\ "SUBACK" \in DownPacket
    BY <1>1 DEF AnswersTo, DownPacket
  <2> QED
    BY <2>1, WordAppend
<1>2. CASE p.kind = "PINGREQ"
  <2>1. d \o AnswersTo(p) = Append(d, "PINGRESP") /\ "PINGRESP" \in DownPacket
    BY <1>2 DEF AnswersTo, DownPacket
  <2> QED
    BY <2>1, WordAppend
<1>3. CASE p.kind \notin {"SUBSCRIBE", "PINGREQ"}
  <2>1. d \o AnswersTo(p) = d
    BY <1>3 DEF AnswersTo
  <2> QED
    BY <2>1
<1> QED
  BY <1>1, <1>2, <1>3

\* The broker takes the first packet of the stream.
LEMMA StreamTaken ==
  ASSUME TypeOK, UNCHANGED out, up # <<>>, up' = Tail(up)
  PROVE  Stream # <<>> /\ Stream' = Tail(Stream) /\ Head(up) = Head(Stream)
<1>1. up \in Seq(UpPacket) /\ out \in Seq(UpPacket)
  BY DEF TypeOK
<1>2. up \o out # <<>> /\ Tail(up) \o out = Tail(up \o out) /\ Head(up) = Head(up \o out)
  BY <1>1
<1> QED
  BY <1>2 DEF Stream

LEMMA QuietTail ==
  ASSUME NEW s \in Seq(UpPacket), s # <<>>, Quiet(s)
  PROVE  Quiet(Tail(s)) /\ Head(s).kind \notin {"SUBSCRIBE", "PINGREQ"}
BY KindTail DEF Quiet

LEMMA BacklogHandled ==
  ASSUME TypeOK, Backlog, BrokerHandles, ~Ended
  PROVE  Backlog'
<1>1. /\ UNCHANGED <<sock, out, link, state, pinged>> /\ link = "up" /\ up # <<>> /\ sock
      /\ broker.state = "active"
  BY DEF BrokerHandles, Receives, Shut, Untouched, client, Ended, TypeOK
<1>2. up' = Tail(up) /\ down' = down \o AnswersTo(Head(up))
  BY <1>1 DEF BrokerHandles, Receives, Shut, Ended, AnswersTo
<1>3. broker'.state = "active"
      /\ broker'.subs = broker.subs \cup {t \in Topic : Head(up) = Subscribe(t)}
  <2>1. broker' = [broker EXCEPT !.idle = 0, !.subs = @ \cup {t \in Topic : Head(up) = Subscribe(t)}]
    BY <1>1 DEF BrokerHandles, Shut, Ended
  <2> QED
    BY <1>1, <2>1 DEF TypeOK
<1>4. PICK s \in Seq(UpPacket) : s = Stream
  BY BacklogTypes
<1>5. PICK d \in Seq(DownPacket) : d = down
  BY BacklogTypes
<1>6. s # <<>> /\ Stream' = Tail(s) /\ Head(up) = Head(s)
  BY <1>1, <1>2, <1>4, StreamTaken
<1>7. CASE state # "active"
  <2>1. Waiting
    BY <1>1, <1>7 DEF Backlog
  <2>2. Quiet(Tail(s)) /\ Head(s).kind \notin {"SUBSCRIBE", "PINGREQ"}
    BY <1>4, <1>6, <2>1, QuietTail DEF Waiting
  <2>3. down' = down
    <3>1. AnswersTo(Head(s)) = <<>>
      BY <2>2 DEF AnswersTo
    <3>2. d \o <<>> = d
      OBVIOUS
    <3> QED
      BY <1>2, <1>5, <1>6, <3>1, <3>2
  <2>4. broker'.subs = {}
    <3>1. \A t : Subscribe(t).kind = "SUBSCRIBE"
      BY DEF Subscribe
    <3>2. {t \in Topic : Head(up) = Subscribe(t)} = {}
      BY <1>6, <2>2, <3>1
    <3> QED
      BY <1>3, <2>1, <3>2 DEF Waiting
  <2> QED
    BY <1>1, <1>3, <1>6, <1>7, <2>1, <2>2, <2>3, <2>4 DEF Backlog, Waiting
<1>8. CASE state = "active"
  <2>1. Served
    BY <1>1, <1>8 DEF Backlog
  <2>2. PICK n \in Nat : n = MaxBacklog + Len(Topics)
    BY BacklogTypes
  <2>3. PICK k \in 0 .. Len(Topics) : SubsDue(s, d, n, k)
    BY <1>4, <1>5, <2>1, <2>2 DEF Served
  <2>4. PingAlone(s, d, pinged) /\ k \in Nat
    BY <1>4, <1>5, <2>1, BacklogTypes DEF Served
  <2>5. PICK h : h = Head(s)
    OBVIOUS
  <2>6. /\ PingAlone(Tail(s), d \o AnswersTo(h), pinged)
        /\ \E j \in 0 .. k : SubsDue(Tail(s), d \o AnswersTo(h), n, j)
    BY ONLY <1>6, <2>3, <2>4, <2>5, s \in Seq(UpPacket), d \in Seq(DownPacket), n \in Nat,
            DueOnAnswer
  <2>7. PICK j \in 0 .. k : SubsDue(Tail(s), d \o AnswersTo(h), n, j)
    BY <2>6
  <2>8. j \in 0 .. Len(Topics)
    BY BacklogTypes
  <2>9. WordAt(d \o AnswersTo(h), "CONNACK") = {}
    BY <1>5, <2>1, NoSecondConnack DEF Served
  <2>10. down' = d \o AnswersTo(h) /\ Stream' = Tail(s) /\ pinged' = pinged
    BY <1>1, <1>2, <1>5, <1>6, <2>5
  <2>11. Served'
    BY <1>3, <2>2, <2>6, <2>7, <2>8, <2>9, <2>10 DEF Served
  <2> QED
    BY <1>1, <1>8, <2>11 DEF Backlog
<1> QED
  BY <1>7, <1>8

LEMMA BacklogBroker ==
  ASSUME TypeOK, Backlog, Next, ~MainLoop, ~Ended
  PROVE  Backlog'
<1>1. CASE BrokerAccepts
  <2>1. /\ UNCHANGED <<sock, out, link, state, pinged>> /\ link = "up" /\ up # <<>> /\ sock
        /\ up' = Tail(up) /\ down' = down \o <<"CONNACK">> /\ broker.state = "new"
        /\ broker'.state = "active" /\ broker'.subs = {}
    BY <1>1 DEF BrokerAccepts, Receives, Untouched, client, Ended
  <2>2. state # "active" /\ Waiting
    BY <2>1 DEF Backlog, Served
  <2>3. down' = <<"CONNACK">>
    BY <2>1, <2>2 DEF Waiting
  <2>4. Stream \in Seq(UpPacket) /\ Stream # <<>> /\ Stream' = Tail(Stream)
    BY <2>1, BacklogTypes, StreamTaken
  <2>5. Quiet(Stream')
    BY <2>2, <2>4, QuietTail DEF Waiting
  <2> QED
    BY <2>1, <2>2, <2>3, <2>5 DEF Backlog, Waiting
<1>2. CASE BrokerHandles
  BY <1>2, BacklogHandled
<1>3. CASE BrokerRefuses \/ BrokerDrops \/ BrokerCloses \/ LinkCut
  BY <1>3 DEF BrokerRefuses, BrokerDrops, BrokerCloses, LinkCut, Shut, Ended
<1>4. CASE BrokerPublishes
  <2>1. /\ UNCHANGED <<sock, out, link, up, state, pinged, broker>> /\ link = "up" /\ sock
        /\ broker.subs # {} /\ Len(down) < MaxBacklog /\ down' = Append(down, "COMMAND")
    BY <1>4 DEF BrokerPublishes, Untouched, client, Ended
  <2>2. state = "active" /\ Served
    BY <2>1 DEF Backlog, Waiting
  <2>3. PICK d \in Seq(DownPacket) : d = down
    BY BacklogTypes
  <2>4. PICK b \in Nat : b = MaxBacklog
    BY BacklogTypes
  <2>5. PICK t \in Nat : t = Len(Topics)
    BY BacklogTypes
  <2>6. PICK s : s = Stream
    OBVIOUS
  <2>7. PICK k \in 0 .. t : SubsDue(s, d, b + t, k)
    BY <2>2, <2>3, <2>4, <2>5, <2>6 DEF Served
  <2>8. PingAlone(s, d, pinged) /\ WordAt(d, "CONNACK") = {}
    BY <2>2, <2>3, <2>6 DEF Served
  <2>9. Len(d) < b
    BY <2>1, <2>3, <2>4
  <2>10. PingAlone(s, Append(d, "COMMAND"), pinged) /\ SubsDue(s, Append(d, "COMMAND"), b + t, k)
    BY ONLY <2>7, <2>8, <2>9, d \in Seq(DownPacket), b \in Nat, t \in Nat, k \in 0 .. t,
            DueOnCommand
  <2>11. WordAt(Append(d, "COMMAND"), "CONNACK") = {}
    <3>1. "COMMAND" \in DownPacket
      BY DEF DownPacket
    <3> QED
      BY <2>8, <3>1, WordAppend
  <2>12. Stream' = s /\ down' = Append(d, "COMMAND")
    BY <2>1, <2>3, <2>6 DEF Stream
  <2>13. Served'
    BY <2>1, <2>2, <2>4, <2>5, <2>10, <2>11, <2>12 DEF Served
  <2> QED
    BY <2>1, <2>2, <2>13 DEF Backlog
<1> QED
  BY <1>1, <1>2, <1>3, <1>4 DEF Next, Broker

\* What a cut leaves to be read.
Unread == sock /\ link = "cut" => Len(down) <= MaxUnread

LEMMA BacklogBound ==
  ASSUME TypeOK, Backlog, sock, link = "up"
  PROVE  Len(down) <= MaxUnread
<1>1. Len(down) \in Nat
  BY BacklogTypes
<1>2. CASE Waiting
  <2>1. ASSUME NEW w PROVE Len(<<w>>) = 1
    OBVIOUS
  <2>2. Len(down) <= 1
    <3>1. CASE down = <<>>
      BY <3>1
    <3>2. CASE down = <<"CONNACK">>
      <4>1. Len(down) = 1
        BY ONLY <2>1, <3>2
      <4> QED
        BY <4>1
    <3> QED
      BY <1>2, <3>1, <3>2 DEF Waiting
  <2> QED
    BY <1>1, <2>2, BacklogTypes DEF MaxUnread
<1>3. CASE Served
  <2>1. PICK k \in 0 .. Len(Topics) : SubsDue(Stream, down, MaxBacklog + Len(Topics), k)
    BY <1>3 DEF Served
  <2>2. Len(down) + k <= MaxBacklog + Len(Topics) + 0 \/ Len(down) + k <= MaxBacklog + Len(Topics) + 1
    BY <2>1 DEF SubsDue
  <2> QED
    BY <1>1, <2>2, BacklogTypes DEF MaxUnread
<1> QED
  BY <1>2, <1>3 DEF Backlog

LEMMA BacklogInit == Init => Backlog /\ Unread
<1> SUFFICES ASSUME Init, sock, link = "up" PROVE state # "active" /\ Waiting
  BY DEF Backlog, Unread, Init
<1>1. Stream = <<Plain("CONNECT")>> /\ state = "connected"
  BY DEF Init, Stream
<1>2. Quiet(Stream)
  BY <1>1, QuietConnect
<1> QED
  BY <1>1, <1>2 DEF Init, Waiting, NewContext

LEMMA BacklogStep == TypeOK /\ Backlog /\ [Next]_vars => Backlog'
<1> SUFFICES ASSUME TypeOK, Backlog, [Next]_vars PROVE Backlog'
  OBVIOUS
<1>1. CASE Ended
  BY <1>1 DEF Ended, Backlog
<1>2. CASE UNCHANGED vars
  <2>1. UNCHANGED <<sock, link, broker, up, out, down, state, pinged>>
    BY <1>2 DEF vars, client, network
  <2> QED
    BY <2>1, BacklogIdle DEF SameConnection, Stream
<1> QED
  BY <1>1, <1>2, BacklogLoop, BacklogBroker

LEMMA UnreadStep == TypeOK /\ Backlog /\ Unread /\ [Next]_vars => Unread'
<1> SUFFICES ASSUME TypeOK, Backlog, Unread, [Next]_vars, sock', link' = "cut"
             PROVE  Len(down') <= MaxUnread
  BY DEF Unread
<1>0. MaxUnread \in Nat /\ down \in Seq(DownPacket)
  BY BacklogTypes DEF MaxUnread
<1>1. CASE UNCHANGED vars
  BY <1>1 DEF vars, client, network, Unread
<1>2. CASE LinkCut
  <2>1. sock /\ link = "up" /\ down' \in Prefix(down)
    BY <1>2 DEF LinkCut, Untouched, client
  <2>2. Len(down) <= MaxUnread
    BY <2>1, BacklogBound
  <2>3. PICK n \in 0 .. Len(down) : down' = SubSeq(down, 1, n)
    BY <2>1 DEF Prefix
  <2>4. Len(down') = n
    BY <1>0, <2>3
  <2> QED
    BY <1>0, <2>2, <2>4
<1>3. CASE LoopRead
  <2>1. sock /\ link = "cut" /\ down # <<>> /\ down' = Tail(down)
    BY <1>3 DEF LoopRead
  <2>2. Len(down') = Len(down) - 1
    BY <1>0, <2>1
  <2> QED
    BY <1>0, <2>1, <2>2 DEF Unread
<1>4. CASE MainLoop /\ ~LoopRead
  <2>1. sock /\ link = "cut" /\ down' = down
    <3>1. CASE LoopNoConn \/ LoopReadNothing \/ LoopMisc
      BY <3>1 DEF LoopNoConn, LoopReadNothing, LoopMisc, client, network
    <3>2. CASE LoopReadEnd \/ LoopKeepaliveLost
      BY <3>2 DEF LoopReadEnd, LoopKeepaliveLost, Close
    <3>3. CASE LoopWrite
      BY <3>3 DEF LoopWrite, Close
    <3>4. CASE LoopPing \/ PublishTopic
      BY <3>4 DEF LoopPing, PublishTopic
    <3>5. CASE (\E d \in BlockTimes : Block(d)) \/ Sleep
      BY <3>5 DEF Block, Sleep, Passes, network
    <3>6. CASE (\E d \in BlockTimes : Reconnect(d)) \/ ReconnectFails
      BY <3>6 DEF Reconnect, Connected, ReconnectFails, Unconnected
    <3> QED
      BY <1>4, <3>1, <3>2, <3>3, <3>4, <3>5, <3>6 DEF MainLoop
  <2> QED
    BY <2>1 DEF Unread
<1>5. CASE BrokerAccepts \/ BrokerHandles \/ BrokerRefuses \/ BrokerDrops \/ BrokerPublishes
             \/ BrokerCloses
  BY <1>5 DEF BrokerAccepts, BrokerHandles, BrokerRefuses, BrokerDrops, BrokerPublishes,
              BrokerCloses, Receives, Shut
<1> QED
  BY <1>1, <1>2, <1>3, <1>4, <1>5 DEF Next, Broker

-----------------------------------------------------------------------------
(* A cut is noticed.                                                       *)

\* How long the client may take at most until it closes the socket of a link
\* that is cut, if no turn is slow: as long as there is something to read, a turn
\* for each packet and both keepalives; then what is left of the keepalive that
\* runs, and another one if that is not yet the one that follows a ping.
TurnLeft ==
  IF pc \in {"turn", "block"} THEN LongTurn
  ELSE IF pc \in {"answer", "sleep"} THEN TurnEnd ELSE 0
ReadLeft == IF pc \in {"write", "misc"} THEN LongTurn ELSE TurnLeft
AgeLeft == IF inAge < KeepAlive THEN KeepAlive - 1 - inAge + LongTurn ELSE TurnLeft
Turns(n) == n * LongTurn

Left ==
  IF down = <<>> THEN AgeLeft + (IF pinged THEN 0 ELSE KeepaliveSeen)
  ELSE ReadLeft + Turns(Len(down) - 1) + 2 * KeepaliveSeen

NoticeTime == 2 * KeepaliveSeen + Turns(MaxUnread)

Clock ==
  /\ link # "cut" => cutAge = 0
  /\ ~slow => cutAge + (IF sock /\ link = "cut" THEN Left ELSE 0) <= NoticeTime

LEMMA TimeConstants ==
  /\ LongTurn \in Nat /\ KeepaliveSeen \in Nat /\ KeepAlive \in Nat \ {0}
  /\ LongTurn = Patience + TurnEnd /\ KeepaliveSeen = KeepAlive - 1 + LongTurn
  /\ Patience \in Nat /\ TurnEnd \in Nat \ {0} /\ MaxUnread \in Nat
BY SessionAssumption, BacklogTypes DEF SessionAssumption, LongTurn, TurnEnd, KeepaliveSeen, MaxUnread

LEMMA TurnsAdd ==
  ASSUME NEW n \in Nat
  PROVE  Turns(n) \in Nat /\ Turns(n + 1) = Turns(n) + LongTurn /\ Turns(0) = 0
<1>1. PICK x \in Nat : x = LongTurn
  BY TimeConstants
<1>2. n * x \in Nat /\ (n + 1) * x = n * x + x /\ 0 * x = 0
  BY ONLY n \in Nat, x \in Nat
<1> QED
  BY ONLY <1>1, <1>2 DEF Turns

LEMMA TurnsGrow ==
  ASSUME NEW m \in Nat, NEW n \in Nat, m <= n
  PROVE  Turns(m) <= Turns(n)
<1>1. PICK x \in Nat : x = LongTurn
  BY TimeConstants
<1>2. PICK k \in Nat : n = m + k
  <2>1. n - m \in Nat /\ n = m + (n - m)
    OBVIOUS
  <2> QED
    BY <2>1
<1>3. (m + k) * x = m * x + k * x /\ k * x \in Nat /\ m * x \in Nat
  BY ONLY m \in Nat, k \in Nat, x \in Nat
<1>4. m * x <= n * x
  BY ONLY <1>2, <1>3
<1> QED
  BY ONLY <1>1, <1>4 DEF Turns

LEMMA LeftBound ==
  ASSUME TypeOK
  PROVE  /\ TurnLeft \in Nat /\ TurnLeft <= LongTurn
         /\ ReadLeft \in Nat /\ ReadLeft <= LongTurn
         /\ AgeLeft \in Nat /\ AgeLeft <= KeepaliveSeen
<1>1. inAge \in 0 .. KeepAlive
  BY DEF TypeOK
<1>2. TurnLeft \in Nat /\ TurnLeft <= LongTurn
  BY TimeConstants DEF TurnLeft
<1>3. ReadLeft \in Nat /\ ReadLeft <= LongTurn
  BY <1>2, TimeConstants DEF ReadLeft
<1>4. AgeLeft \in Nat /\ AgeLeft <= KeepaliveSeen
  BY <1>1, <1>2, TimeConstants DEF AgeLeft
<1> QED
  BY <1>2, <1>3, <1>4

LEMMA LeftNat ==
  ASSUME TypeOK
  PROVE  Left \in Nat
<1>1. PICK K \in Nat : K = KeepaliveSeen
  BY TimeConstants
<1>2. ReadLeft \in Nat /\ AgeLeft \in Nat
  BY LeftBound
<1>3. CASE down = <<>>
  <2>1. Left = AgeLeft + 0 \/ Left = AgeLeft + K
    BY <1>1, <1>3 DEF Left
  <2> QED
    BY <1>2, <2>1, K \in Nat
<1>4. CASE down # <<>>
  <2>1. Len(down) - 1 \in Nat
    BY <1>4, BacklogTypes
  <2>2. PICK t \in Nat : t = Turns(Len(down) - 1)
    BY <2>1, TurnsAdd
  <2>3. Left = ReadLeft + t + 2 * K
    BY <1>1, <1>4, <2>2 DEF Left
  <2> QED
    BY <1>2, <2>3, K \in Nat, t \in Nat
<1> QED
  BY <1>3, <1>4

LEMMA LeftType ==
  ASSUME TypeOK, TypeOK'
  PROVE  /\ AgeLeft \in Nat /\ AgeLeft' \in Nat /\ ReadLeft \in Nat /\ ReadLeft' \in Nat
         /\ TurnLeft \in Nat /\ TurnLeft' \in Nat /\ Left \in Nat /\ Left' \in Nat
<1>1. PICK K \in Nat : K = KeepaliveSeen
  BY TimeConstants
<1>2. TurnLeft' \in Nat
  BY TimeConstants DEF TurnLeft
<1>3. ReadLeft' \in Nat
  BY <1>2, TimeConstants DEF ReadLeft
<1>4. AgeLeft' \in Nat
  <2>1. inAge' \in 0 .. KeepAlive
    BY DEF TypeOK
  <2>2. AgeLeft' \in {KeepAlive - 1 - inAge' + LongTurn, TurnLeft'}
    BY DEF AgeLeft, LongTurn, TurnEnd
  <2>3. inAge' < KeepAlive => KeepAlive - 1 - inAge' + LongTurn \in Nat
    <3>0. PICK k \in Nat, l \in Nat : k = KeepAlive /\ l = LongTurn
      BY TimeConstants
    <3>1. PICK a \in 0 .. k : k = KeepAlive /\ a = inAge' /\ l = LongTurn
      BY <2>1, <3>0
    <3>2. a < k => k - 1 - a + l \in Nat
      BY ONLY k \in Nat, a \in 0 .. k, l \in Nat
    <3> QED
      BY <3>1, <3>2
  <2>4. ~(inAge' < KeepAlive) => AgeLeft' = TurnLeft'
    BY DEF AgeLeft, LongTurn, TurnEnd
  <2> QED
    BY <1>2, <2>2, <2>3, <2>4
<1>5. TurnLeft \in Nat /\ ReadLeft \in Nat /\ AgeLeft \in Nat
  BY LeftBound
<1>6. Left \in Nat
  BY LeftNat
<1>7. Left' \in Nat
  <2>1. CASE down' = <<>>
    <3>1. Left' = AgeLeft' + 0 \/ Left' = AgeLeft' + K
      BY <1>1, <2>1 DEF Left, KeepaliveSeen, LongTurn, TurnEnd
    <3> QED
      BY <1>4, <3>1, K \in Nat
  <2>2. CASE down' # <<>>
    <3>1. down' \in Seq(DownPacket)
      BY DEF TypeOK
    <3>2. Len(down') - 1 \in Nat
      BY <2>2, <3>1
    <3>3. PICK t \in Nat : t = Turns(Len(down') - 1)
      BY <3>2, TurnsAdd
    <3>4. Left' = ReadLeft' + t + 2 * K
      BY <1>1, <2>2, <3>3 DEF Left, KeepaliveSeen, LongTurn, TurnEnd, Turns
    <3>5. PICK r \in Nat : r = ReadLeft'
      BY <1>3
    <3>6. r + t + 2 * K \in Nat
      BY ONLY r \in Nat, t \in Nat, K \in Nat
    <3> QED
      BY <3>4, <3>5, <3>6
  <2> QED
    BY <2>1, <2>2
<1> QED
  BY <1>2, <1>3, <1>4, <1>5, <1>6, <1>7

\* Nothing that counts changes.
LEMMA LeftSame ==
  ASSUME UNCHANGED <<down, pinged>>, AgeLeft' = AgeLeft, down # <<>> => ReadLeft' = ReadLeft
  PROVE  Left' = Left
<1>1. CASE down = <<>>
  BY <1>1 DEF Left, KeepaliveSeen, LongTurn, TurnEnd
<1>2. CASE down # <<>>
  BY <1>2 DEF Left, KeepaliveSeen, LongTurn, TurnEnd, Turns
<1> QED
  BY <1>1, <1>2

\* Time that passes while nothing is read.
LEMMA LeftKept ==
  ASSUME TypeOK, TypeOK', UNCHANGED <<down, pinged>>, NEW d \in Nat,
         AgeLeft' + d <= AgeLeft, ReadLeft' + d <= ReadLeft
  PROVE  Left' + d <= Left
<1>1. PICK K \in Nat : K = KeepaliveSeen
  BY TimeConstants
<1>2. CASE down = <<>>
  <2>1. PICK a \in Nat, b \in Nat : a = AgeLeft /\ b = AgeLeft'
    BY LeftType
  <2>2. PICK x \in {0, K} : x = IF pinged THEN 0 ELSE K
    OBVIOUS
  <2>3. Left = a + x /\ Left' = b + x
    BY <1>1, <1>2, <2>1, <2>2 DEF Left, KeepaliveSeen, LongTurn, TurnEnd
  <2>4. b + d <= a
    BY <2>1
  <2>5. (b + x) + d <= a + x
    BY ONLY <2>4, a \in Nat, b \in Nat, d \in Nat, K \in Nat, x \in {0, K}
  <2> QED
    BY <2>3, <2>5
<1>3. CASE down # <<>>
  <2>1. PICK a \in Nat, b \in Nat : a = ReadLeft /\ b = ReadLeft'
    BY LeftType
  <2>2. Len(down) - 1 \in Nat
    BY <1>3, BacklogTypes
  <2>3. PICK t \in Nat : t = Turns(Len(down) - 1)
    BY <2>2, TurnsAdd
  <2>4. Left = a + t + 2 * K /\ Left' = b + t + 2 * K
    BY <1>1, <1>3, <2>1, <2>3 DEF Left, Turns, KeepaliveSeen, LongTurn, TurnEnd
  <2>5. b + d <= a
    BY <2>1
  <2>6. (b + t + 2 * K) + d <= a + t + 2 * K
    BY ONLY <2>5, a \in Nat, b \in Nat, d \in Nat, t \in Nat, K \in Nat
  <2> QED
    BY <2>4, <2>6
<1> QED
  BY <1>2, <1>3

\* Reading a packet costs one of the turns set aside for it.
LEMMA LeftOnRead ==
  ASSUME TypeOK, TypeOK', LoopRead, sock'
  PROVE  Left' <= Left
<1>1. pc = "loop" /\ pc' = "write" /\ inAge' = 0 /\ down # <<>> /\ down' = Tail(down)
  BY DEF LoopRead, HandleConnack, HandleOther, Close
<1>2. PICK n \in Nat : Len(down) = n + 1 /\ Len(down') = n
  <2>1. PICK n \in Nat : n = Len(down) - 1
    BY <1>1, BacklogTypes
  <2>2. Len(down') = Len(down) - 1 /\ Len(down) \in Nat
    BY <1>1, BacklogTypes
  <2> QED
    BY ONLY <2>1, <2>2, n \in Nat
<1>3. PICK K \in Nat : K = KeepaliveSeen
  BY TimeConstants
<1>4. PICK L \in Nat : L = LongTurn
  BY TimeConstants
<1>5. TurnLeft = 0 /\ ReadLeft = 0 /\ ReadLeft' = L /\ AgeLeft' = K
  <2>1. KeepAlive \in Nat \ {0} /\ 0 < KeepAlive /\ KeepAlive - 1 - 0 + LongTurn = KeepaliveSeen
    BY TimeConstants
  <2>2. TurnLeft = 0 /\ ReadLeft = 0
    BY <1>1 DEF TurnLeft, ReadLeft
  <2>3. ReadLeft' = L
    BY <1>1, <1>4 DEF ReadLeft, LongTurn, TurnEnd
  <2>4. AgeLeft' = K
    BY <1>1, <1>3, <2>1 DEF AgeLeft, LongTurn, TurnEnd
  <2> QED
    BY <2>2, <2>3, <2>4
<1>6. PICK t \in Nat : t = Turns(n)
  BY TurnsAdd
<1>7. Left = 0 + t + 2 * K
  <2>1. (n + 1) - 1 = n
    OBVIOUS
  <2> QED
    BY <1>1, <1>2, <1>3, <1>5, <1>6, <2>1 DEF Left
<1>8. CASE down' = <<>>
  <2>1. Left' = K + 0 \/ Left' = K + K
    BY <1>3, <1>5, <1>8 DEF Left, KeepaliveSeen, LongTurn, TurnEnd
  <2> QED
    BY ONLY <1>7, <2>1, t \in Nat, K \in Nat
<1>9. CASE down' # <<>>
  <2>1. PICK m \in Nat : n = m + 1
    <3>1. n # 0
      BY <1>2, <1>9 DEF TypeOK
    <3>2. n - 1 \in Nat /\ n = (n - 1) + 1
      BY ONLY <3>1, n \in Nat
    <3> QED
      BY <3>2
  <2>2. PICK u \in Nat : u = Turns(m) /\ t = u + L
    BY <1>4, <1>6, <2>1, TurnsAdd
  <2>3. Left' = L + u + 2 * K
    <3>1. (m + 1) - 1 = m
      OBVIOUS
    <3>2. Turns(Len(down') - 1) = u
      BY ONLY <1>2, <2>1, <2>2, <3>1
    <3> QED
      BY <1>3, <1>5, <1>9, <3>2 DEF Left, KeepaliveSeen, LongTurn, TurnEnd, Turns
  <2> QED
    BY ONLY <1>7, <2>2, <2>3, t \in Nat, u \in Nat, K \in Nat, L \in Nat
<1> QED
  BY <1>8, <1>9

\* Time passes in a turn.
LEMMA LeftOnPass ==
  ASSUME TypeOK, TypeOK', NEW d \in Nat, Passes(d),
         pc \in {"turn", "block", "answer", "sleep"}, pc' \in {"answer", "loop"},
         TurnLeft' + d <= TurnLeft
  PROVE  Left' + d <= Left
<1>1. PICK t \in Nat, u \in Nat : t = TurnLeft /\ u = TurnLeft'
  BY LeftType
<1>2. PICK L \in Nat : L = LongTurn /\ t <= L
  BY <1>1, LeftBound, TimeConstants
<1>3. PICK K \in Nat \ {0} : K = KeepAlive
  BY TimeConstants
<1>4. UNCHANGED <<down, pinged>>
  BY DEF Passes, network
<1>5. PICK a \in 0 .. K, b \in 0 .. K : a = inAge /\ b = inAge'
  BY <1>3 DEF TypeOK
<1>6. b = IF a + d > K THEN K ELSE a + d
  BY <1>3, <1>5 DEF Passes, Older
<1>7. AgeLeft = IF a < K THEN K - 1 - a + L ELSE t
  BY <1>1, <1>2, <1>3, <1>5 DEF AgeLeft
<1>8. AgeLeft' = IF b < K THEN K - 1 - b + L ELSE u
  BY <1>1, <1>2, <1>3, <1>5 DEF AgeLeft, LongTurn, TurnEnd
<1>9. u + d <= t
  BY <1>1
<1>10. (IF b < K THEN K - 1 - b + L ELSE u) + d <= IF a < K THEN K - 1 - a + L ELSE t
  BY ONLY <1>2, <1>6, <1>9, t \in Nat, u \in Nat, d \in Nat, L \in Nat, K \in Nat \ {0},
          a \in 0 .. K, b \in 0 .. K
<1>11. AgeLeft' + d <= AgeLeft
  BY <1>7, <1>8, <1>10
<1>12. ReadLeft = TurnLeft /\ ReadLeft' = TurnLeft'
  BY DEF ReadLeft, TurnLeft
<1> QED
  BY <1>4, <1>11, <1>12, LeftKept

\* Steps of the client in which nothing but its place in the turn changes.
LEMMA LeftIdle ==
  ASSUME TypeOK, LoopReadNothing \/ LoopWrite \/ LoopMisc \/ PublishTopic, sock, sock'
  PROVE  UNCHANGED <<slow, cutAge>> /\ Left' = Left
<1>1. UNCHANGED <<slow, cutAge, down, pinged, inAge>>
  BY DEF LoopReadNothing, LoopWrite, LoopMisc, PublishTopic, history, client, network
<1>2. CASE LoopReadNothing
  <2>1. down = <<>> /\ pc = "loop" /\ pc' = "write"
    BY <1>2 DEF LoopReadNothing
  <2>2. TurnLeft = 0 /\ TurnLeft' = 0
    BY <2>1 DEF TurnLeft
  <2>3. AgeLeft' = AgeLeft
    BY <1>1, <2>2 DEF AgeLeft, LongTurn, TurnEnd
  <2> QED
    BY <1>1, <2>1, <2>3, LeftSame
<1>3. CASE LoopWrite
  <2>1. pc = "write" /\ pc' = "misc"
    BY <1>3 DEF LoopWrite, Close
  <2>2. TurnLeft = 0 /\ TurnLeft' = 0 /\ ReadLeft' = ReadLeft
    BY <2>1 DEF TurnLeft, ReadLeft, LongTurn, TurnEnd
  <2>3. AgeLeft' = AgeLeft
    BY <1>1, <2>2 DEF AgeLeft, LongTurn, TurnEnd
  <2> QED
    BY <1>1, <2>2, <2>3, LeftSame
<1>4. CASE LoopMisc
  <2>1. pc = "misc" /\ pc' = "turn" /\ ~(inAge >= KeepAlive)
    BY <1>4 DEF LoopMisc, Overdue
  <2>2. inAge < KeepAlive
    BY <2>1, TimeConstants DEF TypeOK
  <2>3. AgeLeft' = AgeLeft /\ ReadLeft' = ReadLeft
    BY <1>1, <2>1, <2>2 DEF AgeLeft, ReadLeft, TurnLeft, LongTurn, TurnEnd
  <2> QED
    BY <1>1, <2>3, LeftSame
<1>5. CASE PublishTopic
  <2>1. (pc = "turn" /\ pc' = "block") \/ (pc = "answer" /\ pc' = "sleep")
    BY <1>5 DEF PublishTopic
  <2>2. TurnLeft' = TurnLeft
    BY <2>1 DEF TurnLeft, LongTurn, TurnEnd
  <2>3. AgeLeft' = AgeLeft /\ ReadLeft' = ReadLeft
    BY <1>1, <2>1, <2>2 DEF AgeLeft, ReadLeft, LongTurn, TurnEnd
  <2> QED
    BY <1>1, <2>3, LeftSame
<1> QED
  BY <1>2, <1>3, <1>4, <1>5

\* The ping starts the second keepalive.
LEMMA LeftOnPing ==
  ASSUME TypeOK, TypeOK', LoopPing, link # "shut"
  PROVE  Left' <= Left
<1>1. /\ down' = down /\ pc = "misc" /\ pc' = "turn" /\ inAge' = 0 /\ ~pinged /\ pinged' = TRUE
  BY DEF LoopPing
<1>2. CASE down = <<>>
  <2>1. PICK K \in Nat, a \in Nat : K = KeepaliveSeen /\ a = AgeLeft
    BY LeftType, TimeConstants
  <2>2. AgeLeft' = K
    <3>1. 0 < KeepAlive /\ KeepAlive - 1 - 0 + LongTurn = KeepaliveSeen
      BY TimeConstants
    <3> QED
      BY <1>1, <2>1, <3>1 DEF AgeLeft, LongTurn, TurnEnd
  <2>3. Left' = K + 0
    BY <1>1, <1>2, <2>2 DEF Left
  <2>4. Left = a + K
    BY <1>1, <1>2, <2>1 DEF Left
  <2>5. K + 0 <= a + K
    BY ONLY K \in Nat, a \in Nat
  <2> QED
    BY <2>3, <2>4, <2>5
<1>3. CASE down # <<>>
  <2>1. ReadLeft' = ReadLeft
    BY <1>1 DEF ReadLeft, TurnLeft, LongTurn, TurnEnd
  <2>2. Left' = Left
    BY <1>1, <1>3, <2>1 DEF Left, KeepaliveSeen, LongTurn, TurnEnd, Turns
  <2> QED
    BY <2>2, LeftType
<1> QED
  BY <1>2, <1>3

\* Whatever the client does, its time runs out as the cut gets older.
LEMMA LeftStep ==
  ASSUME TypeOK, TypeOK', MainLoop, sock, sock', link = "cut", link' = "cut", ~slow'
  PROVE  ~slow /\ cutAge' + Left' <= cutAge + Left
<1>1. PICK c \in Nat, x \in Nat, y \in Nat : c = cutAge /\ x = Left /\ y = Left'
  BY LeftType DEF TypeOK
<1>2. ASSUME UNCHANGED <<slow, cutAge>>, Left' <= Left
      PROVE  ~slow /\ cutAge' + Left' <= cutAge + Left
  <2>1. y <= x
    BY <1>1, <1>2
  <2>2. c + y <= c + x
    BY ONLY <2>1, c \in Nat, x \in Nat, y \in Nat
  <2> QED
    BY <1>1, <1>2, <2>2
<1>3. ASSUME NEW d \in Nat, cutAge' = cutAge + d, Left' + d <= Left
      PROVE  cutAge' + Left' <= cutAge + Left
  <2>1. y + d <= x
    BY <1>1, <1>3
  <2>2. (c + d) + y <= c + x
    BY ONLY <2>1, c \in Nat, d \in Nat, x \in Nat, y \in Nat
  <2> QED
    BY <1>1, <1>3, <2>2
<1>4. CASE LoopRead
  <2>1. UNCHANGED <<slow, cutAge>>
    BY <1>4 DEF LoopRead, history
  <2> QED
    BY <1>2, <1>4, <2>1, LeftOnRead
<1>5. CASE LoopReadNothing \/ LoopWrite \/ LoopMisc \/ PublishTopic
  <2>1. UNCHANGED <<slow, cutAge>> /\ Left' = Left
    BY <1>5, LeftIdle
  <2>2. Left' <= Left
    BY <2>1, LeftType
  <2> QED
    BY <1>2, <2>1, <2>2
<1>6. CASE LoopPing
  <2>1. UNCHANGED <<slow, cutAge>>
    BY <1>6 DEF LoopPing, history
  <2> QED
    BY <1>2, <1>6, <2>1, LeftOnPing
<1>7. CASE \E d \in BlockTimes : Block(d)
  <2>1. PICK d \in BlockTimes : Block(d)
    BY <1>7
  <2>2. PICK p \in Nat, s \in Nat : p = Patience /\ s = TurnEnd /\ LongTurn = p + s
    BY TimeConstants
  <2>3. d \in Nat
    BY SessionAssumption DEF SessionAssumption
  <2>4. ~slow /\ ~(d > p)
    BY <2>1, <2>2 DEF Block
  <2>5. d <= p
    BY <2>3, <2>4
  <2>6. Passes(d) /\ pc \in {"turn", "block"} /\ pc' = "answer"
    BY <2>1 DEF Block
  <2>7. cutAge' = cutAge + d
    BY <2>6 DEF Passes
  <2>8. TurnLeft = p + s /\ TurnLeft' = s
    BY <2>2, <2>6 DEF TurnLeft
  <2>9. s + d <= p + s
    BY ONLY <2>5, d \in Nat, p \in Nat, s \in Nat
  <2>10. Left' + d <= Left
    BY <2>3, <2>6, <2>8, <2>9, LeftOnPass
  <2> QED
    BY <1>3, <2>3, <2>4, <2>7, <2>10
<1>8. CASE Sleep
  <2>1. PICK s \in Nat : s = TurnEnd
    BY TimeConstants
  <2>2. pc \in {"answer", "sleep"} /\ pc' = "loop" /\ slow' = slow
    BY <1>8 DEF Sleep
  <2>3. PICK d \in Nat : Passes(d) /\ d <= s
    BY <1>8, <2>1, SleepPasses
  <2>4. cutAge' = cutAge + d
    BY <2>3 DEF Passes
  <2>5. TurnLeft = s /\ TurnLeft' = 0
    BY <2>1, <2>2 DEF TurnLeft
  <2>6. 0 + d <= s
    BY <2>3
  <2>7. Left' + d <= Left
    BY <2>2, <2>3, <2>5, <2>6, LeftOnPass
  <2> QED
    BY <1>3, <2>2, <2>3, <2>4, <2>7
<1>9. ~(LoopNoConn \/ LoopReadEnd \/ LoopKeepaliveLost \/ (\E d \in BlockTimes : Reconnect(d))
        \/ ReconnectFails)
  BY DEF LoopNoConn, LoopReadEnd, LoopKeepaliveLost, Close, Reconnect, Connected,
         ReconnectFails, Unconnected
<1> QED
  BY <1>4, <1>5, <1>6, <1>7, <1>8, <1>9 DEF MainLoop

LEMMA ClockInit == Init => Clock
<1>1. PICK n \in Nat, k \in Nat : n = Turns(MaxUnread) /\ k = KeepaliveSeen
  BY TimeConstants, TurnsAdd
<1>2. 0 + 0 <= 2 * k + n
  BY ONLY n \in Nat, k \in Nat
<1> QED
  BY <1>1, <1>2 DEF Init, Clock, NoticeTime

LEMMA LeftBoundNext ==
  ASSUME TypeOK'
  PROVE  /\ ReadLeft' \in Nat /\ ReadLeft' <= LongTurn
         /\ AgeLeft' \in Nat /\ AgeLeft' <= KeepaliveSeen
<1>1. PICK L \in Nat, K \in Nat \ {0}, s \in Nat :
        L = LongTurn /\ K = KeepAlive /\ s = TurnEnd /\ s <= L /\ KeepaliveSeen = K - 1 + L
  BY TimeConstants
<1>2. TurnLeft' \in {L, s, 0}
  BY <1>1 DEF TurnLeft, LongTurn, TurnEnd
<1>3. PICK t \in Nat : t = TurnLeft' /\ t <= L
  BY <1>1, <1>2
<1>4. ReadLeft' \in {L, t}
  BY <1>1, <1>3 DEF ReadLeft, LongTurn, TurnEnd
<1>5. PICK a \in 0 .. K : a = inAge'
  BY <1>1 DEF TypeOK
<1>6. AgeLeft' = IF a < K THEN K - 1 - a + L ELSE t
  BY <1>1, <1>3, <1>5 DEF AgeLeft, LongTurn, TurnEnd
<1>7. (IF a < K THEN K - 1 - a + L ELSE t) \in Nat
      /\ (IF a < K THEN K - 1 - a + L ELSE t) <= K - 1 + L
  BY ONLY <1>3, a \in 0 .. K, K \in Nat \ {0}, L \in Nat, t \in Nat
<1> QED
  BY <1>1, <1>3, <1>4, <1>6, <1>7

\* When the link breaks there is time for all that is to be read.
LEMMA LeftAtCut ==
  ASSUME TypeOK, TypeOK', Len(down') <= MaxUnread
  PROVE  Left' <= NoticeTime
<1>1. PICK K \in Nat : K = KeepaliveSeen
  BY TimeConstants
<1>2. PICK L \in Nat : L = LongTurn
  BY TimeConstants
<1>3. PICK m \in Nat : m = MaxUnread
  BY TimeConstants
<1>4. PICK t \in Nat : t = Turns(m)
  BY TurnsAdd
<1>5. NoticeTime = 2 * K + t
  BY <1>1, <1>3, <1>4 DEF NoticeTime
<1>6. CASE down' = <<>>
  <2>1. PICK a \in Nat : a = AgeLeft' /\ a <= K
    BY <1>1, LeftBoundNext
  <2>0. a <= K
    BY <2>1
  <2>2. Left' = a + 0 \/ Left' = a + K
    BY <1>1, <1>6, <2>1 DEF Left, KeepaliveSeen, LongTurn, TurnEnd
  <2>3. a + 0 <= 2 * K + t /\ a + K <= 2 * K + t
    BY ONLY <2>0, a \in Nat, K \in Nat, t \in Nat
  <2> QED
    BY <1>5, <2>2, <2>3
<1>7. CASE down' # <<>>
  <2>1. PICK n \in Nat : Len(down') - 1 = n /\ n + 1 <= m
    <3>1. down' \in Seq(DownPacket)
      BY DEF TypeOK
    <3>2. Len(down') - 1 \in Nat /\ (Len(down') - 1) + 1 = Len(down')
      BY <1>7, <3>1
    <3> QED
      BY <1>3, <3>2
  <2>2. PICK u \in Nat : u = Turns(n) /\ Turns(n + 1) = u + L
    BY <1>2, TurnsAdd
  <2>3. n + 1 \in Nat
    OBVIOUS
  <2>4. u + L <= t
    BY ONLY <1>4, <2>1, <2>2, <2>3, n \in Nat, m \in Nat, TurnsGrow
  <2>5. PICK r \in Nat : r = ReadLeft' /\ r <= L
    BY <1>2, LeftBoundNext
  <2>6. Left' = r + u + 2 * K
    BY <1>1, <1>7, <2>1, <2>2, <2>5 DEF Left, KeepaliveSeen, LongTurn, TurnEnd, Turns
  <2>8. r <= L
    BY <2>5
  <2>7. r + u + 2 * K <= 2 * K + t
    BY ONLY <2>4, <2>8, r \in Nat, u \in Nat, L \in Nat, K \in Nat, t \in Nat
  <2> QED
    BY ZenonT(40), <1>5, <2>6, <2>7
<1> QED
  BY <1>6, <1>7

\* The age of a cut ends with the cut.
LEMMA CutAgeStep ==
  ASSUME TypeOK, Clock, [Next]_vars
  PROVE  /\ link' # "cut" => cutAge' = 0
         /\ ~(sock /\ link = "cut") => cutAge' \in {0, cutAge}
         /\ slow /\ ~slow' => cutAge' = 0 /\ ~(sock' /\ link' = "cut")
         /\ link # "cut" /\ link' = "cut" => LinkCut
<1>1. CASE UNCHANGED vars
  BY <1>1 DEF vars, network, client, history, Clock
<1>2. CASE LoopNoConn \/ LoopReadNothing \/ LoopMisc
  BY <1>2 DEF LoopNoConn, LoopReadNothing, LoopMisc, network, client, history, Clock
<1>3. CASE LoopRead \/ LoopReadEnd \/ LoopKeepaliveLost
  BY <1>3 DEF LoopRead, LoopReadEnd, LoopKeepaliveLost, network, history, Clock
<1>4. CASE LoopWrite \/ LoopPing \/ PublishTopic
  BY <1>4 DEF LoopWrite, LoopPing, PublishTopic, history, Clock
<1>5. CASE (\E d \in BlockTimes : Block(d)) \/ Sleep
  <2>1. PICK d : Passes(d)
    BY <1>5 DEF Block, Sleep
  <2>2. UNCHANGED <<sock, link>> /\ (~(sock /\ link = "cut") => cutAge' = 0)
    BY <2>1 DEF Passes, network
  <2>3. slow => slow'
    BY <1>5 DEF Block, Sleep
  <2> QED
    BY <2>2, <2>3
<1>6. CASE (\E d \in BlockTimes : Reconnect(d)) \/ ReconnectFails
  BY <1>6 DEF Reconnect, Connected, ReconnectFails, Unconnected, Fresh
<1>7. CASE Broker \/ BrokerRefuses \/ BrokerDrops \/ BrokerPublishes \/ BrokerCloses
  BY <1>7 DEF Broker, BrokerAccepts, BrokerHandles, BrokerRefuses, BrokerDrops, BrokerPublishes,
              BrokerCloses, Receives, Shut, Untouched, Clock
<1>8. CASE LinkCut
  BY <1>8 DEF LinkCut, Untouched, Clock
<1> QED
  BY <1>1, <1>2, <1>3, <1>4, <1>5, <1>6, <1>7, <1>8 DEF Next, MainLoop

\* Only Reconnect opens a socket, and closing it does not change the age.
LEMMA SocketKept ==
  ASSUME MainLoop, sock', link' = "cut"
  PROVE  sock
<1>1. CASE LoopNoConn \/ LoopReadNothing \/ LoopMisc
  BY <1>1 DEF LoopNoConn, LoopReadNothing, LoopMisc, client
<1>2. CASE LoopRead \/ LoopReadEnd \/ LoopKeepaliveLost
  BY <1>2 DEF LoopRead, LoopReadEnd, LoopKeepaliveLost, Close
<1>3. CASE LoopWrite
  BY <1>3 DEF LoopWrite, Close
<1>4. CASE LoopPing \/ PublishTopic
  BY <1>4 DEF LoopPing, PublishTopic
<1>5. CASE (\E d \in BlockTimes : Block(d)) \/ Sleep
  BY <1>5 DEF Block, Sleep, Passes
<1>6. CASE (\E d \in BlockTimes : Reconnect(d)) \/ ReconnectFails
  BY <1>6 DEF Reconnect, Connected, ReconnectFails, Unconnected
<1> QED
  BY <1>1, <1>2, <1>3, <1>4, <1>5, <1>6 DEF MainLoop

LEMMA SocketClosed ==
  ASSUME [Next]_vars, sock, link' = "cut", ~(sock' /\ link' = "cut")
  PROVE  cutAge' = cutAge
<1>1. CASE LoopNoConn \/ LoopReadNothing \/ LoopMisc \/ UNCHANGED vars
  BY <1>1 DEF LoopNoConn, LoopReadNothing, LoopMisc, client, vars
<1>2. CASE LoopRead \/ LoopReadEnd \/ LoopKeepaliveLost
  BY <1>2 DEF LoopRead, LoopReadEnd, LoopKeepaliveLost, history
<1>3. CASE LoopWrite \/ LoopPing \/ PublishTopic
  BY <1>3 DEF LoopWrite, LoopPing, PublishTopic, history
<1>4. CASE (\E d \in BlockTimes : Block(d)) \/ Sleep
  BY <1>4 DEF Block, Sleep, Passes
<1>5. CASE (\E d \in BlockTimes : Reconnect(d)) \/ ReconnectFails
  BY <1>5 DEF Reconnect, Connected, ReconnectFails, Unconnected
<1>6. CASE Next /\ ~MainLoop
  BY <1>6 DEF Next, Broker, BrokerAccepts, BrokerHandles, BrokerRefuses, BrokerDrops,
              BrokerPublishes, BrokerCloses, LinkCut, Untouched, client
<1> QED
  BY <1>1, <1>2, <1>3, <1>4, <1>5, <1>6 DEF MainLoop

LEMMA ClockStep ==
  TypeOK /\ TypeOK' /\ Unread' /\ Clock /\ [Next]_vars => Clock'
<1> SUFFICES ASSUME TypeOK, TypeOK', Unread', Clock, [Next]_vars, ~slow'
             PROVE  cutAge' + (IF sock' /\ link' = "cut" THEN Left' ELSE 0) <= NoticeTime'
  BY CutAgeStep DEF Clock
<1>1. PICK N \in Nat : N = NoticeTime /\ N = NoticeTime'
  <2>1. PICK n \in Nat, k \in Nat : n = Turns(MaxUnread) /\ k = KeepaliveSeen
    BY TimeConstants, TurnsAdd
  <2>2. 2 * k + n \in Nat
    BY ONLY n \in Nat, k \in Nat
  <2> QED
    BY <2>1, <2>2 DEF NoticeTime, Turns, MaxUnread, KeepaliveSeen, LongTurn, TurnEnd
<1>2. PICK c \in Nat, e \in Nat, x \in Nat, y \in Nat :
        c = cutAge /\ e = cutAge' /\ x = Left /\ y = Left'
  BY LeftType DEF TypeOK
<1>3. ~slow => c + (IF sock /\ link = "cut" THEN x ELSE 0) <= N
  BY <1>1, <1>2 DEF Clock
<1>4. CASE ~(sock' /\ link' = "cut") /\ e = 0
  <2>1. 0 + 0 <= N
    BY ONLY N \in Nat
  <2> QED
    BY <1>1, <1>2, <1>4, <2>1
<1>5. CASE ~(sock' /\ link' = "cut") /\ e # 0
  <2>1. ~slow /\ link' = "cut"
    BY <1>2, <1>5, CutAgeStep
  <2>2. e <= N
    <3>1. CASE sock /\ link = "cut"
      <4>1. c + x <= N
        BY <1>3, <2>1, <3>1
      <4>2. e = c
        BY <1>2, <1>5, <2>1, <3>1, SocketClosed
      <4> QED
        BY ONLY <4>1, <4>2, c \in Nat, x \in Nat, N \in Nat
    <3>2. CASE ~(sock /\ link = "cut")
      <4>1. c + 0 <= N
        BY <1>3, <2>1, <3>2
      <4>2. e = c
        BY <1>2, <1>5, <3>2, CutAgeStep
      <4> QED
        BY ONLY <4>1, <4>2, c \in Nat, N \in Nat
    <3> QED
      BY <3>1, <3>2
  <2>3. e + 0 <= N
    BY ONLY <2>2, e \in Nat, N \in Nat
  <2> QED
    BY <1>1, <1>2, <1>5, <2>3
<1>6. CASE sock' /\ link' = "cut"
  <2>1. e + y <= N
    <3>1. CASE link # "cut"
      <4>1. LinkCut
        BY <1>6, <3>1, CutAgeStep
      <4>2. e = 0
        BY <1>2, <3>1, <4>1 DEF Clock, LinkCut, Untouched
      <4>3. y <= N
        BY <1>1, <1>2, <1>6, LeftAtCut DEF Unread, MaxUnread
      <4> QED
        BY ONLY <4>2, <4>3, y \in Nat, N \in Nat
    <3>2. CASE link = "cut"
      <4>1. ~slow
        BY <1>6, CutAgeStep
      <4>2. CASE MainLoop
        <5>1. sock
          BY <1>6, <3>2, <4>2, SocketKept
        <5>2. c + x <= N
          BY <1>3, <3>2, <4>1, <5>1
        <5>3. e + y <= c + x
          BY <1>2, <1>6, <3>2, <4>2, <5>1, LeftStep
        <5> QED
          BY ONLY <5>2, <5>3, c \in Nat, e \in Nat, x \in Nat, y \in Nat, N \in Nat
      <4>3. CASE UNCHANGED vars
        <5>1. UNCHANGED <<sock, slow, cutAge, down, pinged>> /\ AgeLeft' = AgeLeft
              /\ ReadLeft' = ReadLeft
          BY <4>3 DEF vars, client, network, history, AgeLeft, ReadLeft, TurnLeft, LongTurn, TurnEnd
        <5>2. Left' = Left
          BY <5>1, LeftSame
        <5>3. c + x <= N
          BY <1>3, <1>6, <3>2, <4>1, <5>1
        <5> QED
          BY <1>2, <5>1, <5>2, <5>3
      <4>4. CASE ~MainLoop /\ Next
        BY <3>2, <4>4 DEF Next, Broker, BrokerAccepts, BrokerHandles, BrokerRefuses, BrokerDrops,
                          BrokerPublishes, BrokerCloses, LinkCut
      <4> QED
        BY <4>2, <4>3, <4>4
    <3> QED
      BY <3>1, <3>2
  <2> QED
    BY <1>1, <1>2, <1>6, <2>1
<1> QED
  BY <1>4, <1>5, <1>6

\* A link that died in silence is noticed within two keepalives, each seen up to
\* a turn late, and a turn for every packet that could still be read
\* (mosquitto__check_keepalive, called from mosquitto_loop once a turn),
\* whatever the times, the topics and the number of unread commands.
THEOREM CutsNoticed == Spec => []CutNoticed
<1>1. Init => Backlog /\ Unread /\ Clock
  BY BacklogInit, ClockInit
<1>2. TypeOK /\ TypeOK' /\ Backlog /\ Unread /\ Clock /\ [Next]_vars
        => Backlog' /\ Unread' /\ Clock'
  BY BacklogStep, UnreadStep, ClockStep
<1>3. TypeOK /\ Clock => CutNoticed
  <2> SUFFICES ASSUME TypeOK, Clock, ~slow PROVE cutAge <= NoticeTime
    BY DEF CutNoticed, NoticeTime, Turns
  <2>1. PICK c \in Nat, N \in Nat : c = cutAge /\ N = NoticeTime
    <3>1. PICK n \in Nat, k \in Nat : n = Turns(MaxUnread) /\ k = KeepaliveSeen
      BY TimeConstants, TurnsAdd
    <3>2. 2 * k + n \in Nat
      BY ONLY n \in Nat, k \in Nat
    <3> QED
      BY <3>1, <3>2 DEF NoticeTime, TypeOK
  <2>2. PICK x \in Nat : x = IF sock /\ link = "cut" THEN Left ELSE 0
    <3>1. Left \in Nat
      BY LeftNat
    <3> QED
      BY <3>1
  <2>3. c + x <= N
    BY <2>1, <2>2 DEF Clock
  <2>4. c <= N
    BY ONLY <2>3, c \in Nat, x \in Nat, N \in Nat
  <2> QED
    BY <2>1, <2>4
<1> QED
  BY <1>1, <1>2, <1>3, TypeCorrect, PTL DEF Spec

-----------------------------------------------------------------------------
(* The steps on a good connection.                                         *)

\* Each view says what a step does to what the session depends on.
OnReconnect ==
  /\ pc' = "sleep" /\ state' = "connected" /\ pinged' = FALSE
  /\ up' = <<Plain("CONNECT")>> /\ out' = <<>> /\ down' = <<>>
  /\ outAge' = 0 /\ broker'.state = "new" /\ broker'.idle = 0

OnRead ==
  /\ pc = "loop" /\ pc' = "write" /\ down # <<>> /\ down' = Tail(down)
  /\ inAge' = 0 /\ wants' = (out # <<>>)
  /\ UNCHANGED <<up, outAge, broker, slow>>
  /\ state' = "active" /\ broker.state = "active"
  /\ \/ state # "active" /\ down = <<"CONNACK">> /\ out' = out \o Subscriptions /\ UNCHANGED pinged
     \/ state = "active" /\ UNCHANGED out /\ pinged' = (pinged /\ Head(down) # "PINGRESP")

OnReadNothing ==
  /\ pc = "loop" /\ pc' = "write" /\ down = <<>> /\ wants' = (out # <<>>)
  /\ UNCHANGED <<state, out, pinged, inAge, outAge, up, down, broker, slow>>

OnWrite ==
  /\ pc = "write" /\ pc' = "misc"
  /\ \/ up' = up \o out /\ out' = <<>> /\ outAge' = IF out = <<>> THEN outAge ELSE 0
     \/ ~wants /\ UNCHANGED <<out, up, outAge>>
  /\ UNCHANGED <<state, pinged, inAge, down, broker, slow>>

OnMisc ==
  /\ pc = "misc" /\ pc' = "turn" /\ ~Overdue
  /\ UNCHANGED <<state, out, pinged, inAge, outAge, up, down, broker, slow>>

OnPing ==
  /\ pc = "misc" /\ pc' = "turn" /\ Overdue
  /\ state = "active" /\ ~pinged /\ pinged' = TRUE
  /\ up' = up \o Append(out, Plain("PINGREQ")) /\ out' = <<>>
  /\ inAge' = 0 /\ outAge' = 0
  /\ UNCHANGED <<state, down, broker, slow>>

OnPublish ==
  /\ (pc = "turn" /\ pc' = "block") \/ (pc = "answer" /\ pc' = "sleep")
  /\ up' = up \o Append(out, Plain("PUBLISH")) /\ out' = <<>> /\ outAge' = 0
  /\ UNCHANGED <<state, pinged, inAge, down, broker, slow>>

OnPass ==
  \E d \in Nat :
    /\ \/ pc \in {"turn", "block"} /\ pc' = "answer" /\ (~slow' => ~slow /\ d <= Patience)
       \/ pc \in {"answer", "sleep"} /\ pc' = "loop" /\ d <= TurnEnd /\ slow' = slow
    /\ up = <<>>
    /\ inAge' = Older(inAge, d, KeepAlive) /\ outAge' = Older(outAge, d, KeepAlive)
    /\ broker'.state = broker.state /\ broker'.idle = Older(broker.idle, d, Grace + 1)
    /\ UNCHANGED <<state, out, pinged, up, down>>

BrokerKeeps == UNCHANGED <<pc, state, out, wants, pinged, inAge, outAge, slow>>

OnAccept ==
  /\ up # <<>> /\ up' = Tail(up) /\ state # "active" /\ down' = <<"CONNACK">>
  /\ broker'.state = "active" /\ broker'.idle = 0
  /\ BrokerKeeps

OnHandle ==
  /\ up # <<>> /\ up' = Tail(up) /\ down' = down \o AnswersTo(Head(up))
  /\ broker.state = "active" /\ broker'.state = "active" /\ broker'.idle = 0
  /\ BrokerKeeps

OnCommand ==
  /\ state = "active" /\ Len(down) < MaxBacklog /\ down' = Append(down, "COMMAND")
  /\ UNCHANGED <<up, broker>>
  /\ BrokerKeeps

OnNothing == UNCHANGED <<up, down, broker>> /\ BrokerKeeps

OnGood ==
  \/ OnRead \/ OnReadNothing \/ OnWrite \/ OnMisc \/ OnPing \/ OnPublish \/ OnPass
  \/ OnAccept \/ OnHandle \/ OnCommand \/ OnNothing

LEMMA NotEmpty ==
  ASSUME NEW S, NEW s \in Seq(S)
  PROVE  /\ \A p \in S : Append(s, p) # <<>>
         /\ \A v \in Seq(S) : s \o v \in Seq(S) /\ (s # <<>> \/ v # <<>> => s \o v # <<>>)
OBVIOUS

\* No step of a connection that goes on is another one.
LEMMA GoodSteps ==
  ASSUME TypeOK, Backlog, [Next]_vars, ~Ended
  PROVE  OnReconnect \/ (sock /\ link = "up" /\ OnGood)
<1>1. CASE UNCHANGED vars
  BY <1>1 DEF vars, client, network, history, OnGood, OnNothing, BrokerKeeps, Ended
<1>2. CASE LoopNoConn
  BY <1>2 DEF LoopNoConn, client, Ended
<1>3. CASE LoopReadEnd \/ LoopKeepaliveLost \/ ReconnectFails
  BY <1>3 DEF LoopReadEnd, LoopKeepaliveLost, ReconnectFails, Unconnected, Close, Ended
<1>4. CASE LoopRead
  <2>1. /\ sock /\ link = "up" /\ pc = "loop" /\ down # <<>> /\ down' = Tail(down) /\ sock'
        /\ inAge' = 0 /\ wants' = (out # <<>>)
        /\ UNCHANGED <<up, outAge, broker, slow>>
    BY <1>4 DEF LoopRead, history, Ended
  <2>2. CASE state # "active"
    <3>1. Waiting
      BY <2>1, <2>2 DEF Backlog
    <3>2. down = <<"CONNACK">> /\ broker.state = "active"
      BY <2>1, <3>1 DEF Waiting, TypeOK
    <3>3. Head(down) = "CONNACK"
      BY <3>2
    <3>4. state' = "active" /\ out' = out \o Subscriptions /\ UNCHANGED pinged /\ pc' = "write"
      BY <1>4, <3>3 DEF LoopRead, HandleConnack
    <3> QED
      BY <2>1, <2>2, <3>2, <3>4 DEF OnGood, OnRead
  <2>3. CASE state = "active"
    <3>1. Served
      BY <2>1, <2>3 DEF Backlog
    <3>2. Head(down) # "CONNACK"
      <4>1. WordAt(down, "CONNACK") = {} /\ down \in Seq(DownPacket)
        BY <3>1 DEF Served, TypeOK
      <4> QED
        BY <2>1, <4>1, WordTail
    <3>3. Head(down) # "REFUSED"
      BY <1>4, <2>1, <3>2 DEF LoopRead, HandleConnack, Close
    <3>4. state' = "active" /\ UNCHANGED out /\ pinged' = (pinged /\ Head(down) # "PINGRESP")
          /\ pc' = "write"
      BY <1>4, <2>3, <3>2, <3>3 DEF LoopRead, HandleOther
    <3>5. broker.state = "active"
      BY <3>1 DEF Served
    <3> QED
      BY <2>1, <2>3, <3>4, <3>5 DEF OnGood, OnRead
  <2> QED
    BY <2>2, <2>3
<1>5. CASE LoopReadNothing
  BY <1>5 DEF LoopReadNothing, network, history, OnGood, OnReadNothing, Ended
<1>6. CASE LoopWrite
  BY <1>6 DEF LoopWrite, Sent, Refused, Close, history, OnGood, OnWrite, Ended
<1>7. CASE LoopMisc
  BY <1>7 DEF LoopMisc, client, network, history, OnGood, OnMisc, Ended
<1>8. CASE LoopPing
  BY <1>8 DEF LoopPing, history, OnGood, OnPing, Ended
<1>9. CASE PublishTopic
  <2>1. /\ (pc = "turn" /\ pc' = "block") \/ (pc = "answer" /\ pc' = "sleep")
        /\ sock /\ link = "up"
        /\ UNCHANGED <<state, pinged, inAge, down, broker, slow>>
    BY <1>9 DEF PublishTopic, history, Ended
  <2>2. PICK queue \in Seq(UpPacket) : queue = Append(out, Plain("PUBLISH")) /\ queue # <<>>
    BY OneMore, Queued, NotEmpty DEF TypeOK
  <2>4. Sent(queue)
    BY <1>9, <2>1, <2>2 DEF PublishTopic, SendPublish, Refused
  <2>5. up' = up \o queue /\ out' = <<>> /\ outAge' = 0
    BY <2>1, <2>2, <2>4 DEF Sent
  <2> QED
    BY <2>1, <2>2, <2>5 DEF OnGood, OnPublish
<1>10. CASE (\E d \in BlockTimes : Block(d)) \/ Sleep
  <2>1. PICK d \in Nat :
          /\ Passes(d)
          /\ \/ pc \in {"turn", "block"} /\ pc' = "answer" /\ (~slow' => ~slow /\ d <= Patience)
             \/ pc \in {"answer", "sleep"} /\ pc' = "loop" /\ d <= TurnEnd /\ slow' = slow
    <3>1. CASE Sleep
      BY <3>1, SleepPasses DEF Sleep
    <3>2. CASE \E d \in BlockTimes : Block(d)
      <4>1. PICK d \in BlockTimes : Block(d)
        BY <3>2
      <4>2. d \in Nat /\ Patience \in Nat
        BY SessionAssumption DEF SessionAssumption
      <4>3. ~(d > Patience) => d <= Patience
        BY <4>2
      <4> QED
        BY <4>1, <4>2, <4>3 DEF Block
    <3> QED
      BY <1>10, <3>1, <3>2
  <2>2. sock /\ link = "up" /\ up = <<>>
        /\ UNCHANGED <<state, out, pinged, up, down>>
        /\ inAge' = Older(inAge, d, KeepAlive) /\ outAge' = Older(outAge, d, KeepAlive)
    BY <2>1 DEF Passes, network, Ended
  <2>3. broker'.state = broker.state /\ broker'.idle = Older(broker.idle, d, Grace + 1)
    BY <2>1 DEF Passes, TypeOK
  <2> QED
    BY <2>1, <2>2, <2>3 DEF OnGood, OnPass
<1>11. CASE \E d \in BlockTimes : Reconnect(d)
  BY <1>11 DEF Reconnect, Connected, CleanedUp, Fresh, NewContext, OnReconnect
<1>12. CASE BrokerAccepts
  <2>1. /\ link = "up" /\ sock /\ up # <<>> /\ up' = Tail(up) /\ down' = down \o <<"CONNACK">>
        /\ broker.state = "new" /\ broker'.state = "active" /\ broker'.idle = 0
        /\ BrokerKeeps
    BY <1>12 DEF BrokerAccepts, Receives, Untouched, client, Ended, BrokerKeeps
  <2>2. state # "active" /\ down = <<>>
    BY <2>1 DEF Backlog, Waiting, Served
  <2>3. down' = <<"CONNACK">>
    BY <2>1, <2>2
  <2> QED
    BY <2>1, <2>2, <2>3 DEF OnGood, OnAccept
<1>13. CASE BrokerHandles
  <2>1. /\ link = "up" /\ up # <<>> /\ sock /\ broker.state = "active" /\ BrokerKeeps
    BY <1>13 DEF BrokerHandles, Receives, Shut, Untouched, client, Ended, BrokerKeeps, TypeOK
  <2>2. up' = Tail(up) /\ down' = down \o AnswersTo(Head(up))
    BY <1>13, <2>1 DEF BrokerHandles, Receives, Shut, Ended, AnswersTo
  <2>3. broker'.state = "active" /\ broker'.idle = 0
    <3>1. broker' = [broker EXCEPT !.idle = 0,
                       !.subs = @ \cup {t \in Topic : Head(up) = Subscribe(t)}]
      BY <1>13, <2>1 DEF BrokerHandles, Shut, Ended
    <3> QED
      BY <2>1, <3>1 DEF TypeOK
  <2> QED
    BY <2>1, <2>2, <2>3 DEF OnGood, OnHandle
<1>14. CASE BrokerPublishes
  <2>1. /\ link = "up" /\ sock /\ broker.subs # {} /\ Len(down) < MaxBacklog
        /\ down' = Append(down, "COMMAND") /\ UNCHANGED <<up, broker>> /\ BrokerKeeps
    BY <1>14 DEF BrokerPublishes, Untouched, client, Ended, BrokerKeeps
  <2>2. state = "active"
    BY <2>1 DEF Backlog, Waiting
  <2> QED
    BY <2>1, <2>2 DEF OnGood, OnCommand
<1>15. CASE BrokerRefuses \/ BrokerDrops \/ BrokerCloses \/ LinkCut
  BY <1>15 DEF BrokerRefuses, BrokerDrops, BrokerCloses, LinkCut, Shut, Ended
<1> QED
  BY <1>1, <1>2, <1>3, <1>4, <1>5, <1>6, <1>7, <1>8, <1>9, <1>10, <1>11, <1>12, <1>13, <1>14, <1>15
  DEF Next, MainLoop, Broker

-----------------------------------------------------------------------------
(* Which packets are where.                                                *)

LEMMA KindJoin ==
  ASSUME NEW s \in Seq(UpPacket), NEW v \in Seq(UpPacket), NEW k
  PROVE  KindAt(s \o v, k) = {} <=> KindAt(s, k) = {} /\ KindAt(v, k) = {}
<1>0. PICK m \in Nat : m = Len(s)
  OBVIOUS
<1>1. PICK n \in Nat : n = Len(v)
  OBVIOUS
<1>2. PICK u : u = s \o v
  OBVIOUS
<1>7. /\ DOMAIN u = 1 .. m + n
      /\ \A i \in 1 .. m : u[i] = s[i]
      /\ \A i \in m + 1 .. m + n : u[i] = v[i - m]
  BY <1>0, <1>1, <1>2, Joined
<1>8. DOMAIN s = 1 .. m /\ DOMAIN v = 1 .. n
  BY <1>0, <1>1
<1>3. \A i \in 1 .. m : i \in 1 .. m + n
  OBVIOUS
<1>4. \A i \in 1 .. n : i + m \in m + 1 .. m + n /\ i + m \in 1 .. m + n /\ (i + m) - m = i
  OBVIOUS
<1>5. \A i \in 1 .. m + n : i \in 1 .. m \/ (i \in m + 1 .. m + n /\ i - m \in 1 .. n)
  OBVIOUS
<1>6. \A i \in 1 .. n : u[i + m] = v[i]
  BY <1>4, <1>7
<1>9. ASSUME NEW i \in KindAt(s, k) PROVE KindAt(u, k) # {}
  <2>1. i \in KindAt(u, k)
    BY <1>3, <1>7, <1>8 DEF KindAt
  <2> QED
    BY <2>1
<1>10. ASSUME NEW i \in KindAt(v, k) PROVE KindAt(u, k) # {}
  <2>1. i + m \in KindAt(u, k)
    BY <1>4, <1>6, <1>7, <1>8 DEF KindAt
  <2> QED
    BY <2>1
<1>11. ASSUME NEW i \in KindAt(u, k) PROVE KindAt(s, k) # {} \/ KindAt(v, k) # {}
  <2>1. CASE i \in 1 .. m
    BY <1>7, <1>8, <2>1 DEF KindAt
  <2>2. CASE i \in m + 1 .. m + n /\ i - m \in 1 .. n
    <3>1. i - m \in KindAt(v, k)
      BY <1>7, <1>8, <2>2 DEF KindAt
    <3> QED
      BY <3>1
  <2> QED
    BY <1>5, <1>7, <2>1, <2>2 DEF KindAt
<1> QED
  BY <1>2, <1>9, <1>10, <1>11

LEMMA KindPlain ==
  /\ \A k : KindAt(<<>>, k) = {}
  /\ \A a, k : a # k => KindAt(<<Plain(a)>>, k) = {}
  /\ KindAt(Subscriptions, "PINGREQ") = {}
<1>1. \A k : KindAt(<<>>, k) = {}
  BY DEF KindAt
<1>2. ASSUME NEW a, NEW k, a # k PROVE KindAt(<<Plain(a)>>, k) = {}
  <2>1. Plain(a).kind # k
    BY <1>2 DEF Plain
  <2>2. ASSUME NEW p, p.kind # k PROVE KindAt(<<p>>, k) = {}
    BY <2>2 DEF KindAt
  <2> QED
    BY <2>1, <2>2
<1>3. KindAt(Subscriptions, "PINGREQ") = {}
  BY DEF KindAt, Subscriptions, Subscribe
<1> QED
  BY <1>1, <1>2, <1>3

\* What joins the stream with a ping or a message.
LEMMA KindMore ==
  ASSUME TypeOK, NEW a \in {"PINGREQ", "PUBLISH"}, NEW k
  PROVE  /\ up \o Append(out, Plain(a)) \in Seq(UpPacket)
         /\ up \o Append(out, Plain(a)) # <<>>
         /\ a # k => (KindAt(up \o Append(out, Plain(a)), k) = {}
                        <=> KindAt(up, k) = {} /\ KindAt(out, k) = {})
         /\ a = k => KindAt(up \o Append(out, Plain(a)), k) # {}
<1>1. PICK p \in UpPacket : p = Plain(a) /\ p.kind = a
  <2>1. Plain(a).kind = a
    BY DEF Plain
  <2> QED
    BY <2>1, Queued
<1>2. PICK s \in Seq(UpPacket), v \in Seq(UpPacket) : s = up /\ v = out
  BY DEF TypeOK
<1>3. PICK z \in Seq(UpPacket) : z = s \o v
  BY NotEmpty
<1>4. s \o Append(v, p) = z \o <<p>> /\ z \o <<p>> \in Seq(UpPacket) /\ z \o <<p>> # <<>>
  <2>1. Append(v, p) = v \o <<p>> /\ <<p>> \in Seq(UpPacket) /\ <<p>> # <<>>
    OBVIOUS
  <2>2. s \o (v \o <<p>>) = (s \o v) \o <<p>>
    BY <2>1
  <2> QED
    BY <1>3, <2>1, <2>2, NotEmpty
<1>5. KindAt(z \o <<p>>, k) = IF p.kind = k THEN KindAt(z, k) \cup {Len(z) + 1} ELSE KindAt(z, k)
  BY KindAppend
<1>6. KindAt(z, k) = {} <=> KindAt(s, k) = {} /\ KindAt(v, k) = {}
  BY <1>3, KindJoin
<1> QED
  BY <1>1, <1>2, <1>4, <1>5, <1>6

LEMMA KindTaken ==
  ASSUME NEW s \in Seq(UpPacket), s # <<>>, NEW k
  PROVE  /\ KindAt(s, k) = {} => KindAt(Tail(s), k) = {}
         /\ KindAt(s, k) # {} /\ Head(s).kind # k => KindAt(Tail(s), k) # {}
<1>1. \A i : i \in KindAt(Tail(s), k) <=> i \in Nat \ {0} /\ i + 1 \in KindAt(s, k)
  BY KindTail
<1>2. 1 \in KindAt(s, k) <=> Head(s).kind = k
  BY KindTail
<1>3. \A i \in KindAt(s, k) : i = 1 \/ (i - 1 \in Nat \ {0} /\ (i - 1) + 1 = i)
  <2>1. KindAt(s, k) \subseteq 1 .. Len(s)
    BY Indices
  <2> QED
    BY <2>1
<1> QED
  BY <1>1, <1>2, <1>3

\* What an answer adds to the queue.
LEMMA WordAnswered ==
  ASSUME NEW d \in Seq(DownPacket), NEW p
  PROVE  /\ \A w : WordAt(d, w) \subseteq WordAt(d \o AnswersTo(p), w)
         /\ \A w : w \notin {"SUBACK", "PINGRESP"} => WordAt(d \o AnswersTo(p), w) = WordAt(d, w)
         /\ WordAt(d \o AnswersTo(p), "SUBACK") =
              IF p.kind = "SUBSCRIBE" THEN WordAt(d, "SUBACK") \cup {Len(d) + 1}
              ELSE WordAt(d, "SUBACK")
         /\ WordAt(d \o AnswersTo(p), "PINGRESP") =
              IF p.kind = "PINGREQ" THEN WordAt(d, "PINGRESP") \cup {Len(d) + 1}
              ELSE WordAt(d, "PINGRESP")
         /\ p.kind # "SUBSCRIBE" /\ p.kind # "PINGREQ" => d \o AnswersTo(p) = d
<1>1. CASE p.kind = "SUBSCRIBE"
  <2>1. d \o AnswersTo(p) = Append(d, "SUBACK") /\ "SUBACK" \in DownPacket
    BY <1>1 DEF AnswersTo, DownPacket
  <2> QED
    BY <1>1, <2>1, WordAppend
<1>2. CASE p.kind = "PINGREQ"
  <2>1. d \o AnswersTo(p) = Append(d, "PINGRESP") /\ "PINGRESP" \in DownPacket
    BY <1>2 DEF AnswersTo, DownPacket
  <2> QED
    BY <1>2, <2>1, WordAppend
<1>3. CASE p.kind \notin {"SUBSCRIBE", "PINGREQ"}
  <2>1. d \o AnswersTo(p) = d
    BY <1>3 DEF AnswersTo
  <2> QED
    BY <1>3, <2>1
<1> QED
  BY <1>1, <1>2, <1>3

\* On a connection that is open the ping that is waited for is on its way to the
\* broker or its answer on the way back, and nothing but a session of the broker
\* is behind what waits to be read.
Orderly ==
  /\ broker.state = "new" => up # <<>>
  /\ KindAt(out, "PINGREQ") = {}
  /\ WordAt(down, "REFUSED") = {}
  /\ state # "active" => ~pinged /\ (down = <<>> => broker.state = "new")
  /\ pinged => KindAt(up, "PINGREQ") # {} \/ WordAt(down, "PINGRESP") # {}
  /\ KindAt(up, "PINGREQ") # {} => pc \in {"turn", "block"}
  /\ \A i \in WordAt(down, "COMMAND") : i <= MaxBacklog
  /\ pinged /\ pc \in {"write", "misc"} => inAge = 0

Order == sock /\ link = "up" => Orderly

LEMMA WordEmpty == \A w : WordAt(<<>>, w) = {}
BY DEF WordAt

LEMMA OrderGood ==
  ASSUME TypeOK, Orderly, OnGood
  PROVE  Orderly'
<1>0. /\ up \in Seq(UpPacket) /\ out \in Seq(UpPacket) /\ down \in Seq(DownPacket)
      /\ broker.state \in {"new", "active"} /\ pinged \in BOOLEAN
  BY DEF TypeOK
<1>1. CASE OnNothing \/ OnMisc
  BY <1>1 DEF OnNothing, BrokerKeeps, OnMisc, Orderly
<1>2. CASE OnReadNothing
  BY <1>2, WordEmpty DEF OnReadNothing, Orderly
<1>3. CASE OnRead
  <2>1. KindAt(up, "PINGREQ") = {}
    BY <1>3 DEF OnRead, Orderly
  <2>2. \A w : WordAt(down, w) = {} => WordAt(down', w) = {}
    BY <1>0, <1>3, WordTail DEF OnRead
  <2>3. \A i \in WordAt(down', "COMMAND") : i <= MaxBacklog
    <3>1. \A i \in WordAt(down', "COMMAND") : i \in Nat /\ i + 1 \in WordAt(down, "COMMAND")
      BY <1>0, <1>3, WordTail DEF OnRead
    <3>2. \A i \in Nat : i + 1 <= MaxBacklog => i <= MaxBacklog
      BY BacklogTypes
    <3> QED
      BY <3>1, <3>2 DEF Orderly
  <2>4. KindAt(out', "PINGREQ") = {}
    <3>1. CASE UNCHANGED out
      BY <3>1 DEF Orderly
    <3>2. CASE out' = out \o Subscriptions
      BY <1>0, <3>2, KindJoin, KindPlain, Queued DEF Orderly
    <3> QED
      BY <1>3, <3>1, <3>2 DEF OnRead
  <2>5. pinged' => WordAt(down', "PINGRESP") # {}
    <3>1. SUFFICES ASSUME pinged' PROVE WordAt(down', "PINGRESP") # {}
      OBVIOUS
    <3>2. pinged /\ Head(down) # "PINGRESP"
      BY <1>3, <3>1 DEF OnRead, Orderly
    <3>3. PICK i \in WordAt(down, "PINGRESP") : TRUE
      BY <2>1, <3>2 DEF Orderly
    <3>4. 1 \notin WordAt(down, "PINGRESP")
      BY <1>0, <1>3, <3>2, WordTail DEF OnRead
    <3>5. i - 1 \in Nat \ {0} /\ (i - 1) + 1 = i
      BY <1>0, <3>4, Indices
    <3>6. i - 1 \in WordAt(down', "PINGRESP")
      BY <1>0, <1>3, <3>5, WordTail DEF OnRead
    <3> QED
      BY <3>6
  <2> QED
    BY <1>3, <2>1, <2>2, <2>3, <2>4, <2>5 DEF OnRead, Orderly
<1>4. CASE OnWrite
  <2>1. CASE UNCHANGED <<out, up>>
    BY <1>4, <2>1 DEF OnWrite, Orderly
  <2>2. CASE up' = up \o out /\ out' = <<>>
    <3>1. up' = <<>> => up = <<>>
      BY <1>0, <2>2, NotEmpty
    <3>2. KindAt(up', "PINGREQ") = {} <=> KindAt(up, "PINGREQ") = {}
      BY <1>0, <2>2, KindJoin DEF Orderly
    <3> QED
      BY <1>4, <2>2, <3>1, <3>2, KindPlain DEF OnWrite, Orderly
  <2> QED
    BY <1>4, <2>1, <2>2 DEF OnWrite
<1>5. CASE OnPing
  BY <1>5, KindMore, KindPlain DEF OnPing, Orderly
<1>6. CASE OnPublish
  <2>1. up' # <<>> /\ (KindAt(up', "PINGREQ") = {} <=> KindAt(up, "PINGREQ") = {})
    BY <1>6, KindMore DEF OnPublish, Orderly
  <2> QED
    BY <1>6, <2>1, KindPlain DEF OnPublish, Orderly
<1>7. CASE OnPass
  BY <1>7, KindPlain DEF OnPass, Orderly
<1>8. CASE OnAccept
  <2>1. WordAt(down', "REFUSED") = {} /\ WordAt(down', "COMMAND") = {} /\ down' # <<>>
    <3>1. ASSUME NEW a, NEW w, a # w PROVE WordAt(<<a>>, w) = {} /\ <<a>> # <<>>
      BY <3>1 DEF WordAt
    <3> QED
      BY <1>8, <3>1 DEF OnAccept
  <2>2. KindAt(up, "PINGREQ") = {} => KindAt(up', "PINGREQ") = {}
    BY <1>0, <1>8, KindTaken DEF OnAccept
  <2> QED
    BY <1>8, <2>1, <2>2 DEF OnAccept, BrokerKeeps, Orderly
<1>9. CASE OnHandle
  <2>0. PICK h : h = Head(up) /\ down' = down \o AnswersTo(h)
    BY <1>9 DEF OnHandle
  <2>5. PICK d \in Seq(DownPacket) : d = down
    BY <1>0
  <2>6. PICK e : e = d \o AnswersTo(h)
    OBVIOUS
  <2>7. /\ \A w : WordAt(d, w) \subseteq WordAt(e, w)
        /\ \A w : w \notin {"SUBACK", "PINGRESP"} => WordAt(e, w) = WordAt(d, w)
        /\ h.kind = "PINGREQ" => WordAt(e, "PINGRESP") = WordAt(d, "PINGRESP") \cup {Len(d) + 1}
    BY ONLY Zenon, <2>6, d \in Seq(DownPacket), WordAnswered
  <2>8. down' = e
    BY <2>0, <2>5, <2>6
  <2>1. WordAt(down', "REFUSED") = {} /\ WordAt(down', "COMMAND") = WordAt(down, "COMMAND")
        /\ WordAt(down, "PINGRESP") \subseteq WordAt(down', "PINGRESP")
    BY <2>5, <2>7, <2>8 DEF Orderly
  <2>2. KindAt(up, "PINGREQ") = {} => KindAt(up', "PINGREQ") = {}
    BY <1>0, <1>9, KindTaken DEF OnHandle
  <2>3. KindAt(up, "PINGREQ") # {} => KindAt(up', "PINGREQ") # {} \/ WordAt(down', "PINGRESP") # {}
    <3>1. CASE h.kind = "PINGREQ"
      BY ONLY <2>7, <2>8, <3>1
    <3>2. CASE h.kind # "PINGREQ"
      BY <1>0, <1>9, <2>0, <3>2, KindTaken DEF OnHandle
    <3> QED
      BY <3>1, <3>2
  <2>4. down' = <<>> => down = <<>>
    <3>1. PICK a \in Seq(DownPacket) : a = AnswersTo(h)
      <4>1. <<>> \in Seq(DownPacket) /\ <<"SUBACK">> \in Seq(DownPacket)
            /\ <<"PINGRESP">> \in Seq(DownPacket)
        BY DEF DownPacket
      <4> QED
        BY <4>1 DEF AnswersTo
    <3> QED
      BY <1>0, <2>0, <3>1, NotEmpty
  <2> QED
    BY <1>9, <2>1, <2>2, <2>3, <2>4 DEF OnHandle, BrokerKeeps, Orderly
<1>10. CASE OnCommand
  <2>1. "COMMAND" \in DownPacket /\ MaxBacklog \in Nat
    BY BacklogTypes DEF DownPacket
  <2>2. \A w : w # "COMMAND" => WordAt(down', w) = WordAt(down, w)
    BY <1>0, <1>10, <2>1, WordAppend DEF OnCommand
  <2>3. WordAt(down', "COMMAND") = WordAt(down, "COMMAND") \cup {Len(down) + 1}
    BY <1>0, <1>10, <2>1, WordAppend DEF OnCommand
  <2>4. Len(down) + 1 <= MaxBacklog
    BY <1>0, <1>10, <2>1 DEF OnCommand
  <2> QED
    BY <1>10, <2>2, <2>3, <2>4 DEF OnCommand, BrokerKeeps, Orderly
<1> QED
  BY <1>1, <1>2, <1>3, <1>4, <1>5, <1>6, <1>7, <1>8, <1>9, <1>10 DEF OnGood

LEMMA OrderFresh ==
  ASSUME OnReconnect
  PROVE  Orderly'
<1>1. ASSUME NEW p PROVE <<p>> # <<>>
  OBVIOUS
<1>2. up' # <<>> /\ KindAt(up', "PINGREQ") = {}
  BY <1>1, KindPlain DEF OnReconnect
<1> QED
  BY <1>2, KindPlain, WordEmpty DEF OnReconnect, Orderly

LEMMA OrderInit == Init => Order
<1> SUFFICES ASSUME Init, sock PROVE Orderly
  BY DEF Order
<1>1. ASSUME NEW p PROVE <<p>> # <<>>
  OBVIOUS
<1>2. up # <<>> /\ KindAt(up, "PINGREQ") = {}
  BY <1>1, KindPlain DEF Init
<1> QED
  BY <1>2, KindPlain, WordEmpty DEF Init, NewContext, Orderly

LEMMA OrderStep == TypeOK /\ Backlog /\ Order /\ [Next]_vars => Order'
<1> SUFFICES ASSUME TypeOK, Backlog, Order, [Next]_vars, ~Ended PROVE Orderly'
  BY DEF Order, Ended
<1>1. CASE OnReconnect
  BY <1>1, OrderFresh
<1>2. CASE sock /\ link = "up" /\ OnGood
  BY <1>2, OrderGood DEF Order
<1> QED
  BY <1>1, <1>2, GoodSteps

-----------------------------------------------------------------------------
(* Time on a good connection.                                              *)

Good == sock /\ link = "up" /\ ~slow

LEMMA TurnBounds ==
  /\ TurnLeft \in Nat /\ TurnLeft <= LongTurn /\ ReadLeft \in Nat /\ ReadLeft <= LongTurn
  /\ pc \in {"write", "misc"} => TurnLeft = 0 /\ ReadLeft = LongTurn
  /\ pc \notin {"write", "misc"} => ReadLeft = TurnLeft
  /\ pc = "loop" => TurnLeft = 0
  /\ pc \in {"turn", "block"} => TurnLeft = LongTurn
  /\ pc \in {"answer", "sleep"} => TurnLeft = TurnEnd
<1>1. PICK L \in Nat, S \in Nat : L = LongTurn /\ S = TurnEnd /\ S <= L
  BY TimeConstants
<1>2. TurnLeft = IF pc \in {"turn", "block"} THEN L ELSE IF pc \in {"answer", "sleep"} THEN S ELSE 0
  BY <1>1 DEF TurnLeft
<1>3. ReadLeft = IF pc \in {"write", "misc"} THEN L ELSE TurnLeft
  BY <1>1 DEF ReadLeft
<1>4. 0 <= L /\ L <= L
  BY <1>1
<1> QED
  BY <1>1, <1>2, <1>3, <1>4

LEMMA TurnBoundsNext ==
  /\ TurnLeft' \in Nat /\ TurnLeft' <= LongTurn /\ ReadLeft' \in Nat /\ ReadLeft' <= LongTurn
  /\ pc' \in {"write", "misc"} => TurnLeft' = 0 /\ ReadLeft' = LongTurn
  /\ pc' \notin {"write", "misc"} => ReadLeft' = TurnLeft'
  /\ pc' = "loop" => TurnLeft' = 0
  /\ pc' \in {"turn", "block"} => TurnLeft' = LongTurn
  /\ pc' \in {"answer", "sleep"} => TurnLeft' = TurnEnd
<1>1. LongTurn' = LongTurn
  BY DEF LongTurn, TurnEnd
<1>2. (/\ TurnLeft \in Nat /\ TurnLeft <= LongTurn /\ ReadLeft \in Nat /\ ReadLeft <= LongTurn
       /\ pc \in {"write", "misc"} => TurnLeft = 0 /\ ReadLeft = LongTurn
       /\ pc \notin {"write", "misc"} => ReadLeft = TurnLeft
       /\ pc = "loop" => TurnLeft = 0
       /\ pc \in {"turn", "block"} => TurnLeft = LongTurn
       /\ pc \in {"answer", "sleep"} => TurnLeft = TurnEnd)'
  BY TurnBounds, PTL
<1> QED
  BY <1>1, <1>2

\* What passes in a turn that is not slow is set aside for it.
LEMMA PassTime ==
  ASSUME TypeOK, OnPass, ~slow'
  PROVE  \E d \in Nat :
           /\ ~slow /\ inAge' <= inAge + d /\ outAge' <= outAge + d
           /\ TurnLeft' + d <= TurnLeft /\ ReadLeft = TurnLeft /\ ReadLeft' = TurnLeft'
<1>1. PICK d \in Nat :
        /\ \/ pc \in {"turn", "block"} /\ pc' = "answer" /\ ~slow /\ d <= Patience
           \/ pc \in {"answer", "sleep"} /\ pc' = "loop" /\ d <= TurnEnd /\ ~slow
        /\ inAge' = Older(inAge, d, KeepAlive) /\ outAge' = Older(outAge, d, KeepAlive)
  BY DEF OnPass
<1>2. PICK K \in Nat : K = KeepAlive
  BY TimeConstants
<1>3. PICK a \in Nat, b \in Nat : a = inAge /\ b = outAge
  BY <1>2 DEF TypeOK
<1>4. \A x \in Nat : Older(x, d, K) <= x + d
  BY DEF Older
<1>5. inAge' <= inAge + d /\ outAge' <= outAge + d
  BY <1>1, <1>2, <1>3, <1>4
<1>6. PICK P \in Nat, S \in Nat : P = Patience /\ S = TurnEnd /\ LongTurn = P + S
  BY TimeConstants
<1>7. TurnLeft' + d <= TurnLeft
  <2>1. CASE pc \in {"turn", "block"} /\ pc' = "answer" /\ d <= Patience
    <3>1. TurnLeft = P + S /\ TurnLeft' = S
      BY <1>6, <2>1, TurnBounds, TurnBoundsNext
    <3>2. d <= P
      BY <1>6, <2>1
    <3>3. S + d <= P + S
      BY ONLY <3>2, d \in Nat, P \in Nat, S \in Nat
    <3> QED
      BY <3>1, <3>3
  <2>2. CASE pc \in {"answer", "sleep"} /\ pc' = "loop" /\ d <= TurnEnd
    <3>1. TurnLeft = S /\ TurnLeft' = 0
      BY <1>6, <2>2, TurnBounds, TurnBoundsNext
    <3>2. 0 + d <= S
      BY <1>6, <2>2
    <3> QED
      BY <3>1, <3>2
  <2> QED
    BY <1>1, <2>1, <2>2
<1>8. ReadLeft = TurnLeft /\ ReadLeft' = TurnLeft'
  BY <1>1, TurnBounds, TurnBoundsNext
<1> QED
  BY <1>1, <1>5, <1>7, <1>8

\* Only reading a packet starts a turn anew.
LEMMA TimeSpent ==
  ASSUME TypeOK, TypeOK', OnGood, ~OnRead, ~OnReadNothing, ~slow'
  PROVE  outAge' + ReadLeft' <= outAge + ReadLeft
<1>1. PICK b \in Nat, e \in Nat : b = outAge /\ e = outAge'
  BY DEF TypeOK
<1>2. PICK r \in Nat, q \in Nat : r = ReadLeft /\ q = ReadLeft'
  BY TurnBounds, TurnBoundsNext
<1>3. CASE OnPass
  <2>1. PICK d \in Nat : outAge' <= outAge + d /\ ReadLeft' + d <= ReadLeft
    BY <1>3, PassTime
  <2>2. e <= b + d /\ q + d <= r
    BY <1>1, <1>2, <2>1
  <2>3. e + q <= b + r
    BY ONLY <2>2, b \in Nat, e \in Nat, r \in Nat, q \in Nat, d \in Nat
  <2> QED
    BY <1>1, <1>2, <2>3
<1>4. CASE ~OnPass
  <2>1. e \in {0, b}
    BY <1>1, <1>4 DEF OnGood, OnWrite, OnMisc, OnPing, OnPublish, OnAccept, OnHandle, OnCommand,
                      OnNothing, BrokerKeeps
  <2>2. q = r
    <3>1. pc' = pc \/ (pc = "write" /\ pc' = "misc") \/ (pc = "misc" /\ pc' = "turn")
            \/ (pc = "turn" /\ pc' = "block") \/ (pc = "answer" /\ pc' = "sleep")
      BY <1>4 DEF OnGood, OnWrite, OnMisc, OnPing, OnPublish, OnAccept, OnHandle, OnCommand,
                  OnNothing, BrokerKeeps
    <3>2. CASE pc' = pc
      BY <1>2, <3>2 DEF ReadLeft, TurnLeft, LongTurn, TurnEnd
    <3>3. CASE pc' # pc
      BY <1>2, <3>1, <3>3, TurnBounds, TurnBoundsNext
    <3> QED
      BY <3>2, <3>3
  <2>3. e + q <= b + r
    BY ONLY <2>1, <2>2, b \in Nat, e \in Nat, r \in Nat, q \in Nat
  <2> QED
    BY <1>1, <1>2, <2>3
<1> QED
  BY <1>3, <1>4

-----------------------------------------------------------------------------
(* The broker is content with the client.                                  *)

Content ==
  /\ up = <<>> /\ outAge < KeepAlive => broker.idle <= outAge
  /\ broker.idle <= KeepaliveSeen
  /\ pc \in {"turn", "block"} => outAge < KeepAlive
  /\ pc \in {"answer", "sleep"} /\ up = <<>> => broker.idle <= KeepAlive - 1 + Patience

LEMMA ContentFresh ==
  ASSUME OnReconnect
  PROVE  Content'
<1>1. ASSUME NEW p PROVE <<p>> # <<>>
  OBVIOUS
<1>2. up' # <<>> /\ broker'.idle = 0 /\ pc' = "sleep"
  BY <1>1 DEF OnReconnect
<1>3. 0 <= KeepaliveSeen /\ KeepaliveSeen' = KeepaliveSeen
  BY TimeConstants DEF KeepaliveSeen, LongTurn, TurnEnd
<1> QED
  BY <1>2, <1>3 DEF Content

LEMMA ContentInit ==
  ASSUME Init
  PROVE  Content \/ ~sock
<1>1. ASSUME NEW p PROVE <<p>> # <<>>
  OBVIOUS
<1>2. sock => up # <<>> /\ broker.idle = 0 /\ pc = "loop"
  BY <1>1 DEF Init, NewContext
<1>3. 0 <= KeepaliveSeen
  BY TimeConstants
<1> QED
  BY <1>2, <1>3 DEF Content

LEMMA ContentGood ==
  ASSUME TypeOK, Content, OnGood, ~slow'
  PROVE  Content'
<1>0. PICK K \in Nat \ {0}, P \in Nat, S \in Nat, Z \in Nat :
        /\ K = KeepAlive /\ P = Patience /\ S = TurnEnd /\ Z = KeepaliveSeen
        /\ Z = K - 1 + (P + S)
  BY TimeConstants
<1>1. KeepaliveSeen' = Z
  BY <1>0 DEF KeepaliveSeen, LongTurn, TurnEnd
<1>2. PICK x \in Nat, a \in Nat : x = broker.idle /\ a = outAge
  BY DEF TypeOK
<1>3. /\ up = <<>> /\ a < K => x <= a
      /\ x <= Z
      /\ pc \in {"turn", "block"} => a < K
      /\ pc \in {"answer", "sleep"} /\ up = <<>> => x <= K - 1 + P
  BY <1>0, <1>2 DEF Content
<1>4. ASSUME broker'.idle \in {0, x}, outAge' = a, up' = <<>> => broker'.idle = 0 \/ up = <<>>,
             pc' = pc \/ pc' \in {"loop", "write", "misc"}
             \/ (pc = "turn" /\ pc' = "block") \/ (pc = "misc" /\ pc' = "turn" /\ a < K)
      PROVE  Content'
  <2>1. PICK y \in {0, x} : y = broker'.idle
    BY <1>4
  <2>2. /\ y <= Z
        /\ y = 0 => y <= a /\ y <= K - 1 + P
    BY <1>3, <2>1
  <2>3. up' = <<>> /\ a < K => y <= a
    BY <1>3, <1>4, <2>1, <2>2
  <2>4. pc' \in {"turn", "block"} => a < K
    BY <1>3, <1>4
  <2>5. pc' \in {"answer", "sleep"} /\ up' = <<>> => y <= K - 1 + P
    BY <1>3, <1>4, <2>1, <2>2
  <2> QED
    BY <1>0, <1>1, <1>4, <2>1, <2>2, <2>3, <2>4, <2>5 DEF Content
<1>5. CASE OnRead \/ OnReadNothing \/ OnCommand \/ OnNothing
  BY <1>2, <1>4, <1>5 DEF OnRead, OnReadNothing, OnCommand, OnNothing, BrokerKeeps
<1>6. CASE OnAccept \/ OnHandle
  BY <1>2, <1>4, <1>6 DEF OnAccept, OnHandle, BrokerKeeps
<1>7. CASE OnMisc
  <2>1. a < K
    <3>1. ~(a >= K)
      BY <1>0, <1>2, <1>7 DEF OnMisc, Overdue
    <3> QED
      BY ONLY <3>1, a \in Nat, K \in Nat \ {0}
  <2> QED
    BY <1>2, <1>4, <1>7, <2>1 DEF OnMisc
<1>8. ASSUME broker'.idle = x, outAge' = 0, up' # <<>> PROVE Content'
  <2>1. 0 < K
    BY <1>0
  <2> QED
    BY <1>0, <1>1, <1>3, <1>8, <2>1 DEF Content
<1>9. CASE OnPing \/ OnPublish
  <2>1. up' # <<>>
    BY <1>9, KindMore DEF OnPing, OnPublish
  <2> QED
    BY <1>2, <1>8, <1>9, <2>1 DEF OnPing, OnPublish
<1>10. CASE OnWrite
  <2>1. up \in Seq(UpPacket) /\ out \in Seq(UpPacket)
    BY DEF TypeOK
  <2>2. CASE out = <<>> /\ up' = up \o out /\ outAge' = outAge
    <3>1. up' = up
      BY <2>1, <2>2
    <3> QED
      BY <1>2, <1>4, <1>10, <2>2, <3>1 DEF OnWrite
  <2>3. CASE out # <<>> /\ up' = up \o out /\ outAge' = 0
    <3>1. up' # <<>>
      BY <2>1, <2>3, NotEmpty
    <3> QED
      BY <1>2, <1>8, <1>10, <2>3, <3>1 DEF OnWrite
  <2>4. CASE UNCHANGED <<out, up, outAge>>
    BY <1>2, <1>4, <1>10, <2>4 DEF OnWrite
  <2> QED
    BY <1>10, <2>2, <2>3, <2>4 DEF OnWrite
<1>11. CASE OnPass
  <2>1. PICK d \in Nat :
          /\ \/ pc \in {"turn", "block"} /\ pc' = "answer" /\ d <= P
             \/ pc \in {"answer", "sleep"} /\ pc' = "loop" /\ d <= S
          /\ up = <<>> /\ up' = <<>>
          /\ outAge' = Older(a, d, K) /\ broker'.idle = Older(x, d, Grace + 1)
    BY <1>0, <1>2, <1>11 DEF OnPass
  <2>2. PICK G \in Nat : G = Grace + 1
    BY GraceInNat
  <2>3. PICK y \in Nat : y = broker'.idle /\ y <= x + d
    <3>1. Older(x, d, G) \in Nat /\ Older(x, d, G) <= x + d
      BY DEF Older
    <3> QED
      BY <2>1, <2>2, <3>1
  <2>4. PICK b \in Nat : b = outAge' /\ b = IF a + d > K THEN K ELSE a + d
    <3>1. Older(a, d, K) \in Nat
      BY DEF Older
    <3> QED
      BY <2>1, <3>1 DEF Older
  <2>5. b < K => y <= b
    <3>1. y <= x + d /\ (a < K => x <= a)
      BY <1>3, <2>1, <2>3
    <3> QED
      BY ONLY <2>4, <3>1, a \in Nat, b \in Nat, d \in Nat, x \in Nat, y \in Nat, K \in Nat \ {0}
  <2>6. y <= Z /\ (pc' = "answer" => y <= K - 1 + P)
    <3>1. CASE pc \in {"turn", "block"} /\ pc' = "answer" /\ d <= P
      <4>1. a < K /\ x <= a /\ d <= P /\ y <= x + d
        BY <1>3, <2>1, <2>3, <3>1
      <4> QED
        BY ONLY <1>0, <4>1, a \in Nat, d \in Nat, x \in Nat, y \in Nat, K \in Nat \ {0}, P \in Nat,
                S \in Nat, Z \in Nat
    <3>2. CASE pc \in {"answer", "sleep"} /\ pc' = "loop" /\ d <= S
      <4>1. x <= K - 1 + P /\ d <= S /\ y <= x + d
        BY <1>3, <2>1, <2>3, <3>2
      <4>2. y <= Z
        BY ONLY <1>0, <4>1, d \in Nat, x \in Nat, y \in Nat, K \in Nat \ {0}, P \in Nat,
                S \in Nat, Z \in Nat
      <4> QED
        BY <3>2, <4>2
    <3> QED
      BY <2>1, <3>1, <3>2
  <2> QED
    BY <1>0, <1>1, <2>1, <2>3, <2>4, <2>5, <2>6 DEF Content
<1> QED
  BY <1>5, <1>6, <1>7, <1>9, <1>10, <1>11 DEF OnGood

-----------------------------------------------------------------------------
(* A session starts at once.                                               *)

\* Until the subscriptions are written, and answered, nothing is overdue.
Young ==
  /\ state # "active" => outAge + ReadLeft <= LongTurn
  /\ state # "active" /\ (pc \in {"write", "misc"} \/ (pc = "loop" /\ down = <<>>))
       => inAge = 0 /\ outAge = 0
  /\ KindAt(out, "SUBSCRIBE") # {} =>
       /\ inAge + TurnLeft <= LongTurn
       /\ pc \in {"write", "misc"}
            => (pc = "write" /\ wants) \/ (inAge = 0 /\ outAge <= LongTurn)
  /\ KindAt(up, "SUBSCRIBE") # {} => outAge = 0 /\ inAge <= LongTurn
  /\ KindAt(up, "SUBSCRIBE") # {} \/ KindAt(out, "SUBSCRIBE") # {} => ~pinged

LEMMA Ages ==
  ASSUME TypeOK, TypeOK'
  PROVE  /\ inAge \in Nat /\ outAge \in Nat /\ inAge' \in Nat /\ outAge' \in Nat
         /\ LongTurn \in Nat /\ LongTurn' = LongTurn /\ 0 <= LongTurn
         /\ 0 + LongTurn <= LongTurn /\ 0 + 0 <= LongTurn
<1>1. inAge \in 0 .. KeepAlive /\ outAge \in 0 .. KeepAlive
      /\ inAge' \in 0 .. KeepAlive /\ outAge' \in 0 .. KeepAlive
  BY DEF TypeOK
<1>2. KeepAlive \in Nat /\ LongTurn \in Nat
  BY TimeConstants
<1> QED
  BY <1>1, <1>2 DEF LongTurn, TurnEnd

LEMMA YoungFresh ==
  ASSUME OnReconnect
  PROVE  Young'
<1>1. KindAt(up', "SUBSCRIBE") = {} /\ KindAt(out', "SUBSCRIBE") = {}
  BY KindPlain DEF OnReconnect
<1>2. 0 + ReadLeft' <= LongTurn /\ LongTurn' = LongTurn
  BY TurnBoundsNext DEF LongTurn, TurnEnd
<1> QED
  BY <1>1, <1>2 DEF OnReconnect, Young

LEMMA YoungInit ==
  ASSUME Init
  PROVE  Young \/ ~sock
<1>1. sock => KindAt(up, "SUBSCRIBE") = {} /\ KindAt(out, "SUBSCRIBE") = {}
  BY KindPlain DEF Init
<1>2. 0 + ReadLeft <= LongTurn
  BY TurnBounds
<1> QED
  BY <1>1, <1>2 DEF Init, Young

\* A step before the session.
LEMMA YoungBefore ==
  ASSUME TypeOK, TypeOK', Orderly, Young, OnGood, ~slow', state' # "active"
  PROVE  /\ outAge' + ReadLeft' <= LongTurn
         /\ pc' \in {"write", "misc"} \/ (pc' = "loop" /\ down' = <<>>) => inAge' = 0 /\ outAge' = 0
<1>1. state # "active" /\ ~OnRead /\ ~OnPing /\ ~OnCommand /\ state' = state
  BY DEF OnGood, OnRead, OnReadNothing, OnWrite, OnMisc, OnPing, OnPublish, OnPass, OnAccept,
         OnHandle, OnCommand, OnNothing, BrokerKeeps
<1>2. PICK b \in Nat, e \in Nat, L \in Nat, r \in Nat, q \in Nat :
        b = outAge /\ e = outAge' /\ L = LongTurn /\ r = ReadLeft /\ q = ReadLeft'
  BY Ages, TurnBounds, TurnBoundsNext
<1>3. b + r <= L
  BY <1>1, <1>2 DEF Young
<1>4. CASE OnReadNothing
  <2>1. inAge = 0 /\ outAge = 0
    BY <1>1, <1>4 DEF OnReadNothing, Young
  <2>2. 0 + ReadLeft' <= LongTurn
    BY TurnBoundsNext
  <2> QED
    BY <1>4, <2>1, <2>2 DEF OnReadNothing
<1>5. CASE ~OnReadNothing
  <2>1. e + q <= b + r
    BY <1>1, <1>2, <1>5, TimeSpent
  <2>2. e + q <= L
    BY ONLY <1>3, <2>1, b \in Nat, e \in Nat, L \in Nat, r \in Nat, q \in Nat
  <2>3. CASE OnPass
    <3>1. pc' \in {"answer", "loop"} /\ up = <<>> /\ down' = down
      BY <2>3 DEF OnPass
    <3>2. down # <<>>
      BY <1>1, <3>1 DEF Orderly
    <3> QED
      BY <1>2, <2>2, <3>1, <3>2
  <2>4. CASE OnWrite
    <3>1. inAge = 0 /\ outAge = 0
      BY <1>1, <2>4 DEF OnWrite, Young
    <3> QED
      BY <1>2, <2>2, <2>4, <3>1 DEF OnWrite
  <2>5. CASE OnMisc \/ OnPublish
    BY <1>2, <2>2, <2>5 DEF OnMisc, OnPublish
  <2>6. CASE OnAccept \/ OnHandle \/ OnNothing
    <3>1. pc' = pc /\ inAge' = inAge /\ outAge' = outAge
      BY <2>6 DEF OnAccept, OnHandle, OnNothing, BrokerKeeps
    <3>2. down' = <<>> => down = <<>>
      <4>1. CASE OnAccept
        <5>1. ASSUME NEW p PROVE <<p>> # <<>>
          OBVIOUS
        <5> QED
          BY <4>1, <5>1 DEF OnAccept
      <4>2. CASE OnHandle
        <5>1. PICK d, a : d = down /\ d \in Seq(DownPacket) /\ a = AnswersTo(Head(up))
          BY DEF TypeOK
        <5>2. a \in Seq(DownPacket)
          <6>1. <<>> \in Seq(DownPacket) /\ <<"SUBACK">> \in Seq(DownPacket)
                /\ <<"PINGRESP">> \in Seq(DownPacket)
            BY DEF DownPacket
          <6> QED
            BY <5>1, <6>1 DEF AnswersTo
        <5> QED
          BY <4>2, <5>1, <5>2, NotEmpty DEF OnHandle
      <4>3. CASE OnNothing
        BY <4>3 DEF OnNothing
      <4> QED
        BY <2>6, <4>1, <4>2, <4>3
    <3> QED
      BY <1>1, <1>2, <2>2, <3>1, <3>2 DEF Young
  <2> QED
    BY <1>1, <1>5, <2>3, <2>4, <2>5, <2>6 DEF OnGood
<1> QED
  BY <1>4, <1>5

\* The subscriptions the client has not written yet.
LEMMA YoungOut ==
  ASSUME TypeOK, TypeOK', Young, OnGood, ~slow', KindAt(out', "SUBSCRIBE") # {}
  PROVE  /\ inAge' + TurnLeft' <= LongTurn
         /\ pc' \in {"write", "misc"}
              => (pc' = "write" /\ wants') \/ (inAge' = 0 /\ outAge' <= LongTurn)
<1>1. CASE OnRead
  <2>1. inAge' = 0 /\ pc' = "write" /\ inAge' + TurnLeft' <= LongTurn
    BY <1>1, Ages, TurnBoundsNext DEF OnRead
  <2>2. CASE state # "active"
    <3>1. outAge + ReadLeft <= LongTurn /\ ReadLeft = 0
      BY <1>1, <2>2, TurnBounds DEF OnRead, Young
    <3>2. outAge' <= LongTurn
      BY <1>1, <3>1, Ages DEF OnRead
    <3> QED
      BY <2>1, <3>2
  <2>3. CASE state = "active"
    <3>1. out # <<>>
      BY <1>1, <2>3, KindPlain DEF OnRead
    <3> QED
      BY <1>1, <2>1, <3>1 DEF OnRead
  <2> QED
    BY <2>2, <2>3
<1>2. CASE OnReadNothing
  <2>1. out # <<>> /\ inAge + TurnLeft <= LongTurn /\ TurnLeft = 0 /\ TurnLeft' = 0
    BY <1>2, KindPlain, TurnBounds, TurnBoundsNext DEF OnReadNothing, Young
  <2> QED
    BY <1>2, <2>1 DEF OnReadNothing
<1>3. CASE OnWrite
  <2>1. ~wants /\ UNCHANGED <<out, outAge, inAge>> /\ pc = "write" /\ pc' = "misc"
    BY <1>3, KindPlain DEF OnWrite
  <2>2. TurnLeft = 0 /\ TurnLeft' = 0
    BY <2>1, TurnBounds, TurnBoundsNext
  <2> QED
    BY <2>1, <2>2 DEF Young
<1>4. CASE OnMisc
  <2>1. inAge = 0 /\ inAge' = 0 /\ pc' = "turn"
    BY <1>4 DEF OnMisc, Young
  <2>2. 0 + TurnLeft' <= LongTurn
    BY TurnBoundsNext
  <2> QED
    BY <2>1, <2>2
<1>5. CASE OnPing \/ OnPublish
  BY <1>5, KindPlain DEF OnPing, OnPublish
<1>6. CASE OnPass
  <2>1. PICK d \in Nat : inAge' <= inAge + d /\ TurnLeft' + d <= TurnLeft
    BY <1>6, PassTime
  <2>2. inAge + TurnLeft <= LongTurn
    BY <1>6 DEF OnPass, Young
  <2>3. PICK a \in Nat, b \in Nat, L \in Nat : a = inAge /\ b = inAge' /\ L = LongTurn
    BY Ages
  <2>4. PICK r \in Nat, q \in Nat : r = TurnLeft /\ q = TurnLeft'
    BY TurnBounds, TurnBoundsNext
  <2>5. b <= a + d /\ q + d <= r /\ a + r <= L
    BY <2>1, <2>2, <2>3, <2>4
  <2>6. b + q <= L
    BY ONLY <2>5, a \in Nat, b \in Nat, d \in Nat, L \in Nat, r \in Nat, q \in Nat
  <2> QED
    BY <1>6, <2>3, <2>4, <2>6 DEF OnPass
<1>7. CASE OnAccept \/ OnHandle \/ OnCommand \/ OnNothing
  <2>1. UNCHANGED <<pc, out, wants, inAge, outAge>>
    BY <1>7 DEF OnAccept, OnHandle, OnCommand, OnNothing, BrokerKeeps
  <2>2. TurnLeft' = TurnLeft
    BY <2>1 DEF TurnLeft, LongTurn, TurnEnd
  <2> QED
    BY <2>1, <2>2 DEF Young
<1> QED
  BY <1>1, <1>2, <1>3, <1>4, <1>5, <1>6, <1>7 DEF OnGood

\* The subscriptions on their way.
LEMMA YoungUp ==
  ASSUME TypeOK, TypeOK', Orderly, Young, OnGood, KeepsPace
  PROVE  /\ KindAt(up', "SUBSCRIBE") # {} => outAge' = 0 /\ inAge' <= LongTurn
         /\ KindAt(up', "SUBSCRIBE") # {} \/ KindAt(out', "SUBSCRIBE") # {} => ~pinged'
<1>0. up \in Seq(UpPacket) /\ out \in Seq(UpPacket)
  BY DEF TypeOK
<1>1. CASE OnRead
  <2>1. up' = up /\ outAge' = outAge /\ inAge' = 0 /\ 0 <= LongTurn
    BY <1>1, Ages DEF OnRead
  <2>2. CASE state # "active"
    <3>1. ~pinged /\ pinged' = pinged
      BY <1>1, <2>2 DEF OnRead, Orderly
    <3> QED
      BY <2>1, <3>1 DEF Young
  <2>3. CASE state = "active"
    <3>1. out' = out /\ (~pinged => ~pinged')
      BY <1>1, <2>3 DEF OnRead
    <3> QED
      BY <2>1, <3>1 DEF Young
  <2> QED
    BY <2>2, <2>3
<1>2. CASE OnReadNothing \/ OnMisc \/ OnCommand \/ OnNothing
  BY <1>2 DEF OnReadNothing, OnMisc, OnCommand, OnNothing, BrokerKeeps, Young
<1>3. KindAt(out, "SUBSCRIBE") # {} => inAge <= LongTurn
  <2>1. inAge \in Nat /\ TurnLeft \in Nat /\ LongTurn \in Nat
    BY Ages, TurnBounds
  <2> QED
    BY <2>1 DEF Young
<1>4. CASE OnWrite
  <2>1. CASE UNCHANGED <<out, up, outAge>>
    BY <1>4, <2>1 DEF OnWrite, Young
  <2>2. CASE up' = up \o out /\ out' = <<>> /\ outAge' = IF out = <<>> THEN outAge ELSE 0
    <3>1. KindAt(up', "SUBSCRIBE") # {} <=> KindAt(up, "SUBSCRIBE") # {} \/ KindAt(out, "SUBSCRIBE") # {}
      BY <1>0, <2>2, KindJoin
    <3>2. KindAt(out', "SUBSCRIBE") = {} /\ (KindAt(out, "SUBSCRIBE") # {} => out # <<>>)
      BY <2>2, KindPlain
    <3> QED
      BY <1>3, <1>4, <2>2, <3>1, <3>2 DEF OnWrite, Young
  <2> QED
    BY <1>4, <2>1, <2>2 DEF OnWrite
<1>5. CASE OnPing
  <2>1. KindAt(out, "SUBSCRIBE") = {} /\ KindAt(up, "SUBSCRIBE") = {}
    <3>1. LongTurn < KeepAlive /\ 0 < KeepAlive /\ KeepAlive \in Nat
      BY TimeConstants DEF KeepsPace
    <3>2. (outAge >= KeepAlive \/ inAge >= KeepAlive) /\ pc = "misc"
      BY <1>5 DEF OnPing, Overdue
    <3>3. \A x \in Nat : x <= LongTurn => ~(x >= KeepAlive)
      BY <3>1, TimeConstants
    <3>4. ~(0 >= KeepAlive)
      BY <3>1
    <3> QED
      BY <3>2, <3>3, <3>4, Ages DEF Young
  <2>2. KindAt(up', "SUBSCRIBE") = {} /\ KindAt(out', "SUBSCRIBE") = {}
    BY <1>5, <2>1, KindMore, KindPlain DEF OnPing
  <2> QED
    BY <2>2
<1>6. CASE OnPublish
  <2>1. /\ KindAt(up', "SUBSCRIBE") # {} => KindAt(up, "SUBSCRIBE") # {} \/ KindAt(out, "SUBSCRIBE") # {}
        /\ KindAt(out', "SUBSCRIBE") = {}
    BY <1>6, KindMore, KindPlain DEF OnPublish
  <2> QED
    BY <1>3, <1>6, <2>1 DEF OnPublish, Young
<1>7. CASE OnPass
  BY <1>7, KindPlain DEF OnPass, Young
<1>8. CASE OnAccept \/ OnHandle
  <2>1. UNCHANGED <<out, pinged, inAge, outAge>>
    BY <1>8 DEF OnAccept, OnHandle, BrokerKeeps
  <2>2. KindAt(up', "SUBSCRIBE") # {} => KindAt(up, "SUBSCRIBE") # {}
    BY <1>0, <1>8, KindTaken DEF OnAccept, OnHandle
  <2> QED
    BY <2>1, <2>2 DEF Young
<1> QED
  BY <1>1, <1>2, <1>4, <1>5, <1>6, <1>7, <1>8 DEF OnGood

LEMMA YoungGood ==
  ASSUME TypeOK, TypeOK', Orderly, Young, OnGood, ~slow', KeepsPace
  PROVE  Young'
<1>1. LongTurn' = LongTurn
  BY DEF LongTurn, TurnEnd
<1>2. state' # "active" =>
        /\ outAge' + ReadLeft' <= LongTurn
        /\ pc' \in {"write", "misc"} \/ (pc' = "loop" /\ down' = <<>>) => inAge' = 0 /\ outAge' = 0
  BY YoungBefore
<1>3. KindAt(out', "SUBSCRIBE") # {} =>
        /\ inAge' + TurnLeft' <= LongTurn
        /\ pc' \in {"write", "misc"}
             => (pc' = "write" /\ wants') \/ (inAge' = 0 /\ outAge' <= LongTurn)
  BY YoungOut
<1>4. /\ KindAt(up', "SUBSCRIBE") # {} => outAge' = 0 /\ inAge' <= LongTurn
      /\ KindAt(up', "SUBSCRIBE") # {} \/ KindAt(out', "SUBSCRIBE") # {} => ~pinged'
  BY YoungUp
<1> QED
  BY <1>1, <1>2, <1>3, <1>4 DEF Young

-----------------------------------------------------------------------------
(* The answers come in time.                                               *)

\* Every answer w that waits to be read is read before the client has been
\* silent for longer than that: a turn for each packet before it is in it.
DueBy(w, limit) ==
  \A i \in Nat : i + 1 \in WordAt(down, w) => outAge + ReadLeft + Turns(i) <= limit

AllTurns == Turns(MaxBacklog + Len(Topics))

Timely ==
  /\ DueBy("SUBACK", AllTurns)
  /\ DueBy("PINGRESP", KeepaliveSeen)
  /\ KindAt(up, "PINGREQ") # {} => outAge = 0 /\ Turns(Len(down)) < KeepAlive
  /\ pc \in {"write", "misc"} /\ inAge > LongTurn => WordAt(down, "SUBACK") = {}

\* A word that is there.
LEMMA DueNext ==
  ASSUME TypeOK, TypeOK', NEW w, NEW limit \in Nat,
         \A i \in Nat : i + 1 \in WordAt(down', w) => outAge' + ReadLeft' + Turns(i) <= limit
  PROVE  DueBy(w, limit)'
BY DEF DueBy, Turns, LongTurn, TurnEnd

LEMMA DueKept ==
  ASSUME TypeOK, TypeOK', OnGood, ~OnRead, ~OnReadNothing, ~slow', NEW w, NEW limit \in Nat,
         DueBy(w, limit)
  PROVE  \A i \in Nat : i + 1 \in WordAt(down, w) => outAge' + ReadLeft' + Turns(i) <= limit
<1>1. PICK b \in Nat, e \in Nat : b = outAge /\ e = outAge'
  BY Ages
<1>2. PICK r \in Nat, q \in Nat : r = ReadLeft /\ q = ReadLeft'
  BY TurnBounds, TurnBoundsNext
<1>3. e + q <= b + r
  BY <1>1, <1>2, TimeSpent
<1>4. SUFFICES ASSUME NEW i \in Nat, i + 1 \in WordAt(down, w)
               PROVE  outAge' + ReadLeft' + Turns(i) <= limit
  OBVIOUS
<1>5. PICK t \in Nat : t = Turns(i)
  BY TurnsAdd
<1>6. b + r + t <= limit
  BY <1>1, <1>2, <1>4, <1>5 DEF DueBy
<1>7. e + q + t <= limit
  BY ONLY <1>3, <1>6, b \in Nat, e \in Nat, r \in Nat, q \in Nat, t \in Nat, limit \in Nat
<1> QED
  BY <1>1, <1>2, <1>5, <1>7

\* Reading one packet brings the others a turn nearer.
LEMMA DueRead ==
  ASSUME TypeOK, TypeOK', OnRead, NEW w, NEW limit \in Nat, DueBy(w, limit)
  PROVE  DueBy(w, limit)'
<1>1. PICK b \in Nat, L \in Nat : b = outAge /\ L = LongTurn
  BY Ages
<1>2. outAge' = b /\ ReadLeft = 0 /\ ReadLeft' = L
  BY <1>1, TurnBounds, TurnBoundsNext DEF OnRead
<1>3. ASSUME NEW i \in Nat, i + 1 \in WordAt(down', w)
      PROVE  outAge' + ReadLeft' + Turns(i) <= limit
  <2>1. (i + 1) + 1 \in WordAt(down, w) /\ i + 1 \in Nat
    BY <1>3, WordTail DEF OnRead, TypeOK
  <2>2. PICK t \in Nat : t = Turns(i) /\ Turns(i + 1) = t + L
    BY <1>1, TurnsAdd
  <2>3. b + 0 + (t + L) <= limit
    BY <1>1, <1>2, <2>1, <2>2 DEF DueBy
  <2>4. b + L + t <= limit
    BY ONLY <2>3, b \in Nat, L \in Nat, t \in Nat, limit \in Nat
  <2> QED
    BY <1>2, <2>2, <2>4
<1> QED
  BY <1>3, DueNext

LEMMA Limits ==
  AllTurns \in Nat /\ KeepaliveSeen \in Nat /\ UNCHANGED <<AllTurns, KeepaliveSeen>>
<1>1. AllTurns \in Nat
  <2>1. MaxBacklog + Len(Topics) \in Nat
    BY SessionAssumption DEF SessionAssumption
  <2> QED
    BY <2>1, TurnsAdd DEF AllTurns
<1>2. AllTurns' = AllTurns /\ KeepaliveSeen' = KeepaliveSeen
  BY DEF AllTurns, KeepaliveSeen, Turns, LongTurn, TurnEnd
<1> QED
  BY <1>1, <1>2, TimeConstants

\* What a queue of packets says about its last one.
LEMMA LastWord ==
  ASSUME TypeOK, down # <<>>
  PROVE  \E i \in Nat : Len(down) = i + 1 /\ \E w \in DownPacket : i + 1 \in WordAt(down, w)
<1>1. PICK d \in Seq(DownPacket) : d = down
  BY DEF TypeOK
<1>2. PICK n \in Nat : n = Len(d) /\ n # 0
  BY <1>1
<1>3. n - 1 \in Nat /\ n = (n - 1) + 1 /\ n \in 1 .. n
  BY <1>2
<1>4. DOMAIN d = 1 .. n
  BY <1>2
<1>5. d[n] \in DownPacket /\ n \in WordAt(d, d[n])
  BY <1>3, <1>4 DEF WordAt
<1> QED
  BY <1>1, <1>2, <1>3, <1>5

\* When a ping is sent there is time to read what is ahead of its answer: a
\* subscription that is answered has used up half of its time.
LEMMA PingRoom ==
  ASSUME TypeOK, Orderly, Served, Timely, OnPing, KeepsPace
  PROVE  Turns(Len(down)) < KeepAlive
<1>1. PICK K \in Nat \ {0}, L \in Nat : K = KeepAlive /\ L = LongTurn /\ L < K
  BY TimeConstants DEF KeepsPace
<1>2. CASE down = <<>>
  <2>1. Len(down) = 0
    BY <1>2
  <2>2. Turns(0) = 0 /\ 0 < K
    BY <1>1, TurnsAdd
  <2> QED
    BY <1>1, <2>1, <2>2
<1>3. CASE down # <<>>
  <2>1. PICK i \in Nat : Len(down) = i + 1 /\ \E w \in DownPacket : i + 1 \in WordAt(down, w)
    BY <1>3, LastWord
  <2>2. PICK w \in DownPacket : i + 1 \in WordAt(down, w)
    BY <2>1
  <2>3. w \notin {"CONNACK", "REFUSED"}
    BY <2>2 DEF Served, Orderly
  <2>4. w # "PINGRESP"
    BY <2>2 DEF Served, PingAlone, OnPing
  <2>5. CASE w = "COMMAND"
    <3>1. PICK m \in Nat : m = MaxBacklog
      BY BacklogTypes
    <3>2. PICK n \in Nat : n = i + 1
      OBVIOUS
    <3>3. n <= m
      BY <2>2, <2>5, <3>1, <3>2 DEF Orderly
    <3>4. Turns(n) <= Turns(m)
      BY <3>3, TurnsGrow
    <3>5. Turns(m) < K
      BY <1>1, <3>1 DEF KeepsPace, Turns
    <3>6. PICK x \in Nat, y \in Nat : x = Turns(n) /\ y = Turns(m)
      BY TurnsAdd
    <3>7. x <= y /\ y < K
      BY <3>4, <3>5, <3>6
    <3>8. x < K
      BY ONLY <3>7, x \in Nat, y \in Nat, K \in Nat \ {0}
    <3> QED
      BY <1>1, <2>1, <3>2, <3>6, <3>8
  <2>6. CASE w = "SUBACK"
    <3>1. PICK a \in Nat, b \in Nat : a = inAge /\ b = outAge
      BY <1>1 DEF TypeOK
    <3>2. ~(a > L)
      BY <1>1, <2>2, <2>6, <3>1 DEF Timely, OnPing
    <3>3. b >= K \/ a >= K
      BY <1>1, <3>1 DEF OnPing, Overdue
    <3>4. PICK t \in Nat : t = Turns(i) /\ Turns(i + 1) = t + L
      BY <1>1, TurnsAdd
    <3>5. PICK n \in Nat : n = AllTurns /\ n < 2 * K
      BY <1>1, Limits DEF KeepsPace, AllTurns, Turns
    <3>6. b + L + t <= n
      <4>1. ReadLeft = L
        BY <1>1, TurnBounds DEF OnPing
      <4> QED
        BY <2>2, <2>6, <3>1, <3>4, <3>5, <4>1 DEF Timely, DueBy
    <3>7. n < 2 * K /\ L < K
      BY <1>1, <3>5
    <3>8. t + L < K
      BY ONLY <3>2, <3>3, <3>6, <3>7, a \in Nat, b \in Nat, t \in Nat, n \in Nat, L \in Nat,
              K \in Nat \ {0}
    <3> QED
      BY <1>1, <2>1, <3>4, <3>8
  <2> QED
    BY <2>3, <2>4, <2>5, <2>6 DEF DownPacket
<1> QED
  BY <1>2, <1>3

LEMMA TimelyFresh ==
  ASSUME OnReconnect
  PROVE  Timely'
<1>1. KindAt(up', "PINGREQ") = {} /\ \A w : WordAt(down', w) = {}
  BY KindPlain, WordEmpty DEF OnReconnect
<1> QED
  BY <1>1 DEF Timely, DueBy

LEMMA TimelyInit ==
  ASSUME Init
  PROVE  Timely \/ ~sock
<1>1. sock => KindAt(up, "PINGREQ") = {} /\ \A w : WordAt(down, w) = {}
  BY KindPlain, WordEmpty DEF Init
<1> QED
  BY <1>1 DEF Timely, DueBy

\* The answers to the subscriptions leave room for a turn each.
LEMMA RoomForSuback ==
  ASSUME TypeOK, Served, ~pinged, KindAt(Stream, "SUBSCRIBE") # {}
  PROVE  Len(down) \in Nat /\ Len(down) + 1 <= MaxBacklog + Len(Topics)
<1>0. PICK s, d : s = Stream /\ d = down
  OBVIOUS
<1>1. PICK n \in Nat, m \in Nat :
        s = Stream /\ d = down /\ n = MaxBacklog + Len(Topics) /\ m = Len(d)
  BY <1>0, BacklogTypes
<1>2. PICK k \in 0 .. Len(Topics) : SubsDue(s, d, n, k)
  BY <1>1 DEF Served
<1>3. k \in Nat
  BY BacklogTypes
<1>4. WordAt(d, "PINGRESP") = {}
  BY <1>1 DEF Served, PingAlone
<1>5. m + k <= n + 0
  BY <1>1, <1>2, <1>4 DEF SubsDue
<1>6. k # 0
  <2>1. PICK p \in Nat : KindAt(s, "SUBSCRIBE") = p + 1 .. p + k
    BY <1>2 DEF SubsDue
  <2>2. p + 1 .. p + k # {}
    BY <1>1, <2>1
  <2>3. k = 0 => p + 1 .. p + k = {}
    OBVIOUS
  <2> QED
    BY <2>2, <2>3
<1>7. m + 1 <= n
  BY ONLY <1>3, <1>5, <1>6, k \in Nat, m \in Nat, n \in Nat
<1> QED
  BY <1>1, <1>7

\* Where the packets of the stream are.
LEMMA StreamKinds ==
  ASSUME TypeOK, NEW k
  PROVE  KindAt(Stream, k) = {} <=> KindAt(up, k) = {} /\ KindAt(out, k) = {}
BY KindJoin DEF Stream, TypeOK

LEMMA PingInStream ==
  TypeOK => (KindAt(Stream, "PINGREQ") = {} => KindAt(up, "PINGREQ") = {})
BY StreamKinds

\* An answer of the broker.
LEMMA TimelyHandled ==
  ASSUME TypeOK, TypeOK', Orderly, Young, Timely, OnHandle, ~slow', KeepsPace,
         state # "active" => Waiting, state = "active" => Served
  PROVE  Timely'
<1>1. PICK d \in Seq(DownPacket) : d = down
  BY DEF TypeOK
<1>2. PICK h : h = Head(up)
  OBVIOUS
<1>3. /\ up \in Seq(UpPacket) /\ up # <<>> /\ up' = Tail(up) /\ down' = d \o AnswersTo(h)
      /\ UNCHANGED <<pc, inAge, outAge, pinged>>
  BY <1>1, <1>2 DEF OnHandle, BrokerKeeps, TypeOK
<1>4. OnGood /\ ~OnRead /\ ~OnReadNothing
  BY DEF OnHandle, BrokerKeeps, OnGood, OnRead, OnReadNothing
<1>5. PICK m \in Nat : m = Len(d)
  OBVIOUS
<1>6. PICK b \in Nat, r \in Nat, L \in Nat :
        b = outAge' /\ b = outAge /\ r = ReadLeft' /\ L = LongTurn /\ r <= L
  <2>1. PICK b \in Nat, L \in Nat : b = outAge /\ L = LongTurn
    BY Ages
  <2>2. PICK r \in Nat : r = ReadLeft' /\ r <= L
    BY <2>1, TurnBoundsNext
  <2> QED
    BY <1>3, <2>1, <2>2
<1>12. r <= L
  BY <1>6
<1>7. DueBy("SUBACK", AllTurns)'
  <2>1. \A i \in Nat : i + 1 \in WordAt(d, "SUBACK") => outAge' + ReadLeft' + Turns(i) <= AllTurns
    BY <1>1, <1>4, DueKept, Limits DEF Timely
  <2>2. CASE h.kind # "SUBSCRIBE"
    <3>1. WordAt(down', "SUBACK") = WordAt(d, "SUBACK")
      BY <1>3, <2>2, WordAnswered
    <3> QED
      BY <2>1, <3>1, DueNext, Limits
  <2>3. CASE h.kind = "SUBSCRIBE"
    <3>1. WordAt(down', "SUBACK") = WordAt(d, "SUBACK") \cup {m + 1}
      BY <1>3, <1>5, <2>3, WordAnswered
    <3>2. KindAt(up, "SUBSCRIBE") # {}
      BY <1>2, <1>3, <2>3, KindTail
    <3>3. b = 0 /\ ~pinged /\ KindAt(Stream, "SUBSCRIBE") # {}
      BY <1>6, <3>2, StreamKinds DEF Young
    <3>4. Served
      BY <3>3 DEF Waiting, Quiet
    <3>5. m + 1 <= MaxBacklog + Len(Topics)
      BY <1>1, <1>5, <3>3, <3>4, RoomForSuback
    <3>6. PICK t \in Nat : t = Turns(m) /\ Turns(m + 1) = t + L
      BY <1>6, TurnsAdd
    <3>7. PICK a \in Nat : a = AllTurns
      BY Limits
    <3>8. t + L <= a
      <4>1. m + 1 \in Nat /\ MaxBacklog + Len(Topics) \in Nat
        BY BacklogTypes
      <4> QED
        BY <3>5, <3>6, <3>7, <4>1, TurnsGrow DEF AllTurns
    <3>11. b = 0
      BY <3>3
    <3>9. b + r + t <= a
      BY ONLY <1>12, <3>8, <3>11, b \in Nat, r \in Nat, L \in Nat, t \in Nat, a \in Nat
    <3>10. ASSUME NEW i \in Nat, i + 1 \in WordAt(down', "SUBACK")
           PROVE  outAge' + ReadLeft' + Turns(i) <= AllTurns
      <4>1. CASE i + 1 \in WordAt(d, "SUBACK")
        BY <2>1, <4>1
      <4>2. CASE i + 1 = m + 1
        <5>1. i = m
          BY ONLY <4>2, i \in Nat, m \in Nat
        <5> QED
          BY <1>6, <3>6, <3>7, <3>9, <5>1
      <4> QED
        BY <3>1, <3>10, <4>1, <4>2
    <3> QED
      BY <3>10, DueNext, Limits
  <2> QED
    BY <2>2, <2>3
<1>8. DueBy("PINGRESP", KeepaliveSeen)'
  <2>1. \A i \in Nat : i + 1 \in WordAt(d, "PINGRESP")
          => outAge' + ReadLeft' + Turns(i) <= KeepaliveSeen
    BY <1>1, <1>4, DueKept, Limits DEF Timely
  <2>2. CASE h.kind # "PINGREQ"
    <3>1. WordAt(down', "PINGRESP") = WordAt(d, "PINGRESP")
      BY <1>3, <2>2, WordAnswered
    <3> QED
      BY <2>1, <3>1, DueNext, Limits
  <2>3. CASE h.kind = "PINGREQ"
    <3>1. WordAt(down', "PINGRESP") = WordAt(d, "PINGRESP") \cup {m + 1}
      BY <1>3, <1>5, <2>3, WordAnswered
    <3>2. KindAt(up, "PINGREQ") # {}
      BY <1>2, <1>3, <2>3, KindTail
    <3>3. PICK K \in Nat \ {0}, z \in Nat : K = KeepAlive /\ z = KeepaliveSeen /\ z = K - 1 + L
      BY <1>6, TimeConstants
    <3>4. PICK t \in Nat : t = Turns(m) /\ t < K
      <4>1. Turns(m) < KeepAlive
        BY <1>1, <1>5, <3>2 DEF Timely
      <4> QED
        BY <3>3, <4>1, TurnsAdd
    <3>5. b = 0 /\ t < K
      BY <1>6, <3>2, <3>4 DEF Timely
    <3>8. z = K - 1 + L
      BY <3>3
    <3>6. b + r + t <= z
      BY ONLY <1>12, <3>5, <3>8, b \in Nat, r \in Nat, L \in Nat, t \in Nat, z \in Nat,
              K \in Nat \ {0}
    <3>7. ASSUME NEW i \in Nat, i + 1 \in WordAt(down', "PINGRESP")
          PROVE  outAge' + ReadLeft' + Turns(i) <= KeepaliveSeen
      <4>1. CASE i + 1 \in WordAt(d, "PINGRESP")
        BY <2>1, <4>1
      <4>2. CASE i + 1 = m + 1
        <5>1. i = m
          BY ONLY <4>2, i \in Nat, m \in Nat
        <5> QED
          BY <1>6, <3>3, <3>4, <3>6, <5>1
      <4> QED
        BY <3>1, <3>7, <4>1, <4>2
    <3> QED
      BY <3>7, DueNext, Limits
  <2> QED
    BY <2>2, <2>3
<1>9. KindAt(up', "PINGREQ") # {} => outAge' = 0 /\ Turns(Len(down')) < KeepAlive
  <2>1. SUFFICES ASSUME KindAt(up', "PINGREQ") # {}
                 PROVE  outAge' = 0 /\ Turns(Len(down')) < KeepAlive
    OBVIOUS
  <2>2. KindAt(up, "PINGREQ") # {}
    BY <1>3, <2>1, KindTaken
  <2>3. KindAt(Stream, "PINGREQ") # {}
    BY <2>2, StreamKinds
  <2>4. Served /\ pinged
    BY <2>3 DEF Waiting, Quiet, Served, PingAlone
  <2>5. h.kind # "SUBSCRIBE"
    BY <1>2, <1>3, <2>4, KindTail DEF Young
  <2>6. h.kind # "PINGREQ"
    <3>1. SUFFICES ASSUME h.kind = "PINGREQ" PROVE FALSE
      OBVIOUS
    <3>2. PICK s \in Seq(UpPacket) : s = Stream /\ s # <<>> /\ Tail(s) = Stream' /\ h = Head(s)
      <4>1. UNCHANGED out
        BY DEF OnHandle, BrokerKeeps
      <4> QED
        BY <1>2, <1>3, <4>1, BacklogTypes, StreamTaken
    <3>3. 1 \in KindAt(s, "PINGREQ")
      BY <3>1, <3>2, KindTail
    <3>4. KindAt(Stream', "PINGREQ") # {}
      <4>1. (KindAt(Stream, "PINGREQ") = {} => KindAt(up, "PINGREQ") = {})'
        <5>1. (TypeOK => (KindAt(Stream, "PINGREQ") = {} => KindAt(up, "PINGREQ") = {}))'
          BY PingInStream, PTL
        <5> QED
          BY <5>1
      <4> QED
        BY <2>1, <4>1
    <3>8. PICK z : z = Tail(s) /\ KindAt(z, "PINGREQ") # {}
      BY <3>2, <3>4
    <3>9. \A j : j \in KindAt(z, "PINGREQ") => j \in Nat \ {0} /\ j + 1 \in KindAt(s, "PINGREQ")
      BY ONLY <3>2, <3>8, s \in Seq(UpPacket), KindTail
    <3>5. PICK i \in Nat \ {0} : i + 1 \in KindAt(s, "PINGREQ")
      BY ONLY <3>8, <3>9
    <3>6. One(KindAt(s, "PINGREQ"))
      BY <2>4, <3>2 DEF Served, PingAlone
    <3>7. i + 1 = 1
      BY <3>3, <3>5, <3>6 DEF One
    <3> QED
      BY ONLY <3>7, i \in Nat \ {0}
  <2>7. down' = down
    BY <1>1, <1>3, <2>5, <2>6, WordAnswered
  <2> QED
    BY <1>3, <2>2, <2>7 DEF Timely
<1>10. pc' \in {"write", "misc"} /\ inAge' > LongTurn => WordAt(down', "SUBACK") = {}
  <2>1. CASE h.kind = "SUBSCRIBE"
    <3>1. KindAt(up, "SUBSCRIBE") # {}
      BY <1>2, <1>3, <2>1, KindTail
    <3>2. inAge' <= LongTurn
      BY <1>3, <3>1 DEF Young
    <3>3. ~(inAge' > LongTurn)
      BY <3>2, Ages
    <3> QED
      BY <3>3
  <2>2. CASE h.kind # "SUBSCRIBE"
    <3>1. WordAt(down', "SUBACK") = WordAt(d, "SUBACK")
      BY <1>3, <2>2, WordAnswered
    <3> QED
      BY <1>1, <1>3, <3>1 DEF Timely
  <2> QED
    BY <2>1, <2>2
<1>11. Turns(Len(down))' = Turns(Len(down')) /\ LongTurn' = LongTurn
  BY DEF Turns, LongTurn, TurnEnd
<1> QED
  BY <1>7, <1>8, <1>9, <1>10, <1>11, Limits DEF Timely

LEMMA TimelyGood ==
  ASSUME TypeOK, TypeOK', Orderly, Young, Timely, OnGood, ~slow', KeepsPace,
         state # "active" => Waiting, state = "active" => Served
  PROVE  Timely'
<1>0. /\ up \in Seq(UpPacket) /\ out \in Seq(UpPacket) /\ down \in Seq(DownPacket)
      /\ Turns(Len(down))' = Turns(Len(down')) /\ LongTurn' = LongTurn
  BY DEF TypeOK, Turns, LongTurn, TurnEnd
<1>1. CASE OnHandle
  BY <1>1, TimelyHandled
<1>2. CASE OnRead
  <2>1. DueBy("SUBACK", AllTurns)' /\ DueBy("PINGRESP", KeepaliveSeen)'
    BY <1>2, DueRead, Limits DEF Timely
  <2>2. KindAt(up', "PINGREQ") = {}
    BY <1>2 DEF OnRead, Orderly
  <2>3. ~(inAge' > LongTurn)
    BY <1>2, Ages DEF OnRead
  <2> QED
    BY <1>0, <2>1, <2>2, <2>3, Limits DEF Timely
<1>3. CASE OnReadNothing
  <2>1. \A w : WordAt(down', w) = {}
    BY <1>3, WordEmpty DEF OnReadNothing
  <2>2. KindAt(up', "PINGREQ") = {}
    BY <1>3 DEF OnReadNothing, Orderly
  <2> QED
    BY <2>1, <2>2 DEF Timely, DueBy
<1>4. ASSUME ~OnRead, ~OnReadNothing,
             WordAt(down', "SUBACK") \subseteq WordAt(down, "SUBACK"),
             WordAt(down', "PINGRESP") \subseteq WordAt(down, "PINGRESP"),
             KindAt(up', "PINGREQ") # {} => outAge' = 0 /\ Turns(Len(down')) < KeepAlive,
             pc' \in {"write", "misc"} => pc \in {"write", "misc"} /\ inAge' = inAge
      PROVE  Timely'
  <2>1. DueBy("SUBACK", AllTurns)'
    <3>1. \A i \in Nat : i + 1 \in WordAt(down, "SUBACK") => outAge' + ReadLeft' + Turns(i) <= AllTurns
      BY <1>4, DueKept, Limits DEF Timely
    <3> QED
      BY <1>4, <3>1, DueNext, Limits
  <2>2. DueBy("PINGRESP", KeepaliveSeen)'
    <3>1. \A i \in Nat : i + 1 \in WordAt(down, "PINGRESP")
            => outAge' + ReadLeft' + Turns(i) <= KeepaliveSeen
      BY <1>4, DueKept, Limits DEF Timely
    <3> QED
      BY <1>4, <3>1, DueNext, Limits
  <2>3. pc' \in {"write", "misc"} /\ inAge' > LongTurn => WordAt(down', "SUBACK") = {}
    BY <1>4 DEF Timely
  <2> QED
    BY <1>0, <1>4, <2>1, <2>2, <2>3, Limits DEF Timely
<1>5. CASE OnNothing
  <2>1. UNCHANGED <<up, down, pc, inAge, outAge>> /\ ~OnRead /\ ~OnReadNothing
    BY <1>5 DEF OnNothing, BrokerKeeps, OnRead, OnReadNothing
  <2> QED
    BY <1>4, <2>1 DEF Timely
<1>6. CASE OnMisc
  <2>1. UNCHANGED <<up, down>> /\ pc' = "turn" /\ pc = "misc"
    BY <1>6 DEF OnMisc
  <2>2. KindAt(up', "PINGREQ") = {}
    BY <2>1 DEF Orderly
  <2> QED
    BY <1>4, <2>1, <2>2 DEF OnRead, OnReadNothing
<1>7. CASE OnWrite
  <2>1. UNCHANGED <<down, inAge>> /\ pc' = "misc" /\ pc = "write"
    BY <1>7 DEF OnWrite
  <2>2. KindAt(up', "PINGREQ") = {}
    BY <1>0, <1>7, KindJoin DEF OnWrite, Orderly
  <2> QED
    BY <1>4, <2>1, <2>2 DEF OnRead, OnReadNothing
<1>8. CASE OnPing
  <2>1. down' = down /\ outAge' = 0 /\ pc' = "turn" /\ pc = "misc" /\ state = "active"
    BY <1>8 DEF OnPing
  <2>2. Turns(Len(down)) < KeepAlive
    BY <1>8, <2>1, PingRoom
  <2> QED
    BY <1>4, <2>1, <2>2 DEF OnRead, OnReadNothing
<1>9. CASE OnPublish
  <2>1. /\ down' = down /\ outAge' = 0 /\ pc' \in {"block", "sleep"} /\ pc \in {"turn", "answer"}
        /\ KindAt(up', "PINGREQ") # {} => KindAt(up, "PINGREQ") # {}
    BY <1>9, KindMore DEF OnPublish, Orderly
  <2> QED
    BY <1>4, <2>1 DEF OnRead, OnReadNothing, Timely
<1>10. CASE OnPass
  <2>1. down' = down /\ up' = <<>> /\ pc' \in {"answer", "loop"} /\ pc # "loop"
    BY <1>10 DEF OnPass
  <2> QED
    BY <1>4, <2>1, KindPlain DEF OnRead, OnReadNothing
<1>11. CASE OnAccept
  <2>1. /\ down' = <<"CONNACK">> /\ UNCHANGED <<pc, inAge, outAge>> /\ up # <<>> /\ up' = Tail(up)
        /\ state # "active" /\ ~OnRead /\ ~OnReadNothing
    BY <1>11 DEF OnAccept, BrokerKeeps, OnRead, OnReadNothing
  <2>2. WordAt(down', "SUBACK") = {} /\ WordAt(down', "PINGRESP") = {}
    <3>1. ASSUME NEW a, NEW w, a # w PROVE WordAt(<<a>>, w) = {}
      BY <3>1 DEF WordAt
    <3> QED
      BY <2>1, <3>1
  <2>3. KindAt(up', "PINGREQ") = {}
    <3>1. KindAt(up, "PINGREQ") = {}
      BY <2>1, StreamKinds DEF Waiting, Quiet
    <3> QED
      BY <1>0, <2>1, <3>1, KindTaken
  <2> QED
    BY <1>4, <2>1, <2>2, <2>3
<1>12. CASE OnCommand
  <2>1. /\ UNCHANGED <<up, pc, inAge, outAge>> /\ down' = Append(down, "COMMAND")
        /\ Len(down) < MaxBacklog /\ ~OnRead /\ ~OnReadNothing
    BY <1>12 DEF OnCommand, BrokerKeeps, OnRead, OnReadNothing
  <2>2. "COMMAND" \in DownPacket
    BY DEF DownPacket
  <2>3. /\ \A w : w # "COMMAND" => WordAt(down', w) = WordAt(down, w)
        /\ Len(down') = Len(down) + 1
    BY <1>0, <2>1, <2>2, WordAppend
  <2>4. PICK n \in Nat, m \in Nat : n = Len(down') /\ m = MaxBacklog /\ n <= m
    <3>1. PICK n \in Nat, m \in Nat : n = Len(down) /\ m = MaxBacklog /\ n < m
      BY <2>1, BacklogTypes
    <3>2. n + 1 \in Nat /\ n + 1 <= m
      BY <3>1
    <3> QED
      BY <2>3, <3>1, <3>2
  <2>5. PICK K \in Nat, x \in Nat, y \in Nat :
          K = KeepAlive /\ x = Turns(n) /\ y = Turns(m) /\ y < K
    <3>1. Turns(m) < KeepAlive
      BY <2>4 DEF KeepsPace, Turns
    <3> QED
      BY <3>1, TurnsAdd, TimeConstants
  <2>6. x <= y /\ y < K
    BY <2>4, <2>5, TurnsGrow
  <2>7. x < K
    BY ONLY <2>6, K \in Nat, x \in Nat, y \in Nat
  <2> QED
    BY <1>4, <2>1, <2>3, <2>4, <2>5, <2>7 DEF Timely
<1> QED
  BY <1>1, <1>2, <1>3, <1>5, <1>6, <1>7, <1>8, <1>9, <1>10, <1>11, <1>12 DEF OnGood

-----------------------------------------------------------------------------
(* A healthy connection is kept.                                           *)

InTime == Good => Young /\ Timely /\ Content

LEMMA InTimeInit == Init => InTime
BY YoungInit, TimelyInit, ContentInit DEF InTime, Good

LEMMA InTimeStep ==
  ASSUME KeepsPace
  PROVE  TypeOK /\ TypeOK' /\ Backlog /\ Order /\ InTime /\ [Next]_vars => InTime'
<1> SUFFICES ASSUME TypeOK, TypeOK', Backlog, Order, InTime, [Next]_vars, ~Ended, ~slow'
             PROVE  Young' /\ Timely' /\ Content'
  BY DEF InTime, Good, Ended
<1>1. CASE OnReconnect
  BY <1>1, YoungFresh, TimelyFresh, ContentFresh
<1>2. CASE sock /\ link = "up" /\ OnGood
  <2>1. ~slow
    BY <1>2 DEF OnGood, OnRead, OnReadNothing, OnWrite, OnMisc, OnPing, OnPublish, OnPass, OnAccept,
                OnHandle, OnCommand, OnNothing, BrokerKeeps
  <2>2. Orderly /\ Young /\ Timely /\ Content
    BY <1>2, <2>1 DEF Order, InTime, Good
  <2>3. (state # "active" => Waiting) /\ (state = "active" => Served)
    BY <1>2 DEF Backlog
  <2> QED
    BY <1>2, <2>2, <2>3, YoungGood, TimelyGood, ContentGood
<1> QED
  BY <1>1, <1>2, GoodSteps

\* The client does not take the broker for dead.
LEMMA NotLost ==
  ASSUME TypeOK, Orderly, Young, Timely, KeepsPace, pc = "misc", Overdue
  PROVE  state = "active" /\ ~pinged
<1>1. PICK K \in Nat \ {0}, L \in Nat, a \in Nat, b \in Nat :
        /\ K = KeepAlive /\ L = LongTurn /\ a = inAge /\ b = outAge /\ KeepaliveSeen = K - 1 + L
  BY TimeConstants DEF TypeOK
<1>2. b >= K \/ a >= K
  BY <1>1 DEF Overdue
<1>3. state = "active"
  <2>1. SUFFICES ASSUME state # "active" PROVE FALSE
    OBVIOUS
  <2>2. a = 0 /\ b = 0
    BY <1>1, <2>1 DEF Young
  <2> QED
    BY ONLY <1>2, <2>2, K \in Nat \ {0}
<1>4. ~pinged
  <2>1. SUFFICES ASSUME pinged PROVE FALSE
    OBVIOUS
  <2>2. a = 0 /\ KindAt(up, "PINGREQ") = {} /\ WordAt(down, "PINGRESP") # {}
    BY <1>1, <2>1 DEF Orderly
  <2>3. PICK i \in Nat : i + 1 \in WordAt(down, "PINGRESP")
    <3>1. PICK j \in WordAt(down, "PINGRESP") : TRUE
      BY <2>2
    <3>2. j \in Nat \ {0}
      <4>1. down \in Seq(DownPacket)
        BY DEF TypeOK
      <4> QED
        BY <4>1, Indices
    <3>3. j - 1 \in Nat /\ (j - 1) + 1 = j
      BY <3>2
    <3> QED
      BY <3>1, <3>3
  <2>4. PICK t \in Nat : t = Turns(i)
    BY TurnsAdd
  <2>5. b + L + t <= K - 1 + L
    <3>1. ReadLeft = L
      BY <1>1, TurnBounds
    <3> QED
      BY <1>1, <2>3, <2>4, <3>1 DEF Timely, DueBy
  <2>6. a = 0
    BY <2>2
  <2> QED
    BY ONLY <1>2, <2>5, <2>6, a \in Nat, b \in Nat, t \in Nat, L \in Nat, K \in Nat \ {0}
<1> QED
  BY <1>3, <1>4

\* Nor does it close the connection for anything it reads.
LEMMA ReadKeeps ==
  ASSUME TypeOK, Backlog, Orderly, LoopRead, link = "up"
  PROVE  sock'
<1>1. sock /\ down # <<>> /\ down \in Seq(DownPacket)
  BY DEF LoopRead, TypeOK
<1>2. CASE state # "active"
  <2>1. down = <<"CONNACK">>
    BY <1>1, <1>2 DEF Backlog, Waiting
  <2>2. Head(down) = "CONNACK"
    BY <2>1
  <2> QED
    BY <1>1, <2>2 DEF LoopRead, HandleConnack
<1>3. CASE state = "active"
  <2>1. Head(down) \notin {"CONNACK", "REFUSED"}
    <3>1. WordAt(down, "CONNACK") = {} /\ WordAt(down, "REFUSED") = {}
      BY <1>1, <1>3 DEF Backlog, Served, Orderly
    <3> QED
      BY <1>1, <3>1, WordTail
  <2> QED
    BY <1>1, <1>3, <2>1 DEF LoopRead, HandleOther
<1> QED
  BY <1>2, <1>3

\* Nor does the broker.
LEMMA BrokerKeepsLink ==
  ASSUME TypeOK, ConnectFirst, Content, KeepsPace, sock, link = "up",
         BrokerHandles \/ BrokerDrops, Orderly
  PROVE  link' = "up"
<1>1. CASE BrokerHandles
  <2>1. PICK s \in Seq(UpPacket) : s = Stream /\ s # <<>> /\ Head(s) = Head(up)
    <3>1. up # <<>> /\ up \in Seq(UpPacket) /\ out \in Seq(UpPacket)
      BY <1>1 DEF BrokerHandles, TypeOK
    <3>2. up \o out \in Seq(UpPacket) /\ up \o out # <<>> /\ Head(up \o out) = Head(up)
      BY <3>1
    <3> QED
      BY <3>2 DEF Stream
  <2>2. 1 \in DOMAIN s /\ Head(s) = s[1]
    BY <2>1
  <2>3. Head(up) = Plain("CONNECT") <=> broker.state = "new"
    BY <2>1, <2>2 DEF ConnectFirst
  <2>4. broker.state # "new" /\ Head(up) # Plain("CONNECT")
    BY <1>1, <2>3 DEF BrokerHandles
  <2> QED
    BY <1>1, <2>4 DEF BrokerHandles, Receives
<1>2. CASE BrokerDrops
  <2>1. PICK x \in Nat, z \in Nat, g \in Nat :
          x = broker.idle /\ z = KeepaliveSeen /\ g = Grace /\ x <= z /\ z <= g
    BY TimeConstants, GraceInNat DEF TypeOK, Content, KeepsPace
  <2>2. x > g
    BY <1>2, <2>1 DEF BrokerDrops
  <2>3. x <= z /\ z <= g
    BY <2>1
  <2> QED
    BY ONLY <2>2, <2>3, x \in Nat, z \in Nat, g \in Nat
<1> QED
  BY <1>1, <1>2

LEMMA StepKeeps ==
  ASSUME KeepsPace, TypeOK, ConnectFirst, Backlog, Order, InTime, [Next]_vars,
         Good, faults' = faults
  PROVE  sock' /\ link' = "up"
<1>0. /\ sock /\ link = "up" /\ Orderly /\ Young /\ Timely /\ Content
      /\ faults \in Nat /\ faults + 1 # faults
  <2>1. faults \in Nat
    BY DEF TypeOK
  <2>2. faults + 1 # faults
    BY <2>1
  <2> QED
    BY <2>1, <2>2 DEF Order, InTime, Good
<1>1. CASE UNCHANGED vars
  BY <1>0, <1>1 DEF vars, client, network
<1>2. CASE LoopNoConn \/ LoopReadEnd
  BY <1>0, <1>2 DEF LoopNoConn, LoopReadEnd
<1>3. CASE LoopReadNothing \/ LoopMisc
  BY <1>0, <1>3 DEF LoopReadNothing, LoopMisc, client, network
<1>4. CASE LoopRead
  BY <1>0, <1>4, ReadKeeps DEF LoopRead
<1>5. CASE LoopWrite
  BY <1>0, <1>5 DEF LoopWrite, Refused
<1>6. CASE LoopPing \/ PublishTopic
  BY <1>0, <1>6 DEF LoopPing, PublishTopic
<1>7. CASE LoopKeepaliveLost
  BY <1>0, <1>7, NotLost DEF LoopKeepaliveLost
<1>8. CASE (\E d \in BlockTimes : Block(d)) \/ Sleep
  BY <1>0, <1>8 DEF Block, Sleep, Passes, network
<1>9. CASE \E d \in BlockTimes : Reconnect(d)
  BY <1>9 DEF Reconnect, Connected
<1>10. CASE ReconnectFails \/ BrokerRefuses \/ BrokerCloses \/ LinkCut
  BY <1>0, <1>10 DEF ReconnectFails, BrokerRefuses, BrokerCloses, LinkCut
<1>11. CASE BrokerAccepts \/ BrokerPublishes
  BY <1>0, <1>11 DEF BrokerAccepts, BrokerPublishes, Receives, Untouched, client
<1>12. CASE BrokerHandles \/ BrokerDrops
  <2>1. sock' = sock
    BY <1>12 DEF BrokerHandles, BrokerDrops, Untouched, client
  <2> QED
    BY <1>0, <1>12, <2>1, BrokerKeepsLink
<1> QED
  BY <1>1, <1>2, <1>3, <1>4, <1>5, <1>6, <1>7, <1>8, <1>9, <1>10, <1>11, <1>12
  DEF Next, MainLoop, Broker

\* On a good link only a fault or a slow turn ends the session
\* (mosquitto__check_keepalive and mosquitto_loop of the library, Reconnect of
\* MQTTManager), as long as the keepalive leaves room for what is read a packet a
\* turn.
THEOREM KeptWhenHealthy ==
  ASSUME KeepsPace
  PROVE  Spec => HealthyKept
<1>1. Init => Backlog /\ Order /\ InTime
  BY BacklogInit, OrderInit, InTimeInit
<1>2. TypeOK /\ TypeOK' /\ Backlog /\ Order /\ InTime /\ [Next]_vars => Backlog' /\ Order' /\ InTime'
  BY BacklogStep, OrderStep, InTimeStep
<1>3. TypeOK /\ ConnectFirst /\ Backlog /\ Order /\ InTime /\ [Next]_vars
        => [(sock /\ link = "up" /\ ~slow /\ faults' = faults) => (sock' /\ link' = "up")]_vars
  BY StepKeeps DEF Good
<1> QED
  BY <1>1, <1>2, <1>3, TypeCorrect, OneConnect, PTL DEF Spec, HealthyKept

=============================================================================
