---------------------------- MODULE RadarProofs ----------------------------
(***************************************************************************)
(* Proofs about RadarSystem, for any sets of topics, beams, tracks and     *)
(* components, any periods and any number of cycles.                       *)
(***************************************************************************)
EXTENDS RadarSystem, ChannelProofs, FunctionTheorems

-----------------------------------------------------------------------------
(* Who publishes and who reads what.                                       *)

\* The topics that a main thread and a callback publish on.
PublishedBy ==
  [sensor      |-> {"RawIQSample", "ComponentStatus", "RadarTrack", "SystemAlarm"},
   workstation |-> {"Command", "OperatorAuditLog", "ComponentStatusRequest",
                    "TrackingCue", "OperatorChat"}]
RepliedBy ==
  [sensor |-> {"CommandStatus", "ComponentStatus"}, workstation |-> {}]

AllKeys == Nat \union ToSet(Beams) \union ToSet(Tracks) \union ToSet(Components)
             \union {"ws_operator_1"}
PubsOn(ts) == [topic : ts, key : AllKeys]

\* A command's key is its number; other keys may be anything.
SamplesOn(t) ==
  IF t = "Command" THEN {s \in [id : Nat, key : Nat] : s.key = s.id}
                   ELSE [id : Nat, key : AllKeys]

LEMMA ReaderIsOne ==
  ASSUME NEW p \in Process, NEW t \in ToSet(Subscriptions[p])
  PROVE  ReaderOf(t) = p
<1>1. /\ Subscriptions["sensor"] = <<"Command", "ComponentStatusRequest", "TrackingCue",
                                     "OperatorAuditLog">>
      /\ Subscriptions["workstation"] = <<"ComponentStatus", "RadarTrack",
                                          "CommandStatus", "SystemAlarm", "RawIQSample",
                                          "OperatorChat">>
  BY DEF Subscriptions
<1>2. /\ ToSet(Subscriptions["sensor"]) = {"Command", "ComponentStatusRequest",
                                           "TrackingCue", "OperatorAuditLog"}
      /\ ToSet(Subscriptions["workstation"]) = {"ComponentStatus", "RadarTrack",
                                                "CommandStatus", "SystemAlarm",
                                                "RawIQSample", "OperatorChat"}
  BY <1>1 DEF ToSet
<1>3. \A x \in Process : t \in ToSet(Subscriptions[x]) <=> x = p
  BY <1>2 DEF Process
<1>4. QED BY <1>3 DEF ReaderOf

LEMMA ReadersAre ==
  /\ ReaderOf("Command") = "sensor" /\ ReaderOf("OperatorAuditLog") = "sensor"
  /\ ReaderOf("ComponentStatusRequest") = "sensor"
  /\ ReaderOf("CommandStatus") = "workstation"
<1>1. /\ Subscriptions["sensor"][1] = "Command"
      /\ Subscriptions["sensor"][2] = "ComponentStatusRequest"
      /\ Subscriptions["sensor"][4] = "OperatorAuditLog"
      /\ Subscriptions["workstation"][3] = "CommandStatus"
      /\ {1, 2, 4} \subseteq DOMAIN Subscriptions["sensor"]
      /\ 3 \in DOMAIN Subscriptions["workstation"]
  BY DEF Subscriptions
<1>2. /\ {"Command", "ComponentStatusRequest", "OperatorAuditLog"}
           \subseteq ToSet(Subscriptions["sensor"])
      /\ "CommandStatus" \in ToSet(Subscriptions["workstation"])
  BY <1>1 DEF ToSet
<1>3. QED BY <1>2, ReaderIsOne DEF Process

\* Nobody subscribes twice.
LEMMA SubscribedOnce ==
  ASSUME NEW p \in Process, NEW i \in DOMAIN Subscriptions[p]
  PROVE  /\ i \in Nat \ {0} /\ ReaderOf(Subscriptions[p][i]) = p
         /\ \A x \in Process : \A j \in DOMAIN Subscriptions[x] :
              Subscriptions[x][j] = Subscriptions[p][i] => x = p /\ j = i
<1>1. /\ Subscriptions["sensor"] = <<"Command", "ComponentStatusRequest", "TrackingCue",
                                     "OperatorAuditLog">>
      /\ Subscriptions["workstation"] = <<"ComponentStatus", "RadarTrack",
                                          "CommandStatus", "SystemAlarm", "RawIQSample",
                                          "OperatorChat">>
  BY DEF Subscriptions
<1>2. Subscriptions[p][i] \in ToSet(Subscriptions[p])
  BY DEF ToSet
<1>3. \A j \in DOMAIN Subscriptions[p] : Subscriptions[p][j] = Subscriptions[p][i] => j = i
  BY <1>1 DEF Process
<1>4. ASSUME NEW x \in Process, NEW j \in DOMAIN Subscriptions[x],
             Subscriptions[x][j] = Subscriptions[p][i]
      PROVE  x = p
  BY <1>2, <1>4, ReaderIsOne DEF ToSet
<1>5. i \in Nat \ {0}
  BY <1>1 DEF Process
<1>6. QED BY <1>2, <1>3, <1>4, <1>5, ReaderIsOne

-----------------------------------------------------------------------------
(* The profiles.                                                           *)

Offered(t)   == ApplyQos(ProfileOf(t), WriterDefaults)
Requested(t) == ApplyQos(ProfileOf(t), ReaderDefaults)

LEMMA ProfilesOf ==
  /\ \A t \in Topics : ProfileOf(t) \in QosProfile
  /\ \A t \in {"RadarTrack", "RawIQSample", "OperatorAuditLog"} : ~ProfileOf(t).durable
  /\ ProfileOf("OperatorAuditLog").reliable /\ ProfileOf("OperatorAuditLog").keepAll
  /\ \A t \in Topics : /\ ProfileOf(t).reliable = Builtin[Binding[t]].reliable
                        /\ ProfileOf(t).durable = Builtin[Binding[t]].durable
<1> DEFINE Capped(q) == [q EXCEPT !.depth = IF @ > MaxDepth THEN MaxDepth ELSE @]
<1>1. ASSUME NEW q \in QosProfile
      PROVE  /\ Capped(q) \in QosProfile /\ Capped(q).durable = q.durable
             /\ Capped(q).reliable = q.reliable /\ Capped(q).keepAll = q.keepAll
  BY MaxDepthAssumption DEF QosProfile
<1>2. \A t : ProfileOf(t) = Capped(Builtin[Binding[t]])
  BY DEF ProfileOf
<1> HIDE DEF Capped
<1>3. /\ Builtin["reliable"] = Profile(TRUE, FALSE, FALSE, 10)
      /\ Builtin["reliable_transient"] = Profile(TRUE, TRUE, FALSE, 10)
      /\ Builtin["streaming"] = Profile(FALSE, FALSE, FALSE, 1)
      /\ Builtin["best_effort"] = Profile(FALSE, FALSE, FALSE, 1)
      /\ Builtin["latched"] = Profile(TRUE, TRUE, FALSE, 1)
      /\ Builtin["event_bus"] = Profile(TRUE, FALSE, TRUE, 0)
  BY DEF Builtin
<1>4. /\ \A n \in {"reliable", "reliable_transient", "streaming", "best_effort",
                   "latched", "event_bus"} : Builtin[n] \in QosProfile
      /\ ~Builtin["streaming"].durable /\ ~Builtin["event_bus"].durable
      /\ Builtin["event_bus"].reliable /\ Builtin["event_bus"].keepAll
  <2>1. /\ Builtin["reliable"] \in QosProfile
        /\ Builtin["reliable_transient"] \in QosProfile
        /\ Builtin["best_effort"] \in QosProfile /\ Builtin["latched"] \in QosProfile
    BY <1>3 DEF Profile, QosProfile
  <2>2. Builtin["streaming"] \in QosProfile /\ Builtin["streaming"].durable = FALSE
    BY <1>3 DEF Profile, QosProfile
  <2>3. /\ Builtin["event_bus"] \in QosProfile /\ Builtin["event_bus"].durable = FALSE
        /\ Builtin["event_bus"].reliable = TRUE /\ Builtin["event_bus"].keepAll = TRUE
    BY <1>3 DEF Profile, QosProfile
  <2>4. QED BY <2>1, <2>2, <2>3
<1>5. \A t \in Topics : Binding[t] \in {"reliable", "reliable_transient", "streaming",
                                         "best_effort", "latched", "event_bus"}
  BY DEF Binding, Topics
<1>6. /\ Binding["RadarTrack"] = "streaming" /\ Binding["RawIQSample"] = "streaming"
      /\ Binding["OperatorAuditLog"] = "event_bus"
  BY DEF Binding
<1>7. QED BY <1>1, <1>2, <1>4, <1>5, <1>6

LEMMA OfferedRequested ==
  ASSUME NEW t \in Topics
  PROVE  /\ Offered(t) \in QosProfile /\ Requested(t) \in QosProfile
         /\ t \in {"RadarTrack", "RawIQSample", "OperatorAuditLog"} => ~Offered(t).durable
         /\ t = "OperatorAuditLog" =>
              /\ Offered(t).reliable /\ Offered(t).keepAll
              /\ Requested(t).reliable /\ Requested(t).keepAll
         /\ \A q \in {Offered(t), Requested(t)} :
              /\ q.reliable = Builtin[Binding[t]].reliable
              /\ q.durable = Builtin[Binding[t]].durable
BY ProfilesOf, DefaultsAreProfiles, AppliedQos DEF Offered, Requested

-----------------------------------------------------------------------------
(* What is published.                                                      *)

LEMMA SeqOfMore ==
  ASSUME NEW S, NEW T, S \subseteq T, NEW q \in Seq(S)
  PROVE  q \in Seq(T)
OBVIOUS

LEMMA WhenType ==
  ASSUME NEW ts, NEW condition, NEW topic \in ts, NEW keys \in Seq(AllKeys)
  PROVE  When(condition, topic, keys) \in Seq(PubsOn(ts))
<1>1. /\ Len(keys) \in Nat /\ DOMAIN keys = 1 .. Len(keys)
      /\ \A i \in DOMAIN keys : keys[i] \in AllKeys
  BY LenProperties
<1>2. \A k \in AllKeys : Pub(topic, k) \in PubsOn(ts)
  BY DEF Pub, PubsOn
<1>3. [i \in DOMAIN keys |-> Pub(topic, keys[i])] \in Seq(PubsOn(ts))
  BY <1>1, <1>2
<1>4. <<>> \in Seq(PubsOn(ts))
  OBVIOUS
<1>5. QED BY <1>3, <1>4 DEF When

LEMMA KeysAre ==
  /\ Beams \in Seq(AllKeys) /\ Tracks \in Seq(AllKeys) /\ Components \in Seq(AllKeys)
  /\ \A n \in Nat : <<n>> \in Seq(AllKeys)
  /\ <<"ws_operator_1">> \in Seq(AllKeys)
<1>1. /\ ToSet(Beams) \subseteq AllKeys /\ ToSet(Tracks) \subseteq AllKeys
      /\ ToSet(Components) \subseteq AllKeys
  BY DEF AllKeys
<1>2. /\ Beams \in Seq(AllKeys) /\ Tracks \in Seq(AllKeys) /\ Components \in Seq(AllKeys)
  BY <1>1, SeqOfMore, KeysAssumption
<1>3. Nat \subseteq AllKeys /\ "ws_operator_1" \in AllKeys
  BY DEF AllKeys
<1>4. QED BY <1>2, <1>3

\* A cycle of the workstation is a command, when there are commands, and what
\* it publishes on other topics.
OtherThanCommand == PublishedBy["workstation"] \ {"Command"}

LEMMA WorkstationCycleType ==
  ASSUME NEW tick \in Nat
  PROVE  /\ WorkstationCycle(tick) \in Seq(PubsOn(PublishedBy["workstation"]))
         /\ "Command" \in view =>
              /\ WorkstationCycle(tick) # <<>>
              /\ Head(WorkstationCycle(tick)) = Pub("Command", tick + 1)
              /\ Tail(WorkstationCycle(tick)) \in Seq(PubsOn(OtherThanCommand))
<1> DEFINE O == OtherThanCommand
           a == EachOf("OperatorAuditLog", <<"ws_operator_1">>)
           b == When(tick % 3 = 2, "ComponentStatusRequest", <<(tick \div 3) + 1>>)
           c == When(tick % 2 = 0, "TrackingCue", <<"ws_operator_1">>)
           d == When(tick % 3 = 0, "OperatorChat", <<"ws_operator_1">>)
           rest == a \o b \o c \o d
           first == EachOf("Command", <<tick + 1>>)
<1>1. /\ "OperatorAuditLog" \in O /\ "ComponentStatusRequest" \in O
      /\ "TrackingCue" \in O /\ "OperatorChat" \in O
      /\ O \subseteq PublishedBy["workstation"] /\ "Command" \in PublishedBy["workstation"]
  BY DEF OtherThanCommand, PublishedBy
<1>2. tick + 1 \in Nat /\ (tick \div 3) + 1 \in Nat
  OBVIOUS
<1> HIDE DEF O
<1>3. a \in Seq(PubsOn(O)) /\ c \in Seq(PubsOn(O)) /\ d \in Seq(PubsOn(O))
  BY <1>1, WhenType, KeysAre DEF EachOf
<1>4. b \in Seq(PubsOn(O))
  BY <1>1, <1>2, WhenType, KeysAre
<1>5. first \in Seq(PubsOn(PublishedBy["workstation"]))
  BY <1>1, <1>2, WhenType, KeysAre DEF EachOf
<1> HIDE DEF a, b, c, d, first
<1>6. rest \in Seq(PubsOn(O))
  BY <1>3, <1>4, ConcatProperties
<1>7. /\ WorkstationCycle(tick) = first \o rest
      /\ first \o rest \in Seq(PubsOn(PublishedBy["workstation"]))
  <2> DEFINE P == PubsOn(PublishedBy["workstation"])
  <2>1. PubsOn(O) \subseteq P
    BY <1>1 DEF PubsOn
  <2>2. a \in Seq(P) /\ b \in Seq(P) /\ c \in Seq(P) /\ d \in Seq(P) /\ first \in Seq(P)
    BY <1>3, <1>4, <1>5, <2>1, SeqOfMore
  <2> HIDE DEF P
  <2> DEFINE ab  == a \o b
             abc == ab \o c
  <2>3. \A q1, q2 \in Seq(P) : q1 \o q2 \in Seq(P)
    BY ConcatProperties, Zenon
  <2>4. \A q1, q2, q3 \in Seq(P) : (q1 \o q2) \o q3 = q1 \o (q2 \o q3)
    BY ConcatAssociative
  <2>5. (first \o a) \o b = first \o ab /\ ab \in Seq(P)
    BY <2>3, <2>4, <2>2, Zenon
  <2> HIDE DEF ab
  <2>6. (first \o ab) \o c = first \o abc /\ abc \in Seq(P)
    BY <2>3, <2>4, <2>2, <2>5, Zenon
  <2> HIDE DEF abc
  <2>7. (first \o abc) \o d = first \o (abc \o d) /\ abc \o d \in Seq(P)
    BY <2>3, <2>4, <2>2, <2>6, Zenon
  <2>8. WorkstationCycle(tick) = (((first \o a) \o b) \o c) \o d
    BY DEF WorkstationCycle, first, a, b, c, d
  <2>9. first \o (abc \o d) \in Seq(P)
    BY <2>3, <2>2, <2>7, Zenon
  <2>10. QED BY <2>5, <2>6, <2>7, <2>8, <2>9 DEF P, ab, abc
<1>8. ASSUME "Command" \in view
      PROVE  first = <<Pub("Command", tick + 1)>>
  BY <1>8 DEF first, EachOf, When
<1> HIDE DEF rest
<1>9. \A T : \A q \in Seq(T) : \A x :
        <<x>> \o q # <<>> /\ Head(<<x>> \o q) = x /\ Tail(<<x>> \o q) = q
  OBVIOUS
<1> DEFINE command == Pub("Command", tick + 1)
<1>10. /\ <<command>> \o rest # <<>> /\ Head(<<command>> \o rest) = command
       /\ Tail(<<command>> \o rest) = rest
  BY <1>6, <1>9, Zenon
<1>11. ASSUME "Command" \in view
       PROVE  WorkstationCycle(tick) = <<command>> \o rest
  BY <1>7, <1>8, <1>11
<1> HIDE DEF command
<1>12. QED
  <2>1. WorkstationCycle(tick) \in Seq(PubsOn(PublishedBy["workstation"]))
    BY <1>7
  <2>2. ASSUME "Command" \in view
        PROVE  /\ WorkstationCycle(tick) # <<>> /\ Head(WorkstationCycle(tick)) = command
               /\ Tail(WorkstationCycle(tick)) = rest
    BY <1>10, <1>11, <2>2, Zenon
  <2>3. rest \in Seq(PubsOn(OtherThanCommand))
    BY <1>6 DEF O
  <2>4. QED BY <2>1, <2>2, <2>3, Zenon DEF command

LEMMA SensorCycleType ==
  ASSUME NEW tick \in Nat
  PROVE  SensorCycle(tick) \in Seq(PubsOn(PublishedBy["sensor"]))
<1> DEFINE T == PublishedBy["sensor"]
           a == EachOf("RawIQSample", Beams)
           b == When(tick % HeartbeatEvery = 0, "ComponentStatus", Components)
           c == When(tick % HeartbeatEvery = 0, "RadarTrack", Tracks)
           d == When(tick > 0 /\ tick % AlarmEvery = 0, "SystemAlarm", <<1>>)
<1>1. T = {"RawIQSample", "ComponentStatus", "RadarTrack", "SystemAlarm"}
  BY DEF PublishedBy
<1> HIDE DEF T
<1>2. a \in Seq(PubsOn(T)) /\ b \in Seq(PubsOn(T))
  BY <1>1, WhenType, KeysAre DEF EachOf
<1>3. c \in Seq(PubsOn(T)) /\ d \in Seq(PubsOn(T))
  BY <1>1, WhenType, KeysAre
<1>4. SensorCycle(tick) = a \o b \o c \o d
  BY DEF SensorCycle
<1> HIDE DEF a, b, c, d
<1>5. QED BY <1>2, <1>3, <1>4, ConcatProperties DEF T

\* A command is answered with one acknowledgement that has its key.
LEMMA ReactionType ==
  ASSUME NEW t \in Topics, NEW s, s.key \in AllKeys
  PROVE  /\ Reaction(t, s) \in Seq(PubsOn(RepliedBy[ReaderOf(t)]))
         /\ t = "Command" /\ "CommandStatus" \in view =>
              Reaction(t, s) = <<Pub("CommandStatus", s.key)>>
         /\ t # "Command" => Reaction(t, s) \in Seq(PubsOn({"ComponentStatus"}))
<1>1. RepliedBy["sensor"] = {"CommandStatus", "ComponentStatus"}
  BY DEF RepliedBy
<1>2. <<s.key>> \in Seq(AllKeys)
  OBVIOUS
<1>3. CASE t = "Command"
  <2>1. Reaction(t, s) = When(TRUE, "CommandStatus", <<s.key>>)
    BY <1>3 DEF Reaction, EachOf
  <2>2. Reaction(t, s) \in Seq(PubsOn(RepliedBy["sensor"]))
    BY <1>1, <1>2, <2>1, WhenType
  <2>3. "CommandStatus" \in view => Reaction(t, s) = <<Pub("CommandStatus", s.key)>>
    BY <2>1 DEF When
  <2>4. QED BY <1>3, <2>2, <2>3, ReadersAre
<1>4. CASE t = "ComponentStatusRequest"
  <2>1. Reaction(t, s) = When(TRUE, "ComponentStatus", Components)
    BY <1>4 DEF Reaction, EachOf
  <2>2. Reaction(t, s) \in Seq(PubsOn(RepliedBy["sensor"]))
    BY <1>1, <2>1, WhenType, KeysAre
  <2>3. Reaction(t, s) \in Seq(PubsOn({"ComponentStatus"}))
    BY <2>1, WhenType, KeysAre
  <2>4. QED BY <1>4, <2>2, <2>3, ReadersAre
<1>5. CASE t \notin {"Command", "ComponentStatusRequest"}
  <2>1. Reaction(t, s) = <<>>
    BY <1>5 DEF Reaction
  <2>2. \A T : <<>> \in Seq(T)
    OBVIOUS
  <2>3. QED BY <1>5, <2>1, <2>2
<1>6. QED BY <1>3, <1>4, <1>5

-----------------------------------------------------------------------------
(* The invariant's parts that the others rest on.                          *)

Places == {"down", "activating", "settle", "loop", "stopping", "stopped"}
MainRecord(p) ==
  [at : Places, opened : Nat, bound : Nat, tick : Nat, todo : Seq(PubsOn(PublishedBy[p]))]
CallbackRecord(p) ==
  [on : Topics \union {"nothing"}, reply : Seq(PubsOn(RepliedBy[p]))]

ThreadsOK ==
  /\ DOMAIN main = Process /\ DOMAIN callback = Process
  /\ \A p \in Process : main[p] \in MainRecord(p) /\ callback[p] \in CallbackRecord(p)

NetworkOK ==
  /\ view \in SUBSET Topics /\ DOMAIN chan = view /\ DOMAIN missed = view
  /\ \A t \in view : /\ InOrder({ReaderOf(t)}, SamplesOn(t), chan[t])
                     /\ chan[t].writerQos = Offered(t) /\ chan[t].readerQos = Requested(t)

\* A subscription that is still to be opened has no reader, and a process is not
\* activated before all are open.
OpenedOK ==
  \A p \in Process :
    /\ main[p].at \in {"down", "activating"} \/ Unopened(p) = {}
    /\ \A i \in Unopened(p) : chan[Subscriptions[p][i]].reader[p].state = "absent"

BaseInv == ThreadsOK /\ NetworkOK /\ OpenedOK

-----------------------------------------------------------------------------
(* What a step does to the channel of one topic.                           *)

\* The main thread or the callback of p writes the sample it is at.
Published(p, pub) ==
  \/ MainWrites(p) /\ pub = Head(main[p].todo)
  \/ CallbackWrites(p) /\ pub = Head(callback[p].reply)

Skipped(rd) == [rd EXCEPT !.cache = Tail(@)]

TopicStep(t) ==
  LET r == ReaderOf(t) IN
  \/ /\ missed'[t] = missed[t]
     /\ \/ chan'[t] = chan[t]
        \/ ReaderOperation(chan[t], r, chan'[t])
        \/ chan[t].writer = "absent" /\ chan'[t] = OpenWriter(chan[t])
        \/ \E p \in Process : \E pub : /\ Published(p, pub) /\ pub.topic = t
                                    /\ chan[t].writer = "up"
                                    /\ chan'[t] = WriteSample(chan[t], pub.key)
        \/ \E p \in Process : chan'[t] = Endpoints(p, t)
  \/ /\ CanTake(chan[t], r)
     /\ chan'[t] = OneReader(chan[t], r, Skipped(chan[t].reader[r]))
     /\ missed'[t] = missed[t] \union {Head(chan[t].reader[r].cache).id}

LEMMA NextUnopened ==
  ASSUME NEW p \in Process, Unopened(p) # {}
  PROVE  Min(Unopened(p)) \in Unopened(p)
<1>1. Unopened(p) \in SUBSET Nat
  BY SubscribedOnce DEF Unopened
<1>2. QED BY <1>1, Smallest

LEMMA TopicSteps ==
  ASSUME BaseInv, [RadarNext]_radarVars, NEW t \in view
  PROVE  TopicStep(t)
<1> DEFINE r == ReaderOf(t)
<1>1. t \in DOMAIN chan /\ t \in DOMAIN missed
  BY DEF BaseInv, NetworkOK
<1>2. ASSUME chan' = chan, missed' = missed
      PROVE  TopicStep(t)
  BY <1>2 DEF TopicStep
<1>3. CASE UNCHANGED radarVars
  BY <1>2, <1>3 DEF radarVars
<1>4. ASSUME NEW p \in Process,
             \/ Launch(p) \/ Sigint(p) \/ BindSubscription(p) \/ Activated(p)
             \/ Settled \/ Tick(p) \/ CallbackEnds(p)
      PROVE  TopicStep(t)
  BY <1>2, <1>4 DEF Launch, Sigint, BindSubscription, Activated, Settled, Tick,
                    CallbackEnds
<1>5. ASSUME NEW p \in Process, OpenSubscription(p)
      PROVE  TopicStep(t)
  <2> DEFINE i == Min(Unopened(p))
             u == Subscriptions[p][i]
  <2>1. i \in Unopened(p) /\ missed' = missed /\ chan' = [chan EXCEPT ![u] = OpenReader(@, p)]
    BY <1>5, NextUnopened DEF OpenSubscription
  <2> HIDE DEF i
  <2>2. ReaderOf(u) = p /\ chan[u].reader[p].state = "absent"
    BY <2>1, SubscribedOnce DEF Unopened, BaseInv, OpenedOK
  <2> HIDE DEF u
  <2>3. CASE t = u
    BY <1>1, <2>1, <2>2, <2>3 DEF TopicStep, ReaderOperation
  <2>4. CASE t # u
    BY <2>1, <2>4 DEF TopicStep
  <2>5. QED BY <2>3, <2>4
<1>6. ASSUME NEW p \in Process, MainCreates(p) \/ CallbackCreates(p)
      PROVE  TopicStep(t)
  <2>1. PICK u : /\ chan[u].writer = "absent" /\ chan' = [chan EXCEPT ![u] = OpenWriter(@)]
                 /\ missed' = missed
    BY <1>6 DEF MainCreates, CallbackCreates, CreatesWriter
  <2>2. CASE t = u
    BY <1>1, <2>1, <2>2 DEF TopicStep
  <2>3. CASE t # u
    BY <2>1, <2>3 DEF TopicStep
  <2>4. QED BY <2>2, <2>3
<1>7. ASSUME NEW p \in Process, MainWrites(p) \/ CallbackWrites(p)
      PROVE  TopicStep(t)
  <2>1. PICK pub : /\ Published(p, pub) /\ chan[pub.topic].writer = "up"
                   /\ chan' = [chan EXCEPT ![pub.topic] = WriteSample(@, pub.key)]
                   /\ missed' = missed
    <3>1. CASE MainWrites(p)
      BY <3>1 DEF MainWrites, Writes, Published
    <3>2. CASE CallbackWrites(p)
      BY <3>2 DEF CallbackWrites, Writes, Published
    <3>3. QED BY <1>7, <3>1, <3>2
  <2>2. CASE t = pub.topic
    BY <1>1, <2>1, <2>2 DEF TopicStep
  <2>3. CASE t # pub.topic
    BY <2>1, <2>3 DEF TopicStep
  <2>4. QED BY <2>2, <2>3
<1>8. ASSUME NEW p \in Process, Stop(p)
      PROVE  TopicStep(t)
  BY <1>8 DEF Stop, TopicStep
<1>9. ASSUME NEW p \in Process, NEW u \in view, OnSample(p, u)
      PROVE  TopicStep(t)
  <2>1. /\ ReaderOf(u) = p /\ CanTake(chan[u], p) /\ missed' = missed
        /\ chan' = [chan EXCEPT ![u] = TakeSample(@, p)]
    BY <1>9 DEF OnSample
  <2>2. CASE t = u
    BY <1>1, <2>1, <2>2 DEF TopicStep, ReaderOperation
  <2>3. CASE t # u
    BY <2>1, <2>3 DEF TopicStep
  <2>4. QED BY <2>2, <2>3
<1>10. ASSUME NEW p \in Process, NEW u \in view, OnSampleUnbound(p, u)
       PROVE  TopicStep(t)
  <2>1. /\ ReaderOf(u) = p /\ CanTake(chan[u], p)
        /\ chan' = [chan EXCEPT ![u].reader[p].cache = Tail(@)]
        /\ missed' = [missed EXCEPT ![u] = @ \union {Head(chan[u].reader[p].cache).id}]
    BY <1>10 DEF OnSampleUnbound
  <2>2. CASE t = u
    <3>1. chan[t] \in ChannelRecord({r}, SamplesOn(t))
      BY DEF BaseInv, NetworkOK, InOrder
    <3>2. chan'[t] = [chan[t] EXCEPT !.reader[p].cache = Tail(@)]
      BY <1>1, <2>1, <2>2
    <3>3. chan'[t] = OneReader(chan[t], p, Skipped(chan[t].reader[p]))
      BY <3>1, <3>2 DEF OneReader, Skipped, ChannelRecord, ReaderRecord
    <3>4. QED BY <1>1, <2>1, <2>2, <3>3 DEF TopicStep
  <2>3. CASE t # u
    BY <2>1, <2>3 DEF TopicStep
  <2>4. QED BY <2>2, <2>3
<1>11. ASSUME NEW u \in view, Discover(u) \/ Receive(u) \/ Forget(u) \/ Drop(u)
       PROVE  TopicStep(t)
  <2>1. PICK d : /\ chan' = [chan EXCEPT ![u] = d] /\ missed' = missed
                 /\ ReaderOperation(chan[u], ReaderOf(u), d)
    <3>1. CASE Discover(u)
      BY <3>1 DEF Discover, Transport, ReaderOperation
    <3>2. CASE Receive(u)
      BY <3>2 DEF Receive, Transport, ReaderOperation
    <3>3. CASE Forget(u)
      BY <3>3 DEF Forget, Transport, ReaderOperation
    <3>4. CASE Drop(u)
      BY <3>4 DEF Drop, Transport, ReaderOperation
    <3>5. QED BY <1>11, <3>1, <3>2, <3>3, <3>4
  <2>2. CASE t = u
    BY <1>1, <2>1, <2>2 DEF TopicStep
  <2>3. CASE t # u
    BY <2>1, <2>3 DEF TopicStep
  <2>4. QED BY <2>2, <2>3
<1>12. QED
  BY <1>3, <1>4, <1>5, <1>6, <1>7, <1>8, <1>9, <1>10, <1>11
     DEF RadarNext, MainStep, ListenerStep, NetworkStep

\* What was delivered stays delivered.
LEMMA DeliveredStays ==
  ASSUME NEW Rs, NEW S, NEW c \in ChannelRecord(Rs, S), NEW r \in Rs, NEW d,
         ReaderOperation(c, r, d)
  PROVE  Ids(c.reader[r].delivered) \subseteq Ids(d.reader[r].delivered)
<1> DEFINE rd == c.reader[r]
<1>1. /\ rd \in ReaderRecord(S) /\ rd.delivered \in Seq(Samples(S))
      /\ rd.cache \in Seq(Samples(S))
  BY DEF ChannelRecord, ReaderRecord
<1>2. CASE CanTake(c, r) /\ d = TakeSample(c, r)
  <2>1. d.reader[r].delivered = Append(rd.delivered, Head(rd.cache))
    BY <1>1, <1>2 DEF TakeSample, ChannelRecord, ReaderRecord
  <2>2. Head(rd.cache) \in Samples(S)
    BY <1>1, <1>2, IdsTail DEF CanTake
  <2>3. QED BY <1>1, <2>1, <2>2, IdsAppend
<1>3. CASE ~(CanTake(c, r) /\ d = TakeSample(c, r))
  <2>1. d \in {OpenReader(c, r), Match(c, r), Unmatch(c, r), Arrive(c, r), Lose(c, r),
               CloseReader(c, r)}
    BY <1>3 DEF ReaderOperation
  <2>2. d.reader[r].delivered = rd.delivered
    <3>1. CASE d = OpenReader(c, r)
      BY <1>1, <3>1 DEF ChannelRecord, ReaderRecord, OpenReader
    <3>2. CASE d = Match(c, r)
      BY <1>1, <3>2 DEF ChannelRecord, ReaderRecord, Match
    <3>3. CASE d = Unmatch(c, r)
      BY <1>1, <3>3 DEF ChannelRecord, ReaderRecord, Unmatch
    <3>4. CASE d = Arrive(c, r)
      BY <1>1, <3>4 DEF ChannelRecord, ReaderRecord, Arrive
    <3>5. CASE d = Lose(c, r)
      BY <1>1, <3>5 DEF ChannelRecord, ReaderRecord, Lose
    <3>6. CASE d = CloseReader(c, r)
      BY <1>1, <3>6 DEF ChannelRecord, ReaderRecord, CloseReader
    <3>7. QED BY <2>1, <3>1, <3>2, <3>3, <3>4, <3>5, <3>6
  <2>3. QED BY <2>2
<1>4. QED BY <1>2, <1>3

Delivering(t, c) == c.reader[ReaderOf(t)].delivered

LEMMA TopicKeeps ==
  ASSUME NEW t \in view, NEW S, InOrder({ReaderOf(t)}, S, chan[t]), TopicStep(t),
         \A p \in Process : \A pub : Published(p, pub) /\ pub.topic = t =>
           [id |-> chan[t].written + 1, key |-> pub.key] \in S
  PROVE  /\ InOrder({ReaderOf(t)}, S, chan'[t])
         /\ chan'[t].writerQos = chan[t].writerQos /\ chan'[t].readerQos = chan[t].readerQos
         /\ Ids(Delivering(t, chan[t])) \subseteq Ids(Delivering(t, chan'[t]))
         /\ \/ chan'[t].written = chan[t].written
            \/ \E p \in Process : \E pub : /\ Published(p, pub) /\ pub.topic = t
                                        /\ chan'[t].written = chan[t].written + 1
<1> DEFINE r == ReaderOf(t)
           c == chan[t]
           d == chan'[t]
           Kind == /\ d.writerQos = c.writerQos /\ d.readerQos = c.readerQos
                   /\ d.written = c.written
<1>1. /\ c \in ChannelRecord({r}, S) /\ c.reader[r] \in ReaderRecord(S)
      /\ ReaderInOrder(c, c.reader[r]) /\ r \in {r}
  BY DEF InOrder, ChannelRecord
<1>2. CASE d = c
  BY <1>2
<1>3. CASE ReaderOperation(c, r, d)
  <2>1. InOrder({r}, S, d) /\ SameWriter(c, d)
    BY <1>3, ReadersInOrder
  <2>2. QED BY <1>1, <1>3, <2>1, DeliveredStays DEF SameWriter, Delivering
<1>4. CASE c.writer = "absent" /\ d = OpenWriter(c)
  <2>1. InOrder({r}, S, d)
    BY <1>4, OpenedInOrder
  <2>2. Kind /\ d.reader = c.reader
    BY <1>1, <1>4 DEF OpenWriter, ChannelRecord
  <2>3. QED BY <2>1, <2>2 DEF Delivering
<1>5. ASSUME NEW p \in Process, NEW pub, Published(p, pub), pub.topic = t,
             c.writer = "up", d = WriteSample(c, pub.key)
      PROVE  /\ InOrder({r}, S, d)
             /\ d.writerQos = c.writerQos /\ d.readerQos = c.readerQos
             /\ d.written = c.written + 1 /\ d.reader[r].delivered = c.reader[r].delivered
  <2>1. InOrder({r}, S, d)
    BY <1>5, WrittenInOrder
  <2>2. QED BY <1>1, <1>5, <2>1 DEF WriteSample, ChannelRecord, ReaderRecord
<1>6. ASSUME NEW p \in Process, d = Endpoints(p, t)
      PROVE  InOrder({r}, S, d) /\ Kind /\ Delivering(t, d) = Delivering(t, c)
  <2> DEFINE e == IF WriterOf(t) = p /\ c.writer = "up" THEN CloseWriter(c) ELSE c
  <2>1. d = IF r = p THEN CloseReader(e, p) ELSE e
    BY <1>6 DEF Endpoints
  <2>2. /\ InOrder({r}, S, e) /\ e.writerQos = c.writerQos /\ e.readerQos = c.readerQos
        /\ e.written = c.written /\ e.reader[r].delivered = c.reader[r].delivered
    <3>1. InOrder({r}, S, CloseWriter(c))
      BY ClosedInOrder
    <3>2. /\ CloseWriter(c).writerQos = c.writerQos
          /\ CloseWriter(c).readerQos = c.readerQos /\ CloseWriter(c).written = c.written
          /\ CloseWriter(c).reader[r].delivered = c.reader[r].delivered
      <4> HIDE DEF c, r
      <4>1. QED BY <1>1 DEF CloseWriter, ChannelRecord, ReaderRecord
    <3>3. QED BY <3>1, <3>2
  <2> HIDE DEF e
  <2>3. /\ InOrder({r}, S, CloseReader(e, r)) /\ SameWriter(e, CloseReader(e, r))
        /\ CloseReader(e, r).reader[r].delivered = e.reader[r].delivered
    <3>1. ReaderOperation(e, r, CloseReader(e, r)) /\ e \in ChannelRecord({r}, S)
      BY <2>2 DEF ReaderOperation, InOrder
    <3>2. CloseReader(e, r).reader[r].delivered = e.reader[r].delivered
      BY <3>1 DEF CloseReader, ChannelRecord, ReaderRecord
    <3>3. QED BY <2>2, <3>1, <3>2, ReadersInOrder
  <2>4. QED BY <2>1, <2>2, <2>3 DEF SameWriter, Delivering
<1>7. CASE CanTake(c, r) /\ d = OneReader(c, r, Skipped(c.reader[r]))
  <2> DEFINE rd == c.reader[r]
             n == Skipped(rd)
  <2>1. rd.cache # <<>> /\ Tail(rd.cache) \in Seq(Samples(S))
    BY <1>1, <1>7, IdsTail DEF CanTake, ReaderRecord
  <2>2. /\ n \in ReaderRecord(S) /\ n.state = rd.state /\ n.matched = rd.matched
        /\ n.joined = rd.joined /\ n.owed = rd.owed /\ n.cache = Tail(rd.cache)
        /\ n.delivered = rd.delivered
    BY <1>1, <2>1 DEF Skipped, ReaderRecord
  <2> HIDE DEF n
  <2>3. ReaderInOrder(c, n)
    BY <1>1, <2>1, <2>2, FewerInOrder
  <2>4. /\ InOrder({r}, S, d) /\ Kind /\ d.reader[r] = n
    BY <1>1, <1>7, <2>2, <2>3, OneReaderInOrder, OneReaderChanges DEF n
  <2>5. QED BY <2>2, <2>4 DEF Delivering
<1> HIDE DEF c, d, r
<1>8. QED BY <1>2, <1>3, <1>4, <1>5, <1>6, <1>7 DEF TopicStep, Delivering, c, d, r

LEMMA TopicKeepsComplete ==
  ASSUME NEW t \in view, NEW S, TopicStep(t),
         Complete({ReaderOf(t)}, S, ReaderOf(t), missed[t], chan[t]),
         \A p \in Process : \A pub : Published(p, pub) /\ pub.topic = t =>
           [id |-> chan[t].written + 1, key |-> pub.key] \in S
  PROVE  Complete({ReaderOf(t)}, S, ReaderOf(t), missed'[t], chan'[t])
<1> DEFINE r == ReaderOf(t)
           c == chan[t]
           d == chan'[t]
           m == missed[t]
<1>1. r \in {r} /\ Complete({r}, S, r, m, c)
  OBVIOUS
<1>2. ASSUME NEW p \in Process, d = Endpoints(p, t)
      PROVE  Complete({r}, S, r, m, d)
  <2> DEFINE e == IF WriterOf(t) = p /\ c.writer = "up" THEN CloseWriter(c) ELSE c
  <2>1. d = IF r = p THEN CloseReader(e, p) ELSE e
    BY <1>2 DEF Endpoints
  <2>2. Complete({r}, S, r, m, e)
    BY WriterComplete
  <2> HIDE DEF e
  <2>3. Complete({r}, S, r, m, CloseReader(e, r))
    BY <2>2, ReadersComplete DEF ReaderOperation
  <2>4. QED BY <2>1, <2>2, <2>3
<1>3. CASE missed'[t] = m /\ (d = c \/ ReaderOperation(c, r, d))
  BY <1>1, <1>3, ReadersComplete
<1>4. CASE missed'[t] = m /\ c.writer = "absent" /\ d = OpenWriter(c)
  BY <1>4, WriterComplete
<1>5. ASSUME missed'[t] = m, NEW p \in Process, NEW pub, Published(p, pub),
             pub.topic = t, c.writer = "up", d = WriteSample(c, pub.key)
      PROVE  Complete({r}, S, r, missed'[t], d)
  BY <1>5, WriterComplete
<1>6. CASE /\ CanTake(c, r) /\ d = OneReader(c, r, Skipped(c.reader[r]))
           /\ missed'[t] = m \union {Head(c.reader[r].cache).id}
  BY <1>6, MissedComplete DEF Skipped
<1> HIDE DEF c, d, r, m
<1>7. QED BY <1>2, <1>3, <1>4, <1>5, <1>6 DEF TopicStep, c, d, r, m

LEMMA TopicKeepsCurrent ==
  ASSUME NEW t \in view, NEW S, TopicStep(t),
         CurrentPair({ReaderOf(t)}, S, ReaderOf(t), missed[t], chan[t]),
         \A p \in Process : \A pub : Published(p, pub) /\ pub.topic = t =>
           [id |-> chan[t].written + 1, key |-> pub.key] \in S
  PROVE  CurrentPair({ReaderOf(t)}, S, ReaderOf(t), missed'[t], chan'[t])
<1> DEFINE r == ReaderOf(t)
           c == chan[t]
           d == chan'[t]
           m == missed[t]
<1>1. r \in {r} /\ CurrentPair({r}, S, r, m, c)
  OBVIOUS
<1>2. ASSUME NEW p \in Process, d = Endpoints(p, t)
      PROVE  CurrentPair({r}, S, r, m, d)
  <2> DEFINE e == IF WriterOf(t) = p /\ c.writer = "up" THEN CloseWriter(c) ELSE c
  <2>1. d = IF r = p THEN CloseReader(e, p) ELSE e
    BY <1>2 DEF Endpoints
  <2>2. CurrentPair({r}, S, r, m, e)
    BY WriterCurrent
  <2> HIDE DEF e
  <2>3. CurrentPair({r}, S, r, m, CloseReader(e, r))
    BY <2>2, ReadersCurrent DEF ReaderOperation
  <2>4. QED BY <2>1, <2>2, <2>3
<1>3. CASE missed'[t] = m /\ (d = c \/ ReaderOperation(c, r, d))
  BY <1>1, <1>3, ReadersCurrent
<1>4. CASE missed'[t] = m /\ c.writer = "absent" /\ d = OpenWriter(c)
  BY <1>4, WriterCurrent
<1>5. ASSUME missed'[t] = m, NEW p \in Process, NEW pub, Published(p, pub),
             pub.topic = t, c.writer = "up", d = WriteSample(c, pub.key)
      PROVE  CurrentPair({r}, S, r, missed'[t], d)
  BY <1>5, WriterCurrent
<1>6. CASE /\ CanTake(c, r) /\ d = OneReader(c, r, Skipped(c.reader[r]))
           /\ missed'[t] = m \union {Head(c.reader[r].cache).id}
  BY <1>6, MissedCurrent DEF Skipped
<1> HIDE DEF c, d, r, m
<1>7. QED BY <1>2, <1>3, <1>4, <1>5, <1>6 DEF TopicStep, c, d, r, m

-----------------------------------------------------------------------------
(* What a step does to the threads.                                        *)

LEMMA ViewKept ==
  ASSUME [RadarNext]_radarVars
  PROVE  view' = view
BY DEF RadarNext, radarVars, Launch, Sigint, MainStep, OpenSubscription,
       BindSubscription, Activated, Tick, MainCreates, MainWrites, Stop, Settled,
       ListenerStep, OnSample, OnSampleUnbound, CallbackCreates, CallbackWrites,
       CallbackEnds, NetworkStep, Discover, Receive, Forget, Drop, Transport

\* Of p's main thread: it goes on, has written the sample it was at, or takes up
\* a cycle.
MainChange(p) ==
  \/ main'[p].tick = main[p].tick /\ main'[p].todo = main[p].todo
  \/ MainWrites(p) /\ main'[p].tick = main[p].tick /\ main'[p].todo = Tail(main[p].todo)
  \/ /\ main[p].todo = <<>> /\ main'[p].tick = main[p].tick + 1
     /\ main'[p].todo = Cycle(p, main[p].tick)

\* Of p's callback: it goes on, has written, ends, or is called.
CallbackChange(p) ==
  \/ callback'[p].reply = callback[p].reply
  \/ CallbackWrites(p) /\ callback'[p].reply = Tail(callback[p].reply)
  \/ callback'[p].reply = <<>>
  \/ \E t \in view : /\ OnSample(p, t)
                     /\ callback'[p].reply = Reaction(t, Head(chan[t].reader[p].cache))

LEMMA CycleType ==
  ASSUME NEW p \in Process, NEW tick \in Nat
  PROVE  Cycle(p, tick) \in Seq(PubsOn(PublishedBy[p]))
BY SensorCycleType, WorkstationCycleType DEF Cycle, Process

LEMMA MainsKept ==
  ASSUME BaseInv, [RadarNext]_radarVars, NEW p \in Process
  PROVE  /\ DOMAIN main' = Process /\ main'[p] \in MainRecord(p)
         /\ main'[p].opened >= main[p].opened
         /\ main'[p].at \in {"down", "activating"} \/ Unopened(p) = {}
         /\ MainChange(p)
<1> DEFINE Preserved == /\ main'[p] \in MainRecord(p)
                        /\ main'[p].opened >= main[p].opened
                        /\ main'[p].at \in {"down", "activating"} \/ Unopened(p) = {}
                        /\ MainChange(p)
<1> SUFFICES DOMAIN main' = Process /\ Preserved
  OBVIOUS
<1>1. /\ DOMAIN main = Process /\ main[p] \in MainRecord(p) /\ main[p].tick \in Nat
      /\ main[p].opened \in Nat /\ main[p].bound \in Nat
      /\ main[p].todo \in Seq(PubsOn(PublishedBy[p]))
      /\ main[p].at \in {"down", "activating"} \/ Unopened(p) = {}
  BY DEF BaseInv, ThreadsOK, OpenedOK, MainRecord
<1>2. ASSUME main'[p] = main[p]
      PROVE  Preserved
  BY <1>1, <1>2 DEF MainChange
<1>3. ASSUME NEW at \in Places, main' = [main EXCEPT ![p].at = at],
             at \in {"down", "activating"} \/ Unopened(p) = {}
      PROVE  DOMAIN main' = Process /\ Preserved
  BY <1>1, <1>3 DEF MainChange, MainRecord
<1>4. CASE main' = main
  BY <1>1, <1>2, <1>4
<1>5. ASSUME NEW q \in Process, Launch(q)
      PROVE  DOMAIN main' = Process /\ Preserved
  <2>1. CASE q = p
    BY <1>3, <1>5, <2>1 DEF Launch, Goto, Places
  <2>2. CASE q # p
    BY <1>1, <1>2, <1>5, <2>2 DEF Launch, Goto
  <2>3. QED BY <2>1, <2>2
<1>6. ASSUME NEW q \in Process, OpenSubscription(q)
      PROVE  DOMAIN main' = Process /\ Preserved
  <2> DEFINE i == Min(Unopened(q))
  <2>1. /\ main[q].at = "activating" /\ main' = [main EXCEPT ![q].opened = i]
        /\ i \in Nat /\ i > main[q].opened
    <3>1. i \in Unopened(q)
      BY <1>6, NextUnopened DEF OpenSubscription
    <3>2. QED BY <1>6, <3>1, SubscribedOnce DEF OpenSubscription, Unopened
  <2> HIDE DEF i
  <2>2. CASE q = p
    BY <1>1, <2>1, <2>2 DEF MainChange, MainRecord
  <2>3. CASE q # p
    BY <1>1, <1>2, <2>1, <2>3
  <2>4. QED BY <2>2, <2>3
<1>7. ASSUME NEW q \in Process, BindSubscription(q)
      PROVE  DOMAIN main' = Process /\ Preserved
  <2>1. CASE q = p
    BY <1>1, <1>7, <2>1 DEF MainChange, MainRecord, BindSubscription
  <2>2. CASE q # p
    BY <1>1, <1>2, <1>7, <2>2 DEF BindSubscription
  <2>3. QED BY <2>1, <2>2
<1>8. ASSUME NEW q \in Process, Activated(q)
      PROVE  DOMAIN main' = Process /\ Preserved
  <2>1. CASE q = p
    BY <1>3, <1>8, <2>1 DEF Activated, Goto, Places
  <2>2. CASE q # p
    BY <1>1, <1>2, <1>8, <2>2 DEF Activated, Goto
  <2>3. QED BY <2>1, <2>2
<1>9. CASE Settled
  <2>1. CASE p = "workstation"
    BY <1>1, <1>3, <1>9, <2>1 DEF Settled, Goto, Places
  <2>2. CASE p # "workstation"
    BY <1>1, <1>2, <1>9, <2>2 DEF Settled, Goto
  <2>3. QED BY <2>1, <2>2
<1>10. ASSUME NEW q \in Process, Tick(q)
       PROVE  DOMAIN main' = Process /\ Preserved
  <2> DEFINE n == Cycle(q, main[q].tick)
  <2>1. /\ main[q].at = "loop" /\ main[q].todo = <<>>
        /\ \/ main' = [main EXCEPT ![q].tick = @ + 1, ![q].todo = n]
           \/ main' = [main EXCEPT ![q].at = "stopping"]
    BY <1>10 DEF Tick, Goto
  <2>2. CASE q # p
    <3> HIDE DEF n
    <3>1. QED BY <1>1, <1>2, <2>1, <2>2
  <2>3. CASE q = p /\ main' = [main EXCEPT ![q].at = "stopping"]
    BY <1>1, <1>3, <2>1, <2>3 DEF Places
  <2>4. CASE q = p /\ main' = [main EXCEPT ![q].tick = @ + 1, ![q].todo = n]
    <3>1. n \in Seq(PubsOn(PublishedBy[p]))
      BY <1>1, <2>4, CycleType
    <3> HIDE DEF n
    <3>2. /\ DOMAIN main' = Process
          /\ main'[p] = [main[p] EXCEPT !.tick = @ + 1, !.todo = n]
      BY <1>1, <2>4
    <3>3. ASSUME NEW T, n \in T,
                 NEW m \in [at : Places, opened : Nat, bound : Nat, tick : Nat, todo : T],
                 NEW x \in Nat
          PROVE  LET l == [m EXCEPT !.tick = x, !.todo = n] IN
                 /\ l \in [at : Places, opened : Nat, bound : Nat, tick : Nat, todo : T]
                 /\ l.at = m.at /\ l.opened = m.opened /\ l.tick = x /\ l.todo = n
      BY <3>3
    <3>4. main[p].tick + 1 \in Nat
      BY <1>1
    <3>5. /\ main'[p] \in MainRecord(p) /\ main'[p].opened = main[p].opened
          /\ main'[p].at = main[p].at /\ main'[p].tick = main[p].tick + 1
          /\ main'[p].todo = n
      BY <1>1, <3>1, <3>2, <3>3, <3>4 DEF MainRecord
    <3>6. QED BY <1>1, <2>1, <2>4, <3>2, <3>5 DEF MainChange, n
  <2>5. QED BY <2>1, <2>2, <2>3, <2>4
<1>11. ASSUME NEW q \in Process, MainWrites(q)
       PROVE  DOMAIN main' = Process /\ Preserved
  <2>1. CASE q = p
    <3>1. main[p].todo # <<>> /\ main' = [main EXCEPT ![p].todo = Tail(@)]
      BY <1>11, <2>1 DEF MainWrites
    <3>2. Tail(main[p].todo) \in Seq(PubsOn(PublishedBy[p]))
      BY <1>1, <3>1, HeadTailProperties
    <3>3. /\ DOMAIN main' = Process /\ main'[p] \in MainRecord(p)
          /\ main'[p].opened = main[p].opened /\ main'[p].at = main[p].at
          /\ main'[p].tick = main[p].tick /\ main'[p].todo = Tail(main[p].todo)
      BY <1>1, <3>1, <3>2 DEF MainRecord
    <3>4. QED BY <1>1, <1>11, <2>1, <3>3 DEF MainChange
  <2>2. CASE q # p
    BY <1>1, <1>2, <1>11, <2>2 DEF MainWrites
  <2>3. QED BY <2>1, <2>2
<1>12. ASSUME NEW q \in Process, Stop(q)
       PROVE  DOMAIN main' = Process /\ Preserved
  <2>1. CASE q = p
    BY <1>1, <1>3, <1>12, <2>1 DEF Stop, Goto, Places
  <2>2. CASE q # p
    BY <1>1, <1>2, <1>12, <2>2 DEF Stop, Goto
  <2>3. QED BY <2>1, <2>2
<1>13. CASE UNCHANGED radarVars
  BY <1>4, <1>13 DEF radarVars
<1>14. ASSUME NEW q \in Process, Sigint(q) \/ MainCreates(q) \/ ListenerStep(q)
       PROVE  main' = main
  BY <1>14 DEF Sigint, MainCreates, ListenerStep, OnSample, OnSampleUnbound,
               CallbackCreates, CallbackWrites, CallbackEnds
<1>15. ASSUME NEW t \in view, Discover(t) \/ Receive(t) \/ Forget(t) \/ Drop(t)
       PROVE  main' = main
  BY <1>15 DEF Discover, Receive, Forget, Drop, Transport
<1> HIDE DEF Preserved
<1>16. QED
  BY <1>4, <1>5, <1>6, <1>7, <1>8, <1>9, <1>10, <1>11, <1>12, <1>13, <1>14, <1>15
     DEF RadarNext, MainStep, NetworkStep

\* The sample that a callback is called with.
LEMMA TakenSample ==
  ASSUME NetworkOK, NEW t \in view, NEW p \in Process, ReaderOf(t) = p, CanTake(chan[t], p)
  PROVE  /\ Head(chan[t].reader[p].cache) \in Samples(SamplesOn(t))
         /\ Head(chan[t].reader[p].cache).key \in AllKeys
<1>1. chan[t].reader[p].cache \in Seq(Samples(SamplesOn(t))) /\ chan[t].reader[p].cache # <<>>
  BY DEF NetworkOK, InOrder, ChannelRecord, ReaderRecord, CanTake
<1>2. Head(chan[t].reader[p].cache) \in Samples(SamplesOn(t))
  BY <1>1, IdsTail
<1>3. QED BY <1>2 DEF Samples, SamplesOn, AllKeys

LEMMA CallbacksKept ==
  ASSUME BaseInv, [RadarNext]_radarVars, NEW p \in Process
  PROVE  /\ DOMAIN callback' = Process /\ callback'[p] \in CallbackRecord(p)
         /\ CallbackChange(p)
<1> DEFINE Preserved == callback'[p] \in CallbackRecord(p) /\ CallbackChange(p)
<1> SUFFICES DOMAIN callback' = Process /\ Preserved
  OBVIOUS
<1>1. /\ DOMAIN callback = Process /\ callback[p] \in CallbackRecord(p)
      /\ callback[p].reply \in Seq(PubsOn(RepliedBy[p]))
  BY DEF BaseInv, ThreadsOK, CallbackRecord
<1>2. ASSUME callback'[p] = callback[p]
      PROVE  Preserved
  BY <1>1, <1>2 DEF CallbackChange
<1>3. CASE callback' = callback
  BY <1>1, <1>2, <1>3
<1>4. ASSUME NEW q \in Process, NEW t \in view, OnSample(q, t)
      PROVE  DOMAIN callback' = Process /\ Preserved
  <2> DEFINE n == Reaction(t, Head(chan[t].reader[q].cache))
  <2>1. callback' = [callback EXCEPT ![q] = [on |-> t, reply |-> n]]
    BY <1>4 DEF OnSample
  <2>2. CASE q = p
    <3>1. n \in Seq(PubsOn(RepliedBy[p])) /\ t \in Topics
      <4>1. Head(chan[t].reader[q].cache).key \in AllKeys /\ t \in Topics /\ ReaderOf(t) = q
        BY <1>4, TakenSample DEF OnSample, BaseInv, NetworkOK
      <4>2. QED BY <2>2, <4>1, ReactionType
    <3> HIDE DEF n
    <3>2. DOMAIN callback' = Process /\ callback'[p] = [on |-> t, reply |-> n]
      BY <1>1, <2>1, <2>2
    <3>3. QED BY <1>4, <2>2, <3>1, <3>2 DEF CallbackChange, CallbackRecord, n
  <2>3. CASE q # p
    BY <1>1, <1>2, <2>1, <2>3
  <2>4. QED BY <2>2, <2>3
<1>5. ASSUME NEW q \in Process, CallbackWrites(q)
      PROVE  DOMAIN callback' = Process /\ Preserved
  <2>1. CASE q = p
    <3>1. callback[p].reply # <<>> /\ callback' = [callback EXCEPT ![p].reply = Tail(@)]
      BY <1>5, <2>1 DEF CallbackWrites, Replying
    <3>2. Tail(callback[p].reply) \in Seq(PubsOn(RepliedBy[p]))
      BY <1>1, <3>1, HeadTailProperties
    <3>3. /\ DOMAIN callback' = Process /\ callback'[p] \in CallbackRecord(p)
          /\ callback'[p].reply = Tail(callback[p].reply)
      BY <1>1, <3>1, <3>2 DEF CallbackRecord
    <3>4. QED BY <1>5, <2>1, <3>3 DEF CallbackChange
  <2>2. CASE q # p
    BY <1>1, <1>2, <1>5, <2>2 DEF CallbackWrites
  <2>3. QED BY <2>1, <2>2
<1>6. ASSUME NEW q \in Process, CallbackEnds(q)
      PROVE  DOMAIN callback' = Process /\ Preserved
  <2>1. callback' = [callback EXCEPT ![q] = NoCallback]
    BY <1>6 DEF CallbackEnds
  <2>2. CASE q = p
    <3>1. <<>> \in Seq(PubsOn(RepliedBy[p]))
      OBVIOUS
    <3>2. NoCallback \in CallbackRecord(p) /\ NoCallback.reply = <<>>
      BY <3>1 DEF NoCallback, CallbackRecord
    <3>3. QED BY <1>1, <2>1, <2>2, <3>2 DEF CallbackChange
  <2>3. CASE q # p
    BY <1>1, <1>2, <2>1, <2>3
  <2>4. QED BY <2>2, <2>3
<1>7. ASSUME UNCHANGED radarVars \/ Settled \/ NetworkStep
             \/ (\E q \in Process : \/ Launch(q) \/ Sigint(q) \/ MainStep(q)
                                    \/ CallbackCreates(q)
                                    \/ \E t \in view : OnSampleUnbound(q, t))
             \/ (\E t \in view : Forget(t) \/ Drop(t))
      PROVE  callback' = callback
  BY <1>7 DEF radarVars, Settled, NetworkStep, Discover, Receive, Forget, Drop,
              Transport, Launch, Sigint, MainStep, OpenSubscription, BindSubscription,
              Activated, Tick, MainCreates, MainWrites, Stop, CallbackCreates,
              OnSampleUnbound
<1> HIDE DEF Preserved
<1>8. QED
  BY <1>3, <1>4, <1>5, <1>6, <1>7 DEF RadarNext, ListenerStep

-----------------------------------------------------------------------------
(* Commands are numbered as they are written.                              *)

\* A cycle's command comes first; until it is written the writer is one behind
\* the loop counter.
CommandsOK ==
  "Command" \in view =>
    LET todo == main["workstation"].todo
        tick == main["workstation"].tick
        w == chan["Command"].written
    IN \/ todo \in Seq(PubsOn(OtherThanCommand)) /\ w = tick
       \/ /\ todo # <<>> /\ Head(todo) = Pub("Command", tick)
          /\ Tail(todo) \in Seq(PubsOn(OtherThanCommand))
          /\ w + 1 = tick

LEMMA PublishedType ==
  ASSUME ThreadsOK, NEW p \in Process, NEW pub, Published(p, pub)
  PROVE  \/ /\ MainWrites(p) /\ pub = Head(main[p].todo)
            /\ pub \in PubsOn(PublishedBy[p])
         \/ /\ CallbackWrites(p) /\ pub = Head(callback[p].reply)
            /\ pub \in PubsOn(RepliedBy[p])
<1>1. /\ main[p].todo \in Seq(PubsOn(PublishedBy[p]))
      /\ callback[p].reply \in Seq(PubsOn(RepliedBy[p]))
  BY DEF ThreadsOK, MainRecord, CallbackRecord
<1>2. CASE MainWrites(p) /\ pub = Head(main[p].todo)
  BY <1>1, <1>2, HeadTailProperties DEF MainWrites
<1>3. CASE CallbackWrites(p) /\ pub = Head(callback[p].reply)
  BY <1>1, <1>3, HeadTailProperties DEF CallbackWrites, Replying
<1>4. QED BY <1>2, <1>3 DEF Published

LEMMA CommandPublished ==
  ASSUME ThreadsOK, CommandsOK, "Command" \in view,
         NEW p \in Process, NEW pub, Published(p, pub), pub.topic = "Command"
  PROVE  /\ p = "workstation" /\ MainWrites(p)
         /\ pub = Pub("Command", main[p].tick)
         /\ chan["Command"].written + 1 = main[p].tick /\ main[p].tick \in Nat
<1>1. "Command" \notin RepliedBy[p] /\ ("Command" \in PublishedBy[p] => p = "workstation")
  BY DEF RepliedBy, PublishedBy, Process
<1>2. /\ p = "workstation" /\ MainWrites(p) /\ pub = Head(main[p].todo)
  BY <1>1, PublishedType DEF PubsOn
<1>3. main[p].todo # <<>> /\ main[p].tick \in Nat
  BY <1>2 DEF MainWrites, ThreadsOK, MainRecord
<1>4. main[p].todo \notin Seq(PubsOn(OtherThanCommand))
  <2>1. SUFFICES ASSUME main[p].todo \in Seq(PubsOn(OtherThanCommand))
                 PROVE  FALSE
    OBVIOUS
  <2>2. pub \in PubsOn(OtherThanCommand)
    BY <1>2, <1>3, <2>1, HeadTailProperties
  <2>3. QED BY <2>2 DEF PubsOn, OtherThanCommand
<1>5. QED BY <1>2, <1>3, <1>4 DEF CommandsOK

\* What is published on a topic is one of its samples.
LEMMA PublishedSample ==
  ASSUME ThreadsOK, NetworkOK, CommandsOK, NEW t \in view,
         NEW p \in Process, NEW pub, Published(p, pub), pub.topic = t
  PROVE  [id |-> chan[t].written + 1, key |-> pub.key] \in SamplesOn(t)
<1>1. chan[t].written + 1 \in Nat
  <2>1. chan[t].written \in Nat
    BY DEF NetworkOK, InOrder, ChannelRecord
  <2>2. QED BY <2>1
<1>2. pub.key \in AllKeys
  BY PublishedType DEF PubsOn
<1>3. CASE t = "Command"
  BY <1>1, <1>3, CommandPublished DEF SamplesOn, Pub
<1>4. CASE t # "Command"
  BY <1>1, <1>2, <1>4 DEF SamplesOn
<1>5. QED BY <1>3, <1>4

LEMMA DomainsKept ==
  ASSUME NetworkOK, [RadarNext]_radarVars
  PROVE  DOMAIN chan' = view /\ DOMAIN missed' = view
<1>1. DOMAIN chan = view /\ DOMAIN missed = view
  BY DEF NetworkOK
<1>2. CASE UNCHANGED radarVars
  BY <1>1, <1>2 DEF radarVars
<1>3. ASSUME NEW p \in Process,
             Launch(p) \/ Sigint(p) \/ BindSubscription(p) \/ Activated(p) \/ Tick(p)
               \/ Settled \/ CallbackEnds(p)
      PROVE  chan' = chan /\ missed' = missed
  BY <1>3 DEF Launch, Sigint, BindSubscription, Activated, Tick, Settled, CallbackEnds
<1>4. ASSUME NEW p \in Process,
             OpenSubscription(p) \/ MainCreates(p) \/ MainWrites(p) \/ CallbackCreates(p)
               \/ CallbackWrites(p)
      PROVE  DOMAIN chan' = DOMAIN chan /\ missed' = missed
  BY <1>4 DEF OpenSubscription, MainCreates, MainWrites, CallbackCreates,
              CallbackWrites, CreatesWriter, Writes
<1>5. ASSUME NEW p \in Process, Stop(p)
      PROVE  DOMAIN chan' = view /\ missed' = missed
  BY <1>5 DEF Stop
<1>6. ASSUME NEW p \in Process, NEW t \in view, OnSample(p, t) \/ OnSampleUnbound(p, t)
      PROVE  DOMAIN chan' = DOMAIN chan /\ DOMAIN missed' = DOMAIN missed
  BY <1>6 DEF OnSample, OnSampleUnbound
<1>7. ASSUME NEW t \in view, Discover(t) \/ Receive(t) \/ Forget(t) \/ Drop(t)
      PROVE  DOMAIN chan' = DOMAIN chan /\ missed' = missed
  BY <1>7 DEF Discover, Receive, Forget, Drop, Transport
<1>8. QED
  BY <1>1, <1>2, <1>3, <1>4, <1>5, <1>6, <1>7
     DEF RadarNext, MainStep, ListenerStep, NetworkStep

LEMMA NetworkKept ==
  ASSUME BaseInv, CommandsOK, [RadarNext]_radarVars
  PROVE  /\ NetworkOK'
         /\ \A t \in view :
              /\ Ids(Delivering(t, chan[t])) \subseteq Ids(Delivering(t, chan'[t]))
              /\ \/ chan'[t].written = chan[t].written
                 \/ \E p \in Process : \E pub :
                      /\ Published(p, pub) /\ pub.topic = t
                      /\ chan'[t].written = chan[t].written + 1
<1>1. ASSUME NEW t \in view
      PROVE  /\ InOrder({ReaderOf(t)}, SamplesOn(t), chan'[t])
             /\ chan'[t].writerQos = Offered(t) /\ chan'[t].readerQos = Requested(t)
             /\ Ids(Delivering(t, chan[t])) \subseteq Ids(Delivering(t, chan'[t]))
             /\ \/ chan'[t].written = chan[t].written
                \/ \E p \in Process : \E pub :
                     /\ Published(p, pub) /\ pub.topic = t
                     /\ chan'[t].written = chan[t].written + 1
  <2>1. TopicStep(t)
    BY TopicSteps
  <2>2. \A p \in Process : \A pub : Published(p, pub) /\ pub.topic = t =>
          [id |-> chan[t].written + 1, key |-> pub.key] \in SamplesOn(t)
    BY PublishedSample DEF BaseInv
  <2>3. /\ InOrder({ReaderOf(t)}, SamplesOn(t), chan[t])
        /\ chan[t].writerQos = Offered(t) /\ chan[t].readerQos = Requested(t)
    BY DEF BaseInv, NetworkOK
  <2>4. QED BY <2>1, <2>2, <2>3, TopicKeeps
<1>2. /\ view' = view /\ view \in SUBSET Topics
      /\ DOMAIN chan' = view /\ DOMAIN missed' = view
  BY ViewKept, DomainsKept DEF BaseInv, NetworkOK
<1>3. NetworkOK'
  BY <1>1, <1>2 DEF NetworkOK
<1>4. QED BY <1>1, <1>3

LEMMA CommandsKept ==
  ASSUME BaseInv, CommandsOK, [RadarNext]_radarVars
  PROVE  CommandsOK'
<1> DEFINE p == "workstation"
           todo == main[p].todo
           tick == main[p].tick
           c == chan["Command"]
           Others == Seq(PubsOn(OtherThanCommand))
<1>1. SUFFICES ASSUME "Command" \in view
               PROVE  CommandsOK'
  BY ViewKept DEF CommandsOK
<1>2. p \in Process /\ main[p] \in MainRecord(p) /\ tick \in Nat
      /\ todo \in Seq(PubsOn(PublishedBy[p])) /\ "Command" \in DOMAIN chan
      /\ c.written \in Nat
  BY <1>1 DEF Process, BaseInv, ThreadsOK, NetworkOK, MainRecord, InOrder, ChannelRecord
<1>3. \/ todo \in Others /\ c.written = tick
      \/ /\ todo # <<>> /\ Head(todo) = Pub("Command", tick) /\ Tail(todo) \in Others
         /\ c.written + 1 = tick
  BY <1>1 DEF CommandsOK
<1>4. SUFFICES \/ main'[p].todo \in Others /\ chan'["Command"].written = main'[p].tick
               \/ /\ main'[p].todo # <<>>
                  /\ Head(main'[p].todo) = Pub("Command", main'[p].tick)
                  /\ Tail(main'[p].todo) \in Others
                  /\ chan'["Command"].written + 1 = main'[p].tick
  BY DEF CommandsOK
<1>5. CASE MainWrites(p)
  <2>1. /\ todo # <<>> /\ main' = [main EXCEPT ![p].todo = Tail(@)]
        /\ chan' = [chan EXCEPT ![Head(todo).topic] = WriteSample(@, Head(todo).key)]
    BY <1>5 DEF MainWrites, Writes
  <2>2. main'[p].todo = Tail(todo) /\ main'[p].tick = tick
    BY <1>2, <2>1 DEF BaseInv, ThreadsOK, MainRecord
  <2>3. CASE todo \in Others /\ c.written = tick
    <3>1. Head(todo) \in PubsOn(OtherThanCommand) /\ Tail(todo) \in Others
      BY <2>1, <2>3, HeadTailProperties
    <3>2. Head(todo).topic # "Command"
      BY <3>1 DEF PubsOn, OtherThanCommand
    <3>3. chan'["Command"] = c
      BY <1>2, <2>1, <3>2
    <3>4. QED BY <2>2, <2>3, <3>1, <3>3
  <2>4. CASE /\ todo # <<>> /\ Head(todo) = Pub("Command", tick) /\ Tail(todo) \in Others
             /\ c.written + 1 = tick
    <3>1. chan'["Command"] = WriteSample(c, tick)
      BY <1>2, <2>1, <2>4 DEF Pub
    <3>2. chan'["Command"].written = c.written + 1
      BY <1>1, <1>2, <3>1 DEF BaseInv, NetworkOK, InOrder, ChannelRecord, WriteSample
    <3>3. QED BY <2>2, <2>4, <3>2
  <2>5. QED BY <1>3, <2>3, <2>4
<1>6. CASE ~MainWrites(p)
  <2>1. chan'["Command"].written = c.written
    BY <1>1, <1>6, NetworkKept, CommandPublished DEF BaseInv
  <2>2. CASE main'[p].tick = tick /\ main'[p].todo = todo
    BY <1>3, <2>1, <2>2
  <2>3. CASE todo = <<>> /\ main'[p].tick = tick + 1 /\ main'[p].todo = Cycle(p, tick)
    <3>1. main'[p].todo = WorkstationCycle(tick) /\ c.written = tick
      BY <1>3, <2>3 DEF Cycle
    <3>2. QED BY <1>1, <1>2, <2>1, <2>3, <3>1, WorkstationCycleType
  <2>4. QED BY <1>2, <1>6, <2>2, <2>3, MainsKept DEF MainChange
<1>7. QED BY <1>5, <1>6

-----------------------------------------------------------------------------
(* Only OpenSubscription opens a reader.                                   *)

LEMMA StateKept ==
  ASSUME NEW Rs, NEW S, NEW c \in ChannelRecord(Rs, S), NEW r \in Rs, NEW d,
         \/ d = OpenWriter(c) \/ d = CloseWriter(c) \/ \E k : d = WriteSample(c, k)
         \/ d \in {Match(c, r), Unmatch(c, r), Arrive(c, r), Lose(c, r), TakeSample(c, r)}
         \/ d = [c EXCEPT !.reader[r].cache = Tail(@)]
  PROVE  d.reader[r].state = c.reader[r].state
<1>1. c.reader \in [Rs -> ReaderRecord(S)] /\ c.reader[r] \in ReaderRecord(S)
  BY DEF ChannelRecord
<1>2. CASE d = OpenWriter(c)
  BY <1>1, <1>2 DEF OpenWriter, ChannelRecord
<1>3. CASE d = CloseWriter(c)
  BY <1>1, <1>3 DEF CloseWriter, ChannelRecord, ReaderRecord
<1>4. ASSUME NEW k, d = WriteSample(c, k)
      PROVE  d.reader[r].state = c.reader[r].state
  <2> DEFINE s == [id |-> c.written + 1, key |-> k]
  <2>1. d.reader[r] = IF c.reader[r].matched
                        THEN [c.reader[r] EXCEPT !.owed = Append(@, s)] ELSE c.reader[r]
    BY <1>1, <1>4 DEF WriteSample, ChannelRecord
  <2> HIDE DEF s
  <2>2. QED BY <1>1, <2>1 DEF ReaderRecord
<1>5. CASE d = Match(c, r)
  BY <1>1, <1>5 DEF Match, ChannelRecord, ReaderRecord
<1>6. CASE d = Unmatch(c, r)
  BY <1>1, <1>6 DEF Unmatch, ChannelRecord, ReaderRecord
<1>7. CASE d = Arrive(c, r)
  BY <1>1, <1>7 DEF Arrive, ChannelRecord, ReaderRecord
<1>8. CASE d = Lose(c, r)
  BY <1>1, <1>8 DEF Lose, ChannelRecord, ReaderRecord
<1>9. CASE d = TakeSample(c, r)
  BY <1>1, <1>9 DEF TakeSample, ChannelRecord, ReaderRecord
<1>10. CASE d = [c EXCEPT !.reader[r].cache = Tail(@)]
  BY <1>1, <1>10 DEF ChannelRecord, ReaderRecord
<1>11. QED BY <1>2, <1>3, <1>4, <1>5, <1>6, <1>7, <1>8, <1>9, <1>10

LEMMA OpenedKept ==
  ASSUME BaseInv, [RadarNext]_radarVars
  PROVE  OpenedOK'
<1>1. ASSUME NEW p \in Process
      PROVE  /\ Unopened(p)' \subseteq Unopened(p)
             /\ main'[p].at \in {"down", "activating"} \/ Unopened(p) = {}
  <2>1. main'[p].opened \in Nat /\ main[p].opened \in Nat /\ main'[p].opened >= main[p].opened
    BY MainsKept DEF MainRecord, BaseInv, ThreadsOK
  <2>2. \A i \in DOMAIN Subscriptions[p] : i \in Nat
    BY SubscribedOnce
  <2>3. QED BY <2>1, <2>2, ViewKept, MainsKept DEF Unopened
<1>2. ASSUME NEW p \in Process, NEW i \in Unopened(p)'
      PROVE  chan'[Subscriptions[p][i]].reader[p].state = "absent"
  <2> DEFINE t == Subscriptions[p][i]
             c == chan[t]
             d == chan'[t]
             Absent == d.reader[p].state = "absent"
  <2>1. /\ i \in Unopened(p) /\ i \in DOMAIN Subscriptions[p] /\ t \in view
        /\ c.reader[p].state = "absent" /\ ReaderOf(t) = p /\ t \in DOMAIN chan
        /\ c \in ChannelRecord({p}, SamplesOn(t))
        /\ i > main'[p].opened
    <3>1. i \in Unopened(p) /\ i > main'[p].opened
      BY <1>1, <1>2 DEF Unopened
    <3>2. i \in DOMAIN Subscriptions[p] /\ t \in view
      BY <3>1 DEF Unopened
    <3>3. ReaderOf(t) = p
      BY <3>2, SubscribedOnce
    <3>4. QED BY <3>1, <3>2, <3>3 DEF BaseInv, OpenedOK, NetworkOK, InOrder
  <2>2. SUFFICES Absent
    OBVIOUS
  <2>3. CASE chan' = chan
    BY <2>1, <2>3
  <2>4. ASSUME NEW u, NEW e, chan' = [chan EXCEPT ![u] = e],
               \/ e = OpenWriter(chan[u]) \/ \E k : e = WriteSample(chan[u], k)
               \/ e \in {Match(chan[u], ReaderOf(u)), Unmatch(chan[u], ReaderOf(u)),
                         Arrive(chan[u], ReaderOf(u)), Lose(chan[u], ReaderOf(u)),
                         TakeSample(chan[u], ReaderOf(u))}
               \/ e = [chan[u] EXCEPT !.reader[ReaderOf(u)].cache = Tail(@)]
        PROVE  Absent
    <3>1. CASE t = u
      <4>1. d = e
        BY <2>1, <2>4, <3>1
      <4>2. d.reader[p].state = c.reader[p].state
        BY <2>1, <2>4, <3>1, <4>1, StateKept
      <4>3. QED BY <2>1, <4>2
    <3>2. CASE t # u
      BY <2>1, <2>4, <3>2
    <3>3. QED BY <3>1, <3>2
  <2>5. ASSUME NEW q \in Process, OpenSubscription(q)
        PROVE  Absent
    <3> DEFINE j == Min(Unopened(q))
               u == Subscriptions[q][j]
    <3>1. /\ j \in Unopened(q) /\ main' = [main EXCEPT ![q].opened = j]
          /\ chan' = [chan EXCEPT ![u] = OpenReader(@, q)]
      BY <2>5, NextUnopened DEF OpenSubscription
    <3> HIDE DEF j
    <3>2. j \in DOMAIN Subscriptions[q] /\ j \in Nat
      BY <3>1, SubscribedOnce DEF Unopened
    <3>3. main'[q].opened = j
      BY <3>1 DEF BaseInv, ThreadsOK, MainRecord
    <3>4. t # u
      <4>1. SUFFICES ASSUME t = u
                     PROVE  FALSE
        OBVIOUS
      <4>2. p = q /\ i = j
        BY <2>1, <3>2, <4>1, SubscribedOnce
      <4>3. QED BY <2>1, <3>2, <3>3, <4>2
    <3>5. QED BY <2>1, <3>1, <3>4
  <2>6. ASSUME NEW q \in Process, Stop(q)
        PROVE  Absent
    <3>1. d = Endpoints(q, t) /\ main[q].at = "stopping"
      BY <2>1, <2>6 DEF Stop
    <3>2. q # p
      BY <2>1, <3>1 DEF BaseInv, OpenedOK
    <3>3. d = c \/ d = CloseWriter(c)
      BY <2>1, <3>1, <3>2 DEF Endpoints
    <3>4. QED BY <2>1, <3>3, StateKept
  <2>7. ASSUME NEW q \in Process,
               Launch(q) \/ Sigint(q) \/ BindSubscription(q) \/ Activated(q) \/ Tick(q)
                 \/ Settled \/ CallbackEnds(q)
        PROVE  chan' = chan
    BY <2>7 DEF Launch, Sigint, BindSubscription, Activated, Tick, Settled, CallbackEnds
  <2>8. ASSUME NEW q \in Process,
               MainCreates(q) \/ MainWrites(q) \/ CallbackCreates(q) \/ CallbackWrites(q)
        PROVE  Absent
    <3>1. CASE MainCreates(q) \/ CallbackCreates(q)
      BY <2>4, <3>1 DEF MainCreates, CallbackCreates, CreatesWriter
    <3>2. CASE MainWrites(q) \/ CallbackWrites(q)
      BY <2>4, <3>2 DEF MainWrites, CallbackWrites, Writes
    <3>3. QED BY <2>8, <3>1, <3>2
  <2>9. ASSUME NEW q \in Process, NEW u \in view, OnSample(q, u)
        PROVE  Absent
    BY <2>4, <2>9 DEF OnSample
  <2>10. ASSUME NEW q \in Process, NEW u \in view, OnSampleUnbound(q, u)
         PROVE  Absent
    <3>1. ReaderOf(u) = q /\ chan' = [chan EXCEPT ![u].reader[q].cache = Tail(@)]
      BY <2>10 DEF OnSampleUnbound
    <3>2. chan' = [chan EXCEPT ![u] = [chan[u] EXCEPT !.reader[q].cache = Tail(@)]]
      BY <3>1
    <3>3. QED BY <2>4, <3>1, <3>2
  <2>11. ASSUME NEW u \in view, Discover(u) \/ Receive(u) \/ Forget(u) \/ Drop(u)
         PROVE  Absent
    <3>1. \E e : /\ chan' = [chan EXCEPT ![u] = e]
                 /\ e \in {Match(chan[u], ReaderOf(u)), Unmatch(chan[u], ReaderOf(u)),
                           Arrive(chan[u], ReaderOf(u)), Lose(chan[u], ReaderOf(u))}
      BY <2>11 DEF Discover, Receive, Forget, Drop, Transport
    <3>2. QED BY <2>4, <3>1
  <2> HIDE DEF Absent
  <2>12. CASE UNCHANGED radarVars
    BY <2>3, <2>12 DEF radarVars
  <2>13. QED
    BY <2>3, <2>5, <2>6, <2>7, <2>8, <2>9, <2>10, <2>11, <2>12
       DEF RadarNext, MainStep, ListenerStep, NetworkStep
<1>3. QED BY <1>1, <1>2 DEF OpenedOK

LEMMA BaseKept ==
  ASSUME BaseInv, CommandsOK, [RadarNext]_radarVars
  PROVE  BaseInv'
<1>1. ThreadsOK'
  <2>1. \A p \in Process : MainRecord(p)' = MainRecord(p) /\ CallbackRecord(p)' = CallbackRecord(p)
    BY DEF MainRecord, CallbackRecord
  <2>2. QED BY <2>1, MainsKept, CallbacksKept DEF ThreadsOK, Process
<1>2. QED BY <1>1, NetworkKept, OpenedKept DEF BaseInv

-----------------------------------------------------------------------------
(* The audit log loses nothing but what start-up missed.                   *)

Audit == "OperatorAuditLog"
AuditOK ==
  Audit \in view =>
    Complete({ReaderOf(Audit)}, SamplesOn(Audit), ReaderOf(Audit), missed[Audit],
             chan[Audit])

LEMMA AuditKept ==
  ASSUME BaseInv, CommandsOK, AuditOK, [RadarNext]_radarVars
  PROVE  AuditOK'
<1>1. SUFFICES ASSUME Audit \in view
               PROVE  Complete({ReaderOf(Audit)}, SamplesOn(Audit), ReaderOf(Audit),
                               missed'[Audit], chan'[Audit])
  BY ViewKept DEF AuditOK
<1>2. TopicStep(Audit)
  BY <1>1, TopicSteps
<1>3. \A p \in Process : \A pub : Published(p, pub) /\ pub.topic = Audit =>
        [id |-> chan[Audit].written + 1, key |-> pub.key] \in SamplesOn(Audit)
  BY <1>1, PublishedSample DEF BaseInv
<1>4. QED BY <1>1, <1>2, <1>3, TopicKeepsComplete DEF AuditOK

-----------------------------------------------------------------------------
(* The topics that are to be up to date.                                   *)

CurrentOK ==
  \A t \in view : Builtin[Binding[t]].reliable =>
    CurrentPair({ReaderOf(t)}, SamplesOn(t), ReaderOf(t), missed[t], chan[t])

LEMMA CurrentOKKept ==
  ASSUME BaseInv, CommandsOK, CurrentOK, [RadarNext]_radarVars
  PROVE  CurrentOK'
<1>1. SUFFICES ASSUME NEW t \in view, Builtin[Binding[t]].reliable
               PROVE  CurrentPair({ReaderOf(t)}, SamplesOn(t), ReaderOf(t), missed'[t], chan'[t])
  BY ViewKept DEF CurrentOK
<1>2. TopicStep(t)
  BY TopicSteps
<1>3. \A p \in Process : \A pub : Published(p, pub) /\ pub.topic = t =>
        [id |-> chan[t].written + 1, key |-> pub.key] \in SamplesOn(t)
  BY PublishedSample DEF BaseInv
<1>4. QED BY <1>1, <1>2, <1>3, TopicKeepsCurrent DEF CurrentOK

-----------------------------------------------------------------------------
(* The acknowledgements.                                                   *)

\* The commands that the sensor's callback has seen, by their numbers.
SeenCommands == Ids(Delivering("Command", chan["Command"]))

\* What the sensor's callback has yet to reply, when it has seen the commands seen
\* and S has been replied.
Replies(S, seen, reply) ==
  \/ reply \in Seq(PubsOn({"ComponentStatus"}))
  \/ \E c \in seen : /\ reply = <<Pub("CommandStatus", c)>>
                     /\ \A s \in S : s.key # c

\* There is a set of acknowledgements, one for a command and only for commands
\* seen, that the channel carries; the reply in progress is none of them.
AcksOK ==
  {"Command", "CommandStatus"} \subseteq view =>
    \E S : /\ InOrder({"workstation"}, S, chan["CommandStatus"])
           /\ \A s \in S : s.key \in SeenCommands
           /\ \A s, u \in S : s.key = u.key => s = u
           /\ Replies(S, SeenCommands, callback["sensor"].reply)

LEMMA MoreSamples ==
  ASSUME NEW Rs, NEW S, NEW T, S \subseteq T, NEW c, InOrder(Rs, S, c)
  PROVE  InOrder(Rs, T, c)
<1>1. \A q \in Seq(Samples(S)) : q \in Seq(Samples(T))
  <2>1. Samples(S) \subseteq Samples(T)
    BY DEF Samples
  <2>2. QED BY <2>1, SeqOfMore
<1>2. \A rd \in ReaderRecord(S) : rd \in ReaderRecord(T)
  BY <1>1 DEF ReaderRecord
<1>3. c \in ChannelRecord(Rs, S) => c \in ChannelRecord(Rs, T)
  BY <1>1, <1>2 DEF ChannelRecord
<1>4. QED BY <1>3 DEF InOrder

\* The sensor's callback is called with a command it has not seen.
LEMMA NewCommand ==
  ASSUME BaseInv, "Command" \in view, OnSample("sensor", "Command")
  PROVE  LET s == Head(chan["Command"].reader["sensor"].cache) IN
         s.key = s.id /\ s.key \notin SeenCommands /\ s.key \in SeenCommands'
<1> DEFINE c == chan["Command"]
           rd == c.reader["sensor"]
           s == Head(rd.cache)
           S == SamplesOn("Command")
<1>1. /\ CanTake(c, "sensor") /\ chan' = [chan EXCEPT !["Command"] = TakeSample(@, "sensor")]
      /\ ReaderOf("Command") = "sensor"
  BY DEF OnSample
<1>2. /\ rd \in ReaderRecord(S) /\ ReaderInOrder(c, rd) /\ "Command" \in DOMAIN chan
      /\ c \in ChannelRecord({"sensor"}, S)
  BY <1>1 DEF BaseInv, NetworkOK, InOrder, ChannelRecord
<1>3. /\ rd.cache \in Seq(Samples(S)) /\ rd.cache # <<>> /\ rd.delivered \in Seq(Samples(S))
      /\ Below(Ids(rd.delivered), Ids(rd.cache))
  BY <1>1, <1>2 DEF CanTake, ReaderRecord, ReaderInOrder
<1>4. s \in Samples(S) /\ s.id \in Ids(rd.cache)
  BY <1>3, IdsTail
<1>5. s.key = s.id /\ s.id \in Nat
  BY <1>4 DEF Samples, SamplesOn
<1>6. s.id \notin Ids(rd.delivered)
  BY <1>3, <1>4, <1>5 DEF Below
<1>7. chan'["Command"].reader["sensor"].delivered = Append(rd.delivered, s)
  <2>1. chan'["Command"] = TakeSample(c, "sensor")
    BY <1>1, <1>2
  <2>2. QED BY <1>2, <2>1 DEF TakeSample, ChannelRecord, ReaderRecord
<1>8. s.id \in Ids(Append(rd.delivered, s))
  BY <1>3, <1>4, IdsAppend
<1>9. SeenCommands = Ids(rd.delivered)
  BY <1>1 DEF SeenCommands, Delivering
<1>10. SeenCommands' = Ids(Append(rd.delivered, s))
  BY <1>1, <1>7 DEF SeenCommands, Delivering
<1>11. QED BY <1>5, <1>6, <1>8, <1>9, <1>10

LEMMA AcksKept ==
  ASSUME BaseInv, CommandsOK, AcksOK, [RadarNext]_radarVars
  PROVE  AcksOK'
<1> DEFINE c == chan["CommandStatus"]
           d == chan'["CommandStatus"]
           reply == callback["sensor"].reply
<1>1. SUFFICES ASSUME "Command" \in view, "CommandStatus" \in view
               PROVE  AcksOK'
  BY ViewKept DEF AcksOK
<1>2. PICK S : /\ InOrder({"workstation"}, S, c)
               /\ \A s \in S : s.key \in SeenCommands
               /\ \A s, u \in S : s.key = u.key => s = u
               /\ Replies(S, SeenCommands, reply)
  BY <1>1 DEF AcksOK
<1>3. SeenCommands \subseteq SeenCommands'
  <2>1. Ids(Delivering("Command", chan["Command"]))
          \subseteq Ids(Delivering("Command", chan'["Command"]))
    BY <1>1, NetworkKept
  <2>2. QED BY <2>1 DEF SeenCommands, Delivering
<1>4. /\ TopicStep("CommandStatus") /\ ReaderOf("CommandStatus") = "workstation"
      /\ "sensor" \in Process /\ reply \in Seq(PubsOn(RepliedBy["sensor"]))
      /\ DOMAIN callback = Process /\ callback["sensor"] \in CallbackRecord("sensor")
  BY <1>1, TopicSteps, ReadersAre DEF Process, BaseInv, ThreadsOK, CallbackRecord
<1>5. ASSUME NEW T, InOrder({"workstation"}, T, d),
             \A s \in T : s.key \in SeenCommands,
             \A s, u \in T : s.key = u.key => s = u,
             Replies(T, SeenCommands', callback'["sensor"].reply)
      PROVE  AcksOK'
  BY <1>3, <1>5 DEF AcksOK
<1>6. ASSUME NEW p \in Process, NEW pub, Published(p, pub), pub.topic = "CommandStatus"
      PROVE  AcksOK'
  <2>1. "CommandStatus" \notin PublishedBy[p] /\ ("CommandStatus" \in RepliedBy[p] => p = "sensor")
    BY DEF PublishedBy, RepliedBy, Process
  <2>2. p = "sensor" /\ CallbackWrites(p) /\ pub = Head(reply) /\ reply # <<>>
    BY <1>6, <2>1, PublishedType DEF PubsOn, BaseInv, CallbackWrites, Replying
  <2>3. reply \notin Seq(PubsOn({"ComponentStatus"}))
    <3>1. SUFFICES ASSUME reply \in Seq(PubsOn({"ComponentStatus"}))
                   PROVE  FALSE
      OBVIOUS
    <3>2. pub \in PubsOn({"ComponentStatus"})
      BY <2>2, <3>1, HeadTailProperties
    <3>3. QED BY <1>6, <3>2 DEF PubsOn
  <2>4. PICK k \in SeenCommands : reply = <<Pub("CommandStatus", k)>> /\ \A s \in S : s.key # k
    BY <1>2, <2>3 DEF Replies
  <2> DEFINE n == [id |-> c.written + 1, key |-> k]
             T == S \union {n}
  <2>5. pub = Pub("CommandStatus", k) /\ Tail(reply) = <<>>
    BY <2>2, <2>4
  <2>6. InOrder({"workstation"}, T, c)
    BY <1>2, MoreSamples
  <2>7. \A x \in Process : \A y : Published(x, y) /\ y.topic = "CommandStatus" =>
          [id |-> c.written + 1, key |-> y.key] \in T
    <3>1. ASSUME NEW x \in Process, NEW y, Published(x, y), y.topic = "CommandStatus"
          PROVE  y = pub
      <4>1. /\ "CommandStatus" \notin PublishedBy[x]
            /\ "CommandStatus" \in RepliedBy[x] => x = "sensor"
        BY DEF PublishedBy, RepliedBy, Process
      <4>2. QED BY <2>2, <3>1, <4>1, PublishedType DEF PubsOn, BaseInv
    <3>2. QED BY <2>5, <3>1 DEF Pub
  <2>8. InOrder({"workstation"}, T, d)
    BY <1>1, <1>4, <2>6, <2>7, TopicKeeps
  <2>9. n.key = k
    OBVIOUS
  <2> HIDE DEF n
  <2>10. /\ \A s \in T : s.key \in SeenCommands
         /\ \A s, u \in T : s.key = u.key => s = u
    BY <1>2, <2>4, <2>9
  <2>11. callback'["sensor"].reply = <<>>
    <3>1. callback' = [callback EXCEPT !["sensor"].reply = Tail(@)]
      BY <2>2 DEF CallbackWrites
    <3>2. QED BY <1>4, <2>5, <3>1 DEF CallbackRecord
  <2>12. <<>> \in Seq(PubsOn({"ComponentStatus"}))
    OBVIOUS
  <2> HIDE DEF T
  <2>13. QED BY <1>5, <2>8, <2>10, <2>11, <2>12 DEF Replies
<1>7. CASE \A p \in Process : \A pub : ~(Published(p, pub) /\ pub.topic = "CommandStatus")
  <2>1. InOrder({"workstation"}, S, d)
    <3>1. \A p \in Process : \A pub : Published(p, pub) /\ pub.topic = "CommandStatus" =>
            [id |-> c.written + 1, key |-> pub.key] \in S
      BY <1>7
    <3>2. QED BY <1>1, <1>2, <1>4, <3>1, TopicKeeps
  <2>2. SUFFICES Replies(S, SeenCommands', callback'["sensor"].reply)
    BY <1>2, <1>5, <2>1
  <2>3. CASE callback'["sensor"].reply = reply
    BY <1>2, <1>3, <2>3 DEF Replies
  <2>4. CASE callback'["sensor"].reply = <<>>
    <3>1. <<>> \in Seq(PubsOn({"ComponentStatus"}))
      OBVIOUS
    <3>2. QED BY <2>4, <3>1 DEF Replies
  <2>5. CASE CallbackWrites("sensor") /\ callback'["sensor"].reply = Tail(reply)
    <3>1. reply # <<>>
      BY <2>5 DEF CallbackWrites, Replying
    <3>2. CASE reply \in Seq(PubsOn({"ComponentStatus"}))
      <4>1. Tail(reply) \in Seq(PubsOn({"ComponentStatus"}))
        BY <3>1, <3>2, HeadTailProperties
      <4>2. QED BY <2>5, <4>1 DEF Replies
    <3>3. CASE \E k : reply = <<Pub("CommandStatus", k)>>
      <4>1. Head(reply).topic = "CommandStatus"
        BY <3>3 DEF Pub
      <4>2. Published("sensor", Head(reply))
        BY <2>5 DEF Published
      <4>3. QED BY <1>4, <1>7, <4>1, <4>2
    <3>4. QED BY <1>2, <3>2, <3>3 DEF Replies
  <2>6. ASSUME NEW t \in view, OnSample("sensor", t),
               callback'["sensor"].reply = Reaction(t, Head(chan[t].reader["sensor"].cache))
        PROVE  Replies(S, SeenCommands', callback'["sensor"].reply)
    <3> DEFINE s == Head(chan[t].reader["sensor"].cache)
    <3>1. s.key \in AllKeys /\ t \in Topics
      BY <1>4, <2>6, TakenSample DEF OnSample, BaseInv, NetworkOK
    <3>2. CASE t = "Command"
      <4>1. /\ Reaction(t, s) = <<Pub("CommandStatus", s.key)>>
        BY <1>1, <3>1, <3>2, ReactionType
      <4>2. s.key \notin SeenCommands /\ s.key \in SeenCommands'
        BY <1>1, <2>6, <3>2, NewCommand
      <4> HIDE DEF s
      <4>3. QED BY <1>2, <2>6, <4>1, <4>2 DEF Replies, s
    <3>3. CASE t # "Command"
      BY <2>6, <3>1, <3>3, ReactionType DEF Replies
    <3>4. QED BY <3>2, <3>3
  <2>7. QED BY <1>4, <2>3, <2>4, <2>5, <2>6, CallbacksKept DEF CallbackChange
<1>8. QED BY <1>6, <1>7

-----------------------------------------------------------------------------
(* The invariant and what follows from it.                                 *)

RadarInv == BaseInv /\ CommandsOK /\ AuditOK /\ CurrentOK /\ AcksOK

LEMMA RadarStart ==
  ASSUME RadarInit
  PROVE  RadarInv
<1> DEFINE New(t) == NewChannel(Offered(t), Requested(t), {ReaderOf(t)})
<1>1. /\ view \in SUBSET Topics /\ DOMAIN chan = view /\ DOMAIN missed = view
      /\ \A t \in view : chan[t] = New(t) /\ missed[t] = {}
  BY ViewsAssumption DEF RadarInit, Offered, Requested
<1>2. \A t \in view : /\ InOrder({ReaderOf(t)}, SamplesOn(t), New(t))
                      /\ Offered(t) \in QosProfile /\ Requested(t) \in QosProfile
  BY <1>1, OfferedRequested, NewChannelInOrder
<1>3. \A t : /\ New(t).writerQos = Offered(t) /\ New(t).readerQos = Requested(t)
             /\ New(t).written = 0 /\ New(t).reader[ReaderOf(t)].state = "absent"
             /\ New(t).reader[ReaderOf(t)].delivered = <<>>
  BY DEF NewChannel, NewReader
<1> HIDE DEF New
<1>4. NetworkOK
  BY <1>1, <1>2, <1>3 DEF NetworkOK
<1>5. /\ DOMAIN main = Process /\ DOMAIN callback = Process
      /\ \A p \in Process : /\ main[p] = [at |-> "down", opened |-> 0, bound |-> 0,
                                          tick |-> 0, todo |-> <<>>]
                            /\ callback[p] = NoCallback
  BY DEF RadarInit
<1>6. /\ <<>> \in Seq(PubsOn(OtherThanCommand))
      /\ <<>> \in Seq(PubsOn({"ComponentStatus"}))
  OBVIOUS
<1>7. ThreadsOK
  <2>1. ASSUME NEW p \in Process
        PROVE  main[p] \in MainRecord(p) /\ callback[p] \in CallbackRecord(p)
    <3>1. /\ <<>> \in Seq(PubsOn(PublishedBy[p])) /\ <<>> \in Seq(PubsOn(RepliedBy[p]))
          /\ "down" \in Places
      BY DEF Places
    <3>2. [at |-> "down", opened |-> 0, bound |-> 0, tick |-> 0, todo |-> <<>>]
            \in MainRecord(p)
      BY <3>1 DEF MainRecord
    <3>3. NoCallback \in CallbackRecord(p)
      BY <3>1 DEF CallbackRecord, NoCallback
    <3>4. QED BY <1>5, <3>2, <3>3
  <2>2. QED BY <1>5, <2>1 DEF ThreadsOK
<1>8. OpenedOK
  <2>1. ASSUME NEW p \in Process, NEW i \in Unopened(p)
        PROVE  chan[Subscriptions[p][i]].reader[p].state = "absent"
    <3>1. i \in DOMAIN Subscriptions[p] /\ Subscriptions[p][i] \in view
      BY DEF Unopened
    <3>2. ReaderOf(Subscriptions[p][i]) = p
      BY <3>1, SubscribedOnce
    <3>3. QED BY <1>1, <1>3, <3>1, <3>2
  <2>2. QED BY <1>5, <2>1 DEF OpenedOK
<1>9. CommandsOK
  <2>1. main["workstation"].todo = <<>> /\ main["workstation"].tick = 0
    BY <1>5 DEF Process
  <2>2. "Command" \in view => chan["Command"].written = 0
    BY <1>1, <1>3
  <2>3. QED BY <1>6, <2>1, <2>2 DEF CommandsOK
<1>10. AuditOK
  <2>1. SUFFICES ASSUME Audit \in view
                 PROVE  Complete({ReaderOf(Audit)}, SamplesOn(Audit), ReaderOf(Audit), {},
                                 New(Audit))
    BY <1>1 DEF AuditOK
  <2>2. /\ Offered(Audit) \in QosProfile /\ Requested(Audit) \in QosProfile
        /\ Offered(Audit).reliable /\ Offered(Audit).keepAll
        /\ Requested(Audit).reliable /\ Requested(Audit).keepAll
    BY <1>1, <2>1, OfferedRequested DEF Audit
  <2>3. QED BY <2>2, NewComplete DEF New
<1>11. CurrentOK
  <2>1. SUFFICES ASSUME NEW t \in view, Builtin[Binding[t]].reliable
                 PROVE  CurrentPair({ReaderOf(t)}, SamplesOn(t), ReaderOf(t), {}, New(t))
    BY <1>1 DEF CurrentOK
  <2>2. /\ Offered(t) \in QosProfile /\ Requested(t) \in QosProfile
        /\ Offered(t).reliable /\ Requested(t).reliable
    BY <1>1, <2>1, OfferedRequested
  <2>3. QED BY <2>2, NewCurrent DEF New
<1>12. AcksOK
  <2>1. SUFFICES ASSUME "CommandStatus" \in view
                 PROVE  AcksOK
    BY DEF AcksOK
  <2>2. InOrder({"workstation"}, {}, New("CommandStatus"))
    BY <1>2, <2>1, NewChannelInOrder, ReadersAre DEF New
  <2>3. Replies({}, SeenCommands, callback["sensor"].reply)
    <3>1. callback["sensor"].reply = <<>>
      BY <1>5 DEF NoCallback, Process
    <3>2. QED BY <1>6, <3>1 DEF Replies
  <2>4. QED BY <1>1, <2>1, <2>2, <2>3 DEF AcksOK
<1>13. QED BY <1>4, <1>7, <1>8, <1>9, <1>10, <1>11, <1>12 DEF RadarInv, BaseInv

\* Whatever the topics, the periods and the cycles: the channels carry what was
\* published in order, commands are numbered as they are written, the audit log
\* is complete, the reliable topics are up to date and each command is acknowledged
\* at most once.
THEOREM RadarAlways == RadarSpec => []RadarInv
<1>1. RadarInit => RadarInv
  BY RadarStart
<1>2. RadarInv /\ [RadarNext]_radarVars => RadarInv'
  BY BaseKept, CommandsKept, AuditKept, CurrentOKKept, AcksKept DEF RadarInv
<1>3. QED BY <1>1, <1>2, PTL DEF RadarSpec

\* A workstation that starts late gets no track and no I/Q sample that was
\* published before it was matched.
THEOREM NothingOld == RadarSpec => []NoOldTracks
<1>1. RadarInv => NoOldTracks
  <2>1. SUFFICES ASSUME BaseInv, NEW t \in view, t \in {"RadarTrack", "RawIQSample"},
                        NEW n \in Ids(Reads(t).delivered)
                 PROVE  n > Reads(t).joined
    BY DEF NoOldTracks, RadarInv
  <2>2. /\ InOrder({ReaderOf(t)}, SamplesOn(t), chan[t]) /\ t \in Topics
        /\ chan[t].writerQos = Offered(t)
    BY <2>1 DEF BaseInv, NetworkOK
  <2>3. /\ ReaderInOrder(chan[t], Reads(t)) /\ Reads(t) \in ReaderRecord(SamplesOn(t))
        /\ ~DurablePair(chan[t])
    BY <2>1, <2>2, OfferedRequested DEF InOrder, Reads, ChannelRecord, DurablePair
  <2>4. n \in Nat /\ Reads(t).joined \in Nat
    BY <2>1, <2>3, IdsType DEF ReaderRecord
  <2>5. QED BY <2>1, <2>3, <2>4 DEF ReaderInOrder, DueOf
<1>2. QED BY <1>1, RadarAlways, PTL

\* While the sensor is connected its audit log is complete: every entry the
\* workstation wrote since the match is with it or on its way, but for those that
\* came before the callback was bound.
THEOREM AuditKeeps == RadarSpec => []AuditComplete
<1>1. RadarInv => AuditComplete
  <2> DEFINE c == chan[Audit]
             r == Reads(Audit)
  <2>1. SUFFICES ASSUME BaseInv, AuditOK, Audit \in view, r.matched, r.state = "up"
                 PROVE  DueOf(r) \union missed[Audit] = r.joined + 1 .. c.written
    BY DEF AuditComplete, RadarInv, Audit, DueOf
  <2>2. ReaderComplete(c, r, missed[Audit])
    BY <2>1 DEF AuditOK, Complete, Reads
  <2>3. ~DurablePair(c)
    BY <2>1, OfferedRequested DEF BaseInv, NetworkOK, Audit, DurablePair
  <2> HIDE DEF c, r
  <2>4. QED BY <2>1, <2>2, <2>3 DEF ReaderComplete, First
<1>2. QED BY <1>1, RadarAlways, PTL

\* On every topic with a reliable profile a connected process is told the newest
\* command, status, alarm, cue and chat line that the other one holds, with a
\* durable profile also those from before it came, but for what it took before its
\* callback was bound: whatever the history depths, and however far it falls behind.
THEOREM NeverOutdated == RadarSpec => []CurrentKnown
<1>1. RadarInv => CurrentKnown
  <2> DEFINE r(t) == Reads(t)
  <2>1. SUFFICES ASSUME BaseInv, CurrentOK, NEW t \in view, Builtin[Binding[t]].reliable,
                        r(t).matched, r(t).state = "up", NEW s \in Newest(chan[t].history),
                        Builtin[Binding[t]].durable \/ s.id > r(t).joined
                 PROVE  s.id \in DueOf(r(t)) \union missed[t]
    BY DEF CurrentKnown, RadarInv, DueOf
  <2>2. /\ chan[t].history \in Seq(Samples(SamplesOn(t))) /\ t \in Topics
        /\ r(t).joined \in Nat
        /\ chan[t].writerQos = Offered(t) /\ chan[t].readerQos = Requested(t)
    BY <2>1 DEF BaseInv, NetworkOK, InOrder, ChannelRecord, ReaderRecord, Reads
  <2>3. s.id \in Nat
    BY <2>2, SetIds DEF Newest
  <2>4. DurablePair(chan[t]) \/ r(t).joined < s.id
    BY <2>1, <2>2, <2>3, OfferedRequested DEF DurablePair
  <2>5. ReaderCurrent(chan[t], r(t), missed[t])
    BY <2>1 DEF CurrentOK, CurrentPair, Reads
  <2>6. QED BY <2>1, <2>4, <2>5 DEF ReaderCurrent
<1>2. QED BY <1>1, RadarAlways, PTL

LEMMA AsManyKeys ==
  ASSUME NEW S, NEW q \in Seq(Samples(S)), Increasing(q),
         \A s, u \in S : s.key = u.key => s = u
  PROVE  Cardinality(Keys(q)) = Len(q)
<1> DEFINE I == 1 .. Len(q)
           f == [i \in I |-> q[i].key]
<1>1. /\ Len(q) \in Nat /\ DOMAIN q = I
      /\ \A i \in I : q[i] \in S /\ q[i].id \in Nat
  <2>1. Len(q) \in Nat /\ DOMAIN q = I
    BY LenProperties
  <2>2. \A i \in I : q[i] \in Samples(S)
    OBVIOUS
  <2>3. QED BY <2>1, <2>2 DEF Samples
<1>2. ASSUME NEW i \in I, NEW j \in I, q[i].key = q[j].key
      PROVE  i = j
  <2>1. q[i] = q[j] /\ q[i].id \in Nat
    BY <1>1, <1>2
  <2>2. ~(q[i].id < q[j].id) /\ ~(q[j].id < q[i].id)
    BY <2>1
  <2>3. ~(i < j) /\ ~(j < i)
    BY <1>1, <2>2 DEF Increasing
  <2>4. QED BY <2>3
<1>3. f \in [I -> Keys(q)] /\ \A k \in Keys(q) : \E i \in I : f[i] = k
  BY <1>1 DEF Keys
<1>4. \A i, j \in I : f[i] = f[j] => i = j
  BY <1>2
<1> HIDE DEF f
<1>5. f \in Bijection(I, Keys(q))
  BY <1>3, <1>4, Fun_IsBij
<1>6. IsFiniteSet(I) /\ Cardinality(I) = Len(q)
  <2>1. 1 \in Int /\ Len(q) \in Int
    BY <1>1
  <2>2. IsFiniteSet(I) /\ Cardinality(I) = IF 1 > Len(q) THEN 0 ELSE Len(q) - 1 + 1
    BY <2>1, FS_Interval, Zenon
  <2>3. QED BY <1>1, <2>2
<1>7. ExistsBijection(I, Keys(q))
  BY <1>5 DEF ExistsBijection
<1>8. QED BY <1>6, <1>7, FS_Bijection

\* The workstation sees at most one acknowledgement of a command, and only of a
\* command that the sensor's callback has seen.
THEOREM AcknowledgedOnce == RadarSpec => []AckedOnce
<1>1. RadarInv => AckedOnce
  <2> DEFINE acks == Reads("CommandStatus").delivered
             cmds == Reads("Command").delivered
  <2>1. SUFFICES ASSUME BaseInv, AcksOK, "Command" \in view, "CommandStatus" \in view
                 PROVE  Cardinality(Keys(acks)) = Len(acks) /\ Keys(acks) \subseteq Keys(cmds)
    BY DEF AckedOnce, RadarInv
  <2>2. PICK S : /\ InOrder({"workstation"}, S, chan["CommandStatus"])
                 /\ \A s \in S : s.key \in SeenCommands
                 /\ \A s, u \in S : s.key = u.key => s = u
    BY <2>1 DEF AcksOK
  <2>3. acks \in Seq(Samples(S)) /\ Increasing(acks)
    BY <2>2, ReadersAre DEF InOrder, ChannelRecord, ReaderRecord, ReaderInOrder, Reads
  <2>4. cmds \in Seq(Samples(SamplesOn("Command")))
    BY <2>1, ReadersAre DEF BaseInv, NetworkOK, InOrder, ChannelRecord, ReaderRecord, Reads
  <2>5. SeenCommands = Ids(cmds)
    BY DEF SeenCommands, Delivering, Reads
  <2> HIDE DEF acks, cmds
  <2>6. \A i \in DOMAIN cmds : cmds[i].key = cmds[i].id
    <3>1. \A i \in DOMAIN cmds : cmds[i] \in Samples(SamplesOn("Command"))
      BY <2>4
    <3>2. QED BY <3>1 DEF Samples, SamplesOn
  <2>7. Keys(acks) \subseteq Keys(cmds)
    <3>1. \A i \in DOMAIN acks : acks[i] \in Samples(S)
      BY <2>3
    <3>2. \A i \in DOMAIN acks : acks[i].key \in Ids(cmds)
      BY <2>2, <2>5, <3>1 DEF Samples
    <3>3. Ids(cmds) \subseteq Keys(cmds)
      BY <2>6 DEF Ids, Keys
    <3>4. QED BY <3>2, <3>3 DEF Keys
  <2>8. QED BY <2>2, <2>3, <2>7, AsManyKeys
<1>2. QED BY <1>1, RadarAlways, PTL

=============================================================================
