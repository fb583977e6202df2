---------------------------- MODULE RadarSystem ----------------------------
(***************************************************************************)
(* The radar demo: SensorApp and WorkstationApp, each a main thread that   *)
(* starts the facade and publishes in a loop until SIGINT, and a listener  *)
(* thread whose callbacks may publish replies, joined by ten topics.  What *)
(* a Service does inside a call is in modules Service and Delivery, what   *)
(* the samples mean to the radar is left out.                              *)
(***************************************************************************)
EXTENDS Channel

CONSTANTS
  Views,          \* sets of topics: a behaviour has the topics of one of them
  MaxTicks,       \* bound on the cycles of a process' main loop
  MaxDepth,       \* cap on the history depth of the profiles, 10 in the files
  Beams, Tracks, Components, \* <<0, 1, 2, 3>>, <<100, 101>>, and the two parts
                             \* of the sensor, in the order they are published
  HeartbeatEvery, \* 10 ticks of the sensor
  AlarmEvery      \* 50 ticks

ASSUME PeriodsAssumption == HeartbeatEvery \in Nat \ {0} /\ AlarmEvery \in Nat \ {0}
ASSUME MaxDepthAssumption == MaxDepth \in Nat \ {0}
ASSUME KeysAssumption ==
  /\ Beams \in Seq(ToSet(Beams)) /\ Tracks \in Seq(ToSet(Tracks))
  /\ Components \in Seq(ToSet(Components))

Process == {"sensor", "workstation"}

\* sensor_topics.ini and workstation_topics.ini, which agree; the XML profiles
\* mirror the built-in ones (XmlMirrorsBuiltin of module TopicConfig).
Binding ==
  [Command |-> "reliable", CommandStatus |-> "reliable",
   ComponentStatus |-> "reliable_transient", RadarTrack |-> "streaming",
   ComponentStatusRequest |-> "best_effort", SystemAlarm |-> "latched",
   RawIQSample |-> "streaming", TrackingCue |-> "reliable",
   OperatorAuditLog |-> "event_bus", OperatorChat |-> "reliable"]
Topics == DOMAIN Binding
ASSUME ViewsAssumption == Views \subseteq SUBSET Topics

\* Mutants: the audit log is bound as commands are, acknowledgements as polls;
\* component status and alarms are not durable; tracks are.
ProfileAcksBestEffort(t) ==
  Builtin[IF t = "CommandStatus" THEN "best_effort" ELSE Binding[t]]
ProfileAuditReliable(t) ==
  [Builtin[IF t = "OperatorAuditLog" THEN "reliable" ELSE Binding[t]]
     EXCEPT !.depth = IF @ > MaxDepth THEN MaxDepth ELSE @]
ProfileNotDurable(t) ==
  [Builtin[Binding[t]] EXCEPT !.depth = IF @ > MaxDepth THEN MaxDepth ELSE @,
                              !.durable = FALSE]
ProfileTracksDurable(t) ==
  [Builtin[IF t = "RadarTrack" THEN "latched" ELSE Binding[t]]
     EXCEPT !.depth = IF @ > MaxDepth THEN MaxDepth ELSE @]

ProfileOf(t) ==
  [Builtin[Binding[t]] EXCEPT !.depth = IF @ > MaxDepth THEN MaxDepth ELSE @]

\* Who subscribes to what, in the order of the calls.
Subscriptions ==
  [sensor      |-> <<"Command", "ComponentStatusRequest", "TrackingCue",
                     "OperatorAuditLog">>,
   workstation |-> <<"ComponentStatus", "RadarTrack", "CommandStatus",
                     "SystemAlarm", "RawIQSample", "OperatorChat">>]
ReaderOf(t) == CHOOSE p \in Process : t \in ToSet(Subscriptions[p])
WriterOf(t) == IF t = "OperatorChat" THEN "workstation"
                 ELSE CHOOSE p \in Process : p # ReaderOf(t)

VARIABLES
  view,    \* the topics of this behaviour
  chan,    \* the channel of each
  running, \* g_running of each process
  main,    \* each main thread: where it is, which of its subscriptions is the
           \* last with a reader and which the last with a callback, its loop
           \* counter, what it has yet to publish in this cycle
  callback,\* what the callback in progress has yet to publish, if there is one
  missed   \* of each topic, samples taken before the callback was installed

radarVars == <<view, chan, running, main, callback, missed>>

NoCallback == [on |-> "nothing", reply |-> <<>>]

RadarInit ==
  /\ view \in Views
  /\ chan = [t \in view |-> NewChannel(ApplyQos(ProfileOf(t), WriterDefaults),
                                       ApplyQos(ProfileOf(t), ReaderDefaults),
                                       {ReaderOf(t)})]
  /\ running = [p \in Process |-> TRUE]
  /\ main = [p \in Process |-> [at |-> "down", opened |-> 0, bound |-> 0,
                                tick |-> 0, todo |-> <<>>]]
  /\ callback = [p \in Process |-> NoCallback]
  /\ missed = [t \in view |-> {}]

Goto(p, at) == main' = [main EXCEPT ![p].at = at]

-----------------------------------------------------------------------------
\* What a cycle publishes on the topics of the view, with the keys of the
\* samples.
Pub(topic, key) == [topic |-> topic, key |-> key]
When(condition, topic, keys) ==
  IF condition /\ topic \in view THEN [i \in DOMAIN keys |-> Pub(topic, keys[i])]
                                 ELSE <<>>
EachOf(topic, keys) == When(TRUE, topic, keys)

\* The while loop of WorkstationApp's main: cmd_seq is tick + 1.
WorkstationCycle(tick) ==
  EachOf("Command", <<tick + 1>>)
  \o EachOf("OperatorAuditLog", <<"ws_operator_1">>)
  \o When(tick % 3 = 2, "ComponentStatusRequest", <<(tick \div 3) + 1>>)
  \o When(tick % 2 = 0, "TrackingCue", <<"ws_operator_1">>)
  \o When(tick % 3 = 0, "OperatorChat", <<"ws_operator_1">>)

\* The while loop of SensorApp's main.
SensorCycle(tick) ==
  EachOf("RawIQSample", Beams)
  \o When(tick % HeartbeatEvery = 0, "ComponentStatus", Components)
  \o When(tick % HeartbeatEvery = 0, "RadarTrack", Tracks)
  \o When(tick > 0 /\ tick % AlarmEvery = 0, "SystemAlarm", <<1>>)

Cycle(p, tick) == IF p = "sensor" THEN SensorCycle(tick) ELSE WorkstationCycle(tick)

\* Mutant: each command is acknowledged on receipt and on execution.
ReactionTwice(t, s) ==
  CASE t = "Command" -> EachOf("CommandStatus", <<s.key, s.key>>)
    [] t = "ComponentStatusRequest" -> EachOf("ComponentStatus", Components)
    [] OTHER -> <<>>

\* What the callback on a topic publishes in answer to a sample.
Reaction(t, s) ==
  CASE t = "Command" -> EachOf("CommandStatus", <<s.key>>)
    [] t = "ComponentStatusRequest" -> EachOf("ComponentStatus", Components)
    [] OTHER -> <<>>

-----------------------------------------------------------------------------
\* Main threads: pre_activate and the calls of subscribe, which stage.
Launch(p) ==
  /\ main[p].at = "down"
  /\ Goto(p, "activating")
  /\ UNCHANGED <<view, chan, running, callback, missed>>

\* The subscriptions in the view that have no reader yet.
Unopened(p) ==
  {i \in DOMAIN Subscriptions[p] : i > main[p].opened /\ Subscriptions[p][i] \in view}

\* post_activate makes the readers one by one and then binds each callback.
OpenSubscription(p) ==
  LET i == Min(Unopened(p)) IN
  /\ main[p].at = "activating" /\ main[p].opened = main[p].bound /\ Unopened(p) # {}
  /\ chan' = [chan EXCEPT ![Subscriptions[p][i]] = OpenReader(@, p)]
  /\ main' = [main EXCEPT ![p].opened = i]
  /\ UNCHANGED <<view, running, callback, missed>>
BindSubscription(p) ==
  /\ main[p].at = "activating" /\ main[p].bound < main[p].opened
  /\ main' = [main EXCEPT ![p].bound = main[p].opened]
  /\ UNCHANGED <<view, chan, running, callback, missed>>

\* WorkstationApp settles for two seconds, SensorApp does not.
Activated(p) ==
  /\ main[p].at = "activating" /\ main[p].bound = main[p].opened /\ Unopened(p) = {}
  /\ Goto(p, IF p = "workstation" THEN "settle" ELSE "loop")
  /\ UNCHANGED <<view, chan, running, callback, missed>>
Settled ==
  /\ main["workstation"].at = "settle"
  /\ Goto("workstation", "loop")
  /\ UNCHANGED <<view, chan, running, callback, missed>>

\* Mutant: the loop does not look at g_running.
TickForever(p) ==
  /\ main[p].at = "loop" /\ main[p].todo = <<>>
  /\ main[p].tick < MaxTicks
  /\ main' = [main EXCEPT ![p].tick = @ + 1, ![p].todo = Cycle(p, main[p].tick)]
  /\ UNCHANGED <<view, chan, running, callback, missed>>

\* while (g_running.load()).
Tick(p) ==
  /\ main[p].at = "loop" /\ main[p].todo = <<>>
  /\ IF running[p]
       THEN /\ main[p].tick < MaxTicks
            /\ main' = [main EXCEPT ![p].tick = @ + 1,
                                    ![p].todo = Cycle(p, main[p].tick)]
       ELSE Goto(p, "stopping")
  /\ UNCHANGED <<view, chan, running, callback, missed>>

\* Service::publish: the first one on a topic creates the writer, and then
\* each writes.
CreatesWriter(pub) ==
  /\ chan[pub.topic].writer = "absent"
  /\ chan' = [chan EXCEPT ![pub.topic] = OpenWriter(@)]
Writes(pub) ==
  /\ chan[pub.topic].writer = "up" /\ RoomToWrite(chan[pub.topic])
  /\ chan' = [chan EXCEPT ![pub.topic] = WriteSample(@, pub.key)]

MainCreates(p) ==
  /\ main[p].todo # <<>> /\ CreatesWriter(Head(main[p].todo))
  /\ UNCHANGED <<view, running, main, callback, missed>>
MainWrites(p) ==
  /\ main[p].todo # <<>> /\ Writes(Head(main[p].todo))
  /\ main' = [main EXCEPT ![p].todo = Tail(@)]
  /\ UNCHANGED <<view, running, callback, missed>>

\* deactivate waits for the callback in progress and deletes every endpoint.
Endpoints(p, t) ==
  LET c == IF WriterOf(t) = p /\ chan[t].writer = "up" THEN CloseWriter(chan[t])
                                                      ELSE chan[t]
  IN IF ReaderOf(t) = p THEN CloseReader(c, p) ELSE c
Stop(p) ==
  /\ main[p].at = "stopping" /\ callback[p] = NoCallback
  /\ chan' = [t \in view |-> Endpoints(p, t)]
  /\ Goto(p, "stopped")
  /\ UNCHANGED <<view, running, callback, missed>>

\* handle_sigint.
Sigint(p) ==
  /\ running[p] /\ main[p].at # "stopped"
  /\ running' = [running EXCEPT ![p] = FALSE]
  /\ UNCHANGED <<view, chan, main, callback, missed>>

-----------------------------------------------------------------------------
\* Listener threads.  A sample taken before the callback is bound is lost.
BoundTopic(p, t) == \E i \in 1 .. main[p].bound : Subscriptions[p][i] = t

OnSample(p, t) ==
  /\ callback[p] = NoCallback /\ ReaderOf(t) = p /\ CanTake(chan[t], p)
  /\ BoundTopic(p, t)
  /\ chan' = [chan EXCEPT ![t] = TakeSample(@, p)]
  /\ callback' = [callback EXCEPT ![p] =
       [on |-> t, reply |-> Reaction(t, Head(chan[t].reader[p].cache))]]
  /\ UNCHANGED <<view, running, main, missed>>
OnSampleUnbound(p, t) ==
  /\ callback[p] = NoCallback /\ ReaderOf(t) = p /\ CanTake(chan[t], p)
  /\ ~BoundTopic(p, t)
  /\ chan' = [chan EXCEPT ![t].reader[p].cache = Tail(@)]
  /\ missed' = [missed EXCEPT ![t] = @ \union {Head(chan[t].reader[p].cache).id}]
  /\ UNCHANGED <<view, running, main, callback>>

Replying(p) == callback[p].reply # <<>>
CallbackCreates(p) ==
  /\ Replying(p) /\ main[p].at # "activating"
  /\ CreatesWriter(Head(callback[p].reply))
  /\ UNCHANGED <<view, running, main, callback, missed>>
CallbackWrites(p) ==
  /\ Replying(p) /\ main[p].at # "activating"
  /\ Writes(Head(callback[p].reply))
  /\ callback' = [callback EXCEPT ![p].reply = Tail(@)]
  /\ UNCHANGED <<view, running, main, missed>>

\* publish throws until post_activate has returned; otherwise the callback ends
\* when it has replied.
CallbackEnds(p) ==
  /\ callback[p] # NoCallback /\ (Replying(p) => main[p].at = "activating")
  /\ callback' = [callback EXCEPT ![p] = NoCallback]
  /\ UNCHANGED <<view, chan, running, main, missed>>

-----------------------------------------------------------------------------
\* Discovery and delivery between the processes.
Transport(t, next) ==
  /\ chan' = [chan EXCEPT ![t] = next]
  /\ UNCHANGED <<view, running, main, callback, missed>>
Discover(t) == CanMatch(chan[t], ReaderOf(t))
                 /\ Transport(t, Match(chan[t], ReaderOf(t)))
Forget(t)   == CanUnmatch(chan[t], ReaderOf(t))
                 /\ Transport(t, Unmatch(chan[t], ReaderOf(t)))
Receive(t)  == CanArrive(chan[t], ReaderOf(t))
                 /\ Transport(t, Arrive(chan[t], ReaderOf(t)))
Drop(t)     == CanLose(chan[t], ReaderOf(t))
                 /\ Transport(t, Lose(chan[t], ReaderOf(t)))

MainStep(p) ==
  \/ OpenSubscription(p) \/ BindSubscription(p) \/ Activated(p)
  \/ Tick(p) \/ MainCreates(p) \/ MainWrites(p) \/ Stop(p)
  \/ p = "workstation" /\ Settled
ListenerStep(p) ==
  \/ \E t \in view : OnSample(p, t) \/ OnSampleUnbound(p, t)
  \/ CallbackCreates(p) \/ CallbackWrites(p) \/ CallbackEnds(p)
NetworkStep == \E t \in view : Discover(t) \/ Receive(t)

RadarNext ==
  \/ \E p \in Process : Launch(p) \/ Sigint(p) \/ MainStep(p) \/ ListenerStep(p)
  \/ NetworkStep
  \/ \E t \in view : Forget(t) \/ Drop(t)

RadarSpec == RadarInit /\ [][RadarNext]_radarVars

\* The threads run and the network keeps trying; nobody has to start a process
\* or to interrupt it.  With boundedly many samples one condition for all topics
\* is as strong as one for each.
FairRadarSpec ==
  /\ RadarSpec
  /\ \A p \in Process : WF_radarVars(MainStep(p)) /\ WF_radarVars(ListenerStep(p))
  /\ WF_radarVars(NetworkStep)

-----------------------------------------------------------------------------
Reads(t) == chan[t].reader[ReaderOf(t)]
Keys(q) == {q[i].key : i \in DOMAIN q}
Delivered(t) == IF t \in view THEN Reads(t).delivered ELSE <<>>
InUse(t) == \A p \in {ReaderOf(t), WriterOf(t)} : main[p].at = "loop" /\ running[p]

\* The workstation sees at most one acknowledgement of a command, and only of a
\* command the sensor's callback has seen.
AckedOnce ==
  {"Command", "CommandStatus"} \subseteq view =>
    LET acks == Reads("CommandStatus").delivered IN
    /\ Cardinality(Keys(acks)) = Len(acks)
    /\ Keys(acks) \subseteq Keys(Reads("Command").delivered)

\* While the sensor is connected no audit entry is left out (README: "Never drop
\* a session-active log entry"), but for those its start-up missed.
AuditComplete ==
  "OperatorAuditLog" \in view =>
    LET r == Reads("OperatorAuditLog") IN
    r.matched /\ r.state = "up" =>
      Ids(r.owed) \union Ids(r.cache) \union Ids(r.delivered) \union
        missed["OperatorAuditLog"] = r.joined + 1 .. chan["OperatorAuditLog"].written

\* On the topics whose profile is reliable a connected process is never left with
\* an outdated command, status, cue or chat line: the newest sample of each key
\* that the other one holds is on its way, has arrived or was missed in start-up,
\* but for the volatile ones from before the match.
CurrentKnown ==
  \A t \in {x \in view : Builtin[Binding[x]].reliable} :
    LET r == Reads(t) IN
    r.matched /\ r.state = "up" =>
      \A s \in Newest(chan[t].history) :
        Builtin[Binding[t]].durable \/ s.id > r.joined =>
          s.id \in Ids(r.owed) \union Ids(r.cache) \union Ids(r.delivered) \union missed[t]

\* A workstation that starts late gets "no replayed RadarTrack or RawIQSample
\* data" (README).
NoOldTracks ==
  \A t \in view \intersect {"RadarTrack", "RawIQSample"} :
    \A n \in Ids(Reads(t).delivered) : n > Reads(t).joined

\* A reply to a command that finds the workstation connected arrives, unless a
\* process is interrupted first.
AcksArrive ==
  \A c \in 1 .. MaxTicks :
    ({"Command", "CommandStatus"} \subseteq view /\ InUse("CommandStatus")
       /\ callback["sensor"].reply = <<Pub("CommandStatus", c)>>
       /\ Reads("CommandStatus").matched)
    ~> (c \in Keys(Delivered("CommandStatus")) \/ ~InUse("CommandStatus"))

\* The newest sample of some key is not at the reader's callback.
Outdated(t) ==
  \E s \in Newest(chan[t].history) : s.id \notin Ids(Reads(t).delivered) \union missed[t]

\* "Late workstation immediately sees the current state" (README): the newest
\* status of each component and the newest alarm reach it whenever it starts,
\* unless start-up missed them.
LateWorkstationInformed ==
  \A t \in {"ComponentStatus", "SystemAlarm"} :
    (t \in view /\ InUse(t) /\ Outdated(t))
    ~> (~InUse(t) \/ (t \in view /\ ~Outdated(t)))

\* "Ctrl-C exits cleanly": an interrupted process leaves its loop and its
\* deactivate returns, with callbacks still replying.
StopsCleanly ==
  \A p \in Process : main[p].at # "down" /\ ~running[p] ~> main[p].at = "stopped"

-----------------------------------------------------------------------------
\* WorkstationApp.cpp: "Brief settle so the very first publish isn't a black hole
\* if the sensor is just starting up."  With the sensor in its loop before the
\* workstation has settled the first command should reach it.
FirstCommandArrives ==
  ("Command" \in view /\ main["workstation"].at = "settle" /\ main["sensor"].at = "loop")
  ~> (\/ 1 \in Keys(Delivered("Command"))
      \/ \E p \in Process : ~running[p])
=============================================================================
