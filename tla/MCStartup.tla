----------------------------- MODULE MCStartup -----------------------------
(* Instances of Startup: arbitrary short bootstrap files and topic files,  *)
(* and the files of the radar demo.                                        *)
EXTENDS Startup

\* The range of int, scaled down.
MCIntMin == -100
MCIntMax == 100

MCParties == {"sensor", "workstation"}

Ref(name)    == [xml |-> FALSE, name |-> name]
XmlRef(name) == [xml |-> TRUE, name |-> name]

\* radar_qos.xml.
Settings(reliable, durable, depth) ==
  [reliable |-> reliable, durable |-> durable, keepAll |-> FALSE, depth |-> depth]
RadarXml ==
  [RadarTrackStreaming    |-> [writer |-> Settings(FALSE, FALSE, 1),
                               reader |-> Settings(FALSE, FALSE, 1)],
   ComponentStatusDurable |-> [writer |-> Settings(TRUE, TRUE, 10),
                               reader |-> Settings(TRUE, TRUE, 10)]]

\* Files of up to two lines on two topics, every kind of reference.
ShortTopics == {"a", "b"}
References ==
  {Ref(n) : n \in {"best_effort", "critical", "heartbeat", "no_such_profile"}}
  \union {XmlRef(n) : n \in {"RadarTrackStreaming", "NoSuchProfile"}}
Lines == {Blank, Malformed} \union {Binds(t, r) : t \in ShortTopics, r \in References}
ShortFiles == UNION {[1 .. n -> Lines] : n \in 0 .. 2}
OneLine    == {<<Binds("a", r)>> : r \in References}

\* sensor_topics.ini and workstation_topics.ini.
SensorFile ==
  <<Blank,
    Binds("ComponentStatus", XmlRef("ComponentStatusDurable")),
    Binds("RadarTrack", XmlRef("RadarTrackStreaming")),
    Binds("CommandStatus", Ref("reliable")),
    Binds("SystemAlarm", Ref("latched")),
    Binds("RawIQSample", Ref("streaming")),
    Blank,
    Binds("Command", Ref("reliable")),
    Binds("ComponentStatusRequest", Ref("best_effort")),
    Binds("TrackingCue", Ref("reliable")),
    Binds("OperatorAuditLog", Ref("event_bus"))>>
WorkstationFile == Append(SensorFile, Binds("OperatorChat", Ref("reliable")))

MCTopics == ShortTopics \union {f.topic : f \in {l \in ToSet(WorkstationFile) : l.kind = "binds"}}
MCFiles ==
  ("sensor_topics.ini" :> {SensorFile}) @@ ("workstation_topics.ini" :> {WorkstationFile})
  @@ ("short.ini" :> ShortFiles) @@ ("one.ini" :> OneLine)
MCXmlFiles == "radar_qos.xml" :> RadarXml

\* Bootstrap files: the demo's; one for a short topic file, with and without
\* XML; and every file of up to two of these lines and then a topic file.
DemoFile(topics) ==
  <<Entry("domain_id", Number(43)), Entry("config_file", Word("rtps.ini")),
    Entry("topic_config_file", Word(topics)), Entry("qos_xml_file", Word("radar_qos.xml"))>>
SensorBoot      == DemoFile("sensor_topics.ini")
WorkstationBoot == DemoFile("workstation_topics.ini")

TopicFile(n) == Entry("topic_config_file", Word(n))
Plain(n)     == {<<TopicFile(n)>>, <<TopicFile(n), Entry("qos_xml_file", Word("radar_qos.xml"))>>}

BootLines ==
  {Blank, Malformed, Entry("no_such_key", Word("x")),
   Entry("domain_id", Number(43)), Entry("domain_id", Number(7)), Entry("domain_id", Number(101)),
   Entry("domain_id", Word("43 x")), Entry("config_file", Word("rtps.ini")),
   TopicFile("no_such.ini"), Entry("qos_xml_file", Word("no_such.xml")),
   Entry("runtime_arg", Word("-a")), Entry("runtime_arg", Word("-b"))}
ShortBoots == UNION {[1 .. n -> BootLines] : n \in 0 .. 2}

MCBootFiles ==
  [p \in MCParties |->
     IF p = "sensor"
       THEN {SensorBoot} \union Plain("short.ini") \union ShortBoots
            \union {Append(f, TopicFile("sensor_topics.ini")) : f \in ShortBoots}
       ELSE {WorkstationBoot} \union Plain("one.ini")]
MCCommandLine == [p \in MCParties |-> IF p = "sensor" THEN <<"-c">> ELSE <<>>]

\* radar_qos.xml is as the theorems on SameReferenceMatches and on
\* XmlMirrorsBuiltin need it.
ASSUME PartsAssumption == XmlPartsMatch /\ XmlStatesMirrors

\* With the files of the demo both applications join domain 43, and can talk in
\* both directions on every topic that both files bind.
DemoMeets ==
  /\ text["sensor"] = SensorBoot /\ started["sensor"] # NotStarted
  /\ text["workstation"] = WorkstationBoot /\ started["workstation"] # NotStarted
  => \A p, q \in MCParties :
       /\ started[p].domain = 43
       /\ \A t \in DOMAIN bindings[p] \intersect DOMAIN bindings[q] :
            Compatible(WriterQosFor(p, t), ReaderQosFor(q, t))
=============================================================================
