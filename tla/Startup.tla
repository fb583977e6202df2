------------------------------ MODULE Startup ------------------------------
(***************************************************************************)
(* How a process starts: the application loads its bootstrap file, appends *)
(* its command line to the runtime arguments and calls                     *)
(* Service::pre_activate(bootstrap), which loads the topic file and the    *)
(* DDS-XML file and only then starts the runtime on the domain.            *)
(***************************************************************************)
EXTENDS BootstrapConfig

CONSTANT CommandLine  \* for each party, the arguments it was started with

ASSUME CommandLineAssumption == \A p \in Parties : CommandLine[p] \in Seq(STRING)

VARIABLE started  \* what TheParticipantFactoryWithArgs and create_participant got

startupVars == <<configVars, bootVars, started>>

NotStarted == [argv |-> <<>>, domain |-> 0]

StartupInit ==
  /\ ConfigInit /\ BootInit
  /\ started = [p \in Parties |-> NotStarted]

\* Mutant: the command line comes before the arguments of the file.
BeginPreActivateSwapped(p) ==
  /\ booted[p] = "loaded"
  /\ boot' = [boot EXCEPT ![p].runtime_args = CommandLine[p] \o @]
  /\ LoadFromFile(p, boot[p].topic_config_file)
  /\ UNCHANGED <<text, textLine, booted, started>>

\* main forwards its arguments and calls pre_activate, which opens the topic
\* file.
BeginPreActivate(p) ==
  /\ booted[p] = "loaded"
  /\ boot' = [boot EXCEPT ![p].runtime_args = @ \o CommandLine[p]]
  /\ LoadFromFile(p, boot[p].topic_config_file)
  /\ UNCHANGED <<text, textLine, booted, started>>

ReadTopicFile(p) ==
  /\ ReadLine(p) \/ EndOfFile(p)
  /\ UNCHANGED <<bootVars, started>>

\* pre_activate loads the XML file only if the bootstrap file names one.
LoadXml(p) ==
  /\ IF boot[p].qos_xml_file = "" THEN NoXmlQosFile(p)
                                  ELSE UseXmlQosFile(p, boot[p].qos_xml_file)
  /\ UNCHANGED <<bootVars, started>>

\* rebuild_argv.
RebuildArgv(b) ==
  <<"pub_sub_open_dds">>
  \o (IF b.config_file = "" THEN <<>> ELSE <<"-DCPSConfigFile", b.config_file>>)
  \o b.runtime_args

\* Mutant: the runtime is started before the topic file was read.
StartRuntimeEarly(p) ==
  /\ outcome[p] \in {"parsing", "loaded", "ready"} /\ started[p] = NotStarted
  /\ started' = [started EXCEPT ![p] = [argv   |-> RebuildArgv(boot[p]),
                                        domain |-> boot[p].domain_id]]
  /\ UNCHANGED <<configVars, bootVars>>

\* pre_activate(config, topic config) calls runtime_->init; its failures are
\* in module OpenDddsRuntime.
StartRuntime(p) ==
  /\ outcome[p] = "ready" /\ started[p] = NotStarted
  /\ started' = [started EXCEPT ![p] = [argv   |-> RebuildArgv(boot[p]),
                                        domain |-> boot[p].domain_id]]
  /\ UNCHANGED <<configVars, bootVars>>

StartupDone ==
  /\ \A p \in Parties : booted[p] = "threw" \/ outcome[p] = "threw" \/ started[p] # NotStarted
  /\ UNCHANGED startupVars

StartupNext ==
  \/ \E p \in Parties :
       \/ LoadBootFile(p) /\ UNCHANGED <<configVars, started>>
       \/ BeginPreActivate(p) \/ ReadTopicFile(p) \/ LoadXml(p) \/ StartRuntime(p)
  \/ StartupDone

StartupSpec == StartupInit /\ [][StartupNext]_startupVars

-----------------------------------------------------------------------------
StartupTypeOK ==
  /\ ConfigTypeOK
  /\ textLine \in [Parties -> Nat]
  /\ booted \in [Parties -> {"unopened", "parsing", "loaded", "threw"}]
  /\ \A p \in Parties :
       /\ textLine[p] <= Len(text[p])
       /\ boot[p].domain_id \in IntMin .. IntMax
       /\ started[p].domain \in IntMin .. IntMax
       /\ booted[p] # "loaded" => outcome[p] = "unopened"

BadEntries(f) == {i \in DOMAIN f : BadEntry(f[i])}
Entries(f, key) == {i \in DOMAIN f : f[i].kind = "entry" /\ f[i].key = key}

\* The transport is started only when all of the configuration was found good:
\* the whole bootstrap file, the topic file it requires, and the XML file it
\* names.  Nothing has to be undone when a file is bad.
StartedOnGoodConfig ==
  \A p \in Parties : started[p] # NotStarted =>
    LET Named(key) == text[p][Max(Entries(text[p], key))].value.text IN
    /\ BadEntries(text[p]) = {} /\ Entries(text[p], "topic_config_file") # {}
    /\ file[p] \in Files[Named("topic_config_file")]
    /\ BadLines(file[p]) = {} /\ lineno[p] = Len(file[p])
    /\ Entries(text[p], "qos_xml_file") # {} => xml[p] = XmlFiles[Named("qos_xml_file")]

\* What the transport is started with: the domain of the last domain_id line, 42
\* without one; after the configuration file the arguments in the order of their
\* lines and then the command line, which so has the last word.
StartedAsConfigured ==
  \A p \in Parties : started[p] # NotStarted =>
    LET domains == Entries(text[p], "domain_id")
        args    == Entries(text[p], "runtime_arg")
        argv    == started[p].argv
        before  == IF Entries(text[p], "config_file") = {} THEN 1 ELSE 3
        after   == before + Cardinality(args)
    IN /\ started[p].domain =
            IF domains = {} THEN 42 ELSE text[p][Max(domains)].value.number
       /\ Len(argv) = after + Len(CommandLine[p])
       /\ \A i \in args :
            argv[before + Cardinality({j \in args : j <= i})] = text[p][i].value.text
       /\ \A i \in DOMAIN CommandLine[p] : argv[after + i] = CommandLine[p][i]
=============================================================================
