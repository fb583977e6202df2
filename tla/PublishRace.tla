---------------------------- MODULE PublishRace ----------------------------
(***************************************************************************)
(* Service::publish called from several threads, step by step.  No lock    *)
(* protects topic_types_, publisher_cache_ or the tables of the runtime,   *)
(* and SensorApp publishes ComponentStatus both from its main loop and     *)
(* from a callback that runs on a transport thread.                        *)
(*                                                                         *)
(* The service is PostActivated throughout, every topic is declared and    *)
(* every type has an adapter.  A step is one operation on one of the       *)
(* tables or one call into DDS, which may fail as in OpenDddsRuntime; an   *)
(* operation on a hash map is taken to be atomic, the least the            *)
(* unsynchronised code can do wrong.                                       *)
(***************************************************************************)
EXTENDS Naturals, Sequences, FiniteSets

CONSTANTS
  Threads,   \* the threads that publish
  Topics, Types, NoType,
  Jobs,      \* for each thread, what it publishes: records of topic and type
  Faults,    \* the DDS calls that may fail
  MaxCalls   \* bound on the calls each thread makes

\* The DDS calls under create_writer.  "datawriter_narrow" is any failure once
\* the DataWriter exists: of the narrow, or of the adapter to return a binding.
FaultPoints == {"register_type", "topic", "datawriter", "datawriter_narrow"}

Publication == [topic : Topics, type : Types]

ASSUME ThreadsAssumption == IsFiniteSet(Threads)
ASSUME TypesAssumption == IsFiniteSet(Types) /\ NoType \notin Types
ASSUME JobsAssumption == Jobs \in [Threads -> SUBSET Publication]
ASSUME FaultsAssumption == Faults \subseteq FaultPoints
ASSUME MaxCallsAssumption == MaxCalls \in Nat

VARIABLES
  topicTypes,       \* Service::topic_types_
  publisherCache,   \* Service::publisher_cache_: topic to writer, 0 when absent
  topics,           \* OpenDddsRuntime::topics_: the topics that are keys of it
  recordedTypes,    \* OpenDddsRuntime::topic_types_, NoType when absent or ""
  registeredTypes,  \* OpenDddsRuntime::registered_types_
  ddsTypes,         \* the types the participant knows
  ddsTopics,        \* the type of each topic the participant contains
  writers,          \* the DataWriters, in order of creation
  call,             \* for each thread, the publish in progress
  calls,            \* for each thread, how many it has made
  refused           \* history: what was refused, at which step, and whether
                    \* because the DDS call of that step failed

runtimeTables == <<topics, recordedTypes, registeredTypes, ddsTypes, ddsTopics>>
tables == <<topicTypes, publisherCache, runtimeTables, writers>>
raceVars == <<tables, call, calls, refused>>

Steps == {"idle", "find_type", "insert_type", "find_writer", "mark_type",
          "register_type", "find_topic", "check_type", "create_topic",
          "insert_topic", "record_type", "create_writer", "insert_writer", "write"}

\* A DataWriter, and whether the adapter returned a binding for it: one that
\* it did not return a binding for stays in the publisher, unused.
DataWriter == [topic : Topics, type : Types, bound : BOOLEAN]

RaceInit ==
  /\ topicTypes = [t \in Topics |-> NoType]
  /\ publisherCache = [t \in Topics |-> 0]
  /\ topics = {} /\ recordedTypes = [t \in Topics |-> NoType]
  /\ registeredTypes = {} /\ ddsTypes = {}
  /\ ddsTopics = [t \in Topics |-> NoType] /\ writers = <<>>
  /\ call \in [Threads -> {[at |-> "idle", job |-> j, writer |-> 0] :
                             j \in UNION {Jobs[th] : th \in Threads}}]
  /\ \A th \in Threads : call[th].job \in Jobs[th]
  /\ calls = [th \in Threads |-> 0]
  /\ refused = {}

At(th, step)   == call[th].at = step
Goto(th, step) == call' = [call EXCEPT ![th].at = step]
Topic(th) == call[th].job.topic
Type(th)  == call[th].job.type

-----------------------------------------------------------------------------
Begin(th) ==
  /\ At(th, "idle") /\ calls[th] < MaxCalls
  /\ calls' = [calls EXCEPT ![th] = @ + 1]
  /\ \E j \in Jobs[th] :
       call' = [call EXCEPT ![th] = [at |-> "find_type", job |-> j, writer |-> 0]]
  /\ UNCHANGED <<tables, refused>>

\* The call throws at its present step; what it changed before stays.
Throw(th, fault) ==
  /\ Goto(th, "idle")
  /\ refused' = refused \union
                   {[job |-> call[th].job, at |-> call[th].at, fault |-> fault]}
  /\ UNCHANGED calls

\* Mutant: a type that is not known yet is not remembered.
FindTypeForgets(th) ==
  /\ At(th, "find_type") /\ topicTypes[Topic(th)] \in {NoType, Type(th)}
  /\ Goto(th, "find_writer")
  /\ UNCHANGED <<tables, calls, refused>>

\* remember_topic_type: find, then insert, which does nothing if another
\* thread was first.
FindType(th) ==
  /\ At(th, "find_type") /\ topicTypes[Topic(th)] \in {NoType, Type(th)}
  /\ Goto(th, IF topicTypes[Topic(th)] = NoType THEN "insert_type" ELSE "find_writer")
  /\ UNCHANGED <<tables, calls, refused>>

FindTypeThrows(th) ==
  /\ At(th, "find_type") /\ topicTypes[Topic(th)] \notin {NoType, Type(th)}
  /\ Throw(th, FALSE)
  /\ UNCHANGED tables

InsertType(th) ==
  /\ At(th, "insert_type")
  /\ topicTypes' = [topicTypes EXCEPT ![Topic(th)] = IF @ = NoType THEN Type(th) ELSE @]
  /\ Goto(th, "find_writer")
  /\ UNCHANGED <<publisherCache, runtimeTables, writers, calls, refused>>

\* Mutants: the lookup never finds the writer, or finds the newest of any topic.
FindWriterNever(th) ==
  /\ At(th, "find_writer")
  /\ Goto(th, "mark_type")
  /\ UNCHANGED <<tables, calls, refused>>

FindWriterNewest(th) ==
  /\ At(th, "find_writer")
  /\ LET w == Len(writers)
     IN call' = [call EXCEPT ![th].at = IF w = 0 THEN "mark_type" ELSE "write",
                             ![th].writer = w]
  /\ UNCHANGED <<tables, calls, refused>>

\* publisher_cache_.find.
FindWriter(th) ==
  /\ At(th, "find_writer")
  /\ LET w == publisherCache[Topic(th)]
     IN call' = [call EXCEPT ![th].at = IF w = 0 THEN "mark_type" ELSE "write",
                             ![th].writer = w]
  /\ UNCHANGED <<tables, calls, refused>>

\* Mutant: a new type is taken for a known one.
MarkTypeInverted(th) ==
  /\ At(th, "mark_type")
  /\ registeredTypes' = registeredTypes \union {Type(th)}
  /\ Goto(th, IF Type(th) \in registeredTypes THEN "register_type" ELSE "find_topic")
  /\ UNCHANGED <<topicTypes, publisherCache, topics, recordedTypes, ddsTypes,
                 ddsTopics, writers, calls, refused>>

\* create_writer: register_type_once marks the type, then registers it.
MarkType(th) ==
  /\ At(th, "mark_type")
  /\ registeredTypes' = registeredTypes \union {Type(th)}
  /\ Goto(th, IF Type(th) \in registeredTypes THEN "find_topic" ELSE "register_type")
  /\ UNCHANGED <<topicTypes, publisherCache, topics, recordedTypes, ddsTypes,
                 ddsTopics, writers, calls, refused>>

RegisterType(th) ==
  /\ At(th, "register_type")
  /\ ddsTypes' = ddsTypes \union {Type(th)}
  /\ Goto(th, "find_topic")
  /\ UNCHANGED <<topicTypes, publisherCache, topics, recordedTypes,
                 registeredTypes, ddsTopics, writers, calls, refused>>

\* The type stays marked.
RegisterTypeThrows(th) ==
  /\ At(th, "register_type") /\ "register_type" \in Faults
  /\ Throw(th, TRUE)
  /\ UNCHANGED tables

\* get_or_create_topic: find in topics_ ...
FindTopic(th) ==
  /\ At(th, "find_topic")
  /\ Goto(th, IF Topic(th) \in topics THEN "check_type" ELSE "create_topic")
  /\ UNCHANGED <<tables, calls, refused>>

\* Mutant: the topic found is used whatever its type.
CheckTypeUnchecked(th) ==
  /\ At(th, "check_type")
  /\ Goto(th, "create_writer")
  /\ UNCHANGED <<tables, calls, refused>>

\* ... then compare with topic_types_, which the thread that created the topic
\* may not have written yet.
CheckType(th) ==
  /\ At(th, "check_type") /\ recordedTypes[Topic(th)] = Type(th)
  /\ Goto(th, "create_writer")
  /\ UNCHANGED <<tables, calls, refused>>

CheckTypeThrows(th) ==
  /\ At(th, "check_type") /\ recordedTypes[Topic(th)] # Type(th)
  /\ Throw(th, FALSE)
  /\ UNCHANGED tables

\* create_topic.  Another thread may have made the topic since: DDS returns it
\* again if the type is the same, and refuses a type it does not know.
CanCreateTopic(th) ==
  ddsTopics[Topic(th)] \in {NoType, Type(th)} /\ Type(th) \in ddsTypes

CreateTopic(th) ==
  /\ At(th, "create_topic") /\ CanCreateTopic(th)
  /\ ddsTopics' = [ddsTopics EXCEPT ![Topic(th)] = Type(th)]
  /\ Goto(th, "insert_topic")
  /\ UNCHANGED <<topicTypes, publisherCache, topics, recordedTypes,
                 registeredTypes, ddsTypes, writers, calls, refused>>

CreateTopicThrows(th) ==
  /\ At(th, "create_topic")
  /\ \/ ~CanCreateTopic(th) /\ Throw(th, FALSE)
     \/ CanCreateTopic(th) /\ "topic" \in Faults /\ Throw(th, TRUE)
  /\ UNCHANGED tables

\* topics_ first ...
InsertTopic(th) ==
  /\ At(th, "insert_topic")
  /\ topics' = topics \union {Topic(th)}
  /\ Goto(th, "record_type")
  /\ UNCHANGED <<topicTypes, publisherCache, recordedTypes, registeredTypes,
                 ddsTypes, ddsTopics, writers, calls, refused>>

\* ... then topic_types_.
RecordType(th) ==
  /\ At(th, "record_type")
  /\ recordedTypes' = [recordedTypes EXCEPT ![Topic(th)] = Type(th)]
  /\ Goto(th, "create_writer")
  /\ UNCHANGED <<topicTypes, publisherCache, topics, registeredTypes, ddsTypes,
                 ddsTopics, writers, calls, refused>>

\* make_opendds_writer: a new DataWriter, each time.
NewWriter(th, bound) ==
  writers' = Append(writers, [topic |-> Topic(th), type |-> Type(th), bound |-> bound])

CreateWriter(th) ==
  /\ At(th, "create_writer") /\ NewWriter(th, TRUE)
  /\ call' = [call EXCEPT ![th].at = "insert_writer", ![th].writer = Len(writers) + 1]
  /\ UNCHANGED <<topicTypes, publisherCache, runtimeTables, calls, refused>>

\* A DataWriter whose narrow fails is not deleted.
CreateWriterThrows(th) ==
  /\ At(th, "create_writer")
  /\ \/ "datawriter" \in Faults /\ UNCHANGED writers
     \/ "datawriter_narrow" \in Faults /\ NewWriter(th, FALSE)
  /\ Throw(th, TRUE)
  /\ UNCHANGED <<topicTypes, publisherCache, runtimeTables>>

\* Mutant: the call goes on with its own writer.
InsertWriterUsesOwn(th) ==
  /\ At(th, "insert_writer")
  /\ publisherCache' = [publisherCache EXCEPT ![Topic(th)] =
                          IF @ = 0 THEN call[th].writer ELSE @]
  /\ Goto(th, "write")
  /\ UNCHANGED <<topicTypes, runtimeTables, writers, calls, refused>>

\* publisher_cache_.insert keeps the writer that is there; the call goes on
\* with that one, and its own DataWriter stays in the publisher.
InsertWriter(th) ==
  /\ At(th, "insert_writer")
  /\ LET cached == publisherCache[Topic(th)]
         w == IF cached = 0 THEN call[th].writer ELSE cached
     IN /\ publisherCache' = [publisherCache EXCEPT ![Topic(th)] = w]
        /\ call' = [call EXCEPT ![th].at = "write", ![th].writer = w]
  /\ UNCHANGED <<topicTypes, runtimeTables, writers, calls, refused>>

\* write_erased: the sample is cast to the writer's type.
Write(th) ==
  /\ At(th, "write")
  /\ Goto(th, "idle")
  /\ UNCHANGED <<tables, calls, refused>>

Step(th) ==
  \/ Begin(th) \/ FindType(th) \/ FindTypeThrows(th) \/ InsertType(th)
  \/ FindWriter(th) \/ MarkType(th) \/ RegisterType(th) \/ RegisterTypeThrows(th)
  \/ FindTopic(th) \/ CheckType(th) \/ CheckTypeThrows(th)
  \/ CreateTopic(th) \/ CreateTopicThrows(th) \/ InsertTopic(th) \/ RecordType(th)
  \/ CreateWriter(th) \/ CreateWriterThrows(th) \/ InsertWriter(th) \/ Write(th)

\* Every thread has made its calls.
Done == /\ \A th \in Threads : At(th, "idle") /\ calls[th] = MaxCalls
        /\ UNCHANGED raceVars

RaceNext == (\E th \in Threads : Step(th)) \/ Done

RaceSpec == RaceInit /\ [][RaceNext]_raceVars
-----------------------------------------------------------------------------
RaceTypeOK ==
  /\ topicTypes \in [Topics -> Types \union {NoType}]
  /\ publisherCache \in [Topics -> Nat]
  /\ topics \subseteq Topics
  /\ recordedTypes \in [Topics -> Types \union {NoType}]
  /\ ddsTopics \in [Topics -> Types \union {NoType}]
  /\ registeredTypes \subseteq Types /\ ddsTypes \subseteq Types
  /\ writers \in Seq(DataWriter)
  /\ call \in [Threads -> [at : Steps, job : Publication, writer : Nat]]
  /\ \A th \in Threads : call[th].job \in Jobs[th]
  /\ calls \in [Threads -> 0 .. MaxCalls]
  /\ refused \subseteq [job : Publication, at : Steps, fault : BOOLEAN]

\* However many threads publish, all DataWriters of a topic have the type the
\* runtime recorded for it (get_or_create_topic), and a cached writer is a
\* bound one of its topic.
WritersOfRecordedType ==
  /\ \A i \in DOMAIN writers : recordedTypes[writers[i].topic] = writers[i].type
  /\ \A t \in Topics : publisherCache[t] # 0 =>
       /\ publisherCache[t] \in DOMAIN writers
       /\ writers[publisherCache[t]].topic = t /\ writers[publisherCache[t]].bound

\* A call never writes through a DataWriter that is not the cached one of its
\* topic, even when it made one of its own.
WritesThroughCache ==
  \A th \in Threads : At(th, "write") =>
    call[th].writer = publisherCache[Topic(th)] /\ call[th].writer # 0

\* What the threads between them publish.
Publications == UNION {Jobs[th] : th \in Threads}
TypesOf(t)    == {j.type : j \in {k \in Publications : k.topic = t}}
Publishers(t) == {th \in Threads : \E j \in Jobs[th] : j.topic = t}
Users(ty)     == {th \in Threads : \E j \in Jobs[th] : j.type = ty}

\* The samples a thread hands to a DataWriter are of the writer's type, which
\* write_erased casts to without a check, on each topic the threads agree
\* about, however the calls race on publisher_cache_.
AgreedTypeWritten ==
  \A th \in Threads :
    At(th, "write") /\ Cardinality(TypesOf(Topic(th))) = 1 =>
      writers[call[th].writer].type = Type(th)

\* Of the DataWriters of a topic that one thread publishes at most one is ever
\* bound and used, the one its first publish to succeed made, whatever the other
\* threads publish meanwhile.  The others are what publishes left behind that
\* threw after create_datawriter.
OneWriterPerOwnTopic ==
  \A i, j \in DOMAIN writers :
    /\ writers[i].bound /\ writers[j].bound /\ writers[i].topic = writers[j].topic
    /\ Cardinality(Publishers(writers[i].topic)) = 1
    => i = j

\* A registration of the type has failed.
RegistrationFailed(ty) ==
  \E r \in refused : r.at = "register_type" /\ r.job.type = ty

\* publish throws for one of these reasons and no other: a DDS call it made
\* failed; the topic is used with a second type; another thread that publishes
\* the topic has written topics_ and not yet topic_types_; or the type is marked
\* but not registered, because another thread that uses it is still between the
\* two in register_type_once, or an earlier registration failed.  So a thread
\* that shares neither topics nor types is only ever refused by DDS.
Explained(r) ==
  \/ r.fault
  \/ Cardinality(TypesOf(r.job.topic)) > 1
  \/ r.at = "check_type" /\ Cardinality(Publishers(r.job.topic)) > 1
  \/ /\ r.at = "create_topic"
     /\ Cardinality(Users(r.job.type)) > 1 \/ RegistrationFailed(r.job.type)
RefusedOnlyInConflict == \A r \in refused : Explained(r)

-----------------------------------------------------------------------------
(* What the repository's text says of the program, refuted by a run each.  *)

\* DETAILED_DESIGN.md: "Topic-type mismatches are rejected on first conflict".
\* Two threads that race both pass remember_topic_type.
SampleTypeMatches ==
  \A th \in Threads : At(th, "write") => writers[call[th].writer].type = Type(th)
=============================================================================
