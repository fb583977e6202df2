-------------------------- MODULE OpenDddsRuntime --------------------------
(***************************************************************************)
(* The transport behind the Service facade: class OpenDddsRuntime          *)
(* (pub_sub_open_dds/src/opendds_runtime.cpp) together with the generated  *)
(* type adapters it calls (cmake/templates/PubSub_adapter.cpp.in) and the  *)
(* part of the DDS library those calls change.                             *)
(*                                                                         *)
(* The operators of this module are the methods of IRuntime, each with the *)
(* outcomes a caller can see: normal return, or an exception after some of *)
(* the work is done.  Every DDS call may fail; Faults says which may fail  *)
(* in an instance.  RuntimeSpec lets an arbitrary client call the methods  *)
(* in any order; module Service calls them the way service.cpp does.       *)
(***************************************************************************)
EXTENDS Naturals, Sequences, FiniteSets

CONSTANTS
  Topics,          \* topic names
  Types,           \* message types (one IDL struct each)
  NoType,          \* "no entry" in a map from topics to types
  Faults,          \* the DDS calls that may fail
  MaxActivations,  \* bound on create_publisher calls for one participant
  MaxReaders,      \* bound on DataReaders of one participant
  MaxWriters       \* bound on DataWriters of one participant

\* The DDS calls of opendds_runtime.cpp and of the adapters that return nil
\* or an error code.
FaultPoints == {"factory", "participant", "publisher", "subscriber",
                "register_type", "topic", "datareader", "datareader_narrow",
                "datawriter", "datawriter_narrow"}

ASSUME NoTypeAssumption == NoType \notin Types
ASSUME FaultsAssumption == Faults \subseteq FaultPoints
ASSUME BoundsAssumption ==
  MaxActivations \in Nat /\ MaxReaders \in Nat /\ MaxWriters \in Nat

VARIABLES
  factory,          \* factory_ is held
  participant,      \* participant_ is held
  publisher,        \* publisher_: the ordinal of the Publisher held, 0 = nil
  subscriber,       \* subscriber_: likewise
  topics,           \* topics_ and topic_types_, which have the same keys
  registeredTypes,  \* registered_types_
  \* History, for the properties only:
  failedTypes,      \* types whose registration failed, since the last shutdown
  \* What exists in the DDS library, whoever holds a handle to it:
  serviceParticipant,  \* TheServiceParticipant has been started
  ddsTypes,            \* types registered with the participant
  publishers,          \* how many Publishers the participant contains
  readers,             \* its DataReaders, in order of creation
  writers              \* its DataWriters, in order of creation

handleVars == <<factory, participant, publisher, subscriber>>
tableVars  == <<topics, registeredTypes, ddsTypes, failedTypes>>
entityVars == <<publishers, readers, writers>>
runtimeVars == <<handleVars, tableVars, serviceParticipant, entityVars>>

NoTopics == [t \in Topics |-> NoType]

\* A DataReader; its binding's on_sample_ is a number naming the callback, 0
\* when empty.
Reader == [topic : Topics, type : Types, onSample : Nat]
Writer == [topic : Topics, type : Types]

RuntimeInit ==
  /\ factory = FALSE /\ participant = FALSE /\ serviceParticipant = FALSE
  /\ publisher = 0 /\ subscriber = 0 /\ publishers = 0
  /\ topics = NoTopics /\ registeredTypes = {} /\ ddsTypes = {}
  /\ failedTypes = {}
  /\ readers = <<>> /\ writers = <<>>

-----------------------------------------------------------------------------
(* init: acquire the factory, which starts TheServiceParticipant, then     *)
(* create the participant.                                                 *)

InitRuntime ==
  /\ factory' = TRUE /\ participant' = TRUE /\ serviceParticipant' = TRUE
  /\ UNCHANGED <<publisher, subscriber, tableVars, entityVars>>

InitRuntimeThrows ==
  /\ \/ /\ "factory" \in Faults /\ ~serviceParticipant
        /\ factory' = FALSE
        /\ UNCHANGED serviceParticipant
     \/ /\ "participant" \in Faults
        /\ factory' = TRUE /\ serviceParticipant' = TRUE
  /\ participant' = FALSE
  /\ UNCHANGED <<publisher, subscriber, tableVars, entityVars>>

(* activate: each handle is overwritten by what DDS returns, so a second   *)
(* call makes a second Publisher and Subscriber and a failure leaves nil.  *)

ActivateRuntime ==
  /\ participant
  /\ publishers < MaxActivations
  /\ publishers' = publishers + 1
  /\ publisher' = publishers + 1 /\ subscriber' = publishers + 1
  /\ UNCHANGED <<factory, participant, tableVars, serviceParticipant,
                 readers, writers>>

ActivateRuntimeThrows ==
  /\ participant
  /\ \/ /\ "publisher" \in Faults
        /\ publisher' = 0
        /\ UNCHANGED <<publishers, subscriber>>
     \/ /\ "subscriber" \in Faults
        /\ publishers < MaxActivations
        /\ publishers' = publishers + 1
        /\ publisher' = publishers + 1 /\ subscriber' = 0
  /\ UNCHANGED <<factory, participant, tableVars, serviceParticipant,
                 readers, writers>>

(* shutdown: delete everything the participant contains, forget every      *)
(* handle, and stop TheServiceParticipant if this runtime has the factory. *)

ShutdownRuntime ==
  /\ factory' = FALSE /\ participant' = FALSE
  /\ publisher' = 0 /\ subscriber' = 0
  /\ topics' = NoTopics /\ registeredTypes' = {} /\ failedTypes' = {}
  /\ IF participant
       THEN ddsTypes' = {} /\ publishers' = 0 /\ readers' = <<>> /\ writers' = <<>>
       ELSE UNCHANGED <<ddsTypes, entityVars>>
  /\ serviceParticipant' = (serviceParticipant /\ ~factory)

-----------------------------------------------------------------------------
(* create_writer and create_reader share register_type_once and            *)
(* get_or_create_topic.  The type is marked as registered before it is     *)
(* registered, so a failed registration is never tried again.              *)

\* Mutant: the type is registered whether or not it is marked.
RegisterTypeAlways(ty) ==
  /\ registeredTypes' = registeredTypes \union {ty}
  /\ ddsTypes' = ddsTypes \union {ty}
  /\ UNCHANGED failedTypes

RegisterTypeOnce(ty) ==
  /\ registeredTypes' = registeredTypes \union {ty}
  /\ ddsTypes' = IF ty \in registeredTypes THEN ddsTypes ELSE ddsTypes \union {ty}
  /\ UNCHANGED failedTypes

RegisterTypeOnceThrows(ty) ==
  /\ "register_type" \in Faults
  /\ ty \notin registeredTypes
  /\ registeredTypes' = registeredTypes \union {ty}
  /\ failedTypes' = failedTypes \union {ty}
  /\ UNCHANGED ddsTypes

\* DDS refuses to create a topic of a type the participant does not know.
GetOrCreateTopic(t, ty) ==
  /\ \/ topics[t] = ty
     \/ topics[t] = NoType /\ ty \in ddsTypes'
  /\ topics' = [topics EXCEPT ![t] = ty]

GetOrCreateTopicThrows(t, ty) ==
  /\ \/ topics[t] \notin {NoType, ty}
     \/ topics[t] = NoType /\ ("topic" \in Faults \/ ty \notin ddsTypes')
  /\ UNCHANGED topics

\* The part of create_writer and create_reader before the adapter is called:
\* the type, then the topic.
TopicReady(t, ty) ==
  RegisterTypeOnce(ty) /\ GetOrCreateTopic(t, ty)

TopicThrows(t, ty) ==
  \/ RegisterTypeOnceThrows(ty) /\ UNCHANGED topics
  \/ RegisterTypeOnce(ty) /\ GetOrCreateTopicThrows(t, ty)

\* The reader goes live with an empty callback: set_on_sample comes later.
CreateReader(t, ty) ==
  /\ subscriber # 0
  /\ Len(readers) < MaxReaders
  /\ TopicReady(t, ty)
  /\ readers' = Append(readers, [topic |-> t, type |-> ty, onSample |-> 0])
  /\ UNCHANGED <<handleVars, serviceParticipant, publishers, writers>>

\* When the narrow fails the DataReader already exists: it stays, with a
\* listener whose binding is gone.
CreateReaderThrows(t, ty) ==
  /\ UNCHANGED <<handleVars, serviceParticipant, publishers, writers>>
  /\ IF subscriber = 0
       THEN UNCHANGED <<tableVars, readers>>
       ELSE \/ TopicThrows(t, ty) /\ UNCHANGED readers
            \/ "datareader" \in Faults /\ TopicReady(t, ty) /\ UNCHANGED readers
            \/ /\ "datareader_narrow" \in Faults
               /\ Len(readers) < MaxReaders
               /\ TopicReady(t, ty)
               /\ readers' = Append(readers,
                                    [topic |-> t, type |-> ty, onSample |-> 0])

CreateWriter(t, ty) ==
  /\ publisher # 0
  /\ Len(writers) < MaxWriters
  /\ TopicReady(t, ty)
  /\ writers' = Append(writers, [topic |-> t, type |-> ty])
  /\ UNCHANGED <<handleVars, serviceParticipant, publishers, readers>>

CreateWriterThrows(t, ty) ==
  /\ UNCHANGED <<handleVars, serviceParticipant, publishers, readers>>
  /\ IF publisher = 0
       THEN UNCHANGED <<tableVars, writers>>
       ELSE \/ TopicThrows(t, ty) /\ UNCHANGED writers
            \/ "datawriter" \in Faults /\ TopicReady(t, ty) /\ UNCHANGED writers
            \/ /\ "datawriter_narrow" \in Faults
               /\ Len(writers) < MaxWriters
               /\ TopicReady(t, ty)
               /\ writers' = Append(writers, [topic |-> t, type |-> ty])

\* set_on_sample on the binding of reader r.
SetOnSample(r, call) ==
  readers' = [readers EXCEPT ![r].onSample = call]

-----------------------------------------------------------------------------
(* An arbitrary client of IRuntime.  The one thing it must not do is call  *)
(* init twice without shutdown, which Service's require_state excludes.    *)

RuntimeNext ==
  \/ ~participant /\ (InitRuntime \/ InitRuntimeThrows)
  \/ ActivateRuntime
  \/ ActivateRuntimeThrows
  \/ ShutdownRuntime
  \/ \E t \in Topics, ty \in Types :
       \/ CreateReader(t, ty)
       \/ CreateReaderThrows(t, ty)
       \/ CreateWriter(t, ty)
       \/ CreateWriterThrows(t, ty)

RuntimeSpec == RuntimeInit /\ [][RuntimeNext]_runtimeVars

-----------------------------------------------------------------------------
RuntimeTypeOK ==
  /\ factory \in BOOLEAN /\ participant \in BOOLEAN
  /\ serviceParticipant \in BOOLEAN
  /\ publisher \in Nat /\ subscriber \in Nat /\ publishers \in Nat
  /\ topics \in [Topics -> Types \union {NoType}]
  /\ registeredTypes \subseteq Types /\ ddsTypes \subseteq Types
  /\ failedTypes \subseteq Types
  /\ readers \in Seq(Reader)
  /\ writers \in Seq(Writer)

\* Every DataReader and DataWriter has the type get_or_create_topic recorded
\* for its topic, however many creations failed half way and however often
\* the runtime was shut down: the table never forgets or changes a topic that
\* still has an entity.
EntityTypesAgree ==
  /\ \A i \in DOMAIN readers : topics[readers[i].topic] = readers[i].type
  /\ \A i \in DOMAIN writers : topics[writers[i].topic] = writers[i].type

\* A topic is only ever created for a type the participant really knows,
\* although registered_types_ may name types whose registration failed.
TopicTypesRegistered ==
  \A t \in Topics : topics[t] # NoType => topics[t] \in ddsTypes

\* No handle survives the participant that contains the entity: publisher_ and
\* subscriber_ are nil, and no topic is cached, once the participant is gone,
\* and the participant is only held while its factory is.
NoDanglingHandle ==
  /\ ~participant => publisher = 0 /\ subscriber = 0 /\ topics = NoTopics
  /\ participant => factory
  /\ factory => serviceParticipant

\* A type whose registration failed once is unusable until shutdown, however
\* often it is tried again and although the cause of the failure has passed:
\* register_type_once has marked it and skips the registration from then on,
\* so the participant never learns the type, and every create_reader and
\* create_writer of it ends without a topic, a reader or a writer.
FailedTypeUnusable ==
  \A ty \in failedTypes :
    /\ ty \notin ddsTypes
    /\ \A t \in Topics : topics[t] # ty
    /\ \A i \in DOMAIN readers : readers[i].type # ty
    /\ \A i \in DOMAIN writers : writers[i].type # ty
=============================================================================
