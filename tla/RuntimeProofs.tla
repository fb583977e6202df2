--------------------------- MODULE RuntimeProofs ---------------------------
(***************************************************************************)
(* Proofs about OpenDddsRuntime, for every set of topics and types, every  *)
(* choice of failing DDS calls and every bound.                            *)
(***************************************************************************)
EXTENDS OpenDddsRuntime, TLAPS

\* No readers and no writers are sequences of them.
LEMMA EmptySequences == <<>> \in Seq(Reader) /\ <<>> \in Seq(Writer)
  OBVIOUS

\* The fields of a DataReader.
LEMMA ReaderFields ==
  ASSUME RuntimeTypeOK, NEW i \in DOMAIN readers
  PROVE  /\ readers[i] \in Reader
         /\ readers[i].topic \in Topics /\ readers[i].type \in Types
         /\ readers[i].onSample \in Nat
<1>1. readers[i] \in Reader
  BY DEF RuntimeTypeOK
<1>2. QED BY <1>1 DEF Reader

\* The fields of a DataWriter.
LEMMA WriterFields ==
  ASSUME RuntimeTypeOK, NEW i \in DOMAIN writers
  PROVE  /\ writers[i] \in Writer
         /\ writers[i].topic \in Topics /\ writers[i].type \in Types
<1>1. writers[i] \in Writer
  BY DEF RuntimeTypeOK
<1>2. QED BY <1>1 DEF Writer

\* What TopicReady and TopicThrows, the common part of create_writer and
\* create_reader, do to the tables.
LEMMA TopicStep ==
  ASSUME NEW t \in Topics, NEW ty \in Types, RuntimeTypeOK,
         TopicReady(t, ty) \/ TopicThrows(t, ty)
  PROVE  /\ topics' \in [Topics -> Types \union {NoType}]
         /\ registeredTypes' \subseteq Types /\ ddsTypes' \subseteq Types
         /\ failedTypes' \subseteq Types
         /\ ddsTypes \subseteq ddsTypes'
         /\ \A u \in Topics : topics[u] # NoType => topics'[u] = topics[u]
         /\ \A u \in Topics :
              topics'[u] # topics[u] => topics'[u] \in ddsTypes'
  BY DEF RuntimeTypeOK, TopicReady, TopicThrows, RegisterTypeOnce,
         RegisterTypeOnceThrows, GetOrCreateTopic, GetOrCreateTopicThrows

\* registered_types_ beside what the participant knows: a type is marked when
\* its registration was tried, whether it succeeded or failed.
MarkInv ==
  /\ ddsTypes \subseteq registeredTypes
  /\ failedTypes \subseteq registeredTypes \ ddsTypes
  /\ ~participant => ddsTypes = {}

\* register_type_once never registers a type it has marked.
LEMMA TopicStepMarks ==
  ASSUME NEW t \in Topics, NEW ty \in Types, MarkInv,
         TopicReady(t, ty) \/ TopicThrows(t, ty)
  PROVE  /\ ddsTypes' \subseteq registeredTypes'
         /\ failedTypes' \subseteq registeredTypes' \ ddsTypes'
<1>1. RegisterTypeOnce(ty) \/ RegisterTypeOnceThrows(ty)
  BY DEF TopicReady, TopicThrows
<1>2. CASE RegisterTypeOnce(ty)
  BY <1>2 DEF RegisterTypeOnce, MarkInv
<1>3. CASE RegisterTypeOnceThrows(ty)
  BY <1>3 DEF RegisterTypeOnceThrows, MarkInv
<1>4. QED BY <1>1, <1>2, <1>3

\* When the adapter is called the topic has the type asked for.
LEMMA TopicReadyType ==
  ASSUME NEW t \in Topics, NEW ty \in Types, RuntimeTypeOK, TopicReady(t, ty)
  PROVE  topics'[t] = ty
  BY DEF RuntimeTypeOK, TopicReady, GetOrCreateTopic

\* A DataReader is appended.
LEMMA AppendReader ==
  ASSUME NEW t \in Topics, NEW ty \in Types, RuntimeTypeOK,
         readers' = Append(readers, [topic |-> t, type |-> ty, onSample |-> 0])
  PROVE  /\ readers' \in Seq(Reader)
         /\ Len(readers') = Len(readers) + 1
         /\ DOMAIN readers' = DOMAIN readers \union {Len(readers) + 1}
         /\ \A i \in DOMAIN readers : readers'[i] = readers[i]
         /\ readers'[Len(readers) + 1] = [topic |-> t, type |-> ty, onSample |-> 0]
  BY DEF RuntimeTypeOK, Reader

\* A DataWriter is appended.
LEMMA AppendWriter ==
  ASSUME NEW t \in Topics, NEW ty \in Types, RuntimeTypeOK,
         writers' = Append(writers, [topic |-> t, type |-> ty])
  PROVE  /\ writers' \in Seq(Writer)
         /\ Len(writers') = Len(writers) + 1
         /\ DOMAIN writers' = DOMAIN writers \union {Len(writers) + 1}
         /\ \A i \in DOMAIN writers : writers'[i] = writers[i]
         /\ writers'[Len(writers) + 1] = [topic |-> t, type |-> ty]
  BY DEF RuntimeTypeOK, Writer

-----------------------------------------------------------------------------
\* What one call of create_reader or create_writer may do to the entities.
ReaderStep(t, ty) ==
  \/ CreateReader(t, ty) \/ CreateReaderThrows(t, ty)
WriterStep(t, ty) ==
  \/ CreateWriter(t, ty) \/ CreateWriterThrows(t, ty)

\* create_reader, whatever its outcome: the tables only grow, and at most one
\* reader is appended, without a callback, on a topic recorded with its type.
LEMMA ReaderStepEffect ==
  ASSUME NEW t \in Topics, NEW ty \in Types, RuntimeTypeOK, ReaderStep(t, ty)
  PROVE  /\ UNCHANGED <<handleVars, serviceParticipant, publishers, writers>>
         /\ RuntimeTypeOK'
         /\ \/ UNCHANGED <<tableVars, readers>>
            \/ TopicThrows(t, ty) /\ UNCHANGED readers
            \/ TopicReady(t, ty) /\ UNCHANGED readers
            \/ /\ TopicReady(t, ty)
               /\ readers' = Append(readers, [topic |-> t, type |-> ty, onSample |-> 0])
         /\ ~UNCHANGED <<tableVars, readers>> => subscriber # 0
<1>1. /\ UNCHANGED <<handleVars, serviceParticipant, publishers, writers>>
      /\ \/ UNCHANGED <<tableVars, readers>>
         \/ TopicThrows(t, ty) /\ UNCHANGED readers
         \/ TopicReady(t, ty) /\ UNCHANGED readers
         \/ /\ TopicReady(t, ty)
            /\ readers' = Append(readers, [topic |-> t, type |-> ty, onSample |-> 0])
      /\ ~UNCHANGED <<tableVars, readers>> => subscriber # 0
  BY DEF ReaderStep, CreateReader, CreateReaderThrows
<1>2. readers' \in Seq(Reader)
  BY <1>1, AppendReader DEF RuntimeTypeOK
<1>3. /\ topics' \in [Topics -> Types \union {NoType}]
      /\ registeredTypes' \subseteq Types /\ ddsTypes' \subseteq Types
      /\ failedTypes' \subseteq Types
  BY <1>1, TopicStep DEF RuntimeTypeOK, tableVars
<1>4. RuntimeTypeOK'
  BY <1>1, <1>2, <1>3 DEF RuntimeTypeOK, handleVars
<1>5. QED BY <1>1, <1>4

\* create_writer likewise.
LEMMA WriterStepEffect ==
  ASSUME NEW t \in Topics, NEW ty \in Types, RuntimeTypeOK, WriterStep(t, ty)
  PROVE  /\ UNCHANGED <<handleVars, serviceParticipant, publishers, readers>>
         /\ RuntimeTypeOK'
         /\ \/ UNCHANGED <<tableVars, writers>>
            \/ TopicThrows(t, ty) /\ UNCHANGED writers
            \/ TopicReady(t, ty) /\ UNCHANGED writers
            \/ /\ TopicReady(t, ty)
               /\ writers' = Append(writers, [topic |-> t, type |-> ty])
         /\ ~UNCHANGED <<tableVars, writers>> => publisher # 0
<1>1. /\ UNCHANGED <<handleVars, serviceParticipant, publishers, readers>>
      /\ \/ UNCHANGED <<tableVars, writers>>
         \/ TopicThrows(t, ty) /\ UNCHANGED writers
         \/ TopicReady(t, ty) /\ UNCHANGED writers
         \/ /\ TopicReady(t, ty)
            /\ writers' = Append(writers, [topic |-> t, type |-> ty])
      /\ ~UNCHANGED <<tableVars, writers>> => publisher # 0
  BY DEF WriterStep, CreateWriter, CreateWriterThrows
<1>2. writers' \in Seq(Writer)
  BY <1>1, AppendWriter DEF RuntimeTypeOK
<1>3. /\ topics' \in [Topics -> Types \union {NoType}]
      /\ registeredTypes' \subseteq Types /\ ddsTypes' \subseteq Types
      /\ failedTypes' \subseteq Types
  BY <1>1, TopicStep DEF RuntimeTypeOK, tableVars
<1>4. RuntimeTypeOK'
  BY <1>1, <1>2, <1>3 DEF RuntimeTypeOK, handleVars
<1>5. QED BY <1>1, <1>4

\* init, activate and shutdown keep every variable in its type.
LEMMA LifecycleStepType ==
  ASSUME RuntimeTypeOK,
         \/ InitRuntime \/ InitRuntimeThrows
         \/ ActivateRuntime \/ ActivateRuntimeThrows
         \/ ShutdownRuntime
  PROVE  RuntimeTypeOK'
<1>1. CASE InitRuntime
  BY <1>1 DEF RuntimeTypeOK, InitRuntime, tableVars, entityVars
<1>2. CASE InitRuntimeThrows
  BY <1>2 DEF RuntimeTypeOK, InitRuntimeThrows, tableVars, entityVars
<1>3. CASE ActivateRuntime
  BY <1>3 DEF RuntimeTypeOK, ActivateRuntime, tableVars
<1>4. CASE ActivateRuntimeThrows
  BY <1>4 DEF RuntimeTypeOK, ActivateRuntimeThrows, tableVars
<1>5. CASE ShutdownRuntime
  <2>1. serviceParticipant' \in BOOLEAN
    BY <1>5, Zenon DEF ShutdownRuntime
  <2>2. topics' \in [Topics -> Types \union {NoType}] /\ registeredTypes' \subseteq Types
    BY <1>5 DEF ShutdownRuntime, NoTopics
  <2>3. /\ ddsTypes' \subseteq Types /\ publishers' \in Nat
        /\ readers' \in Seq(Reader) /\ writers' \in Seq(Writer)
    <3>1. CASE participant
      BY <1>5, <3>1, EmptySequences DEF ShutdownRuntime
    <3>2. CASE ~participant
      BY <1>5, <3>2 DEF RuntimeTypeOK, ShutdownRuntime, entityVars
    <3>3. QED BY <3>1, <3>2
  <2>4. QED BY <1>5, <2>1, <2>2, <2>3 DEF RuntimeTypeOK, ShutdownRuntime
<1>6. QED BY <1>1, <1>2, <1>3, <1>4, <1>5

-----------------------------------------------------------------------------
(***************************************************************************)
(* A new entity agrees with the topic table because get_or_create_topic    *)
(* has just recorded or checked its type (TopicReadyType), an old one      *)
(* because entries never change (TopicStep), and shutdown empties both     *)
(* when it has a participant and finds both empty, by NoDanglingHandle and *)
(* this invariant, when not.  MarkInv is what the invariant needs beside   *)
(* the properties: a type whose registration failed is marked, and a type  *)
(* that is marked is not registered.                                       *)
(***************************************************************************)
RuntimeInv ==
  /\ RuntimeTypeOK /\ MarkInv
  /\ EntityTypesAgree /\ TopicTypesRegistered /\ NoDanglingHandle

\* The runtime starts empty.
LEMMA RuntimeInvInit == RuntimeInit => RuntimeInv
<1> SUFFICES ASSUME RuntimeInit PROVE RuntimeInv
  OBVIOUS
<1>1. RuntimeTypeOK
  BY EmptySequences DEF RuntimeInit, RuntimeTypeOK, NoTopics
<1>2. EntityTypesAgree
  BY DEF RuntimeInit, EntityTypesAgree
<1>3. TopicTypesRegistered
  BY DEF RuntimeInit, TopicTypesRegistered, NoTopics
<1>4. NoDanglingHandle
  BY DEF RuntimeInit, NoDanglingHandle
<1>5. MarkInv
  BY DEF RuntimeInit, MarkInv
<1>6. QED BY <1>1, <1>2, <1>3, <1>4, <1>5 DEF RuntimeInv

\* create_reader keeps the entities and the tables in agreement.
LEMMA ReaderStepInv ==
  ASSUME NEW t \in Topics, NEW ty \in Types, RuntimeInv, ReaderStep(t, ty)
  PROVE  RuntimeInv'
<1> USE NoTypeAssumption DEF RuntimeInv
<1>1. RuntimeTypeOK'
  BY ReaderStepEffect
<1>2. \A u \in Topics : topics[u] # NoType => topics'[u] = topics[u]
  BY ReaderStepEffect, TopicStep DEF tableVars
<1>3. EntityTypesAgree'
  <2>1. \A i \in DOMAIN readers : topics'[readers[i].topic] = readers[i].type
    BY <1>2, ReaderFields DEF EntityTypesAgree
  <2>2. \A i \in DOMAIN writers : topics'[writers[i].topic] = writers[i].type
    BY <1>2, WriterFields DEF EntityTypesAgree
  <2>3. CASE UNCHANGED readers
    BY <2>1, <2>2, <2>3, ReaderStepEffect DEF EntityTypesAgree
  <2>4. CASE /\ TopicReady(t, ty)
             /\ readers' = Append(readers, [topic |-> t, type |-> ty, onSample |-> 0])
    BY <2>1, <2>2, <2>4, ReaderStepEffect, AppendReader, TopicReadyType
    DEF EntityTypesAgree
  <2>5. QED BY <2>3, <2>4, ReaderStepEffect DEF tableVars
<1>4. TopicTypesRegistered'
  BY ReaderStepEffect, TopicStep DEF TopicTypesRegistered, RuntimeTypeOK, tableVars
<1>5. NoDanglingHandle'
  BY ReaderStepEffect DEF NoDanglingHandle, RuntimeTypeOK, tableVars, handleVars
<1>6. MarkInv'
  <2>1. UNCHANGED participant
    BY ReaderStepEffect DEF handleVars
  <2>2. CASE UNCHANGED tableVars
    BY <2>1, <2>2 DEF MarkInv, tableVars
  <2>3. CASE participant /\ (TopicReady(t, ty) \/ TopicThrows(t, ty))
    BY <2>1, <2>3, TopicStepMarks DEF MarkInv
  <2>4. QED BY <2>2, <2>3, ReaderStepEffect DEF NoDanglingHandle
<1>7. QED BY <1>1, <1>3, <1>4, <1>5, <1>6

\* create_writer likewise.
LEMMA WriterStepInv ==
  ASSUME NEW t \in Topics, NEW ty \in Types, RuntimeInv, WriterStep(t, ty)
  PROVE  RuntimeInv'
<1> USE NoTypeAssumption DEF RuntimeInv
<1>1. RuntimeTypeOK'
  BY WriterStepEffect
<1>2. \A u \in Topics : topics[u] # NoType => topics'[u] = topics[u]
  BY WriterStepEffect, TopicStep DEF tableVars
<1>3. EntityTypesAgree'
  <2>1. \A i \in DOMAIN readers : topics'[readers[i].topic] = readers[i].type
    BY <1>2, ReaderFields DEF EntityTypesAgree
  <2>2. \A i \in DOMAIN writers : topics'[writers[i].topic] = writers[i].type
    BY <1>2, WriterFields DEF EntityTypesAgree
  <2>3. CASE UNCHANGED writers
    BY <2>1, <2>2, <2>3, WriterStepEffect DEF EntityTypesAgree
  <2>4. CASE /\ TopicReady(t, ty)
             /\ writers' = Append(writers, [topic |-> t, type |-> ty])
    BY <2>1, <2>2, <2>4, WriterStepEffect, AppendWriter, TopicReadyType
    DEF EntityTypesAgree
  <2>5. QED BY <2>3, <2>4, WriterStepEffect DEF tableVars
<1>4. TopicTypesRegistered'
  BY WriterStepEffect, TopicStep DEF TopicTypesRegistered, RuntimeTypeOK, tableVars
<1>5. NoDanglingHandle'
  BY WriterStepEffect DEF NoDanglingHandle, RuntimeTypeOK, tableVars, handleVars
<1>6. MarkInv'
  <2>1. UNCHANGED participant
    BY WriterStepEffect DEF handleVars
  <2>2. CASE UNCHANGED tableVars
    BY <2>1, <2>2 DEF MarkInv, tableVars
  <2>3. CASE participant /\ (TopicReady(t, ty) \/ TopicThrows(t, ty))
    BY <2>1, <2>3, TopicStepMarks DEF MarkInv
  <2>4. QED BY <2>2, <2>3, WriterStepEffect DEF NoDanglingHandle
<1>7. QED BY <1>1, <1>3, <1>4, <1>5, <1>6

\* init is only called when no participant is held.
LEMMA LifecycleStepInv ==
  ASSUME RuntimeInv,
         \/ ~participant /\ (InitRuntime \/ InitRuntimeThrows)
         \/ ActivateRuntime \/ ActivateRuntimeThrows
         \/ ShutdownRuntime
  PROVE  RuntimeInv'
<1> USE NoTypeAssumption DEF RuntimeInv
<1>1. RuntimeTypeOK'
  BY LifecycleStepType
<1>2. CASE ~participant /\ InitRuntime
  BY <1>1, <1>2 DEF InitRuntime, EntityTypesAgree, TopicTypesRegistered,
     NoDanglingHandle, MarkInv, tableVars, entityVars
<1>3. CASE ~participant /\ InitRuntimeThrows
  BY <1>1, <1>3 DEF InitRuntimeThrows, EntityTypesAgree, TopicTypesRegistered,
     NoDanglingHandle, MarkInv, tableVars, entityVars
<1>4. CASE ActivateRuntime
  BY <1>1, <1>4 DEF ActivateRuntime, EntityTypesAgree, TopicTypesRegistered,
     NoDanglingHandle, MarkInv, tableVars
<1>5. CASE ActivateRuntimeThrows
  BY <1>1, <1>5 DEF ActivateRuntimeThrows, EntityTypesAgree, TopicTypesRegistered,
     NoDanglingHandle, MarkInv, tableVars
<1>6. CASE ShutdownRuntime
  <2>1. topics' = NoTopics /\ ~participant' /\ ~factory'
        /\ publisher' = 0 /\ subscriber' = 0
    BY <1>6 DEF ShutdownRuntime
  <2>2. EntityTypesAgree'
    <3>1. CASE participant
      BY <1>6, <3>1 DEF ShutdownRuntime, EntityTypesAgree
    <3>2. CASE ~participant
      BY <1>6, <2>1, <3>2 DEF ShutdownRuntime, EntityTypesAgree, NoDanglingHandle,
         entityVars
    <3>3. QED BY <3>1, <3>2
  <2>3. TopicTypesRegistered' /\ NoDanglingHandle'
    BY <2>1 DEF TopicTypesRegistered, NoDanglingHandle, NoTopics
  <2>4. MarkInv'
    BY <1>6 DEF ShutdownRuntime, MarkInv
  <2>5. QED BY <1>1, <2>2, <2>3, <2>4
<1>7. QED BY <1>2, <1>3, <1>4, <1>5, <1>6

\* Every call of IRuntime keeps the invariant.
LEMMA RuntimeInvStep == RuntimeInv /\ [RuntimeNext]_runtimeVars => RuntimeInv'
<1> SUFFICES ASSUME RuntimeInv, [RuntimeNext]_runtimeVars PROVE RuntimeInv'
  OBVIOUS
<1>1. CASE UNCHANGED runtimeVars
  BY <1>1 DEF RuntimeInv, runtimeVars, handleVars, tableVars, entityVars,
     RuntimeTypeOK, EntityTypesAgree, TopicTypesRegistered, NoDanglingHandle, MarkInv
<1>2. CASE \/ ~participant /\ (InitRuntime \/ InitRuntimeThrows)
           \/ ActivateRuntime \/ ActivateRuntimeThrows
           \/ ShutdownRuntime
  BY <1>2, LifecycleStepInv
<1>3. CASE \E t \in Topics, ty \in Types : ReaderStep(t, ty)
  BY <1>3, ReaderStepInv
<1>4. CASE \E t \in Topics, ty \in Types : WriterStep(t, ty)
  BY <1>4, WriterStepInv
<1>5. QED BY <1>1, <1>2, <1>3, <1>4 DEF RuntimeNext, ReaderStep, WriterStep

\* Under any client and any failures, the runtime's tables and the entities
\* in the DDS library stay in agreement (get_or_create_topic, shutdown).
THEOREM RuntimeCorrect ==
  RuntimeSpec =>
    [](RuntimeTypeOK /\ EntityTypesAgree /\ TopicTypesRegistered /\ NoDanglingHandle)
<1>1. RuntimeInv => RuntimeTypeOK /\ EntityTypesAgree /\ TopicTypesRegistered
                    /\ NoDanglingHandle
  BY DEF RuntimeInv
<1>2. QED BY RuntimeInvInit, RuntimeInvStep, <1>1, PTL DEF RuntimeSpec

\* A type that is marked and unknown to the participant has no topic, since a
\* topic's type is known, and so no reader and no writer.
LEMMA RuntimeInvUnusable == RuntimeInv => FailedTypeUnusable
<1> SUFFICES ASSUME RuntimeInv, NEW ty \in failedTypes
             PROVE  /\ ty \notin ddsTypes
                    /\ \A t \in Topics : topics[t] # ty
                    /\ \A i \in DOMAIN readers : readers[i].type # ty
                    /\ \A i \in DOMAIN writers : writers[i].type # ty
  BY DEF FailedTypeUnusable
<1> USE DEF RuntimeInv
<1>1. ty \notin ddsTypes /\ ty # NoType
  BY NoTypeAssumption DEF MarkInv, RuntimeTypeOK
<1>2. \A t \in Topics : topics[t] # ty
  BY <1>1 DEF TopicTypesRegistered
<1>3. \A i \in DOMAIN readers : readers[i].type # ty
  BY <1>2, ReaderFields DEF EntityTypesAgree
<1>4. \A i \in DOMAIN writers : writers[i].type # ty
  BY <1>2, WriterFields DEF EntityTypesAgree
<1>5. QED BY <1>1, <1>2, <1>3, <1>4

\* A type whose registration failed once stays unusable until shutdown, under
\* any client, whatever else fails and however often it is tried again: the
\* participant does not know it, and it has no topic, reader or writer
\* (register_type_once).
THEOREM FailedTypesUnusable == RuntimeSpec => []FailedTypeUnusable
<1>1. RuntimeInv => FailedTypeUnusable
  BY RuntimeInvUnusable
<1>2. QED BY RuntimeInvInit, RuntimeInvStep, <1>1, PTL DEF RuntimeSpec
=============================================================================
