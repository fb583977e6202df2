------------------------- MODULE PublishRaceProofs -------------------------
(***************************************************************************)
(* Proofs about PublishRace, for any finite set of threads, whatever they  *)
(* publish and however often.                                              *)
(***************************************************************************)
EXTENDS PublishRefinement, FiniteSetTheorems, SequenceTheorems, TLAPS

LEMMA RaceTypeInit == RaceInit => RaceTypeOK
<1>1. SUFFICES ASSUME RaceInit PROVE RaceTypeOK
  OBVIOUS
<1>2. \A th \in Threads : call[th].job \in Publication
  BY <1>1, JobsAssumption DEF RaceInit
<1>3. call \in [Threads -> [at : Steps, job : Publication, writer : Nat]]
  BY <1>1, <1>2, JobsAssumption DEF RaceInit, Steps
<1>4. writers \in Seq(DataWriter)
  BY <1>1 DEF RaceInit
<1>5. QED BY <1>1, <1>3, <1>4, MaxCallsAssumption DEF RaceInit, RaceTypeOK

\* A step of a call moves one thread on.
LEMMA GotoMoves ==
  ASSUME RaceTypeOK, NEW th \in Threads, NEW s \in Steps, Goto(th, s)
  PROVE  /\ call' \in [Threads -> [at : Steps, job : Publication, writer : Nat]]
         /\ \A x \in Threads : x # th => call'[x] = call[x]
         /\ call'[th].at = s /\ call'[th].job = call[th].job
         /\ call'[th].writer = call[th].writer
BY DEF RaceTypeOK, Goto

SetCall(th, s, w) == call' = [call EXCEPT ![th].at = s, ![th].writer = w]

LEMMA WriterMoves ==
  ASSUME RaceTypeOK, NEW th \in Threads, NEW s \in Steps, NEW w \in Nat,
         SetCall(th, s, w)
  PROVE  /\ call' \in [Threads -> [at : Steps, job : Publication, writer : Nat]]
         /\ \A x \in Threads : x # th => call'[x] = call[x]
         /\ call'[th].at = s /\ call'[th].job = call[th].job /\ call'[th].writer = w
BY DEF RaceTypeOK, SetCall

\* A call that throws.
LEMMA ThrowMoves ==
  ASSUME RaceTypeOK, NEW th \in Threads, NEW f \in BOOLEAN, Throw(th, f)
  PROVE  /\ Goto(th, "idle") /\ "idle" \in Steps /\ UNCHANGED calls
         /\ refused' = refused \union
                          {[job |-> call[th].job, at |-> call[th].at, fault |-> f]}
         /\ refused' \subseteq [job : Publication, at : Steps, fault : BOOLEAN]
BY DEF RaceTypeOK, Throw, Steps

\* A DataWriter is appended.
LEMMA WriterAppended ==
  ASSUME RaceTypeOK, NEW th \in Threads, NEW b \in BOOLEAN, NewWriter(th, b)
  PROVE  /\ writers' \in Seq(DataWriter) /\ Len(writers) \in Nat
         /\ DOMAIN writers = 1 .. Len(writers)
         /\ DOMAIN writers' = DOMAIN writers \union {Len(writers) + 1}
         /\ \A i \in DOMAIN writers : writers'[i] = writers[i] /\ i # Len(writers) + 1
         /\ writers'[Len(writers) + 1] =
              [topic |-> Topic(th), type |-> Type(th), bound |-> b]
<1> DEFINE w == [topic |-> Topic(th), type |-> Type(th), bound |-> b]
<1>1. w \in DataWriter /\ writers \in Seq(DataWriter) /\ writers' = Append(writers, w)
  BY DEF RaceTypeOK, NewWriter, DataWriter, Publication, Topic, Type
<1> HIDE DEF w
<1>2. /\ writers' \in Seq(DataWriter) /\ Len(writers) \in Nat
      /\ DOMAIN writers = 1 .. Len(writers) /\ DOMAIN writers' = 1 .. Len(writers) + 1
      /\ \A i \in 1 .. Len(writers) : writers'[i] = writers[i]
      /\ writers'[Len(writers) + 1] = w
  BY <1>1, AppendProperties, LenProperties
<1>3. QED BY <1>2 DEF w

LEMMA RaceTypeStep ==
  ASSUME RaceTypeOK, [RaceNext]_raceVars
  PROVE  RaceTypeOK'
<1> USE DEF At, Topic, Type
<1>1. CASE UNCHANGED raceVars
  BY <1>1 DEF raceVars, tables, runtimeTables, RaceTypeOK
<1>2. ASSUME NEW th \in Threads, Step(th)
      PROVE  RaceTypeOK'
  <2>1. /\ call[th].job \in Publication /\ call[th].job \in Jobs[th]
        /\ Topic(th) \in Topics /\ Type(th) \in Types
    BY DEF RaceTypeOK, Publication
  <2>2. CASE Begin(th)
    <3>1. PICK j \in Jobs[th] :
            call' = [call EXCEPT ![th] = [at |-> "find_type", job |-> j, writer |-> 0]]
      BY <2>2 DEF Begin
    <3>2. j \in Publication
      BY JobsAssumption
    <3>3. calls' \in [Threads -> 0 .. MaxCalls]
      BY <2>2, MaxCallsAssumption DEF Begin, RaceTypeOK
    <3>4. QED BY <2>2, <3>1, <3>2, <3>3
          DEF Begin, RaceTypeOK, Steps, tables, runtimeTables
  <2>3. CASE FindType(th) \/ FindTopic(th) \/ CheckType(th) \/ Write(th)
    <3>1. \E s \in Steps : Goto(th, s)
      BY <2>3 DEF FindType, FindTopic, CheckType, Write, Steps
    <3>2. UNCHANGED <<tables, calls, refused>>
      BY <2>3 DEF FindType, FindTopic, CheckType, Write
    <3>3. QED BY <3>1, <3>2, GotoMoves DEF RaceTypeOK, tables, runtimeTables
  <2>4. CASE FindTypeThrows(th) \/ RegisterTypeThrows(th) \/ CheckTypeThrows(th)
             \/ CreateTopicThrows(th)
    <3>1. PICK f \in BOOLEAN : Throw(th, f)
      BY <2>4 DEF FindTypeThrows, RegisterTypeThrows, CheckTypeThrows, CreateTopicThrows
    <3>2. UNCHANGED tables
      BY <2>4 DEF FindTypeThrows, RegisterTypeThrows, CheckTypeThrows, CreateTopicThrows
    <3>3. QED BY <3>1, <3>2, ThrowMoves, GotoMoves DEF RaceTypeOK, tables, runtimeTables
  <2>5. CASE InsertType(th)
    <3>1. Goto(th, "find_writer") /\ "find_writer" \in Steps
      BY <2>5 DEF InsertType, Steps
    <3>2. topicTypes' \in [Topics -> Types \union {NoType}]
      BY <2>1, <2>5 DEF InsertType, RaceTypeOK
    <3>3. QED BY <2>5, <3>1, <3>2, GotoMoves DEF InsertType, RaceTypeOK, runtimeTables
  <2>6. CASE FindWriter(th)
    <3>1. publisherCache[Topic(th)] \in Nat
      BY <2>1 DEF RaceTypeOK
    <3>2. \E s \in Steps : SetCall(th, s, publisherCache[Topic(th)])
      BY <2>6 DEF FindWriter, Steps, SetCall
    <3>3. QED BY <2>6, <3>1, <3>2, WriterMoves
          DEF FindWriter, RaceTypeOK, tables, runtimeTables
  <2>7. CASE MarkType(th)
    <3>1. \E s \in Steps : Goto(th, s)
      BY <2>7 DEF MarkType, Steps
    <3>2. QED BY <2>1, <2>7, <3>1, GotoMoves DEF MarkType, RaceTypeOK
  <2>8. CASE RegisterType(th)
    <3>1. Goto(th, "find_topic") /\ "find_topic" \in Steps
      BY <2>8 DEF RegisterType, Steps
    <3>2. QED BY <2>1, <2>8, <3>1, GotoMoves DEF RegisterType, RaceTypeOK
  <2>9. CASE CreateTopic(th) \/ InsertTopic(th) \/ RecordType(th)
    <3>1. \E s \in Steps : Goto(th, s)
      BY <2>9 DEF CreateTopic, InsertTopic, RecordType, Steps
    <3>2. /\ topics' \subseteq Topics
          /\ recordedTypes' \in [Topics -> Types \union {NoType}]
          /\ ddsTopics' \in [Topics -> Types \union {NoType}]
      BY <2>1, <2>9 DEF CreateTopic, InsertTopic, RecordType, RaceTypeOK
    <3>3. UNCHANGED <<topicTypes, publisherCache, registeredTypes, ddsTypes, writers,
                      calls, refused>>
      BY <2>9 DEF CreateTopic, InsertTopic, RecordType
    <3>4. QED BY <3>1, <3>2, <3>3, GotoMoves DEF RaceTypeOK
  <2>10. CASE CreateWriter(th) \/ CreateWriterThrows(th)
    <3>1. writers' \in Seq(DataWriter)
      BY <2>10, WriterAppended DEF CreateWriter, CreateWriterThrows, RaceTypeOK
    <3>2. UNCHANGED <<topicTypes, publisherCache, runtimeTables, calls>>
      BY <2>10 DEF CreateWriter, CreateWriterThrows, Throw
    <3>3. /\ call' \in [Threads -> [at : Steps, job : Publication, writer : Nat]]
          /\ \A x \in Threads : call'[x].job = call[x].job
          /\ refused' \subseteq [job : Publication, at : Steps, fault : BOOLEAN]
      <4>1. CASE CreateWriter(th)
        <5>1. SetCall(th, "insert_writer", Len(writers) + 1) /\ UNCHANGED refused
          BY <4>1 DEF CreateWriter, SetCall
        <5>2. "insert_writer" \in Steps /\ Len(writers) + 1 \in Nat
          BY <4>1, WriterAppended DEF Steps, CreateWriter
        <5>3. QED BY <5>1, <5>2, WriterMoves DEF RaceTypeOK
      <4>2. CASE CreateWriterThrows(th)
        BY <4>2, ThrowMoves, GotoMoves DEF CreateWriterThrows
      <4>3. QED BY <2>10, <4>1, <4>2
    <3>4. QED BY <3>1, <3>2, <3>3 DEF RaceTypeOK, runtimeTables
  <2>11. CASE InsertWriter(th)
    <3> DEFINE w == IF publisherCache[Topic(th)] = 0 THEN call[th].writer
                                                    ELSE publisherCache[Topic(th)]
    <3>1. w \in Nat
      BY <2>1 DEF RaceTypeOK
    <3>2. publisherCache' = [publisherCache EXCEPT ![Topic(th)] = w]
      BY <2>11 DEF InsertWriter
    <3>3. SetCall(th, "write", w)
      BY <2>11 DEF InsertWriter, SetCall
    <3> HIDE DEF w
    <3>4. "write" \in Steps
      BY DEF Steps
    <3>5. UNCHANGED <<topicTypes, runtimeTables, writers, calls, refused>>
      BY <2>11 DEF InsertWriter
    <3>6. publisherCache' \in [Topics -> Nat]
      BY <2>1, <3>1, <3>2 DEF RaceTypeOK
    <3>7. QED BY <3>1, <3>3, <3>4, <3>5, <3>6, WriterMoves
          DEF RaceTypeOK, runtimeTables
  <2>12. QED
    BY <1>2, <2>2, <2>3, <2>4, <2>5, <2>6, <2>7, <2>8, <2>9, <2>10, <2>11 DEF Step
<1>3. QED BY <1>1, <1>2 DEF RaceNext, Done

-----------------------------------------------------------------------------
(* The writers and the cache.                                              *)

\* What a call relies on at its step.
CallOK(th) ==
  /\ call[th].at \in {"insert_topic", "record_type"} => ddsTopics[Topic(th)] = Type(th)
  /\ At(th, "create_writer") => recordedTypes[Topic(th)] = Type(th)
  /\ At(th, "insert_writer") =>
       /\ call[th].writer \in DOMAIN writers
       /\ writers[call[th].writer] = [topic |-> Topic(th), type |-> Type(th), bound |-> TRUE]
  /\ At(th, "write") =>
       call[th].writer # 0 /\ call[th].writer = publisherCache[Topic(th)]
Relying == {"insert_topic", "record_type", "create_writer", "insert_writer", "write"}

\* Every writer is for something a thread publishes.
FromJobs ==
  \A i \in DOMAIN writers :
    [topic |-> writers[i].topic, type |-> writers[i].type] \in Publications

\* The runtime records the type DDS has for the topic, which never changes.
RecordedOK == \A t \in Topics : recordedTypes[t] \in {NoType, ddsTopics[t]}

WriterInv ==
  /\ RaceTypeOK /\ FromJobs /\ RecordedOK /\ WritersOfRecordedType
  /\ \A th \in Threads : CallOK(th)

LEMMA WriterInit == RaceInit => WriterInv
BY RaceTypeInit
   DEF RaceInit, WriterInv, FromJobs, RecordedOK, WritersOfRecordedType, CallOK, At

LEMMA WriterFields ==
  ASSUME RaceTypeOK, NEW i \in DOMAIN writers
  PROVE  writers[i].topic \in Topics /\ writers[i].type \in Types
<1>1. writers[i] \in DataWriter
  BY DEF RaceTypeOK
<1>2. QED BY <1>1 DEF DataWriter

\* A new DataWriter has the type recorded for its topic, and the others stay.
LEMMA NewWriterInv ==
  ASSUME WriterInv, NEW th \in Threads, NEW b \in BOOLEAN, NewWriter(th, b),
         At(th, "create_writer"), UNCHANGED <<recordedTypes, publisherCache>>
  PROVE  /\ FromJobs' /\ WritersOfRecordedType'
         /\ \A i \in DOMAIN writers : i \in DOMAIN writers' /\ writers'[i] = writers[i]
<1> DEFINE L == Len(writers)
<1>1. RaceTypeOK /\ recordedTypes[Topic(th)] = Type(th)
  BY DEF WriterInv, CallOK
<1>2. /\ DOMAIN writers' = DOMAIN writers \union {L + 1}
      /\ \A i \in DOMAIN writers : writers'[i] = writers[i] /\ i # L + 1
      /\ writers'[L + 1].topic = Topic(th) /\ writers'[L + 1].type = Type(th)
  <2>1. /\ DOMAIN writers' = DOMAIN writers \union {L + 1}
        /\ \A i \in DOMAIN writers : writers'[i] = writers[i] /\ i # L + 1
        /\ writers'[L + 1] = [topic |-> Topic(th), type |-> Type(th), bound |-> b]
    BY <1>1, WriterAppended, Zenon
  <2>2. QED BY <2>1
<1> HIDE DEF L
<1>3. [topic |-> Topic(th), type |-> Type(th)] \in Publications
  <2>1. call[th].job \in Publication /\ call[th].job \in Publications
    BY <1>1 DEF RaceTypeOK, Publications
  <2>2. call[th].job = [topic |-> Topic(th), type |-> Type(th)]
    BY <2>1 DEF Publication, Topic, Type
  <2>3. QED BY <2>1, <2>2
<1>4. FromJobs'
  <2>1. \A i \in DOMAIN writers' :
          [topic |-> writers'[i].topic, type |-> writers'[i].type] \in Publications
    BY <1>2, <1>3 DEF WriterInv, FromJobs
  <2>2. QED BY <2>1 DEF FromJobs, Publications
<1>5. WritersOfRecordedType'
  BY <1>1, <1>2 DEF WriterInv, WritersOfRecordedType
<1>6. QED BY <1>2, <1>4, <1>5

LEMMA WriterStep ==
  ASSUME WriterInv, [RaceNext]_raceVars
  PROVE  WriterInv'
<1> USE DEF At, Topic, Type
<1>1. RaceTypeOK /\ RaceTypeOK'
  BY RaceTypeStep DEF WriterInv
<1>2. CASE UNCHANGED raceVars
  BY <1>1, <1>2
     DEF raceVars, tables, runtimeTables, WriterInv, FromJobs, RecordedOK,
         WritersOfRecordedType, CallOK
<1>3. ASSUME NEW th \in Threads, Step(th)
      PROVE  WriterInv'
  <2>1. /\ call[th].job \in Publication /\ call[th].job \in Publications
        /\ Topic(th) \in Topics /\ Type(th) \in Types
    BY <1>1 DEF RaceTypeOK, Publication, Publications
  \* Moving on with these tables as they are, to a step of which what it
  \* relies on holds.
  <2>2. ASSUME NEW s \in Steps, Goto(th, s), s \in Relying => CallOK(th)',
               UNCHANGED <<publisherCache, recordedTypes, ddsTopics, writers>>
        PROVE  WriterInv'
    <3>1. ASSUME NEW x \in Threads
          PROVE  CallOK(x)'
      <4>1. CASE x = th
        BY <1>1, <2>2, <4>1, GotoMoves DEF CallOK, Relying
      <4>2. CASE x # th
        BY <1>1, <2>2, <4>2, GotoMoves DEF WriterInv, CallOK
      <4>3. QED BY <4>1, <4>2
    <3>2. FromJobs' /\ RecordedOK' /\ WritersOfRecordedType'
      BY <2>2 DEF WriterInv, FromJobs, RecordedOK, WritersOfRecordedType
    <3>3. QED BY <1>1, <3>1, <3>2 DEF WriterInv
  <2>3. CASE Begin(th)
    <3>1. \A x \in Threads : CallOK(x)'
      BY <1>1, <2>3 DEF Begin, WriterInv, CallOK, RaceTypeOK, tables, runtimeTables
    <3>2. QED BY <1>1, <2>3, <3>1
          DEF Begin, WriterInv, FromJobs, RecordedOK, WritersOfRecordedType, tables,
              runtimeTables
  <2>4. CASE FindType(th) \/ FindTypeThrows(th) \/ InsertType(th) \/ MarkType(th)
             \/ RegisterType(th) \/ RegisterTypeThrows(th) \/ FindTopic(th)
             \/ CheckTypeThrows(th) \/ CreateTopicThrows(th) \/ Write(th)
    <3>1. \E s \in Steps \ Relying : Goto(th, s)
      BY <2>4 DEF FindType, FindTypeThrows, InsertType, MarkType, RegisterType,
         RegisterTypeThrows, FindTopic, CheckTypeThrows, CreateTopicThrows, Write,
         Throw, Steps, Relying
    <3>2. UNCHANGED <<publisherCache, recordedTypes, ddsTopics, writers>>
      BY <2>4 DEF FindType, FindTypeThrows, InsertType, MarkType, RegisterType,
         RegisterTypeThrows, FindTopic, CheckTypeThrows, CreateTopicThrows, Write,
         tables, runtimeTables
    <3>3. QED BY <2>2, <3>1, <3>2
  <2>5. CASE FindWriter(th)
    <3> DEFINE w == publisherCache[Topic(th)]
    <3>1. w \in Nat /\ UNCHANGED tables
      BY <1>1, <2>1, <2>5 DEF RaceTypeOK, FindWriter
    <3>2. PICK s \in {"mark_type", "write"} :
            SetCall(th, s, w) /\ (s = "write" => w # 0)
      BY <2>5 DEF FindWriter, SetCall
    <3>3. s \in Steps
      BY DEF Steps
    <3>4. /\ \A x \in Threads : x # th => call'[x] = call[x]
          /\ call'[th].at = s /\ call'[th].job = call[th].job /\ call'[th].writer = w
      BY <1>1, <3>1, <3>2, <3>3, WriterMoves
    <3>5. \A x \in Threads : CallOK(x)'
      BY <3>1, <3>2, <3>4 DEF WriterInv, CallOK, tables, runtimeTables
    <3>6. QED BY <1>1, <3>1, <3>5
          DEF WriterInv, FromJobs, RecordedOK, WritersOfRecordedType, tables,
              runtimeTables
  <2>6. CASE CheckType(th)
    <3>1. /\ Goto(th, "create_writer") /\ "create_writer" \in Steps
          /\ recordedTypes[Topic(th)] = Type(th)
          /\ UNCHANGED <<publisherCache, recordedTypes, ddsTopics, writers>>
      BY <2>6 DEF CheckType, Steps, tables, runtimeTables
    <3>2. CallOK(th)'
      BY <1>1, <3>1, GotoMoves DEF CallOK
    <3>3. QED BY <2>2, <3>1, <3>2
  \* DDS sets the type of a topic once.
  <2>7. CASE CreateTopic(th)
    <3>1. /\ Goto(th, "insert_topic") /\ "insert_topic" \in Steps
          /\ UNCHANGED <<publisherCache, recordedTypes, writers>>
      BY <2>7 DEF CreateTopic, Steps
    <3>2. /\ ddsTopics'[Topic(th)] = Type(th) /\ ddsTopics[Topic(th)] \in {NoType, Type(th)}
          /\ \A t \in Topics : t # Topic(th) => ddsTopics'[t] = ddsTopics[t]
      BY <1>1, <2>1, <2>7 DEF CreateTopic, CanCreateTopic, RaceTypeOK
    <3>3. \A t \in Topics : ddsTopics[t] \in Types => ddsTopics'[t] = ddsTopics[t]
      BY <3>2, TypesAssumption
    <3>4. RecordedOK'
      BY <1>1, <3>1, <3>2, <3>3 DEF WriterInv, RecordedOK, RaceTypeOK
    <3>5. FromJobs' /\ WritersOfRecordedType'
      BY <3>1 DEF WriterInv, FromJobs, WritersOfRecordedType
    <3>6. \A x \in Threads : call[x].job.topic \in Topics /\ call[x].job.type \in Types
      BY <1>1 DEF RaceTypeOK, Publication
    <3>7. \A x \in Threads : CallOK(x)'
      BY <1>1, <3>1, <3>2, <3>3, <3>6, GotoMoves DEF WriterInv, CallOK
    <3>8. QED BY <1>1, <3>4, <3>5, <3>7 DEF WriterInv
  <2>8. CASE InsertTopic(th)
    <3>1. /\ Goto(th, "record_type") /\ "record_type" \in Steps
          /\ ddsTopics[Topic(th)] = Type(th)
          /\ UNCHANGED <<publisherCache, recordedTypes, ddsTopics, writers>>
      BY <2>8 DEF InsertTopic, Steps, WriterInv, CallOK
    <3>2. CallOK(th)'
      BY <1>1, <3>1, GotoMoves DEF CallOK
    <3>3. QED BY <2>2, <3>1, <3>2
  \* So the runtime records it once too.
  <2>9. CASE RecordType(th)
    <3>1. /\ Goto(th, "create_writer") /\ "create_writer" \in Steps
          /\ ddsTopics[Topic(th)] = Type(th)
          /\ UNCHANGED <<publisherCache, ddsTopics, writers>>
      BY <2>9 DEF RecordType, Steps, WriterInv, CallOK
    <3>2. /\ recordedTypes'[Topic(th)] = Type(th)
          /\ \A t \in Topics : t # Topic(th) => recordedTypes'[t] = recordedTypes[t]
          /\ recordedTypes[Topic(th)] \in {NoType, Type(th)}
      BY <1>1, <2>1, <2>9, <3>1 DEF RecordType, RaceTypeOK, WriterInv, RecordedOK
    <3>3. RecordedOK'
      BY <3>1, <3>2 DEF WriterInv, RecordedOK
    <3>4. \A t \in Topics : recordedTypes[t] \in Types => recordedTypes'[t] = recordedTypes[t]
      BY <3>2, TypesAssumption
    <3>5. FromJobs' /\ WritersOfRecordedType'
      BY <1>1, <3>1, <3>4, WriterFields DEF WriterInv, FromJobs, WritersOfRecordedType
    <3>6. \A x \in Threads : call[x].job.topic \in Topics /\ call[x].job.type \in Types
      BY <1>1 DEF RaceTypeOK, Publication
    <3>7. \A x \in Threads : CallOK(x)'
      BY <1>1, <3>1, <3>2, <3>4, <3>6, GotoMoves DEF WriterInv, CallOK
    <3>8. QED BY <1>1, <3>3, <3>5, <3>7 DEF WriterInv
  <2>10. CASE CreateWriter(th)
    <3> DEFINE L == Len(writers)
    <3>1. /\ NewWriter(th, TRUE) /\ UNCHANGED <<publisherCache, recordedTypes, ddsTopics>>
          /\ At(th, "create_writer")
      BY <2>10 DEF CreateWriter, runtimeTables
    <3>2. /\ L + 1 \in DOMAIN writers' /\ L + 1 \in Nat
          /\ writers'[L + 1] = [topic |-> Topic(th), type |-> Type(th), bound |-> TRUE]
      <4>1. /\ L \in Nat /\ DOMAIN writers' = DOMAIN writers \union {L + 1}
            /\ writers'[L + 1] = [topic |-> Topic(th), type |-> Type(th), bound |-> TRUE]
        BY <1>1, <3>1, WriterAppended, Zenon
      <4>2. QED BY <4>1
    <3>3. SetCall(th, "insert_writer", L + 1) /\ "insert_writer" \in Steps
      BY <2>10 DEF CreateWriter, SetCall, Steps
    <3> HIDE DEF L
    <3>4. /\ \A x \in Threads : x # th => call'[x] = call[x]
          /\ call'[th].at = "insert_writer" /\ call'[th].job = call[th].job
          /\ call'[th].writer = L + 1
      BY <1>1, <3>2, <3>3, WriterMoves
    <3>5. /\ FromJobs' /\ WritersOfRecordedType' /\ RecordedOK'
          /\ \A i \in DOMAIN writers : i \in DOMAIN writers' /\ writers'[i] = writers[i]
      BY <3>1, NewWriterInv DEF WriterInv, RecordedOK
    <3>6. ASSUME NEW x \in Threads
          PROVE  CallOK(x)'
      <4>1. CASE x = th
        BY <3>2, <3>4, <4>1 DEF CallOK
      <4>2. CASE x # th
        BY <3>1, <3>4, <3>5, <4>2 DEF WriterInv, CallOK
      <4>3. QED BY <4>1, <4>2
    <3>7. QED BY <1>1, <3>5, <3>6 DEF WriterInv
  <2>11. CASE CreateWriterThrows(th)
    <3>1. /\ Goto(th, "idle") /\ "idle" \in Steps /\ At(th, "create_writer")
          /\ UNCHANGED <<publisherCache, recordedTypes, ddsTopics>>
          /\ UNCHANGED writers \/ NewWriter(th, FALSE)
      BY <2>11 DEF CreateWriterThrows, Throw, Steps, runtimeTables
    <3>2. CASE UNCHANGED writers
      BY <2>2, <3>1, <3>2 DEF Relying
    <3>3. CASE NewWriter(th, FALSE)
      <4>1. /\ FromJobs' /\ WritersOfRecordedType' /\ RecordedOK'
            /\ \A i \in DOMAIN writers : i \in DOMAIN writers' /\ writers'[i] = writers[i]
        BY <3>1, <3>3, NewWriterInv DEF WriterInv, RecordedOK
      <4>2. \A x \in Threads : CallOK(x)'
        BY <1>1, <3>1, <4>1, GotoMoves DEF WriterInv, CallOK
      <4>3. QED BY <1>1, <4>1, <4>2 DEF WriterInv
    <3>4. QED BY <3>1, <3>2, <3>3
  \* The first writer of a topic stays in the cache.
  <2>12. CASE InsertWriter(th)
    <3> DEFINE w == IF publisherCache[Topic(th)] = 0 THEN call[th].writer
                                                    ELSE publisherCache[Topic(th)]
    <3>1. /\ publisherCache' = [publisherCache EXCEPT ![Topic(th)] = w]
          /\ SetCall(th, "write", w)
          /\ UNCHANGED <<recordedTypes, ddsTopics, writers>>
          /\ "write" \in Steps
      BY <2>12 DEF InsertWriter, SetCall, Steps, runtimeTables
    <3>2. w \in DOMAIN writers /\ writers[w].topic = Topic(th) /\ writers[w].bound
      <4>1. /\ call[th].writer \in DOMAIN writers
            /\ writers[call[th].writer] =
                 [topic |-> Topic(th), type |-> Type(th), bound |-> TRUE]
        BY <2>12 DEF InsertWriter, WriterInv, CallOK
      <4>2. /\ writers[call[th].writer].topic = Topic(th)
            /\ writers[call[th].writer].bound
        BY <4>1
      <4>3. publisherCache[Topic(th)] # 0 =>
              /\ publisherCache[Topic(th)] \in DOMAIN writers
              /\ writers[publisherCache[Topic(th)]].topic = Topic(th)
              /\ writers[publisherCache[Topic(th)]].bound
        BY <2>1 DEF WriterInv, WritersOfRecordedType
      <4>4. QED BY <4>1, <4>2, <4>3, Zenon
    <3>3. w \in Nat /\ w # 0
      BY <1>1, <3>2, LenProperties DEF RaceTypeOK
    <3>4. publisherCache[Topic(th)] # 0 => w = publisherCache[Topic(th)]
      OBVIOUS
    <3> HIDE DEF w
    <3>5. /\ \A x \in Threads : x # th => call'[x] = call[x]
          /\ call'[th].at = "write" /\ call'[th].job = call[th].job /\ call'[th].writer = w
      BY <1>1, <3>1, <3>3, WriterMoves
    <3>6. /\ publisherCache'[Topic(th)] = w
          /\ \A t \in Topics : t # Topic(th) => publisherCache'[t] = publisherCache[t]
      BY <1>1, <2>1, <3>1 DEF RaceTypeOK
    <3>7. WritersOfRecordedType'
      BY <3>1, <3>2, <3>6 DEF WriterInv, WritersOfRecordedType
    <3>8. \A x \in Threads : call[x].job.topic \in Topics
      BY <1>1 DEF RaceTypeOK, Publication
    <3>9. ASSUME NEW x \in Threads
          PROVE  CallOK(x)'
      <4>1. CASE x = th
        BY <3>3, <3>5, <3>6, <4>1 DEF CallOK
      <4>2. CASE x # th
        <5>1. CallOK(x) /\ call'[x] = call[x] /\ call[x].job.topic \in Topics
          BY <3>5, <3>8, <4>2 DEF WriterInv
        <5>2. CASE Topic(x) # Topic(th)
          BY <3>1, <3>6, <5>1, <5>2 DEF CallOK
        <5>3. CASE Topic(x) = Topic(th)
          BY <3>1, <3>4, <3>6, <5>1, <5>3 DEF CallOK
        <5>4. QED BY <5>2, <5>3
      <4>3. QED BY <4>1, <4>2
    <3>10. QED BY <1>1, <3>1, <3>7, <3>9 
           DEF WriterInv, FromJobs, RecordedOK
  <2>13. QED
    BY <1>3, <2>3, <2>4, <2>5, <2>6, <2>7, <2>8, <2>9, <2>10, <2>11, <2>12 DEF Step
<1>4. QED BY <1>2, <1>3 DEF RaceNext, Done

\* However many threads publish at once, the DataWriters of a topic have the
\* type get_or_create_topic recorded, and publisher_cache_ holds one of the
\* topic's own.
THEOREM WritersTyped == RaceSpec => []WritersOfRecordedType
<1>1. WriterInv => WritersOfRecordedType
  BY DEF WriterInv
<1>2. QED BY <1>1, WriterInit, WriterStep, PTL DEF RaceSpec

\* write_erased is reached only with the cached DataWriter of the topic.
THEOREM CacheWritten == RaceSpec => []WritesThroughCache
<1>1. WriterInv => WritesThroughCache
  BY DEF WriterInv, CallOK, WritesThroughCache
<1>2. QED BY <1>1, WriterInit, WriterStep, PTL DEF RaceSpec

\* A topic that is published with one type is written with that type.
THEOREM AgreedTypesWritten == RaceSpec => []AgreedTypeWritten
<1>1. WriterInv => AgreedTypeWritten
  <2>1. SUFFICES ASSUME WriterInv, NEW th \in Threads, At(th, "write"),
                        Cardinality(TypesOf(Topic(th))) = 1
                 PROVE  writers[call[th].writer].type = Type(th)
    BY DEF AgreedTypeWritten
  <2> DEFINE w == call[th].writer
             S == TypesOf(Topic(th))
  <2>2. call[th].job \in Publications /\ Topic(th) \in Topics
    BY <2>1 DEF WriterInv, RaceTypeOK, Publication, Publications, Topic
  <2>3. /\ w \in DOMAIN writers /\ writers[w].topic = Topic(th)
        /\ [topic |-> writers[w].topic, type |-> writers[w].type] \in Publications
    BY <2>1, <2>2 DEF WriterInv, CallOK, WritersOfRecordedType, FromJobs
  <2>4. writers[w].type \in S /\ Type(th) \in S
    <3>1. \A k \in Publications : k.topic = Topic(th) => k.type \in S
      BY DEF TypesOf
    <3>2. QED BY <2>2, <2>3, <3>1 DEF Topic, Type
  <2>5. S \subseteq Types
    BY JobsAssumption DEF TypesOf, Publications, Publication
  <2>6. \E x : S = {x}
    BY <2>1, <2>5, TypesAssumption, FS_Subset, FS_Singleton
  <2>7. QED BY <2>4, <2>6
<1>2. QED BY <1>1, WriterInit, WriterStep, PTL DEF RaceSpec

-----------------------------------------------------------------------------
(* A topic with one publisher.                                             *)

\* Thread th alone publishes t: until a call of its inserts a writer in the
\* cache no writer of t is bound, or only the one that call has made.
Making == {"mark_type", "register_type", "find_topic", "check_type", "create_topic",
           "insert_topic", "record_type", "create_writer"}
WritersOf(t) == {i \in DOMAIN writers : writers[i].topic = t /\ writers[i].bound}
SoleOK(th, t) ==
  /\ Topic(th) = t /\ call[th].at \in Making => WritersOf(t) = {}
  /\ publisherCache[t] = 0 /\ ~(Topic(th) = t /\ At(th, "insert_writer")) =>
       WritersOf(t) = {}
  /\ \A i, j \in WritersOf(t) : i = j
SoleInv == \A th \in Threads, t \in Topics : Publishers(t) = {th} => SoleOK(th, t)

LEMMA SoleInit == RaceInit => SoleInv
BY DEF RaceInit, SoleInv, SoleOK, WritersOf, Making, At

\* A DataWriter that is not bound is nobody's.
LEMMA OrphanWriter ==
  ASSUME RaceTypeOK, NEW th \in Threads, NewWriter(th, FALSE)
  PROVE  \A t \in Topics : WritersOf(t)' = WritersOf(t)
<1> DEFINE L == Len(writers)
<1>1. /\ DOMAIN writers' = DOMAIN writers \union {L + 1}
      /\ \A i \in DOMAIN writers : writers'[i] = writers[i] /\ i # L + 1
      /\ writers'[L + 1] = [topic |-> Topic(th), type |-> Type(th), bound |-> FALSE]
  BY WriterAppended, Zenon
<1> HIDE DEF L
<1>2. ~writers'[L + 1].bound
  BY <1>1
<1>3. QED BY <1>1, <1>2 DEF WritersOf

\* A step that leaves the bound writers and the cache alone and does not start
\* to make a writer.
LEMMA SoleKept ==
  ASSUME SoleInv, RaceTypeOK, NEW th \in Threads, UNCHANGED publisherCache,
         \A t \in Topics : WritersOf(t)' = WritersOf(t),
         \A x \in Threads : x # th => call'[x] = call[x],
         ~At(th, "insert_writer"),
         \/ call'[th].at \notin Making
         \/ call[th].at \in Making /\ call'[th].job = call[th].job
  PROVE  SoleInv'
<1>1. SUFFICES ASSUME NEW x \in Threads, NEW t \in Topics, Publishers(t) = {x}
               PROVE  SoleOK(x, t)'
  BY DEF SoleInv, Publishers
<1>2. SoleOK(x, t) /\ WritersOf(t)' = WritersOf(t)
  BY <1>1 DEF SoleInv
<1>3. CASE x = th
  BY <1>2, <1>3 DEF SoleOK, At, Topic
<1>4. CASE x # th
  BY <1>2, <1>4 DEF SoleOK, At, Topic
<1>5. QED BY <1>3, <1>4

LEMMA SoleStep ==
  ASSUME SoleInv, WriterInv, [RaceNext]_raceVars
  PROVE  SoleInv'
<1>1. RaceTypeOK /\ RaceTypeOK'
  BY RaceTypeStep DEF WriterInv
<1>2. CASE UNCHANGED raceVars
  BY <1>2 DEF raceVars, tables, runtimeTables, SoleInv, SoleOK, WritersOf, At, Topic, Publishers
<1>3. ASSUME NEW th \in Threads, Step(th)
      PROVE  SoleInv'
  <2>1. Topic(th) \in Topics /\ th \in Publishers(Topic(th))
    BY <1>1 DEF RaceTypeOK, Publication, Publishers, Topic
  <2>2. CASE Begin(th)
    <3>1. /\ \A x \in Threads : x # th => call'[x] = call[x]
          /\ call'[th].at = "find_type" /\ ~At(th, "insert_writer")
          /\ UNCHANGED <<publisherCache, writers>>
      BY <1>1, <2>2 DEF Begin, RaceTypeOK, At, tables
    <3>2. QED BY <1>1, <3>1, SoleKept DEF Making, WritersOf
  <2>3. CASE FindType(th) \/ FindTypeThrows(th) \/ InsertType(th) \/ Write(th)
             \/ RegisterTypeThrows(th) \/ CheckTypeThrows(th) \/ CreateTopicThrows(th)
    <3>1. PICK s \in Steps \ Making : Goto(th, s)
      BY <2>3 DEF FindType, FindTypeThrows, InsertType, Write, RegisterTypeThrows,
         CheckTypeThrows, CreateTopicThrows, Throw, Steps, Making
    <3>2. UNCHANGED <<publisherCache, writers>> /\ ~At(th, "insert_writer")
      BY <2>3 DEF FindType, FindTypeThrows, InsertType, Write, RegisterTypeThrows,
         CheckTypeThrows, CreateTopicThrows, tables, At
    <3>3. QED BY <1>1, <3>1, <3>2, GotoMoves, SoleKept DEF WritersOf
  <2>4. CASE MarkType(th) \/ RegisterType(th) \/ FindTopic(th) \/ CheckType(th)
             \/ CreateTopic(th) \/ InsertTopic(th) \/ RecordType(th)
    <3>1. PICK s \in Steps : Goto(th, s)
      BY <2>4 DEF MarkType, RegisterType, FindTopic, CheckType, CreateTopic,
         InsertTopic, RecordType, Steps
    <3>2. /\ UNCHANGED <<publisherCache, writers>> /\ ~At(th, "insert_writer")
          /\ call[th].at \in Making
      BY <2>4 DEF MarkType, RegisterType, FindTopic, CheckType, CreateTopic,
         InsertTopic, RecordType, tables, At, Making
    <3>3. QED BY <1>1, <3>1, <3>2, GotoMoves, SoleKept DEF WritersOf
  <2>5. CASE FindWriter(th)
    <3> DEFINE w == publisherCache[Topic(th)]
    <3>1. w \in Nat /\ UNCHANGED tables /\ At(th, "find_writer")
      BY <1>1, <2>1, <2>5 DEF RaceTypeOK, FindWriter
    <3>2. PICK s \in {"mark_type", "write"} :
            SetCall(th, s, w) /\ (s = "mark_type" => w = 0)
      BY <2>5 DEF FindWriter, SetCall
    <3>3. s \in Steps
      BY DEF Steps
    <3>4. /\ \A x \in Threads : x # th => call'[x] = call[x]
          /\ call'[th].at = s /\ call'[th].job = call[th].job
      BY <1>1, <3>1, <3>2, <3>3, WriterMoves
    <3>5. SUFFICES ASSUME NEW x \in Threads, NEW t \in Topics, Publishers(t) = {x}
                   PROVE  SoleOK(x, t)'
      BY DEF SoleInv, Publishers
    <3>6. SoleOK(x, t) /\ WritersOf(t)' = WritersOf(t) /\ publisherCache' = publisherCache
      BY <3>1, <3>5 DEF SoleInv, WritersOf, tables
    <3>7. CASE x = th
      <4>1. Topic(th)' = Topic(th) /\ ~At(th, "insert_writer") /\ ~At(th, "insert_writer")'
        BY <3>1, <3>2, <3>4 DEF Topic, At
      <4>2. Topic(th) = t /\ s \in Making => WritersOf(t) = {}
        BY <3>2, <3>6, <3>7, <4>1 DEF SoleOK, Making
      <4>3. QED BY <3>4, <3>6, <3>7, <4>1, <4>2 DEF SoleOK
    <3>8. CASE x # th
      BY <3>4, <3>6, <3>8 DEF SoleOK, At, Topic
    <3>9. QED BY <3>7, <3>8
  <2>6. CASE CreateWriter(th)
    <3> DEFINE L == Len(writers)
    <3>1. /\ L \in Nat /\ DOMAIN writers' = DOMAIN writers \union {L + 1}
          /\ \A i \in DOMAIN writers : writers'[i] = writers[i]
          /\ writers'[L + 1].topic = Topic(th)
      <4>1. NewWriter(th, TRUE)
        BY <2>6 DEF CreateWriter
      <4>2. /\ L \in Nat /\ DOMAIN writers' = DOMAIN writers \union {L + 1}
            /\ \A i \in DOMAIN writers : writers'[i] = writers[i]
            /\ writers'[L + 1] = [topic |-> Topic(th), type |-> Type(th), bound |-> TRUE]
        BY <1>1, <4>1, WriterAppended, Zenon
      <4>3. QED BY <4>2
    <3>2. /\ SetCall(th, "insert_writer", L + 1)
          /\ "insert_writer" \in Steps /\ L + 1 \in Nat
          /\ publisherCache' = publisherCache /\ At(th, "create_writer")
      BY <2>6, <3>1 DEF CreateWriter, SetCall, Steps
    <3> HIDE DEF L
    <3>3. /\ \A x \in Threads : x # th => call'[x] = call[x]
          /\ call'[th].at = "insert_writer" /\ call'[th].job = call[th].job
      BY <1>1, <3>2, WriterMoves
    <3>4. SUFFICES ASSUME NEW x \in Threads, NEW t \in Topics, Publishers(t) = {x}
                   PROVE  SoleOK(x, t)'
      BY DEF SoleInv, Publishers
    <3>5. SoleOK(x, t)
      BY <3>4 DEF SoleInv
    <3>7. CASE t = Topic(th)
      <4>1. x = th
        BY <2>1, <3>4, <3>7
      <4>2. WritersOf(t) = {}
        BY <3>2, <3>5, <3>7, <4>1 DEF SoleOK, At, Making
      <4>3. \A i \in WritersOf(t)' : i = L + 1
        BY <3>1, <4>2 DEF WritersOf
      <4>4. QED BY <3>3, <3>7, <4>1, <4>3 DEF SoleOK, At, Making, Topic
    <3>8. CASE t # Topic(th)
      <4>1. WritersOf(t)' = WritersOf(t)
        BY <3>1, <3>8 DEF WritersOf
      <4>2. CASE x = th
        BY <3>2, <3>3, <3>5, <3>8, <4>1, <4>2 DEF SoleOK, At, Topic
      <4>3. CASE x # th
        BY <3>2, <3>3, <3>5, <4>1, <4>3 DEF SoleOK, At, Topic
      <4>4. QED BY <4>2, <4>3
    <3>9. QED BY <3>7, <3>8
  <2>7. CASE InsertWriter(th)
    <3> DEFINE w == IF publisherCache[Topic(th)] = 0 THEN call[th].writer
                                                    ELSE publisherCache[Topic(th)]
    <3>1. /\ publisherCache' = [publisherCache EXCEPT ![Topic(th)] = w]
          /\ SetCall(th, "write", w) /\ "write" \in Steps
          /\ writers' = writers /\ At(th, "insert_writer")
      BY <2>7 DEF InsertWriter, SetCall, Steps
    <3>2. w \in Nat /\ w # 0
      <4>1. call[th].writer \in DOMAIN writers
        BY <3>1 DEF WriterInv, CallOK
      <4>2. call[th].writer \in Nat /\ call[th].writer # 0
        BY <1>1, <4>1, LenProperties DEF RaceTypeOK
      <4>3. QED BY <1>1, <2>1, <4>2 DEF RaceTypeOK
    <3> HIDE DEF w
    <3>3. /\ \A x \in Threads : x # th => call'[x] = call[x]
          /\ call'[th].at = "write" /\ call'[th].job = call[th].job
      BY <1>1, <3>1, <3>2, WriterMoves
    <3>4. /\ publisherCache'[Topic(th)] # 0
          /\ \A t \in Topics : t # Topic(th) => publisherCache'[t] = publisherCache[t]
      BY <1>1, <2>1, <3>1, <3>2 DEF RaceTypeOK
    <3>5. SUFFICES ASSUME NEW x \in Threads, NEW t \in Topics, Publishers(t) = {x}
                   PROVE  SoleOK(x, t)'
      BY DEF SoleInv, Publishers
    <3>6. SoleOK(x, t) /\ WritersOf(t)' = WritersOf(t)
      BY <3>1, <3>5 DEF SoleInv, WritersOf
    <3>7. CASE x = th
      BY <3>3, <3>4, <3>6, <3>7 DEF SoleOK, At, Topic, Making
    <3>8. CASE x # th
      <4>1. t # Topic(th)
        BY <2>1, <3>5, <3>8
      <4>2. QED BY <3>3, <3>4, <3>6, <3>8, <4>1 DEF SoleOK, At, Topic
    <3>9. QED BY <3>7, <3>8
  <2>8. CASE CreateWriterThrows(th)
    <3>1. /\ Goto(th, "idle") /\ "idle" \in Steps /\ UNCHANGED publisherCache
          /\ ~At(th, "insert_writer")
      BY <2>8 DEF CreateWriterThrows, Throw, Steps, At
    <3>2. \A t \in Topics : WritersOf(t)' = WritersOf(t)
      <4>1. UNCHANGED writers \/ NewWriter(th, FALSE)
        BY <2>8 DEF CreateWriterThrows
      <4>2. QED BY <1>1, <4>1, OrphanWriter, Zenon DEF WritersOf
    <3>3. (\A x \in Threads : x # th => call'[x] = call[x]) /\ call'[th].at \notin Making
      BY <1>1, <3>1, GotoMoves DEF Making
    <3>4. QED BY <1>1, <3>1, <3>2, <3>3, SoleKept
  <2>9. QED BY <1>3, <2>2, <2>3, <2>4, <2>5, <2>6, <2>7, <2>8 DEF Step
<1>4. QED BY <1>2, <1>3 DEF RaceNext, Done

\* Whatever DDS calls fail and whatever the others publish meanwhile: of the
\* DataWriters of a topic that one thread publishes one at most is bound.  The
\* thread reaches create_writer again only when its last publish threw.
THEOREM OneWriter == RaceSpec => []OneWriterPerOwnTopic
<1>1. WriterInv /\ SoleInv => OneWriterPerOwnTopic
  <2>1. SUFFICES ASSUME WriterInv, SoleInv, NEW i \in DOMAIN writers, NEW j \in DOMAIN writers,
                        writers[i].bound, writers[j].bound,
                        writers[i].topic = writers[j].topic,
                        Cardinality(Publishers(writers[i].topic)) = 1
                 PROVE  i = j
    BY DEF OneWriterPerOwnTopic
  <2> DEFINE t == writers[i].topic
  <2>2. Publishers(t) \subseteq Threads
    BY DEF Publishers
  <2>3. PICK x : Publishers(t) = {x}
    BY <2>1, <2>2, ThreadsAssumption, FS_Subset, FS_Singleton
  <2>4. writers[i].topic \in Topics
    BY <2>1, WriterFields DEF WriterInv
  <2>5. x \in Threads /\ t \in Topics
    BY <2>2, <2>3, <2>4
  <2>6. SoleOK(x, t)
    BY <2>1, <2>3, <2>5 DEF SoleInv
  <2>7. QED BY <2>1, <2>6 DEF SoleOK, WritersOf
<1>2. QED BY <1>1, WriterInit, WriterStep, SoleInit, SoleStep, PTL DEF RaceSpec

-----------------------------------------------------------------------------
(* What makes publish throw.                                               *)

LEMMA TwoMembers ==
  ASSUME NEW S, IsFiniteSet(S), NEW a \in S, NEW b \in S, a # b
  PROVE  Cardinality(S) > 1
<1>1. Cardinality(S) \in Nat
  BY FS_CardinalityType
<1>2. Cardinality(S) # 0
  BY FS_EmptySet
<1>3. Cardinality(S) # 1
  BY FS_Singleton
<1>4. QED BY <1>1, <1>2, <1>3

\* What the tables say of topics comes from the threads' publications.
FromThreads ==
  \A t \in Topics :
    /\ topicTypes[t] \in TypesOf(t) \union {NoType}
    /\ recordedTypes[t] \in TypesOf(t) \union {NoType}
    /\ ddsTopics[t] \in TypesOf(t) \union {NoType}

\* A topic that is in topics_ and not in topic_types_ is being recorded.
HalfWritten ==
  /\ \A th \in Threads : At(th, "check_type") => Topic(th) \in topics
  /\ \A t \in topics :
       \/ recordedTypes[t] # NoType
       \/ \E x \in Threads : At(x, "record_type") /\ Topic(x) = t

\* A type that is marked and not registered is being registered, or failed to.
HalfRegistered ==
  /\ \A th \in Threads : call[th].at \in {"register_type", "find_topic", "create_topic"} =>
                          Type(th) \in registeredTypes
  /\ \A ty \in registeredTypes \ ddsTypes :
       \/ \E x \in Threads : At(x, "register_type") /\ Type(x) = ty
       \/ RegistrationFailed(ty)

ConflictInv == FromThreads /\ HalfWritten /\ HalfRegistered /\ RefusedOnlyInConflict

LEMMA ConflictInit == RaceInit => ConflictInv
BY DEF RaceInit, ConflictInv, FromThreads, HalfWritten, HalfRegistered,
       RefusedOnlyInConflict, At

\* What a thread publishes, as the sets of the conflict see it.
LEMMA CallFields ==
  ASSUME RaceTypeOK, NEW th \in Threads
  PROVE  /\ Topic(th) \in Topics /\ Type(th) \in Types
         /\ Topic(th) = call[th].job.topic /\ Type(th) = call[th].job.type
         /\ Type(th) \in TypesOf(Topic(th)) /\ IsFiniteSet(TypesOf(Topic(th)))
         /\ th \in Publishers(Topic(th)) /\ IsFiniteSet(Publishers(Topic(th)))
         /\ th \in Users(Type(th)) /\ IsFiniteSet(Users(Type(th)))
<1>1. call[th].job \in Publication /\ call[th].job \in Jobs[th]
  BY DEF RaceTypeOK
<1>2. call[th].job \in Publications
  BY <1>1 DEF Publications
<1>3. /\ Topic(th) \in Topics /\ Type(th) \in Types
      /\ Topic(th) = call[th].job.topic /\ Type(th) = call[th].job.type
  BY <1>1 DEF Publication, Topic, Type
<1>4. TypesOf(Topic(th)) \subseteq Types
  BY JobsAssumption DEF TypesOf, Publications, Publication
<1>5. Publishers(Topic(th)) \subseteq Threads /\ Users(Type(th)) \subseteq Threads
  BY DEF Publishers, Users
<1>6. /\ IsFiniteSet(TypesOf(Topic(th))) /\ IsFiniteSet(Publishers(Topic(th)))
      /\ IsFiniteSet(Users(Type(th)))
  BY <1>4, <1>5, TypesAssumption, ThreadsAssumption, FS_Subset
<1>7. Type(th) \in TypesOf(Topic(th))
  BY <1>2, <1>3 DEF TypesOf
<1>8. th \in Publishers(Topic(th)) /\ th \in Users(Type(th))
  BY <1>1, <1>3 DEF Publishers, Users
<1>9. QED BY <1>3, <1>6, <1>7, <1>8

\* The reasons for a refusal do not go away.
LEMMA StaysExplained ==
  ASSUME refused \subseteq refused'
  PROVE  /\ \A ty : RegistrationFailed(ty) => RegistrationFailed(ty)'
         /\ \A r \in refused : Explained(r) => Explained(r)'
<1>1. \A ty : RegistrationFailed(ty) => RegistrationFailed(ty)'
  BY DEF RegistrationFailed
<1>2. QED BY <1>1 DEF Explained, TypesOf, Publishers, Users, Publications

\* A step of one thread that completes nothing and is not refused.
LEMMA ConflictKept ==
  ASSUME ConflictInv, RaceTypeOK, NEW th \in Threads,
         call[th].at \notin {"register_type", "record_type"},
         UNCHANGED <<topics, recordedTypes, registeredTypes, ddsTypes, refused>>,
         \A x \in Threads : x # th => call'[x] = call[x],
         At(th, "check_type")' => Topic(th)' \in topics,
         call'[th].at \in {"register_type", "find_topic", "create_topic"} =>
           Type(th)' \in registeredTypes,
         FromThreads'
  PROVE  ConflictInv'
<1>1. HalfWritten'
  BY DEF ConflictInv, HalfWritten, At, Topic
<1>2. \A ty : RegistrationFailed(ty) => RegistrationFailed(ty)'
  BY StaysExplained
<1>3. HalfRegistered'
  BY <1>2 DEF ConflictInv, HalfRegistered, At, Type
<1>4. RefusedOnlyInConflict'
  BY StaysExplained DEF ConflictInv, RefusedOnlyInConflict
<1>5. QED BY <1>1, <1>3, <1>4 DEF ConflictInv

\* The tables that FromThreads is about as they are.
LEMMA FromThreadsKept ==
  ASSUME FromThreads, UNCHANGED <<topicTypes, recordedTypes, ddsTopics>>
  PROVE  FromThreads'
BY DEF FromThreads, TypesOf, Publications

\* A call that throws leaves the tables alone, whatever it did to the writers.
LEMMA ThrowConflict ==
  ASSUME ConflictInv, RaceTypeOK, NEW th \in Threads, NEW f \in BOOLEAN, Throw(th, f),
         UNCHANGED <<topicTypes, runtimeTables>>,
         Explained([job |-> call[th].job, at |-> call[th].at, fault |-> f]),
         ~At(th, "record_type")
  PROVE  ConflictInv'
<1> DEFINE r == [job |-> call[th].job, at |-> call[th].at, fault |-> f]
<1>1. /\ refused' = refused \union {r} /\ call'[th].at = "idle"
      /\ \A x \in Threads : x # th => call'[x] = call[x]
  BY ThrowMoves, GotoMoves, Zenon
<1>2. r.job = call[th].job /\ r.at = call[th].at
  OBVIOUS
<1>3. Explained(r)
  OBVIOUS
<1> HIDE DEF r
<1>4. FromThreads' /\ HalfWritten'
  <2>1. HalfWritten'
    BY <1>1 DEF ConflictInv, HalfWritten, At, Topic, runtimeTables
  <2>2. QED BY <2>1, FromThreadsKept DEF ConflictInv, runtimeTables
<1>5. \A ty : RegistrationFailed(ty) => RegistrationFailed(ty)'
  BY <1>1, StaysExplained
<1>6. ASSUME NEW ty, At(th, "register_type"), Type(th) = ty
      PROVE  RegistrationFailed(ty)'
  <2>1. r \in refused' /\ r.at = "register_type" /\ r.job.type = ty
    BY <1>1, <1>2, <1>6 DEF At, Type
  <2>2. QED BY <2>1 DEF RegistrationFailed
<1>7. HalfRegistered'
  <2>1. UNCHANGED <<registeredTypes, ddsTypes>>
    BY DEF runtimeTables
  <2>2. ASSUME NEW ty \in registeredTypes \ ddsTypes
        PROVE  \/ \E x \in Threads : At(x, "register_type")' /\ Type(x)' = ty
               \/ RegistrationFailed(ty)'
    <3>1. CASE RegistrationFailed(ty)
      BY <1>5, <3>1
    <3>2. CASE \E x \in Threads : At(x, "register_type") /\ Type(x) = ty
      <4>1. PICK x \in Threads : At(x, "register_type") /\ Type(x) = ty
        BY <3>2
      <4>2. CASE x = th
        BY <1>6, <4>1, <4>2
      <4>3. CASE x # th
        BY <1>1, <4>1, <4>3 DEF At, Type
      <4>4. QED BY <4>2, <4>3
    <3>3. QED BY <3>1, <3>2 DEF ConflictInv, HalfRegistered
  <2>3. QED BY <1>1, <2>1, <2>2 DEF ConflictInv, HalfRegistered, Type
<1>8. RefusedOnlyInConflict'
  <2>1. \A q \in refused : Explained(q)'
    BY <1>1, StaysExplained DEF ConflictInv, RefusedOnlyInConflict
  <2>2. ASSUME NEW q, q = r
        PROVE  Explained(q)'
    BY <1>3, <1>5, <2>2 DEF Explained, TypesOf, Publishers, Users, Publications
  <2>3. \A q \in refused' : Explained(q)'
    BY <1>1, <2>1, <2>2
  <2>4. QED BY <2>3 DEF RefusedOnlyInConflict
<1>9. QED BY <1>4, <1>7, <1>8 DEF ConflictInv

\* A step that moves one thread on and touches none of these tables.
LEMMA MovedOn ==
  ASSUME ConflictInv, RaceTypeOK, NEW th \in Threads,
         call[th].at \notin {"register_type", "record_type"},
         UNCHANGED <<topicTypes, runtimeTables, refused>>,
         \A x \in Threads : x # th => call'[x] = call[x],
         call'[th].at \notin {"register_type", "find_topic", "check_type", "create_topic"}
  PROVE  ConflictInv'
<1>1. FromThreads'
  BY FromThreadsKept DEF ConflictInv, runtimeTables
<1>2. QED BY <1>1, ConflictKept DEF At, runtimeTables

\* publish throws: for a second type of the topic, for what another thread has
\* not finished, for a registration that failed, or because DDS does.
LEMMA RefusalStep ==
  ASSUME ConflictInv, RaceTypeOK, NEW th \in Threads,
         \/ FindTypeThrows(th) \/ RegisterTypeThrows(th) \/ CheckTypeThrows(th)
         \/ CreateTopicThrows(th) \/ CreateWriterThrows(th)
  PROVE  ConflictInv'
<1> DEFINE t == Topic(th)
           ty == Type(th)
<1>1. /\ t = call[th].job.topic /\ ty = call[th].job.type /\ t \in Topics
      /\ ty \in TypesOf(t) /\ IsFiniteSet(TypesOf(t))
      /\ th \in Publishers(t) /\ IsFiniteSet(Publishers(t))
      /\ th \in Users(ty) /\ IsFiniteSet(Users(ty))
  BY CallFields
<1>2. ASSUME NEW u \in {topicTypes[t], recordedTypes[t], ddsTopics[t]}, u \notin {NoType, ty}
      PROVE  Cardinality(TypesOf(t)) > 1
  <2>1. u \in TypesOf(t) /\ u # ty
    BY <1>1, <1>2 DEF ConflictInv, FromThreads
  <2>2. QED BY <1>1, <2>1, TwoMembers
<1>3. CASE FindTypeThrows(th)
  <2>1. Throw(th, FALSE) /\ At(th, "find_type") /\ UNCHANGED <<topicTypes, runtimeTables>>
        /\ topicTypes[t] \notin {NoType, ty}
    BY <1>3 DEF FindTypeThrows, tables
  <2>2. Explained([job |-> call[th].job, at |-> call[th].at, fault |-> FALSE])
    BY <1>1, <1>2, <2>1 DEF Explained
  <2>3. QED BY <2>1, <2>2, ThrowConflict DEF At
<1>4. CASE RegisterTypeThrows(th) \/ CreateWriterThrows(th)
  <2>1. Throw(th, TRUE) /\ UNCHANGED <<topicTypes, runtimeTables>> /\ ~At(th, "record_type")
    BY <1>4 DEF RegisterTypeThrows, CreateWriterThrows, tables, At
  <2>2. Explained([job |-> call[th].job, at |-> call[th].at, fault |-> TRUE])
    BY DEF Explained
  <2>3. QED BY <2>1, <2>2, ThrowConflict
<1>5. CASE CheckTypeThrows(th)
  <2>1. Throw(th, FALSE) /\ At(th, "check_type") /\ UNCHANGED <<topicTypes, runtimeTables>>
        /\ recordedTypes[t] # ty
    BY <1>5 DEF CheckTypeThrows, tables
  <2>2. ASSUME recordedTypes[t] = NoType
        PROVE  Cardinality(Publishers(t)) > 1
    <3>1. PICK x \in Threads : At(x, "record_type") /\ Topic(x) = t
      BY <2>1, <2>2 DEF ConflictInv, HalfWritten
    <3>2. x # th /\ x \in Publishers(t)
      BY <2>1, <3>1, CallFields DEF At
    <3>3. QED BY <1>1, <3>2, TwoMembers
  <2>3. Explained([job |-> call[th].job, at |-> call[th].at, fault |-> FALSE])
    BY <1>1, <1>2, <2>1, <2>2 DEF Explained, At
  <2>4. QED BY <2>1, <2>3, ThrowConflict DEF At
<1>6. CASE CreateTopicThrows(th)
  <2>1. At(th, "create_topic") /\ UNCHANGED <<topicTypes, runtimeTables>>
    BY <1>6 DEF CreateTopicThrows, tables
  <2>2. CASE Throw(th, TRUE)
    <3>1. Explained([job |-> call[th].job, at |-> call[th].at, fault |-> TRUE])
      BY DEF Explained
    <3>2. QED BY <2>1, <2>2, <3>1, ThrowConflict DEF At
  <2>3. CASE ~CanCreateTopic(th) /\ Throw(th, FALSE)
    <3>1. ASSUME ty \notin ddsTypes
          PROVE  Cardinality(Users(ty)) > 1 \/ RegistrationFailed(ty)
      <4>1. CASE \E x \in Threads : At(x, "register_type") /\ Type(x) = ty
        <5>1. PICK x \in Threads : At(x, "register_type") /\ Type(x) = ty
          BY <4>1
        <5>2. x # th /\ x \in Users(ty)
          BY <2>1, <5>1, CallFields DEF At
        <5>3. QED BY <1>1, <5>2, TwoMembers
      <4>2. QED BY <2>1, <3>1, <4>1 DEF ConflictInv, HalfRegistered, At
    <3>2. ddsTopics[t] \notin {NoType, ty} \/ ty \notin ddsTypes
      BY <2>3 DEF CanCreateTopic
    <3>3. Explained([job |-> call[th].job, at |-> call[th].at, fault |-> FALSE])
      BY <1>1, <1>2, <2>1, <3>1, <3>2 DEF Explained, At
    <3>4. QED BY <2>1, <2>3, <3>3, ThrowConflict DEF At
  <2>4. QED BY <1>6, <2>2, <2>3 DEF CreateTopicThrows
<1>7. QED BY <1>3, <1>4, <1>5, <1>6

\* register_type_once: a new type is marked by the thread that goes on to
\* register it.
LEMMA MarkStep ==
  ASSUME ConflictInv, RaceTypeOK, NEW th \in Threads, MarkType(th) \/ RegisterType(th)
  PROVE  ConflictInv'
<1>1. PICK s \in {"find_topic", "register_type"} :
        /\ Goto(th, s)
        /\ MarkType(th) /\ Type(th) \notin registeredTypes => s = "register_type"
        /\ RegisterType(th) => s = "find_topic"
  BY DEF MarkType, RegisterType
<1>2. /\ \A x \in Threads : x # th => call'[x] = call[x]
      /\ call'[th].at = s /\ Type(th)' = Type(th) /\ Topic(th)' = Topic(th)
  BY <1>1, GotoMoves DEF Type, Topic, Steps
<1>3. UNCHANGED <<topics, recordedTypes, topicTypes, ddsTopics, refused>>
      /\ call[th].at \in {"mark_type", "register_type"}
  BY DEF MarkType, RegisterType, At
<1>4. FromThreads'
  BY <1>3, FromThreadsKept DEF ConflictInv
<1>5. HalfWritten'
  BY <1>1, <1>2, <1>3 DEF ConflictInv, HalfWritten, At, Topic
<1>6. RefusedOnlyInConflict' /\ \A ty : RegistrationFailed(ty) => RegistrationFailed(ty)'
  BY <1>3, StaysExplained DEF ConflictInv, RefusedOnlyInConflict
<1>7. /\ registeredTypes \subseteq registeredTypes' /\ Type(th) \in registeredTypes'
      /\ registeredTypes' \subseteq registeredTypes \union {Type(th)}
      /\ ddsTypes \subseteq ddsTypes'
      /\ RegisterType(th) => Type(th) \in ddsTypes'
  BY DEF MarkType, RegisterType, ConflictInv, HalfRegistered, At
<1>8. ASSUME NEW ty \in registeredTypes' \ ddsTypes'
      PROVE  \/ \E x \in Threads : At(x, "register_type")' /\ Type(x)' = ty
             \/ RegistrationFailed(ty)'
  <2>1. CASE ty = Type(th) /\ Type(th) \notin registeredTypes
    <3>1. s = "register_type"
      BY <1>1, <1>7, <1>8, <2>1
    <3>2. QED BY <1>2, <2>1, <3>1 DEF At
  <2>2. CASE ty \in registeredTypes
    <3>1. CASE RegistrationFailed(ty)
      BY <1>6, <3>1
    <3>2. CASE \E x \in Threads : At(x, "register_type") /\ Type(x) = ty
      <4>1. PICK x \in Threads : At(x, "register_type") /\ Type(x) = ty
        BY <3>2
      <4>2. x # th
        <5>1. CASE MarkType(th)
          BY <4>1, <5>1 DEF MarkType, At
        <5>2. CASE RegisterType(th)
          BY <1>7, <1>8, <4>1, <5>2
        <5>3. QED BY <5>1, <5>2
      <4>3. QED BY <1>2, <4>1, <4>2 DEF At, Type
    <3>3. QED BY <1>7, <1>8, <2>2, <3>1, <3>2 DEF ConflictInv, HalfRegistered
  <2>3. QED BY <1>7, <1>8, <2>1, <2>2
<1>9. \A x \in Threads :
        call'[x].at \in {"register_type", "find_topic", "create_topic"} =>
          Type(x)' \in registeredTypes'
  BY <1>2, <1>7 DEF ConflictInv, HalfRegistered, Type
<1>10. HalfRegistered'
  BY <1>8, <1>9 DEF HalfRegistered
<1>11. QED BY <1>4, <1>5, <1>6, <1>10 DEF ConflictInv

\* get_or_create_topic, which writes topics_ and then topic_types_.
LEMMA TopicRecorded ==
  ASSUME ConflictInv, RaceTypeOK, NEW th \in Threads, InsertTopic(th) \/ RecordType(th)
  PROVE  ConflictInv'
<1>1. PICK s \in {"record_type", "create_writer"} :
        Goto(th, s) /\ (InsertTopic(th) => s = "record_type")
  BY DEF InsertTopic, RecordType
<1>2. /\ \A x \in Threads : x # th => call'[x] = call[x]
      /\ call'[th].at = s /\ Topic(th)' = Topic(th)
  BY <1>1, GotoMoves DEF Topic, Steps
<1>3. /\ UNCHANGED <<registeredTypes, ddsTypes, topicTypes, ddsTopics, refused>>
      /\ call[th].at \in {"insert_topic", "record_type"}
      /\ topics' \subseteq topics \union {Topic(th)} /\ topics \subseteq topics'
  BY DEF InsertTopic, RecordType, At
<1>4. /\ Topic(th) \in Topics /\ Type(th) \in Types /\ Type(th) \in TypesOf(Topic(th))
  BY CallFields
<1>5. /\ \A t \in Topics : recordedTypes'[t] \in {recordedTypes[t], Type(th)}
      /\ \A t \in Topics : t # Topic(th) => recordedTypes'[t] = recordedTypes[t]
      /\ RecordType(th) => recordedTypes'[Topic(th)] # NoType
      /\ \A t \in Topics : recordedTypes[t] # NoType => recordedTypes'[t] # NoType
  BY <1>4, TypesAssumption DEF InsertTopic, RecordType, RaceTypeOK
<1>6. FromThreads'
  <2>1. \A t \in Topics : recordedTypes'[t] \in TypesOf(t) \union {NoType}
    BY <1>4, <1>5 DEF ConflictInv, FromThreads
  <2>2. QED BY <1>3, <2>1 DEF ConflictInv, FromThreads, TypesOf, Publications
<1>7. HalfWritten'
  <2>1. \A x \in Threads : At(x, "check_type")' => Topic(x)' \in topics'
    BY <1>1, <1>2, <1>3 DEF ConflictInv, HalfWritten, At, Topic
  <2>2. ASSUME NEW t \in topics'
        PROVE  \/ recordedTypes'[t] # NoType
               \/ \E x \in Threads : At(x, "record_type")' /\ Topic(x)' = t
    <3>1. t \in Topics
      BY <1>3, <1>4, <2>2 DEF RaceTypeOK
    <3>2. CASE t = Topic(th)
      BY <1>1, <1>2, <1>5, <3>2 DEF At
    <3>3. CASE t # Topic(th)
      <4>1. t \in topics
        BY <1>3, <2>2, <3>3
      <4>2. CASE recordedTypes[t] # NoType
        BY <1>5, <3>1, <4>2
      <4>3. CASE recordedTypes[t] = NoType
        <5>1. PICK x \in Threads : At(x, "record_type") /\ Topic(x) = t
          BY <4>1, <4>3 DEF ConflictInv, HalfWritten
        <5>2. QED BY <1>2, <3>3, <5>1 DEF At, Topic
      <4>4. QED BY <4>2, <4>3
    <3>4. QED BY <3>2, <3>3
  <2>3. QED BY <2>1, <2>2 DEF HalfWritten
<1>8. RefusedOnlyInConflict' /\ \A ty : RegistrationFailed(ty) => RegistrationFailed(ty)'
  BY <1>3, StaysExplained DEF ConflictInv, RefusedOnlyInConflict
<1>9. HalfRegistered'
  <2>1. ~At(th, "register_type") /\ call'[th].at \in {"record_type", "create_writer"}
    BY <1>1, <1>2, <1>3 DEF At
  <2>2. QED BY <1>2, <1>3, <1>8, <2>1 DEF ConflictInv, HalfRegistered, At, Type
<1>10. QED BY <1>6, <1>7, <1>8, <1>9 DEF ConflictInv

LEMMA ConflictStep ==
  ASSUME ConflictInv, WriterInv, [RaceNext]_raceVars
  PROVE  ConflictInv'
<1>1. RaceTypeOK
  BY DEF WriterInv
<1>2. CASE UNCHANGED raceVars
  <2>1. UNCHANGED <<topicTypes, topics, recordedTypes, registeredTypes, ddsTypes,
                    ddsTopics, call, refused>>
    BY <1>2 DEF raceVars, tables, runtimeTables
  <2>2. FromThreads'
    BY <2>1, FromThreadsKept DEF ConflictInv
  <2>3. HalfWritten'
    BY <2>1 DEF ConflictInv, HalfWritten, At, Topic
  <2>4. RefusedOnlyInConflict' /\ \A ty : RegistrationFailed(ty) => RegistrationFailed(ty)'
    BY <2>1, StaysExplained DEF ConflictInv, RefusedOnlyInConflict
  <2>5. HalfRegistered'
    BY <2>1, <2>4 DEF ConflictInv, HalfRegistered, At, Type
  <2>6. QED BY <2>2, <2>3, <2>4, <2>5 DEF ConflictInv
<1>3. ASSUME NEW th \in Threads, Step(th)
      PROVE  ConflictInv'
  <2>1. CASE Begin(th)
    <3>1. /\ \A x \in Threads : x # th => call'[x] = call[x]
          /\ call'[th].at = "find_type" /\ call[th].at = "idle"
          /\ UNCHANGED <<topicTypes, runtimeTables, refused>>
      BY <1>1, <2>1 DEF Begin, RaceTypeOK, At, tables
    <3>2. QED BY <1>1, <3>1, MovedOn
  <2>2. CASE FindType(th) \/ CheckType(th) \/ Write(th)
    <3>1. PICK s \in {"insert_type", "find_writer", "create_writer", "idle"} : Goto(th, s)
      BY <2>2 DEF FindType, CheckType, Write
    <3>2. /\ s \in Steps /\ call[th].at \in {"find_type", "check_type", "write"}
          /\ UNCHANGED <<topicTypes, runtimeTables, refused>>
      BY <2>2 DEF FindType, CheckType, Write, Steps, At, tables
    <3>3. (\A x \in Threads : x # th => call'[x] = call[x]) /\ call'[th].at = s
      BY <1>1, <3>1, <3>2, GotoMoves
    <3>4. QED BY <1>1, <3>2, <3>3, MovedOn
  <2>3. CASE FindWriter(th) \/ CreateWriter(th) \/ InsertWriter(th)
    <3>1. PICK s \in {"mark_type", "insert_writer", "write"} :
            \E w : call' = [call EXCEPT ![th].at = s, ![th].writer = w]
      BY <2>3 DEF FindWriter, CreateWriter, InsertWriter
    <3>2. call[th].at \in {"find_writer", "create_writer", "insert_writer"}
          /\ UNCHANGED <<topicTypes, runtimeTables, refused>>
      BY <2>3 DEF FindWriter, CreateWriter, InsertWriter, At, tables
    <3>3. (\A x \in Threads : x # th => call'[x] = call[x]) /\ call'[th].at = s
      BY <1>1, <3>1 DEF RaceTypeOK
    <3>4. QED BY <1>1, <3>2, <3>3, MovedOn
  <2>4. CASE InsertType(th)
    <3>1. /\ Goto(th, "find_writer") /\ "find_writer" \in Steps /\ At(th, "insert_type")
          /\ UNCHANGED <<runtimeTables, refused>>
      BY <2>4 DEF InsertType, Steps
    <3>2. \A t \in Topics : topicTypes'[t] \in TypesOf(t) \union {NoType}
      BY <1>1, <2>4, CallFields DEF InsertType, ConflictInv, FromThreads, RaceTypeOK
    <3>3. FromThreads'
      BY <3>1, <3>2 DEF ConflictInv, FromThreads, TypesOf, Publications, runtimeTables
    <3>4. (\A x \in Threads : x # th => call'[x] = call[x]) /\ call'[th].at = "find_writer"
      BY <1>1, <3>1, GotoMoves
    <3>5. QED BY <1>1, <3>1, <3>3, <3>4, ConflictKept DEF At, runtimeTables
  <2>5. CASE FindTopic(th)
    <3>1. PICK s \in {"check_type", "create_topic"} :
            Goto(th, s) /\ (s = "check_type" => Topic(th) \in topics)
      BY <2>5 DEF FindTopic
    <3>2. /\ s \in Steps /\ At(th, "find_topic")
          /\ UNCHANGED <<topicTypes, runtimeTables, refused>>
      BY <2>5 DEF FindTopic, Steps, tables
    <3>3. /\ \A x \in Threads : x # th => call'[x] = call[x]
          /\ call'[th].at = s /\ Type(th)' = Type(th) /\ Topic(th)' = Topic(th)
      BY <1>1, <3>1, <3>2, GotoMoves DEF Type, Topic
    <3>4. Type(th) \in registeredTypes /\ FromThreads'
      BY <3>2, FromThreadsKept DEF ConflictInv, HalfRegistered, At, runtimeTables
    <3>5. QED BY <1>1, <3>1, <3>2, <3>3, <3>4, ConflictKept DEF At, runtimeTables
  <2>6. CASE CreateTopic(th)
    <3>1. /\ Goto(th, "insert_topic") /\ "insert_topic" \in Steps /\ At(th, "create_topic")
          /\ UNCHANGED <<topicTypes, topics, recordedTypes, registeredTypes, ddsTypes, refused>>
      BY <2>6 DEF CreateTopic, Steps
    <3>2. \A t \in Topics : ddsTopics'[t] \in TypesOf(t) \union {NoType}
      BY <1>1, <2>6, CallFields DEF CreateTopic, ConflictInv, FromThreads, RaceTypeOK
    <3>3. FromThreads'
      BY <3>1, <3>2 DEF ConflictInv, FromThreads, TypesOf, Publications
    <3>4. (\A x \in Threads : x # th => call'[x] = call[x]) /\ call'[th].at = "insert_topic"
      BY <1>1, <3>1, GotoMoves
    <3>5. QED BY <1>1, <3>1, <3>3, <3>4, ConflictKept DEF At
  <2>7. CASE MarkType(th) \/ RegisterType(th)
    BY <1>1, <2>7, MarkStep
  <2>8. CASE InsertTopic(th) \/ RecordType(th)
    BY <1>1, <2>8, TopicRecorded
  <2>9. CASE \/ FindTypeThrows(th) \/ RegisterTypeThrows(th) \/ CheckTypeThrows(th)
             \/ CreateTopicThrows(th) \/ CreateWriterThrows(th)
    BY <1>1, <2>9, RefusalStep
  <2>10. QED BY <1>3, <2>1, <2>2, <2>3, <2>4, <2>5, <2>6, <2>7, <2>8, <2>9 DEF Step
<1>4. QED BY <1>2, <1>3 DEF RaceNext, Done

\* publish throws only when a DDS call it made failed, for a second type on the
\* topic, or for what another thread has begun and not finished or a failed
\* registration has left: a type marked and not registered
\* (register_type_once), a topic without its type (get_or_create_topic).
THEOREM ThrowsOnlyInConflict == RaceSpec => []RefusedOnlyInConflict
<1>1. ConflictInv => RefusedOnlyInConflict
  BY DEF ConflictInv
<1>2. QED BY <1>1, WriterInit, WriterStep, ConflictInit, ConflictStep, PTL DEF RaceSpec

-----------------------------------------------------------------------------
(* The contract of the facade, on the topics the threads agree about.      *)

\* A call is past remember_topic_type only when its topic has a type.
Past == {"find_writer", "mark_type", "register_type", "find_topic", "check_type",
         "create_topic", "insert_topic", "record_type", "create_writer"}
TypedOK == \A th \in Threads : call[th].at \in Past => topicTypes[Topic(th)] # NoType

LEMMA TypedInit == RaceInit => TypedOK
BY DEF RaceInit, TypedOK, Past

LEMMA TypedStep ==
  ASSUME TypedOK, RaceTypeOK, [RaceNext]_raceVars
  PROVE  TypedOK'
<1>1. CASE UNCHANGED raceVars
  BY <1>1 DEF raceVars, tables, TypedOK, Topic
<1>2. ASSUME NEW th \in Threads, Step(th)
      PROVE  TypedOK'
  <2>1. Topic(th) \in Topics /\ Type(th) \in Types
    BY CallFields
  \* A step that gets past only when the topic has a type.
  <2>2. ASSUME UNCHANGED topicTypes, \A x \in Threads : x # th => call'[x] = call[x],
               call'[th].at \in Past =>
                 call'[th].job = call[th].job /\ topicTypes[Topic(th)] # NoType
        PROVE  TypedOK'
    BY <2>2 DEF TypedOK, Topic
  <2>3. CASE Begin(th)
    BY <2>2, <2>3 DEF Begin, RaceTypeOK, Past, tables
  <2>4. CASE FindType(th)
    <3>1. PICK s \in {"insert_type", "find_writer"} :
            Goto(th, s) /\ (s = "find_writer" => topicTypes[Topic(th)] # NoType)
      BY <2>4, <2>1, TypesAssumption DEF FindType
    <3>2. s \in Steps /\ UNCHANGED topicTypes
      BY <2>4 DEF FindType, Steps, tables
    <3>3. QED BY <2>2, <3>1, <3>2, GotoMoves DEF Past
  <2>5. CASE \/ FindTypeThrows(th) \/ RegisterTypeThrows(th) \/ CheckTypeThrows(th)
             \/ CreateTopicThrows(th) \/ CreateWriterThrows(th) \/ Write(th)
    <3>1. Goto(th, "idle") /\ "idle" \in Steps /\ UNCHANGED topicTypes
      BY <2>5 DEF FindTypeThrows, RegisterTypeThrows, CheckTypeThrows, CreateTopicThrows,
         CreateWriterThrows, Throw, Write, Steps, tables
    <3>2. QED BY <2>2, <3>1, GotoMoves DEF Past
  <2>6. CASE InsertType(th)
    <3>1. Goto(th, "find_writer") /\ "find_writer" \in Steps
      BY <2>6 DEF InsertType, Steps
    <3>2. /\ topicTypes'[Topic(th)] # NoType
          /\ \A t \in Topics : topicTypes[t] # NoType => topicTypes'[t] # NoType
      BY <2>1, <2>6, TypesAssumption DEF InsertType, RaceTypeOK
    <3>3. \A x \in Threads : Topic(x) \in Topics
      BY CallFields
    <3>4. QED BY <3>1, <3>2, <3>3, GotoMoves DEF TypedOK, Topic
  <2>7. CASE \/ MarkType(th) \/ RegisterType(th) \/ FindTopic(th) \/ CheckType(th)
             \/ CreateTopic(th) \/ InsertTopic(th) \/ RecordType(th)
    <3>1. PICK s \in Steps : Goto(th, s)
      BY <2>7 DEF MarkType, RegisterType, FindTopic, CheckType, CreateTopic, InsertTopic,
         RecordType, Steps
    <3>2. UNCHANGED topicTypes /\ call[th].at \in Past
      BY <2>7 DEF MarkType, RegisterType, FindTopic, CheckType, CreateTopic, InsertTopic,
         RecordType, tables, Past, At
    <3>3. QED BY <2>2, <3>1, <3>2, GotoMoves DEF TypedOK
  <2>8. CASE FindWriter(th)
    <3>1. UNCHANGED topicTypes /\ call[th].at \in Past
      BY <2>8 DEF FindWriter, tables, Past, At
    <3>2. /\ \A x \in Threads : x # th => call'[x] = call[x]
          /\ call'[th].job = call[th].job
      BY <2>8 DEF FindWriter, RaceTypeOK
    <3>3. QED BY <2>2, <3>1, <3>2 DEF TypedOK
  <2>9. CASE CreateWriter(th) \/ InsertWriter(th)
    <3>1. PICK s \in {"insert_writer", "write"} :
            \E w : call' = [call EXCEPT ![th].at = s, ![th].writer = w]
      BY <2>9 DEF CreateWriter, InsertWriter
    <3>2. UNCHANGED topicTypes
      BY <2>9 DEF CreateWriter, InsertWriter
    <3>3. (\A x \in Threads : x # th => call'[x] = call[x]) /\ call'[th].at = s
      BY <3>1 DEF RaceTypeOK
    <3>4. QED BY <2>2, <3>2, <3>3 DEF Past
  <2>10. QED
    BY <1>2, <2>3, <2>4, <2>5, <2>6, <2>7, <2>8, <2>9 DEF Step
<1>3. QED BY <1>1, <1>2 DEF RaceNext, Done

\* There is one type where the threads agree.
LEMMA OneAgreedType ==
  ASSUME NEW t \in Topics, Agreed(t), NEW a \in TypesOf(t), NEW b \in TypesOf(t)
  PROVE  a = b
<1>1. IsFiniteSet(TypesOf(t))
  <2>1. TypesOf(t) \subseteq Types
    BY JobsAssumption DEF TypesOf, Publications, Publication
  <2>2. QED BY <2>1, TypesAssumption, FS_Subset
<1>2. Cardinality(TypesOf(t)) \in Nat
  BY <1>1, FS_CardinalityType
<1>3. QED BY <1>1, <1>2, TwoMembers DEF Agreed

\* remember_topic_type commits the topic.
LEMMA InsertTypeImplements ==
  ASSUME RaceTypeOK, NEW th \in Threads, InsertType(th)
  PROVE  Contract!ContractNext \/ UNCHANGED Contract!contractVars
<1> DEFINE t  == Topic(th)
           ty == Type(th)
<1>1. t \in Topics /\ ty \in Types
  BY DEF RaceTypeOK, Publication, Topic, Type
<1>2. UNCHANGED AgreedWriters
  BY DEF InsertType, AgreedWriters, Agreed, TypesOf, Publications
<1>3. topicTypes' = [topicTypes EXCEPT ![t] = IF @ = NoType THEN ty ELSE @]
  BY DEF InsertType
<1> HIDE DEF t, ty
<1>4. \A u \in Topics : u # t => topicTypes'[u] = topicTypes[u]
  BY <1>3 DEF RaceTypeOK
<1>5. CASE Agreed(t) /\ topicTypes[t] = NoType
  <2>1. topicTypes'[t] = ty
    BY <1>1, <1>3, <1>5 DEF RaceTypeOK
  <2>2. AgreedTypes[t] = NoType
    BY <1>1, <1>5 DEF AgreedTypes
  <2>3. AgreedTypes' = [AgreedTypes EXCEPT ![t] = ty]
    <3>1. AgreedTypes' = [u \in Topics |-> IF Agreed(u) THEN topicTypes'[u] ELSE NoType]
      BY DEF AgreedTypes, Agreed, TypesOf, Publications
    <3>2. QED BY <1>1, <1>4, <1>5, <2>1, <3>1 DEF AgreedTypes
  <2>4. Contract!Mention(t, ty)
    BY <1>2, <2>2, <2>3 DEF Contract!Mention, Contract!Commit
  <2>5. QED BY <1>1, <2>4 DEF Contract!ContractNext
<1>6. CASE ~Agreed(t) \/ topicTypes[t] # NoType
  <2>1. \A u \in Topics : Agreed(u) => topicTypes'[u] = topicTypes[u]
    BY <1>1, <1>3, <1>4, <1>6 DEF RaceTypeOK
  <2>2. UNCHANGED AgreedTypes
    BY <2>1 DEF AgreedTypes, Agreed, TypesOf, Publications
  <2>3. QED BY <1>2, <2>2 DEF Contract!contractVars
<1>7. QED BY <1>5, <1>6

\* create_writer adds an endpoint of the type the topic is committed to, with
\* or without a binding.
LEMMA NewWriterImplements ==
  ASSUME RaceTypeOK, ConflictInv, TypedOK, NEW th \in Threads, At(th, "create_writer"),
         UNCHANGED topicTypes, NEW b \in BOOLEAN, NewWriter(th, b)
  PROVE  Contract!ContractNext \/ UNCHANGED Contract!contractVars
<1> DEFINE t  == Topic(th)
           ty == Type(th)
           n  == Len(writers) + 1
<1>1. t \in Topics /\ ty \in Types /\ ty \in TypesOf(t)
  BY CallFields
<1>2. UNCHANGED AgreedTypes
  BY DEF AgreedTypes, Agreed, TypesOf, Publications
<1>3. /\ DOMAIN writers' = DOMAIN writers \union {n}
      /\ \A i \in DOMAIN writers : writers'[i] = writers[i]
      /\ writers'[n].topic = t /\ writers'[n].type = ty
  <2>1. /\ DOMAIN writers' = DOMAIN writers \union {n}
        /\ \A i \in DOMAIN writers : writers'[i] = writers[i]
        /\ writers'[n] = [topic |-> t, type |-> ty, bound |-> b]
    BY WriterAppended, Zenon
  <2>2. QED BY <2>1
<1>4. topicTypes[t] # NoType
  BY DEF At, TypedOK, Past
<1> HIDE DEF t, ty, n
<1>5. AgreedWriters' =
        {[topic |-> writers'[i].topic, type |-> writers'[i].type] :
           i \in {j \in DOMAIN writers' : Agreed(writers'[j].topic)}}
  BY DEF AgreedWriters, Agreed, TypesOf, Publications
<1>6. CASE Agreed(t)
  <2>1. topicTypes[t] = ty
    BY <1>1, <1>4, <1>6, OneAgreedType DEF ConflictInv, FromThreads
  <2>2. AgreedTypes[t] = ty /\ AgreedTypes' = [AgreedTypes EXCEPT ![t] = ty]
    BY <1>1, <1>2, <1>6, <2>1 DEF AgreedTypes
  <2>3. AgreedWriters' = AgreedWriters \union {[topic |-> t, type |-> ty]}
    BY <1>3, <1>5, <1>6 DEF AgreedWriters
  <2>4. Contract!AddEndpoint(t, ty)
    BY <2>2, <2>3 DEF Contract!AddEndpoint, Contract!Commit
  <2>5. QED BY <1>1, <2>4 DEF Contract!ContractNext
<1>7. CASE ~Agreed(t)
  <2>1. UNCHANGED AgreedWriters
    BY <1>3, <1>5, <1>7 DEF AgreedWriters
  <2>2. QED BY <1>2, <2>1 DEF Contract!contractVars
<1>8. QED BY <1>6, <1>7

\* A step that changes neither table is hidden from the contract.
LEMMA Hidden ==
  ASSUME UNCHANGED <<topicTypes, writers>>
  PROVE  UNCHANGED Contract!contractVars
BY DEF Contract!contractVars, AgreedTypes, AgreedWriters, Agreed, TypesOf, Publications

LEMMA RaceImplements ==
  ASSUME RaceTypeOK, ConflictInv, TypedOK, [RaceNext]_raceVars
  PROVE  [Contract!ContractNext]_(Contract!contractVars)
<1>1. CASE UNCHANGED raceVars
  BY <1>1, Hidden DEF raceVars, tables
<1>2. ASSUME NEW th \in Threads, Step(th)
      PROVE  Contract!ContractNext \/ UNCHANGED Contract!contractVars
  <2>1. CASE InsertType(th)
    BY <2>1, InsertTypeImplements
  <2>2. CASE CreateWriter(th)
    <3>1. At(th, "create_writer") /\ NewWriter(th, TRUE) /\ UNCHANGED topicTypes
      BY <2>2 DEF CreateWriter
    <3>2. QED BY <3>1, NewWriterImplements, Zenon
  <2>3. CASE CreateWriterThrows(th)
    <3>1. /\ At(th, "create_writer") /\ UNCHANGED topicTypes
          /\ UNCHANGED writers \/ NewWriter(th, FALSE)
      BY <2>3 DEF CreateWriterThrows
    <3>2. CASE UNCHANGED writers
      BY <3>1, <3>2, Hidden
    <3>3. CASE NewWriter(th, FALSE)
      BY <3>1, <3>3, NewWriterImplements, Zenon
    <3>4. QED BY <3>1, <3>2, <3>3
  <2>4. CASE UNCHANGED <<topicTypes, writers>>
    BY <2>4, Hidden
  <2>5. QED
    BY <1>2, <2>1, <2>2, <2>3, <2>4 DEF Step, Begin, FindType, FindTypeThrows, FindWriter,
       MarkType, RegisterType, RegisterTypeThrows, FindTopic, CheckType, CheckTypeThrows,
       CreateTopic, CreateTopicThrows, InsertTopic, RecordType, InsertWriter, Write, tables
<1>3. QED BY <1>1, <1>2 DEF RaceNext, Done

\* However publish is interleaved without a lock, on the topics that the
\* threads publish with one type each it keeps the facade's contract
\* (Service::publish, remember_topic_type, create_writer).
THEOREM PublishImplementsContract == RaceSpec => ImplementsContractWhereAgreed
<1>1. RaceInit => AgreedTypes = Contract!Uncommitted /\ AgreedWriters = {}
  BY DEF RaceInit, AgreedTypes, AgreedWriters, Contract!Uncommitted
<1>2. WriterInv => RaceTypeOK
  BY DEF WriterInv
<1>3. RaceTypeOK /\ ConflictInv /\ TypedOK /\ [RaceNext]_raceVars
        => [Contract!ContractNext]_(Contract!contractVars)
  BY RaceImplements
<1>4. TypedOK /\ RaceTypeOK /\ [RaceNext]_raceVars => TypedOK'
  BY TypedStep
<1>5. QED BY <1>1, <1>2, <1>3, <1>4, WriterInit, WriterStep, ConflictInit, ConflictStep,
      TypedInit, PTL DEF RaceSpec, ImplementsContractWhereAgreed
=============================================================================
