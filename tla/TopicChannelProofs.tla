------------------------- MODULE TopicChannelProofs -------------------------
(***************************************************************************)
(* Proofs about TopicChannel, for every set of readers and keys, every     *)
(* pair of profiles, every queue limit and any number of publishes.        *)
(***************************************************************************)
EXTENDS TopicChannel, ChannelProofs

-----------------------------------------------------------------------------
(* wait_for_subscribers.                                                   *)

\* The parts of a channel that matching is about.
ShapeOK ==
  /\ "reader" \in DOMAIN ch /\ DOMAIN ch.reader = Readers
  /\ \A r \in Readers : {"matched", "state"} \subseteq DOMAIN ch.reader[r]

\* A wait for no subscriber at all never sleeps, and a sleeping one has a flag
\* to wake it if it has what it waits for.
WaitInv ==
  /\ wait \in [at : {"idle", "check", "wait", "matched", "failed"},
               min : Nat, expired : BOOLEAN]
  /\ wait.at = "wait" => wait.min > 0
  /\ NoLostWakeup

LEMMA MatchedCount ==
  ASSUME ShapeOK
  PROVE  Cardinality(Matched(ch)) \in Nat
<1>1. Matched(ch) \in SUBSET Readers
  BY DEF Matched, ShapeOK
<1>2. QED BY <1>1, ReadersAssumption, FS_Subset, FS_CardinalityType

LEMMA WaitInit ==
  ASSUME ChannelInit
  PROVE  ShapeOK /\ WaitInv
<1>1. ShapeOK
  BY DEF ChannelInit, ShapeOK, NewChannel, NewReader
<1>2. WaitInv
  BY DEF ChannelInit, WaitInv, NoLostWakeup
<1>3. QED BY <1>1, <1>2

\* Samples on their way and endpoints that open or close match nobody, and a
\* channel stays what it is.
LEMMA WriterKeepsMatches ==
  ASSUME ShapeOK, NEW k, ch' \in {ch, OpenWriter(ch), WriteSample(ch, k)}
  PROVE  ShapeOK' /\ Matched(ch)' = Matched(ch)
<1>1. CASE ch' = ch
  BY <1>1 DEF ShapeOK, Matched
<1>2. CASE ch' = OpenWriter(ch)
  BY <1>2 DEF ShapeOK, Matched, OpenWriter
<1>3. CASE ch' = WriteSample(ch, k)
  BY <1>3 DEF ShapeOK, Matched, WriteSample
<1>4. QED BY <1>1, <1>2, <1>3

LEMMA ReaderKeepsMatches ==
  ASSUME ShapeOK, NEW r \in Readers,
         ch' \in {OpenReader(ch, r), Arrive(ch, r), Lose(ch, r), TakeSample(ch, r),
                  CloseReader(ch, r)}
  PROVE  ShapeOK' /\ Matched(ch)' = Matched(ch)
<1>1. CASE ch' = OpenReader(ch, r)
  BY <1>1 DEF ShapeOK, Matched, OpenReader
<1>2. CASE ch' = Arrive(ch, r)
  BY <1>2 DEF ShapeOK, Matched, Arrive
<1>3. CASE ch' = Lose(ch, r)
  BY <1>3 DEF ShapeOK, Matched, Lose
<1>4. CASE ch' = TakeSample(ch, r)
  BY <1>4 DEF ShapeOK, Matched, TakeSample
<1>5. CASE ch' = CloseReader(ch, r)
  BY <1>5 DEF ShapeOK, Matched, CloseReader
<1>6. QED BY <1>1, <1>2, <1>3, <1>4, <1>5

LEMMA MatchKeepsShape ==
  ASSUME ShapeOK, NEW r \in Readers, ch' \in {Match(ch, r), Unmatch(ch, r)}
  PROVE  ShapeOK'
<1>1. CASE ch' = Match(ch, r)
  BY <1>1 DEF ShapeOK, Match
<1>2. CASE ch' = Unmatch(ch, r)
  BY <1>2 DEF ShapeOK, Unmatch
<1>3. QED BY <1>1, <1>2

\* A writer that is deleted has no match left.
LEMMA ClosedUnmatched ==
  ASSUME ShapeOK, ch' = CloseWriter(ch)
  PROVE  ShapeOK' /\ Matched(ch)' = {}
<1>1. ShapeOK'
  BY DEF ShapeOK, CloseWriter
<1>2. \A r \in Readers : ch'.reader[r].matched = FALSE
  BY DEF ShapeOK, CloseWriter
<1>3. QED BY <1>1, <1>2 DEF Matched, ShapeOK

\* One case per action: those that leave the matches and the waiter alone,
\* those that change the matches, and the waiter's own.
LEMMA WaitStepKeepsInv ==
  ASSUME ShapeOK, WaitInv, scenario \in Scenarios, [ChannelNext]_channelVars
  PROVE  ShapeOK' /\ WaitInv'
<1> DEFINE Aside == UNCHANGED <<wait, changed>> /\ Matched(ch)' = Matched(ch)
<1>1. Aside => WaitInv'
  BY DEF WaitInv, NoLostWakeup, Enough
<1>2. CASE UNCHANGED channelVars
  BY <1>2 DEF channelVars, ShapeOK, WaitInv, NoLostWakeup, Enough, Matched
<1>3. ASSUME NEW k \in scenario.keys, BeginPublish(k)
      PROVE  ShapeOK' /\ WaitInv'
  <2>1. ch' \in {ch, OpenWriter(ch)} /\ UNCHANGED <<wait, changed>>
    BY <1>3 DEF BeginPublish
  <2>2. QED BY <1>1, <2>1, WriterKeepsMatches
<1>4. CASE PublishStep
  <2>1. ch' \in {ch, WriteSample(ch, publishing)} /\ UNCHANGED <<wait, changed>>
    BY <1>4 DEF PublishStep, Write, WriteTimesOut, WriteToDeleted, Returns
  <2>2. QED BY <1>1, <2>1, WriterKeepsMatches
<1>5. CASE DeleteWriter
  <2>1. ch' = CloseWriter(ch) /\ UNCHANGED <<wait, changed>>
    BY <1>5 DEF DeleteWriter
  <2>2. ShapeOK' /\ Matched(ch)' = {}
    BY <2>1, ClosedUnmatched
  <2>3. wait.at = "wait" => ~ Enough'
    BY <2>1, <2>2, FS_EmptySet DEF Enough, WaitInv
  <2>4. QED BY <2>1, <2>2, <2>3 DEF WaitInv, NoLostWakeup
<1>6. ASSUME NEW n \in scenario.waits, WaitBegin(n)
      PROVE  ShapeOK' /\ WaitInv'
  <2>1. n \in Nat
    BY <1>6, ScenariosAssumption
  <2>2. QED BY <1>6, <2>1 DEF WaitBegin, ShapeOK, WaitInv, NoLostWakeup
<1>7. CASE WaitStep
  <2>1. ShapeOK' /\ ch' = ch
    BY <1>7 DEF WaitStep, WaitCheck, WaitWakes, WaitTimesOut, Deadline, ShapeOK
  <2>2. CASE WaitCheck
    <3>1. /\ wait' \in [at : {"idle", "check", "wait", "matched", "failed"},
                         min : Nat, expired : BOOLEAN]
          /\ wait'.min = wait.min
          /\ wait'.at = "wait" => ~Enough
      BY <2>2 DEF WaitCheck, WaitInv
    <3>2. Cardinality(Matched(ch)) \in Nat /\ wait.min \in Nat
      BY MatchedCount DEF WaitInv
    <3>3. Enough' <=> Enough
      BY <2>1, <3>1 DEF Enough, Matched
    <3>4. wait'.at = "wait" => wait'.min > 0
      BY <3>1, <3>2 DEF Enough
    <3>5. QED BY <2>1, <3>1, <3>3, <3>4 DEF WaitInv, NoLostWakeup
  <2>3. CASE WaitWakes \/ WaitTimesOut
    BY <2>1, <2>3 DEF WaitWakes, WaitTimesOut, WaitInv, NoLostWakeup
  <2>4. CASE Deadline
    <3>1. /\ wait'.at = wait.at /\ wait'.min = wait.min /\ changed' = changed
          /\ wait' \in [at : {"idle", "check", "wait", "matched", "failed"},
                         min : Nat, expired : BOOLEAN]
      BY <2>4 DEF Deadline, WaitInv
    <3>2. Enough' <=> Enough
      BY <2>1, <3>1 DEF Enough, Matched
    <3>3. QED BY <2>1, <3>1, <3>2 DEF WaitInv, NoLostWakeup
  <2>5. QED BY <1>7, <2>2, <2>3, <2>4 DEF WaitStep
<1>8. ASSUME NEW r \in Readers,
             Subscribe(r) \/ StopReader(r) \/ SampleArrives(r) \/ SampleLost(r) \/ Take(r)
      PROVE  ShapeOK' /\ WaitInv'
  <2>1. /\ ch' \in {OpenReader(ch, r), Arrive(ch, r), Lose(ch, r), TakeSample(ch, r),
                     CloseReader(ch, r)}
        /\ UNCHANGED <<wait, changed>>
    BY <1>8 DEF Subscribe, StopReader, SampleArrives, SampleLost, Take, Transport
  <2>2. QED BY <1>1, <2>1, ReaderKeepsMatches
<1>9. ASSUME NEW r \in Readers, MatchReader(r) \/ UnmatchReader(r)
      PROVE  ShapeOK' /\ WaitInv'
  <2>1. ch' \in {Match(ch, r), Unmatch(ch, r)} /\ wait' = wait /\ changed' = TRUE
    BY <1>9 DEF MatchReader, UnmatchReader
  <2>2. QED BY <2>1, MatchKeepsShape DEF WaitInv, NoLostWakeup
<1>10. QED
  BY <1>2, <1>3, <1>4, <1>5, <1>6, <1>7, <1>8, <1>9 DEF ChannelNext

\* The profiles and the calls of a run do not change.
LEMMA ScenarioKept ==
  ASSUME [ChannelNext]_channelVars
  PROVE  scenario' = scenario
BY DEF ChannelNext, channelVars, BeginPublish, PublishStep, Write, WriteTimesOut,
       WriteToDeleted, Returns, DeleteWriter, WaitStep, WaitBegin, WaitCheck,
       WaitWakes, WaitTimesOut, Deadline, Subscribe, StopReader, MatchReader,
       UnmatchReader, SampleArrives, SampleLost, Take, Transport

\* wait_for_subscribers never sleeps through the match it waits for: whenever
\* enough readers match while it waits, the status' flag is set and will wake it
\* (opendds_runtime.cpp, the loop over get_publication_matched_status).
THEOREM NeverLosesWakeup == ChannelSpec => []NoLostWakeup
<1> DEFINE IInv == ShapeOK /\ WaitInv /\ scenario \in Scenarios
<1>1. ChannelInit => IInv
  BY WaitInit DEF ChannelInit
<1>2. IInv /\ [ChannelNext]_channelVars => IInv'
  BY WaitStepKeepsInv, ScenarioKept
<1>3. IInv => NoLostWakeup
  BY DEF WaitInv
<1>4. QED BY <1>1, <1>2, <1>3, PTL DEF ChannelSpec

-----------------------------------------------------------------------------
(* Types, and the order of what is delivered.                              *)

KeySamples == [id : Nat, key : Keys]

LEMMA TranslatedResult ==
  /\ \A rc : TranslateReturnCode(rc) \in WriteResult
  /\ TranslateReturnCode("OK") = "Ok"
  /\ \A rc \in {"TIMEOUT", "ALREADY_DELETED"} : TranslateReturnCode(rc) # "Ok"
BY DEF TranslateReturnCode, WriteResult

\* Each publish counts as accepted if and only if it is reported as Ok.
LEMMA AcceptedCounts ==
  ASSUME NEW rc, publishing \in Keys, Returns(rc),
         published \in Seq([key : Keys, result : WriteResult])
  PROVE  /\ published' \in Seq([key : Keys, result : WriteResult])
         /\ Accepted \in Nat
         /\ Accepted' = IF TranslateReturnCode(rc) = "Ok" THEN Accepted + 1 ELSE Accepted
<1> DEFINE T == [key : Keys, result : WriteResult]
           p == [key |-> publishing, result |-> TranslateReturnCode(rc)]
           Oks == {n \in DOMAIN published : published[n].result = "Ok"}
           L == Len(published)
<1>1. p \in T /\ p.result = TranslateReturnCode(rc) /\ published' = Append(published, p)
  BY TranslatedResult DEF Returns
<1> HIDE DEF p
<1>2. /\ published' \in Seq(T) /\ L \in Nat /\ DOMAIN published = 1 .. L
      /\ Len(published') = L + 1
      /\ \A i \in 1 .. L : published'[i] = published[i]
      /\ published'[L + 1] = p
  BY <1>1, AppendProperties, LenProperties
<1>3. DOMAIN published' = (1 .. L) \union {L + 1}
  BY <1>2, LenProperties
<1>4. IsFiniteSet(Oks) /\ Cardinality(Oks) \in Nat /\ L + 1 \notin Oks
  <2>1. IsFiniteSet(1 .. L)
    <3>1. 1 \in Int /\ L \in Int
      BY <1>2
    <3>2. QED BY <3>1, FS_Interval, Zenon
  <2>2. Oks \subseteq 1 .. L
    BY <1>2
  <2>3. QED BY <1>2, <2>1, <2>2, FS_Subset, FS_CardinalityType
<1>5. {n \in DOMAIN published' : published'[n].result = "Ok"}
       = IF TranslateReturnCode(rc) = "Ok" THEN Oks \union {L + 1} ELSE Oks
  BY <1>1, <1>2, <1>3
<1>6. QED BY <1>2, <1>4, <1>5, FS_AddElement DEF Accepted

\* The calls in progress and what came of those that returned.
CallsOK ==
  /\ publishing \in Keys \union {NoKey} /\ (publishing # NoKey => ch.writer # "absent")
  /\ published \in Seq([key : Keys, result : WriteResult])
  /\ wait \in [at : {"idle", "check", "wait", "matched", "failed"},
               min : scenario.waits \union {0}, expired : BOOLEAN]
  /\ changed \in BOOLEAN

OrderInv ==
  /\ scenario \in Scenarios
  /\ InOrder(Readers, KeySamples, ch)
  /\ DurablePair(ch) <=> Both("durable")
  /\ CallsOK

LEMMA KeyWritten ==
  ASSUME OrderInv, NEW k \in Keys
  PROVE  [id |-> ch.written + 1, key |-> k] \in KeySamples
BY DEF OrderInv, InOrder, ChannelRecord, KeySamples

LEMMA OrderInit ==
  ASSUME ChannelInit
  PROVE  OrderInv
<1> DEFINE w == ApplyQos(scenario.writer, WriterDefaults)
           q == ApplyQos(scenario.reader, ReaderDefaults)
<1>1. /\ scenario \in Scenarios
      /\ scenario.writer \in QosProfile /\ scenario.reader \in QosProfile
      /\ ch = NewChannel(w, q, Readers)
  BY ScenariosAssumption DEF ChannelInit
<1>2. /\ w \in QosProfile /\ w.durable = scenario.writer.durable
      /\ q \in QosProfile /\ q.durable = scenario.reader.durable
  BY <1>1, DefaultsAreProfiles, AppliedQos
<1> HIDE DEF w, q
<1>3. InOrder(Readers, KeySamples, ch)
  BY <1>1, <1>2, NewChannelInOrder
<1>4. DurablePair(ch) <=> Both("durable")
  BY <1>1, <1>2 DEF DurablePair, Both, NewChannel
<1>5. CallsOK
  <2>1. <<>> \in Seq([key : Keys, result : WriteResult])
    OBVIOUS
  <2>2. /\ publishing = NoKey /\ published = <<>> /\ changed = FALSE
        /\ wait = [at |-> "idle", min |-> 0, expired |-> FALSE]
    BY DEF ChannelInit
  <2>3. QED BY <2>1, <2>2 DEF CallsOK
<1>6. QED BY <1>1, <1>3, <1>4, <1>5 DEF OrderInv

LEMMA OrderStep ==
  ASSUME OrderInv, [ChannelNext]_channelVars
  PROVE  OrderInv'
<1>1. scenario' = scenario /\ ch \in ChannelRecord(Readers, KeySamples)
  BY ScenarioKept DEF OrderInv, InOrder
<1>2. ASSUME InOrder(Readers, KeySamples, ch'), ch'.writerQos = ch.writerQos,
             ch'.readerQos = ch.readerQos, CallsOK'
      PROVE  OrderInv'
  BY <1>1, <1>2 DEF OrderInv, DurablePair, Both
<1>3. ASSUME UNCHANGED <<publishing, published, wait>>, changed' \in BOOLEAN,
             ch.writer # "absent" => ch'.writer # "absent"
      PROVE  CallsOK'
  BY <1>1, <1>3 DEF OrderInv, CallsOK
<1>4. CASE UNCHANGED channelVars
  BY <1>2, <1>3, <1>4 DEF channelVars, OrderInv, CallsOK
<1>5. ASSUME NEW k \in scenario.keys, BeginPublish(k)
      PROVE  OrderInv'
  <2>1. k \in Keys
    BY ScenariosAssumption DEF OrderInv
  <2>2. /\ InOrder(Readers, KeySamples, ch') /\ ch'.writer # "absent"
        /\ ch'.writerQos = ch.writerQos /\ ch'.readerQos = ch.readerQos
    BY <1>1, <1>5, OpenedInOrder
       DEF BeginPublish, OrderInv, OpenWriter, ChannelRecord
  <2>3. CallsOK'
    BY <1>1, <1>5, <2>1, <2>2 DEF BeginPublish, OrderInv, CallsOK
  <2>4. QED BY <1>2, <2>2, <2>3
<1>6. ASSUME NEW rc, Returns(rc), publishing # NoKey
      PROVE  CallsOK'
  <2>1. publishing \in Keys
    BY <1>6 DEF OrderInv, CallsOK
  <2>2. published' \in Seq([key : Keys, result : WriteResult])
    BY <1>6, <2>1, AcceptedCounts DEF OrderInv, CallsOK
  <2>3. QED BY <1>1, <1>6, <2>2 DEF Returns, OrderInv, CallsOK
<1>7. CASE Write
  <2>1. publishing \in Keys /\ ch.writer = "up" /\ ch' = WriteSample(ch, publishing)
    BY <1>7 DEF Write, OrderInv, CallsOK
  <2>2. InOrder(Readers, KeySamples, ch')
    BY <2>1, KeyWritten, WrittenInOrder DEF OrderInv
  <2>3. ch'.writerQos = ch.writerQos /\ ch'.readerQos = ch.readerQos
    BY <1>1, <2>1 DEF WriteSample, ChannelRecord
  <2>4. QED BY <1>2, <1>6, <1>7, <2>2, <2>3 DEF Write
<1>8. CASE WriteTimesOut \/ WriteToDeleted
  <2>1. ch' = ch /\ CallsOK'
    BY <1>6, <1>8 DEF WriteTimesOut, WriteToDeleted
  <2>2. QED BY <1>2, <2>1 DEF OrderInv
<1>9. CASE DeleteWriter
  <2>1. InOrder(Readers, KeySamples, ch')
    BY <1>9, ClosedInOrder DEF DeleteWriter, OrderInv
  <2>2. /\ ch'.writer = "gone" /\ ch'.writerQos = ch.writerQos
        /\ ch'.readerQos = ch.readerQos
    BY <1>1, <1>9 DEF DeleteWriter, CloseWriter, ChannelRecord
  <2>3. CallsOK'
    BY <1>3, <1>9, <2>2 DEF DeleteWriter, OrderInv, CallsOK
  <2>4. QED BY <1>2, <2>1, <2>2, <2>3
<1>10. CASE WaitStep \/ \E n \in scenario.waits : WaitBegin(n)
  <2>1. ch' = ch /\ UNCHANGED <<publishing, published>>
    BY <1>10 DEF WaitStep, WaitBegin, WaitCheck, WaitWakes, WaitTimesOut, Deadline
  <2>2. /\ wait' \in [at : {"idle", "check", "wait", "matched", "failed"},
                     min : scenario.waits \union {0}, expired : BOOLEAN]
        /\ changed' \in BOOLEAN
    <3> DEFINE At == {"idle", "check", "wait", "matched", "failed"}
               W == [at : At, min : scenario.waits \union {0}, expired : BOOLEAN]
    <3>1. wait \in W /\ changed \in BOOLEAN
      BY DEF OrderInv, CallsOK
    <3>2. CASE WaitCheck
      <4>1. PICK a \in At : wait' = [wait EXCEPT !.at = a]
        BY <3>2 DEF WaitCheck
      <4>2. changed' \in BOOLEAN
        BY <3>2 DEF WaitCheck
      <4>3. QED BY <3>1, <4>1, <4>2
    <3>3. CASE WaitWakes \/ WaitTimesOut \/ Deadline
      BY <3>1, <3>3 DEF WaitWakes, WaitTimesOut, Deadline
    <3>4. CASE \E n \in scenario.waits : WaitBegin(n)
      BY <3>1, <3>4 DEF WaitBegin
    <3>5. QED BY <1>10, <3>2, <3>3, <3>4 DEF WaitStep
  <2>3. QED BY <1>1, <1>2, <2>1, <2>2 DEF OrderInv, CallsOK
<1>11. ASSUME NEW r \in Readers,
             \/ Subscribe(r) \/ StopReader(r) \/ MatchReader(r) \/ UnmatchReader(r)
             \/ SampleArrives(r) \/ SampleLost(r) \/ Take(r)
       PROVE  OrderInv'
  <2>1. InOrder(Readers, KeySamples, ch') /\ SameWriter(ch, ch')
    BY <1>11, ReadersInOrder
       DEF Subscribe, StopReader, MatchReader, UnmatchReader, SampleArrives, SampleLost,
           Take, Transport, ReaderOperation, OrderInv
  <2>2. UNCHANGED <<publishing, published, wait>> /\ changed' \in BOOLEAN
    BY <1>11 DEF Subscribe, StopReader, MatchReader, UnmatchReader, SampleArrives,
                 SampleLost, Take, Transport, OrderInv, CallsOK
  <2>3. QED BY <1>2, <1>3, <2>1, <2>2 DEF SameWriter
<1>12. QED
  BY <1>4, <1>5, <1>7, <1>8, <1>9, <1>10, <1>11 DEF ChannelNext, PublishStep

THEOREM OrderAlways == ChannelSpec => []OrderInv
<1>1. OrderInv /\ [ChannelNext]_channelVars => OrderInv'
  BY OrderStep
<1>2. QED BY OrderInit, <1>1, PTL DEF ChannelSpec

\* The channel, the calls of publish and of wait_for_subscribers and their
\* results are what the code's types say.
THEOREM ChannelTypes == ChannelSpec => []TopicChannelTypeOK
<1>1. ASSUME OrderInv
      PROVE  TopicChannelTypeOK
  <2>1. ch \in ChannelRecord(Readers, KeySamples) /\ Ids(ch.history) \subseteq 1 .. ch.written
    BY <1>1 DEF OrderInv, InOrder
  <2>2. ASSUME NEW r \in Readers
        PROVE  ReaderTypeOK(ch.reader[r])
    <3>1. ch.reader[r] \in ReaderRecord(KeySamples)
      BY <2>1 DEF ChannelRecord
    <3>2. \A q \in {ch.reader[r].owed, ch.reader[r].cache, ch.reader[r].delivered} :
            Ids(q) \subseteq Nat
      BY <3>1, IdsType DEF ReaderRecord
    <3>3. QED BY <3>1, <3>2 DEF ReaderTypeOK, ReaderRecord, Ids
  <2>3. ChannelTypeOK(ch) /\ DOMAIN ch.reader = Readers
    BY <2>1, <2>2 DEF ChannelTypeOK, ChannelRecord, Ids
  <2>4. QED BY <1>1, <2>3 DEF OrderInv, CallsOK, TopicChannelTypeOK
<1>2. QED BY <1>1, OrderAlways, PTL

\* The callback of every reader sees samples in the order in which they were
\* written and none of them twice, under every pair of profiles, whatever is
\* lost, evicted or left behind on the way.
THEOREM DeliversInOrderOnce == ChannelSpec => []InOrderOnce
<1>1. OrderInv => InOrderOnce
  BY DEF OrderInv, InOrder, ReaderInOrder, InOrderOnce
<1>2. QED BY <1>1, OrderAlways, PTL

\* A subscriber that comes late is sent nothing from before it matched, unless
\* both profiles ask for durability.
THEOREM ReplaysNothing == ChannelSpec => []NothingReplayed
<1>1. OrderInv => NothingReplayed
  BY DEF OrderInv, InOrder, ReaderInOrder, NothingReplayed, Due, DueOf
<1>2. QED BY <1>1, OrderAlways, PTL

-----------------------------------------------------------------------------
(* What reliable KEEP_ALL endpoints deliver.                               *)

Lossless == Both("reliable") /\ Both("keepAll")

\* Publish reported as Ok what the channel accepted, and every matched reader
\* has, or is owed by a writer that still holds it, what it should get.
DeliveryInv ==
  /\ Accepted = ch.written
  /\ Lossless => \A r \in Readers : Complete(Readers, KeySamples, r, {}, ch)

LEMMA DeliveryInit ==
  ASSUME ChannelInit
  PROVE  DeliveryInv
<1> DEFINE w == ApplyQos(scenario.writer, WriterDefaults)
           q == ApplyQos(scenario.reader, ReaderDefaults)
<1>1. /\ scenario.writer \in QosProfile /\ scenario.reader \in QosProfile
      /\ ch = NewChannel(w, q, Readers) /\ published = <<>>
  BY ScenariosAssumption DEF ChannelInit
<1>2. /\ w \in QosProfile /\ w.reliable = scenario.writer.reliable
      /\ w.keepAll = scenario.writer.keepAll
  BY <1>1, DefaultsAreProfiles, AppliedQos
<1>3. /\ q \in QosProfile /\ q.reliable = scenario.reader.reliable
      /\ q.keepAll = scenario.reader.keepAll
  BY <1>1, DefaultsAreProfiles, AppliedQos
<1> HIDE DEF w, q
<1>4. ASSUME Lossless, NEW r \in Readers
      PROVE  Complete(Readers, KeySamples, r, {}, ch)
  <2>1. w.keepAll /\ q.keepAll /\ w.reliable /\ q.reliable
    BY <1>2, <1>3, <1>4 DEF Lossless, Both
  <2>2. QED BY <1>1, <1>2, <1>3, <2>1, NewComplete
<1>5. Accepted = 0 /\ ch.written = 0
  BY <1>1, FS_EmptySet DEF Accepted, NewChannel
<1>6. QED BY <1>4, <1>5 DEF DeliveryInv

\* One case per action, by the lemma on what it does to the channel.
LEMMA DeliveryStep ==
  ASSUME OrderInv, DeliveryInv, [ChannelNext]_channelVars
  PROVE  DeliveryInv'
<1>1. scenario' = scenario /\ ch \in ChannelRecord(Readers, KeySamples)
  BY ScenarioKept DEF OrderInv, InOrder
<1>2. ASSUME ch'.written = ch.written, published' = published,
             \A r \in Readers : Complete(Readers, KeySamples, r, {}, ch) =>
                                  Complete(Readers, KeySamples, r, {}, ch')
      PROVE  DeliveryInv'
  BY <1>1, <1>2 DEF DeliveryInv, Lossless, Both, Accepted
<1>3. CASE UNCHANGED channelVars
  BY <1>2, <1>3 DEF channelVars
<1>4. ASSUME NEW k \in scenario.keys, BeginPublish(k)
      PROVE  DeliveryInv'
  <2>1. ch' = ch \/ (ch.writer = "absent" /\ ch' = OpenWriter(ch))
    BY <1>4 DEF BeginPublish
  <2>2. ch'.written = ch.written /\ published' = published
    BY <1>1, <1>4, <2>1 DEF BeginPublish, OpenWriter, ChannelRecord
  <2>3. QED BY <1>2, <2>1, <2>2, WriterComplete
<1>5. CASE Write
  <2>1. /\ publishing \in Keys /\ ch.writer = "up" /\ ch' = WriteSample(ch, publishing)
        /\ Returns("OK")
    BY <1>5 DEF Write, OrderInv, CallsOK
  <2>2. \A r \in Readers : Complete(Readers, KeySamples, r, {}, ch) =>
                             Complete(Readers, KeySamples, r, {}, ch')
    BY <2>1, KeyWritten, WriterComplete
  <2>3. ch'.written = ch.written + 1
    BY <1>1, <2>1 DEF WriteSample, ChannelRecord
  <2>4. Accepted' = Accepted + 1
    BY <2>1, AcceptedCounts, TranslatedResult DEF OrderInv, CallsOK
  <2>5. QED BY <1>1, <2>2, <2>3, <2>4 DEF DeliveryInv, Lossless, Both
<1>6. CASE WriteTimesOut \/ WriteToDeleted
  <2>1. /\ publishing \in Keys /\ ch' = ch
        /\ Returns("TIMEOUT") \/ Returns("ALREADY_DELETED")
    BY <1>6 DEF WriteTimesOut, WriteToDeleted, OrderInv, CallsOK
  <2>2. Accepted' = Accepted
    BY <2>1, AcceptedCounts, TranslatedResult DEF OrderInv, CallsOK
  <2>3. QED BY <1>1, <2>1, <2>2 DEF DeliveryInv, Lossless, Both
<1>7. CASE DeleteWriter
  <2>1. ch.writer = "up" /\ ch' = CloseWriter(ch) /\ published' = published
    BY <1>7 DEF DeleteWriter
  <2>2. ch'.written = ch.written
    BY <1>1, <2>1 DEF CloseWriter, ChannelRecord
  <2>3. QED BY <1>2, <2>1, <2>2, WriterComplete
<1>8. CASE WaitStep \/ \E n \in scenario.waits : WaitBegin(n)
  BY <1>2, <1>8 DEF WaitStep, WaitBegin, WaitCheck, WaitWakes, WaitTimesOut, Deadline
<1>9. ASSUME NEW x \in Readers,
             \/ Subscribe(x) \/ StopReader(x) \/ MatchReader(x) \/ UnmatchReader(x)
             \/ SampleArrives(x) \/ SampleLost(x) \/ Take(x)
      PROVE  DeliveryInv'
  <2>1. ReaderOperation(ch, x, ch') /\ published' = published
    BY <1>9 DEF Subscribe, StopReader, MatchReader, UnmatchReader, SampleArrives,
                SampleLost, Take, Transport, ReaderOperation
  <2>2. ch'.written = ch.written
    BY <2>1, ReadersInOrder DEF SameWriter, OrderInv
  <2>3. QED BY <1>2, <2>1, <2>2, ReadersComplete
<1>10. QED
  BY <1>3, <1>4, <1>5, <1>6, <1>7, <1>8, <1>9 DEF ChannelNext, PublishStep

\* Between `reliable` KEEP_ALL endpoints a matched subscriber gets exactly what
\* publish reported as Ok while it was matched, and with durability also all
\* from before: nothing is left out and nothing added, whatever the queue limit
\* and however the subscribers come and go.
THEOREM ReliableKeepAllDelivers == ChannelSpec => []OkIsDelivered
<1>1. ChannelInit => DeliveryInv
  BY DeliveryInit
<1>2. OrderInv /\ DeliveryInv /\ [ChannelNext]_channelVars => DeliveryInv'
  BY DeliveryStep
<1>3. OrderInv /\ DeliveryInv => OkIsDelivered
  <2>1. SUFFICES ASSUME OrderInv, DeliveryInv, Lossless,
                        NEW r \in {x \in Matched(ch) : ch.reader[x].state = "up"}
                 PROVE  Due(r) = (IF Both("durable") THEN 1 ELSE ch.reader[r].joined + 1)
                                   .. Accepted
    BY DEF OkIsDelivered, Lossless
  <2>2. r \in Readers /\ ch.reader[r].matched /\ ch.reader[r].state = "up"
    BY <2>1 DEF Matched, OrderInv, InOrder, ChannelRecord
  <2>3. DueOf(ch.reader[r]) = First(ch, ch.reader[r]) .. ch.written
    BY <2>1, <2>2 DEF DeliveryInv, Complete, ReaderComplete
  <2>4. QED BY <2>1, <2>3 DEF Due, DueOf, First, DeliveryInv, OrderInv
<1>4. QED BY <1>1, <1>2, <1>3, OrderAlways, PTL DEF ChannelSpec
-----------------------------------------------------------------------------
(* What reliable endpoints keep.                                           *)

\* The writer holds the newest accepted publish of every key, under the number
\* by which the publisher counts it.
HistoryCurrent ==
  ch.writer # "gone" =>
    \A n \in DOMAIN published :
      NewestAccepted(n) =>
        \E s \in Newest(ch.history) : s.id = AcceptedUpTo(n) /\ s.key = published[n].key

CurrentInv ==
  /\ HistoryCurrent
  /\ Both("reliable") => \A r \in Readers : CurrentPair(Readers, KeySamples, r, {}, ch)

\* A publish that returns leaves the numbers of the earlier ones as they are, and
\* none of them is the newest of its key that was not before.
LEMMA ReturnKeepsNumbers ==
  ASSUME NEW rc, publishing \in Keys, Returns(rc),
         published \in Seq([key : Keys, result : WriteResult]),
         NEW n \in DOMAIN published'
  PROVE  \/ /\ n \in DOMAIN published /\ published'[n] = published[n]
            /\ AcceptedUpTo(n)' = AcceptedUpTo(n)
            /\ NewestAccepted(n)' => NewestAccepted(n)
            /\ NewestAccepted(n)' /\ TranslateReturnCode(rc) = "Ok" =>
                 published[n].key # publishing
         \/ /\ published'[n].key = publishing
            /\ published'[n].result = TranslateReturnCode(rc)
            /\ AcceptedUpTo(n)' = Accepted'
<1> DEFINE p == [key |-> publishing, result |-> TranslateReturnCode(rc)]
           T == [key : Keys, result : WriteResult]
           L == Len(published)
<1>1. p \in T /\ p.result = TranslateReturnCode(rc) /\ p.key = publishing
  BY TranslatedResult
<1>2. published' = Append(published, p)
  BY DEF Returns
<1> HIDE DEF p
<1>3. /\ published' \in Seq(T) /\ L \in Nat /\ DOMAIN published = 1 .. L
      /\ Len(published') = L + 1
      /\ \A i \in 1 .. L : published'[i] = published[i]
      /\ published'[L + 1] = p
  BY <1>1, <1>2, AppendProperties, LenProperties
<1> HIDE DEF T
<1>4. DOMAIN published' = 1 .. L + 1
  BY <1>3, LenProperties
<1>5. CASE n = L + 1
  <2>1. AcceptedUpTo(n)' = Accepted'
    BY <1>4, <1>5 DEF AcceptedUpTo, Accepted
  <2>2. QED BY <1>1, <1>3, <1>5, <2>1
<1>6. CASE n \in 1 .. L
  <2>1. {m \in 1 .. n : published'[m].result = "Ok"} = {m \in 1 .. n : published[m].result = "Ok"}
    BY <1>3, <1>6
  <2>2. AcceptedUpTo(n)' = AcceptedUpTo(n)
    BY <2>1 DEF AcceptedUpTo
  <2>3. NewestAccepted(n)' => NewestAccepted(n)
    BY <1>3, <1>4, <1>6 DEF NewestAccepted
  <2>4. ASSUME NewestAccepted(n)', TranslateReturnCode(rc) = "Ok"
        PROVE  published[n].key # publishing
    <3>1. L + 1 \in DOMAIN published' /\ L + 1 > n
      BY <1>3, <1>4, <1>6
    <3>2. published'[L + 1].key # published'[n].key
      BY <1>1, <1>3, <2>4, <3>1 DEF NewestAccepted
    <3>3. QED BY <1>1, <1>3, <1>6, <3>2
  <2>5. QED BY <1>3, <1>6, <2>2, <2>3, <2>4
<1>7. QED BY <1>3, <1>4, <1>5, <1>6

LEMMA CurrentInit ==
  ASSUME ChannelInit
  PROVE  CurrentInv
<1> DEFINE w == ApplyQos(scenario.writer, WriterDefaults)
           q == ApplyQos(scenario.reader, ReaderDefaults)
<1>1. /\ scenario.writer \in QosProfile /\ scenario.reader \in QosProfile
      /\ ch = NewChannel(w, q, Readers) /\ published = <<>>
  BY ScenariosAssumption DEF ChannelInit
<1>2. /\ w \in QosProfile /\ w.reliable = scenario.writer.reliable
      /\ q \in QosProfile /\ q.reliable = scenario.reader.reliable
  BY <1>1, DefaultsAreProfiles, AppliedQos
<1> HIDE DEF w, q
<1>3. Both("reliable") => \A r \in Readers : CurrentPair(Readers, KeySamples, r, {}, ch)
  BY <1>1, <1>2, NewCurrent DEF Both
<1>4. HistoryCurrent
  BY <1>1 DEF HistoryCurrent
<1>5. QED BY <1>3, <1>4 DEF CurrentInv

\* An accepted publish is the newest of its key, and the writer lets go of nothing
\* that is the newest of another.
LEMMA WriteKeepsHistory ==
  ASSUME OrderInv, DeliveryInv, HistoryCurrent, Write
  PROVE  HistoryCurrent'
<1> DEFINE k == publishing
           s == [id |-> ch.written + 1, key |-> k]
           h == ch.history
           p == Remember(h, s, ch.writerQos)
<1>1. /\ k \in Keys /\ ch.writer = "up" /\ ch' = WriteSample(ch, k) /\ Returns("OK")
      /\ published \in Seq([key : Keys, result : WriteResult])
  BY DEF Write, OrderInv, CallsOK
<1>2. /\ ch \in ChannelRecord(Readers, KeySamples) /\ InOrder(Readers, KeySamples, ch)
      /\ h \in Seq(Samples(KeySamples)) /\ Increasing(h) /\ Ids(h) \subseteq 1 .. ch.written
      /\ ch.written \in Nat
  BY DEF OrderInv, InOrder, ChannelRecord
<1>3. s \in Samples(KeySamples) /\ s.id = ch.written + 1 /\ s.key = k
  BY <1>1, <1>2, KeyWritten DEF Samples
<1>4. ch'.history = p
  BY <1>1, <1>2 DEF WriteSample, ChannelRecord
<1>5. /\ s \in ToSet(p) /\ ToSet(p) \subseteq ToSet(h) \union {s}
      /\ \A e \in ToSet(h) \ ToSet(p) : e.key = s.key
  BY <1>2, <1>3, RememberNewest
<1>6. \A x \in ToSet(h) : x.id \in 1 .. ch.written
  BY <1>2, SetIds
<1>7. Accepted' = ch.written + 1
  BY <1>1, AcceptedCounts, TranslatedResult DEF DeliveryInv
<1> HIDE DEF s, p
<1>8. s \in Newest(p)
  BY <1>2, <1>3, <1>5, <1>6 DEF Newest
<1>9. ASSUME NEW x \in Newest(h), x.key # k
      PROVE  x \in Newest(p)
  BY <1>3, <1>5, <1>9 DEF Newest
<1>10. ASSUME NEW n \in DOMAIN published', NewestAccepted(n)'
       PROVE  \E x \in Newest(p) : x.id = AcceptedUpTo(n)' /\ x.key = published'[n].key
  <2>1. CASE /\ n \in DOMAIN published /\ published'[n] = published[n]
             /\ AcceptedUpTo(n)' = AcceptedUpTo(n)
             /\ NewestAccepted(n) /\ published[n].key # publishing
    <3>1. PICK x \in Newest(h) : x.id = AcceptedUpTo(n) /\ x.key = published[n].key
      BY <1>1, <2>1 DEF HistoryCurrent
    <3>2. QED BY <1>9, <2>1, <3>1
  <2>2. CASE published'[n].key = publishing /\ AcceptedUpTo(n)' = Accepted'
    BY <1>3, <1>7, <1>8, <2>2
  <2>3. QED BY <1>1, <1>10, <2>1, <2>2, ReturnKeepsNumbers, TranslatedResult
<1>11. QED BY <1>4, <1>10 DEF HistoryCurrent

\* One case per action, by the lemma on what it does to the channel.
LEMMA CurrentStep ==
  ASSUME OrderInv, DeliveryInv, CurrentInv, [ChannelNext]_channelVars
  PROVE  CurrentInv'
<1>1. scenario' = scenario /\ ch \in ChannelRecord(Readers, KeySamples)
  BY ScenarioKept DEF OrderInv, InOrder
<1>2. ASSUME HistoryCurrent',
             \A r \in Readers : CurrentPair(Readers, KeySamples, r, {}, ch) =>
                                  CurrentPair(Readers, KeySamples, r, {}, ch')
      PROVE  CurrentInv'
  BY <1>1, <1>2 DEF CurrentInv, Both
<1>3. ASSUME published' = published, ch'.history = ch.history,
             ch'.writer # "gone" => ch.writer # "gone"
      PROVE  HistoryCurrent'
  BY <1>3 DEF CurrentInv, HistoryCurrent, NewestAccepted, AcceptedUpTo
<1>4. CASE UNCHANGED channelVars
  BY <1>2, <1>3, <1>4 DEF channelVars
<1>5. ASSUME NEW k \in scenario.keys, BeginPublish(k)
      PROVE  CurrentInv'
  <2>1. ch' = ch \/ (ch.writer = "absent" /\ ch' = OpenWriter(ch))
    BY <1>5 DEF BeginPublish
  <2>2. /\ ch'.history = ch.history /\ published' = published
        /\ ch'.writer # "gone" => ch.writer # "gone"
    BY <1>1, <1>5, <2>1 DEF BeginPublish, OpenWriter, ChannelRecord
  <2>3. QED BY <1>2, <1>3, <2>1, <2>2, WriterCurrent
<1>6. CASE Write
  <2>1. publishing \in Keys /\ ch.writer = "up" /\ ch' = WriteSample(ch, publishing)
    BY <1>6 DEF Write, OrderInv, CallsOK
  <2>2. HistoryCurrent'
    BY <1>6, WriteKeepsHistory DEF CurrentInv
  <2>3. QED BY <1>2, <2>1, <2>2, KeyWritten, WriterCurrent
<1>7. CASE WriteTimesOut \/ WriteToDeleted
  <2>1. PICK rc \in {"TIMEOUT", "ALREADY_DELETED"} : Returns(rc)
    BY <1>7 DEF WriteTimesOut, WriteToDeleted
  <2>2. /\ publishing \in Keys /\ ch' = ch /\ TranslateReturnCode(rc) # "Ok"
        /\ published \in Seq([key : Keys, result : WriteResult])
    BY <1>7, TranslatedResult DEF WriteTimesOut, WriteToDeleted, OrderInv, CallsOK
  <2>3. ASSUME NEW n \in DOMAIN published', NewestAccepted(n)'
        PROVE  /\ n \in DOMAIN published /\ published'[n] = published[n]
               /\ AcceptedUpTo(n)' = AcceptedUpTo(n) /\ NewestAccepted(n)
    <3>1. published'[n].result = "Ok"
      BY <2>3 DEF NewestAccepted
    <3>2. QED BY <2>1, <2>2, <2>3, <3>1, ReturnKeepsNumbers
  <2>4. HistoryCurrent'
    BY <2>2, <2>3 DEF CurrentInv, HistoryCurrent
  <2>5. QED BY <1>2, <2>2, <2>4
<1>8. CASE DeleteWriter
  <2>1. ch.writer = "up" /\ ch' = CloseWriter(ch)
    BY <1>8 DEF DeleteWriter
  <2>2. ch'.writer = "gone"
    BY <1>1, <2>1 DEF CloseWriter, ChannelRecord
  <2>3. QED BY <1>2, <2>1, <2>2, WriterCurrent DEF HistoryCurrent
<1>9. CASE WaitStep \/ \E n \in scenario.waits : WaitBegin(n)
  BY <1>2, <1>3, <1>9 DEF WaitStep, WaitBegin, WaitCheck, WaitWakes, WaitTimesOut, Deadline
<1>10. ASSUME NEW x \in Readers,
             \/ Subscribe(x) \/ StopReader(x) \/ MatchReader(x) \/ UnmatchReader(x)
             \/ SampleArrives(x) \/ SampleLost(x) \/ Take(x)
      PROVE  CurrentInv'
  <2>1. ReaderOperation(ch, x, ch') /\ published' = published
    BY <1>10 DEF Subscribe, StopReader, MatchReader, UnmatchReader, SampleArrives,
                SampleLost, Take, Transport, ReaderOperation
  <2>2. ch'.history = ch.history /\ ch'.writer = ch.writer
    BY <2>1, ReadersInOrder DEF SameWriter, OrderInv
  <2>3. QED BY <1>2, <1>3, <2>1, <2>2, ReadersCurrent
<1>11. QED
  BY <1>4, <1>5, <1>6, <1>7, <1>8, <1>9, <1>10 DEF ChannelNext, PublishStep

\* Between reliable endpoints a connected subscriber has, or is still to get, the
\* newest accepted publish of every key, with durability also one from before it
\* matched: for every history depth, any number of keys, however late it comes and
\* however far it falls behind.  It is the safety half of LateJoinerCurrent.
THEOREM NewestReaches == ChannelSpec => []CurrentKept
<1>1. ChannelInit => DeliveryInv /\ CurrentInv
  BY DeliveryInit, CurrentInit
<1>2. OrderInv /\ DeliveryInv /\ CurrentInv /\ [ChannelNext]_channelVars =>
        DeliveryInv' /\ CurrentInv'
  BY DeliveryStep, CurrentStep
<1>3. OrderInv /\ CurrentInv => CurrentKept
  <2>1. SUFFICES ASSUME OrderInv, CurrentInv, Both("reliable"),
                        NEW r \in {x \in Matched(ch) : ch.reader[x].state = "up"},
                        NEW n \in DOMAIN published, NewestAccepted(n),
                        Both("durable") \/ AcceptedUpTo(n) > ch.reader[r].joined
                 PROVE  AcceptedUpTo(n) \in Due(r)
    BY DEF CurrentKept
  <2>2. /\ r \in Readers /\ ch.reader[r].matched /\ ch.reader[r].state = "up"
        /\ ch.history \in Seq(Samples(KeySamples)) /\ ch.reader[r].joined \in Nat
    BY <2>1 DEF Matched, OrderInv, InOrder, ChannelRecord, ReaderRecord
  <2>3. ch.writer = "up"
    BY <2>1, <2>2 DEF OrderInv, InOrder, ReaderInOrder
  <2>4. PICK s \in Newest(ch.history) : s.id = AcceptedUpTo(n)
    BY <2>1, <2>3 DEF CurrentInv, HistoryCurrent
  <2>5. s.id \in Nat
    BY <2>2, SetIds DEF Newest
  <2>6. DurablePair(ch) \/ ch.reader[r].joined < s.id
    BY <2>1, <2>2, <2>4, <2>5 DEF OrderInv
  <2>7. ReaderCurrent(ch, ch.reader[r], {})
    BY <2>1, <2>2 DEF CurrentInv, CurrentPair
  <2>8. s.id \in DueOf(ch.reader[r])
    BY <2>2, <2>6, <2>7 DEF ReaderCurrent
  <2>9. QED BY <2>4, <2>8 DEF Due, DueOf
<1>4. QED BY <1>1, <1>2, <1>3, OrderAlways, PTL DEF ChannelSpec
=============================================================================
