------------------------------ MODULE Channel ------------------------------
(***************************************************************************)
(* A topic's DataWriter and the DataReaders that may match it, as DDS      *)
(* moves samples between them, as far as the facade relies on it: matching *)
(* after both exist, durability, history, reliability.  A channel is one   *)
(* record and every operator maps a channel to a channel, so that modules  *)
(* with one topic (TopicChannel) and with many (RadarSystem) share them.   *)
(* A writer and a reader live once: a restarted process is another reader. *)
(***************************************************************************)
EXTENDS Qos, Integers, Sequences, FiniteSets, SequencesExt

EndpointState == {"absent", "up", "gone"}

\* The reader's side: joined is the id of the last sample written before the
\* match, owed what the writer still has to send it, cache what it received
\* and the listener has not taken, delivered what the listener took.
NewReader == [state |-> "absent", matched |-> FALSE, joined |-> 0,
              owed |-> <<>>, cache |-> <<>>, delivered |-> <<>>]

NewChannel(offered, requested, rs) ==
  [writerQos |-> offered, readerQos |-> requested, writer |-> "absent",
   written |-> 0, history |-> <<>>, reader |-> [r \in rs |-> NewReader]]

Matched(ch) == {r \in DOMAIN ch.reader : ch.reader[r].matched}
ReliablePair(ch) == ch.writerQos.reliable /\ ch.readerQos.reliable
DurablePair(ch)  == ch.writerQos.durable /\ ch.readerQos.durable

OpenReader(ch, r) == [ch EXCEPT !.reader[r].state = "up"]
OpenWriter(ch)    == [ch EXCEPT !.writer = "up"]

\* Discovery: a writer and a reader with compatible QoS learn of each other.
\* A durable writer sends a durable reader its history first.
CanMatch(ch, r) ==
  /\ ch.writer = "up" /\ ch.reader[r].state = "up" /\ ~ch.reader[r].matched
  /\ Compatible(ch.writerQos, ch.readerQos)
Match(ch, r) ==
  [ch EXCEPT !.reader[r].matched = TRUE,
             !.reader[r].joined  = ch.written,
             !.reader[r].owed    = IF DurablePair(ch) THEN ch.history ELSE <<>>]

\* The writer learns that a matched reader is gone.
CanUnmatch(ch, r) == ch.reader[r].matched /\ ch.reader[r].state = "gone"
Unmatch(ch, r) == [ch EXCEPT !.reader[r].matched = FALSE, !.reader[r].owed = <<>>]

\* q and then s; KEEP_LAST holds depth samples of a key and lets go of the
\* oldest, which comes first, for another one.
Remember(q, s, qos) ==
  LET same == {i \in DOMAIN q : q[i].key = s.key} IN
  Append(IF qos.keepAll \/ same = {} \/ Cardinality(same) < qos.depth
           THEN q ELSE RemoveAt(q, Min(same)), s)

\* A reliable KEEP_ALL writer with a resource limit holds what some reader has
\* not acknowledged, and all of its history if it is durable.
Held(ch) ==
  IF ch.writerQos.durable THEN ToSet(ch.history)
    ELSE UNION {ToSet(ch.reader[r].owed) : r \in Matched(ch)}
RoomToWrite(ch) ==
  ch.writerQos.reliable /\ ch.writerQos.keepAll =>
    Cardinality(Held(ch)) < ch.writerQos.maxSamples

\* DataWriter::write accepts a sample.
WriteSample(ch, key) ==
  LET s == [id |-> ch.written + 1, key |-> key] IN
  [ch EXCEPT !.written = @ + 1,
             !.history = Remember(@, s, ch.writerQos),
             !.reader  = [r \in DOMAIN ch.reader |->
                            IF ch.reader[r].matched
                              THEN [ch.reader[r] EXCEPT !.owed = Append(@, s)]
                              ELSE ch.reader[r]]]

\* The next sample owed to a reader reaches it, in order.
CanArrive(ch, r) ==
  /\ ch.reader[r].state = "up" /\ ch.reader[r].owed # <<>>
  /\ ch.readerQos.keepAll => Len(ch.reader[r].cache) < ch.readerQos.maxSamples
Arrive(ch, r) ==
  [ch EXCEPT !.reader[r].owed  = Tail(@),
             !.reader[r].cache = Remember(@, Head(ch.reader[r].owed), ch.readerQos)]

\* Or it does not: without reliability, or when the writer no longer has it.
CanLose(ch, r) ==
  /\ ch.reader[r].owed # <<>>
  /\ ReliablePair(ch) => Head(ch.reader[r].owed) \notin ToSet(ch.history)
Lose(ch, r) == [ch EXCEPT !.reader[r].owed = Tail(@)]

\* Mutant: the listener reads without taking.
TakeSampleReads(ch, r) ==
  [ch EXCEPT !.reader[r].delivered = Append(@, Head(ch.reader[r].cache))]

\* The listener takes one sample; module Delivery has it in detail.
CanTake(ch, r) == ch.reader[r].state = "up" /\ ch.reader[r].cache # <<>>
TakeSample(ch, r) ==
  [ch EXCEPT !.reader[r].cache     = Tail(@),
             !.reader[r].delivered = Append(@, Head(ch.reader[r].cache))]

\* delete_contained_entities, or a crash.
CloseReader(ch, r) ==
  [ch EXCEPT !.reader[r].state = "gone", !.reader[r].cache = <<>>]
CloseWriter(ch) ==
  [ch EXCEPT !.writer = "gone", !.history = <<>>,
             !.reader = [r \in DOMAIN ch.reader |->
                           [ch.reader[r] EXCEPT !.matched = FALSE]]]

-----------------------------------------------------------------------------
ReaderTypeOK(rd) ==
  /\ rd.state \in EndpointState /\ rd.matched \in BOOLEAN /\ rd.joined \in Nat
  /\ \A q \in {rd.owed, rd.cache, rd.delivered} : \A i \in DOMAIN q : q[i].id \in Nat
ChannelTypeOK(ch) ==
  /\ ch.writer \in EndpointState
  /\ ch.written \in Nat
  /\ \A i \in DOMAIN ch.history : ch.history[i].id \in 1 .. ch.written
  /\ \A r \in DOMAIN ch.reader : ReaderTypeOK(ch.reader[r])

Ids(q) == {q[i].id : i \in DOMAIN q}

\* The newest sample of each key.
Newest(q) == {s \in ToSet(q) : \A x \in ToSet(q) : x.key = s.key => x.id <= s.id}

\* Samples are told apart by the order in which they were written.
Increasing(q) == \A i, j \in DOMAIN q : i < j => q[i].id < q[j].id
=============================================================================
