---------------------------- MODULE TopicChannel ----------------------------
(***************************************************************************)
(* One topic through the facade's bindings: publish creates the writer on  *)
(* first use (service.cpp) and translates DDS's answer to a WriteResult;   *)
(* subscribers come late, fall behind and leave; wait_for_subscribers      *)
(* loops over a WaitSet (opendds_runtime.cpp) while they do.  Whoever      *)
(* holds the writer's binding may use it until the runtime deletes the     *)
(* writer and be told so after that.                                       *)
(***************************************************************************)
EXTENDS Channel

CONSTANTS
  Readers,    \* the topic's readers, by lifetime: a restarted one is another
  Keys, NoKey,\* the instances published on the topic, and none
  Scenarios,  \* a topic's profiles, the keys published, how often, and the
              \* min_counts waited for: [writer, reader, keys, writes, waits]
  MaxWrites   \* bound on the publishes of every scenario

ASSUME NoKeyAssumption == NoKey \notin Keys
ASSUME ReadersAssumption == IsFiniteSet(Readers)
ASSUME ScenariosAssumption ==
  \A c \in Scenarios : /\ c.writer \in QosProfile /\ c.reader \in QosProfile
                        /\ c.keys \subseteq Keys /\ c.waits \subseteq Nat
                        /\ c.writes \in 0 .. MaxWrites
ASSUME MaxWritesAssumption == MaxWrites \in Nat

VARIABLES
  ch,         \* the channel: the writer, its readers and the samples between
  scenario,   \* its profiles, and who uses it how
  publishing, \* the key of the publish in progress
  published,  \* each publish that returned: its key and its result
  wait,       \* the call of wait_for_subscribers
  changed     \* PUBLICATION_MATCHED_STATUS has changed since it was last read

channelVars == <<ch, scenario, publishing, published, wait, changed>>

WriteResult ==
  {"Ok", "Timeout", "NotMatched", "OutOfResources", "PreconditionFailed",
   "Disconnected", "Unknown"}

ChannelInit ==
  /\ scenario \in Scenarios
  /\ ch = NewChannel(ApplyQos(scenario.writer, WriterDefaults),
                     ApplyQos(scenario.reader, ReaderDefaults), Readers)
  /\ publishing = NoKey /\ published = <<>>
  /\ wait = [at |-> "idle", min |-> 0, expired |-> FALSE]
  /\ changed = FALSE

-----------------------------------------------------------------------------
\* Mutant: a write that timed out is reported as accepted.
TranslateReturnCodeOkOnTimeout(rc) ==
  CASE rc \in {"OK", "TIMEOUT"} -> "Ok"
    [] rc = "ALREADY_DELETED" -> "Disconnected"
    [] OTHER -> "Unknown"

\* translate_return_code: nothing becomes NotMatched.
TranslateReturnCode(rc) ==
  CASE rc = "OK" -> "Ok"
    [] rc = "TIMEOUT" -> "Timeout"
    [] rc = "OUT_OF_RESOURCES" -> "OutOfResources"
    [] rc \in {"PRECONDITION_NOT_MET", "NOT_ENABLED"} -> "PreconditionFailed"
    [] rc = "ALREADY_DELETED" -> "Disconnected"
    [] OTHER -> "Unknown"

\* publish_erased up to the write: the first publish creates the writer, and
\* DDS has yet to match it.
BeginPublish(k) ==
  /\ publishing = NoKey /\ Len(published) < scenario.writes
  /\ publishing' = k
  /\ ch' = IF ch.writer = "absent" THEN OpenWriter(ch) ELSE ch
  /\ UNCHANGED <<scenario, published, wait, changed>>

\* write_erased returns what DataWriter::write answered.
Returns(rc) ==
  /\ publishing' = NoKey
  /\ published' = Append(published,
                         [key |-> publishing, result |-> TranslateReturnCode(rc)])
  /\ UNCHANGED <<scenario, wait, changed>>

Write ==
  /\ publishing # NoKey /\ ch.writer = "up" /\ RoomToWrite(ch)
  /\ ch' = WriteSample(ch, publishing)
  /\ Returns("OK")

\* max_blocking_time passes and the queue is still full.
WriteTimesOut ==
  /\ publishing # NoKey /\ ch.writer = "up" /\ ~RoomToWrite(ch)
  /\ Returns("TIMEOUT") /\ UNCHANGED ch

WriteToDeleted ==
  /\ publishing # NoKey /\ ch.writer = "gone"
  /\ Returns("ALREADY_DELETED") /\ UNCHANGED ch

\* The runtime's shutdown deletes the writer.
DeleteWriter ==
  /\ ch.writer = "up"
  /\ ch' = CloseWriter(ch)
  /\ UNCHANGED <<scenario, publishing, published, wait, changed>>

-----------------------------------------------------------------------------
\* DDS and the subscribing processes.
Transport(next) ==
  ch' = next /\ UNCHANGED <<scenario, publishing, published, wait, changed>>

Subscribe(r)     == ch.reader[r].state = "absent" /\ Transport(OpenReader(ch, r))
StopReader(r)    == ch.reader[r].state = "up" /\ Transport(CloseReader(ch, r))
SampleArrives(r) == CanArrive(ch, r) /\ Transport(Arrive(ch, r))
SampleLost(r)    == CanLose(ch, r) /\ Transport(Lose(ch, r))
Take(r)          == CanTake(ch, r) /\ Transport(TakeSample(ch, r))

\* The number of matched readers changes, which sets the status' flag and wakes
\* a waiter.
MatchReader(r) ==
  /\ CanMatch(ch, r)
  /\ ch' = Match(ch, r) /\ changed' = TRUE
  /\ UNCHANGED <<scenario, publishing, published, wait>>
UnmatchReader(r) ==
  /\ CanUnmatch(ch, r)
  /\ ch' = Unmatch(ch, r) /\ changed' = TRUE
  /\ UNCHANGED <<scenario, publishing, published, wait>>

-----------------------------------------------------------------------------
\* wait_for_subscribers.
WaitBegin(n) ==
  /\ wait.at = "idle" /\ ch.writer # "absent"
  /\ wait' = [at |-> "check", min |-> n, expired |-> FALSE]
  /\ UNCHANGED <<ch, scenario, publishing, published, changed>>

Enough == Cardinality(Matched(ch)) >= wait.min

\* Mutants: a matched status is waited for without looking at the present one
\* first; a status that cannot be read is tried again.
WaitCheckForgetsCount ==
  /\ wait.at = "check"
  /\ wait' = [wait EXCEPT !.at = IF ch.writer = "gone" \/ wait.expired
                                   THEN "failed" ELSE "wait"]
  /\ changed' = FALSE
  /\ UNCHANGED <<ch, scenario, publishing, published>>

WaitCheckRetries ==
  /\ wait.at = "check"
  /\ wait' = [wait EXCEPT !.at =
               CASE ch.writer = "gone" -> "check"
                 [] ch.writer # "gone" /\ Enough -> "matched"
                 [] OTHER -> IF wait.expired THEN "failed" ELSE "wait"]
  /\ changed' = FALSE
  /\ UNCHANGED <<ch, scenario, publishing, published>>

\* get_publication_matched_status, which clears the flag and fails on a deleted
\* writer, and then the deadline.
WaitCheck ==
  /\ wait.at = "check"
  /\ wait' = [wait EXCEPT !.at = CASE ch.writer = "gone" -> "failed"
                                   [] ch.writer # "gone" /\ Enough -> "matched"
                                   [] OTHER -> IF wait.expired THEN "failed"
                                                               ELSE "wait"]
  /\ changed' = (changed /\ ch.writer = "gone")
  /\ UNCHANGED <<ch, scenario, publishing, published>>

\* WaitSet::wait returns at once while the flag is set, or when the deadline
\* has passed, and then the loop is left without another look.
WaitWakes ==
  /\ wait.at = "wait" /\ changed
  /\ wait' = [wait EXCEPT !.at = "check"]
  /\ UNCHANGED <<ch, scenario, publishing, published, changed>>
WaitTimesOut ==
  /\ wait.at = "wait" /\ wait.expired /\ ~changed
  /\ wait' = [wait EXCEPT !.at = "failed"]
  /\ UNCHANGED <<ch, scenario, publishing, published, changed>>

\* Time passes.
Deadline ==
  /\ wait.at \in {"check", "wait"} /\ ~wait.expired
  /\ wait' = [wait EXCEPT !.expired = TRUE]
  /\ UNCHANGED <<ch, scenario, publishing, published, changed>>

-----------------------------------------------------------------------------
PublishStep == Write \/ WriteTimesOut \/ WriteToDeleted
WaitStep == WaitCheck \/ WaitWakes \/ WaitTimesOut \/ Deadline

ChannelNext ==
  \/ \E k \in scenario.keys : BeginPublish(k)
  \/ PublishStep \/ DeleteWriter \/ WaitStep
  \/ \E n \in scenario.waits : WaitBegin(n)
  \/ \E r \in Readers :
       \/ Subscribe(r) \/ StopReader(r) \/ MatchReader(r) \/ UnmatchReader(r)
       \/ SampleArrives(r) \/ SampleLost(r) \/ Take(r)

ChannelSpec == ChannelInit /\ [][ChannelNext]_channelVars

\* Discovery and reliable delivery keep trying, listeners keep taking, calls in
\* progress go on and time passes.  Nobody has to publish, subscribe or wait.
FairChannelSpec ==
  /\ ChannelSpec
  /\ WF_channelVars(PublishStep) /\ WF_channelVars(WaitStep)
  /\ \A r \in Readers : /\ WF_channelVars(MatchReader(r))
                        /\ WF_channelVars(SampleArrives(r))
                        /\ WF_channelVars(Take(r))

-----------------------------------------------------------------------------
TopicChannelTypeOK ==
  /\ ChannelTypeOK(ch) /\ DOMAIN ch.reader = Readers
  /\ scenario \in Scenarios
  /\ publishing \in Keys \union {NoKey} /\ (publishing # NoKey => ch.writer # "absent")
  /\ published \in Seq([key : Keys, result : WriteResult])
  /\ wait \in [at : {"idle", "check", "wait", "matched", "failed"},
               min : scenario.waits \union {0}, expired : BOOLEAN]
  /\ changed \in BOOLEAN

Both(field) == scenario.writer[field] /\ scenario.reader[field]

\* What reader r has, or is still to get, of what was published.
Due(r) == Ids(ch.reader[r].owed) \union Ids(ch.reader[r].cache)
            \union Ids(ch.reader[r].delivered)

\* The callback of a reader sees samples in the order they were written and
\* none of them twice, under every profile (on_data_available takes).
InOrderOnce == \A r \in Readers : Increasing(ch.reader[r].delivered)

\* How many publishes were reported as Ok.
Accepted == Cardinality({n \in DOMAIN published : published[n].result = "Ok"})

\* Between `reliable` KEEP_ALL endpoints (event_bus, critical, persistent) what
\* publish reported as Ok while a subscriber was matched is what it gets, nothing
\* left out and nothing besides: a full queue is reported as Timeout.
OkIsDelivered ==
  Both("reliable") /\ Both("keepAll") =>
    \A r \in {x \in Matched(ch) : ch.reader[x].state = "up"} :
      Due(r) = (IF Both("durable") THEN 1 ELSE ch.reader[r].joined + 1) .. Accepted

\* How many of the first n were, and whether the n-th was and is still the newest
\* of its key that was.
AcceptedUpTo(n) == Cardinality({m \in 1 .. n : published[m].result = "Ok"})
NewestAccepted(n) ==
  /\ published[n].result = "Ok"
  /\ \A m \in DOMAIN published :
       m > n /\ published[m].key = published[n].key => published[m].result # "Ok"

\* Between `reliable` endpoints a connected subscriber has, or is still to get,
\* the newest accepted publish of every key from after its match, and with
\* durability on both sides also from before it: one that falls behind a short
\* KEEP_LAST history may lose older values of a key and never the present one.
CurrentKept ==
  Both("reliable") =>
    \A r \in {x \in Matched(ch) : ch.reader[x].state = "up"} :
      \A n \in DOMAIN published :
        /\ NewestAccepted(n)
        /\ Both("durable") \/ AcceptedUpTo(n) > ch.reader[r].joined
        => AcceptedUpTo(n) \in Due(r)

\* A subscriber that comes late gets nothing from before, unless both sides
\* asked for durability (README: "no replayed RadarTrack").
NothingReplayed ==
  ~Both("durable") =>
    \A r \in Readers : \A i \in Due(r) : i > ch.reader[r].joined

\* wait_for_subscribers never sleeps through the match it waits for, though the
\* match may come between its look at the status and the wait.
NoLostWakeup == wait.at = "wait" /\ Enough => changed

\* wait_for_subscribers returns by its deadline.
WaitReturns == wait.at = "check" ~> wait.at \in {"matched", "failed"}

\* The n-th accepted publish is the newest of its key.
Current(n) ==
  LET oks == SelectSeq(published, LAMBDA p : p.result = "Ok") IN
  n \in DOMAIN oks /\ \A m \in n + 1 .. Len(oks) : oks[m].key # oks[n].key

\* With durability on both sides a subscriber, however late, is told the newest
\* value of every key (sensor_topics.ini: "a workstation that joins late
\* immediately learns the current component state").
LateJoinerCurrent ==
  \A r \in Readers, n \in 1 .. MaxWrites :
    (/\ Both("durable") /\ Both("reliable")
     /\ ch.reader[r].state = "up" /\ ch.writer = "up" /\ Current(n))
    ~> (\/ n \in Ids(ch.reader[r].delivered)
        \/ ~Current(n) \/ ch.writer = "gone" \/ ch.reader[r].state = "gone")
=============================================================================
