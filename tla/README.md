# Verification of SOLID_OpenDDS

TLA+ models of the `pub_sub_open_dds` facade over OpenDDS and of the radar demo
that uses it, checked with TLC, and theorems about them proved with TLAPS. The
models are translated from the C++ code; every definition's lines are in
`PROJECT.json` under `map`.

## The system

`pub_sub_open_dds` hides OpenDDS behind one class, `Service`. An application
creates a `Service`, calls `pre_activate` (configuration, participant),
`subscribe<T>` any number of times, `post_activate` (publisher, subscriber,
readers), `publish`, and in the end `deactivate`.

| Part | State | Operations | Talks to |
|---|---|---|---|
| `Service` (`service.cpp`, `service.h`) | `state_`, `topic_config_`, `pending_`, `subscriber_bindings_`, `publisher_cache_`, `topic_types_` | `pre_activate`, `subscribe`, `post_activate`, `publish`, `deactivate` | `IRuntime`, `TopicConfig`, the adapter registry |
| `OpenDddsRuntime` (`opendds_runtime.cpp`) | factory, participant, publisher, subscriber, `topics_`, `topic_types_`, `registered_types_` | `init`, `activate`, `create_writer`, `create_reader`, `shutdown` | the DDS library, the generated adapters |
| Generated adapters (`PubSub_adapter.cpp.in`) | none (one static object per type) | `register_with_opendds`, `make_opendds_reader`, `make_opendds_writer` | the DDS library |
| Bindings and listener (`opendds_bindings.h`) | `on_sample_` under a mutex | `write_erased`, `set_on_sample`, `deliver`, `on_data_available` | the transport's threads and the application's callbacks |
| Publisher's view of subscribers (`opendds_runtime.cpp`, `opendds_bindings.h`) | the writer's matched status | `translate_return_code`, `wait_for_subscribers` | the DDS library |
| `TopicConfig`, QoS profiles (`topic_config.cpp`, `qos_profile.cpp`) | `bindings_`, the XML loader | `load_from_file`, `use_xml_qos_file`, `writer_qos_for`, `reader_qos_for` | files |
| Adapter registry (`registry.cpp`) | a map under a mutex | `register_type_adapter`, `find_type_adapter` | static initialisers |
| Bootstrap parser (`service_bootstrap_config.cpp`) | none | `load_from_file`, `load_from_string` | files |
| `SensorApp`, `WorkstationApp` | a stop flag | main loop, callbacks, signal handler | `Service` |

Hard behaviours: every DDS call may fail and leave partial work; a failed
`post_activate` may be retried; readers are live, with listeners on the
transport's threads, before `post_activate` has returned and while `deactivate`
runs; callbacks publish; the tables of `Service` and of the runtime have no lock;
the writer of a topic appears with its first sample; subscribers match late and
leave while somebody waits for them; the two applications start and stop in any order.

What makes each part correct:

* runtime: its topic table agrees with the entities that exist; no handle
  outlives the participant;
* service: a topic has one type on every path; subscriptions are bound in
  order, all of them once the service is up; bindings outlive callbacks; nothing
  is left after `deactivate`;
* delivery: no callback after its binding is released; no sample lost after
  the subscription is installed; calls return;
* publishing: one writer per topic, and samples of the writer's type; `Ok` means
  what the profile says; a wait for subscribers misses no match and returns;
* configuration: the transport starts only on files that are good in whole, with
  what they say; the last binding of a topic wins; the QoS both ends resolve to
  is compatible; XML profiles equal what they mirror;
* demo: a command is acknowledged once, the audit log has no holes, a late
  workstation learns the current state and no old tracks, Ctrl-C ends a process.

## Modules

| Module | Models | State and actions in the code |
|---|---|---|
| `OpenDddsRuntime` | the transport, with the part of the DDS library it changes | one operator per `IRuntime` method for its normal return (`InitRuntime`, `ActivateRuntime`, `CreateReader`, ...) and one for its exceptions (`...Throws`); `topics` stands for `topics_` and `topic_types_`, which have the same keys; `ddsTypes`, `publishers`, `readers`, `writers` and `serviceParticipant` are what exists in the library |
| `Service` | the facade driving one runtime | one action per public method and outcome; the calls during which the transport is live (`post_activate`, a direct `subscribe`, `deactivate`) are split, with `pc` the point reached and `binding` the local shared pointer not stored yet |
| `ServiceContract` | what an application may rely on | no code: an abstract specification with five variables |
| `ServiceRefinement` | the mapping from `Service` to `ServiceContract` | `Phase`, `Endpoints`, and the number of callbacks bound |
| `Delivery` | `Service` with listener threads | `OnDataAvailable`, `Take`, `Deliver`, `CallbackReturns`, `CallbackThrows` are the steps of `on_data_available` and `deliver`; `Arrive` and the draining in `AppStep` are DDS |
| `PublishRace` | `publish` by several threads | one action per access to an unlocked table (`topics_` and `topic_types_` apart) and per DDS call, with one for its failure (`...Throws`); `refused` is the history of what threw and where |
| `PublishRefinement` | the mapping from `PublishRace` to `ServiceContract`, on the topics whose type the threads agree on | `AgreedTypes` and `AgreedWriters` are what `topic_types_` and the writers say of those topics |
| `Qos` | the built-in profiles, `apply_writer_qos`, `apply_reader_qos`, and DDS's rule for a match | pure operators, used by the four modules below |
| `Channel` | one topic's writer and readers as DDS moves samples between them: matching, durability, history, loss, queue limits | no state of its own: a channel is a record, `Match`, `WriteSample`, `Arrive`, `TakeSample`, ... map a channel to the next |
| `TopicChannel` | one topic through the facade: the lazily created writer, the write results, subscribers that come late and leave, `wait_for_subscribers` | `BeginPublish`, then `Write`, `WriteTimesOut` or `WriteToDeleted`; `WaitCheck` is a turn of the wait loop up to the `WaitSet`, `WaitWakes` and `WaitTimesOut` the two ways out of it; `changed` is the status' flag, set by a match and cleared by reading the status |
| `TopicConfig` | the topic file, the XML file and the resolution of a topic's QoS | `ReadLine` is one turn of `parse_bindings`; `WriterQosFor`, `ReaderQosFor` are pure operators |
| `BootstrapConfig` | the bootstrap file | `ReadEntry` is one turn of `parse_stream` |
| `Startup` | how a process starts: both files, the command line, `pre_activate`, `rebuild_argv` | `BeginPreActivate`, `LoadXml`, `StartRuntime`, in the order of the code |
| `RadarSystem` | the two applications over ten channels | a main and a listener thread per process; `Tick` is a turn of the main loop, `Cycle` what it publishes, `Reaction` what a callback replies |
| `RuntimeProofs`, `ServiceProofs`, `DeliveryProofs`, `PublishRaceProofs`, `TopicChannelProofs`, `StartupProofs`, `RadarProofs` | theorems about the module of that name | |
| `ChannelProofs` | lemmas about the operators of `Channel`, for any set of readers and of samples | |
| `MC*` | instances for TLC | |

`Service` extends `OpenDddsRuntime`; `Delivery` extends `Service`; `Startup` extends
`BootstrapConfig`, which extends `TopicConfig`, which extends `Qos`;
`TopicChannel` and `RadarSystem` extend `Channel`, which extends `Qos`.
`PublishRace` takes the code of one `Service` state apart more finely than `Service` does, so it
extends nothing; the two meet in `ServiceContract`, which both are shown to implement
(`PublishRace` where threads agree on a topic's type).

The composition is by layers that hide each other: `RadarSystem` uses the calls of
`Service` as steps (what happens inside one, with its failures, is in `Service` and
`Delivery`), and its profiles are the ones `Startup` shows the demo's files to resolve to.

Operators marked "Mutant" are variants of a definition with a plausible mistake;
no specification uses them. They show that each property can fail.

### Abstractions

* A message has no payload. A sample is a count in `Delivery`, an id and a key in
  `Channel`; a callback is the number of the subscription it belongs to, 0 for none.
* A DDS call that fails is a choice, allowed by the constant `Faults`, in
  `OpenDddsRuntime` and in `PublishRace`. A null binding is taken with the failed
  narrow: the DataWriter or DataReader is there and nobody uses it.
  `delete_contained_entities` and `delete_participant` do not fail (their
  result is ignored by the code), and `delete_contained_entities` waits for
  running listeners, as the comment in `shutdown` states.
* Resolution of QoS does not throw (every miss falls back to a default), so
  `Service` and `OpenDddsRuntime` leave QoS out; `Qos` and `TopicConfig` have it.
* A call rejected at once by a state, topic or type check leaves all variables
  alone and is a stuttering step. Loading the files happens before any state of
  `Service` is touched, so there its failure is one too; `Startup` shows that it does.
* The lines of a file are records of what the parser finds in them; comments,
  blanks and the case of built-in names are abstracted. A value is a text, or an
  integer when all of the text is one.
* `max_instances` is left out: no profile and no XML file of the repository sets it.
* The service of `PublishRace` is `PostActivated`, its topics are declared and its types
  have adapters: the checks before and the calls around are in `Service`. An operation on a
  hash map is atomic. A data race on the map itself is undefined behaviour; `PublishWrongType`
  fails without it.
* `set_on_sample` and the `push_back` into `subscriber_bindings_` are one step
  (`InstallBinding`); between them the local `shared_ptr` owns the binding. In `Channel` a take and
  the callback it leads to are one step; `Delivery` has them apart.
* `Channel` is external: it states what DDS promises for the QoS the facade sets,
  not how OpenDDS does it. Deadlines and liveliness only decide
  compatibility; an unreliable sample may be lost, never overtaken. A reader
  lives once; a restarted process is another reader.
* In `TopicChannel` the publisher keeps its binding after `deactivate` has deleted the
  writer, as `~Service` allows; one thread waits at a time.
* In `RadarSystem` every command is addressed to this sensor; printing, payloads and
  real time are left out, so periods are counted in cycles and a settling time is
  just a state. Callbacks of one process run one after another. A process starts once
  (a late start is one that comes after the other has published). The topics of one view run
  together; topics of different views share nothing but the threads.

## Runs

| Run | Question and result | Instance |
|---|---|---|
| `Service` | types, order, ownership, what a failed registration leaves unusable, cleanup, and the contract: hold | 2 topics, 3 types of which one has no adapter, a config that declares one topic or none, 3 subscriptions, 4 readers, 2 writers, 2 activations, all faults |
| `ServiceLeak` | does a failed `pre_activate` get cleaned up? no | as `Service`, smaller |
| `ServiceBoundOnce` | is a subscription bound once? not after a retry | as above |
| `ServicePolicy` | does the policy come from the successful `pre_activate`? not always | as above |
| `Delivery` | callbacks and bindings, drops and lost replies, no sample left behind by a listener, calls returning, samples taken: hold | 2 threads, 2 topics, 2 samples, faults at the endpoints; the callback of one topic publishes on the other |
| `DeliveryDrop` | is a sample ever dropped? yes, between creation and `set_on_sample` | as `Delivery`, callbacks do not publish |
| `Publish` | what holds when threads race on the unlocked tables? a topic used by one thread has one writer that is bound, whatever failed before, a topic whose type the threads agree on gets samples of it, writers have the recorded type and are used through the cache, calls throw only when DDS refuses or for what another thread, a second type or a failed registration left, and the contract of `Service` holds on the topics agreed on | 2 threads, 2 calls each; 3 topics: one shared, one of the listener alone, one used with two types; all faults |
| `PublishWrongType` | samples of the writer's type? not when two types race | as `Publish`, no faults |
| `Startup` | what does a process start with, and on which files? only on good ones and with what they say; profiles and their XML copies agree, both ends of a topic match, the demo's two processes meet | two processes: one with any bootstrap file of up to two lines with or without a topic file after them, and any topic file of up to two lines; the other with one-line files; or each with its files of the demo |
| `Channel` | what do `Ok`, durability and `KEEP_ALL` give a subscriber, and does `wait_for_subscribers` miss a match or not return? what the profiles promise, and the newest sample of a key is never lost to a reliable reader; no | ten scenarios, each with its profiles: every built-in way of keeping samples, a pair that differs and matches, one that does not, waits for one and for two; 2 readers, 3 publishes, 2 keys |
| `Radar` | acknowledgements, audit log, late workstation, no old tracks, the newest state of each key known, shutdown: hold | both processes in either order, interrupted at any time, 3 cycles each, in turn for each group of topics that depend on each other |
| `FirstPublish` | does the first command reach a sensor that is up? not always | the topics of commands, 2 cycles |

Bounds. Each guards the actions that would pass it.

* `MaxActivations` 2: one failed `post_activate` and one retry. `MaxSubs` 3, `MaxReaders` 4:
  room for a retry that binds a registration again beside the others, and for a
  subscription after the retry. The third type is there to have no adapter.
* `MaxSamples` 2 (`Delivery`): one sample arrives before and one after the callback is
  installed, or two run at once.
* `MaxCalls` 2 with two threads (`Publish`): the applications have the main thread and a
  listener, and with two calls a thread meets its own writer. The theorems need neither bound.
* `MaxWrites` 3 (`Channel`): with a depth of 2, or a queue of 1, the third publish
  replaces a sample or times out. The depths and limits of the profiles, 10 and
  1000, are scaled to 1 and 2. Two readers, by lifetime, are one that leaves and one
  that comes after it, or the two somebody waits for.
* `MaxTicks` 3 (`Radar`), `HeartbeatEvery` 2, `AlarmEvery` 1: a heartbeat and alarms
  on both sides of a late start, a poll (every third cycle), a second cue; `MaxDepth` 1 lets two
  samples overrun a history of 10. One beam, track and component: topics with several
  keys are in `Channel`.
* `IntMin`, `IntMax` -100, 100 (`Startup`): the range of `int`, scaled so that 101 is out
  of it. Two lines are enough for a binding or a key that is repeated, and for a bad
  line before or after a good one.

Symmetry is used in the run `Service` only (the two types that have an adapter; the
topics are not symmetric because one is declared and one is not), for its invariants and
action properties; its refinement is checked without fairness.

Nothing may deadlock in `Service`, `Delivery`, `Publish` and `Startup`: a model that has
finished either still has a call to make or says so with a stuttering action (`Done`,
`StartupDone`). `Channel`, `Radar` and `FirstPublish` set `CHECK_DEADLOCK FALSE`, since there the
end is a state in which everybody has gone or used up their publishes; that no process or
call hangs before is what `WaitReturns` and `StopsCleanly` say.

### Fairness

* `FairDeliverySpec`: weak fairness of the application thread while it is inside a call
  (`InsideCall`) and of each listener thread: the operating system schedules running
  threads, and callbacks return. It does not assume that a call is made or that a
  sample arrives. `SamplesTaken` excludes the behaviours in which a callback throws,
  since the code then leaves the rest for the next notification.
* `FairChannelSpec`: weak fairness of a publish in progress, of a wait in progress (with its
  clock), and for each reader of discovery, arrival and its listener: DDS repeats
  announcements and reliable samples. Nobody has to publish, subscribe, leave or wait.
* `FairRadarSpec`: weak fairness of each main thread, each listener thread and the
  network. Nobody has to start a process or to interrupt it.
* The other specifications have none; their properties are safety properties.

## What disagrees with the text of the repository

Six runs end in a counterexample; `PROJECT.json` quotes the text.

1. `ServiceLeak`: `deactivate` returns early from `Created`, although a
   `pre_activate` that failed in `create_participant` has started the library.
2. `ServiceBoundOnce`: `activate()` clears `pending_` only when all thunks have
   succeeded; a retry binds the first ones twice.
3. `ServicePolicy`: `topic_config_` survives a failed `pre_activate`.
4. `DeliveryDrop`: the listener is live before the callback is installed.
5. `PublishWrongType`: no lock around `topic_types_`, and the insert's result is
   not looked at.
6. `FirstPublish`: the workstation settles before its first publish, but the writer
   that the sensor has to discover is created by that publish, and the profile is volatile.

Seen on the way, and stated as what does hold rather than as a finding: a reply
published by a callback is refused until the service is `PostActivated`
(`RepliesLostOnlyBeforeUp`); two threads that publish on a topic for the first time can make
two writers, of which the cache keeps one (`WritesThroughCache`, `OneWriterPerOwnTopic`); a
thread may find a topic whose type another has not recorded yet, or a type another has
not registered yet, and its publish throws (`RefusedOnlyInConflict`); one failed `register_type`
makes a type unusable until `deactivate` (`FailedTypeUnusable`); a DataWriter whose narrow
failed stays beside the one of the next publish (`OneWriterPerOwnTopic`); a publish nobody receives reports `Ok`, and `NotMatched` is never returned (`TranslateReturnCode`);
the first acknowledgement can be lost as the first command can (so `AcksArrive` speaks of a
matched workstation).

## Proofs

All theorems hold for every value of the constants that satisfies the named assumptions of
the module: `NoType` is no type, `Faults` are fault points, bounds are naturals, `Declares`
maps configs to sets of topics, the adapted types are types, threads and readers are finitely
many, a scenario's profiles are profiles, `Reply` answers a topic with a publication or with
nothing, the files of `Startup` are sequences of the records a parser finds in lines, 0 and
the default domain 42 are within `int`, the command lines are sequences of texts, the periods and the
history depth of the demo are positive and its keys are sequences. No bound is needed to be
large or small. TLC evaluates the assumptions in the runs.

* `RuntimeProofs!RuntimeCorrect`: the invariants of the runtime alone, under any
  client, are one inductive invariant together. Creation preserves `EntityTypesAgree`
  because `get_or_create_topic` either finds the type asked for or stores it;
  `TopicTypesRegistered` is needed because a topic is created only for a type
  the participant knows, and types only disappear with the topics. The
  lemmas speak of the operators, not of `RuntimeNext`, so `ServiceProofs` uses
  them for the facade's calls. The theorem is about the runtime under any client, which no run has;
  `EntitiesOwned` carries `EntityTypesAgree` and `TransportUp` over to `Service`.
* `RuntimeProofs!FailedTypesUnusable`: a type whose registration failed is unusable. `MarkInv`
  makes it inductive: such a type is marked, so it is never registered again, and a type
  the participant does not know gets no topic and, by `RuntimeCorrect`, no endpoint.
* `ServiceProofs`: `ServiceInv` is the inductive invariant. Beside the properties
  it says where the call in progress is (`ControlInv`: `next` is within
  `pending`, `binding` is the newest reader and has no callback yet), which
  states have a participant (`ParticipantInv`), what is empty before
  `pre_activate` and after `deactivate` (`EmptyInv`), that `pending` is the list
  of accepted subscriptions while the service is `PreActivated` (`PendingInv`),
  that a binding being installed belongs to the subscription it will be recorded
  as (`BindingInv`), and that during a flush the first `next - 1` subscriptions
  are bound (`FlushInv`). Without the last two, `SubmissionOrder` and
  `EverySubscriptionBound` are not inductive: a state with a wrong `binding`
  satisfies them and its successor does not. There is one lemma per action.
  From it follow `TypesAgree`, `SubscriptionsBound`, `EntitiesOwned`
  and `CommitmentsKept`.
* `ServiceProofs!NothingRemains`: what `deactivate` leaves. `EmptyInv` does not give it: between
  the two halves of `deactivate` the library has to be stopped already, and without a participant
  there must be no `Publisher`, those that a second `activate` overwrote included (`StoppedInv`).
  The factory and `TheServiceParticipant` are gone only when a `pre_activate` had succeeded,
  which is finding 1.
* `ServiceProofs!ServiceImplementsContract`: the refinement. In a state of `ServiceInv` the
  callbacks bound are an initial segment of the accepted subscriptions (from
  `SubmissionOrder`), so that the contract's count of them is their cardinality and installing a
  callback is either the contract's next binding or, after a retry, a binding of the oldest again,
  which the contract does not see. Each action is then a step of the contract or a stutter; a
  failed call is a stutter, or the commitment of its topic.
* `DeliveryProofs`: `DeliveryInv` is `ServiceInv` with what concerns the listener threads.
  `CallbacksOwned` (no callback after its binding was released) needs that a recorded
  binding is one of an existing reader and has its callback (`BoundReaders`): readers go only in
  `shutdown`, which waits for listeners, and bindings only after it. `FacadeUnderCallbacks`: the
  facade's invariants survive callbacks that publish on the transport's threads in the middle of the
  application's calls. `DropsOnlyInTheWindow` and `RepliesLostForAReason` are action properties; the
  latter needs `RegistrationsSucceed` (only a DDS call that failed leaves a type marked and not
  registered), or a reply could fail without a reason. `ConcurrentFacadeImplements` extends
  `ServiceImplementsContract` to the listener threads: what they do between callbacks is a stutter
  of the contract, and a callback's publish is one of its steps at any point of the application's
  calls up to the release. The number of threads is any.
* `DeliveryProofs!NothingStranded`: `NoSampleStranded`, the safety half of `SamplesTaken`: unless
  a callback has thrown, samples wait in a reader only while a notification is due or a listener is
  still taking from that reader.
  The property and the type of its counter are inductive over `DeliveryInv`, by one lemma for each
  way a sample moves: the application's call (which drains a reader before it goes), an arrival
  (which starts the listener if none runs), and the listener's own steps (which ends only on an
  empty reader).
* `PublishRaceProofs`: the invariants of the run `Publish`, for any finite set of
  threads and any publications. `WriterInv` adds to `WritersOfRecordedType` what a call
  relies on at its step (`CallOK`: before `create_writer` the table has the call's own
  type; a writer that waits to be cached is the call's own; what is written through is
  cached) and that every writer is for something some thread publishes (`FromJobs`): `WritersTyped`,
  `CacheWritten` and `AgreedTypesWritten` follow. `OneWriter` needs `SoleInv`: while the one
  thread that publishes a topic is between the cache miss and `create_writer` the topic has no
  bound writer, and without a cache entry the only bound one is that it is about to insert; a
  call that throws on the way leaves no bound writer (`OrphanWriter`).
  `ThrowsOnlyInConflict` needs `ConflictInv`: a type that is marked and unknown to the
  participant is being registered by some thread or failed to be (`HalfRegistered`), a topic that
  is in `topics_` and has no recorded type is being recorded (`HalfWritten`), and what the
  tables say comes from jobs (`FromThreads`).
* `PublishRaceProofs!PublishImplementsContract`: on the topics whose type the threads agree on,
  racing threads keep the promises of `ServiceContract`. The insert into `topic_types_` is the
  contract's commitment of a topic, `create_writer` its new endpoint, and every other step a
  stutter. It needs `TypedOK` (a call past `remember_topic_type` finds its topic typed) and, from
  `ConflictInv`, that the types in the tables come from jobs, which leaves an agreed topic one type. Where
  two types are used nothing is promised: that is finding 5.
* `ChannelProofs`: what every operation of a channel preserves, for any profiles.
  `InOrder`: history, owed, received and taken samples are each in the order of the writes, a
  reader's taken ones come before the received ones and these before the owed ones, and without
  durability all of them came after the match. Letting go of the oldest sample of a key keeps
  the order because any removal does (`Removed`), and the position removed exists because a
  non-empty set of positions has a least (`Smallest`, by the well-foundedness of `<`).
  `Complete`: between reliable `KEEP_ALL` endpoints the history is all that was written, what is
  owed to a matched reader is in the history (`Kept`, so a reliable pair cannot lose it), and owed,
  received, taken and let-go samples are together those from the first due (1 when durable, else
  the first after the match) to the last written. It is not inductive without `Kept`.
  `ReaderCurrent`, between reliable endpoints of any history depth: the newest sample of each key that a
  matched reader is due is owed, received, taken or (what no listener was there for) missed. It is
  inductive because what is owed is still in the history down to the oldest held there of its key, and a
  full history, or a full cache, lets go only of the oldest of a key that has a newer one
  (`RememberNewest`, `KeptTail`).
* `TopicChannelProofs`, for any number of readers, publishes and scenarios: `DeliversInOrderOnce` and
  `ReplaysNothing` from `InOrder`; `ReliableKeepAllDelivers` from `Complete` and from the count of
  publishes reported as `Ok` being that of the samples written; `ChannelTypes`. `NewestReaches`
  (`CurrentKept`, the safety half of `LateJoinerCurrent`) from `ReaderCurrent` and from what the
  history holds of each key (`HistoryCurrent`).
* `TopicChannelProofs!NeverLosesWakeup`: `WaitInv` adds that a
  sleeping wait is for one subscriber at least. The argument is that the set of
  matched readers grows only in `MatchReader`, which sets the flag the wait is woken by, and
  that `WaitCheck` clears the flag in the step in which it counts.
* `StartupProofs`, for files of any length and any number of processes: `StartupInv` says what
  the parser knows after `n` lines as a function of those lines (`ReadSoFar`, `ArgsSoFar`: the last line
  of a key wins, and the `k`th argument is that of the `k`th line that gives one), that the command line
  comes after the file's arguments (`ArgsOK`), and what each later stage has found out (`ConfigOK`,
  `StartedOK`). Reading a line is the induction step, so no induction over files is needed.
  `StartsOnGoodConfig`, `StartsAsConfigured` and `StartupTypes` follow. `SameReferenceTalks`
  needs the hypothesis `XmlPartsMatch`, that the writer's and the reader's part of each profile of an
  XML file match each other, because the code takes any file; TLC evaluates it for the demo's file
  (`PartsAssumption` of `MCStartup`). `MirrorsBuiltin` derives `XmlMirrorsBuiltin`
  from `XmlStatesMirrors`, that each XML profile which mirrors a built-in one states that
  one's reliability, durability and history and nothing else: overriding the defaults with
  what is stated is then what `apply_writer_qos` and `apply_reader_qos` do. That too is about the
  contents of a file, and TLC evaluates it in `PartsAssumption`.
* `RadarProofs`: `RadarInv` is the inductive invariant of the demo, for any views, keys, periods and
  number of cycles. `BaseInv` has `InOrder` of every channel with the profiles of its topic,
  what a thread may have yet to publish, and that a subscription still to be opened has
  no reader (`OpenedOK`: a reader is opened once, and a process is not activated before all are).
  `CommandsOK`: a command's key is its number in the channel, because the workstation's
  counter is one ahead of the channel exactly while a command waits to be written. `AuditOK` is `Complete`
  for the audit log with `missed` as what was let go of. `AcksOK`: the acknowledgements in the channel
  are of different commands, each seen by the sensor's callback, and the one in progress is of
  a command seen and not acknowledged yet; the callback meets a new command each time since its cache
  comes after what it has taken. With a set of samples as a parameter of `InOrder` this says so
  of all places a sample can be at once. `NothingOld`, `AuditKeeps` and `AcknowledgedOnce` follow.
  `TopicSteps` maps each step of the system to an operation of one topic's channel, so that the
  lemmas of `ChannelProofs` do the work here as they do for `TopicChannel`. `NeverOutdated`
  (`CurrentKnown`, the safety half of `LateWorkstationInformed`) has `ReaderCurrent` of every reliable
  topic in the invariant (`CurrentOK`): no key's newest sample is lost on the way to a matched process,
  so what it knows once all is taken is the newest there is.

Some proved properties are checked by no run of their own: `EntityTypesAgree` and `TransportUp`
(`RuntimeCorrect`, `EntitiesOwned`), `Committed` (`CommitmentsKept`, which the refinement checked by
TLC implies) and `TopicChannelTypeOK` (`ChannelTypes`).

Only model-checked: liveness (`DeactivateReturns`, `SamplesTaken`, `WaitReturns`,
`LateJoinerCurrent`, `AcksArrive`, `LateWorkstationInformed`, `StopsCleanly`), which is beyond
the prover, though its safety halves are proved where there is one (`NoSampleStranded`,
`CurrentKept`, `CurrentKnown`); and `DemoMeets`, which is about the contents of the demo's files, so that
TLC's instance is all there is to check.

## Not modelled

* The adapter registry: it is filled by static initialisers before `main`, under a
  lock, the first registration wins, and nothing is registered later. `Service` sees it as the
  constant `Adapted`.
* Several services in one process. They would share `TheServiceParticipant`, and the
  shutdown of one would stop the transport of another; every program of the repository has one.
* Two threads in `wait_for_subscribers` of one writer, and callbacks that subscribe or deactivate:
  nothing in the repository does it.
* IDL payloads, code generation, build and packaging: no behaviour at run time.
* The contents of diagnostics; the tests, which were read for the behaviour they intend.

## Plan

Done, the most important behaviour first: `OpenDddsRuntime`, `Service` with its contract,
`Delivery`, `PublishRace`, the configuration, the channel of one topic, the demo over ten of
them, and the theorems above, which cover the safety properties and the refinement. Next:

1. Proofs: that each demo process uses a `Service` as the module `Service` allows (its calls are
   steps of `RadarSystem`), and a refinement from `PublishRace` to `Service` itself, beyond the contract.
2. Several services in one process and `TheServiceParticipant`.
