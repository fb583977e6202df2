------------------------------ MODULE Service ------------------------------
(***************************************************************************)
(* The facade: class Service (pub_sub_open_dds/src/service.cpp and         *)
(* include/pub_sub_open_dds/service.h) driving one OpenDddsRuntime.        *)
(*                                                                         *)
(* One thread calls the public methods, as both applications of the        *)
(* repository do.  A call of another method than publish that is rejected  *)
(* at once leaves every variable alone: a stuttering step.  post_activate, *)
(* a subscribe after it and deactivate are split at the points where the   *)
(* transport is already live and other threads run: module Delivery puts   *)
(* the listener threads between those points.                              *)
(***************************************************************************)
EXTENDS OpenDddsRuntime

CONSTANTS
  Configs,    \* the TopicConfig values an application may pass
  NoConfig,   \* topic_config_ is null
  Declares,   \* for each TopicConfig, the topics that have a binding
  Adapted,    \* the types whose generated adapter is linked in
  MaxSubs     \* bound on accepted subscriptions

ASSUME ConfigsAssumption ==
  NoConfig \notin Configs /\ Declares \in [Configs -> SUBSET Topics]
ASSUME AdaptedAssumption == Adapted \subseteq Types
ASSUME MaxSubsAssumption == MaxSubs \in Nat

VARIABLES
  state,               \* state_
  topicConfig,         \* topic_config_
  pending,             \* pending_: the captures of each staged thunk
  subscriberBindings,  \* subscriber_bindings_, as the readers they bind
  publisherCache,      \* publisher_cache_: topic to writer, 0 when absent
  topicTypes,          \* topic_types_
  \* Where the application thread is inside a call:
  pc,                  \* the call in progress
  next,                \* the thunk activate() is about to run
  binding,             \* the local reader binding, before it is stored
  \* History, for the properties only:
  subs,                \* the subscriptions accepted, in order
  supplied             \* the TopicConfig given to the pre_activate that succeeded

stateVars   == <<state, topicConfig, pending, subscriberBindings,
                 publisherCache, topicTypes>>
controlVars == <<pc, next, binding>>
historyVars == <<subs, supplied>>
serviceVars == <<stateVars, controlVars, historyVars>>
vars == <<runtimeVars, serviceVars>>

LifecycleState ==
  {"Created", "PreActivated", "Activated", "PostActivated", "Deactivated"}

NoBinding == [reader |-> 0, call |-> 0]
EmptyCache == [t \in Topics |-> 0]

Init ==
  /\ RuntimeInit
  /\ state = "Created" /\ topicConfig = NoConfig
  /\ pending = <<>> /\ subscriberBindings = {}
  /\ publisherCache = EmptyCache /\ topicTypes = NoTopics
  /\ pc = "idle" /\ next = 1 /\ binding = NoBinding
  /\ subs = <<>> /\ supplied = NoConfig

-----------------------------------------------------------------------------
(* pre_activate, with a TopicConfig or (c = NoConfig) without: the two     *)
(* argument form stores the TopicConfig before the runtime is initialised, *)
(* the one argument form leaves topic_config_ as it is.                    *)

PreActivate(c) ==
  /\ pc = "idle" /\ state = "Created"
  /\ topicConfig' = IF c = NoConfig THEN topicConfig ELSE c
  /\ \/ InitRuntime /\ state' = "PreActivated" /\ supplied' = c
     \/ InitRuntimeThrows /\ UNCHANGED <<state, supplied>>
  /\ UNCHANGED <<pending, subscriberBindings, publisherCache, topicTypes,
                 controlVars, subs>>

-----------------------------------------------------------------------------
(* The checks subscribe_erased and publish_erased make first.              *)

RequireDeclaredTopic(t) == topicConfig # NoConfig => t \in Declares[topicConfig]

\* Mutant: the type given last replaces the one on record.
RememberTopicTypeUnchecked(t, ty) ==
  topicTypes' = [topicTypes EXCEPT ![t] = ty]

RememberTopicType(t, ty) ==
  /\ topicTypes[t] \in {NoType, ty}
  /\ topicTypes' = [topicTypes EXCEPT ![t] = ty]

SubscribeChecks(t, ty) ==
  /\ pc = "idle" /\ state \notin {"Created", "Deactivated"}
  /\ Len(subs) < MaxSubs
  /\ RequireDeclaredTopic(t) /\ RememberTopicType(t, ty)

\* No adapter: subscribe throws after the type was remembered.
SubscribeUnadapted(t, ty) ==
  /\ SubscribeChecks(t, ty) /\ ty \notin Adapted
  /\ UNCHANGED <<runtimeVars, state, topicConfig, pending, subscriberBindings,
                 publisherCache, controlVars, historyVars>>

\* Mutant: a subscription is staged without looking for an adapter.
SubscribeStagedUnadapted(t, ty) ==
  /\ SubscribeChecks(t, ty)
  /\ state = "PreActivated"
  /\ pending' = Append(pending, [topic |-> t, type |-> ty, call |-> Len(subs) + 1])
  /\ subs' = Append(subs, [topic |-> t, type |-> ty])
  /\ UNCHANGED <<runtimeVars, state, topicConfig, subscriberBindings,
                 publisherCache, controlVars, supplied>>

\* Before post_activate the registration is staged.
SubscribeStaged(t, ty) ==
  /\ SubscribeChecks(t, ty) /\ ty \in Adapted
  /\ state = "PreActivated"
  /\ pending' = Append(pending, [topic |-> t, type |-> ty, call |-> Len(subs) + 1])
  /\ subs' = Append(subs, [topic |-> t, type |-> ty])
  /\ UNCHANGED <<runtimeVars, state, topicConfig, subscriberBindings,
                 publisherCache, controlVars, supplied>>

\* Afterwards the reader is created at once ...
SubscribeCreate(t, ty) ==
  /\ SubscribeChecks(t, ty) /\ ty \in Adapted
  /\ state # "PreActivated"
  /\ CreateReader(t, ty)
  /\ pc' = "subscribe"
  /\ binding' = [reader |-> Len(readers) + 1, call |-> Len(subs) + 1]
  /\ UNCHANGED <<state, topicConfig, pending, subscriberBindings,
                 publisherCache, next, historyVars>>

SubscribeThrows(t, ty) ==
  /\ SubscribeChecks(t, ty) /\ ty \in Adapted
  /\ state # "PreActivated"
  /\ CreateReaderThrows(t, ty)
  /\ UNCHANGED <<state, topicConfig, pending, subscriberBindings,
                 publisherCache, controlVars, historyVars>>

\* Mutant: the binding is stored but set_on_sample is not called.
InstallBindingForgetsCallback ==
  /\ binding # NoBinding
  /\ subscriberBindings' = subscriberBindings \union {binding.reader}
  /\ binding' = NoBinding
  /\ UNCHANGED <<runtimeVars, state, topicConfig, pending, publisherCache,
                 topicTypes, supplied>>

\* ... and its callback installed: set_on_sample, then push_back, by this
\* thread or by a staged thunk.
InstallBinding ==
  /\ binding # NoBinding
  /\ SetOnSample(binding.reader, binding.call)
  /\ subscriberBindings' = subscriberBindings \union {binding.reader}
  /\ binding' = NoBinding
  /\ UNCHANGED <<handleVars, tableVars, serviceParticipant, publishers, writers,
                 state, topicConfig, pending, publisherCache, topicTypes, supplied>>

SubscribeInstall ==
  /\ pc = "subscribe" /\ InstallBinding
  /\ pc' = "idle"
  /\ LET r == readers[binding.reader]
     IN subs' = Append(subs, [topic |-> r.topic, type |-> r.type])
  /\ UNCHANGED next

-----------------------------------------------------------------------------
(* post_activate: bring the transport up, then run the staged thunks in    *)
(* order.  An exception leaves the loop and the call with state_ and       *)
(* pending_ unchanged; the readers made so far stay.                       *)

PostActivateBegin ==
  /\ pc = "idle" /\ state = "PreActivated"
  /\ ActivateRuntime
  /\ pc' = "flush" /\ next' = 1
  /\ UNCHANGED <<stateVars, binding, historyVars>>

PostActivateThrows ==
  /\ pc = "idle" /\ state = "PreActivated"
  /\ ActivateRuntimeThrows
  /\ UNCHANGED serviceVars

Flushing == pc = "flush" /\ binding = NoBinding

\* Mutant: the thunk captures the loop's callback by reference.
FlushCreateLastCallback ==
  /\ Flushing /\ next <= Len(pending)
  /\ CreateReader(pending[next].topic, pending[next].type)
  /\ binding' = [reader |-> Len(readers) + 1, call |-> pending[Len(pending)].call]
  /\ UNCHANGED <<stateVars, pc, next, historyVars>>

FlushCreate ==
  /\ Flushing /\ next <= Len(pending)
  /\ CreateReader(pending[next].topic, pending[next].type)
  /\ binding' = [reader |-> Len(readers) + 1, call |-> pending[next].call]
  /\ UNCHANGED <<stateVars, pc, next, historyVars>>

\* Mutant: the flush goes on after a thunk that throws.
FlushThrowsGoesOn ==
  /\ Flushing /\ next <= Len(pending)
  /\ CreateReaderThrows(pending[next].topic, pending[next].type)
  /\ next' = next + 1
  /\ UNCHANGED <<stateVars, pc, binding, historyVars>>

FlushThrows ==
  /\ Flushing /\ next <= Len(pending)
  /\ CreateReaderThrows(pending[next].topic, pending[next].type)
  /\ pc' = "idle" /\ next' = 1
  /\ UNCHANGED <<stateVars, binding, historyVars>>

FlushInstall ==
  /\ pc = "flush" /\ InstallBinding
  /\ next' = next + 1
  /\ UNCHANGED <<pc, subs>>

FlushDone ==
  /\ Flushing /\ next > Len(pending)
  /\ pending' = <<>> /\ state' = "Activated"
  /\ pc' = "flushed" /\ next' = 1
  /\ UNCHANGED <<runtimeVars, topicConfig, subscriberBindings, publisherCache,
                 topicTypes, binding, historyVars>>

PostActivateEnd ==
  /\ pc = "flushed" /\ state = "Activated"
  /\ state' = "PostActivated" /\ pc' = "idle"
  /\ UNCHANGED <<runtimeVars, topicConfig, pending, subscriberBindings,
                 publisherCache, topicTypes, next, binding, historyVars>>

-----------------------------------------------------------------------------
(* publish: a writer is made on the first publish to a topic and kept; a   *)
(* later publish on the topic only writes.  A listener callback may call   *)
(* it at any time, so it does not look at pc.                              *)

PublishChecks(t, ty) ==
  /\ state = "PostActivated"
  /\ RequireDeclaredTopic(t) /\ RememberTopicType(t, ty)

PublishCached(t, ty) ==
  /\ PublishChecks(t, ty) /\ publisherCache[t] # 0
  /\ UNCHANGED <<runtimeVars, publisherCache>>

PublishFirst(t, ty) ==
  /\ PublishChecks(t, ty) /\ publisherCache[t] = 0 /\ ty \in Adapted
  /\ CreateWriter(t, ty)
  /\ publisherCache' = [publisherCache EXCEPT ![t] = Len(writers) + 1]

\* Without an adapter, or when the writer can not be made, publish throws
\* after the type was remembered.
PublishThrows(t, ty) ==
  /\ PublishChecks(t, ty) /\ publisherCache[t] = 0
  /\ IF ty \in Adapted THEN CreateWriterThrows(t, ty) ELSE UNCHANGED runtimeVars
  /\ UNCHANGED publisherCache

\* Mutant: a publish during another call is refused.
PublishRejectedWhileBusy(t, ty) ==
  /\ \/ state # "PostActivated" \/ pc # "idle"
     \/ ~RequireDeclaredTopic(t)
     \/ topicTypes[t] \notin {NoType, ty}
  /\ UNCHANGED <<runtimeVars, publisherCache, topicTypes>>

\* The calls that throw before anything changes.
PublishRejected(t, ty) ==
  /\ \/ state # "PostActivated"
     \/ ~RequireDeclaredTopic(t)
     \/ topicTypes[t] \notin {NoType, ty}
  /\ UNCHANGED <<runtimeVars, publisherCache, topicTypes>>

\* What publish leaves alone.
publishFrame == <<state, topicConfig, pending, subscriberBindings,
                  controlVars, historyVars>>

\* A publish by the application thread.
Publish(t, ty) ==
  /\ pc = "idle"
  /\ \/ PublishCached(t, ty) \/ PublishFirst(t, ty)
     \/ PublishThrows(t, ty) \/ PublishRejected(t, ty)
  /\ UNCHANGED publishFrame

-----------------------------------------------------------------------------
(* deactivate, which the destructor calls too.                             *)

\* Mutant: no shutdown when the service was never activated.
DeactivateUnusedTooOften ==
  /\ pc = "idle" /\ state \in {"Created", "PreActivated"}
  /\ state' = "Deactivated"
  /\ UNCHANGED <<runtimeVars, topicConfig, pending, subscriberBindings,
                 publisherCache, topicTypes, controlVars, historyVars>>

\* No shutdown when the service never left Created.
DeactivateUnused ==
  /\ pc = "idle" /\ state = "Created"
  /\ state' = "Deactivated"
  /\ UNCHANGED <<runtimeVars, topicConfig, pending, subscriberBindings,
                 publisherCache, topicTypes, controlVars, historyVars>>

\* Mutant: the bindings are released before the runtime is shut down.
DeactivateBeginReleasesFirst ==
  /\ pc = "idle" /\ state \notin {"Created", "Deactivated"}
  /\ pc' = "shutdown" /\ subscriberBindings' = {}
  /\ UNCHANGED <<runtimeVars, state, topicConfig, pending, publisherCache,
                 topicTypes, next, binding, historyVars>>

DeactivateBegin ==
  /\ pc = "idle" /\ state \notin {"Created", "Deactivated"}
  /\ pc' = "shutdown"
  /\ UNCHANGED <<runtimeVars, stateVars, next, binding, historyVars>>

\* runtime_->shutdown() returns: the DDS entities are gone ...
ShutdownReturns ==
  /\ pc = "shutdown"
  /\ ShutdownRuntime
  /\ pc' = "release"
  /\ UNCHANGED <<stateVars, next, binding, historyVars>>

\* Mutant: topic_types_ is not cleared.
ReleaseBindingsKeepsTypes ==
  /\ pc = "release"
  /\ subscriberBindings' = {} /\ pending' = <<>>
  /\ publisherCache' = EmptyCache /\ topicConfig' = NoConfig
  /\ state' = "Deactivated" /\ pc' = "idle"
  /\ UNCHANGED <<runtimeVars, topicTypes, next, binding, historyVars>>

\* ... and only then are the bindings and the tables released.
ReleaseBindings ==
  /\ pc = "release"
  /\ subscriberBindings' = {} /\ pending' = <<>>
  /\ publisherCache' = EmptyCache /\ topicTypes' = NoTopics
  /\ topicConfig' = NoConfig
  /\ state' = "Deactivated" /\ pc' = "idle"
  /\ UNCHANGED <<runtimeVars, next, binding, historyVars>>

Next ==
  \/ \E c \in Configs \union {NoConfig} : PreActivate(c)
  \/ \E t \in Topics, ty \in Types :
       \/ SubscribeUnadapted(t, ty) \/ SubscribeStaged(t, ty)
       \/ SubscribeCreate(t, ty)    \/ SubscribeThrows(t, ty)
       \/ Publish(t, ty)
  \/ SubscribeInstall
  \/ PostActivateBegin \/ PostActivateThrows
  \/ FlushCreate \/ FlushThrows \/ FlushInstall \/ FlushDone
  \/ PostActivateEnd
  \/ DeactivateUnused \/ DeactivateBegin \/ ShutdownReturns
  \/ ReleaseBindings

Spec == Init /\ [][Next]_vars

-----------------------------------------------------------------------------
Registration == [topic : Topics, type : Adapted, call : Nat]

TypeOK ==
  /\ RuntimeTypeOK
  /\ state \in LifecycleState
  /\ topicConfig \in Configs \union {NoConfig}
  /\ pending \in Seq(Registration)
  /\ subscriberBindings \subseteq Nat
  /\ publisherCache \in [Topics -> Nat]
  /\ topicTypes \in [Topics -> Types \union {NoType}]
  /\ pc \in {"idle", "subscribe", "flush", "flushed", "shutdown", "release"}
  /\ next \in Nat \ {0}
  /\ binding \in [reader : Nat, call : Nat]
  /\ subs \in Seq([topic : Topics, type : Adapted])
  /\ supplied \in Configs \union {NoConfig}

\* The callbacks installed in some live DataReader.
BoundCalls == {readers[i].onSample : i \in DOMAIN readers} \ {0}

\* Topic and type never disagree, across every path of the facade: the type
\* the service remembers for a topic (remember_topic_type) is the type of each
\* reader and writer on it, of each staged registration and of the runtime's
\* own topic table, also after calls that failed half way.
TopicTypeAgreement ==
  /\ \A i \in DOMAIN readers : topicTypes[readers[i].topic] = readers[i].type
  /\ \A i \in DOMAIN writers : topicTypes[writers[i].topic] = writers[i].type
  /\ \A i \in DOMAIN pending : topicTypes[pending[i].topic] = pending[i].type
  /\ \A t \in Topics : topics[t] \in {NoType, topicTypes[t]}

\* A callback is installed in a reader of the topic and type it was
\* subscribed with.  subscribe<T> casts the sample to T unchecked, so a
\* mismatch would be undefined behaviour.
CallbackTypeMatches ==
  \A i \in DOMAIN readers :
    LET k == readers[i].onSample
    IN k # 0 => /\ k \in DOMAIN subs
                /\ subs[k].topic = readers[i].topic
                /\ subs[k].type = readers[i].type

\* The staged registrations are realised in submission order, whatever fails
\* and is tried again in between: the callbacks bound are always the oldest.
SubmissionOrder ==
  \A k \in BoundCalls : \A j \in 1 .. k : j \in BoundCalls

\* Once post_activate has returned, every subscription ever accepted, staged
\* or direct, has a live reader that calls it, until shutdown.
EverySubscriptionBound ==
  state \in {"Activated", "PostActivated"} /\ pc # "release" =>
    DOMAIN subs \subseteq BoundCalls

\* A reader whose callback may run is owned by the service: its binding is in
\* subscriber_bindings_ until the runtime has deleted the reader ("Reader
\* bindings must outlive in-flight callbacks").  Between set_on_sample and
\* push_back, one step here, the local shared_ptr owns it.
BindingsOutliveReaders ==
  \A i \in DOMAIN readers :
    readers[i].onSample # 0 => i \in subscriberBindings

\* Whoever relies on the transport has it: a service that is up, and each
\* thunk activate() runs, finds the publisher and the subscriber, and each
\* cached writer is a live writer of its topic.
TransportUp ==
  /\ (state \in {"Activated", "PostActivated"} /\ pc # "release") \/ pc = "flush"
       => participant /\ publisher # 0 /\ subscriber # 0
  /\ pc # "release" =>
       \A t \in Topics : publisherCache[t] # 0 =>
         /\ publisherCache[t] \in DOMAIN writers
         /\ writers[publisherCache[t]].topic = t

\* No handle, table entry or entity: no participant, no Publisher or Subscriber
\* (those a second activate overwrote included), no reader, writer, topic or
\* registered type, no binding, no staged registration and no cached writer.
NothingHeld ==
  /\ ~participant /\ publisher = 0 /\ subscriber = 0 /\ publishers = 0
  /\ readers = <<>> /\ writers = <<>>
  /\ topics = NoTopics /\ registeredTypes = {} /\ ddsTypes = {}
  /\ subscriberBindings = {} /\ pending = <<>>
  /\ publisherCache = EmptyCache

\* deactivate leaves nothing behind, whatever failed before: no handle, table
\* entry or entity ever, and, when a pre_activate succeeded, neither the factory
\* nor TheServiceParticipant nor the topic policy.  (When every pre_activate
\* failed, deactivate returns early and the last three may stay:
\* NoRuntimeOutlivesService, below.)
LeavesNothing ==
  state' = "Deactivated" =>
    /\ NothingHeld'
    /\ state \notin {"Created", "Deactivated"} =>
         /\ ~factory' /\ ~serviceParticipant'
         /\ topicConfig' = NoConfig /\ topicTypes' = NoTopics
NothingLeftBehind == [][LeavesNothing]_vars

\* An accepted subscription is not forgotten and does not change topic, type
\* or place, and a topic keeps its type until deactivate, whatever is called and
\* whatever fails (remember_topic_type, deactivate).
CommittedStep ==
  /\ SubSeq(subs', 1, Len(subs)) = subs
  /\ \A t \in Topics : topicTypes[t] # NoType =>
       topicTypes'[t] = topicTypes[t] \/ state' = "Deactivated"
Committed == [][CommittedStep]_vars

-----------------------------------------------------------------------------
(* What the repository's text says of the program, refuted by a run each.  *)

\* service.cpp: "Never let runtime resources outlive the Service."  But a
\* failed pre_activate leaves the service in Created with the factory
\* acquired, and deactivate returns early from Created.
NoRuntimeOutlivesService ==
  state = "Deactivated" => ~serviceParticipant

\* service.h: a subscription "is staged and bound when post_activate performs
\* the hidden activation step".  When post_activate fails half way and is
\* called again the thunks run again and the callback has two readers.
BoundOnce ==
  \A i, j \in DOMAIN readers :
    readers[i].onSample = readers[j].onSample /\ readers[i].onSample # 0 => i = j

\* service.h: "Topic policy comes from TopicConfig passed to pre_activate."
\* The policy of a pre_activate that failed governs the one that succeeded
\* without a TopicConfig.
PolicyIsTheOneSupplied ==
  state \in {"PreActivated", "Activated", "PostActivated"} =>
    topicConfig = supplied
=============================================================================
