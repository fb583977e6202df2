--------------------------- MODULE DeliveryProofs ---------------------------
(***************************************************************************)
(* Proofs about Delivery, for any number of listener threads, every choice *)
(* of failing DDS calls, every Reply and every bound.                      *)
(***************************************************************************)
EXTENDS Delivery, ServiceProofs

(***************************************************************************)
(* The inductive invariant.  The facade keeps its own (ServiceProofs) also *)
(* when callbacks publish from other threads; to it comes what ties a      *)
(* running listener to the reader and the binding it uses.                 *)
(***************************************************************************)

Places == {"idle", "take", "deliver", "callback"}

DeliveryTypeOK ==
  /\ inbox \in [DOMAIN readers -> [samples : Nat, notified : BOOLEAN]]
  /\ handler \in [Threads -> [at : Places, reader : Nat, call : Nat]]

IdleInv == \A th \in Threads : handler[th].at = "idle" => handler[th] = Idle

\* What is in subscriber_bindings_ is the binding of a reader that exists and
\* that has its callback, until deactivate has deleted the readers.
BoundReaders ==
  pc # "release" => \A r \in subscriberBindings :
    r \in DOMAIN readers /\ readers[r].onSample # 0

\* Only a DDS call that failed leaves a type marked but not registered.
RegistrationsSucceed == Faults = {} => registeredTypes \subseteq ddsTypes

DeliveryInv ==
  /\ ServiceInv /\ DeliveryTypeOK /\ IdleInv
  /\ NoCallbackAfterRelease /\ BoundReaders /\ RegistrationsSucceed

-----------------------------------------------------------------------------
(* What a step of the application thread does to the readers.              *)

\* Readers go only with runtime_->shutdown, bindings only after it, and a
\* binding that is recorded has its callback.
LEMMA AppBindings ==
  ASSUME ServiceInv, BoundReaders, Next
  PROVE  /\ pc # "shutdown" => DOMAIN readers \subseteq DOMAIN readers'
         /\ pc # "release" => subscriberBindings \subseteq subscriberBindings'
         /\ BoundReaders'
<1> USE DEF ServiceInv
<1>1. RuntimeTypeOK
  BY DEF RuntimeInv
<1>2. CASE \E t \in Topics, ty \in Types : ReaderStep(t, ty) /\ pc # "release"
                                            /\ UNCHANGED subscriberBindings
  <2>1. \A i \in DOMAIN readers : i \in DOMAIN readers' /\ readers'[i] = readers[i]
    BY <1>1, <1>2, ReaderStepEffect, AppendReader
  <2>2. QED BY <1>2, <2>1 DEF BoundReaders
<1>3. CASE InstallBinding /\ (FlushInstall \/ SubscribeInstall)
  <2>1. /\ binding # NoBinding /\ binding.reader \in DOMAIN readers
        /\ binding.call # 0 /\ pc # "release"
    BY <1>3 DEF InstallBinding, BindingInv, FlushInstall, SubscribeInstall, TypeOK
  <2>2. /\ DOMAIN readers' = DOMAIN readers
        /\ \A i \in DOMAIN readers : readers'[i].onSample =
             IF i = binding.reader THEN binding.call ELSE readers[i].onSample
    BY <1>3, CallbackInstalled
  <2>3. subscriberBindings' = subscriberBindings \union {binding.reader}
    BY <1>3 DEF InstallBinding
  <2>4. QED BY <2>1, <2>2, <2>3 DEF BoundReaders
<1>4. CASE UNCHANGED <<readers, subscriberBindings>> /\ (pc = "release" => pc' = "release")
  BY <1>4 DEF BoundReaders
<1>5. CASE ShutdownReturns
  BY <1>5 DEF ShutdownReturns, BoundReaders, stateVars
<1>6. CASE ReleaseBindings
  BY <1>6 DEF ReleaseBindings, BoundReaders, runtimeVars, entityVars
<1>7. CASE \E t \in Topics, ty \in Types : SubscribeCreate(t, ty) \/ SubscribeThrows(t, ty)
  BY <1>2, <1>7 DEF SubscribeCreate, SubscribeThrows, SubscribeChecks, ReaderStep
<1>8. CASE FlushCreate \/ FlushThrows
  <2>1. /\ next \in DOMAIN pending /\ pc # "release"
        /\ pending[next].topic \in Topics /\ pending[next].type \in Types
    BY <1>8, PendingFields DEF FlushCreate, FlushThrows, Flushing, TypeOK
  <2>2. QED BY <1>2, <1>8, <2>1 DEF FlushCreate, FlushThrows, ReaderStep, stateVars
<1>9. CASE \E t \in Topics, ty \in Types : Publish(t, ty)
  BY <1>4, <1>9 DEF Publish, PublishCached, PublishFirst, PublishThrows,
     PublishRejected, CreateWriter, CreateWriterThrows, publishFrame, controlVars,
     runtimeVars, entityVars
<1>10. CASE \E c \in Configs \union {NoConfig} : PreActivate(c)
  BY <1>4, <1>10 DEF PreActivate, InitRuntime, InitRuntimeThrows, entityVars, controlVars
<1>11. CASE PostActivateBegin \/ PostActivateThrows
  BY <1>4, <1>11 DEF PostActivateBegin, PostActivateThrows, ActivateRuntime,
     ActivateRuntimeThrows, stateVars, serviceVars, controlVars
<1>12. CASE \E t \in Topics, ty \in Types : SubscribeUnadapted(t, ty) \/ SubscribeStaged(t, ty)
  BY <1>4, <1>12 DEF SubscribeUnadapted, SubscribeStaged, runtimeVars, entityVars,
     controlVars
<1>13. CASE FlushDone \/ PostActivateEnd \/ DeactivateUnused \/ DeactivateBegin
  BY <1>4, <1>13 DEF FlushDone, PostActivateEnd, DeactivateUnused, DeactivateBegin,
     Flushing, runtimeVars, entityVars, controlVars, stateVars
<1>14. QED BY <1>3, <1>5, <1>6, <1>7, <1>8, <1>9, <1>10, <1>11, <1>12, <1>13
     DEF Next, FlushInstall, SubscribeInstall

\* register_type_once marks a type that it does not register only when DDS
\* refuses.
LEMMA TopicRegistrations ==
  ASSUME RegistrationsSucceed, NEW t, NEW ty,
         TopicReady(t, ty) \/ TopicThrows(t, ty)
  PROVE  RegistrationsSucceed'
  BY DEF RegistrationsSucceed, TopicReady, TopicThrows, RegisterTypeOnce,
     RegisterTypeOnceThrows

\* No step of the facade does otherwise.
LEMMA AppRegistrations ==
  ASSUME RegistrationsSucceed, Next
  PROVE  RegistrationsSucceed'
<1>1. CASE UNCHANGED tableVars
  BY <1>1 DEF RegistrationsSucceed, tableVars
<1>2. CASE \E t, ty : TopicReady(t, ty) \/ TopicThrows(t, ty)
  BY <1>2, TopicRegistrations
<1>3. CASE ShutdownReturns
  BY <1>3 DEF ShutdownReturns, ShutdownRuntime, RegistrationsSucceed
<1>4. CASE \E t, ty : \/ CreateReader(t, ty) \/ CreateReaderThrows(t, ty)
                      \/ CreateWriter(t, ty) \/ CreateWriterThrows(t, ty)
  BY <1>1, <1>2, <1>4 DEF CreateReader, CreateReaderThrows, CreateWriter, CreateWriterThrows
<1>5. CASE \E t \in Topics, ty \in Types : Publish(t, ty)
  BY <1>1, <1>4, <1>5 DEF Publish, PublishCached, PublishFirst, PublishThrows,
     PublishRejected, runtimeVars
<1>6. CASE \E t \in Topics, ty \in Types :
             \/ SubscribeUnadapted(t, ty) \/ SubscribeStaged(t, ty)
             \/ SubscribeCreate(t, ty)    \/ SubscribeThrows(t, ty)
  BY <1>1, <1>4, <1>6 DEF SubscribeUnadapted, SubscribeStaged, SubscribeCreate,
     SubscribeThrows, runtimeVars
<1>7. QED BY <1>1, <1>3, <1>4, <1>5, <1>6 DEF Next, PreActivate, InitRuntime,
     InitRuntimeThrows, SubscribeInstall, InstallBinding, PostActivateBegin,
     PostActivateThrows, ActivateRuntime, ActivateRuntimeThrows, FlushCreate,
     FlushThrows, FlushInstall, FlushDone, PostActivateEnd, DeactivateUnused,
     DeactivateBegin, ReleaseBindings, runtimeVars

-----------------------------------------------------------------------------
(* Each kind of step keeps the invariant.                                  *)

\* The transport starts without readers.
LEMMA DeliveryInvInit == DeliveryInit => DeliveryInv
<1> SUFFICES ASSUME DeliveryInit PROVE DeliveryInv
  OBVIOUS
<1> USE DEF DeliveryInit
<1>1. ServiceInv
  BY ServiceInvInit
<1>2. DeliveryTypeOK /\ IdleInv /\ NoCallbackAfterRelease
  BY DEF DeliveryTypeOK, IdleInv, NoCallbackAfterRelease, Idle, Places, Init, RuntimeInit
<1>3. BoundReaders /\ RegistrationsSucceed
  BY DEF BoundReaders, RegistrationsSucceed, Init, RuntimeInit
<1>4. QED BY <1>1, <1>2, <1>3 DEF DeliveryInv

\* Listeners only run on readers that exist, so not between shutdown and the
\* release of the bindings.
LEMMA ListenerHasReader ==
  ASSUME DeliveryInv, NEW th \in Threads, handler[th] # Idle
  PROVE  /\ handler[th].reader \in DOMAIN readers
         /\ readers[handler[th].reader].topic \in Topics
         /\ participant /\ pc # "release"
<1>1. handler[th].reader \in DOMAIN readers
  BY DEF DeliveryInv, NoCallbackAfterRelease
<1>2. QED BY <1>1, ReaderFields DEF DeliveryInv, ServiceInv, RuntimeInv, ParticipantInv

\* A step of the application thread.
LEMMA AppStepInv ==
  ASSUME DeliveryInv, AppStep
  PROVE  DeliveryInv'
<1> USE DEF DeliveryInv, AppStep
<1>1. ServiceInv'
  BY ServiceInvStep
<1>2. BoundReaders' /\ RegistrationsSucceed'
  BY AppBindings, AppRegistrations
<1>3. DeliveryTypeOK'
  <2>1. readers' \in Seq(Reader)
    BY <1>1 DEF ServiceInv, RuntimeInv, RuntimeTypeOK
  <2>2. DOMAIN inbox = DOMAIN readers
    BY DEF DeliveryTypeOK
  <2>3. inbox' \in [DOMAIN readers' -> [samples : Nat, notified : BOOLEAN]]
    BY <2>1, <2>2 DEF DeliveryTypeOK, Empty
  <2>4. QED BY <2>3 DEF DeliveryTypeOK
<1>4. IdleInv'
  BY DEF IdleInv
<1>5. NoCallbackAfterRelease'
  <2> SUFFICES ASSUME NEW th \in Threads, handler[th] # Idle
               PROVE  /\ handler[th].reader \in DOMAIN readers'
                      /\ handler[th].at = "callback" =>
                           handler[th].reader \in subscriberBindings'
    BY DEF NoCallbackAfterRelease
  <2>1. pc # "shutdown" /\ pc # "release"
    BY ListenerHasReader DEF Quiet
  <2>2. QED BY <2>1, AppBindings DEF NoCallbackAfterRelease
<1>6. QED BY <1>1, <1>2, <1>3, <1>4, <1>5

\* A listener thread that only moves on keeps what concerns the facade.
LEMMA FacadeKept ==
  ASSUME DeliveryInv, UNCHANGED vars
  PROVE  /\ ServiceInv' /\ BoundReaders' /\ RegistrationsSucceed'
         /\ UNCHANGED <<readers, subscriberBindings, pc, binding>>
<1>1. UNCHANGED <<readers, subscriberBindings, pc, binding, registeredTypes, ddsTypes>>
  BY DEF vars, runtimeVars, entityVars, tableVars, serviceVars, stateVars, controlVars
<1>2. QED BY <1>1, ServiceInvStutter DEF DeliveryInv, BoundReaders, RegistrationsSucceed

\* A sample arrives.
LEMMA ArriveInv ==
  ASSUME DeliveryInv, NEW r \in DOMAIN readers, Arrive(r)
  PROVE  DeliveryInv'
<1> USE DEF DeliveryInv
<1>1. /\ ServiceInv' /\ BoundReaders' /\ RegistrationsSucceed'
      /\ UNCHANGED <<readers, subscriberBindings, handler>>
  BY FacadeKept DEF Arrive
<1>2. inbox[r] \in [samples : Nat, notified : BOOLEAN]
  BY DEF DeliveryTypeOK
<1>3. DeliveryTypeOK'
  BY <1>1, <1>2 DEF Arrive, DeliveryTypeOK
<1>4. QED BY <1>1, <1>3 DEF IdleInv, NoCallbackAfterRelease

\* A reader is notified.
LEMMA OnDataAvailableInv ==
  ASSUME DeliveryInv, NEW th \in Threads, NEW r \in DOMAIN readers, OnDataAvailable(th, r)
  PROVE  DeliveryInv'
<1> USE DEF DeliveryInv
<1>1. /\ ServiceInv' /\ BoundReaders' /\ RegistrationsSucceed'
      /\ UNCHANGED <<readers, subscriberBindings>>
  BY FacadeKept DEF OnDataAvailable
<1>2. r \in Nat /\ inbox[r] \in [samples : Nat, notified : BOOLEAN]
  BY DEF DeliveryTypeOK, ServiceInv, RuntimeInv, RuntimeTypeOK
<1>3. /\ handler'[th] = [at |-> "take", reader |-> r, call |-> 0]
      /\ \A u \in Threads : u # th => handler'[u] = handler[u]
  BY DEF OnDataAvailable, DeliveryTypeOK
<1>4. DeliveryTypeOK'
  BY <1>1, <1>2 DEF OnDataAvailable, DeliveryTypeOK, Places
<1>5. QED BY <1>1, <1>3, <1>4 DEF IdleInv, NoCallbackAfterRelease

\* take_next_sample: the next sample, or the end of the notification.
LEMMA TakeInv ==
  ASSUME DeliveryInv, NEW th \in Threads, Take(th)
  PROVE  DeliveryInv'
<1> USE DEF DeliveryInv
<1>1. /\ ServiceInv' /\ BoundReaders' /\ RegistrationsSucceed'
      /\ UNCHANGED <<readers, subscriberBindings>>
  BY FacadeKept DEF Take
<1>2. handler[th] # Idle /\ handler[th].reader \in DOMAIN readers
  BY ListenerHasReader DEF Take, Idle
<1>3. inbox[handler[th].reader] \in [samples : Nat, notified : BOOLEAN]
  BY <1>2 DEF DeliveryTypeOK
<1>4. /\ handler' \in [Threads -> [at : Places, reader : Nat, call : Nat]]
      /\ \A u \in Threads : u # th => handler'[u] = handler[u]
      /\ \/ handler'[th] = Idle
         \/ handler'[th].at = "deliver" /\ handler'[th].reader = handler[th].reader
  BY DEF Take, Continue, DeliveryTypeOK, Places, Idle
<1>5. inbox' \in [DOMAIN readers' -> [samples : Nat, notified : BOOLEAN]]
  BY <1>1, <1>2, <1>3 DEF Take, DeliveryTypeOK
<1>6. DeliveryTypeOK'
  BY <1>4, <1>5 DEF DeliveryTypeOK
<1>7. QED BY <1>1, <1>2, <1>4, <1>6 DEF IdleInv, NoCallbackAfterRelease, Idle

\* A callback is only copied from a binding the service holds already.
LEMMA DeliverInv ==
  ASSUME DeliveryInv, NEW th \in Threads, Deliver(th)
  PROVE  DeliveryInv'
<1> USE DEF DeliveryInv
<1> DEFINE r == handler[th].reader
<1>1. /\ ServiceInv' /\ BoundReaders' /\ RegistrationsSucceed'
      /\ UNCHANGED <<readers, subscriberBindings, inbox>>
  BY FacadeKept DEF Deliver
<1>2. handler[th] # Idle /\ r \in DOMAIN readers
  BY ListenerHasReader DEF Deliver, Idle
<1>3. readers[r].onSample \in Nat /\ (readers[r].onSample # 0 => r \in subscriberBindings)
  BY <1>2, ReaderFields DEF ServiceInv, RuntimeInv, BindingsOutliveReaders
<1>4. /\ handler' \in [Threads -> [at : Places, reader : Nat, call : Nat]]
      /\ \A u \in Threads : u # th => handler'[u] = handler[u]
      /\ handler'[th].reader = r /\ handler'[th].at \in {"take", "callback"}
      /\ handler'[th].at = "callback" => readers[r].onSample # 0
  <2> DEFINE callback == IF BindingAlive(r) THEN readers[r].onSample ELSE 0
  <2>1. callback \in Nat /\ (callback # 0 => readers[r].onSample # 0)
    BY <1>3
  <2>2. \/ callback # 0 /\ Continue(th, "callback", callback)
        \/ Continue(th, "take", 0)
    BY DEF Deliver
  <2> HIDE DEF callback
  <2>3. handler[th] \in [at : Places, reader : Nat, call : Nat]
    BY DEF DeliveryTypeOK
  <2>4. CASE callback # 0 /\ Continue(th, "callback", callback)
    BY <2>1, <2>3, <2>4 DEF Continue, DeliveryTypeOK, Places
  <2>5. CASE Continue(th, "take", 0)
    BY <2>3, <2>5 DEF Continue, DeliveryTypeOK, Places
  <2>6. QED BY <2>2, <2>4, <2>5
<1>5. DeliveryTypeOK' /\ IdleInv' /\ NoCallbackAfterRelease'
  BY <1>1, <1>2, <1>3, <1>4 DEF DeliveryTypeOK, IdleInv, NoCallbackAfterRelease
<1>6. QED BY <1>1, <1>5

\* A callback that publishes, or returns or throws without: the facade keeps
\* its invariant, as the transport is still up.
LEMMA CallbackInv ==
  ASSUME DeliveryInv, NEW th \in Threads, CallbackReturns(th) \/ CallbackThrows(th)
  PROVE  DeliveryInv'
<1> USE DEF DeliveryInv
<1> DEFINE reply == Reply[readers[handler[th].reader].topic]
<1>1. /\ handler[th] # Idle /\ handler[th].at = "callback"
      /\ handler[th].reader \in DOMAIN readers
      /\ readers[handler[th].reader].topic \in Topics /\ pc # "release"
  <2>1. handler[th] # Idle /\ handler[th].at = "callback"
    BY DEF CallbackReturns, CallbackThrows, Idle
  <2>2. QED BY <2>1, ListenerHasReader
<1>2. /\ ServiceInv' /\ BoundReaders' /\ RegistrationsSucceed'
      /\ UNCHANGED <<readers, subscriberBindings>>
  <2>1. CASE UNCHANGED vars
    BY <2>1, FacadeKept
  <2>2. CASE /\ reply # NoReply /\ UNCHANGED publishFrame
             /\ \/ PublishCached(reply.topic, reply.type)
                \/ PublishFirst(reply.topic, reply.type)
                \/ PublishThrows(reply.topic, reply.type)
                \/ PublishRejected(reply.topic, reply.type)
    <3>1. reply \in Publication
      BY <1>1, <2>2, ReplyAssumption
    <3>2. reply.topic \in Topics /\ reply.type \in Types
      BY <3>1 DEF Publication
    <3>3. ServiceInv'
      BY <1>1, <2>2, <3>2, PublishInv
    <3>4. UNCHANGED <<readers, subscriberBindings, pc>>
      BY <2>2 DEF PublishCached, PublishFirst, PublishThrows, PublishRejected,
         CreateWriter, CreateWriterThrows, publishFrame, controlVars, runtimeVars,
         entityVars
    <3>5. RegistrationsSucceed'
      <4>1. CASE UNCHANGED tableVars
        BY <4>1 DEF RegistrationsSucceed, tableVars
      <4>2. CASE TopicReady(reply.topic, reply.type) \/ TopicThrows(reply.topic, reply.type)
        BY <4>2, TopicRegistrations
      <4>3. QED BY <2>2, <4>1, <4>2 DEF PublishCached, PublishFirst, PublishThrows,
            PublishRejected, CreateWriter, CreateWriterThrows, runtimeVars
    <3>6. QED BY <3>3, <3>4, <3>5 DEF BoundReaders
  <2>3. QED BY <2>1, <2>2 DEF CallbackReturns, CallbackThrows
<1>3. /\ handler' \in [Threads -> [at : Places, reader : Nat, call : Nat]]
      /\ \A u \in Threads : u # th => handler'[u] = handler[u]
      /\ \/ handler'[th] = Idle
         \/ handler'[th].reader = handler[th].reader /\ handler'[th].at = "take"
      /\ UNCHANGED inbox
  BY DEF CallbackReturns, CallbackThrows, Continue, DeliveryTypeOK, Places, Idle
<1>4. DeliveryTypeOK' /\ IdleInv' /\ NoCallbackAfterRelease'
  BY <1>1, <1>2, <1>3 DEF DeliveryTypeOK, IdleInv, NoCallbackAfterRelease, Idle
<1>5. QED BY <1>2, <1>4

\* Every step keeps the invariant.
LEMMA DeliveryInvStep == DeliveryInv /\ [DeliveryNext]_allVars => DeliveryInv'
<1> SUFFICES ASSUME DeliveryInv, [DeliveryNext]_allVars PROVE DeliveryInv'
  OBVIOUS
<1>1. CASE AppStep
  BY <1>1, AppStepInv
<1>2. CASE \E r \in DOMAIN readers : Arrive(r)
  BY <1>2, ArriveInv
<1>3. CASE \E th \in Threads : ListenerStep(th)
  BY <1>3, OnDataAvailableInv, TakeInv, DeliverInv, CallbackInv DEF ListenerStep
<1>4. CASE UNCHANGED allVars
  <2>1. UNCHANGED vars /\ UNCHANGED <<inbox, handler>>
    BY <1>4 DEF allVars, deliveryVars
  <2>2. QED BY <2>1, FacadeKept DEF DeliveryInv, DeliveryTypeOK, IdleInv,
        NoCallbackAfterRelease
<1>5. QED BY <1>1, <1>2, <1>3, <1>4 DEF DeliveryNext

-----------------------------------------------------------------------------
\* A listener only ever runs on a reader that exists, and a callback only
\* while the service holds its binding, whatever the number of threads and
\* whenever deactivate is called (Service::deactivate, deliver).
THEOREM CallbacksOwned == DeliverySpec => []NoCallbackAfterRelease
<1>1. DeliveryInv => NoCallbackAfterRelease
  BY DEF DeliveryInv
<1>2. QED BY DeliveryInvInit, DeliveryInvStep, <1>1, PTL DEF DeliverySpec

\* The facade's own invariants hold under concurrent callbacks too.
THEOREM FacadeUnderCallbacks ==
  DeliverySpec => [](/\ TypeOK /\ TopicTypeAgreement /\ CallbackTypeMatches
                     /\ SubmissionOrder /\ EverySubscriptionBound
                     /\ BindingsOutliveReaders /\ TransportUp)
<1>1. DeliveryInv => /\ TypeOK /\ TopicTypeAgreement /\ CallbackTypeMatches
                     /\ SubmissionOrder /\ EverySubscriptionBound
                     /\ BindingsOutliveReaders /\ TransportUp
  BY DEF DeliveryInv, ServiceInv
<1>2. QED BY DeliveryInvInit, DeliveryInvStep, <1>1, PTL DEF DeliverySpec

\* A sample taken by a binding that is alive is dropped only by the binding
\* being made: those that are recorded have their callback.
LEMMA DropStepHolds == DeliveryInv /\ [DeliveryNext]_allVars => DropStep
<1> SUFFICES ASSUME DeliveryInv, [DeliveryNext]_allVars, dropped' # dropped
             PROVE  /\ binding # NoBinding
                    /\ \E th \in Threads : /\ handler[th].at = "deliver"
                                           /\ handler[th].reader = binding.reader
  BY DEF DropStep
<1>1. PICK th \in Threads : Deliver(th)
  BY DEF DeliveryNext, AppStep, ListenerStep, Arrive, OnDataAvailable, Take,
     CallbackReturns, CallbackThrows, allVars, deliveryVars, ghostVars
<1> DEFINE r == handler[th].reader
<1>2. /\ handler[th].at = "deliver" /\ BindingAlive(r)
      /\ readers[r].onSample = 0
  BY <1>1 DEF Deliver
<1>3. r \in DOMAIN readers /\ pc # "release"
  BY <1>2, ListenerHasReader DEF Idle
<1>4. r \notin subscriberBindings
  BY <1>2, <1>3 DEF DeliveryInv, BoundReaders
<1>5. r = binding.reader
  BY <1>2, <1>4 DEF BindingAlive
<1>6. r # 0
  BY <1>3 DEF DeliveryInv, ServiceInv, RuntimeInv, RuntimeTypeOK
<1>7. QED BY <1>2, <1>5, <1>6 DEF NoBinding

\* Once a subscription is bound and recorded no sample of it is dropped
\* (OpenDddsReaderBinding::deliver, Service::subscribe_erased).
THEOREM DropsOnlyInTheWindow == DeliverySpec => DroppedOnlyBeforeInstall
<1>1. DeliveryInv /\ [DeliveryNext]_allVars => [DropStep]_allVars
  BY DropStepHolds
<1>2. QED BY DeliveryInvInit, DeliveryInvStep, <1>1, PTL
      DEF DeliverySpec, DroppedOnlyBeforeInstall

\* When the transport is up and the service is ready, a writer can only fail
\* to be made because a DDS call fails, now or at its type's registration.
LEMMA WriterNeedsFault ==
  ASSUME DeliveryInv, pc # "release", state = "PostActivated",
         NEW t \in Topics, NEW ty \in Types, topicTypes[t] \in {NoType, ty},
         CreateWriterThrows(t, ty)
  PROVE  Faults # {}
<1> SUFFICES ASSUME Faults = {} PROVE FALSE
  OBVIOUS
<1>1. publisher # 0
  BY DEF DeliveryInv, ServiceInv, TransportUp
<1>2. TopicThrows(t, ty)
  BY <1>1 DEF CreateWriterThrows
<1>3. topics[t] \notin {NoType, ty} \/ ty \notin ddsTypes'
  BY <1>2 DEF TopicThrows, RegisterTypeOnceThrows, GetOrCreateTopicThrows
<1>4. topics[t] \in {NoType, ty}
  BY DEF DeliveryInv, ServiceInv, TopicTypeAgreement
<1>5. RegisterTypeOnce(ty)
  BY <1>2 DEF TopicThrows, RegisterTypeOnceThrows
<1>6. ty \in ddsTypes'
  BY <1>5 DEF RegisterTypeOnce, DeliveryInv, RegistrationsSucceed
<1>7. QED BY <1>3, <1>4, <1>6

\* A reply is lost for one of the reasons publish has for throwing.
LEMMA LostReplyStepHolds == DeliveryInv /\ [DeliveryNext]_allVars => LostReplyStep
<1> SUFFICES ASSUME DeliveryInv, [DeliveryNext]_allVars, lostReplies' # lostReplies,
                    state = "PostActivated"
             PROVE  \E th \in Threads :
                      LET reply == Reply[readers[handler[th].reader].topic] IN
                      /\ handler[th].at = "callback" /\ handler'[th] = Idle
                      /\ \/ ~RequireDeclaredTopic(reply.topic)
                         \/ topicTypes[reply.topic] \notin {NoType, reply.type}
                         \/ /\ publisherCache[reply.topic] = 0
                            /\ reply.type \notin Adapted \/ Faults # {}
  BY DEF LostReplyStep
<1>1. PICK th \in Threads : CallbackThrows(th)
  BY DEF DeliveryNext, AppStep, ListenerStep, Arrive, OnDataAvailable, Take,
     CallbackReturns, Deliver, allVars, deliveryVars, ghostVars
<1> DEFINE reply == Reply[readers[handler[th].reader].topic]
<1>2. /\ handler[th].at = "callback" /\ handler'[th] = Idle /\ reply # NoReply
      /\ PublishRejected(reply.topic, reply.type) \/ PublishThrows(reply.topic, reply.type)
  BY <1>1 DEF CallbackThrows, DeliveryInv, DeliveryTypeOK
<1>3. readers[handler[th].reader].topic \in Topics /\ pc # "release"
  BY <1>2, ListenerHasReader DEF Idle
<1>4. reply \in Publication
  BY <1>2, <1>3, ReplyAssumption
<1>5. reply.topic \in Topics /\ reply.type \in Types
  BY <1>4 DEF Publication
<1> HIDE DEF reply
<1>6. CASE PublishRejected(reply.topic, reply.type)
  BY <1>2, <1>6 DEF PublishRejected, reply
<1>7. CASE PublishThrows(reply.topic, reply.type)
  <2>1. /\ publisherCache[reply.topic] = 0
        /\ topicTypes[reply.topic] \in {NoType, reply.type}
        /\ reply.type \in Adapted => CreateWriterThrows(reply.topic, reply.type)
    BY <1>7 DEF PublishThrows, PublishChecks, RememberTopicType
  <2>2. reply.type \in Adapted => Faults # {}
    BY <1>3, <1>5, <2>1, WriterNeedsFault
  <2>3. QED BY <1>2, <2>1, <2>2 DEF reply
<1>8. QED BY <1>2, <1>6, <1>7

\* A callback's publish throws only for a reason the application can know of:
\* the service is not ready, the topic is not declared or has another type, or
\* the topic's first writer cannot be made (Service::publish_erased).
THEOREM RepliesLostForAReason == DeliverySpec => RepliesLostOnlyBeforeUp
<1>1. DeliveryInv /\ [DeliveryNext]_allVars => [LostReplyStep]_allVars
  BY LostReplyStepHolds
<1>2. QED BY DeliveryInvInit, DeliveryInvStep, <1>1, PTL
      DEF DeliverySpec, RepliesLostOnlyBeforeUp

-----------------------------------------------------------------------------
(* The contract of the facade, with callbacks that publish from the        *)
(* transport's threads.                                                    *)

\* A listener thread's step is, for the contract, a publish or nothing.
LEMMA ListenerImplements ==
  ASSUME DeliveryInv, DeliveryInv', NEW th \in Threads, ListenerStep(th)
  PROVE  Contract!ContractNext \/ UNCHANGED Contract!contractVars
<1> USE DEF DeliveryInv
<1> DEFINE reply == Reply[readers[handler[th].reader].topic]
<1>1. CASE UNCHANGED vars
  BY <1>1, HiddenSteps
<1>2. CASE /\ handler[th].at = "callback" /\ reply # NoReply
           /\ \/ PublishCached(reply.topic, reply.type)
              \/ PublishFirst(reply.topic, reply.type)
              \/ PublishThrows(reply.topic, reply.type)
              \/ PublishRejected(reply.topic, reply.type)
           /\ UNCHANGED publishFrame
  <2>1. readers[handler[th].reader].topic \in Topics /\ pc # "release"
    BY <1>2, ListenerHasReader DEF Idle
  <2>2. reply \in Publication
    BY <1>2, <2>1, ReplyAssumption
  <2>3. reply.topic \in Topics /\ reply.type \in Types
    BY <2>2 DEF Publication
  <2> HIDE DEF reply
  <2>4. QED BY <1>2, <2>1, <2>3, PublishImplements
<1>3. QED BY <1>1, <1>2 DEF ListenerStep, OnDataAvailable, Take, Deliver,
      CallbackReturns, CallbackThrows

\* Every step of the facade with its listener threads is a step of the
\* contract, or none.
LEMMA DeliveryStepImplements ==
  DeliveryInv /\ DeliveryInv' /\ [DeliveryNext]_allVars
    => [Contract!ContractNext]_(Contract!contractVars)
<1> SUFFICES ASSUME DeliveryInv, DeliveryInv', [DeliveryNext]_allVars
             PROVE  [Contract!ContractNext]_(Contract!contractVars)
  OBVIOUS
<1>1. CASE AppStep
  BY <1>1, StepImplements DEF AppStep, DeliveryInv
<1>2. CASE \E r \in DOMAIN readers : Arrive(r)
  BY <1>2, StepImplements DEF Arrive, DeliveryInv
<1>3. CASE \E th \in Threads : ListenerStep(th)
  BY <1>3, ListenerImplements
<1>4. CASE UNCHANGED allVars
  BY <1>4, StepImplements DEF allVars, DeliveryInv
<1>5. QED BY <1>1, <1>2, <1>3, <1>4 DEF DeliveryNext

\* What ServiceContract promises holds also while callbacks run and publish on
\* the transport's threads, at any point of post_activate, subscribe and
\* deactivate (Service::publish_erased called from deliver).
THEOREM ConcurrentFacadeImplements == DeliverySpec => ImplementsContract
<1>1. DeliveryInit => Contract!ContractInit
  BY InitImplements DEF DeliveryInit
<1>2. DeliveryInv /\ DeliveryInv' /\ [DeliveryNext]_allVars
        => [Contract!ContractNext]_(Contract!contractVars)
  BY DeliveryStepImplements
<1>3. QED BY DeliveryInvInit, DeliveryInvStep, <1>1, <1>2, PTL
      DEF DeliverySpec, ImplementsContract, Contract!ContractSpec
-----------------------------------------------------------------------------
(* No sample is left behind.                                               *)

Unstranded == lostReplies \in Nat /\ NoSampleStranded

\* The application thread makes readers without samples and deletes them only
\* when no listener runs; no reader that stays changes.
LEMMA AppStrandsNone ==
  ASSUME DeliveryInv, Unstranded, AppStep
  PROVE  Unstranded'
<1> SUFFICES ASSUME NEW r \in DOMAIN inbox', inbox'[r].samples > 0
             PROVE  \/ inbox'[r].notified \/ lostReplies' > 0
                    \/ \E th \in Threads : handler'[th] # Idle /\ handler'[th].reader = r
  BY DEF Unstranded, NoSampleStranded, AppStep, ghostVars
<1>1. inbox'[r] = IF r \in DOMAIN inbox THEN inbox[r] ELSE Empty
  BY DEF AppStep
<1>2. r \in DOMAIN inbox /\ inbox'[r] = inbox[r]
  BY <1>1 DEF Empty
<1>3. QED BY <1>2 DEF Unstranded, NoSampleStranded, AppStep, ghostVars

\* A sample that arrives makes a notification due.
LEMMA ArriveStrandsNone ==
  ASSUME DeliveryInv, Unstranded, NEW r \in DOMAIN readers, Arrive(r)
  PROVE  Unstranded'
<1>1. r \in DOMAIN inbox /\ DOMAIN inbox' = DOMAIN inbox /\ inbox'[r].notified
  BY DEF Arrive, DeliveryInv, DeliveryTypeOK
<1>2. \A s \in DOMAIN inbox : s # r => inbox'[s] = inbox[s]
  BY DEF Arrive
<1>3. QED BY <1>1, <1>2 DEF Arrive, Unstranded, NoSampleStranded

\* A listener takes over the notification, and goes on until there is no
\* sample, or its callback throws.
LEMMA ListenerStrandsNone ==
  ASSUME DeliveryInv, Unstranded, NEW th \in Threads, ListenerStep(th)
  PROVE  Unstranded'
<1>1. handler \in [Threads -> [at : Places, reader : Nat, call : Nat]]
  BY DEF DeliveryInv, DeliveryTypeOK
<1>2. CASE \E r \in DOMAIN readers : OnDataAvailable(th, r)
  <2> PICK r \in DOMAIN readers : OnDataAvailable(th, r)
    BY <1>2
  <2>1. /\ handler[th] = Idle /\ handler'[th].reader = r /\ handler'[th] # Idle
        /\ \A u \in Threads : u # th => handler'[u] = handler[u]
    BY <1>1 DEF OnDataAvailable, Idle
  <2>2. /\ r \in DOMAIN inbox /\ DOMAIN inbox' = DOMAIN inbox
        /\ \A s \in DOMAIN inbox : s # r => inbox'[s] = inbox[s]
    BY DEF OnDataAvailable, DeliveryInv, DeliveryTypeOK
  <2>3. UNCHANGED lostReplies
    BY DEF OnDataAvailable, ghostVars
  <2>4. QED BY <2>1, <2>2, <2>3 DEF Unstranded, NoSampleStranded
<1>3. CASE Take(th)
  <2> DEFINE r == handler[th].reader
  <2>1. UNCHANGED lostReplies
    BY <1>3 DEF Take, ghostVars
  <2>2. CASE inbox[r].samples = 0 /\ UNCHANGED inbox
    <3>1. \A u \in Threads : u # th => handler'[u] = handler[u]
      BY <1>1, <1>3 DEF Take, Continue
    <3>2. QED BY <2>1, <2>2, <3>1 DEF Unstranded, NoSampleStranded
  <2>3. CASE Continue(th, "deliver", 0) /\ inbox' = [inbox EXCEPT ![r].samples = @ - 1]
    <3>1. /\ handler'[th] # Idle /\ handler'[th].reader = r
          /\ \A u \in Threads : u # th => handler'[u] = handler[u]
      BY <1>1, <2>3 DEF Continue, Idle
    <3>2. /\ DOMAIN inbox' = DOMAIN inbox
          /\ \A s \in DOMAIN inbox : s # r => inbox'[s] = inbox[s]
      BY <2>3
    <3> HIDE DEF r
    <3>3. \A s \in DOMAIN inbox : s # r /\ inbox'[s].samples > 0 =>
            \/ inbox'[s].notified \/ lostReplies' > 0
            \/ \E u \in Threads : handler'[u] # Idle /\ handler'[u].reader = s
      BY <2>1, <3>1, <3>2 DEF Unstranded, NoSampleStranded, r
    <3>4. QED BY <2>1, <3>1, <3>2, <3>3 DEF Unstranded, NoSampleStranded
  <2>4. QED BY <1>3, <2>2, <2>3 DEF Take
<1>4. CASE Deliver(th) \/ CallbackReturns(th)
  <2>1. /\ UNCHANGED <<inbox, lostReplies>>
        /\ Continue(th, handler'[th].at, handler'[th].call)
        /\ handler[th] # Idle /\ handler'[th].at \in {"take", "callback"}
    <3> \A at, call : Continue(th, at, call) =>
           handler'[th].at = at /\ handler'[th].call = call
      BY <1>1 DEF Continue
    <3> QED BY <1>4 DEF Deliver, CallbackReturns, ghostVars, Idle
  <2>2. /\ handler'[th] # Idle /\ handler'[th].reader = handler[th].reader
        /\ \A u \in Threads : u # th => handler'[u] = handler[u]
    BY <1>1, <2>1 DEF Continue, Idle
  <2>3. QED BY <2>1, <2>2 DEF Unstranded, NoSampleStranded
<1>5. CASE CallbackThrows(th)
  BY <1>5 DEF CallbackThrows, Unstranded, NoSampleStranded
<1>6. QED BY <1>2, <1>3, <1>4, <1>5 DEF ListenerStep

\* Samples at a reader are never left without a notification due or a
\* listener at work, whatever the number of threads that take from one reader,
\* unless a callback threw (OpenDddsListener::on_data_available).
THEOREM NothingStranded == DeliverySpec => []NoSampleStranded
<1>1. DeliveryInit => Unstranded
  BY DEF DeliveryInit, Unstranded, NoSampleStranded
<1>2. DeliveryInv /\ Unstranded /\ [DeliveryNext]_allVars => Unstranded'
  <2> SUFFICES ASSUME DeliveryInv, Unstranded, [DeliveryNext]_allVars PROVE Unstranded'
    OBVIOUS
  <2>1. CASE UNCHANGED allVars
    BY <2>1 DEF allVars, deliveryVars, ghostVars, Unstranded, NoSampleStranded
  <2>2. QED BY <2>1, AppStrandsNone, ArriveStrandsNone, ListenerStrandsNone
        DEF DeliveryNext
<1>3. Unstranded => NoSampleStranded
  BY DEF Unstranded
<1>4. QED BY DeliveryInvInit, DeliveryInvStep, <1>1, <1>2, <1>3, PTL DEF DeliverySpec
=============================================================================
