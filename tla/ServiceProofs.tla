--------------------------- MODULE ServiceProofs ---------------------------
(***************************************************************************)
(* Proofs about Service, for every set of topics, types and TopicConfigs,  *)
(* every choice of failing DDS calls and every bound.                      *)
(***************************************************************************)
EXTENDS ServiceRefinement, RuntimeProofs, FiniteSetTheorems

(***************************************************************************)
(* The inductive invariant.  What the runs check is not inductive: that a  *)
(* failed and repeated post_activate keeps the order of the callbacks      *)
(* depends on where the thread is in the flush, on the staged thunks being *)
(* the accepted subscriptions, and on the reader just made being unbound.  *)
(***************************************************************************)

\* Where the application thread can be, in each lifecycle state.
ControlInv ==
  /\ pc = "flush" => state = "PreActivated"
  /\ pc = "flushed" <=> state = "Activated"
  /\ pc = "subscribe" => state = "PostActivated"
  /\ state \in {"Created", "Deactivated"} => pc = "idle"
  /\ binding # NoBinding => pc \in {"flush", "subscribe"}

\* The participant exists exactly while the service is up, and the entities
\* with it.
ParticipantInv ==
  /\ ~participant <=> state \in {"Created", "Deactivated"} \/ pc = "release"
  /\ ~participant => readers = <<>> /\ writers = <<>>

\* The tables are empty before pre_activate and after deactivate.
EmptyInv ==
  /\ state \in {"Created", "Deactivated"} =>
       /\ pending = <<>> /\ subscriberBindings = {}
       /\ publisherCache = EmptyCache /\ topicTypes = NoTopics
  /\ state = "Created" => subs = <<>>

\* The staged thunks are the subscriptions accepted, in order.
PendingInv ==
  /\ \A i \in DOMAIN pending :
       /\ pending[i].call = i /\ i \in DOMAIN subs
       /\ subs[i].topic = pending[i].topic /\ subs[i].type = pending[i].type
  /\ state = "PreActivated" => Len(pending) = Len(subs)

\* The reader made but not bound yet is the one for the thunk that runs, or
\* for the subscription about to be accepted.
BindingInv ==
  binding # NoBinding =>
    /\ binding.reader \in DOMAIN readers
    /\ readers[binding.reader].onSample = 0
    /\ readers[binding.reader].type \in Adapted
    /\ pc = "flush" =>
         /\ next \in DOMAIN pending /\ binding.call = next
         /\ readers[binding.reader].topic = pending[next].topic
         /\ readers[binding.reader].type = pending[next].type
    /\ pc = "subscribe" => binding.call = Len(subs) + 1

\* The thunks already run by this post_activate have bound their callbacks.
FlushInv ==
  pc = "flush" => next <= Len(pending) + 1 /\ 1 .. (next - 1) \subseteq BoundCalls

ServiceInv ==
  /\ RuntimeInv /\ TypeOK
  /\ ControlInv /\ ParticipantInv /\ EmptyInv
  /\ PendingInv /\ BindingInv /\ FlushInv
  /\ TopicTypeAgreement /\ CallbackTypeMatches
  /\ SubmissionOrder /\ EverySubscriptionBound
  /\ BindingsOutliveReaders /\ TransportUp

-----------------------------------------------------------------------------
(* What a step does to the entities, and the callbacks bound.              *)

\* A topic's entry only changes to the type the call is about.
LEMMA TopicStepLocal ==
  ASSUME NEW t \in Topics, NEW ty \in Types, RuntimeTypeOK,
         TopicReady(t, ty) \/ TopicThrows(t, ty)
  PROVE  \A u \in Topics :
           topics'[u] = topics[u] \/ (u = t /\ topics'[u] = ty)
  BY DEF RuntimeTypeOK, TopicReady, TopicThrows, RegisterTypeOnceThrows,
         GetOrCreateTopic, GetOrCreateTopicThrows

\* A staged registration names a topic and an adapted type.
LEMMA PendingFields ==
  ASSUME TypeOK, NEW i \in DOMAIN pending
  PROVE  /\ pending[i].topic \in Topics /\ pending[i].call \in Nat
         /\ pending[i].type \in Adapted /\ pending[i].type \in Types
<1>1. pending[i] \in Registration
  BY DEF TypeOK
<1>2. QED BY <1>1, AdaptedAssumption DEF Registration

\* A new reader has no callback.
LEMMA BoundCallsAppend ==
  ASSUME NEW t \in Topics, NEW ty \in Types, RuntimeTypeOK,
         readers' = Append(readers, [topic |-> t, type |-> ty, onSample |-> 0])
  PROVE  BoundCalls' = BoundCalls
<1>1. \A i \in DOMAIN readers : i \in DOMAIN readers' /\ readers'[i] = readers[i]
  BY AppendReader
<1>2. \A i \in DOMAIN readers' : i \in DOMAIN readers \/ readers'[i].onSample = 0
  BY AppendReader
<1>3. QED BY <1>1, <1>2 DEF BoundCalls

\* create_reader on a topic and type that are remembered, whatever its
\* outcome: existing readers stay as they are and a new one has no callback.
LEMMA ReaderMade ==
  ASSUME RuntimeInv, TypeOK, TopicTypeAgreement,
         NEW t \in Topics, NEW ty \in Types, ReaderStep(t, ty),
         topicTypes'[t] = ty, UNCHANGED pending,
         \A u \in Topics : topicTypes[u] # NoType => topicTypes'[u] = topicTypes[u]
  PROVE  /\ RuntimeInv' /\ TopicTypeAgreement' /\ BoundCalls' = BoundCalls
         /\ UNCHANGED <<handleVars, serviceParticipant, publishers, writers>>
         /\ \A i \in DOMAIN readers : i \in DOMAIN readers' /\ readers'[i] = readers[i]
         /\ \A i \in DOMAIN readers' : i \in DOMAIN readers \/ readers'[i].onSample = 0
<1>1. RuntimeTypeOK
  BY DEF RuntimeInv
<1>2. RuntimeInv'
  BY ReaderStepInv
<1>3. UNCHANGED <<handleVars, serviceParticipant, publishers, writers>>
  BY <1>1, ReaderStepEffect
<1>4. \/ UNCHANGED readers
      \/ readers' = Append(readers, [topic |-> t, type |-> ty, onSample |-> 0])
  BY <1>1, ReaderStepEffect
<1>5. BoundCalls' = BoundCalls
  BY <1>1, <1>4, BoundCallsAppend DEF BoundCalls
<1>6. /\ \A i \in DOMAIN readers : i \in DOMAIN readers' /\ readers'[i] = readers[i]
      /\ \A i \in DOMAIN readers' :
           \/ i \in DOMAIN readers
           \/ readers'[i] = [topic |-> t, type |-> ty, onSample |-> 0]
  BY <1>1, <1>4, AppendReader
<1>7. \A u \in Topics : topics'[u] = topics[u] \/ (u = t /\ topics'[u] = ty)
  BY <1>1, ReaderStepEffect, TopicStepLocal DEF tableVars
<1>8. TopicTypeAgreement'
  <2>1. \A u \in Topics : topicTypes[u] \in Types => topicTypes'[u] = topicTypes[u]
    BY NoTypeAssumption
  <2>2. \A i \in DOMAIN readers' : topicTypes'[readers'[i].topic] = readers'[i].type
    BY <1>1, <1>6, <2>1, ReaderFields DEF TopicTypeAgreement
  <2>3. \A i \in DOMAIN writers' : topicTypes'[writers'[i].topic] = writers'[i].type
    BY <1>1, <1>3, <2>1, WriterFields DEF TopicTypeAgreement
  <2>4. \A i \in DOMAIN pending' : topicTypes'[pending'[i].topic] = pending'[i].type
    BY <2>1, PendingFields DEF TopicTypeAgreement
  <2>5. \A u \in Topics : topics'[u] \in {NoType, topicTypes'[u]}
    BY <1>7 DEF TopicTypeAgreement
  <2>6. QED BY <2>2, <2>3, <2>4, <2>5 DEF TopicTypeAgreement
<1>9. QED BY <1>2, <1>3, <1>5, <1>6, <1>8

\* create_writer likewise.
LEMMA WriterMade ==
  ASSUME RuntimeInv, TypeOK, TopicTypeAgreement,
         NEW t \in Topics, NEW ty \in Types, WriterStep(t, ty),
         topicTypes'[t] = ty, UNCHANGED pending,
         \A u \in Topics : topicTypes[u] # NoType => topicTypes'[u] = topicTypes[u]
  PROVE  /\ RuntimeInv' /\ TopicTypeAgreement'
         /\ UNCHANGED <<handleVars, serviceParticipant, publishers, readers>>
         /\ \A i \in DOMAIN writers : i \in DOMAIN writers' /\ writers'[i] = writers[i]
<1>1. RuntimeTypeOK
  BY DEF RuntimeInv
<1>2. RuntimeInv'
  BY WriterStepInv
<1>3. UNCHANGED <<handleVars, serviceParticipant, publishers, readers>>
  BY <1>1, WriterStepEffect
<1>4. \/ UNCHANGED writers
      \/ writers' = Append(writers, [topic |-> t, type |-> ty])
  BY <1>1, WriterStepEffect
<1>5. /\ \A i \in DOMAIN writers : i \in DOMAIN writers' /\ writers'[i] = writers[i]
      /\ \A i \in DOMAIN writers' :
           i \in DOMAIN writers \/ writers'[i] = [topic |-> t, type |-> ty]
  BY <1>1, <1>4, AppendWriter
<1>6. \A u \in Topics : topics'[u] = topics[u] \/ (u = t /\ topics'[u] = ty)
  BY <1>1, WriterStepEffect, TopicStepLocal DEF tableVars
<1>7. TopicTypeAgreement'
  <2>1. \A u \in Topics : topicTypes[u] \in Types => topicTypes'[u] = topicTypes[u]
    BY NoTypeAssumption
  <2>2. \A i \in DOMAIN readers' : topicTypes'[readers'[i].topic] = readers'[i].type
    BY <1>1, <1>3, <2>1, ReaderFields DEF TopicTypeAgreement
  <2>3. \A i \in DOMAIN writers' : topicTypes'[writers'[i].topic] = writers'[i].type
    BY <1>1, <1>5, <2>1, WriterFields DEF TopicTypeAgreement
  <2>4. \A i \in DOMAIN pending' : topicTypes'[pending'[i].topic] = pending'[i].type
    BY <2>1, PendingFields DEF TopicTypeAgreement
  <2>5. \A u \in Topics : topics'[u] \in {NoType, topicTypes'[u]}
    BY <1>6 DEF TopicTypeAgreement
  <2>6. QED BY <2>2, <2>3, <2>4, <2>5 DEF TopicTypeAgreement
<1>8. QED BY <1>2, <1>3, <1>5, <1>7

\* Installing a callback changes that one field of that one reader, and binds
\* that one callback.
LEMMA CallbackInstalled ==
  ASSUME RuntimeInv, TypeOK, BindingInv, InstallBinding
  PROVE  /\ RuntimeInv'
         /\ binding.call # 0 => BoundCalls' = BoundCalls \union {binding.call}
         /\ DOMAIN readers' = DOMAIN readers
         /\ \A i \in DOMAIN readers :
              /\ readers'[i].topic = readers[i].topic
              /\ readers'[i].type = readers[i].type
              /\ readers'[i].onSample =
                   IF i = binding.reader THEN binding.call ELSE readers[i].onSample
<1>1. RuntimeTypeOK /\ binding.reader \in DOMAIN readers /\ binding.call \in Nat
      /\ readers[binding.reader].onSample = 0
  BY DEF RuntimeInv, TypeOK, BindingInv, InstallBinding
<1>2. readers' = [readers EXCEPT ![binding.reader].onSample = binding.call]
  BY DEF InstallBinding, SetOnSample
<1>3. \A i \in DOMAIN readers : readers[i] \in Reader
  BY <1>1, ReaderFields
<1>4. /\ readers' \in Seq(Reader) /\ DOMAIN readers' = DOMAIN readers
      /\ \A i \in DOMAIN readers :
           /\ readers'[i].topic = readers[i].topic
           /\ readers'[i].type = readers[i].type
           /\ readers'[i].onSample =
                IF i = binding.reader THEN binding.call ELSE readers[i].onSample
  <2>1. /\ DOMAIN readers' = DOMAIN readers
        /\ \A i \in DOMAIN readers : i # binding.reader => readers'[i] = readers[i]
        /\ readers'[binding.reader] =
             [readers[binding.reader] EXCEPT !.onSample = binding.call]
    BY <1>1, <1>2
  <2>2. /\ readers'[binding.reader].topic = readers[binding.reader].topic
        /\ readers'[binding.reader].type = readers[binding.reader].type
        /\ readers'[binding.reader].onSample = binding.call
        /\ readers'[binding.reader] \in Reader
    BY <1>1, <1>3, <2>1 DEF Reader
  <2>3. readers' \in Seq(Reader)
    BY <1>1, <1>2, <1>3, <2>2 DEF RuntimeTypeOK
  <2>4. QED BY <2>1, <2>2, <2>3
<1>5. UNCHANGED <<handleVars, tableVars, serviceParticipant, publishers, writers>>
  BY DEF InstallBinding
<1>6. RuntimeTypeOK'
  BY <1>1, <1>4, <1>5 DEF RuntimeTypeOK, handleVars, tableVars
<1>7. RuntimeInv'
  BY <1>4, <1>5, <1>6 DEF RuntimeInv, EntityTypesAgree, TopicTypesRegistered,
     NoDanglingHandle, MarkInv, handleVars, tableVars
<1>8. ASSUME binding.call # 0
      PROVE  BoundCalls' = BoundCalls \union {binding.call}
  <2>1. \A i \in DOMAIN readers : readers'[i].onSample =
          IF i = binding.reader THEN binding.call ELSE readers[i].onSample
    BY <1>4
  <2>2. QED BY <1>1, <1>4, <1>8, <2>1 DEF BoundCalls
<1>9. QED BY <1>4, <1>7, <1>8

\* A step that does not touch the runtime keeps its invariant and the
\* callbacks bound.
LEMMA RuntimeUnchanged ==
  ASSUME RuntimeInv, UNCHANGED runtimeVars
  PROVE  RuntimeInv' /\ BoundCalls' = BoundCalls
  BY DEF RuntimeInv, RuntimeTypeOK, EntityTypesAgree, TopicTypesRegistered,
     NoDanglingHandle, MarkInv, BoundCalls, runtimeVars, handleVars, tableVars, entityVars

\* Before pre_activate and after deactivate no callback is bound.
LEMMA NoReadersNoCalls ==
  ASSUME readers = <<>>
  PROVE  BoundCalls = {}
  BY DEF BoundCalls

\* remember_topic_type commits the topic, keeps every other commitment, and
\* so disturbs no agreement.
LEMMA Remembered ==
  ASSUME RuntimeInv, TypeOK, TopicTypeAgreement,
         NEW t \in Topics, NEW ty \in Types, RememberTopicType(t, ty)
  PROVE  /\ topicTypes' \in [Topics -> Types \union {NoType}]
         /\ topicTypes'[t] = ty
         /\ \A u \in Topics : topicTypes[u] # NoType => topicTypes'[u] = topicTypes[u]
         /\ \A u \in Topics : topics[u] \in {NoType, topicTypes'[u]}
         /\ \A i \in DOMAIN readers : topicTypes'[readers[i].topic] = readers[i].type
         /\ \A i \in DOMAIN writers : topicTypes'[writers[i].topic] = writers[i].type
         /\ \A i \in DOMAIN pending : topicTypes'[pending[i].topic] = pending[i].type
<1>1. /\ topicTypes' \in [Topics -> Types \union {NoType}] /\ topicTypes'[t] = ty
      /\ \A u \in Topics : topicTypes[u] # NoType => topicTypes'[u] = topicTypes[u]
  BY DEF TypeOK, RememberTopicType
<1>2. \A u \in Topics : topicTypes[u] \in Types => topicTypes'[u] = topicTypes[u]
  BY <1>1, NoTypeAssumption
<1>3. RuntimeTypeOK
  BY DEF RuntimeInv
<1>4. \A u \in Topics : topics[u] \in {NoType, topicTypes'[u]}
  BY <1>2, <1>3 DEF TopicTypeAgreement, RuntimeTypeOK
<1>5. \A i \in DOMAIN readers : topicTypes'[readers[i].topic] = readers[i].type
  BY <1>2, <1>3, ReaderFields DEF TopicTypeAgreement
<1>6. \A i \in DOMAIN writers : topicTypes'[writers[i].topic] = writers[i].type
  BY <1>2, <1>3, WriterFields DEF TopicTypeAgreement
<1>7. \A i \in DOMAIN pending : topicTypes'[pending[i].topic] = pending[i].type
  BY <1>2, PendingFields DEF TopicTypeAgreement
<1>8. QED BY <1>1, <1>4, <1>5, <1>6, <1>7

-----------------------------------------------------------------------------
(* Each action keeps the invariant.                                        *)

\* subscribe throws for want of an adapter: only the type is remembered.
LEMMA SubscribeUnadaptedInv ==
  ASSUME ServiceInv, NEW t \in Topics, NEW ty \in Types, SubscribeUnadapted(t, ty)
  PROVE  ServiceInv'
<1> USE DEF ServiceInv, SubscribeUnadapted, SubscribeChecks
<1>1. RuntimeInv' /\ BoundCalls' = BoundCalls
  BY RuntimeUnchanged
<1>2. TypeOK'
  BY <1>1, Remembered DEF TypeOK, RuntimeInv, controlVars, historyVars
<1>3. ControlInv' /\ ParticipantInv' /\ EmptyInv'
  BY DEF ControlInv, ParticipantInv, EmptyInv, controlVars, historyVars,
     runtimeVars, handleVars, entityVars
<1>4. PendingInv' /\ BindingInv' /\ FlushInv'
  BY <1>1 DEF PendingInv, BindingInv, FlushInv, controlVars, historyVars,
     runtimeVars, entityVars
<1>5. TopicTypeAgreement'
  BY Remembered DEF TopicTypeAgreement, runtimeVars, entityVars, tableVars
<1>6. CallbackTypeMatches' /\ SubmissionOrder' /\ EverySubscriptionBound'
  BY <1>1 DEF CallbackTypeMatches, SubmissionOrder, EverySubscriptionBound,
     controlVars, historyVars, runtimeVars, entityVars
<1>7. BindingsOutliveReaders' /\ TransportUp'
  BY DEF BindingsOutliveReaders, TransportUp, controlVars, runtimeVars,
     handleVars, entityVars
<1>8. QED BY <1>1, <1>2, <1>3, <1>4, <1>5, <1>6, <1>7

\* What appending an element does.
LEMMA Appended ==
  ASSUME NEW S, NEW s \in Seq(S), NEW e \in S
  PROVE  /\ Append(s, e) \in Seq(S) /\ Len(s) \in Nat
         /\ Len(Append(s, e)) = Len(s) + 1
         /\ DOMAIN Append(s, e) = DOMAIN s \union {Len(s) + 1}
         /\ \A i \in DOMAIN s : Append(s, e)[i] = s[i]
         /\ Append(s, e)[Len(s) + 1] = e
  OBVIOUS

\* subscribe before post_activate: one more thunk, for one more subscription.
LEMMA SubscribeStagedInv ==
  ASSUME ServiceInv, NEW t \in Topics, NEW ty \in Types, SubscribeStaged(t, ty)
  PROVE  ServiceInv'
<1> USE DEF ServiceInv, SubscribeStaged, SubscribeChecks
<1>1. RuntimeInv' /\ BoundCalls' = BoundCalls
  BY RuntimeUnchanged
<1>2. Len(pending) = Len(subs)
  BY DEF PendingInv
<1>3. /\ pending' \in Seq(Registration)
      /\ DOMAIN pending' = DOMAIN pending \union {Len(pending) + 1}
      /\ \A i \in DOMAIN pending : pending'[i] = pending[i]
      /\ pending'[Len(pending) + 1] = [topic |-> t, type |-> ty, call |-> Len(subs) + 1]
      /\ Len(pending') = Len(pending) + 1
  <2>1. [topic |-> t, type |-> ty, call |-> Len(subs) + 1] \in Registration
    BY DEF TypeOK, Registration
  <2>2. pending \in Seq(Registration)
    BY DEF TypeOK
  <2>3. QED BY <2>1, <2>2, Appended
<1>4. /\ subs' \in Seq([topic : Topics, type : Adapted])
      /\ DOMAIN subs' = DOMAIN subs \union {Len(subs) + 1}
      /\ \A i \in DOMAIN subs : subs'[i] = subs[i]
      /\ subs'[Len(subs) + 1] = [topic |-> t, type |-> ty]
      /\ Len(subs') = Len(subs) + 1
  <2>1. [topic |-> t, type |-> ty] \in [topic : Topics, type : Adapted]
    OBVIOUS
  <2>2. subs \in Seq([topic : Topics, type : Adapted])
    BY DEF TypeOK
  <2>3. QED BY <2>1, <2>2, Appended
<1>5. TypeOK'
  BY <1>1, <1>3, <1>4, Remembered DEF TypeOK, RuntimeInv, controlVars
<1>6. ControlInv' /\ ParticipantInv' /\ EmptyInv'
  BY DEF ControlInv, ParticipantInv, EmptyInv, controlVars,
     runtimeVars, handleVars, entityVars
<1>7. PendingInv'
  BY <1>2, <1>3, <1>4 DEF PendingInv
<1>8. BindingInv' /\ FlushInv'
  BY DEF BindingInv, FlushInv, ControlInv, controlVars
<1>9. TopicTypeAgreement'
  BY <1>3, Remembered DEF TopicTypeAgreement, runtimeVars, entityVars, tableVars
<1>10. CallbackTypeMatches' /\ SubmissionOrder' /\ EverySubscriptionBound'
  BY <1>1, <1>4 DEF CallbackTypeMatches, SubmissionOrder, EverySubscriptionBound,
     controlVars, runtimeVars, entityVars
<1>11. BindingsOutliveReaders' /\ TransportUp'
  BY DEF BindingsOutliveReaders, TransportUp, controlVars, runtimeVars,
     handleVars, entityVars
<1>12. QED BY <1>1, <1>5, <1>6, <1>7, <1>8, <1>9, <1>10, <1>11

\* What no create_reader disturbs: the callbacks bound, their owners and the
\* entities the service relies on.
LEMMA ReaderMadeKeeps ==
  ASSUME ServiceInv, NEW t \in Topics, NEW ty \in Types, ReaderStep(t, ty),
         topicTypes'[t] = ty,
         topicTypes' \in [Topics -> Types \union {NoType}],
         \A u \in Topics : topicTypes[u] # NoType => topicTypes'[u] = topicTypes[u],
         UNCHANGED <<state, topicConfig, pending, subscriberBindings,
                     publisherCache, historyVars>>,
         state \notin {"Created", "Deactivated"}, pc # "release",
         pc' # "release",
         pc' = "flush" => pc = "flush"
  PROVE  /\ RuntimeInv' /\ BoundCalls' = BoundCalls
         /\ ParticipantInv' /\ EmptyInv' /\ PendingInv'
         /\ TopicTypeAgreement' /\ CallbackTypeMatches'
         /\ SubmissionOrder' /\ EverySubscriptionBound'
         /\ BindingsOutliveReaders' /\ TransportUp'
<1> USE DEF ServiceInv
<1>1. /\ RuntimeInv' /\ TopicTypeAgreement' /\ BoundCalls' = BoundCalls
      /\ UNCHANGED <<handleVars, serviceParticipant, publishers, writers>>
      /\ \A i \in DOMAIN readers : i \in DOMAIN readers' /\ readers'[i] = readers[i]
      /\ \A i \in DOMAIN readers' : i \in DOMAIN readers \/ readers'[i].onSample = 0
  BY ReaderMade
<1>2. ParticipantInv' /\ EmptyInv'
  BY <1>1 DEF ParticipantInv, EmptyInv, handleVars, historyVars
<1>3. PendingInv'
  BY DEF PendingInv, historyVars
<1>4. CallbackTypeMatches' /\ BindingsOutliveReaders'
  BY <1>1 DEF CallbackTypeMatches, BindingsOutliveReaders, historyVars
<1>5. SubmissionOrder' /\ EverySubscriptionBound'
  BY <1>1 DEF SubmissionOrder, EverySubscriptionBound, historyVars
<1>6. TransportUp'
  BY <1>1 DEF TransportUp, handleVars
<1>7. QED BY <1>1, <1>2, <1>3, <1>4, <1>5, <1>6

\* subscribe after post_activate, up to the new reader.
LEMMA SubscribeCreateInv ==
  ASSUME ServiceInv, NEW t \in Topics, NEW ty \in Types, SubscribeCreate(t, ty)
  PROVE  ServiceInv'
<1> USE DEF ServiceInv, SubscribeCreate, SubscribeChecks
<1>1. /\ topicTypes'[t] = ty /\ topicTypes' \in [Topics -> Types \union {NoType}]
      /\ \A u \in Topics : topicTypes[u] # NoType => topicTypes'[u] = topicTypes[u]
  BY Remembered
<1>2. ReaderStep(t, ty)
  BY DEF ReaderStep
<1>3. /\ RuntimeInv' /\ BoundCalls' = BoundCalls
      /\ ParticipantInv' /\ EmptyInv' /\ PendingInv'
      /\ TopicTypeAgreement' /\ CallbackTypeMatches'
      /\ SubmissionOrder' /\ EverySubscriptionBound'
      /\ BindingsOutliveReaders' /\ TransportUp'
  BY <1>1, <1>2, ReaderMadeKeeps
<1>4. /\ DOMAIN readers' = DOMAIN readers \union {Len(readers) + 1}
      /\ readers'[Len(readers) + 1] = [topic |-> t, type |-> ty, onSample |-> 0]
      /\ Len(readers) \in Nat /\ Len(subs) \in Nat
  BY AppendReader DEF CreateReader, RuntimeInv, RuntimeTypeOK, TypeOK
<1>5. TypeOK'
  BY <1>1, <1>3, <1>4 DEF TypeOK, RuntimeInv, historyVars
<1>6. ControlInv' /\ FlushInv'
  BY DEF ControlInv, FlushInv, TypeOK, LifecycleState
<1>7. BindingInv'
  BY <1>4 DEF BindingInv, historyVars
<1>8. QED BY <1>3, <1>5, <1>6, <1>7

\* subscribe after post_activate throws from create_reader.
LEMMA SubscribeThrowsInv ==
  ASSUME ServiceInv, NEW t \in Topics, NEW ty \in Types, SubscribeThrows(t, ty)
  PROVE  ServiceInv'
<1> USE DEF ServiceInv, SubscribeThrows, SubscribeChecks
<1>1. /\ topicTypes'[t] = ty /\ topicTypes' \in [Topics -> Types \union {NoType}]
      /\ \A u \in Topics : topicTypes[u] # NoType => topicTypes'[u] = topicTypes[u]
  BY Remembered
<1>2. ReaderStep(t, ty)
  BY DEF ReaderStep
<1>3. /\ RuntimeInv' /\ BoundCalls' = BoundCalls
      /\ ParticipantInv' /\ EmptyInv' /\ PendingInv'
      /\ TopicTypeAgreement' /\ CallbackTypeMatches'
      /\ SubmissionOrder' /\ EverySubscriptionBound'
      /\ BindingsOutliveReaders' /\ TransportUp'
  BY <1>1, <1>2, ReaderMadeKeeps DEF controlVars
<1>4. TypeOK'
  BY <1>1, <1>3 DEF TypeOK, RuntimeInv, historyVars, controlVars
<1>5. ControlInv' /\ FlushInv' /\ BindingInv'
  BY DEF ControlInv, FlushInv, BindingInv, controlVars
<1>6. QED BY <1>3, <1>4, <1>5

\* A staged thunk creates its reader.
LEMMA FlushCreateInv ==
  ASSUME ServiceInv, FlushCreate
  PROVE  ServiceInv'
<1> USE DEF ServiceInv, FlushCreate, Flushing
<1> DEFINE reg == pending[next]
<1>1. /\ next \in DOMAIN pending /\ reg.topic \in Topics
      /\ reg.type \in Adapted /\ reg.type \in Types
      /\ topicTypes[reg.topic] = reg.type
  BY PendingFields DEF TypeOK, TopicTypeAgreement
<1>2. ReaderStep(reg.topic, reg.type)
  BY DEF ReaderStep
<1>3. /\ RuntimeInv' /\ BoundCalls' = BoundCalls
      /\ ParticipantInv' /\ EmptyInv' /\ PendingInv'
      /\ TopicTypeAgreement' /\ CallbackTypeMatches'
      /\ SubmissionOrder' /\ EverySubscriptionBound'
      /\ BindingsOutliveReaders' /\ TransportUp'
  BY <1>1, <1>2, ReaderMadeKeeps DEF stateVars, TypeOK, ControlInv
<1>4. /\ DOMAIN readers' = DOMAIN readers \union {Len(readers) + 1}
      /\ readers'[Len(readers) + 1] =
           [topic |-> reg.topic, type |-> reg.type, onSample |-> 0]
      /\ Len(readers) \in Nat
  BY <1>1, AppendReader DEF CreateReader, RuntimeInv, RuntimeTypeOK
<1>5. reg.call = next /\ reg.call \in Nat
  BY <1>1, PendingFields DEF PendingInv
<1>6. TypeOK'
  BY <1>3, <1>4, <1>5 DEF TypeOK, RuntimeInv, historyVars, stateVars
<1>7. ControlInv' /\ FlushInv'
  BY <1>3 DEF ControlInv, FlushInv, stateVars
<1>8. BindingInv'
  BY <1>1, <1>4, <1>5 DEF BindingInv, stateVars
<1>9. QED BY <1>3, <1>6, <1>7, <1>8

\* A staged thunk throws: the flush ends where it was.
LEMMA FlushThrowsInv ==
  ASSUME ServiceInv, FlushThrows
  PROVE  ServiceInv'
<1> USE DEF ServiceInv, FlushThrows, Flushing
<1> DEFINE reg == pending[next]
<1>1. /\ next \in DOMAIN pending /\ reg.topic \in Topics /\ reg.type \in Types
      /\ topicTypes[reg.topic] = reg.type
  BY PendingFields DEF TypeOK, TopicTypeAgreement
<1>2. ReaderStep(reg.topic, reg.type)
  BY DEF ReaderStep
<1>3. /\ RuntimeInv' /\ BoundCalls' = BoundCalls
      /\ ParticipantInv' /\ EmptyInv' /\ PendingInv'
      /\ TopicTypeAgreement' /\ CallbackTypeMatches'
      /\ SubmissionOrder' /\ EverySubscriptionBound'
      /\ BindingsOutliveReaders' /\ TransportUp'
  BY <1>1, <1>2, ReaderMadeKeeps DEF stateVars, TypeOK, ControlInv
<1>4. TypeOK'
  BY <1>3 DEF TypeOK, RuntimeInv, historyVars, stateVars
<1>5. ControlInv' /\ FlushInv' /\ BindingInv'
  BY DEF ControlInv, FlushInv, BindingInv, stateVars
<1>6. QED BY <1>3, <1>4, <1>5

\* A subscription after post_activate is bound, and accepted as the newest.
LEMMA SubscribeInstallInv ==
  ASSUME ServiceInv, SubscribeInstall
  PROVE  ServiceInv'
<1> USE DEF ServiceInv, SubscribeInstall
<1> DEFINE r == binding.reader
<1>1. /\ binding # NoBinding /\ r \in DOMAIN readers
      /\ readers[r].type \in Adapted /\ readers[r].topic \in Topics
      /\ binding.call = Len(subs) + 1 /\ Len(subs) \in Nat
  BY ReaderFields DEF InstallBinding, BindingInv, TypeOK
<1>2. /\ RuntimeInv' /\ BoundCalls' = BoundCalls \union {Len(subs) + 1}
      /\ DOMAIN readers' = DOMAIN readers
      /\ \A i \in DOMAIN readers :
           /\ readers'[i].topic = readers[i].topic
           /\ readers'[i].type = readers[i].type
           /\ readers'[i].onSample = IF i = r THEN Len(subs) + 1 ELSE readers[i].onSample
  BY <1>1, CallbackInstalled
<1>3. /\ subs' \in Seq([topic : Topics, type : Adapted])
      /\ DOMAIN subs' = DOMAIN subs \union {Len(subs) + 1}
      /\ \A i \in DOMAIN subs : subs'[i] = subs[i]
      /\ subs'[Len(subs) + 1] = [topic |-> readers[r].topic, type |-> readers[r].type]
  BY <1>1 DEF TypeOK
<1>4. /\ UNCHANGED <<handleVars, tableVars, serviceParticipant, publishers, writers,
                     state, topicConfig, pending, publisherCache, topicTypes,
                     supplied, next>>
      /\ binding' = NoBinding /\ pc = "subscribe" /\ pc' = "idle"
      /\ subscriberBindings' = subscriberBindings \union {r}
  BY DEF InstallBinding
<1>5. TypeOK'
  BY <1>1, <1>2, <1>3, <1>4 DEF TypeOK, RuntimeInv, NoBinding, RuntimeTypeOK
<1>6. ControlInv' /\ ParticipantInv' /\ EmptyInv' /\ BindingInv' /\ FlushInv'
  BY <1>1, <1>2, <1>4 DEF ControlInv, ParticipantInv, EmptyInv, BindingInv,
     FlushInv, handleVars
<1>7. PendingInv'
  BY <1>3, <1>4 DEF PendingInv, ControlInv
<1>8. TopicTypeAgreement'
  BY <1>2, <1>4 DEF TopicTypeAgreement, tableVars
<1>9. CallbackTypeMatches'
  BY <1>2, <1>3 DEF CallbackTypeMatches
<1>10. DOMAIN subs \subseteq BoundCalls
  BY <1>4 DEF ControlInv, EverySubscriptionBound
<1>11. DOMAIN subs' \subseteq BoundCalls'
  BY <1>2, <1>3, <1>10
<1>12. SubmissionOrder'
  BY <1>1, <1>2, <1>10 DEF SubmissionOrder, TypeOK
<1>13. EverySubscriptionBound'
  BY <1>11 DEF EverySubscriptionBound
<1>14. BindingsOutliveReaders' /\ TransportUp'
  BY <1>1, <1>2, <1>4 DEF BindingsOutliveReaders, TransportUp, ControlInv, handleVars
<1>15. QED BY <1>2, <1>5, <1>6, <1>7, <1>8, <1>9, <1>12, <1>13, <1>14

\* A staged thunk binds its callback; those before it are bound already, by
\* this post_activate or an earlier one.
LEMMA FlushInstallInv ==
  ASSUME ServiceInv, FlushInstall
  PROVE  ServiceInv'
<1> USE DEF ServiceInv, FlushInstall
<1> DEFINE r == binding.reader
<1>1. /\ r \in DOMAIN readers /\ next \in DOMAIN pending /\ binding.call = next
      /\ next \in Nat \ {0} /\ Len(pending) \in Nat /\ next <= Len(pending)
      /\ readers[r].topic = pending[next].topic /\ readers[r].type = pending[next].type
  BY DEF InstallBinding, BindingInv, TypeOK
<1>2. /\ RuntimeInv' /\ BoundCalls' = BoundCalls \union {next}
      /\ DOMAIN readers' = DOMAIN readers
      /\ \A i \in DOMAIN readers :
           /\ readers'[i].topic = readers[i].topic
           /\ readers'[i].type = readers[i].type
           /\ readers'[i].onSample = IF i = r THEN next ELSE readers[i].onSample
  BY <1>1, CallbackInstalled
<1>3. /\ UNCHANGED <<handleVars, tableVars, serviceParticipant, publishers, writers,
                     state, topicConfig, pending, publisherCache, topicTypes,
                     supplied, pc, subs>>
      /\ binding' = NoBinding /\ pc = "flush" /\ next' = next + 1
      /\ subscriberBindings' = subscriberBindings \union {r}
  BY DEF InstallBinding
<1>4. TypeOK'
  <2>1. next' \in Nat \ {0}
    BY <1>1, <1>3
  <2>2. r \in Nat /\ RuntimeTypeOK'
    BY <1>2 DEF TypeOK, RuntimeInv
  <2>3. QED BY <1>3, <2>1, <2>2 DEF TypeOK, NoBinding
<1>5. ControlInv' /\ ParticipantInv' /\ EmptyInv' /\ PendingInv' /\ BindingInv'
  BY <1>1, <1>2, <1>3 DEF ControlInv, ParticipantInv, EmptyInv, PendingInv,
     BindingInv, handleVars
<1>6. TopicTypeAgreement'
  BY <1>2, <1>3 DEF TopicTypeAgreement, tableVars
<1>7. CallbackTypeMatches'
  BY <1>1, <1>2, <1>3 DEF CallbackTypeMatches, PendingInv
<1>8. 1 .. (next - 1) \subseteq BoundCalls
  BY <1>3 DEF FlushInv
<1>9. FlushInv'
  BY <1>1, <1>2, <1>3, <1>8 DEF FlushInv
<1>10. SubmissionOrder'
  BY <1>1, <1>2, <1>8 DEF SubmissionOrder
<1>11. EverySubscriptionBound'
  BY <1>3 DEF EverySubscriptionBound, ControlInv
<1>12. BindingsOutliveReaders' /\ TransportUp'
  BY <1>1, <1>2, <1>3 DEF BindingsOutliveReaders, TransportUp, handleVars
<1>13. QED BY <1>2, <1>4, <1>5, <1>6, <1>7, <1>9, <1>10, <1>11, <1>12

\* The flush is over: every thunk has run.
LEMMA FlushDoneInv ==
  ASSUME ServiceInv, FlushDone
  PROVE  ServiceInv'
<1> USE DEF ServiceInv, FlushDone, Flushing
<1>1. RuntimeInv' /\ BoundCalls' = BoundCalls
  BY RuntimeUnchanged
<1>2. UNCHANGED <<handleVars, tableVars, entityVars, readers, writers, topics>>
  BY DEF runtimeVars, entityVars, tableVars
<1>3. <<>> \in Seq(Registration)
  OBVIOUS
<1>4. TypeOK'
  BY <1>1, <1>3 DEF TypeOK, RuntimeInv, LifecycleState, historyVars
<1>5. ControlInv' /\ ParticipantInv' /\ EmptyInv' /\ PendingInv' /\ BindingInv' /\ FlushInv'
  BY <1>2 DEF ControlInv, ParticipantInv, EmptyInv, PendingInv, BindingInv,
     FlushInv, handleVars, historyVars
<1>6. TopicTypeAgreement' /\ CallbackTypeMatches' /\ SubmissionOrder'
  BY <1>1, <1>2 DEF TopicTypeAgreement, CallbackTypeMatches, SubmissionOrder, historyVars
<1>7. DOMAIN subs \subseteq BoundCalls
  <2>1. /\ 1 .. (next - 1) \subseteq BoundCalls /\ next > Len(pending)
        /\ Len(pending) = Len(subs)
    BY DEF FlushInv, PendingInv, ControlInv
  <2>2. next \in Nat /\ Len(subs) \in Nat /\ DOMAIN subs = 1 .. Len(subs)
    BY DEF TypeOK
  <2>3. QED BY <2>1, <2>2
<1>8. EverySubscriptionBound'
  BY <1>1, <1>7 DEF EverySubscriptionBound, historyVars
<1>9. BindingsOutliveReaders' /\ TransportUp'
  BY <1>2 DEF BindingsOutliveReaders, TransportUp, ControlInv, handleVars,
     ParticipantInv
<1>10. QED BY <1>1, <1>4, <1>5, <1>6, <1>8, <1>9

\* post_activate returns.
LEMMA PostActivateEndInv ==
  ASSUME ServiceInv, PostActivateEnd
  PROVE  ServiceInv'
<1> USE DEF ServiceInv, PostActivateEnd
<1>1. RuntimeInv' /\ BoundCalls' = BoundCalls
  BY RuntimeUnchanged
<1>2. UNCHANGED <<handleVars, tableVars, entityVars, readers, writers, topics>>
  BY DEF runtimeVars, entityVars, tableVars
<1>3. TypeOK'
  BY <1>1 DEF TypeOK, RuntimeInv, LifecycleState, historyVars
<1>4. ControlInv' /\ ParticipantInv' /\ EmptyInv' /\ PendingInv' /\ BindingInv' /\ FlushInv'
  BY <1>2 DEF ControlInv, ParticipantInv, EmptyInv, PendingInv, BindingInv,
     FlushInv, handleVars, historyVars
<1>5. TopicTypeAgreement' /\ CallbackTypeMatches' /\ SubmissionOrder'
      /\ EverySubscriptionBound'
  BY <1>1, <1>2 DEF TopicTypeAgreement, CallbackTypeMatches, SubmissionOrder,
     EverySubscriptionBound, historyVars
<1>6. BindingsOutliveReaders' /\ TransportUp'
  BY <1>2 DEF BindingsOutliveReaders, TransportUp, handleVars
<1>7. QED BY <1>1, <1>3, <1>4, <1>5, <1>6

\* pre_activate, with either outcome.
LEMMA PreActivateInv ==
  ASSUME ServiceInv, NEW c \in Configs \union {NoConfig}, PreActivate(c)
  PROVE  ServiceInv'
<1> USE DEF ServiceInv, PreActivate
<1>1. ~participant /\ readers = <<>> /\ writers = <<>> /\ state = "Created"
  BY DEF ParticipantInv
<1>2. RuntimeInv'
  BY <1>1, LifecycleStepInv
<1>3. /\ UNCHANGED <<readers, writers, topics, publisher, subscriber>>
      /\ UNCHANGED <<pending, subscriberBindings, publisherCache, topicTypes,
                     pc, next, binding, subs>>
  BY DEF InitRuntime, InitRuntimeThrows, entityVars, tableVars, controlVars
<1>4. /\ topicConfig' \in Configs \union {NoConfig}
      /\ supplied' \in Configs \union {NoConfig}
      /\ \/ state' = "PreActivated" /\ participant'
         \/ state' = "Created" /\ ~participant'
  BY <1>1 DEF TypeOK, InitRuntime, InitRuntimeThrows
<1>5. TypeOK'
  BY <1>2, <1>3, <1>4 DEF TypeOK, RuntimeInv, LifecycleState
<1>6. ControlInv' /\ ParticipantInv' /\ EmptyInv'
  BY <1>1, <1>3, <1>4 DEF ControlInv, ParticipantInv, EmptyInv
<1>7. PendingInv' /\ BindingInv' /\ FlushInv'
  BY <1>1, <1>3 DEF PendingInv, BindingInv, FlushInv, EmptyInv, ControlInv
<1>8. TopicTypeAgreement' /\ CallbackTypeMatches'
  BY <1>3 DEF TopicTypeAgreement, CallbackTypeMatches
<1>9. SubmissionOrder' /\ EverySubscriptionBound'
  BY <1>3, <1>4 DEF SubmissionOrder, EverySubscriptionBound, BoundCalls
<1>10. BindingsOutliveReaders' /\ TransportUp'
  BY <1>1, <1>3, <1>4 DEF BindingsOutliveReaders, TransportUp, ControlInv
<1>11. QED BY <1>2, <1>5, <1>6, <1>7, <1>8, <1>9, <1>10

\* post_activate brings the transport up, or fails to.
LEMMA PostActivateBeginInv ==
  ASSUME ServiceInv, PostActivateBegin \/ PostActivateThrows
  PROVE  ServiceInv'
<1> USE DEF ServiceInv
<1>1. /\ ActivateRuntime \/ ActivateRuntimeThrows
      /\ UNCHANGED <<stateVars, binding, historyVars>>
      /\ state = "PreActivated" /\ pc = "idle"
      /\ \/ pc' = "flush" /\ next' = 1 /\ ActivateRuntime
         \/ UNCHANGED <<pc, next>>
  BY DEF PostActivateBegin, PostActivateThrows, serviceVars, controlVars
<1>2. RuntimeInv'
  BY <1>1, LifecycleStepInv
<1>3. UNCHANGED <<participant, topics, readers, writers>>
  BY <1>1 DEF ActivateRuntime, ActivateRuntimeThrows, tableVars
<1>4. UNCHANGED <<state, topicConfig, pending, subscriberBindings,
                  publisherCache, topicTypes, subs, supplied, binding>>
  BY <1>1 DEF stateVars, historyVars
<1>5. ActivateRuntime => participant' /\ publisher' # 0 /\ subscriber' # 0
  BY DEF ActivateRuntime, RuntimeInv, RuntimeTypeOK
<1>6. TypeOK'
  BY <1>1, <1>2, <1>4 DEF TypeOK, RuntimeInv
<1>7. ControlInv' /\ ParticipantInv' /\ EmptyInv' /\ PendingInv'
  BY <1>1, <1>3, <1>4 DEF ControlInv, ParticipantInv, EmptyInv, PendingInv
<1>8. BindingInv'
  BY <1>1, <1>4 DEF BindingInv, ControlInv
<1>9. FlushInv'
  BY <1>1, <1>4 DEF FlushInv, TypeOK
<1>10. TopicTypeAgreement' /\ CallbackTypeMatches' /\ SubmissionOrder'
  BY <1>3, <1>4 DEF TopicTypeAgreement, CallbackTypeMatches, SubmissionOrder, BoundCalls
<1>11. EverySubscriptionBound' /\ BindingsOutliveReaders' /\ TransportUp'
  BY <1>1, <1>3, <1>4, <1>5 DEF EverySubscriptionBound, BindingsOutliveReaders,
     TransportUp
<1>12. QED BY <1>2, <1>6, <1>7, <1>8, <1>9, <1>10, <1>11

\* deactivate, up to the call of shutdown, or all of it in Created.
LEMMA DeactivateBeginInv ==
  ASSUME ServiceInv, DeactivateUnused \/ DeactivateBegin
  PROVE  ServiceInv'
<1> USE DEF ServiceInv
<1>1. /\ UNCHANGED <<runtimeVars, pending, subscriberBindings, publisherCache,
                     topicTypes, topicConfig, next, binding, historyVars>>
      /\ pc = "idle"
      /\ \/ state = "Created" /\ state' = "Deactivated" /\ pc' = "idle"
         \/ state \notin {"Created", "Deactivated"} /\ state' = state /\ pc' = "shutdown"
  BY DEF DeactivateUnused, DeactivateBegin, stateVars, controlVars
<1>2. RuntimeInv' /\ BoundCalls' = BoundCalls
  BY <1>1, RuntimeUnchanged
<1>3. UNCHANGED <<handleVars, readers, writers, topics>>
  BY <1>1 DEF runtimeVars, entityVars, tableVars
<1>4. TypeOK'
  BY <1>1, <1>2 DEF TypeOK, RuntimeInv, LifecycleState, historyVars
<1>5. ControlInv' /\ ParticipantInv' /\ EmptyInv'
  BY <1>1, <1>3 DEF ControlInv, ParticipantInv, EmptyInv, handleVars, historyVars
<1>6. PendingInv' /\ BindingInv' /\ FlushInv'
  BY <1>1 DEF PendingInv, BindingInv, FlushInv, ControlInv, EmptyInv, historyVars
<1>7. TopicTypeAgreement' /\ CallbackTypeMatches' /\ SubmissionOrder'
      /\ EverySubscriptionBound'
  BY <1>1, <1>2, <1>3 DEF TopicTypeAgreement, CallbackTypeMatches, SubmissionOrder,
     EverySubscriptionBound, historyVars
<1>8. BindingsOutliveReaders' /\ TransportUp'
  BY <1>1, <1>3 DEF BindingsOutliveReaders, TransportUp, handleVars
<1>9. QED BY <1>2, <1>4, <1>5, <1>6, <1>7, <1>8

\* shutdown deletes every entity before the bindings go.
LEMMA ShutdownReturnsInv ==
  ASSUME ServiceInv, ShutdownReturns
  PROVE  ServiceInv'
<1> USE DEF ServiceInv, ShutdownReturns
<1>1. participant
  BY DEF ParticipantInv, ControlInv
<1>2. RuntimeInv'
  BY LifecycleStepInv
<1>3. ~participant' /\ readers' = <<>> /\ writers' = <<>> /\ topics' = NoTopics
  BY <1>1 DEF ShutdownRuntime
<1>4. /\ UNCHANGED <<state, topicConfig, pending, subscriberBindings, publisherCache,
                     topicTypes, next, binding, subs, supplied>>
      /\ pc' = "release" /\ pc = "shutdown" /\ binding = NoBinding
  BY DEF stateVars, historyVars, ControlInv
<1>5. TypeOK'
  BY <1>2, <1>4 DEF TypeOK, RuntimeInv
<1>6. ControlInv' /\ ParticipantInv' /\ EmptyInv'
  BY <1>3, <1>4 DEF ControlInv, ParticipantInv, EmptyInv
<1>7. PendingInv' /\ BindingInv' /\ FlushInv'
  BY <1>4 DEF PendingInv, BindingInv, FlushInv
<1>8. TopicTypeAgreement'
  BY <1>3, <1>4 DEF TopicTypeAgreement, NoTopics
<1>9. CallbackTypeMatches' /\ SubmissionOrder' /\ EverySubscriptionBound'
  BY <1>3, <1>4 DEF CallbackTypeMatches, SubmissionOrder, EverySubscriptionBound,
     BoundCalls
<1>10. BindingsOutliveReaders' /\ TransportUp'
  BY <1>3, <1>4 DEF BindingsOutliveReaders, TransportUp
<1>11. QED BY <1>2, <1>5, <1>6, <1>7, <1>8, <1>9, <1>10

\* The rest of deactivate releases what the service itself holds.
LEMMA ReleaseBindingsInv ==
  ASSUME ServiceInv, ReleaseBindings
  PROVE  ServiceInv'
<1> USE DEF ServiceInv, ReleaseBindings
<1>1. RuntimeInv' /\ BoundCalls' = BoundCalls
  BY RuntimeUnchanged
<1>2. ~participant /\ readers = <<>> /\ writers = <<>> /\ topics = NoTopics
  BY DEF ParticipantInv, RuntimeInv, NoDanglingHandle
<1>3. UNCHANGED <<participant, readers, writers, topics>>
  BY DEF runtimeVars, handleVars, entityVars, tableVars
<1>4. /\ <<>> \in Seq(Registration) /\ EmptyCache \in [Topics -> Nat]
      /\ NoTopics \in [Topics -> Types \union {NoType}]
  BY DEF EmptyCache, NoTopics
<1>5. TypeOK'
  BY <1>1, <1>4 DEF TypeOK, RuntimeInv, LifecycleState, historyVars
<1>6. ControlInv' /\ ParticipantInv' /\ EmptyInv'
  BY <1>2, <1>3 DEF ControlInv, ParticipantInv, EmptyInv
<1>7. PendingInv' /\ BindingInv' /\ FlushInv'
  BY DEF PendingInv, BindingInv, FlushInv, ControlInv
<1>8. TopicTypeAgreement' /\ CallbackTypeMatches'
  BY <1>2, <1>3 DEF TopicTypeAgreement, CallbackTypeMatches, NoTopics
<1>9. SubmissionOrder' /\ EverySubscriptionBound'
  BY <1>1 DEF SubmissionOrder, EverySubscriptionBound
<1>10. BindingsOutliveReaders' /\ TransportUp'
  BY <1>2, <1>3 DEF BindingsOutliveReaders, TransportUp, EmptyCache
<1>11. QED BY <1>1, <1>5, <1>6, <1>7, <1>8, <1>9, <1>10

\* publish, with every outcome, from any thread while the transport is up.
LEMMA PublishInv ==
  ASSUME ServiceInv, NEW t \in Topics, NEW ty \in Types, pc # "release",
         \/ PublishCached(t, ty) \/ PublishFirst(t, ty)
         \/ PublishThrows(t, ty) \/ PublishRejected(t, ty),
         UNCHANGED publishFrame
  PROVE  ServiceInv'
<1> USE DEF ServiceInv
<1>1. UNCHANGED <<state, topicConfig, pending, subscriberBindings,
                  pc, next, binding, subs, supplied>>
  BY DEF publishFrame, controlVars, historyVars
<1>2. /\ RuntimeInv' /\ TopicTypeAgreement'
      /\ UNCHANGED <<handleVars, readers>>
      /\ topicTypes' \in [Topics -> Types \union {NoType}]
      /\ \A i \in DOMAIN writers : i \in DOMAIN writers' /\ writers'[i] = writers[i]
      /\ state \in {"Created", "Deactivated"} => UNCHANGED <<topicTypes, writers>>
  <2>1. CASE PublishRejected(t, ty)
    <3>1. RuntimeInv' /\ UNCHANGED <<handleVars, readers, writers, topics, topicTypes>>
      BY <2>1, RuntimeUnchanged DEF PublishRejected, runtimeVars, entityVars, tableVars
    <3>2. QED BY <1>1, <3>1 DEF TopicTypeAgreement, TypeOK
  <2>2. CASE PublishChecks(t, ty) /\ UNCHANGED runtimeVars
    <3>1. RuntimeInv' /\ UNCHANGED <<handleVars, readers, writers, topics>>
      BY <2>2, RuntimeUnchanged DEF runtimeVars, entityVars, tableVars
    <3>2. QED BY <1>1, <2>2, <3>1, Remembered DEF PublishChecks, TopicTypeAgreement
  <2>3. CASE PublishChecks(t, ty) /\ WriterStep(t, ty)
    <3>1. /\ topicTypes' \in [Topics -> Types \union {NoType}] /\ topicTypes'[t] = ty
          /\ \A u \in Topics : topicTypes[u] # NoType => topicTypes'[u] = topicTypes[u]
      BY <2>3, Remembered DEF PublishChecks
    <3>2. QED BY <1>1, <2>3, <3>1, WriterMade DEF PublishChecks
  <2>4. QED BY <2>1, <2>2, <2>3 DEF PublishCached, PublishFirst, PublishThrows, WriterStep
<1>3. /\ publisherCache' \in [Topics -> Nat]
      /\ \A u \in Topics : \/ publisherCache'[u] = publisherCache[u]
                           \/ /\ u = t /\ publisherCache'[u] \in DOMAIN writers'
                              /\ writers'[publisherCache'[u]].topic = t
      /\ state # "PostActivated" => publisherCache' = publisherCache
  <2>1. CASE UNCHANGED publisherCache
    BY <2>1 DEF TypeOK
  <2>2. CASE PublishFirst(t, ty)
    <3>1. /\ Len(writers) + 1 \in DOMAIN writers' /\ Len(writers) \in Nat
          /\ writers'[Len(writers) + 1] = [topic |-> t, type |-> ty]
      BY <2>2, AppendWriter DEF PublishFirst, CreateWriter, RuntimeInv, RuntimeTypeOK
    <3>2. QED BY <2>2, <3>1 DEF PublishFirst, PublishChecks, TypeOK
  <2>3. QED BY <2>1, <2>2 DEF PublishCached, PublishThrows, PublishRejected
<1>4. BoundCalls' = BoundCalls
  BY <1>2 DEF BoundCalls
<1>5. TypeOK'
  BY <1>1, <1>2, <1>3 DEF TypeOK, RuntimeInv
<1>6. ControlInv' /\ ParticipantInv' /\ EmptyInv'
  BY <1>1, <1>2, <1>3 DEF ControlInv, ParticipantInv, EmptyInv, handleVars
<1>7. PendingInv' /\ BindingInv' /\ FlushInv'
  BY <1>1, <1>2, <1>4 DEF PendingInv, BindingInv, FlushInv
<1>8. CallbackTypeMatches' /\ SubmissionOrder' /\ EverySubscriptionBound'
  BY <1>1, <1>2, <1>4 DEF CallbackTypeMatches, SubmissionOrder, EverySubscriptionBound
<1>9. BindingsOutliveReaders' /\ TransportUp'
  BY <1>1, <1>2, <1>3 DEF BindingsOutliveReaders, TransportUp, handleVars
<1>10. QED BY <1>2, <1>5, <1>6, <1>7, <1>8, <1>9

-----------------------------------------------------------------------------
\* The service starts in the invariant.
LEMMA ServiceInvInit == Init => ServiceInv
<1> SUFFICES ASSUME Init PROVE ServiceInv
  OBVIOUS
<1> USE DEF Init
<1>1. RuntimeInv
  BY RuntimeInvInit
<1>2. readers = <<>> /\ writers = <<>> /\ topics = NoTopics /\ ~participant
  BY DEF RuntimeInit
<1>3. /\ <<>> \in Seq(Registration) /\ EmptyCache \in [Topics -> Nat]
      /\ <<>> \in Seq([topic : Topics, type : Adapted])
      /\ NoTopics \in [Topics -> Types \union {NoType}]
  BY DEF EmptyCache, NoTopics
<1>4. TypeOK
  BY <1>1, <1>3 DEF TypeOK, RuntimeInv, LifecycleState, NoBinding
<1>5. ControlInv /\ ParticipantInv /\ EmptyInv /\ PendingInv /\ BindingInv /\ FlushInv
  BY <1>2 DEF ControlInv, ParticipantInv, EmptyInv, PendingInv, BindingInv, FlushInv
<1>6. TopicTypeAgreement /\ CallbackTypeMatches
  BY <1>2 DEF TopicTypeAgreement, CallbackTypeMatches, NoTopics
<1>7. SubmissionOrder /\ EverySubscriptionBound
  BY <1>2 DEF SubmissionOrder, EverySubscriptionBound, BoundCalls
<1>8. BindingsOutliveReaders /\ TransportUp
  BY <1>2 DEF BindingsOutliveReaders, TransportUp, EmptyCache
<1>9. QED BY <1>1, <1>4, <1>5, <1>6, <1>7, <1>8 DEF ServiceInv

\* A step that changes nothing.
LEMMA ServiceInvStutter ==
  ASSUME ServiceInv, UNCHANGED vars
  PROVE  ServiceInv'
<1> USE DEF ServiceInv, vars, serviceVars, stateVars, controlVars, historyVars
<1>1. RuntimeInv' /\ BoundCalls' = BoundCalls
  BY RuntimeUnchanged
<1>2. UNCHANGED <<handleVars, readers, writers, topics>>
  BY DEF runtimeVars, entityVars, tableVars
<1>3. TypeOK'
  BY <1>1 DEF TypeOK, RuntimeInv
<1>4. ControlInv' /\ ParticipantInv' /\ EmptyInv' /\ PendingInv' /\ BindingInv' /\ FlushInv'
  BY <1>1, <1>2 DEF ControlInv, ParticipantInv, EmptyInv, PendingInv, BindingInv,
     FlushInv, handleVars
<1>5. /\ TopicTypeAgreement' /\ CallbackTypeMatches' /\ SubmissionOrder'
      /\ EverySubscriptionBound' /\ BindingsOutliveReaders' /\ TransportUp'
  BY <1>1, <1>2 DEF TopicTypeAgreement, CallbackTypeMatches, SubmissionOrder,
     EverySubscriptionBound, BindingsOutliveReaders, TransportUp, handleVars
<1>6. QED BY <1>1, <1>3, <1>4, <1>5

\* Every step of the facade keeps the invariant.
LEMMA ServiceInvStep == ServiceInv /\ [Next]_vars => ServiceInv'
<1> SUFFICES ASSUME ServiceInv, [Next]_vars PROVE ServiceInv'
  OBVIOUS
<1>1. CASE \E c \in Configs \union {NoConfig} : PreActivate(c)
  BY <1>1, PreActivateInv
<1>2. CASE \E t \in Topics, ty \in Types :
             \/ SubscribeUnadapted(t, ty) \/ SubscribeStaged(t, ty)
             \/ SubscribeCreate(t, ty)    \/ SubscribeThrows(t, ty)
  BY <1>2, SubscribeUnadaptedInv, SubscribeStagedInv, SubscribeCreateInv,
     SubscribeThrowsInv
<1>3. CASE \E t \in Topics, ty \in Types : Publish(t, ty)
  BY <1>3, PublishInv DEF Publish
<1>4. CASE SubscribeInstall
  BY <1>4, SubscribeInstallInv
<1>5. CASE PostActivateBegin \/ PostActivateThrows
  BY <1>5, PostActivateBeginInv
<1>6. CASE FlushCreate \/ FlushThrows \/ FlushInstall \/ FlushDone
  BY <1>6, FlushCreateInv, FlushThrowsInv, FlushInstallInv, FlushDoneInv
<1>7. CASE PostActivateEnd
  BY <1>7, PostActivateEndInv
<1>8. CASE DeactivateUnused \/ DeactivateBegin
  BY <1>8, DeactivateBeginInv
<1>9. CASE ShutdownReturns \/ ReleaseBindings
  BY <1>9, ShutdownReturnsInv, ReleaseBindingsInv
<1>10. CASE UNCHANGED vars
  BY <1>10, ServiceInvStutter
<1>11. QED BY <1>1, <1>2, <1>3, <1>4, <1>5, <1>6, <1>7, <1>8, <1>9, <1>10 DEF Next

\* Whatever the application calls and whichever DDS calls fail: the facade's
\* variables keep their types, and the type of a topic is the same for the
\* service, the runtime, each staged registration, each reader and each
\* writer (remember_topic_type, get_or_create_topic).  A type whose
\* registration failed has no topic, reader or writer.
THEOREM TypesAgree ==
  Spec => []( /\ TypeOK /\ TopicTypeAgreement /\ CallbackTypeMatches
              /\ EntityTypesAgree /\ FailedTypeUnusable )
<1>1. ServiceInv => TypeOK /\ TopicTypeAgreement /\ CallbackTypeMatches
  BY DEF ServiceInv
<1>2. ServiceInv => EntityTypesAgree /\ FailedTypeUnusable
  BY RuntimeInvUnusable DEF ServiceInv, RuntimeInv
<1>3. QED BY ServiceInvInit, ServiceInvStep, <1>1, <1>2, PTL DEF Spec

\* The staged registrations are realised in submission order, through failures
\* and retries of post_activate, and a service that is up has bound all of
\* them.
THEOREM SubscriptionsBound == Spec => [](SubmissionOrder /\ EverySubscriptionBound)
<1>1. ServiceInv => SubmissionOrder /\ EverySubscriptionBound
  BY DEF ServiceInv
<1>2. QED BY ServiceInvInit, ServiceInvStep, <1>1, PTL DEF Spec

\* A reader's binding outlives the reader, and a service that is up, and each
\* thunk of a flush, has its transport (activate, deactivate).
THEOREM EntitiesOwned == Spec => [](BindingsOutliveReaders /\ TransportUp)
<1>1. ServiceInv => BindingsOutliveReaders /\ TransportUp
  BY DEF ServiceInv
<1>2. QED BY ServiceInvInit, ServiceInvStep, <1>1, PTL DEF Spec

(***************************************************************************)
(* What deactivate leaves.  Between the two halves of deactivate the       *)
(* transport is stopped already, and without a participant there is no     *)
(* Publisher and no marked type.                                           *)
(***************************************************************************)
StoppedInv ==
  /\ ~participant => publishers = 0 /\ registeredTypes = {}
  /\ pc = "release" => ~factory /\ ~serviceParticipant

\* The steps of the facade by what they do to the transport.
LEMMA StoppedInvStep ==
  ASSUME ServiceInv, StoppedInv, [Next]_vars
  PROVE  StoppedInv'
<1> USE DEF ServiceInv, StoppedInv
<1>1. CASE UNCHANGED <<runtimeVars, pc>>
  BY <1>1 DEF runtimeVars, handleVars, tableVars, entityVars
<1>2. ASSUME UNCHANGED <<handleVars, serviceParticipant, publishers>>,
             pc' # "release", UNCHANGED tableVars \/ participant
      PROVE  StoppedInv'
  BY <1>2 DEF handleVars, tableVars
<1>3. ASSUME NEW c \in Configs \union {NoConfig}, PreActivate(c)
      PROVE  StoppedInv'
  BY <1>3 DEF PreActivate, InitRuntime, InitRuntimeThrows, ParticipantInv,
     tableVars, entityVars, controlVars
<1>4. ASSUME NEW t \in Topics, NEW ty \in Types, ReaderStep(t, ty), pc' # "release"
      PROVE  StoppedInv'
  BY <1>2, <1>4, ReaderStepEffect DEF RuntimeInv, NoDanglingHandle
<1>5. ASSUME NEW t \in Topics, NEW ty \in Types, WriterStep(t, ty), pc' # "release"
      PROVE  StoppedInv'
  BY <1>2, <1>5, WriterStepEffect DEF RuntimeInv, NoDanglingHandle
<1>6. ASSUME NEW t \in Topics, NEW ty \in Types,
             \/ SubscribeUnadapted(t, ty) \/ SubscribeStaged(t, ty)
             \/ SubscribeCreate(t, ty)    \/ SubscribeThrows(t, ty)
      PROVE  StoppedInv'
  <2>1. CASE SubscribeUnadapted(t, ty) \/ SubscribeStaged(t, ty)
    BY <1>1, <2>1 DEF SubscribeUnadapted, SubscribeStaged, controlVars
  <2>2. CASE SubscribeCreate(t, ty) \/ SubscribeThrows(t, ty)
    BY <1>4, <2>2 DEF SubscribeCreate, SubscribeThrows, SubscribeChecks,
       ReaderStep, controlVars
  <2>3. QED BY <1>6, <2>1, <2>2
<1>7. ASSUME NEW t \in Topics, NEW ty \in Types, Publish(t, ty)
      PROVE  StoppedInv'
  <2>1. pc = "idle" /\ UNCHANGED pc
    BY <1>7 DEF Publish, publishFrame, controlVars
  <2>2. UNCHANGED runtimeVars \/ WriterStep(t, ty)
    BY <1>7 DEF Publish, PublishCached, PublishFirst, PublishThrows,
       PublishRejected, WriterStep
  <2>3. QED BY <1>1, <1>5, <2>1, <2>2
<1>8. CASE SubscribeInstall \/ FlushInstall
  BY <1>2, <1>8 DEF SubscribeInstall, FlushInstall, InstallBinding
<1>9. CASE PostActivateBegin \/ PostActivateThrows
  BY <1>9 DEF PostActivateBegin, PostActivateThrows, ActivateRuntime,
     ActivateRuntimeThrows, serviceVars, controlVars, tableVars
<1>10. CASE FlushCreate \/ FlushThrows
  <2>1. Flushing /\ next \in DOMAIN pending
    BY <1>10 DEF FlushCreate, FlushThrows, TypeOK, Flushing
  <2>2. pending[next].topic \in Topics /\ pending[next].type \in Types
    BY <2>1, PendingFields
  <2>3. ReaderStep(pending[next].topic, pending[next].type) /\ pc' # "release"
    BY <1>10, <2>1 DEF FlushCreate, FlushThrows, Flushing, ReaderStep
  <2>4. QED BY <1>4, <2>2, <2>3
<1>11. CASE \/ FlushDone \/ PostActivateEnd \/ DeactivateUnused \/ DeactivateBegin
            \/ ReleaseBindings
  BY <1>11 DEF FlushDone, PostActivateEnd, DeactivateUnused, DeactivateBegin,
     ReleaseBindings, runtimeVars, handleVars, tableVars, entityVars, controlVars
<1>12. CASE ShutdownReturns
  <2>1. participant /\ factory
    BY <1>12 DEF ShutdownReturns, ParticipantInv, ControlInv, RuntimeInv,
       NoDanglingHandle
  <2>2. QED BY <1>12, <2>1 DEF ShutdownReturns, ShutdownRuntime
<1>13. CASE UNCHANGED vars
  BY <1>1, <1>13 DEF vars, serviceVars, controlVars
<1>14. QED BY <1>3, <1>6, <1>7, <1>8, <1>9, <1>10, <1>11, <1>12, <1>13 DEF Next

\* Only the second half of deactivate takes a service that left Created to
\* Deactivated.
LEMMA StoppedStep ==
  ASSUME ServiceInv, StoppedInv, Next, state \notin {"Created", "Deactivated"},
         state' = "Deactivated"
  PROVE  /\ ~factory' /\ ~serviceParticipant'
         /\ topicConfig' = NoConfig /\ topicTypes' = NoTopics
<1>1. ReleaseBindings
  <2>1. state' # state
    OBVIOUS
  <2>2. \A c \in Configs \union {NoConfig} : ~PreActivate(c)
    BY DEF PreActivate
  <2>3. \A t \in Topics, ty \in Types :
          ~ \/ SubscribeUnadapted(t, ty) \/ SubscribeStaged(t, ty)
            \/ SubscribeCreate(t, ty)    \/ SubscribeThrows(t, ty)
            \/ Publish(t, ty)
    BY <2>1 DEF SubscribeUnadapted, SubscribeStaged, SubscribeCreate,
       SubscribeThrows, Publish, publishFrame
  <2>4. ~ (SubscribeInstall \/ FlushInstall \/ FlushDone)
    BY <2>1 DEF SubscribeInstall, FlushInstall, InstallBinding, FlushDone
  <2>5. ~ (PostActivateBegin \/ PostActivateThrows \/ FlushCreate \/ FlushThrows)
    BY <2>1 DEF PostActivateBegin, PostActivateThrows, FlushCreate, FlushThrows,
       stateVars, serviceVars
  <2>6. ~ (PostActivateEnd \/ DeactivateUnused \/ DeactivateBegin \/ ShutdownReturns)
    BY <2>1 DEF PostActivateEnd, DeactivateUnused, DeactivateBegin,
       ShutdownReturns, stateVars
  <2>7. QED BY <2>2, <2>3, <2>4, <2>5, <2>6 DEF Next
<1>2. ~factory /\ ~serviceParticipant /\ UNCHANGED runtimeVars
      /\ topicConfig' = NoConfig /\ topicTypes' = NoTopics
  BY <1>1 DEF ReleaseBindings, StoppedInv
<1>3. QED BY <1>2 DEF runtimeVars, handleVars

\* Whatever failed before: after deactivate no handle, no table entry and no
\* entity is left, and when a pre_activate had succeeded the factory, the topic
\* policy and TheServiceParticipant are gone too (deactivate, shutdown).
THEOREM NothingRemains == Spec => NothingLeftBehind
<1>1. Init => StoppedInv
  BY DEF Init, RuntimeInit, StoppedInv
<1>2. ServiceInv /\ StoppedInv /\ [Next]_vars => StoppedInv'
  BY StoppedInvStep
<1>3. ServiceInv /\ StoppedInv => (state = "Deactivated" => NothingHeld)
  BY DEF ServiceInv, StoppedInv, NothingHeld, ParticipantInv, EmptyInv, RuntimeInv,
     NoDanglingHandle, MarkInv
<1>4. ServiceInv /\ ServiceInv' /\ StoppedInv /\ [Next]_vars => [LeavesNothing]_vars
  <2>1. SUFFICES ASSUME ServiceInv, ServiceInv', StoppedInv, Next PROVE LeavesNothing
    OBVIOUS
  <2>2. (state = "Deactivated" => NothingHeld)'
    <3>1. StoppedInv'
      BY <1>2, <2>1
    <3>2. QED BY <1>3, <2>1, <3>1, PTL
  <2>3. state' = "Deactivated" => NothingHeld'
    BY <2>2
  <2>4. QED BY <2>1, <2>3, StoppedStep DEF LeavesNothing
<1>5. QED BY ServiceInvInit, ServiceInvStep, <1>1, <1>2, <1>4, PTL
      DEF Spec, NothingLeftBehind

\* A sequence is a prefix of itself, also after an element was appended.
LEMMA PrefixOfAppend ==
  ASSUME NEW S, NEW s \in Seq(S)
  PROVE  /\ SubSeq(s, 1, Len(s)) = s
         /\ \A e \in S : SubSeq(Append(s, e), 1, Len(s)) = s
<1>1. ASSUME NEW u \in Seq(S), Len(s) <= Len(u), \A i \in 1 .. Len(s) : u[i] = s[i]
      PROVE  SubSeq(u, 1, Len(s)) = s
  <2>1. SubSeq(u, 1, Len(s)) = [i \in 1 .. Len(s) |-> u[i]]
    BY <1>1
  <2>2. s = [i \in 1 .. Len(s) |-> s[i]]
    OBVIOUS
  <2>3. QED BY <1>1, <2>1, <2>2
<1>2. QED BY <1>1

\* The history of accepted subscriptions only grows at its end.
LEMMA SubsGrow ==
  ASSUME ServiceInv, Next
  PROVE  SubSeq(subs', 1, Len(subs)) = subs
<1>1. subs \in Seq([topic : Topics, type : Adapted])
  BY DEF ServiceInv, TypeOK
<1>2. CASE UNCHANGED subs
  BY <1>1, <1>2, PrefixOfAppend
<1>3. CASE \E t \in Topics, ty \in Types : SubscribeStaged(t, ty)
  BY <1>1, <1>3, PrefixOfAppend DEF SubscribeStaged
<1>4. CASE SubscribeInstall
  <2>1. /\ binding.reader \in DOMAIN readers
        /\ readers[binding.reader].type \in Adapted
        /\ readers[binding.reader].topic \in Topics
    BY <1>4, ReaderFields DEF SubscribeInstall, InstallBinding, ServiceInv,
       BindingInv, TypeOK
  <2>2. QED BY <1>1, <1>4, <2>1, PrefixOfAppend DEF SubscribeInstall
<1>5. QED BY <1>2, <1>3, <1>4 DEF Next, PreActivate, SubscribeUnadapted,
     SubscribeCreate, SubscribeThrows, Publish, publishFrame, PostActivateBegin,
     PostActivateThrows, FlushCreate, FlushThrows, FlushInstall, FlushDone,
     PostActivateEnd, DeactivateUnused, DeactivateBegin, ShutdownReturns,
     ReleaseBindings, historyVars, serviceVars

\* A topic keeps its type until the last step of deactivate.
LEMMA TypesKept ==
  ASSUME ServiceInv, Next, NEW u \in Topics, topicTypes[u] # NoType
  PROVE  topicTypes'[u] = topicTypes[u] \/ state' = "Deactivated"
<1>1. CASE UNCHANGED topicTypes
  BY <1>1
<1>2. CASE \E t \in Topics, ty \in Types : RememberTopicType(t, ty)
  BY <1>2, Remembered DEF ServiceInv
<1>3. CASE ReleaseBindings
  BY <1>3 DEF ReleaseBindings
<1>4. QED BY <1>1, <1>2, <1>3 DEF Next, PreActivate, SubscribeUnadapted,
     SubscribeStaged, SubscribeCreate, SubscribeThrows, SubscribeChecks,
     SubscribeInstall, InstallBinding, Publish, PublishCached, PublishFirst,
     PublishThrows, PublishRejected, PublishChecks, PostActivateBegin,
     PostActivateThrows, FlushCreate, FlushThrows, FlushInstall, FlushDone,
     PostActivateEnd, DeactivateUnused, DeactivateBegin, ShutdownReturns,
     stateVars, serviceVars

\* An accepted subscription is never forgotten or changed, and a topic keeps
\* its type until deactivate, whatever is called and whatever fails.
THEOREM CommitmentsKept == Spec => Committed
<1>1. ServiceInv /\ [Next]_vars => [CommittedStep]_vars
  BY SubsGrow, TypesKept DEF CommittedStep
<1>2. QED BY ServiceInvInit, ServiceInvStep, <1>1, PTL DEF Spec, Committed

-----------------------------------------------------------------------------
(* The facade implements the contract (ServiceRefinement).  The phase of   *)
(* the contract follows the state and where the thread is; what the        *)
(* contract counts as bound are the callbacks bound, which are the oldest. *)

Bound == Cardinality(BoundCalls)

\* An initial segment of the positive numbers.
LEMMA Segment ==
  ASSUME NEW n \in Nat
  PROVE  IsFiniteSet(1 .. n) /\ Cardinality(1 .. n) = n
<1>1. Cardinality(1 .. n) = IF 1 > n THEN 0 ELSE n - 1 + 1
  BY FS_Interval, SMT
<1>2. IsFiniteSet(1 .. n)
  BY FS_Interval, SMT
<1>3. QED BY <1>1, <1>2

\* The callbacks bound are the Bound oldest subscriptions: this is where the
\* refinement rests on SubmissionOrder.
LEMMA BoundOldest ==
  ASSUME ServiceInv
  PROVE  /\ Bound \in Nat /\ Bound <= Len(subs) /\ Len(subs) \in Nat
         /\ BoundCalls = 1 .. Bound
<1> DEFINE n == Cardinality(BoundCalls)
<1>1. Len(subs) \in Nat /\ DOMAIN subs = 1 .. Len(subs)
  BY DEF ServiceInv, TypeOK
<1>2. BoundCalls \subseteq 1 .. Len(subs)
  BY <1>1 DEF ServiceInv, CallbackTypeMatches, BoundCalls
<1>3. /\ IsFiniteSet(BoundCalls) /\ n <= Cardinality(1 .. Len(subs)) /\ n \in Nat
  BY <1>1, <1>2, Segment, FS_Subset, FS_CardinalityType
<1>4. Cardinality(1 .. Len(subs)) = Len(subs)
  BY <1>1, Segment
<1>5. BoundCalls \subseteq 1 .. n
  <2> SUFFICES ASSUME NEW k \in BoundCalls PROVE k \in 1 .. n
    OBVIOUS
  <2>1. k \in Nat \ {0} /\ 1 .. k \subseteq BoundCalls
    BY <1>1, <1>2 DEF ServiceInv, SubmissionOrder
  <2>2. Cardinality(1 .. k) = k
    BY <2>1, Segment
  <2>3. k <= n
    BY <1>3, <2>1, <2>2, FS_Subset
  <2>4. QED BY <1>3, <2>1, <2>3
<1>6. Cardinality(1 .. n) = n /\ IsFiniteSet(1 .. n)
  BY <1>3, Segment
<1>7. BoundCalls = 1 .. n
  BY <1>5, <1>6, FS_Subset
<1>8. QED BY <1>1, <1>3, <1>4, <1>7 DEF Bound

\* How many they are, before and after a step.
LEMMA BoundIs ==
  ASSUME NEW n \in Nat
  PROVE  /\ BoundCalls = 1 .. n => Bound = n
         /\ BoundCalls' = 1 .. n => Bound' = n
  BY Segment DEF Bound

\* Two initial segments.
LEMMA Segments ==
  ASSUME NEW m \in Nat, NEW n \in Nat, n <= m, 1 .. m \subseteq 1 .. n
  PROVE  n = m
  OBVIOUS

\* The phase of the contract, from the variables of the facade.
LEMMA Phases ==
  ASSUME TypeOK
  PROVE  /\ state = "Created" => Phase = "New"
         /\ state = "Deactivated" => Phase = "Closed"
         /\ state \notin {"Created", "Deactivated"} /\ pc = "release" => Phase = "Closing"
         /\ state = "PreActivated" /\ pc # "release" => Phase = "Open"
         /\ state \in {"Activated", "PostActivated"} /\ pc # "release" => Phase = "Ready"
  BY DEF TypeOK, LifecycleState, Phase

\* The endpoints after a reader was appended, and after a writer was.
LEMMA ReaderEndpoint ==
  ASSUME NEW t \in Topics, NEW ty \in Types, RuntimeTypeOK, UNCHANGED writers,
         readers' = Append(readers, [topic |-> t, type |-> ty, onSample |-> 0])
  PROVE  Endpoints' = Endpoints \union {[topic |-> t, type |-> ty]}
<1> DEFINE new == Len(readers) + 1
           ends == {[topic |-> readers[i].topic, type |-> readers[i].type]
                     : i \in DOMAIN readers}
<1>1. /\ DOMAIN readers' = DOMAIN readers \union {new}
      /\ \A i \in DOMAIN readers : readers'[i] = readers[i]
      /\ readers'[new].topic = t /\ readers'[new].type = ty
  BY AppendReader
<1>2. ends' = ends \union {[topic |-> t, type |-> ty]}
  BY <1>1
<1>3. QED BY <1>2 DEF Endpoints

LEMMA WriterEndpoint ==
  ASSUME NEW t \in Topics, NEW ty \in Types, RuntimeTypeOK, UNCHANGED readers,
         writers' = Append(writers, [topic |-> t, type |-> ty])
  PROVE  Endpoints' = Endpoints \union {[topic |-> t, type |-> ty]}
<1>1. /\ DOMAIN writers' = DOMAIN writers \union {Len(writers) + 1}
      /\ \A i \in DOMAIN writers : writers'[i] = writers[i]
      /\ writers'[Len(writers) + 1] = [topic |-> t, type |-> ty]
  BY AppendWriter
<1>2. QED BY <1>1 DEF Endpoints

\* The part of the contract's state that a step leaves alone.
LEMMA ContractFrame ==
  /\ UNCHANGED <<readers, writers>> => UNCHANGED <<Endpoints, BoundCalls, Bound>>
  /\ UNCHANGED BoundCalls => UNCHANGED Bound
  BY DEF Endpoints, Bound, BoundCalls

\* A call that commits its topic and adds at most an endpoint for it is, in
\* the contract, Mention or AddEndpoint.
LEMMA CommitSteps ==
  ASSUME TypeOK, TypeOK', NEW t \in Topics, NEW ty \in Types,
         state \notin {"Created", "Deactivated"}, state' = state,
         pc # "release", pc' # "release",
         RememberTopicType(t, ty), UNCHANGED <<subs, Bound>>,
         \/ UNCHANGED Endpoints
         \/ Endpoints' = Endpoints \union {[topic |-> t, type |-> ty]}
  PROVE  Contract!Mention(t, ty) \/ Contract!AddEndpoint(t, ty)
<1>1. Phase \in {"Open", "Ready"} /\ Phase' = Phase
  BY Phases DEF TypeOK, LifecycleState, Phase
<1>2. Contract!Commit(t, ty)
  BY <1>1 DEF Contract!Commit, RememberTopicType
<1>3. QED BY <1>1, <1>2 DEF Contract!Mention, Contract!AddEndpoint, Bound

\* subscribe, up to the reader or to the exception.
LEMMA SubscribeImplements ==
  ASSUME ServiceInv, ServiceInv', NEW t \in Topics, NEW ty \in Types,
         \/ SubscribeUnadapted(t, ty) \/ SubscribeStaged(t, ty)
         \/ SubscribeCreate(t, ty)    \/ SubscribeThrows(t, ty)
  PROVE  Contract!ContractNext
<1> USE DEF ServiceInv, SubscribeChecks
<1>1. CASE SubscribeStaged(t, ty)
  <2>1. Phase = "Open" /\ Phase' = "Open"
    BY <1>1 DEF Phase, SubscribeStaged, controlVars
  <2>2. UNCHANGED <<Endpoints, BoundCalls>>
    BY <1>1, ContractFrame DEF SubscribeStaged, runtimeVars, entityVars
  <2>3. Contract!Accept(t, ty)
    BY <1>1, <2>1, <2>2 DEF SubscribeStaged, RememberTopicType, Contract!Accept,
       Contract!Commit
  <2>4. QED BY <2>3 DEF Contract!ContractNext
<1>2. CASE SubscribeUnadapted(t, ty)
  <2>1. UNCHANGED <<Endpoints, Bound, subs, state, pc>>
    BY <1>2, ContractFrame DEF SubscribeUnadapted, runtimeVars, entityVars,
       historyVars, controlVars
  <2>2. QED BY <1>2, <2>1, CommitSteps DEF SubscribeUnadapted, Contract!ContractNext
<1>3. CASE SubscribeCreate(t, ty) \/ SubscribeThrows(t, ty)
  <2>1. /\ ReaderStep(t, ty) /\ RememberTopicType(t, ty) /\ ty \in Types
        /\ UNCHANGED <<subs, state>> /\ pc = "idle" /\ pc' # "release"
        /\ state \notin {"Created", "Deactivated"} /\ UNCHANGED pending
    BY <1>3 DEF SubscribeCreate, SubscribeThrows, ReaderStep, historyVars, controlVars
  <2>2. UNCHANGED <<BoundCalls, writers>>
    BY <2>1, Remembered, ReaderMade
  <2>3. \/ UNCHANGED readers
        \/ readers' = Append(readers, [topic |-> t, type |-> ty, onSample |-> 0])
    BY <2>1, ReaderStepEffect DEF RuntimeInv
  <2>4. \/ UNCHANGED Endpoints
        \/ Endpoints' = Endpoints \union {[topic |-> t, type |-> ty]}
    BY <2>2, <2>3, ReaderEndpoint, ContractFrame DEF RuntimeInv
  <2>5. QED BY <2>1, <2>2, <2>4, CommitSteps, ContractFrame DEF Contract!ContractNext
<1>4. QED BY <1>1, <1>2, <1>3

\* publish, with every outcome, by whichever thread, until deactivate releases.
LEMMA PublishImplements ==
  ASSUME ServiceInv, ServiceInv', NEW t \in Topics, NEW ty \in Types,
         \/ PublishCached(t, ty) \/ PublishFirst(t, ty)
         \/ PublishThrows(t, ty) \/ PublishRejected(t, ty),
         UNCHANGED publishFrame, pc # "release"
  PROVE  Contract!ContractNext \/ UNCHANGED Contract!contractVars
<1> USE DEF ServiceInv
<1>1. UNCHANGED <<state, pc, subs, readers>>
  BY DEF PublishCached, PublishFirst, PublishThrows, PublishRejected,
     CreateWriter, CreateWriterThrows, publishFrame, controlVars, historyVars,
     runtimeVars, entityVars
<1>2. UNCHANGED <<Phase, BoundCalls, Bound>>
  BY <1>1, ContractFrame DEF Phase, BoundCalls
<1>3. CASE PublishRejected(t, ty)
  <2>1. UNCHANGED <<topicTypes, Endpoints>>
    BY <1>3, ContractFrame DEF PublishRejected, runtimeVars, entityVars
  <2>2. QED BY <1>1, <1>2, <2>1 DEF Contract!contractVars, Bound
<1>4. CASE PublishCached(t, ty) \/ PublishFirst(t, ty) \/ PublishThrows(t, ty)
  <2>1. /\ state = "PostActivated" /\ RememberTopicType(t, ty)
        /\ UNCHANGED writers \/ WriterStep(t, ty)
    BY <1>4 DEF PublishCached, PublishFirst, PublishThrows, PublishChecks, WriterStep,
       runtimeVars, entityVars
  <2>2. \/ UNCHANGED writers
        \/ writers' = Append(writers, [topic |-> t, type |-> ty])
    BY <2>1, WriterStepEffect DEF RuntimeInv
  <2>3. \/ UNCHANGED Endpoints
        \/ Endpoints' = Endpoints \union {[topic |-> t, type |-> ty]}
    BY <1>1, <2>2, WriterEndpoint, ContractFrame DEF RuntimeInv
  <2>4. QED BY <1>1, <1>2, <2>1, <2>3, CommitSteps DEF Contract!ContractNext
<1>5. QED BY <1>3, <1>4

\* A staged thunk makes its reader, or throws: its topic is committed already.
LEMMA FlushImplements ==
  ASSUME ServiceInv, ServiceInv', FlushCreate \/ FlushThrows
  PROVE  Contract!ContractNext
<1> USE DEF ServiceInv
<1> DEFINE t == pending[next].topic
           ty == pending[next].type
<1>1. /\ t \in Topics /\ ty \in Types /\ topicTypes[t] = ty
  BY PendingFields DEF FlushCreate, FlushThrows, Flushing, TypeOK, TopicTypeAgreement
<1>2. /\ ReaderStep(t, ty) /\ UNCHANGED <<topicTypes, subs, state, pending>>
      /\ state = "PreActivated" /\ pc # "release" /\ pc' # "release"
  BY DEF FlushCreate, FlushThrows, ReaderStep, Flushing, stateVars, historyVars, ControlInv
<1> HIDE DEF t, ty
<1>3. RememberTopicType(t, ty)
  BY <1>1, <1>2 DEF RememberTopicType, TypeOK
<1>4. UNCHANGED <<BoundCalls, writers>>
  BY <1>1, <1>2, ReaderMade
<1>5. \/ UNCHANGED readers
      \/ readers' = Append(readers, [topic |-> t, type |-> ty, onSample |-> 0])
  BY <1>1, <1>2, ReaderStepEffect DEF RuntimeInv
<1>6. \/ UNCHANGED Endpoints
      \/ Endpoints' = Endpoints \union {[topic |-> t, type |-> ty]}
  BY <1>1, <1>4, <1>5, ReaderEndpoint, ContractFrame DEF RuntimeInv
<1>7. QED BY <1>1, <1>2, <1>3, <1>4, <1>6, CommitSteps, ContractFrame
      DEF Contract!ContractNext

\* Installing a callback leaves the endpoints as they are.
LEMMA InstalledEndpoints ==
  ASSUME ServiceInv, InstallBinding
  PROVE  /\ UNCHANGED <<Endpoints, topicTypes, state>>
         /\ binding.reader \in DOMAIN readers
         /\ readers[binding.reader].topic \in Topics
         /\ readers[binding.reader].type \in Types
         /\ [topic |-> readers[binding.reader].topic,
             type  |-> readers[binding.reader].type] \in Endpoints
<1>1. binding.reader \in DOMAIN readers
  BY DEF ServiceInv, BindingInv, InstallBinding
<1>2. readers[binding.reader].topic \in Topics /\ readers[binding.reader].type \in Types
  BY <1>1, ReaderFields DEF ServiceInv, RuntimeInv
<1>3. /\ DOMAIN readers' = DOMAIN readers
      /\ \A i \in DOMAIN readers : /\ readers'[i].topic = readers[i].topic
                                   /\ readers'[i].type = readers[i].type
  BY CallbackInstalled DEF ServiceInv
<1>4. UNCHANGED <<writers, topicTypes, state>>
  BY DEF InstallBinding
<1>5. UNCHANGED Endpoints
  BY <1>3, <1>4 DEF Endpoints
<1>6. QED BY <1>1, <1>2, <1>4, <1>5 DEF Endpoints

\* A callback subscribed while the service is ready is accepted and bound.
LEMMA SubscribeInstallImplements ==
  ASSUME ServiceInv, ServiceInv', SubscribeInstall
  PROVE  Contract!ContractNext
<1> USE DEF ServiceInv
<1> DEFINE sub == [topic |-> readers[binding.reader].topic,
                   type  |-> readers[binding.reader].type]
<1>1. /\ UNCHANGED <<Endpoints, topicTypes, state>> /\ sub \in Endpoints
      /\ sub \in [topic : Topics, type : Types]
  BY InstalledEndpoints DEF SubscribeInstall
<1>2. /\ state = "PostActivated" /\ pc = "subscribe" /\ pc' = "idle"
      /\ subs' = Append(subs, sub)
      /\ binding # NoBinding
  BY DEF SubscribeInstall, ControlInv, InstallBinding
<1>3. Phase = "Ready" /\ Phase' = "Ready"
  BY <1>1, <1>2 DEF Phase
<1>4. Bound \in Nat /\ Bound = Len(subs) /\ BoundCalls = 1 .. Bound
  <2>1. DOMAIN subs \subseteq BoundCalls
    BY <1>2 DEF EverySubscriptionBound
  <2>2. Bound \in Nat /\ Bound <= Len(subs) /\ BoundCalls = 1 .. Bound /\ Len(subs) \in Nat
    BY BoundOldest
  <2>3. DOMAIN subs = 1 .. Len(subs)
    BY DEF TypeOK
  <2>4. QED BY <2>1, <2>2, <2>3, Segments
<1>5. Bound' = Bound + 1
  <2>1. binding.call = Len(subs) + 1
    BY <1>2 DEF BindingInv
  <2>2. BoundCalls' = BoundCalls \union {Len(subs) + 1}
    BY <1>4, <2>1, CallbackInstalled DEF SubscribeInstall
  <2>3. BoundCalls' = 1 .. (Bound + 1)
    BY <1>4, <2>2
  <2>4. QED BY <1>4, <2>3, BoundIs
<1> HIDE DEF sub
<1>6. Contract!AcceptBound(sub)
  BY <1>1, <1>2, <1>3, <1>5 DEF Contract!AcceptBound, Bound
<1>7. QED BY <1>1, <1>6 DEF Contract!ContractNext, Contract!Subscription

\* An accepted subscription names a topic and an adapted type.
LEMMA SubFields ==
  ASSUME TypeOK, NEW i \in DOMAIN subs
  PROVE  subs[i] \in [topic : Topics, type : Adapted]
<1>1. ASSUME NEW S, subs \in Seq(S)
      PROVE  subs[i] \in S
  BY <1>1
<1>2. QED BY <1>1 DEF TypeOK

\* A staged callback is bound, unless an earlier, failed post_activate has
\* bound it already: it is then the oldest not bound.
LEMMA FlushInstallImplements ==
  ASSUME ServiceInv, ServiceInv', FlushInstall
  PROVE  Contract!ContractNext \/ UNCHANGED Contract!contractVars
<1> USE DEF ServiceInv
<1> DEFINE r == binding.reader
<1>1. /\ UNCHANGED <<Endpoints, topicTypes, state, subs>> /\ r \in DOMAIN readers
      /\ [topic |-> readers[r].topic, type |-> readers[r].type] \in Endpoints
  BY InstalledEndpoints DEF FlushInstall
<1>2. /\ state = "PreActivated" /\ pc = "flush" /\ pc' = "flush" /\ binding # NoBinding
  BY DEF FlushInstall, ControlInv, InstallBinding
<1>3. Phase = "Open" /\ Phase' = "Open"
  BY <1>1, <1>2 DEF Phase
<1>4. /\ next \in DOMAIN pending /\ binding.call = next /\ next \in Nat \ {0}
      /\ readers[r].topic = pending[next].topic
      /\ readers[r].type = pending[next].type
  BY <1>2 DEF BindingInv, TypeOK
<1>5. /\ next \in DOMAIN subs /\ subs[next] \in [topic : Topics, type : Adapted]
      /\ subs[next].topic = readers[r].topic /\ subs[next].type = readers[r].type
  <2>1. /\ next \in DOMAIN subs /\ subs[next].topic = pending[next].topic
        /\ subs[next].type = pending[next].type
    BY <1>4 DEF PendingInv
  <2>2. subs[next] \in [topic : Topics, type : Adapted]
    BY <2>1, SubFields
  <2>3. QED BY <1>4, <2>1, <2>2
<1>6. BoundCalls' = BoundCalls \union {next}
  BY <1>4, CallbackInstalled DEF FlushInstall
<1>7. /\ Bound \in Nat /\ BoundCalls = 1 .. Bound /\ Len(subs) \in Nat
      /\ 1 .. (next - 1) \subseteq BoundCalls
  BY <1>2, BoundOldest DEF FlushInv
<1>8. CASE next \in BoundCalls
  <2>1. BoundCalls' = BoundCalls
    BY <1>6, <1>8
  <2>2. QED BY <1>1, <1>3, <2>1, ContractFrame DEF Contract!contractVars, Bound
<1>9. CASE next \notin BoundCalls
  <2>1. next = Bound + 1
    <3>1. next - 1 \in Nat /\ 1 .. (next - 1) \subseteq 1 .. Bound /\ Bound <= next - 1
      BY <1>4, <1>7, <1>9
    <3>2. Bound = next - 1
      BY <1>7, <3>1, Segments
    <3>3. QED BY <1>4, <3>2
  <2>2. BoundCalls' = 1 .. (Bound + 1)
    BY <1>6, <1>7, <2>1
  <2>3. Bound' = Bound + 1
    BY <1>7, <2>2, BoundIs
  <2>4. Bound < Len(subs)
    <3>1. next <= Len(subs)
      BY <1>5 DEF TypeOK
    <3>2. QED BY <1>7, <2>1, <3>1
  <2>5. subs[Bound + 1] \in Endpoints
    <3>1. subs[next] = [topic |-> subs[next].topic, type |-> subs[next].type]
      BY <1>5
    <3>2. subs[next] = [topic |-> readers[r].topic, type |-> readers[r].type]
      BY <1>5, <3>1
    <3>3. QED BY <1>1, <2>1, <3>2
  <2>6. Contract!Bind
    BY <1>1, <1>3, <2>3, <2>4, <2>5 DEF Contract!Bind, Bound
  <2>7. QED BY <2>6 DEF Contract!ContractNext
<1>10. QED BY <1>8, <1>9

\* The end of the flush: all are bound, and the service is ready.
LEMMA FlushDoneImplements ==
  ASSUME ServiceInv, ServiceInv', FlushDone
  PROVE  Contract!ContractNext
<1> USE DEF ServiceInv
<1>1. /\ UNCHANGED <<readers, writers, topicTypes, subs>>
      /\ state = "PreActivated" /\ pc = "flush" /\ state' = "Activated" /\ pc' = "flushed"
      /\ next > Len(pending)
  BY DEF FlushDone, Flushing, ControlInv, runtimeVars, entityVars, historyVars
<1>2. Phase = "Open" /\ Phase' = "Ready"
  BY <1>1 DEF Phase
<1>3. Bound \in Nat /\ Bound <= Len(subs) /\ BoundCalls = 1 .. Bound /\ Len(subs) \in Nat
  BY BoundOldest
<1>4. 1 .. Len(subs) \subseteq 1 .. Bound
  <2>1. Len(pending) = Len(subs) /\ 1 .. (next - 1) \subseteq BoundCalls /\ next \in Nat
    BY <1>1 DEF PendingInv, FlushInv, TypeOK
  <2>2. Len(subs) <= next - 1
    BY <1>1, <1>3, <2>1
  <2>3. QED BY <1>3, <2>1, <2>2
<1>5. Bound = Len(subs)
  BY <1>3, <1>4, Segments
<1>6. UNCHANGED <<Endpoints, Bound>>
  BY <1>1, ContractFrame
<1>7. Contract!BecomeReady
  BY <1>1, <1>2, <1>5, <1>6 DEF Contract!BecomeReady, Bound
<1>8. QED BY <1>7 DEF Contract!ContractNext

\* deactivate: the endpoints go, then the commitments.
LEMMA DeactivateImplements ==
  ASSUME ServiceInv, ServiceInv', DeactivateUnused \/ ShutdownReturns \/ ReleaseBindings
  PROVE  Contract!ContractNext
<1> USE DEF ServiceInv
<1>1. CASE DeactivateUnused
  <2>1. Phase = "New" /\ Phase' = "Closed"
    BY <1>1 DEF DeactivateUnused, Phase
  <2>2. UNCHANGED <<Endpoints, Bound, subs, topicTypes>> /\ topicTypes = NoTopics
    BY <1>1, ContractFrame DEF DeactivateUnused, EmptyInv, runtimeVars, entityVars, historyVars
  <2>3. Contract!Close
    BY <2>1, <2>2 DEF Contract!Close, Contract!Uncommitted, NoTopics, Bound
  <2>4. QED BY <2>3 DEF Contract!ContractNext
<1>2. CASE ShutdownReturns
  <2>1. state \notin {"Created", "Deactivated"} /\ state' = state
        /\ pc = "shutdown" /\ pc' = "release" /\ UNCHANGED <<topicTypes, subs>>
    BY <1>2 DEF ShutdownReturns, ControlInv, stateVars, historyVars
  <2>2. Phase \in {"Open", "Ready"} /\ Phase' = "Closing"
    BY <2>1 DEF Phase
  <2>3. readers' = <<>> /\ writers' = <<>>
    BY <1>2, <2>1 DEF ShutdownReturns, ShutdownRuntime, ParticipantInv
  <2>4. Endpoints' = {}
    BY <2>3 DEF Endpoints
  <2>5. BoundCalls' = {}
    BY <2>3 DEF BoundCalls
  <2>6. Bound' = 0
    BY <2>5, FS_EmptySet DEF Bound
  <2>7. Contract!TearDown
    BY <2>1, <2>2, <2>4, <2>6 DEF Contract!TearDown, Bound
  <2>8. QED BY <2>7 DEF Contract!ContractNext
<1>3. CASE ReleaseBindings
  <2>1. Phase = "Closing" /\ Phase' = "Closed"
    BY <1>3 DEF ReleaseBindings, ControlInv, Phase
  <2>2. UNCHANGED <<Endpoints, Bound, subs>> /\ topicTypes' = NoTopics
    BY <1>3, ContractFrame DEF ReleaseBindings, runtimeVars, entityVars, historyVars
  <2>3. Contract!Close
    BY <2>1, <2>2 DEF Contract!Close, Contract!Uncommitted, NoTopics, Bound
  <2>4. QED BY <2>3 DEF Contract!ContractNext
<1>4. QED BY <1>1, <1>2, <1>3

\* What the contract does not see: a pre_activate or post_activate that fails,
\* the activation of the runtime, the end of post_activate, the call of
\* deactivate.  A pre_activate that succeeds opens the service.
LEMMA PreActivateImplements ==
  ASSUME ServiceInv, NEW c \in Configs \union {NoConfig}, PreActivate(c)
  PROVE  Contract!ContractNext \/ UNCHANGED Contract!contractVars
<1> USE DEF ServiceInv
<1>1. UNCHANGED <<readers, writers, topicTypes, subs, pc>> /\ state = "Created" /\ pc = "idle"
  BY DEF PreActivate, InitRuntime, InitRuntimeThrows, entityVars, controlVars
<1>2. UNCHANGED <<Endpoints, Bound>>
  BY <1>1, ContractFrame
<1>3. CASE state' = "PreActivated"
  <2>1. Phase = "New" /\ Phase' = "Open"
    BY <1>1, <1>3 DEF Phase
  <2>2. Contract!Open
    BY <1>1, <1>2, <2>1 DEF Contract!Open, Bound
  <2>3. QED BY <2>2 DEF Contract!ContractNext
<1>4. CASE UNCHANGED state
  <2>1. UNCHANGED Phase
    BY <1>1, <1>4 DEF Phase
  <2>2. QED BY <1>1, <1>2, <2>1 DEF Contract!contractVars, Bound
<1>5. QED BY <1>3, <1>4 DEF PreActivate

LEMMA HiddenSteps ==
  ASSUME ServiceInv,
         \/ PostActivateBegin \/ PostActivateThrows \/ PostActivateEnd
         \/ DeactivateBegin \/ UNCHANGED vars
  PROVE  UNCHANGED Contract!contractVars
<1> USE DEF ServiceInv
<1>1. UNCHANGED <<readers, writers, topicTypes, subs>>
  BY DEF PostActivateBegin, PostActivateThrows, PostActivateEnd, DeactivateBegin,
     ActivateRuntime, ActivateRuntimeThrows, runtimeVars, entityVars, serviceVars,
     stateVars, historyVars, vars
<1>2. UNCHANGED Phase
  BY DEF PostActivateBegin, PostActivateThrows, PostActivateEnd, DeactivateBegin,
     serviceVars, stateVars, controlVars, vars, Phase
<1>3. QED BY <1>1, <1>2, ContractFrame DEF Contract!contractVars, Bound

\* Every step of the facade is a step of the contract, or none.
LEMMA StepImplements ==
  ServiceInv /\ ServiceInv' /\ [Next]_vars => [Contract!ContractNext]_(Contract!contractVars)
<1> SUFFICES ASSUME ServiceInv, ServiceInv', [Next]_vars
             PROVE  Contract!ContractNext \/ UNCHANGED Contract!contractVars
  OBVIOUS
<1>1. CASE \E t \in Topics, ty \in Types :
             \/ SubscribeUnadapted(t, ty) \/ SubscribeStaged(t, ty)
             \/ SubscribeCreate(t, ty)    \/ SubscribeThrows(t, ty)
  BY <1>1, SubscribeImplements
<1>2. CASE \E t \in Topics, ty \in Types : Publish(t, ty)
  BY <1>2, PublishImplements DEF Publish
<1>3. CASE \E c \in Configs \union {NoConfig} : PreActivate(c)
  BY <1>3, PreActivateImplements
<1>4. CASE SubscribeInstall \/ FlushInstall
  BY <1>4, SubscribeInstallImplements, FlushInstallImplements
<1>5. CASE FlushCreate \/ FlushThrows \/ FlushDone
  BY <1>5, FlushImplements, FlushDoneImplements
<1>6. CASE DeactivateUnused \/ ShutdownReturns \/ ReleaseBindings
  BY <1>6, DeactivateImplements
<1>7. CASE \/ PostActivateBegin \/ PostActivateThrows \/ PostActivateEnd
           \/ DeactivateBegin \/ UNCHANGED vars
  BY <1>7, HiddenSteps
<1>8. QED BY <1>1, <1>2, <1>3, <1>4, <1>5, <1>6, <1>7 DEF Next

\* The facade starts where the contract does.
LEMMA InitImplements == Init => Contract!ContractInit
<1> SUFFICES ASSUME Init PROVE Contract!ContractInit
  OBVIOUS
<1>1. readers = <<>> /\ writers = <<>> /\ state = "Created"
      /\ topicTypes = NoTopics /\ subs = <<>>
  BY DEF Init, RuntimeInit
<1>2. Phase = "New" /\ Endpoints = {} /\ BoundCalls = {}
  BY <1>1 DEF Phase, Endpoints, BoundCalls
<1>3. Bound = 0
  BY <1>2, FS_EmptySet DEF Bound
<1>4. QED BY <1>1, <1>2, <1>3
      DEF Contract!ContractInit, Contract!Uncommitted, NoTopics, Bound

\* The facade, with its staging, its caches, its failures and its retries, is
\* an implementation of ServiceContract.
THEOREM ServiceImplementsContract == Spec => ImplementsContract
<1>1. ServiceInv /\ ServiceInv' /\ [Next]_vars
        => [Contract!ContractNext]_(Contract!contractVars)
  BY StepImplements
<1>2. QED BY ServiceInvInit, ServiceInvStep, InitImplements, <1>1, PTL
      DEF Spec, ImplementsContract, Contract!ContractSpec
=============================================================================
