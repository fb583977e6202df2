------------------------------ MODULE Delivery ------------------------------
(***************************************************************************)
(* The facade with the transport's listener threads.  The application      *)
(* thread runs module Service; the threads of the DDS library run          *)
(* OpenDddsListener::on_data_available and OpenDddsReaderBinding::deliver  *)
(* (pub_sub_open_dds/src/opendds_bindings.h) on every reader that has data,*)
(* from the moment the reader exists until delete_contained_entities has   *)
(* returned.  A callback may publish, as SensorApp's command handler does. *)
(***************************************************************************)
EXTENDS Service

CONSTANTS
  Threads,    \* the transport's threads
  Reply,      \* what the callback of a topic publishes, if anything
  NoReply,    \* ... nothing
  MaxSamples  \* bound on the samples that arrive

Publication == [topic : Topics, type : Types]

ASSUME ReplyAssumption == Reply \in [Topics -> Publication \union {NoReply}]
ASSUME NoReplyAssumption == NoReply \notin Publication
ASSUME MaxSamplesAssumption == MaxSamples \in Nat

VARIABLES
  inbox,      \* for each reader, its samples not taken and a due notification
  handler,    \* what each thread is doing
  arrived,    \* samples arrived so far
  dropped,    \* samples taken by a live binding that had no callback yet
  lostReplies \* callbacks that ended in an exception from publish

ghostVars == <<arrived, dropped, lostReplies>>
deliveryVars == <<inbox, handler, ghostVars>>
allVars == <<vars, deliveryVars>>

Idle == [at |-> "idle", reader |-> 0, call |-> 0]
Empty == [samples |-> 0, notified |-> FALSE]

DeliveryInit ==
  /\ Init
  /\ inbox = <<>> /\ handler = [th \in Threads |-> Idle]
  /\ arrived = 0 /\ dropped = 0 /\ lostReplies = 0

\* No listener is running.
Quiet == \A th \in Threads : handler[th] = Idle

\* A step of the application thread.  delete_contained_entities "drains
\* in-flight listener callbacks before returning".
AppStep ==
  /\ pc = "shutdown" => Quiet
  /\ Next
  /\ inbox' = [i \in 1 .. Len(readers') |->
                 IF i \in DOMAIN inbox THEN inbox[i] ELSE Empty]
  /\ UNCHANGED <<handler, ghostVars>>

\* A remote writer's sample reaches reader r.
Arrive(r) ==
  /\ arrived < MaxSamples /\ r \in DOMAIN readers
  /\ arrived' = arrived + 1
  /\ inbox' = [inbox EXCEPT ![r] =
                 [samples |-> @.samples + 1, notified |-> TRUE]]
  /\ UNCHANGED <<vars, handler, dropped, lostReplies>>

\* The transport calls on_data_available for reader r.
OnDataAvailable(th, r) ==
  /\ handler[th] = Idle /\ r \in DOMAIN readers /\ inbox[r].notified
  /\ inbox' = [inbox EXCEPT ![r].notified = FALSE]
  /\ handler' = [handler EXCEPT ![th] = [at |-> "take", reader |-> r, call |-> 0]]
  /\ UNCHANGED <<vars, ghostVars>>

Continue(th, at, call) ==
  handler' = [handler EXCEPT ![th].at = at, ![th].call = call]

\* Mutant: a sample is read and not taken.
TakeReads(th) ==
  /\ handler[th].at = "take"
  /\ IF inbox[handler[th].reader].samples > 0
       THEN Continue(th, "deliver", 0)
       ELSE handler' = [handler EXCEPT ![th] = Idle]
  /\ UNCHANGED <<vars, inbox, ghostVars>>

\* take_next_sample, until there is none.
Take(th) ==
  LET r == handler[th].reader IN
  /\ handler[th].at = "take"
  /\ \/ /\ inbox[r].samples > 0
        /\ inbox' = [inbox EXCEPT ![r].samples = @ - 1]
        /\ Continue(th, "deliver", 0)
     \/ /\ inbox[r].samples = 0
        /\ handler' = [handler EXCEPT ![th] = Idle]
        /\ UNCHANGED inbox
  /\ UNCHANGED <<vars, ghostVars>>

\* binding_.lock() succeeds while the service, or the thread making the
\* reader, owns the binding.
BindingAlive(r) == r \in subscriberBindings \/ r = binding.reader

\* deliver: lock the binding, copy its callback, and call it if there is one.
\* Otherwise the sample is gone: it was taken.
Deliver(th) ==
  LET r == handler[th].reader
      callback == IF BindingAlive(r) THEN readers[r].onSample ELSE 0
  IN
  /\ handler[th].at = "deliver"
  /\ IF callback # 0 THEN Continue(th, "callback", callback)
                     ELSE Continue(th, "take", 0)
  /\ dropped' = IF callback = 0 /\ BindingAlive(r) THEN dropped + 1 ELSE dropped
  /\ UNCHANGED <<vars, inbox, arrived, lostReplies>>

\* Mutant: on_data_available takes one sample only.
CallbackReturnsOnce(th) ==
  /\ handler[th].at = "callback"
  /\ handler' = [handler EXCEPT ![th] = Idle]
  /\ UNCHANGED <<vars, inbox, ghostVars>>

\* The callback returns, without or with a successful publish.
CallbackReturns(th) ==
  LET reply == Reply[readers[handler[th].reader].topic] IN
  /\ handler[th].at = "callback"
  /\ IF reply = NoReply
       THEN UNCHANGED vars
       ELSE /\ \/ PublishCached(reply.topic, reply.type)
               \/ PublishFirst(reply.topic, reply.type)
            /\ UNCHANGED publishFrame
  /\ Continue(th, "take", 0)
  /\ UNCHANGED <<inbox, ghostVars>>

\* publish throws out of the callback and out of on_data_available: the rest
\* of the reader's samples wait for the next notification.
CallbackThrows(th) ==
  LET reply == Reply[readers[handler[th].reader].topic] IN
  /\ handler[th].at = "callback" /\ reply # NoReply
  /\ \/ PublishRejected(reply.topic, reply.type)
     \/ PublishThrows(reply.topic, reply.type)
  /\ UNCHANGED publishFrame
  /\ handler' = [handler EXCEPT ![th] = Idle]
  /\ lostReplies' = lostReplies + 1
  /\ UNCHANGED <<inbox, arrived, dropped>>

ListenerStep(th) ==
  \/ \E r \in DOMAIN readers : OnDataAvailable(th, r)
  \/ Take(th) \/ Deliver(th) \/ CallbackReturns(th) \/ CallbackThrows(th)

DeliveryNext ==
  \/ AppStep
  \/ \E r \in DOMAIN readers : Arrive(r)
  \/ \E th \in Threads : ListenerStep(th)

DeliverySpec == DeliveryInit /\ [][DeliveryNext]_allVars

\* A thread inside a call of the facade keeps running, and so do the
\* transport's threads; nobody has to make a call, and no sample has to come.
InsideCall == pc # "idle" /\ AppStep

FairDeliverySpec ==
  /\ DeliverySpec
  /\ WF_allVars(InsideCall)
  /\ \A th \in Threads : WF_allVars(ListenerStep(th))

-----------------------------------------------------------------------------
\* A listener only runs on a reader that exists, and a callback only while the
\* service still holds the binding it was copied from: deactivate shuts the
\* runtime down before it clears subscriber_bindings_.
NoCallbackAfterRelease ==
  \A th \in Threads : handler[th] # Idle =>
    /\ handler[th].reader \in DOMAIN readers
    /\ handler[th].at = "callback" => handler[th].reader \in subscriberBindings

\* A sample is only ever dropped in the start-up window of its own reader:
\* once a subscription is bound and recorded, each sample taken reaches its
\* callback.
DropStep ==
  dropped' # dropped =>
    /\ binding # NoBinding
    /\ \E th \in Threads : /\ handler[th].at = "deliver"
                           /\ handler[th].reader = binding.reader
DroppedOnlyBeforeInstall == [][DropStep]_allVars

\* A reply is lost, its publish throwing out of the callback, only before
\* post_activate has returned, or when the reply's topic is not declared or
\* carries another type, or when it is the first publish there and there is no
\* adapter or a DDS call has failed.
LostReplyStep ==
  lostReplies' # lostReplies =>
    \/ state # "PostActivated"
    \/ \E th \in Threads :
         LET reply == Reply[readers[handler[th].reader].topic] IN
         /\ handler[th].at = "callback" /\ handler'[th] = Idle
         /\ \/ ~RequireDeclaredTopic(reply.topic)
            \/ topicTypes[reply.topic] \notin {NoType, reply.type}
            \/ /\ publisherCache[reply.topic] = 0
               /\ reply.type \notin Adapted \/ Faults # {}
RepliesLostOnlyBeforeUp == [][LostReplyStep]_allVars

\* No sample is stranded: while a reader has samples that are not taken, it is
\* either due a notification or a listener is still taking from it, unless a
\* callback threw (on_data_available takes until take_next_sample has none).
NoSampleStranded ==
  \A r \in DOMAIN inbox : inbox[r].samples > 0 =>
    \/ inbox[r].notified \/ lostReplies > 0
    \/ \E th \in Threads : handler[th] # Idle /\ handler[th].reader = r

\* deactivate returns, however many callbacks are running when it is called
\* and whatever they publish.
DeactivateReturns == pc = "shutdown" ~> state = "Deactivated"

\* Samples that have arrived at a reader are all taken, or the reader is
\* deleted, as long as no callback throws.
SamplesTaken ==
  \A r \in 1 .. MaxReaders :
    r \in DOMAIN inbox /\ inbox[r].samples > 0 ~>
      r \notin DOMAIN inbox \/ inbox[r].samples = 0 \/ lostReplies > 0

-----------------------------------------------------------------------------
(* What the repository's text says of the program, refuted by a run.       *)

\* OperatorAuditLog.idl: "no entry is silently dropped while a subscriber is
\* connected".  The reader is live before its callback is installed.
NoSampleDropped == dropped = 0
=============================================================================
