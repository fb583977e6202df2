--------------------------- MODULE MCPublishRace ---------------------------
(* An instance of PublishRace: the application thread and a listener thread.*)
EXTENDS PublishRefinement, TLC

CONSTANTS app, listener, status, reply, mixed, T1, T2

MCThreads == {app, listener}
EveryFault == FaultPoints
NoFault    == {}
MCTopics  == {status, reply, mixed}
MCTypes   == {T1, T2}

Pub(t, ty) == [topic |-> t, type |-> ty]

\* As in SensorApp both threads publish on status, and the listener replies on
\* a topic of its own.  On the topic mixed they make the mistake the facade is
\* to reject: two types.
MCJobs ==
  (app :> {Pub(status, T1), Pub(mixed, T1)})
  @@ (listener :> {Pub(status, T1), Pub(reply, T2), Pub(mixed, T2)})
=============================================================================
