--------------------------- MODULE MCTopicChannel ---------------------------
(* Instances of TopicChannel.                                              *)
EXTENDS TopicChannel

CONSTANTS r1, r2, k1, k2

MCReaders == {r1, r2}
MCKeys    == {k1, k2}

\* The profiles' depths and queue limits, 10 and 1000, scaled down to 1 or 2.
Short(p) == [p EXCEPT !.depth = 2]
Critical == [Builtin.critical EXCEPT !.maxSamples = 1]

Alike(p, keys, writes) ==
  [writer |-> p, reader |-> p, keys |-> keys, writes |-> writes, waits |-> {}]
Between(w, r, writes, waits) ==
  [writer |-> w, reader |-> r, keys |-> {k1}, writes |-> writes, waits |-> waits]

\* Every way of keeping samples; a pair that matches although it differs, one
\* that does not match, and publishers that wait for one subscriber or for two.
MCScenarios ==
  {Alike(Builtin.best_effort, {k1}, 3), Alike(Short(Builtin.reliable), {k1}, 3),
   Alike(Builtin.latched, {k1}, 3), Alike(Builtin.latched, MCKeys, 2),
   Alike(Builtin.event_bus, {k1}, 3), Alike(Critical, {k1}, 3),
   Alike(Builtin.persistent, {k1}, 2),
   Between(Short(Builtin.reliable_transient), Short(Builtin.reliable), 2, {}),
   Between(Builtin.best_effort, Builtin.latched, 1, {1}),
   Between(Builtin.best_effort, Builtin.best_effort, 1, {1, 2})}
=============================================================================
