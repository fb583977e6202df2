----------------------------- MODULE MCService -----------------------------
(* Instances of Service: two topics, two types, two callbacks. *)
EXTENDS ServiceRefinement, TLC

CONSTANTS t1, t2, T1, T2, T3, c1

MCTopics  == {t1, t2}
MCTypes   == {T1, T2, T3}
MCAdapted == {T1, T2}  \* T3 has no adapter
MCConfigs == {c1}

\* c1 declares one of the two topics.
MCDeclares == [c \in MCConfigs |-> {t1}]

\* The two types that have an adapter are interchangeable.
Symmetry == Permutations(MCAdapted)

EveryFault == FaultPoints
=============================================================================
