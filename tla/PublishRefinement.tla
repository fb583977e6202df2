------------------------- MODULE PublishRefinement -------------------------
(* publish from several threads implements ServiceContract, once the       *)
(* service is ready, on the topics the threads agree about.                *)
EXTENDS PublishRace

Agreed(t) == Cardinality(TypesOf(t)) <= 1

AgreedTypes   == [t \in Topics |-> IF Agreed(t) THEN topicTypes[t] ELSE NoType]
AgreedWriters == {[topic |-> writers[i].topic, type |-> writers[i].type] :
                    i \in {j \in DOMAIN writers : Agreed(writers[j].topic)}}

Contract == INSTANCE ServiceContract WITH
  phase     <- "Ready",
  committed <- AgreedTypes,
  accepted  <- <<>>,
  bound     <- 0,
  endpoints <- AgreedWriters

\* However the calls of publish interleave in the unlocked tables, on a topic
\* that is published with one type each step is one of the contract: the type
\* is committed before there is a DataWriter, and stays.  Where two types are
\* in use nothing is promised.
ImplementsContractWhereAgreed ==
  /\ AgreedTypes = Contract!Uncommitted /\ AgreedWriters = {}
  /\ [][Contract!ContractNext]_(Contract!contractVars)
=============================================================================
