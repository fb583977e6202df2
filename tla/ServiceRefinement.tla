------------------------- MODULE ServiceRefinement -------------------------
(* Service implements ServiceContract. *)
EXTENDS Service

Phase ==
  IF state = "Created"          THEN "New"
  ELSE IF state = "Deactivated" THEN "Closed"
  ELSE IF pc = "release"        THEN "Closing"
  ELSE IF state = "PreActivated" THEN "Open"
  ELSE "Ready"

Endpoints ==
  {[topic |-> readers[i].topic, type |-> readers[i].type] : i \in DOMAIN readers}
  \union {writers[i] : i \in DOMAIN writers}

Contract == INSTANCE ServiceContract WITH
  phase     <- Phase,
  committed <- topicTypes,
  accepted  <- subs,
  bound     <- Cardinality(BoundCalls),
  endpoints <- Endpoints

\* Every behaviour of the facade, with all its failures, retries and partial
\* work, is one the contract allows.
ImplementsContract == Contract!ContractSpec
=============================================================================
