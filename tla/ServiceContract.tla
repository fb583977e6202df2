-------------------------- MODULE ServiceContract --------------------------
(***************************************************************************)
(* What an application may rely on when it uses a Service, without the     *)
(* runtime, the staging, the caches or the failures: a topic is committed  *)
(* to one type; subscriptions are accepted, then bound, oldest first; the  *)
(* service is only ready when all of them are bound; endpoints exist only  *)
(* on committed topics and disappear together, before the service closes.  *)
(* Module Service implements it (ServiceRefinement).                       *)
(***************************************************************************)
EXTENDS Naturals, Sequences

CONSTANTS Topics, Types, NoType

VARIABLES
  phase,      \* New, Open, Ready, Closing, Closed
  committed,  \* the type of each topic
  accepted,   \* the subscriptions accepted, in order
  bound,      \* how many of them, the oldest, are bound
  endpoints   \* the topics and types with a reader or a writer

contractVars == <<phase, committed, accepted, bound, endpoints>>

Subscription == [topic : Topics, type : Types]
Uncommitted  == [t \in Topics |-> NoType]

ContractInit ==
  /\ phase = "New" /\ committed = Uncommitted
  /\ accepted = <<>> /\ bound = 0 /\ endpoints = {}

Open ==
  /\ phase = "New" /\ phase' = "Open"
  /\ UNCHANGED <<committed, accepted, bound, endpoints>>

Commit(t, ty) ==
  /\ phase \in {"Open", "Ready"}
  /\ committed[t] \in {NoType, ty}
  /\ committed' = [committed EXCEPT ![t] = ty]

\* A call that commits the topic and gets no further.
Mention(t, ty) ==
  /\ Commit(t, ty)
  /\ UNCHANGED <<phase, accepted, bound, endpoints>>

\* A subscription accepted now and bound later.
Accept(t, ty) ==
  /\ phase = "Open" /\ Commit(t, ty)
  /\ accepted' = Append(accepted, [topic |-> t, type |-> ty])
  /\ UNCHANGED <<phase, bound, endpoints>>

\* A reader or a writer comes into existence.
AddEndpoint(t, ty) ==
  /\ Commit(t, ty)
  /\ endpoints' = endpoints \union {[topic |-> t, type |-> ty]}
  /\ UNCHANGED <<phase, accepted, bound>>

\* The oldest subscription not bound yet is bound to an endpoint.
Bind ==
  /\ phase = "Open" /\ bound < Len(accepted)
  /\ accepted[bound + 1] \in endpoints
  /\ bound' = bound + 1
  /\ UNCHANGED <<phase, committed, accepted, endpoints>>

BecomeReady ==
  /\ phase = "Open" /\ bound = Len(accepted)
  /\ phase' = "Ready"
  /\ UNCHANGED <<committed, accepted, bound, endpoints>>

\* A subscription made while ready is accepted once it is bound.
AcceptBound(s) ==
  /\ phase = "Ready" /\ s \in endpoints
  /\ accepted' = Append(accepted, s)
  /\ bound' = bound + 1
  /\ UNCHANGED <<phase, committed, endpoints>>

\* All endpoints go at once.
TearDown ==
  /\ phase \in {"Open", "Ready"} /\ phase' = "Closing"
  /\ endpoints' = {} /\ bound' = 0
  /\ UNCHANGED <<committed, accepted>>

Close ==
  /\ phase \in {"New", "Closing"} /\ phase' = "Closed"
  /\ committed' = Uncommitted
  /\ UNCHANGED <<accepted, bound, endpoints>>

ContractNext ==
  \/ Open \/ Bind \/ BecomeReady \/ TearDown \/ Close
  \/ \E t \in Topics, ty \in Types :
       Mention(t, ty) \/ Accept(t, ty) \/ AddEndpoint(t, ty)
  \/ \E s \in Subscription : AcceptBound(s)

ContractSpec == ContractInit /\ [][ContractNext]_contractVars
=============================================================================
