-------------------------------- MODULE Qos --------------------------------
(***************************************************************************)
(* Quality of service: the built-in profiles (qos_profile.cpp), their      *)
(* translation to DDS (apply_writer_qos, apply_reader_qos in               *)
(* opendds_runtime.cpp) and DDS's rule for matching a writer and a reader. *)
(***************************************************************************)
EXTENDS Naturals

\* DURATION_INFINITE and LENGTH_UNLIMITED.
Infinite == 2147483647

\* 0 in deadline, lease or maxSamples leaves the DDS default.
QosProfile ==
  [reliable : BOOLEAN, durable : BOOLEAN, keepAll : BOOLEAN, depth : Nat,
   deadline : Nat, lease : Nat, manual : BOOLEAN, maxSamples : Nat]

Profile(reliable, durable, keepAll, depth) ==
  [reliable |-> reliable, durable |-> durable, keepAll |-> keepAll,
   depth |-> depth, deadline |-> 0, lease |-> 0, manual |-> FALSE,
   maxSamples |-> 0]

Builtin ==
  [best_effort        |-> Profile(FALSE, FALSE, FALSE, 1),
   reliable           |-> Profile(TRUE,  FALSE, FALSE, 10),
   reliable_transient |-> Profile(TRUE,  TRUE,  FALSE, 10),
   event_bus          |-> Profile(TRUE,  FALSE, TRUE,  0),
   latched            |-> Profile(TRUE,  TRUE,  FALSE, 1),
   streaming          |-> Profile(FALSE, FALSE, FALSE, 1),
   persistent         |-> Profile(TRUE,  TRUE,  TRUE,  0),
   heartbeat          |-> [Profile(FALSE, FALSE, FALSE, 1) EXCEPT !.deadline = 3000],
   critical           |-> [Profile(TRUE, FALSE, TRUE, 0) EXCEPT
                             !.lease = 5000, !.manual = TRUE, !.maxSamples = 1000]]

\* Service passes qos::reliable() as the default of every lookup.
DefaultProfile == Builtin.reliable

\* DDS's own defaults: writers are reliable, readers best effort.
DdsDefaults ==
  [reliable |-> TRUE, durable |-> FALSE, keepAll |-> FALSE, depth |-> 1,
   deadline |-> Infinite, lease |-> Infinite, manual |-> FALSE,
   maxSamples |-> Infinite]
WriterDefaults == DdsDefaults
ReaderDefaults == [DdsDefaults EXCEPT !.reliable = FALSE]

\* apply_extras: an optional knob overrides only when set.
ApplyExtras(p, dds) ==
  [dds EXCEPT !.deadline   = IF p.deadline > 0 THEN p.deadline ELSE @,
              !.manual     = IF p.lease > 0 THEN p.manual ELSE @,
              !.lease      = IF p.lease > 0 THEN p.lease ELSE @,
              !.maxSamples = IF p.maxSamples > 0 THEN p.maxSamples ELSE @]

\* Mutants: the durability is not applied, or that of one profile is given to
\* all.
ApplyQosForgetsDurability(p, dds) ==
  ApplyExtras(p, [dds EXCEPT !.reliable = p.reliable,
                             !.keepAll  = p.keepAll,
                             !.depth    = IF p.keepAll THEN @ ELSE p.depth])
ApplyQosAlwaysDurable(p, dds) ==
  ApplyExtras(p, [dds EXCEPT !.reliable = p.reliable,
                             !.durable  = TRUE,
                             !.keepAll  = p.keepAll,
                             !.depth    = IF p.keepAll THEN @ ELSE p.depth])

\* Mutants: the reliability or the history depth is not applied.
ApplyQosForgetsReliability(p, dds) ==
  ApplyExtras(p, [dds EXCEPT !.reliable = FALSE,
                             !.durable  = p.durable,
                             !.keepAll  = p.keepAll,
                             !.depth    = IF p.keepAll THEN @ ELSE p.depth])
ApplyQosForgetsDepth(p, dds) ==
  ApplyExtras(p, [dds EXCEPT !.reliable = p.reliable,
                             !.durable  = p.durable,
                             !.keepAll  = p.keepAll])

\* apply_writer_qos and apply_reader_qos, on the defaults of either.
ApplyQos(p, dds) ==
  ApplyExtras(p, [dds EXCEPT !.reliable = p.reliable,
                             !.durable  = p.durable,
                             !.keepAll  = p.keepAll,
                             !.depth    = IF p.keepAll THEN @ ELSE p.depth])

\* What DDS requires of a writer's and a reader's QoS to match them: the
\* writer offers at least what the reader requests.
Compatible(w, r) ==
  /\ r.reliable => w.reliable
  /\ r.durable => w.durable
  /\ w.deadline <= r.deadline
  /\ r.manual => w.manual
  /\ w.lease <= r.lease
=============================================================================
