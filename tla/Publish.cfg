\* Two threads publish, on topics of their own, on a shared one, and with two types.
CONSTANTS
  app = app
  listener = listener
  status = status
  reply = reply
  mixed = mixed
  T1 = T1
  T2 = T2
  NoType = NoType
  Threads <- MCThreads
  Topics <- MCTopics
  Types <- MCTypes
  Faults <- EveryFault
  MaxCalls = 2
  Jobs <- MCJobs
SPECIFICATION RaceSpec
INVARIANTS
  WritersOfRecordedType
  WritesThroughCache
  AgreedTypeWritten
  OneWriterPerOwnTopic
  RefusedOnlyInConflict
PROPERTIES
  ImplementsContractWhereAgreed
