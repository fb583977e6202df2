\* Two threads race to decide the type of a topic.
CONSTANTS
  app = app
  listener = listener
  status = status
  reply = reply
  mixed = mixed
  T1 = T1
  T2 = T2
  NoType = NoType
  Threads <- MCThreads
  Topics <- MCTopics
  Types <- MCTypes
  Faults <- NoFault
  MaxCalls = 2
  Jobs <- MCJobs
SPECIFICATION RaceSpec
INVARIANT SampleTypeMatches
