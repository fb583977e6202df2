\* A sample that arrives while its reader is being bound.
CONSTANTS
  cmd = cmd
  ack = ack
  T1 = T1
  th1 = th1
  th2 = th2
  NoType = NoType
  NoConfig = NoConfig
  NoReply = NoReply
  Topics <- MCTopics
  Types <- MCTypes
  Configs <- MCConfigs
  Declares <- MCDeclares
  Adapted <- MCTypes
  Threads <- MCThreads
  Reply <- Passive
  Faults <- EndpointFaults
  MaxActivations = 2
  MaxReaders = 2
  MaxWriters = 1
  MaxSubs = 2
  MaxSamples = 2
SPECIFICATION FairDeliverySpec
INVARIANT NoSampleDropped
