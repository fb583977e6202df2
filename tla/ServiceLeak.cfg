\* A failed pre_activate followed by deactivate.
CONSTANTS
  t1 = t1
  t2 = t2
  T1 = T1
  T2 = T2
  T3 = T3
  c1 = c1
  NoType = NoType
  NoConfig = NoConfig
  Topics <- MCTopics
  Types <- MCTypes
  Configs <- MCConfigs
  Declares <- MCDeclares
  Adapted <- MCAdapted
  Faults <- EveryFault
  MaxActivations = 2
  MaxReaders = 3
  MaxWriters = 2
  MaxSubs = 2
SPECIFICATION Spec
INVARIANT NoRuntimeOutlivesService
