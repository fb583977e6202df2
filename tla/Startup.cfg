\* Two processes start, each with a short bootstrap file and topic file or with
\* its files of the radar demo.  101 stands for a number beyond int.
CONSTANTS
  Parties <- MCParties
  Topics <- MCTopics
  Files <- MCFiles
  XmlFiles <- MCXmlFiles
  BootFiles <- MCBootFiles
  CommandLine <- MCCommandLine
  IntMin <- MCIntMin
  IntMax <- MCIntMax
SPECIFICATION StartupSpec
INVARIANTS
  StartupTypeOK
  SameReferenceMatches
  XmlMirrorsBuiltin
  StartedOnGoodConfig
  StartedAsConfigured
  DemoMeets
