SPECIFICATION Spec
CONSTANTS
  Gone = Gone
  ClockStep = 1080
  Tzdata <- MCTzdata
  Fixed <- MCFixed
  Configs <- MCConfigs
  Clients <- MCClients
  Answers <- MCAnswers
  Contents <- MCContents
  AtStart <- MCAtStart
  Clocks <- MCClocks
  Busy <- MCBusy
  Auths <- MCAuths
  Explicits <- MCExplicits
  Injects <- MCInjects
  Ids <- MCIds
INVARIANT CivilDates
INVARIANT FreshFile
INVARIANT NothingComesBack
INVARIANT PersonaAgrees
INVARIANT EnvironmentIsAsSet
INVARIANT LocalDates
INVARIANT DumpTellsSent
INVARIANT NoReplay
INVARIANT CredentialsExplicit
CHECK_DEADLOCK FALSE
