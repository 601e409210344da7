SPECIFICATION FairSpec
CONSTANTS
  Builds = {b1}
  Nodes = {n1, n2}
  NoNode = NoNode
  NoJob = NoJob
  BuildNode <- MCBuildNode
  MaxClaims = 5
  MaxActivations = 2
  MaxFaults = 1
INVARIANTS RootTypeOK WorkHasClaim ArtifactIsStored InstallationsAreReal
PROPERTIES TerminalIsFinal OutcomeStands BuildsSettle ActivationsSettle
CHECK_DEADLOCK FALSE
