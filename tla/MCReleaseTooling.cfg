\* Two versions.  No deadlock check: the commands run out.
SPECIFICATION Spec
CONSTANTS
  NoFile = NoFile
  Torn = Torn
  Targets <- BothTargets
  TargetOrder <- BothInOrder
  Versions <- TwoVersions
  MaxCommands <- Commands
  MaxBundles = 2
  MaxReleases = 2
  MaxDeaths = 1
INVARIANTS AcceptedVerified PublishedWhole
PROPERTIES OldRuntimeKept
CHECK_DEADLOCK FALSE
