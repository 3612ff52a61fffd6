SPECIFICATION Spec
CONSTANTS
  v1 = v1
  v2 = v2
  console = console
  Versions <- MCVersions
  Requesters <- MCRequesters
  Console = console
  None = None
  Standalone = Standalone
  Whole = Whole
  Empty = Empty
  Missing = Missing
  KeepBackups = 1
  MaxClock = 1
  MaxUpdates = 2
  MaxKills = 1
INVARIANTS LinkedReleasesWhole PreUpdateBackupKept UpdateReportIsTrue
PROPERTIES EmptiedOnlyByRemoval
SYMMETRY Symmetry
CHECK_DEADLOCK FALSE
