CONSTANTS
  Dir <- MCDir
  File <- MCFile
  Root = "root"
  Parent <- MCParent
  RawOps <- MCRawOps
  Buffer = 1
  MaxChanges = 1
  MaxErrors = 2
SPECIFICATION WatcherSpec
PROPERTIES
  EveryEventRead
  DirectoriesWatched
  ClosedEnds
CHECK_DEADLOCK FALSE
