CONSTANTS
  None = None
  Newest = 6
  UpFile <- Up
  DownFile <- Down
  Table <- Tables
  Feature <- Features
  MaxTrouble = 4
SPECIFICATION FairSpec
INVARIANTS
  MigrateType
  RecordedPrefix
  RefusedOnlyAltering
  SuccessMeansCurrent
PROPERTY
  EventuallyCurrent
