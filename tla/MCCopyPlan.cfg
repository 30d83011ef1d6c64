SPECIFICATION PlanSpec
CONSTANTS
  Statements <- SmallStatements
  CaseFold <- Folded
  DefaultSize <- Sizes3
  StorageVersions = {"", "2.1"}
  MaxSampleRows = 2
INVARIANTS BoundOpens SettingsStored IndexesAsAsked GeneratedAligned PolicyKept
CHECK_DEADLOCK FALSE
