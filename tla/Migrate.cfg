CONSTANTS
  Files = {f1, f2}
  Paths = {"old1", "old2", "old3", "new1", "new3", "other"}
  pathUpdates <- MCUpdates
  MaxImports = 2
  MaxCrashes = 2
SPECIFICATION FairSpec
INVARIANTS TypeOK OnlyPathsChange Migrated
PROPERTY Converges
