SPECIFICATION FairSpec

CONSTANTS
  Jobs = {j1}
  Urls = {"", "ws", "http"}
  Blank = Blank

INVARIANTS
  SchemaServes
  WatchesSomething

PROPERTIES
  LoadedAsCreated
  UpgradeEnds
