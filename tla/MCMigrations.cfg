SPECIFICATION FairSpec
CONSTANTS
  catalog1 = catalog1
  catalog2 = catalog2
  copy1 = copy1
  Processes = {catalog1, catalog2, copy1}
  Collection <- SampleCollections
  Tables <- SampleTables
  Fixtures <- SampleFixtures
  MaxCrashes = 2
INVARIANTS TypeOK UndisturbedComplete
PROPERTY EventuallyServes
CHECK_DEADLOCK FALSE
