SPECIFICATION FairSpec
CONSTANTS
  Transactions = {t1, t2, t3}
  Fixed = 1
  Maximum = 2
  SeedRows = 3
  SequenceReset = FALSE
  IdBound = 8
INVARIANTS TypeOK NoDeadlock OvershootBounded CreatedStored
PROPERTIES RefusalsEnd TransactionsEnd
CHECK_DEADLOCK FALSE
