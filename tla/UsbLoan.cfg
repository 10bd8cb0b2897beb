SPECIFICATION FairStorageSpec
CONSTANT MaxObjects = 5
INVARIANTS LoanInv EnabledWhileInUse
PROPERTY EjectReleasesPython
CHECK_DEADLOCK FALSE
