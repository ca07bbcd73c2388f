SPECIFICATION FairGroupSpec
CONSTANTS
    Members = {"m1", "m2", "m3"}
    Log <- MCLog
    MaxBatch = 2
    MaxRebalances = 4
INVARIANTS GroupTypeOK CommittedIsStored
PROPERTIES EveryRecordTakesEffect ImplementsInOrderConsumer
CHECK_DEADLOCK FALSE
