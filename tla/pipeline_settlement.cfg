SPECIFICATION Spec
CONSTANTS
  Pending = {"approve", "review", "decline"}
  Immediate = {"back"}
  SplitPartitions = FALSE
  Skew = 0
  Transfers <- MCTransfers
  Direct <- Immediate
  Intent <- MCIntent
  AccountInfo <- MCInfo
  InitialBalance <- MCTight
  Freezable = {2}
  Policies <- MCPlain
  VelocityCounts = {1, 2}
  NanosPerMicro = 2
  Partitions <- MCPartitions
  PartitionOf <- MCPartitionOf
  Subjects = {"eve"}
  MaxDuplicates = 0
  MaxPoison = 0
  Accounts <- MCAccounts
  System = {}
  MaxMinor = 5
INVARIANTS
  TypeOK
  StoredLifecyclesAreValid
  PostedIffCompleted
  OutboxTellsEveryVersion
  ReviewTrailIsComplete
  NoOverdraft
  BalancesAreJournalSums
PROPERTIES
  ImplementsTransferLifecycle
CHECK_DEADLOCK FALSE
