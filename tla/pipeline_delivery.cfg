SPECIFICATION FairSpec
CONSTANTS
  Pending = {"approve"}
  Immediate = {}
  SplitPartitions = TRUE
  Skew = 0
  Transfers <- MCTransfers
  Direct <- Immediate
  Intent <- MCIntent
  AccountInfo <- MCInfo
  InitialBalance <- MCBalance
  Freezable = {}
  Policies <- MCVelocity
  VelocityCounts = {1, 2}
  NanosPerMicro = 2
  Partitions <- MCPartitions
  PartitionOf <- MCPartitionOf
  Subjects = {}
  MaxDuplicates = 1
  MaxPoison = 1
  Accounts <- MCAccounts
  System = {}
  MaxMinor = 20
INVARIANTS
  NoRecordLost
  NoCommittedEventQuarantined
  InboxAgreesWithEffects
PROPERTIES
  AcceptedIsAssessed
  ApprovedIsSettled
CHECK_DEADLOCK FALSE
