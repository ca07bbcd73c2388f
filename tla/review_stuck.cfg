SPECIFICATION FairSpec
CONSTANTS
  Pending = {"review"}
  Immediate = {}
  SplitPartitions = FALSE
  Skew = 0
  Transfers <- MCTransfers
  Direct <- Immediate
  Intent <- MCIntent
  AccountInfo <- MCInfo
  InitialBalance <- MCBalance
  Freezable = {}
  Policies <- MCPlain
  VelocityCounts = {1, 2}
  NanosPerMicro = 2
  Partitions <- MCPartitions
  PartitionOf <- MCPartitionOf
  Subjects = {"eve"}
  MaxDuplicates = 0
  MaxPoison = 0
  Accounts <- MCAccounts
  System = {}
  MaxMinor = 20
PROPERTIES
  ApprovedIsSettled
CHECK_DEADLOCK FALSE
