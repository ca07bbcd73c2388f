SPECIFICATION FairSpec
CONSTANTS
  Pending = {"approve"}
  Immediate = {}
  SplitPartitions = FALSE
  Skew = 1
  Transfers <- MCTransfers
  Direct <- Immediate
  Intent <- MCIntent
  AccountInfo <- MCInfo
  InitialBalance <- MCBalance
  Freezable = {}
  Policies <- MCPlain
  VelocityCounts = {1, 2}
  NanosPerMicro = 2
  Partitions <- MCPartitions
  PartitionOf <- MCPartitionOf
  Subjects = {"eve"}
  MaxDuplicates = 0
  MaxPoison = 0
  Accounts <- MCAccounts
  System = {}
  MaxMinor = 20
PROPERTIES
  AcceptedIsAssessed
CHECK_DEADLOCK FALSE
