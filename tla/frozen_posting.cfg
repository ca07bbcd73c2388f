SPECIFICATION Spec
CONSTANTS
  Pending = {"approve"}
  Immediate = {}
  SplitPartitions = FALSE
  Skew = 0
  Transfers <- MCTransfers
  Direct <- Immediate
  Intent <- MCIntent
  AccountInfo <- MCInfo
  InitialBalance <- MCBalance
  Freezable = {2}
  Policies <- MCPlain
  VelocityCounts = {1, 2}
  NanosPerMicro = 2
  Partitions <- MCPartitions
  PartitionOf <- MCPartitionOf
  Subjects = {"eve"}
  MaxDuplicates = 0
  MaxPoison = 0
  Accounts <- MCAccounts
  System = {}
  MaxMinor = 20
PROPERTIES
  PostedAccountsAreActive
CHECK_DEADLOCK FALSE
