SPECIFICATION FairSpec
CONSTANTS
    Accounts = {1, 2, 3, 4}
    System = {1}
    MaxMinor = 3
    Calls = {"fund", "pay", "around", "mixed"}
    EntryOf <- MCEntryOf
    CurrencyOf <- MCCurrencyOf
    WalletOf <- MCWalletOf
    WalletRequests <- MCWalletRequests
    Connections = 2
    MaxAttempts = 2
    MaxVersion = 2
INVARIANTS LedgerTypeOK Reconciles VersionCountsEntries NobodyWaitsInACircle
PROPERTY EveryPostReturns
CHECK_DEADLOCK FALSE
