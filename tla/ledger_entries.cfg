SPECIFICATION Spec
CONSTANTS
    Accounts = {1, 2, 4}
    System = {1}
    MaxMinor = 3
    Calls = {"fund", "fund_id", "undo", "undo_2", "redo", "wrong"}
    EntryOf <- MCEntryOf
    CurrencyOf <- MCCurrencyOf
    WalletOf <- MCWalletOf
    WalletRequests <- MCFirstWallet
    Connections = 2
    MaxAttempts = 1
    MaxVersion = 5
INVARIANTS EveryEntryIsRestorable BooksBalance
PROPERTY ImplementsAtomicLedger
CHECK_DEADLOCK FALSE
