SPECIFICATION FairSpec
CONSTANTS
    Calls = {"pending", "again", "other"}
    Direct = {"other"}
    KeyOf <- MCKeyOf
    IntentOf <- MCIntentOf
    MaxAttempts = 2
INVARIANTS TypeOK ReplayIsStable
PROPERTIES EveryCallReturns ImplementsRegistry
CHECK_DEADLOCK FALSE
