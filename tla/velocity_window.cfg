SPECIFICATION Spec
CONSTANTS
    Transfers = {t1, t2}
    Window = 3
    Skew = 1
    MaxTime = 4
INVARIANT TypeOK
PROPERTY CountIsOfTheWindow
CHECK_DEADLOCK FALSE
