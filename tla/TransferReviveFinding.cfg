CONSTANTS
    None = None
    Foreign = Foreign
    Tx = {t1, t2}
    Wallet = {home, other}
    Home = home
    Check = {list}
    MaxNonce = 1
    MaxCrash = 1
SPECIFICATION Spec
SYMMETRY Symmetry
PROPERTY SettledStaysSettled
CHECK_DEADLOCK FALSE
