CONSTANTS
    None = None
    Foreign = Foreign
    Tx = {t1, t2}
    Wallet = {home, other}
    Home = home
    Check = {list}
    MaxNonce = 1
    MaxCrash = 1
SPECIFICATION Spec
SYMMETRY Symmetry
INVARIANT HashBeforeSend
CHECK_DEADLOCK FALSE
