CONSTANTS
    None = None
    Foreign = Foreign
    Tx = {t1}
    Wallet = {home, other}
    Home = home
    Check = {list, detail}
    MaxNonce = 0
    MaxCrash = 1
SPECIFICATION FairSpec
PROPERTY Settles
CHECK_DEADLOCK FALSE
