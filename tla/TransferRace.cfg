CONSTANTS
    None = None
    Foreign = Foreign
    Tx = {t1, t2, t3}
    Wallet = {home}
    Home = home
    Check = {list}
    MaxNonce = 0
    MaxCrash = 1
SPECIFICATION Spec
SYMMETRY Symmetry
INVARIANTS NonceCompetitors VerdictsAreTrue
PROPERTIES ChecksNeverRevive OneSamplePerSettlement
CHECK_DEADLOCK FALSE
