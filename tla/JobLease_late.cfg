SPECIFICATION FairSpec
CONSTANTS
    Run = {r1, r2}
    NoRun = NoRun
    TTL = 3
    HB = 2
    Lag = 3
    MaxFails = 1
PROPERTIES OnlyOwnerEndsLiveLease SupersededRunIsHarmless LeasesMoveOn
