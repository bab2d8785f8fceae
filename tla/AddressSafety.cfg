CONSTANTS
    MaxIndex = 2
    Cosigners = {0, 1}
    cosigner_index = 0
    Clients = {c1, c2}
    RecentWindow = 1
    FarWindow = 1
    Elsewhere <- Cosigned
    Payable = {}
    SavesFail = TRUE
    MaxDrains = 0
    MaxCrashes = 1
SPECIFICATION Spec
SYMMETRY ClientSymmetry
INVARIANTS
    TypeOK
    HandedIsDurable
    SyncedKnowsOldCoins
PROPERTIES
    HandsOutNew
