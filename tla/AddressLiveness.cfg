CONSTANTS
    MaxIndex = 2
    Cosigners = {0, 1}
    cosigner_index = 0
    Clients = {c1}
    RecentWindow = 1
    FarWindow = 1
    Elsewhere <- Cosigned
    Payable <- Cosigned
    SavesFail = FALSE
    MaxDrains = 1
    MaxCrashes = 0
SPECIFICATION FairSpec
PROPERTIES
    RecentCoinsAreFound
    OldCoinsAreFound
    SyncedAgain
