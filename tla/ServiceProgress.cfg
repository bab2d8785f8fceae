CONSTANTS
    s1 = s1
    s2 = s2
    sync = sync
    Slots = {s1, s2}
    SyncTask = sync
    Requests = {"NewAddress", "GetBalance", "GetUtxos", "CreateUnsignedTransactions", "Send", "Broadcast"}
    MaxRounds = 1
SPECIFICATION Spec
INVARIANTS
    TypeOK
    OneHolder
    LockOrder
    RefreshWaitsForSpends
PROPERTIES
    AddressesNeedNoNode
    EveryRequestEnds
    SyncGoesOn
