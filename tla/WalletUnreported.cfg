CONSTANTS
    Txs <- MCTxs
    Addresses <- MCAddresses
    WalletAddresses <- MCWallet
    InputsOf <- MCInputs
    OutputsOf <- KnownChangeOutputs
    Batches <- KnownChangeBatches
    Genesis = {"funding"}
    Foreign = {"received"}
    ReportsPool = FALSE
    MaxEvictions = 1
    MaxCrashes = 0
    AllowBroadcast = FALSE
    NewAddresses = {}
    AnswersGetLost = TRUE
SPECIFICATION Spec
INVARIANTS
    SpentStaysSpent
    ParentsFirst
PROPERTIES
    PendingStaysTracked
