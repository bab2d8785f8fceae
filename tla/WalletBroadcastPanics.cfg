CONSTANTS
    Txs <- MCTxs
    Addresses <- MCAddresses
    WalletAddresses <- MCWallet
    InputsOf <- MCInputs
    OutputsOf <- FreshChangeOutputs
    Batches <- FreshChangeBatches
    Genesis = {"funding"}
    Foreign = {}
    ReportsPool = TRUE
    MaxEvictions = 0
    MaxCrashes = 1
    AllowBroadcast = TRUE
    NewAddresses = {}
    AnswersGetLost = FALSE
SPECIFICATION Spec
INVARIANTS
    SubmissionsApplied
