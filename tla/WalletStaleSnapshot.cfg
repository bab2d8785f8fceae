CONSTANTS
    Txs <- MCTxs
    Addresses <- MCAddresses
    WalletAddresses <- MCWallet
    InputsOf <- MCInputs
    OutputsOf <- FreshChangeOutputs
    Batches <- FreshChangeBatches
    Genesis = {"funding"}
    Foreign = {}
    ReportsPool = FALSE
    MaxEvictions = 0
    MaxCrashes = 0
    AllowBroadcast = FALSE
    NewAddresses = {}
    AnswersGetLost = FALSE
SPECIFICATION Spec
PROPERTIES
    PendingStaysTracked
