CONSTANTS
    Txs <- MCTxs
    Addresses <- MCAddresses
    WalletAddresses <- MCWallet
    InputsOf <- MCInputs
    OutputsOf <- KnownChangeOutputs
    Batches <- KnownChangeBatches
    Genesis = {"funding"}
    Foreign = {}
    ReportsPool = FALSE
    MaxEvictions = 1
    MaxCrashes = 0
    AllowBroadcast = FALSE
    NewAddresses = {}
    AnswersGetLost = FALSE
SPECIFICATION FairSpec
PROPERTIES
    PhantomsDisappear
