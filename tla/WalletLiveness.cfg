CONSTANTS
    Txs <- MCTxs
    Addresses <- MCAddresses
    WalletAddresses <- MCWallet
    InputsOf <- MCInputs
    OutputsOf <- KnownChangeOutputs
    Batches <- KnownChangeBatches
    Genesis = {"funding"}
    Foreign = {"rival"}
    ReportsPool = FALSE
    MaxEvictions = 0
    MaxCrashes = 0
    AllowBroadcast = FALSE
    NewAddresses = {}
    AnswersGetLost = TRUE
SPECIFICATION FairSpec
PROPERTIES
    AcceptedIsForgotten
    CoinsShowUp
    PhantomsDisappear
