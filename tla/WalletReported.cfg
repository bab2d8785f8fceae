CONSTANTS
    Txs <- MCTxs
    Addresses <- MCAddresses
    WalletAddresses <- MCWallet
    InputsOf <- MCInputs
    OutputsOf <- KnownChangeOutputs
    Batches <- KnownChangeBatches
    Genesis = {"funding"}
    Foreign = {"received"}
    ReportsPool = TRUE
    MaxEvictions = 0
    MaxCrashes = 1
    AllowBroadcast = FALSE
    NewAddresses = {"A2"}
    AnswersGetLost = FALSE
SPECIFICATION Spec
INVARIANTS
    TypeOK
    SpentStaysSpent
    EverySendAccepted
