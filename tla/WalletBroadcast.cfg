CONSTANTS
    Txs <- MCTxs
    Addresses <- MCAddresses
    WalletAddresses <- MCWallet
    InputsOf <- MCInputs
    OutputsOf <- FreshChangeOutputs
    Batches <- FreshChangeSingles
    Genesis = {"funding"}
    Foreign = {}
    ReportsPool = TRUE
    MaxEvictions = 1
    MaxCrashes = 1
    AllowBroadcast = TRUE
    NewAddresses = {}
    AnswersGetLost = FALSE
SPECIFICATION Spec
INVARIANTS
    ViewAgrees
    NoCoinTwice
