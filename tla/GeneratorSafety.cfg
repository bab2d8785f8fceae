\* Every request and wallet of MCTransactionGenerator, version 1 transactions; three
\* requests are followed from the generator to the node.
SPECIFICATION PayloadsSpec
CONSTANTS
    NativeLane = FALSE
    MinimumSignatures = 1
    MassPerSigOp = 2
    GramsPerBudgetUnit = 1
    SignatureMass = 0
    InputBytes = 1
    ApproxInputBytes = 1
    BaseMass = 1
    OutputMass = 1
    TransientFactor = 1
    MaxStandardMass = 12
    RateUnit = 2
    Word = 512
    MinChangeTarget = 6
    DefaultMaxFee = 8
    MaxDaa = 1
    WalletAddresses = {"A", "B"}
    NodeRates = {2, 3}
    Wallets <- MCWallets
    Requests <- MCRequests
    Lane = "lane"
    Mnemonics <- MCMnemonics
    Daemons <- MCDaemons
    Carried <- MCCarried
INVARIANTS
    TypeOK
    PaysRelayFloor
    RecipientPaidOnce
    NothingLeftBehind
    SubmittableInOrder
    StandardMass
    SubmittedIsSigned
    SubmittedAsBuilt
    
    SendInOrder
    FailuresAreFinal
\* One request: the call ends.
CHECK_DEADLOCK FALSE
