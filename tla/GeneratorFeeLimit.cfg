\* Do the fees stay within the limit?
SPECIFICATION Spec
CONSTANTS
    NativeLane = TRUE
    MinimumSignatures = 2
    MassPerSigOp = 1
    GramsPerBudgetUnit = 2
    SignatureMass = 0
    InputBytes = 1
    ApproxInputBytes = 1
    BaseMass = 1
    OutputMass = 1
    TransientFactor = 1
    MaxStandardMass = 12
    RateUnit = 2
    Word = 512
    MinChangeTarget = 6
    DefaultMaxFee = 8
    MaxDaa = 1
    WalletAddresses = {"A", "B"}
    NodeRates = {2, 3}
    Wallets <- MCWallets
    Requests <- MCRequests
INVARIANTS
    FeesWithinLimit
\* One request: the call ends.
CHECK_DEADLOCK FALSE
