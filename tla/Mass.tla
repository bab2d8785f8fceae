-------------------------------- MODULE Mass --------------------------------
(***************************************************************************)
(* The mass of a transaction, and the fee it has to pay, as the generator  *)
(* estimates them before anything is signed (transaction_generator.rs).    *)
(* Mass is linear in the inputs, the outputs and the payload.  Every output *)
(* counts as the longest one, to an ECDSA address.                          *)
(***************************************************************************)
EXTENDS Integers

CONSTANTS
    NativeLane,           \* is the daemon configured for the native subnetwork?
    MinimumSignatures,    \* signatures each input needs
    MassPerSigOp,         \* consensus parameter mass_per_sig_op
    GramsPerBudgetUnit,   \* GRAMS_PER_COMPUTE_BUDGET_UNIT
    SignatureMass,        \* mass of the bytes of one signature
    InputBytes,           \* mass of the other bytes of an input
    ApproxInputBytes,     \* what estimate_mass_per_input takes for those
    BaseMass,             \* a transaction without inputs, outputs and payload
    OutputMass,           \* one output
    TransientFactor,      \* TRANSIENT_BYTE_TO_MASS_FACTOR, normalised
    MaxStandardMass,      \* MAXIMUM_STANDARD_TRANSACTION_MASS
    RateUnit,             \* fee rates are multiples of 1 / RateUnit
    Word                  \* amounts are u64; here they are taken modulo Word

\* TransactionGenerator::new refuses keys that need no signature, or more than a u8.
ASSUME MassAssumption ==
    /\ NativeLane \in BOOLEAN
    /\ MinimumSignatures \in 1..255
    /\ {MassPerSigOp, SignatureMass, InputBytes, ApproxInputBytes, BaseMass,
        OutputMass, TransientFactor} \subseteq Nat
    /\ {GramsPerBudgetUnit, RateUnit, Word, MaxStandardMass} \subseteq Nat \ {0}
    /\ InputBytes > 0

Smaller(a, b) == IF a <= b THEN a ELSE b
Larger(a, b) == IF a >= b THEN a ELSE b
CeilDiv(a, b) == (a + b - 1) \div b

\* The release build wraps: no u64 addition or subtraction here is checked.
\* Mutant: signed amounts.
Signed(n) == n
U64(n) == n % Word
U64Max == Word - 1

TxVersion == IF NativeLane THEN 0 ELSE 1

ComputeBudget == CeilDiv(MassPerSigOp, GramsPerBudgetUnit) * MinimumSignatures

\* What one input's signature checks cost: version 0 commits to a number of
\* signature operations, version 1 to a compute budget, which the mass
\* calculator leaves out and the generator adds.
ScriptMass ==
    IF TxVersion = 1 THEN ComputeBudget * GramsPerBudgetUnit
                     ELSE MinimumSignatures * MassPerSigOp

InputMass == InputBytes + MinimumSignatures * SignatureMass + ScriptMass
ApproxInputMass == ApproxInputBytes + MinimumSignatures * SignatureMass + ScriptMass

ComputeMass(ins, outs, payload) ==
    BaseMass + ins * InputMass + outs * OutputMass + payload

\* The signed size in bytes, weighted: it exceeds the compute mass only of a
\* transaction that is mostly payload.
TransientMass(ins, outs, payload) ==
    TransientFactor * (BaseMass + ins * (InputBytes + MinimumSignatures * SignatureMass)
                       + outs + payload)

\* The mass the node's relay floor charges one sompi per gram for.
FeeMass(ins, outs, payload) ==
    Larger(ComputeMass(ins, outs, payload), TransientMass(ins, outs, payload))

FeeAt(rate, mass) == CeilDiv(mass * rate, RateUnit)
=============================================================================
