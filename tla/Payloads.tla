------------------------------ MODULE Payloads ------------------------------
(***************************************************************************)
(* What becomes of a batch the generator has built: the four requests that  *)
(* make, sign and submit transactions, the payloads their clients carry     *)
(* from daemon to daemon, and the answers.                                  *)
(*                                                                         *)
(* A client may take what it got to any daemon: one with other keys, or     *)
(* one configured for another lane.  It keeps every payload, so that it may *)
(* come back with an old one, or with the rest of one that was submitted    *)
(* in part.  Submissions exclude each other by a mutex.  Sign takes none,    *)
(* but has nothing in common with them: it runs between them here.          *)
(***************************************************************************)
EXTENDS TransactionGenerator

CONSTANTS
    Lane,       \* the lane of the daemon that makes the batch: "native" or another
    Mnemonics,  \* the mnemonics of its keys file
    Daemons,    \* the daemons a client may ask to sign and to broadcast
    Carried     \* bound: the requests whose batches are followed beyond the generator

Home == [lane |-> Lane, mnemonics |-> Mnemonics]

ASSUME PayloadsAssumption ==
    /\ NativeLane <=> Lane = "native"
    /\ Home \in Daemons
    /\ Carried \subseteq Requests

VARIABLES
    held,    \* the payloads, as they went over the wire, that clients hold
    job,     \* the request that submits, if one does: the payload, which transaction
             \* is next, is the node being asked, has it taken one?
    taken,   \* the transactions of the batch the node has taken
    reply    \* the last request's outcome, whether it got something taken by the
             \* node, and whether that was the payment, the last transaction

payloadVars == <<held, job, taken, reply>>

-----------------------------------------------------------------------------
(* Keys and scripts. *)

\* Wallets of several keys derive them from another master path
\* (master_key_path), and pay to the hash of a script (multisig_address).
IsMultisig(mnemonics) == Cardinality(mnemonics) > 1

PathOf(addr) == addr

Keys(mnemonics, paths) ==
    [hash : {FALSE}, of : {{m} : m \in mnemonics}, master : {IsMultisig(mnemonics)}, path : paths]

ScriptOf(addr) ==
    [hash |-> IsMultisig(Mnemonics), of |-> Mnemonics,
     master |-> IsMultisig(Mnemonics), path |-> PathOf(addr)]

\* The gate of lane-bound daemons (ensure_subnetwork_id_matches).
LaneAllowed(d, lane) == d.lane = "native" \/ lane = d.lane

-----------------------------------------------------------------------------
(* Transactions, unsigned, on the wire, and signed. *)

Commit ==
    IF TxVersion = 1 THEN [field |-> "computeBudget", value |-> ComputeBudget]
                     ELSE [field |-> "sigOpCount", value |-> MinimumSignatures]

\* generate_unsigned_transaction, for the k-th of the batch.
\* Mutant: only the path of the first input goes along.
FirstPathOnly(k) ==
    [tx |-> [id |-> k, version |-> TxVersion, lane |-> Lane,
             ins |-> [i \in DOMAIN batch[k].ins |->
                         [coin |-> batch[k].ins[i].id, commit |-> Commit]],
             outs |-> batch[k].outs, payload |-> batch[k].payload],
     signatures |-> {},
     entries |-> [i \in DOMAIN batch[k].ins |-> ScriptOf(batch[k].ins[i].addr)],
     paths |-> {PathOf(batch[k].ins[1].addr)},
     fully |-> FALSE]

Unsigned(k) ==
    [tx |-> [id |-> k, version |-> TxVersion, lane |-> Lane,
             ins |-> [i \in DOMAIN batch[k].ins |->
                         [coin |-> batch[k].ins[i].id, commit |-> Commit]],
             outs |-> batch[k].outs, payload |-> batch[k].payload],
     signatures |-> {},
     entries |-> [i \in DOMAIN batch[k].ins |-> ScriptOf(batch[k].ins[i].addr)],
     paths |-> {PathOf(coin.addr) : coin \in Range(batch[k].ins)},
     fully |-> FALSE]

UnsignedBatch == [k \in DOMAIN batch |-> Unsigned(k)]

\* The wire carries both fields an input may commit to; the version tells which
\* one counts, and the other must be zero.
ToWire(s) ==
    [signed |-> IF s.fully THEN "fully" ELSE "partially",
     id |-> s.tx.id, version |-> s.tx.version, lane |-> s.tx.lane,
     ins |-> [i \in DOMAIN s.tx.ins |->
                 LET commit == s.tx.ins[i].commit
                     Field(name) == IF commit.field = name THEN commit.value ELSE 0
                 IN  [coin |-> s.tx.ins[i].coin, signed |-> i \in s.signatures,
                      sigOpCount |-> Field("sigOpCount"),
                      computeBudget |-> Field("computeBudget")]],
     outs |-> s.tx.outs, payload |-> s.tx.payload,
     entries |-> s.entries, paths |-> s.paths]

Malformed(w) ==
    \/ w.signed = "unset"
    \/ Len(w.entries) # Len(w.ins)
    \/ \E in \in Range(w.ins) :
           IF w.version = 1 THEN in.sigOpCount # 0 ELSE in.computeBudget # 0

\* Mutant: the field of version 0 is read whatever the version is.
CommitOfVersion0(w, in) == [field |-> "sigOpCount", value |-> in.sigOpCount]
CommitOf(w, in) ==
    IF w.version = 1 THEN [field |-> "computeBudget", value |-> in.computeBudget]
                     ELSE [field |-> "sigOpCount", value |-> in.sigOpCount]

FromWire(w) ==
    [tx |-> [id |-> w.id, version |-> w.version, lane |-> w.lane,
             ins |-> [i \in DOMAIN w.ins |->
                         [coin |-> w.ins[i].coin, commit |-> CommitOf(w, w.ins[i])]],
             outs |-> w.outs, payload |-> w.payload],
     signatures |-> {i \in DOMAIN w.ins : w.ins[i].signed},
     entries |-> w.entries, paths |-> w.paths,
     fully |-> w.signed = "fully"]

Encoded(payload) == [k \in DOMAIN payload |-> ToWire(payload[k])]
Decoded(payload) == [k \in DOMAIN payload |-> FromWire(payload[k])]

\* What a client makes of a payload: the library decodes the answer, and the
\* command line client writes it to a file, reads it, and has it encoded again.
ClientCopy(payload) == Encoded(Decoded(payload))
FileCopy(payload) == Encoded(Decoded(payload))

\* sign_transaction: one key for each path and mnemonic; sign_with_multiple signs
\* the inputs that pay to one of them, and leaves other signatures alone.
\* "Fully" looks at the keys of this daemon, not at the signatures that are there.
SignTransaction(d, s) ==
    LET mine == {i \in DOMAIN s.entries : s.entries[i] \in Keys(d.mnemonics, s.paths)}
    IN  [s EXCEPT !.signatures = @ \cup mine, !.fully = mine = DOMAIN s.entries]

SignTransactions(d, payload) == [k \in DOMAIN payload |-> SignTransaction(d, payload[k])]

-----------------------------------------------------------------------------
(* Answers. *)

\* classify_submit_rpc_error: the first phrase it knows decides.
\* Mutants: a submission without a clear answer counts as any failed call, or
\* as a rejection.
ClassifyAsRpc(message) == IF message = {} THEN "Rpc" ELSE "Rejected"
ClassifyAsRejected(message) == IF "is an orphan" \in message THEN "Orphan" ELSE "Rejected"

Classify(message) ==
    CASE "is an orphan" \in message -> "Orphan"
      [] "already spent" \in message -> "DoubleSpend"
      [] "transaction rejected" \in message -> "Rejected"
      [] OTHER -> "SubmitRpc"

\* WalletError::to_status.
Status(error) ==
    CASE error = "OK" -> "Ok"
      [] error \in {"InvalidArgument", "InvalidAddress", "InsufficientFunds", "FeeTooLow",
                    "DoubleSpend", "NotFullySigned"} -> "InvalidArgument"
      [] error = "NotYetSynced" -> "FailedPrecondition"
      [] error = "WrongPassword" -> "Unauthenticated"
      [] error = "Rpc" -> "Unavailable"
      [] error \in {"Rejected", "Orphan"} -> "Aborted"
      [] error \in {"BuildFailed", "UtxoNotFound", "SubmitRpc"} -> "Internal"

\* classify_submit_status, with which the client library takes the answer to a
\* Send for the node's: of the phrases the daemon's user_message has that of an
\* orphan only ("attempts a double spend" is none).
ClassifyStatus(code, message) ==
    CASE "is an orphan" \in message -> "Orphan"
      [] code \in {"InvalidArgument", "Aborted"} -> "Rejected"
      [] OTHER -> "SubmitRpc"

UserMessage(error) == IF error = "Orphan" THEN {"is an orphan"} ELSE {}

\* What the client is told: a status as it is, except of a Send.
Told(r) ==
    IF r.op = "Send" /\ r.error # "OK"
    THEN ClassifyStatus(Status(r.error), UserMessage(r.error))
    ELSE Status(r.error)

NoJob == [op |-> "none", by |-> Home, payload |-> <<>>, next |-> 0,
          asking |-> FALSE, took |-> FALSE]
Submission(op, d, payload) ==
    [op |-> op, by |-> d, payload |-> payload, next |-> 1, asking |-> FALSE, took |-> FALSE]

NoReply == [op |-> "none", error |-> "none", took |-> FALSE, paid |-> FALSE]
InProgress == [NoReply EXCEPT !.error = "in progress"]

Reply(op, error) == reply' = [NoReply EXCEPT !.op = op, !.error = error]

\* A request fails before it has submitted anything.
FailsEarly(op, error) ==
    /\ Reply(op, error)
    /\ UNCHANGED <<held, job, taken>>

PayloadsInit ==
    /\ Init
    /\ held = {}
    /\ job = NoJob
    /\ taken = {}
    /\ reply = NoReply

\* Send and CreateUnsignedTransactions refuse before the first sync, and pass on
\* what the generator objects to.
NotYetSynced ==
    /\ pc = "validate" /\ request \in Carried
    /\ pc' = "done"
    /\ \E op \in {"Send", "CreateUnsignedTransactions"} : FailsEarly(op, "NotYetSynced")
    /\ UNCHANGED <<utxos, request, daa, rate, maxFee, selected, candidate,
                   pieces, batch, topUps, answer>>

NotGenerated ==
    /\ pc = "done"
    /\ answer \notin {"pending", "Built"}
    /\ reply = NoReply /\ request \in Carried
    /\ \E op \in {"Send", "CreateUnsignedTransactions"} : FailsEarly(op, answer)
    /\ UNCHANGED vars

\* The request that had the batch made goes on.
Generated == answer = "Built" /\ reply = NoReply /\ request \in Carried

CreateUnsignedTransactions ==
    /\ Generated
    /\ held' = {ClientCopy(Encoded(UnsignedBatch))}
    /\ Reply("CreateUnsignedTransactions", "OK")
    /\ UNCHANGED <<vars, job, taken>>

Send ==
    /\ Generated
    /\ job' = Submission("Send", Home, SignTransactions(Home, UnsignedBatch))
    /\ reply' = InProgress
    /\ UNCHANGED <<vars, held, taken>>

SendWrongPassword ==
    /\ Generated
    /\ FailsEarly("Send", "WrongPassword")
    /\ UNCHANGED vars

\* What a client sends: a payload it holds; or one a client that knows less of
\* the messages has spoilt.
Spoilt(payload) ==
    {[payload EXCEPT ![1].entries = <<>>], [payload EXCEPT ![1].signed = "unset"]}

RefuseMalformed ==
    /\ \E payload \in held : \E spoilt \in Spoilt(payload) :
           \E k \in DOMAIN spoilt : Malformed(spoilt[k])
    /\ \E op \in {"Sign", "Broadcast"} : FailsEarly(op, "InvalidArgument")
    /\ UNCHANGED vars

WellFormed(payload) == \A k \in DOMAIN payload : ~Malformed(payload[k])

Sign(d, payload) ==
    /\ WellFormed(payload)
    /\ \A k \in DOMAIN payload : LaneAllowed(d, payload[k].lane)
    /\ held' = held \cup {ClientCopy(Encoded(SignTransactions(d, Decoded(payload))))}
    /\ Reply("Sign", "OK")
    /\ UNCHANGED <<vars, job, taken>>

SignOtherLane(d, payload) ==
    /\ WellFormed(payload)
    /\ \E k \in DOMAIN payload : ~LaneAllowed(d, payload[k].lane)
    /\ FailsEarly("Sign", "InvalidArgument")
    /\ UNCHANGED vars

SignWrongPassword(d, payload) ==
    /\ WellFormed(payload)
    /\ \A k \in DOMAIN payload : LaneAllowed(d, payload[k].lane)
    /\ FailsEarly("Sign", "WrongPassword")
    /\ UNCHANGED vars

Broadcast(d, payload) ==
    /\ WellFormed(payload)
    /\ job' = Submission("Broadcast", d, Decoded(payload))
    /\ reply' = InProgress
    /\ UNCHANGED <<vars, held, taken>>

-----------------------------------------------------------------------------
(* submit_transactions. *)

Current == job.payload[job.next]

Ends(error, took, paid) ==
    /\ reply' = [op |-> job.op, error |-> error, took |-> took, paid |-> paid]
    /\ job' = NoJob

NotFullySigned ==
    /\ job # NoJob /\ ~job.asking
    /\ ~Current.fully
    /\ Ends("NotFullySigned", job.took, FALSE)
    /\ UNCHANGED <<vars, held, taken>>

OtherLane ==
    /\ job # NoJob /\ ~job.asking
    /\ Current.fully
    /\ ~LaneAllowed(job.by, Current.tx.lane)
    /\ Ends("InvalidArgument", job.took, FALSE)
    /\ UNCHANGED <<vars, held, taken>>

\* Mutant: without the check of the signatures.
MayGoUnsigned == LaneAllowed(job.by, Current.tx.lane)
MayGo == Current.fully /\ LaneAllowed(job.by, Current.tx.lane)

Ask ==
    /\ job # NoJob /\ ~job.asking
    /\ MayGo
    /\ job' = [job EXCEPT !.asking = TRUE]
    /\ UNCHANGED <<vars, held, taken, reply>>

\* The node: a transaction is taken once, with all its signatures, after those
\* it spends from, and if no other has taken its coins.
Parents(tx) == {in.coin[2] : in \in {i \in Range(tx.ins) : i.coin[1] = "split"}}
NodeTakes(s) ==
    /\ s.signatures = DOMAIN s.tx.ins
    /\ Parents(s.tx) \subseteq taken
    /\ \A k \in taken : Spends(batch[k]) \cap Spends(batch[s.tx.id]) = {}

\* What it may find wrong with a transaction: the missing parents, otherwise
\* a rival for its coins or its own rules; or it does not answer.
Complaints(s) ==
    IF Parents(s.tx) \subseteq taken
    THEN {{"already spent"}, {"transaction rejected"}, {}}
    ELSE {{"is an orphan"}, {"is an orphan", "transaction rejected"}}

\* One turn of the loop is over; the last one ends the request, and Send
\* returns the signed payload.
IsLast == job.next = Len(job.payload)
NextTurn == [job EXCEPT !.next = @ + 1, !.asking = FALSE]

Accepted ==
    /\ job.asking
    /\ NodeTakes(Current)
    /\ taken' = taken \cup {Current.tx.id}
    /\ IF IsLast THEN Ends("OK", TRUE, TRUE)
       ELSE job' = [NextTurn EXCEPT !.took = TRUE] /\ UNCHANGED reply
    /\ held' = IF IsLast /\ job.op = "Send" THEN held \cup {ClientCopy(Encoded(job.payload))} ELSE held
    /\ UNCHANGED vars

\* Mutant: the loop goes on after an error.
RefusedGoesOn ==
    /\ job.asking
    /\ \E message \in Complaints(Current) :
           IF IsLast THEN Ends(Classify(message), job.took, FALSE)
           ELSE job' = NextTurn /\ UNCHANGED reply
    /\ UNCHANGED <<vars, held, taken>>

Refused ==
    /\ job.asking
    /\ \E message \in Complaints(Current) : Ends(Classify(message), job.took, FALSE)
    /\ UNCHANGED <<vars, held, taken>>

\* The node takes the transaction, and the connection breaks.
Unanswered ==
    /\ job.asking
    /\ NodeTakes(Current)
    /\ taken' = taken \cup {Current.tx.id}
    /\ Ends(Classify({}), TRUE, IsLast)
    /\ UNCHANGED <<vars, held>>

PayloadsNext ==
    \/ Next /\ UNCHANGED payloadVars
    \/ NotYetSynced \/ NotGenerated
    \/ CreateUnsignedTransactions \/ Send \/ SendWrongPassword
    \/ /\ job = NoJob
       /\ \/ RefuseMalformed
          \/ \E d \in Daemons : \E payload \in held :
                 \/ Sign(d, FileCopy(payload)) \/ SignOtherLane(d, payload) \/ SignWrongPassword(d, payload)
                 \/ \E k \in DOMAIN payload :
                        Broadcast(d, FileCopy(SubSeq(payload, k, Len(payload))))
    \/ NotFullySigned \/ OtherLane \/ Ask \/ Accepted \/ Refused \/ Unanswered

PayloadsSpec == PayloadsInit /\ [][PayloadsNext]_<<vars, payloadVars>>

-----------------------------------------------------------------------------
(* Properties. *)

\* Whichever daemons sign a payload, and whichever version of it a client comes
\* back with: the node is asked to take only transactions whose every input is
\* signed (common.rs: the "must be Fully signed" precondition).  "Fully" speaks
\* of the last daemon's keys; it never promises more signatures than there are.
SubmittedIsSigned == job.asking => Current.signatures = DOMAIN Current.tx.ins

\* However often it travels, a transaction reaches the node as the generator
\* built it: its coins, its outputs and what its inputs commit to, which is
\* what its mass and fee were computed for.
SubmittedAsBuilt == job.asking => Current.tx = Unsigned(Current.tx.id).tx

\* With the wallet's one key, Send signs every transaction it made in full, also
\* those that spend the others' outputs.  Whatever the keys, it hands the node none
\* that spends what the node does not have: it stops at the first that is not taken.
SendInOrder ==
    job.op = "Send" =>
        /\ (\E m \in Mnemonics : Mnemonics = {m}) => \A s \in Range(job.payload) : s.fully
        /\ job.asking => Parents(Current.tx) \subseteq taken


\* A client that acts on a failure is not misled about what that request got taken
\* (of an earlier request, whose answer it lost, the failure says nothing).  After
\* those that have it just try again (FailedPrecondition, "so clients retry":
\* common.rs; Unavailable; a mistyped password) nothing the request made was taken.
\* And when its library says that a Send was rejected (client.rs: "a mempool
\* rejection"), or a Broadcast is Aborted, the request has not got the payment
\* taken, answers of the node that got lost included.
FailuresAreFinal ==
    reply.error \notin {"none", "in progress"} =>
        /\ Status(reply.error) \in {"FailedPrecondition", "Unavailable", "Unauthenticated"}
               => ~reply.took
        /\ Told(reply) \in {"Rejected", "Orphan", "Aborted", "InvalidArgument"} => ~reply.paid
=============================================================================
