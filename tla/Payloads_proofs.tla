-------------------------- MODULE Payloads_proofs --------------------------
(***************************************************************************)
(* Whatever the wallet, the request, the lanes and keys of the daemons, and *)
(* the ways clients carry their payloads from one to another: what a daemon *)
(* hands to the node is signed in full and as it was built.                 *)
(***************************************************************************)
EXTENDS Payloads, TransactionCoins_proofs

-----------------------------------------------------------------------------
(* The wire. *)

\* The k-th transaction of a batch b, as it is built.
TxOf(b, k) ==
    [id |-> k, version |-> TxVersion, lane |-> Lane,
     ins |-> [i \in DOMAIN b[k].ins |-> [coin |-> b[k].ins[i].id, commit |-> Commit]],
     outs |-> b[k].outs, payload |-> b[k].payload]

\* A transaction of batch b: unchanged, and "fully" only with every signature.
Good(b, s) ==
    /\ s = [tx |-> s.tx, signatures |-> s.signatures, entries |-> s.entries,
            paths |-> s.paths, fully |-> s.fully]
    /\ s.tx.id \in DOMAIN b
    /\ s.tx = TxOf(b, s.tx.id)
    /\ DOMAIN s.entries = DOMAIN s.tx.ins
    /\ s.signatures \subseteq DOMAIN s.tx.ins
    /\ s.fully \in BOOLEAN
    /\ s.fully => s.signatures = DOMAIN s.tx.ins

\* A payload in a daemon's hands, and one on the wire.
GoodPayload(b, payload) ==
    /\ IsSeq(payload)
    /\ Len(payload) > 0
    /\ \A k \in DOMAIN payload : Good(b, payload[k])

GoodWire(b, payload) ==
    /\ IsSeq(payload)
    /\ Len(payload) > 0
    /\ \A k \in DOMAIN payload : Good(b, FromWire(payload[k]))

\* What a daemon sends of a transaction it has made, its client decodes to the
\* same transaction: nothing is lost, and the inputs commit to what they did.
THEOREM WireRoundTrip ==
    ASSUME NEW b, NEW s, Good(b, s)
    PROVE  FromWire(ToWire(s)) = s
<1> DEFINE w == ToWire(s)
           k == s.tx.id
<1>1. s.tx = [id |-> k, version |-> TxVersion, lane |-> Lane,
              ins |-> [i \in DOMAIN b[k].ins |-> [coin |-> b[k].ins[i].id, commit |-> Commit]],
              outs |-> b[k].outs, payload |-> b[k].payload]
  BY DEF Good, TxOf
<1>2. /\ s.tx.version = TxVersion /\ s.tx.lane = Lane
      /\ DOMAIN s.tx.ins = DOMAIN b[k].ins
      /\ \A i \in DOMAIN s.tx.ins : s.tx.ins[i] = [coin |-> b[k].ins[i].id, commit |-> Commit]
  BY <1>1
<1>3. /\ w.id = k /\ w.version = TxVersion /\ w.lane = Lane
      /\ w.outs = s.tx.outs /\ w.payload = s.tx.payload
      /\ w.entries = s.entries /\ w.paths = s.paths
      /\ w.signed = IF s.fully THEN "fully" ELSE "partially"
      /\ DOMAIN w.ins = DOMAIN s.tx.ins
  BY <1>2 DEF ToWire
<1>4. ASSUME NEW i \in DOMAIN s.tx.ins
      PROVE  /\ w.ins[i].coin = s.tx.ins[i].coin
             /\ w.ins[i].signed = (i \in s.signatures)
             /\ CommitOf(w, w.ins[i]) = Commit
  <2>1. s.tx.ins[i].commit = Commit
    <3>1. s.tx.ins[i] = [coin |-> b[k].ins[i].id, commit |-> Commit]
      BY <1>2
    <3> QED BY <3>1
  <2>2. /\ w.ins[i].coin = s.tx.ins[i].coin
        /\ w.ins[i].signed = (i \in s.signatures)
        /\ w.ins[i].sigOpCount = IF Commit.field = "sigOpCount" THEN Commit.value ELSE 0
        /\ w.ins[i].computeBudget = IF Commit.field = "computeBudget" THEN Commit.value ELSE 0
    BY <2>1 DEF ToWire
  <2>3. CommitOf(w, w.ins[i]) = Commit
    BY <1>3, <2>2 DEF CommitOf, Commit
  <2> QED BY <2>2, <2>3
<1> HIDE DEF w
<1>5. [i \in DOMAIN w.ins |-> [coin |-> w.ins[i].coin, commit |-> CommitOf(w, w.ins[i])]]
        = s.tx.ins
  <2>1. s.tx.ins = [i \in DOMAIN s.tx.ins |-> s.tx.ins[i]]
    BY <1>1
  <2>2. \A i \in DOMAIN s.tx.ins :
            [coin |-> w.ins[i].coin, commit |-> CommitOf(w, w.ins[i])] = s.tx.ins[i]
    <3> TAKE i \in DOMAIN s.tx.ins
    <3>1. s.tx.ins[i] = [coin |-> b[k].ins[i].id, commit |-> Commit]
      BY <1>2
    <3> QED BY <1>4, <3>1
  <2> QED BY <1>3, <2>1, <2>2
<1>6. {i \in DOMAIN w.ins : w.ins[i].signed} = s.signatures
  BY <1>3, <1>4 DEF Good
<1>7. (w.signed = "fully") = s.fully
  BY <1>3 DEF Good
<1>8. FromWire(w).tx = s.tx
  BY <1>1, <1>3, <1>5 DEF FromWire
<1>9. FromWire(w) = [tx |-> s.tx, signatures |-> s.signatures, entries |-> s.entries,
                     paths |-> s.paths, fully |-> s.fully]
  <2>1. FromWire(w) = [tx |-> FromWire(w).tx, signatures |-> {i \in DOMAIN w.ins : w.ins[i].signed},
                       entries |-> w.entries, paths |-> w.paths, fully |-> w.signed = "fully"]
    BY DEF FromWire
  <2> QED BY <1>3, <1>6, <1>7, <1>8, <2>1
<1> QED BY <1>9 DEF Good, w

\* An image of a sequence, element by element, is a sequence of its length.
LEMMA ImageSeq ==
    ASSUME NEW s, IsSeq(s), NEW t, DOMAIN t = DOMAIN s, t = [k \in DOMAIN s |-> t[k]]
    PROVE  IsSeq(t) /\ Len(t) = Len(s)
<1>1. Len(s) \in Nat /\ DOMAIN s = 1..Len(s)
  BY LenProperties DEF IsSeq
<1> QED BY <1>1, IntervalSeq

LEMMA EncodedGood ==
    ASSUME NEW b, NEW payload, GoodPayload(b, payload)
    PROVE  GoodWire(b, Encoded(payload))
<1>1. /\ DOMAIN Encoded(payload) = DOMAIN payload
      /\ Encoded(payload) = [k \in DOMAIN payload |-> Encoded(payload)[k]]
      /\ \A k \in DOMAIN payload : Encoded(payload)[k] = ToWire(payload[k])
  BY DEF Encoded
<1>2. IsSeq(Encoded(payload)) /\ Len(Encoded(payload)) = Len(payload)
  BY <1>1, ImageSeq DEF GoodPayload
<1>3. \A k \in DOMAIN payload : Good(b, FromWire(Encoded(payload)[k]))
  BY <1>1, WireRoundTrip DEF GoodPayload
<1> QED BY <1>1, <1>2, <1>3 DEF GoodWire, GoodPayload

LEMMA DecodedGood ==
    ASSUME NEW b, NEW payload, GoodWire(b, payload)
    PROVE  GoodPayload(b, Decoded(payload))
<1>1. /\ DOMAIN Decoded(payload) = DOMAIN payload
      /\ Decoded(payload) = [k \in DOMAIN payload |-> Decoded(payload)[k]]
      /\ \A k \in DOMAIN payload : Decoded(payload)[k] = FromWire(payload[k])
  BY DEF Decoded
<1>2. IsSeq(Decoded(payload)) /\ Len(Decoded(payload)) = Len(payload)
  BY <1>1, ImageSeq DEF GoodWire
<1> QED BY <1>1, <1>2 DEF GoodWire, GoodPayload

\* Decoding what a client passes on, or reads back from a file, changes nothing.
LEMMA CopiesGood ==
    ASSUME NEW b, NEW payload, GoodWire(b, payload)
    PROVE  GoodWire(b, ClientCopy(payload)) /\ GoodWire(b, FileCopy(payload))
BY EncodedGood, DecodedGood DEF ClientCopy, FileCopy

\* The rest of a payload whose first transactions were submitted.
LEMMA RestGood ==
    ASSUME NEW b, NEW payload, GoodWire(b, payload), NEW k \in DOMAIN payload
    PROVE  GoodWire(b, SubSeq(payload, k, Len(payload)))
<1> DEFINE n == Len(payload)
           rest == SubSeq(payload, k, n)
<1>1. n \in Nat /\ DOMAIN payload = 1..n /\ k \in 1..n
  BY LenProperties DEF GoodWire, IsSeq
<1>2. IsSeq(rest) /\ Len(rest) = n - k + 1
  BY <1>1, PartSeq
<1>3. \A i \in 1..(n - k + 1) : rest[i] = payload[k + i - 1]
  <2>1. \A i \in k..n : payload[i] \in Range(payload)
    BY <1>1 DEF Range
  <2> QED BY <1>1, <2>1, SubSeqProperties
<1>4. DOMAIN rest = 1..(n - k + 1)
  BY <1>2, LenProperties DEF IsSeq
<1> HIDE DEF n, rest
<1>5. ASSUME NEW i \in DOMAIN rest
      PROVE  Good(b, FromWire(rest[i]))
  <2>1. k + i - 1 \in 1..n
    BY <1>1, <1>4
  <2> QED BY <1>1, <1>3, <1>4, <2>1 DEF GoodWire
<1>6. Len(rest) > 0
  BY <1>1, <1>2
<1> QED BY <1>2, <1>5, <1>6 DEF GoodWire, n, rest

-----------------------------------------------------------------------------
(* Building and signing. *)

\* "Fully" is said of a transaction only when this daemon's keys match each of
\* its inputs, and then each of them has a signature.
LEMMA SignedGood ==
    ASSUME NEW b, NEW d, NEW payload, GoodPayload(b, payload)
    PROVE  GoodPayload(b, SignTransactions(d, payload))
<1> DEFINE signed == SignTransactions(d, payload)
<1>1. /\ DOMAIN signed = DOMAIN payload
      /\ signed = [k \in DOMAIN payload |-> signed[k]]
      /\ \A k \in DOMAIN payload : signed[k] = SignTransaction(d, payload[k])
  BY DEF SignTransactions
<1>2. IsSeq(signed) /\ Len(signed) = Len(payload)
  BY <1>1, ImageSeq DEF GoodPayload
<1>3. ASSUME NEW s, Good(b, s)
      PROVE  Good(b, SignTransaction(d, s))
  <2> DEFINE mine == {i \in DOMAIN s.entries : s.entries[i] \in Keys(d.mnemonics, s.paths)}
             r == SignTransaction(d, s)
  <2>1. s = [tx |-> s.tx, signatures |-> s.signatures, entries |-> s.entries,
             paths |-> s.paths, fully |-> s.fully]
    BY <1>3 DEF Good
  <2>2. r = [tx |-> s.tx, signatures |-> s.signatures \cup mine, entries |-> s.entries,
             paths |-> s.paths, fully |-> mine = DOMAIN s.entries]
    <3>1. r = [s EXCEPT !.signatures = @ \cup mine, !.fully = mine = DOMAIN s.entries]
      BY DEF SignTransaction
    <3> QED BY <2>1, <3>1
  <2>3. mine \subseteq DOMAIN s.entries
    OBVIOUS
  <2> HIDE DEF mine, r
  <2>4. /\ r.tx = s.tx /\ r.signatures = s.signatures \cup mine /\ r.entries = s.entries
        /\ r.paths = s.paths /\ r.fully = (mine = DOMAIN s.entries)
    BY <2>2
  <2>5. Good(b, r)
    BY <1>3, <2>2, <2>3, <2>4 DEF Good
  <2> QED BY <2>5 DEF r
<1>4. \A k \in DOMAIN payload : Good(b, signed[k])
  BY <1>1, <1>3 DEF GoodPayload
<1> QED BY <1>1, <1>2, <1>4 DEF GoodPayload

LEMMA UnsignedGood ==
    ASSUME IsSeq(batch), batch # <<>>
    PROVE  GoodPayload(batch, UnsignedBatch)
<1>1. Len(batch) \in Nat /\ DOMAIN batch = 1..Len(batch)
  BY LenProperties DEF IsSeq
<1>2. Len(batch) # 0
  BY EmptySeq DEF IsSeq
<1>3. /\ DOMAIN UnsignedBatch = DOMAIN batch
      /\ UnsignedBatch = [k \in DOMAIN batch |-> UnsignedBatch[k]]
      /\ \A k \in DOMAIN batch : UnsignedBatch[k] = Unsigned(k)
  BY DEF UnsignedBatch
<1>4. IsSeq(UnsignedBatch) /\ Len(UnsignedBatch) = Len(batch)
  BY <1>3, ImageSeq
<1>5. ASSUME NEW k \in DOMAIN batch
      PROVE  Good(batch, Unsigned(k))
  <2>1. Unsigned(k).tx = TxOf(batch, k)
    BY DEF Unsigned, TxOf
  <2>2. /\ Unsigned(k) = [tx |-> Unsigned(k).tx, signatures |-> Unsigned(k).signatures,
                          entries |-> Unsigned(k).entries, paths |-> Unsigned(k).paths,
                          fully |-> Unsigned(k).fully]
        /\ Unsigned(k).signatures = {} /\ Unsigned(k).fully = FALSE
    BY DEF Unsigned
  <2>3. DOMAIN Unsigned(k).entries = DOMAIN TxOf(batch, k).ins
    BY DEF Unsigned, TxOf
  <2>4. TxOf(batch, k).id = k
    BY DEF TxOf
  <2> QED BY <2>1, <2>2, <2>3, <2>4 DEF Good
<1> QED BY <1>1, <1>2, <1>3, <1>4, <1>5 DEF GoodPayload

-----------------------------------------------------------------------------
(* The inductive invariant. *)

\* A submission stands at a transaction of a good payload; the node is asked
\* only after the checks.
JobInv ==
    /\ job = [op |-> job.op, by |-> job.by, payload |-> job.payload, next |-> job.next,
              asking |-> job.asking, took |-> job.took]
    /\ job # NoJob => /\ GoodPayload(batch, job.payload)
                      /\ job.next \in DOMAIN job.payload
    /\ job.asking => Current.fully /\ LaneAllowed(job.by, Current.tx.lane)

\* A batch that was delivered is not empty, and stays: payloads exist only once
\* the generator has ended.
PInv ==
    /\ IInv
    /\ answer = "Built" => pc = "done" /\ batch # <<>>
    /\ held # {} \/ job # NoJob => pc = "done"
    /\ \A payload \in held : GoodWire(batch, payload)
    /\ JobInv

LEMMA NoJobInv == ASSUME job = NoJob PROVE JobInv
BY DEF JobInv, NoJob

LEMMA InitPInv == PayloadsInit => PInv
<1> SUFFICES ASSUME PayloadsInit PROVE PInv
  OBVIOUS
<1>1. IInv /\ JobInv
  BY InitIInv, NoJobInv DEF PayloadsInit
<1> QED BY <1>1 DEF PayloadsInit, Init, PInv

\* The generator does not move any more once it is done, and until then there is
\* nothing to carry.
LEMMA GeneratorPInv ==
    ASSUME PInv, Next, UNCHANGED payloadVars
    PROVE  PInv'
<1>1. IInv'
  BY NextIInv DEF PInv
<1>2. pc # "done"
  <2>1. CASE SelectUtxos
    BY <2>1 DEF SelectUtxos
  <2>2. CASE Split \/ SplitFails \/ Merge \/ MergeWithMore \/ MergeFails
    BY <2>2 DEF Split, SplitFails, MustSplit, Merge, MergeWithMore, MergeFails
  <2>3. CASE Refuse \/ Validate \/ RefuseRate \/ (\E r \in NodeRates : FeeLimits(r))
             \/ CannotAfford \/ CheckFails \/ Deliver \/ RpcFails \/ DaaAdvances
    BY <2>3 DEF Refuse, Validate, RefuseRate, FeeLimits, CannotAfford, CheckFails,
                Deliver, RpcFails, AsksNode, DaaAdvances
  <2> QED BY <2>1, <2>2, <2>3 DEF Next
<1>3. held = {} /\ job = NoJob /\ answer # "Built"
  BY <1>2 DEF PInv
<1>4. held' = {} /\ job' = NoJob
  BY <1>3 DEF payloadVars
<1>5. JobInv'
  BY <1>4 DEF JobInv, NoJob
<1>6. answer' = "Built" => pc' = "done" /\ batch' # <<>>
  <2>1. CASE Refuse \/ RefuseRate \/ CannotAfford \/ CheckFails \/ SplitFails
             \/ MergeFails \/ RpcFails
    BY <2>1 DEF Refuse, Objection, RefuseRate, CannotAfford, CheckFails, SplitFails,
                MergeFails, RpcFails, FeeError, Fail
  <2>2. CASE Deliver
    <3>1. pc' = "done" /\ batch' = Append(batch, candidate)
      BY <2>2 DEF Deliver
    <3>2. Len(batch') = Len(batch) + 1 /\ Len(batch) \in Nat
      BY <3>1, LenProperties, AppendProperties DEF PInv, IInv, IsSeq
    <3> QED BY <3>1, <3>2, EmptyIsSeq
  <2>3. CASE UNCHANGED answer
    BY <1>3, <2>3
  <2> QED BY <2>1, <2>2, <2>3 DEF Next, Validate, FeeLimits, SelectUtxos, Split, Merge,
                                  MergeWithMore, DaaAdvances
<1> QED BY <1>1, <1>4, <1>5, <1>6 DEF PInv

\* The other steps leave the generator's state alone.
LEMMA SameBatch ==
    ASSUME PInv, UNCHANGED vars,
           held' # {} \/ job' # NoJob => pc = "done",
           \A payload \in held' : GoodWire(batch, payload),
           JobInv'
    PROVE  PInv'
<1>1. IInv'
  BY NextIInv DEF PInv
<1>2. batch' = batch /\ pc' = pc /\ answer' = answer
  BY DEF vars
<1> QED BY <1>1, <1>2 DEF PInv

LEMMA SameJob ==
    ASSUME PInv, UNCHANGED <<vars, job>>
    PROVE  JobInv'
BY DEF PInv, JobInv, vars, Current

\* A request that starts to submit, or ends.
LEMMA JobStarts ==
    ASSUME NEW op, NEW d, NEW payload, UNCHANGED vars,
           GoodPayload(batch, payload), job' = Submission(op, d, payload)
    PROVE  JobInv'
<1>1. batch' = batch
  BY DEF vars
<1>2. 1 \in DOMAIN payload
  BY LenProperties DEF GoodPayload, IsSeq
<1> QED BY <1>1, <1>2 DEF JobInv, Submission

LEMMA JobEnds == ASSUME job' = NoJob PROVE JobInv'
BY DEF JobInv, NoJob

LEMMA StartPInv ==
    ASSUME PInv, CreateUnsignedTransactions \/ Send \/ SendWrongPassword \/ NotGenerated
    PROVE  PInv'
<1>1. UNCHANGED vars
  BY DEF CreateUnsignedTransactions, Send, SendWrongPassword, NotGenerated
<1>2. CASE SendWrongPassword \/ NotGenerated
  <2>1. UNCHANGED <<vars, held, job>>
    BY <1>2 DEF SendWrongPassword, NotGenerated, FailsEarly
  <2> QED BY <2>1, SameBatch, SameJob DEF PInv
<1>3. CASE CreateUnsignedTransactions \/ Send
  <2>1. answer = "Built" /\ pc = "done" /\ batch # <<>> /\ IsSeq(batch)
    BY <1>3 DEF CreateUnsignedTransactions, Send, Generated, PInv, IInv
  <2>2. GoodPayload(batch, UnsignedBatch)
    BY <2>1, UnsignedGood
  <2>3. CASE CreateUnsignedTransactions
    <3>1. UNCHANGED <<vars, job>> /\ held' = {ClientCopy(Encoded(UnsignedBatch))}
      BY <2>3 DEF CreateUnsignedTransactions
    <3>2. GoodWire(batch, ClientCopy(Encoded(UnsignedBatch)))
      BY <2>2, EncodedGood, CopiesGood
    <3> QED BY <2>1, <3>1, <3>2, SameBatch, SameJob
  <2>4. CASE Send
    <3>1. /\ UNCHANGED <<vars, held>>
          /\ job' = Submission("Send", Home, SignTransactions(Home, UnsignedBatch))
      BY <2>4 DEF Send
    <3>2. GoodPayload(batch, SignTransactions(Home, UnsignedBatch))
      BY <2>2, SignedGood
    <3>3. JobInv'
      BY <3>1, <3>2, JobStarts
    <3> QED BY <1>1, <2>1, <3>1, <3>3, SameBatch DEF PInv
  <2> QED BY <1>3, <2>3, <2>4
<1> QED BY <1>2, <1>3

LEMMA NotYetSyncedPInv ==
    ASSUME PInv, NotYetSynced
    PROVE  PInv'
<1>1. /\ UNCHANGED <<utxos, request, candidate, pieces, batch, answer, held, job>>
      /\ pc = "validate" /\ pc' = "done"
  BY DEF NotYetSynced, FailsEarly
<1>2. IInv'
  BY <1>1 DEF PInv, IInv, IsTx, IsSeq, StandardMass
<1>3. held = {} /\ job = NoJob
  BY <1>1 DEF PInv
<1>4. JobInv'
  BY <1>1, <1>3, JobEnds
<1> QED BY <1>1, <1>2, <1>4 DEF PInv

\* A client's payload is signed, refused, or broadcast.
LEMMA ClientPInv ==
    ASSUME PInv, NEW d \in Daemons, NEW payload \in held,
           \/ Sign(d, FileCopy(payload)) \/ SignOtherLane(d, payload)
           \/ SignWrongPassword(d, payload)
           \/ \E k \in DOMAIN payload :
                  Broadcast(d, FileCopy(SubSeq(payload, k, Len(payload))))
    PROVE  PInv'
<1>1. UNCHANGED vars /\ pc = "done" /\ GoodWire(batch, payload)
  BY DEF Sign, SignOtherLane, SignWrongPassword, Broadcast, PInv
<1>2. CASE SignOtherLane(d, payload) \/ SignWrongPassword(d, payload)
  <2>1. UNCHANGED <<vars, held, job>>
    BY <1>2 DEF SignOtherLane, SignWrongPassword, FailsEarly
  <2> QED BY <1>1, <2>1, SameBatch, SameJob DEF PInv
<1>3. CASE Sign(d, FileCopy(payload))
  <2> DEFINE copy == FileCopy(payload)
             signed == ClientCopy(Encoded(SignTransactions(d, Decoded(copy))))
  <2>1. GoodWire(batch, signed)
    BY <1>1, CopiesGood, DecodedGood, SignedGood, EncodedGood
  <2>2. UNCHANGED <<vars, job>> /\ held' = held \cup {signed}
    BY <1>3 DEF Sign
  <2> HIDE DEF signed
  <2>3. \A p \in held' : GoodWire(batch, p)
    BY <2>1, <2>2 DEF PInv
  <2> QED BY <1>1, <2>2, <2>3, SameBatch, SameJob
<1>4. CASE \E k \in DOMAIN payload :
             Broadcast(d, FileCopy(SubSeq(payload, k, Len(payload))))
  <2>1. PICK k \in DOMAIN payload : Broadcast(d, FileCopy(SubSeq(payload, k, Len(payload))))
    BY <1>4
  <2> DEFINE rest == FileCopy(SubSeq(payload, k, Len(payload)))
  <2>2. GoodPayload(batch, Decoded(rest))
    BY <1>1, RestGood, CopiesGood, DecodedGood
  <2>3. UNCHANGED <<vars, held>> /\ job' = Submission("Broadcast", d, Decoded(rest))
    BY <2>1 DEF Broadcast
  <2> HIDE DEF rest
  <2>4. JobInv'
    BY <2>2, <2>3, JobStarts
  <2> QED BY <1>1, <2>3, <2>4, SameBatch DEF PInv
<1> QED BY <1>2, <1>3, <1>4

\* One step of a submission.
LEMMA SubmissionPInv ==
    ASSUME PInv, NotFullySigned \/ OtherLane \/ Ask \/ Accepted \/ Refused \/ Unanswered
    PROVE  PInv'
<1>1. job # NoJob
  <2>1. job.asking => job # NoJob
    BY DEF NoJob
  <2> QED BY <2>1 DEF NotFullySigned, OtherLane, Ask, Accepted, Refused, Unanswered
<1>2. UNCHANGED vars /\ pc = "done" /\ GoodPayload(batch, job.payload)
      /\ job.next \in DOMAIN job.payload
  <2>1. UNCHANGED vars
    BY DEF NotFullySigned, OtherLane, Ask, Accepted, Refused, Unanswered
  <2> QED BY <1>1, <2>1 DEF PInv, JobInv
<1>3. \A payload \in held' : GoodWire(batch, payload)
  <2>1. CASE UNCHANGED held
    BY <2>1 DEF PInv
  <2>2. CASE held' = held \cup {ClientCopy(Encoded(job.payload))}
    <3>1. GoodWire(batch, ClientCopy(Encoded(job.payload)))
      BY <1>2, EncodedGood, CopiesGood
    <3> QED BY <2>2, <3>1 DEF PInv
  <2> QED BY <2>1, <2>2 DEF NotFullySigned, OtherLane, Ask, Accepted, Refused, Unanswered
<1>4. JobInv'
  <2>1. CASE job' = NoJob
    BY <2>1, JobEnds
  <2>2. CASE Ask
    <3>1. job' = [op |-> job.op, by |-> job.by, payload |-> job.payload, next |-> job.next,
                  asking |-> TRUE, took |-> job.took]
      BY <2>2 DEF Ask, PInv, JobInv
    <3>2. Current.fully /\ LaneAllowed(job.by, Current.tx.lane) /\ batch' = batch
      BY <1>2, <2>2 DEF Ask, MayGo, vars
    <3>3. Current' = Current
      BY <3>1 DEF Current
    <3> QED BY <1>2, <3>1, <3>2, <3>3 DEF JobInv
  <2>3. CASE Accepted /\ ~IsLast
    <3>1. job' = [op |-> job.op, by |-> job.by, payload |-> job.payload, next |-> job.next + 1,
                  asking |-> FALSE, took |-> TRUE]
      BY <2>3 DEF Accepted, NextTurn, PInv, JobInv
    <3>2. job.next + 1 \in DOMAIN job.payload /\ batch' = batch
      BY <1>2, <2>3, LenProperties DEF IsLast, GoodPayload, IsSeq, vars
    <3> QED BY <1>2, <3>1, <3>2 DEF JobInv
  <2> QED BY <2>1, <2>2, <2>3 DEF NotFullySigned, OtherLane, Accepted, Refused, Unanswered, Ends
<1> QED BY <1>2, <1>3, <1>4, SameBatch

LEMMA NextPInv == PInv /\ [PayloadsNext]_<<vars, payloadVars>> => PInv'
<1> SUFFICES ASSUME PInv, [PayloadsNext]_<<vars, payloadVars>> PROVE PInv'
  OBVIOUS
<1>1. CASE Next /\ UNCHANGED payloadVars
  BY <1>1, GeneratorPInv
<1>2. CASE NotYetSynced
  BY <1>2, NotYetSyncedPInv
<1>3. CASE CreateUnsignedTransactions \/ Send \/ SendWrongPassword \/ NotGenerated
  BY <1>3, StartPInv
<1>4. CASE UNCHANGED <<vars, held, job>>
  BY <1>4, SameBatch, SameJob DEF PInv
<1>5. CASE RefuseMalformed
  BY <1>4, <1>5 DEF RefuseMalformed, FailsEarly
<1>6. CASE \E d \in Daemons : \E payload \in held :
             \/ Sign(d, FileCopy(payload)) \/ SignOtherLane(d, payload)
             \/ SignWrongPassword(d, payload)
             \/ \E k \in DOMAIN payload :
                    Broadcast(d, FileCopy(SubSeq(payload, k, Len(payload))))
  BY <1>6, ClientPInv
<1>7. CASE NotFullySigned \/ OtherLane \/ Ask \/ Accepted \/ Refused \/ Unanswered
  BY <1>7, SubmissionPInv
<1>8. CASE UNCHANGED <<vars, payloadVars>>
  BY <1>4, <1>8 DEF payloadVars
<1> QED BY <1>1, <1>2, <1>3, <1>5, <1>6, <1>7, <1>8 DEF PayloadsNext

-----------------------------------------------------------------------------
(* What the node is asked to take. *)

\* Whichever daemons signed it, and in whatever order: every input is signed.
THEOREM PayloadsSigned == PayloadsSpec => []SubmittedIsSigned
<1>1. PInv => SubmittedIsSigned
  BY DEF PInv, JobInv, SubmittedIsSigned, GoodPayload, Good, Current, NoJob
<1> QED BY InitPInv, NextPInv, <1>1, PTL DEF PayloadsSpec

\* However often a transaction was encoded, decoded, saved and signed: it is the
\* one that was built.
THEOREM PayloadsAsBuilt == PayloadsSpec => []SubmittedAsBuilt
<1>1. PInv => SubmittedAsBuilt
  <2> SUFFICES ASSUME PInv, job.asking PROVE Current.tx = Unsigned(Current.tx.id).tx
    BY DEF SubmittedAsBuilt
  <2>1. Good(batch, Current)
    BY DEF PInv, JobInv, GoodPayload, Current, NoJob
  <2>2. \A k \in DOMAIN batch : Unsigned(k).tx = TxOf(batch, k)
    BY DEF Unsigned, TxOf
  <2> QED BY <2>1, <2>2 DEF Good
<1> QED BY InitPInv, NextPInv, <1>1, PTL DEF PayloadsSpec

-----------------------------------------------------------------------------
(* What a client learns. *)

\* The answers of a request that may have had transactions taken.
AfterSubmission ==
    {"OK", "NotFullySigned", "InvalidArgument", "Orphan", "DoubleSpend", "Rejected", "SubmitRpc"}

ReplyInv ==
    /\ reply.took => reply.error \in AfterSubmission
    /\ reply.paid => reply.error \in {"OK", "SubmitRpc"}

\* How a step may leave the last answer.
Answers ==
    \/ UNCHANGED reply
    \/ \E op, error : Reply(op, error)
    \/ reply' = InProgress
    \/ \E error \in AfterSubmission : \E took, paid :
           Ends(error, took, paid) /\ (paid # FALSE => error \in {"OK", "SubmitRpc"})

LEMMA ClassifyType ==
    /\ \A message : Classify(message) \in {"Orphan", "DoubleSpend", "Rejected", "SubmitRpc"}
    /\ Classify({}) = "SubmitRpc"
BY DEF Classify

LEMMA StepAnswers ==
    ASSUME [PayloadsNext]_<<vars, payloadVars>>
    PROVE  Answers
<1>1. CASE (Next /\ UNCHANGED payloadVars) \/ UNCHANGED <<vars, payloadVars>>
  BY <1>1 DEF payloadVars, Answers
<1>2. CASE NotYetSynced \/ NotGenerated \/ CreateUnsignedTransactions \/ SendWrongPassword
           \/ RefuseMalformed
  BY <1>2 DEF NotYetSynced, NotGenerated, CreateUnsignedTransactions, SendWrongPassword,
              RefuseMalformed, FailsEarly, Answers
<1>3. CASE Send \/ Ask
  BY <1>3 DEF Send, Ask, Answers
<1>4. CASE \E d \in Daemons : \E payload \in held :
             \/ Sign(d, FileCopy(payload)) \/ SignOtherLane(d, payload)
             \/ SignWrongPassword(d, payload)
             \/ \E k \in DOMAIN payload :
                    Broadcast(d, FileCopy(SubSeq(payload, k, Len(payload))))
  BY <1>4 DEF Sign, SignOtherLane, SignWrongPassword, Broadcast, FailsEarly, Answers
<1>5. CASE NotFullySigned \/ OtherLane
  BY <1>5 DEF NotFullySigned, OtherLane, Answers, AfterSubmission
<1>6. CASE Accepted
  <2>1. Ends("OK", TRUE, TRUE) \/ UNCHANGED reply
    BY <1>6 DEF Accepted
  <2> QED BY <2>1 DEF Answers, AfterSubmission
<1>7. CASE Refused
  <2>1. PICK message : Ends(Classify(message), job.took, FALSE)
    BY <1>7 DEF Refused
  <2> QED BY <2>1, ClassifyType DEF Answers, AfterSubmission
<1>8. CASE Unanswered
  <2>1. Ends("SubmitRpc", TRUE, IsLast)
    BY <1>8, ClassifyType DEF Unanswered
  <2> QED BY <2>1 DEF Answers, AfterSubmission
<1> QED BY <1>1, <1>2, <1>3, <1>4, <1>5, <1>6, <1>7, <1>8 DEF PayloadsNext

LEMMA NextReplyInv == ReplyInv /\ [PayloadsNext]_<<vars, payloadVars>> => ReplyInv'
<1> SUFFICES ASSUME ReplyInv, Answers PROVE ReplyInv'
  BY StepAnswers
<1>1. CASE UNCHANGED reply
  BY <1>1 DEF ReplyInv
<1>2. CASE \E op, error : Reply(op, error)
  BY <1>2 DEF Reply, NoReply, ReplyInv
<1>3. CASE reply' = InProgress
  BY <1>3 DEF InProgress, NoReply, ReplyInv
<1>4. CASE \E error \in AfterSubmission : \E took, paid :
             Ends(error, took, paid) /\ (paid # FALSE => error \in {"OK", "SubmitRpc"})
  <2>1. PICK error \in AfterSubmission : \E took, paid :
            Ends(error, took, paid) /\ (paid # FALSE => error \in {"OK", "SubmitRpc"})
    BY <1>4
  <2>2. PICK took, paid :
            Ends(error, took, paid) /\ (paid # FALSE => error \in {"OK", "SubmitRpc"})
    BY <2>1
  <2>3. reply'.error = error /\ reply'.paid = paid
    BY <2>2 DEF Ends
  <2>4. CASE paid = FALSE
    BY <2>3, <2>4 DEF ReplyInv
  <2>5. CASE paid # FALSE
    BY <2>2, <2>3, <2>5 DEF ReplyInv
  <2> QED BY <2>4, <2>5
<1> QED BY <1>1, <1>2, <1>3, <1>4 DEF Answers

\* Whatever the node says or fails to say, and whoever asks: an answer that
\* makes a client try again, or take the payment for rejected, is true.
THEOREM PayloadsFailuresAreFinal == PayloadsSpec => []FailuresAreFinal
<1>1. PayloadsInit => ReplyInv
  BY DEF PayloadsInit, NoReply, ReplyInv
<1>2. ReplyInv => FailuresAreFinal
  <2> SUFFICES ASSUME ReplyInv
               PROVE  /\ reply.took => Status(reply.error) \notin {"FailedPrecondition",
                                            "Unavailable", "Unauthenticated"}
                      /\ reply.paid => Told(reply) \notin {"Rejected", "Orphan", "Aborted",
                                            "InvalidArgument"}
    BY DEF FailuresAreFinal
  <2>1. \A error \in AfterSubmission :
            Status(error) \notin {"FailedPrecondition", "Unavailable", "Unauthenticated"}
    BY DEF AfterSubmission, Status
  <2>2. Status("OK") = "Ok" /\ Status("SubmitRpc") = "Internal"
    BY DEF Status
  <2>3. ClassifyStatus("Internal", {}) = "SubmitRpc" /\ UserMessage("SubmitRpc") = {}
    BY DEF ClassifyStatus, UserMessage
  <2>4. reply.error \in {"OK", "SubmitRpc"} =>
            Told(reply) \in {"Ok", "Internal", "SubmitRpc"}
    BY <2>2, <2>3 DEF Told
  <2> QED BY <2>1, <2>4 DEF ReplyInv
<1> QED BY <1>1, NextReplyInv, <1>2, PTL DEF PayloadsSpec

-----------------------------------------------------------------------------
(* The order of a Send. *)

\* A batch in the order of its making, in one piece: what stands before the next
\* transaction has been taken.
SendInv ==
    job.op = "Send" =>
        /\ \A k \in DOMAIN job.payload : job.payload[k].tx.id = k
        /\ \A m : Mnemonics = {m} => \A k \in DOMAIN job.payload : job.payload[k].fully
        /\ 1..(job.next - 1) \subseteq taken

OrderInv == PInv /\ CInv /\ SendInv

LEMMA PayloadsCInv ==
    ASSUME CInv, [PayloadsNext]_<<vars, payloadVars>>
    PROVE  CInv'
<1>1. CASE [Next]_vars
  BY <1>1, NextCInv
<1>2. CASE NotYetSynced
  <2>1. /\ UNCHANGED <<utxos, request, daa, rate, maxFee, selected, candidate,
                       pieces, batch, topUps, answer>>
        /\ pc = "validate" /\ pc' = "done"
    BY <1>2 DEF NotYetSynced
  <2>2. batch' = << >> /\ answer' = "pending"
    BY <2>1 DEF CInv
  <2>3. TInv'
    BY <2>1 DEF CInv, TInv, IInv, IsTx, IsSeq, StandardMass, Scalars, Worth, GoodTx
  <2> QED BY <2>1, <2>2, <2>3, EmptyCInv
<1>3. Next \/ NotYetSynced \/ UNCHANGED vars
  BY DEF PayloadsNext, payloadVars, NotGenerated, CreateUnsignedTransactions, Send,
         SendWrongPassword, RefuseMalformed, Sign, SignOtherLane, SignWrongPassword,
         Broadcast, NotFullySigned, OtherLane, Ask, Accepted, Refused, Unanswered
<1> QED BY <1>1, <1>2, <1>3

\* A transaction of a batch spends from earlier ones only.
LEMMA ParentsEarlier ==
    ASSUME CInv, pc = "done", NEW k \in DOMAIN batch
    PROVE  Parents(TxOf(batch, k)) \subseteq 1..(k - 1)
<1> DEFINE tx == TxOf(batch, k)
<1>1. /\ DOMAIN tx.ins = DOMAIN batch[k].ins
      /\ \A i \in DOMAIN tx.ins : tx.ins[i].coin = batch[k].ins[i].id
  BY DEF TxOf
<1>2. ASSUME NEW i \in DOMAIN tx.ins, tx.ins[i].coin[1] = "split"
      PROVE  tx.ins[i].coin[2] \in 1..(k - 1)
  <2>1. Made = batch
    BY DEF Made
  <2>2. \/ Allowed(batch[k].ins[i])
        \/ \E j \in 1..(k - 1) : batch[k].ins[i].id = <<"split", j>>
    BY <1>1, <2>1 DEF CInv, Origins
  <2>3. ~Allowed(batch[k].ins[i])
    BY <1>1, <1>2, UtxoIds DEF CInv, Allowed
  <2>4. PICK j \in 1..(k - 1) : batch[k].ins[i].id = <<"split", j>>
    BY <2>2, <2>3
  <2> QED BY <1>1, <2>4
<1> HIDE DEF tx
<1>3. Parents(tx) \subseteq 1..(k - 1)
  BY <1>2 DEF Parents, Range
<1> QED BY <1>3 DEF tx

\* The wallet's one key signs every input of every transaction.
LEMMA OneKeySigns ==
    ASSUME NEW m, Mnemonics = {m}, NEW k \in DOMAIN batch
    PROVE  SignTransaction(Home, Unsigned(k)).fully
<1> DEFINE s == Unsigned(k)
           mine == {i \in DOMAIN s.entries : s.entries[i] \in Keys(Mnemonics, s.paths)}
<1>1. /\ DOMAIN s.entries = DOMAIN batch[k].ins
      /\ \A i \in DOMAIN s.entries : s.entries[i] = ScriptOf(batch[k].ins[i].addr)
      /\ \A i \in DOMAIN s.entries : PathOf(batch[k].ins[i].addr) \in s.paths
  BY DEF Unsigned, Range
<1>2. ~IsMultisig(Mnemonics)
  <2>1. Cardinality({m}) = 1
    BY FS_Singleton
  <2> QED BY <2>1 DEF IsMultisig
<1> HIDE DEF s
<1>3. ASSUME NEW i \in DOMAIN s.entries
      PROVE  s.entries[i] \in Keys(Mnemonics, s.paths)
  <2>1. s.entries[i] = [hash |-> IsMultisig(Mnemonics), of |-> {m},
                        master |-> IsMultisig(Mnemonics), path |-> PathOf(batch[k].ins[i].addr)]
    BY <1>1 DEF ScriptOf
  <2>2. [hash |-> FALSE, of |-> {m}, master |-> IsMultisig(Mnemonics),
         path |-> PathOf(batch[k].ins[i].addr)] \in Keys(Mnemonics, s.paths)
    <3>1. m \in Mnemonics /\ PathOf(batch[k].ins[i].addr) \in s.paths
      BY <1>1
    <3> QED BY <3>1 DEF Keys
  <2>3. IsMultisig(Mnemonics) = FALSE
    BY <1>2 DEF IsMultisig
  <2> QED BY <2>1, <2>2, <2>3
<1>4. mine = DOMAIN s.entries
  BY <1>3
<1>5. SignTransaction(Home, s).fully = (mine = DOMAIN s.entries)
  <2>1. Home.mnemonics = Mnemonics
    BY DEF Home
  <2>2. s = [tx |-> s.tx, signatures |-> s.signatures, entries |-> s.entries,
             paths |-> s.paths, fully |-> s.fully]
    BY DEF s, Unsigned
  <2> QED BY <2>1, <2>2 DEF SignTransaction
<1> QED BY <1>4, <1>5 DEF s

\* How a step may change the submission.
LEMMA JobMoves ==
    ASSUME [PayloadsNext]_<<vars, payloadVars>>
    PROVE  \/ UNCHANGED <<job, taken>>
           \/ job' = NoJob
           \/ Send
           \/ \E d, payload : job' = Submission("Broadcast", d, payload)
           \/ Ask
           \/ Accepted /\ ~IsLast
BY DEF PayloadsNext, payloadVars, NotYetSynced, NotGenerated, CreateUnsignedTransactions,
       SendWrongPassword, RefuseMalformed, FailsEarly, Sign, SignOtherLane, SignWrongPassword,
       Broadcast, NotFullySigned, OtherLane, Accepted, Refused, Unanswered, Ends

LEMMA SendStarts ==
    ASSUME PInv, Send
    PROVE  SendInv'
<1> DEFINE signed == SignTransactions(Home, UnsignedBatch)
<1>1. job' = Submission("Send", Home, signed) /\ batch' = batch
  BY DEF Send, vars
<1>2. /\ DOMAIN signed = DOMAIN batch
      /\ \A k \in DOMAIN batch : signed[k] = SignTransaction(Home, Unsigned(k))
  BY DEF SignTransactions, UnsignedBatch
<1> HIDE DEF signed
<1>3. ASSUME NEW k \in DOMAIN batch PROVE signed[k].tx.id = k
  <2>1. SignTransaction(Home, Unsigned(k)).tx = Unsigned(k).tx
    BY DEF SignTransaction, Unsigned
  <2> QED BY <1>2, <2>1 DEF Unsigned
<1>4. job'.payload = signed /\ job'.next = 1
  BY <1>1 DEF Submission
<1>5. 1..(job'.next - 1) = {}
  BY <1>4
<1>6. \A m : Mnemonics = {m} => \A k \in DOMAIN signed : signed[k].fully
  BY <1>2, OneKeySigns
<1> QED BY <1>2, <1>3, <1>4, <1>5, <1>6 DEF SendInv

LEMMA NextOrderInv == OrderInv /\ [PayloadsNext]_<<vars, payloadVars>> => OrderInv'
<1> SUFFICES ASSUME OrderInv, [PayloadsNext]_<<vars, payloadVars>> PROVE SendInv'
  BY NextPInv, PayloadsCInv DEF OrderInv
<1>1. CASE UNCHANGED <<job, taken>>
  BY <1>1 DEF OrderInv, SendInv
<1>2. CASE job' = NoJob \/ \E d, payload : job' = Submission("Broadcast", d, payload)
  BY <1>2 DEF SendInv, NoJob, Submission
<1>3. CASE Send
  BY <1>3, SendStarts DEF OrderInv
<1>4. CASE Ask
  <2>1. /\ job' = [op |-> job.op, by |-> job.by, payload |-> job.payload, next |-> job.next,
                   asking |-> TRUE, took |-> job.took]
        /\ taken' = taken
    BY <1>4 DEF Ask, OrderInv, PInv, JobInv
  <2> QED BY <2>1 DEF OrderInv, SendInv
<1>5. CASE Accepted /\ ~IsLast
  <2>1. /\ job' = [op |-> job.op, by |-> job.by, payload |-> job.payload, next |-> job.next + 1,
                   asking |-> FALSE, took |-> TRUE]
        /\ taken' = taken \cup {Current.tx.id}
        /\ job # NoJob
    <3>1. job.asking /\ taken' = taken \cup {Current.tx.id} /\ job' = [NextTurn EXCEPT !.took = TRUE]
      BY <1>5 DEF Accepted
    <3>2. job # NoJob
      BY <3>1 DEF NoJob
    <3>3. job = [op |-> job.op, by |-> job.by, payload |-> job.payload, next |-> job.next,
                 asking |-> job.asking, took |-> job.took]
      BY DEF OrderInv, PInv, JobInv
    <3> QED BY <3>1, <3>2, <3>3 DEF NextTurn
  <2>2. /\ job.next \in DOMAIN job.payload /\ job.next \in Nat
        /\ Current = job.payload[job.next]
    BY <2>1, LenProperties DEF OrderInv, PInv, JobInv, GoodPayload, IsSeq, Current
  <2>3. ASSUME job.op = "Send" PROVE 1..job.next \subseteq taken'
    <3>1. Current.tx.id = job.next /\ 1..(job.next - 1) \subseteq taken
      BY <2>2, <2>3 DEF OrderInv, SendInv
    <3>2. \A i \in 1..job.next : i \in 1..(job.next - 1) \/ i = job.next
      BY <2>2
    <3> QED BY <2>1, <3>1, <3>2
  <2>4. job'.next - 1 = job.next /\ job'.op = job.op /\ job'.payload = job.payload
    BY <2>1, <2>2
  <2> QED BY <2>3, <2>4 DEF OrderInv, SendInv
<1> QED BY <1>1, <1>2, <1>3, <1>4, <1>5, JobMoves

\* Whatever the wallet, the request and the node's answers: a Send hands over no
\* transaction before those it spends from are taken, and a wallet of one key
\* has signed them all.
THEOREM PayloadsSendInOrder == PayloadsSpec => []SendInOrder
<1>1. PayloadsInit => OrderInv
  BY InitPInv, InitCInv DEF PayloadsInit, OrderInv, SendInv, NoJob
<1>2. OrderInv => SendInOrder
  <2> SUFFICES ASSUME OrderInv, job.op = "Send"
               PROVE  /\ \A m \in Mnemonics : Mnemonics = {m} =>
                             \A s \in Range(job.payload) : s.fully
                      /\ job.asking => Parents(Current.tx) \subseteq taken
    BY DEF SendInOrder
  <2>1. \A m \in Mnemonics : Mnemonics = {m} => \A s \in Range(job.payload) : s.fully
    BY DEF OrderInv, SendInv, Range
  <2>2. ASSUME job.asking PROVE Parents(Current.tx) \subseteq taken
    <3>1. /\ job # NoJob /\ pc = "done" /\ Good(batch, Current)
          /\ job.next \in DOMAIN job.payload /\ Current = job.payload[job.next]
      BY <2>2 DEF OrderInv, PInv, JobInv, GoodPayload, Current, NoJob
    <3>2. Current.tx.id = job.next /\ 1..(job.next - 1) \subseteq taken
      BY <3>1 DEF OrderInv, SendInv
    <3>3. job.next \in DOMAIN batch /\ Current.tx = TxOf(batch, job.next)
      BY <3>1, <3>2 DEF Good
    <3>4. Parents(Current.tx) \subseteq 1..(job.next - 1)
      BY <3>1, <3>3, ParentsEarlier DEF OrderInv
    <3> QED BY <3>2, <3>4
  <2> QED BY <2>1, <2>2
<1> QED BY <1>1, NextOrderInv, <1>2, PTL DEF PayloadsSpec
=============================================================================
