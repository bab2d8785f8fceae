------------------------ MODULE AddressDaemon_proofs ------------------------
(***************************************************************************)
(* The daemon hands out every address at most once, and what it handed out *)
(* is on disk: for any number of requests and indexes, any size of the     *)
(* windows, failing saves and crashes at any step.  And a wallet that      *)
(* calls itself synced has found what the scan went past.                  *)
(***************************************************************************)
EXTENDS AddressDaemon, TLAPS

\* The steps of a call that holds the address manager's mutex.
Holding == {"drawn", "saving", "saved"}

\* The mutex excludes: whoever is inside a call holds it, and it is free of
\* owners that are not; a process that is down has nothing under way.
Exclusion ==
    /\ \A c \in Clients : pc[c] \in Holding <=> lock = c
    /\ syncStep \in {"updated", "saving"} <=> lock = "sync"
    /\ pass = "refresh" => syncStep = "next"
    /\ ~running => /\ \A c \in Clients : pc[c] = "idle"
                   /\ pass = "recent" /\ syncStep = "query"

\* Handed out at most once, and never above the counters of a running process.
Accounted ==
    \A a \in WalletAddress :
        /\ handed[a] \in {0, 1}
        /\ running /\ handed[a] > 0 => a.index <= lastUsed[a.keychain]

\* An index drawn and not yet handed out is below the counter and new, and it
\* is on disk once the call has saved.
DrawnIsNew ==
    \A c \in Clients :
        pc[c] \in Holding /\ drawn[c] # 0 =>
            /\ handed[Own(drawn[c], keychain[c])] = 0
            /\ drawn[c] <= lastUsed[keychain[c]]
            /\ pc[c] = "saved" /\ intact => drawn[c] <= persisted[keychain[c]]

\* The inductive invariant.
Inv == TypeOK /\ Exclusion /\ Accounted /\ DrawnIsNew /\ HandedIsDurable

\* The positions of the scan stay within their bound.
LEMMA CappedType ==
    ASSUME NEW n \in Nat PROVE ScanLimit \in Nat /\ Capped(n) \in 0..ScanLimit
BY MaxIndexAssumption, AddressDaemonAssumption DEF Capped, ScanLimit

\* What the daemon hands out is an address of the wallet.
LEMMA OwnType ==
    ASSUME NEW n \in 0..MaxIndex, NEW k \in Keychains
    PROVE  /\ Own(n, k) \in WalletAddress
           /\ Own(n, k).index = n /\ Own(n, k).keychain = k
BY CosignerAssumption DEF Own, WalletAddress

\* A fetch_add leaves counters in range, one of them raised to the index drawn.
LEMMA FetchAddRaises ==
    ASSUME TypeOK, NEW k \in Keychains, FetchAdd(k)
    PROVE  /\ lastUsed' \in Indexes
           /\ NextIndex(k) \in 0..MaxIndex
           /\ NextIndex(k) > lastUsed[k]
           /\ lastUsed'[k] = NextIndex(k)
           /\ \A j \in Keychains : lastUsed[j] <= lastUsed'[j]
BY MaxIndexAssumption DEF FetchAdd, NextIndex, TypeOK, KeysTypeOK, Indexes

\* The answer of a scan only raises the counters.
LEMMA UpdateRaises ==
    ASSUME TypeOK, UpdateAddresses(answer)
    PROVE  /\ lastUsed' \in Indexes
           /\ addresses' \subseteq WalletAddress
           /\ \A j \in Keychains : lastUsed[j] <= lastUsed'[j]
BY DEF UpdateAddresses, TypeOK, KeysTypeOK, Indexes

\* The first process starts with a whole file and nothing handed out.
LEMMA InitInv == Init => Inv
<1> SUFFICES ASSUME Init PROVE Inv OBVIOUS
<1>1. TypeOK
  <2>1. ScanLimit \in Nat BY CappedType
  <2>2. 0 \in 0..ScanLimit /\ 0 \in 0..MaxIndex /\ 0 \in 0..MaxDrains /\ 0 \in 0..MaxCrashes
    BY <2>1, MaxIndexAssumption, AddressDaemonAssumption
  <2>3. running \in BOOLEAN /\ intact \in BOOLEAN /\ firstSyncDone \in BOOLEAN
    BY Zenon DEF Init
  <2>4. KeysTypeOK BY <2>2, <2>3 DEF Init, KeysTypeOK, Indexes
  <2>5. keychain \in [Clients -> Keychains] BY DEF Init, Keychains
  <2>6. drawn \in [Clients -> 0..MaxIndex] /\ handed \in [WalletAddress -> Nat]
    BY <2>2 DEF Init
  <2>7. funded \subseteq WalletAddress /\ owed \subseteq WalletAddress
    BY AddressDaemonAssumption DEF Init
  <2> QED BY <2>2, <2>3, <2>4, <2>5, <2>6, <2>7 DEF Init, TypeOK
<1>2. Exclusion BY AddressDaemonAssumption DEF Init, Exclusion, Holding
<1>3. Accounted /\ HandedIsDurable BY DEF Init, Accounted, HandedIsDurable
<1>4. DrawnIsNew BY DEF Init, DrawnIsNew, Holding
<1> QED BY <1>1, <1>2, <1>3, <1>4 DEF Inv

\* No step takes a variable out of its type.
LEMMA TypeStep == ASSUME TypeOK, Next PROVE TypeOK'
<1> USE DEF TypeOK
<1>1. ASSUME NEW c \in Clients, NEW k \in Keychains, CheckSynced(c, k) PROVE TypeOK'
  BY <1>1 DEF CheckSynced, keysVars, scanVars, chainVars, KeysTypeOK
<1>2. ASSUME NEW c \in Clients, Draw(c) PROVE TypeOK'
  <2>1. keychain[c] \in Keychains OBVIOUS
  <2>2. KeysTypeOK' /\ NextIndex(keychain[c]) \in 0..MaxIndex
    BY <1>2, <2>1, FetchAddRaises DEF Draw, fileVars, KeysTypeOK
  <2> QED BY <1>2, <2>2 DEF Draw, scanVars, chainVars
<1>3. ASSUME NEW c \in Clients, DrawExisting(c) PROVE TypeOK'
  <2>1. 0 \in 0..MaxIndex BY MaxIndexAssumption
  <2> QED BY <1>3, <2>1 DEF DrawExisting, keysVars, scanVars, chainVars, KeysTypeOK
<1>4. ASSUME NEW c \in Clients, SaveTruncates(c) PROVE TypeOK'
  <2>1. KeysTypeOK'
    <3>1. intact' = FALSE /\ lastUsed' = lastUsed /\ persisted' = persisted
      BY <1>4 DEF SaveTruncates, Truncate
    <3>2. intact' \in BOOLEAN BY <3>1, Zenon
    <3> QED BY <3>1, <3>2 DEF KeysTypeOK
  <2> QED BY <1>4, <2>1 DEF SaveTruncates, scanVars, chainVars
<1>5. ASSUME NEW c \in Clients, SaveWrites(c) PROVE TypeOK'
  <2>1. KeysTypeOK'
    <3>1. intact' = TRUE /\ lastUsed' = lastUsed /\ persisted' = lastUsed
      BY <1>5 DEF SaveWrites, WriteAll
    <3>2. intact' \in BOOLEAN BY <3>1, Zenon
    <3> QED BY <3>1, <3>2 DEF KeysTypeOK
  <2> QED BY <1>5, <2>1 DEF SaveWrites, scanVars, chainVars
<1>6. ASSUME NEW c \in Clients, RequestFails(c) PROVE TypeOK'
  <2>1. 0 \in 0..MaxIndex BY MaxIndexAssumption
  <2>2. "external" \in Keychains BY DEF Keychains
  <2> QED BY <1>6, <2>1, <2>2 DEF RequestFails, keysVars, scanVars, chainVars, KeysTypeOK
<1>7. ASSUME NEW c \in Clients, Reply(c) PROVE TypeOK'
  <2>1. 0 \in 0..MaxIndex BY MaxIndexAssumption
  <2>2. "external" \in Keychains BY DEF Keychains
  <2>3. Own(drawn[c], keychain[c]) \in WalletAddress BY OwnType
  <2>4. handed' \in [WalletAddress -> Nat] BY <1>7, <2>3 DEF Reply
  <2> QED BY <1>7, <2>1, <2>2, <2>3, <2>4 DEF Reply, keysVars, scanVars, chainVars, KeysTypeOK
<1>8. CASE RequestNext
  BY <1>1, <1>2, <1>3, <1>4, <1>5, <1>6, <1>7, <1>8 DEF RequestNext
<1>9. CASE ScanQuery
  BY <1>9 DEF ScanQuery, keysVars, requestVars, chainVars, KeysTypeOK
<1>10. CASE ScanUpdate
  <2>1. KeysTypeOK' /\ addresses' \subseteq WalletAddress
    BY <1>10, UpdateRaises DEF ScanUpdate, fileVars, KeysTypeOK
  <2> QED BY <1>10, <2>1 DEF ScanUpdate, requestVars, chainVars
<1>11. CASE ScanTruncates
  <2>1. KeysTypeOK'
    <3>1. intact' = FALSE /\ lastUsed' = lastUsed /\ persisted' = persisted
      BY <1>11 DEF ScanTruncates, Truncate
    <3>2. intact' \in BOOLEAN BY <3>1, Zenon
    <3> QED BY <3>1, <3>2 DEF KeysTypeOK
  <2> QED BY <1>11, <2>1 DEF ScanTruncates, requestVars, chainVars
<1>12. CASE ScanWrites
  <2>1. KeysTypeOK'
    <3>1. intact' = TRUE /\ lastUsed' = lastUsed /\ persisted' = lastUsed
      BY <1>12 DEF ScanWrites, WriteAll
    <3>2. intact' \in BOOLEAN BY <3>1, Zenon
    <3> QED BY <3>1, <3>2 DEF KeysTypeOK
  <2> QED BY <1>12, <2>1 DEF ScanWrites, requestVars, chainVars
<1>13. CASE FarDone
  <2>1. nextSyncStart + FarWindow \in Nat BY CappedType, AddressDaemonAssumption
  <2>2. nextSyncStart' \in 0..ScanLimit BY <1>13, <2>1, CappedType DEF FarDone
  <2>3. 0 \in 0..ScanLimit BY CappedType
  <2> QED BY <1>13, <2>2, <2>3 DEF FarDone, keysVars, requestVars, chainVars, KeysTypeOK
<1>14. CASE RecentNext
  <2>1. scanIndex + RecentWindow \in Nat BY CappedType, AddressDaemonAssumption
  <2>2. Capped(scanIndex + RecentWindow) \in 0..ScanLimit BY <2>1, CappedType
  <2>3. scanIndex' \in 0..ScanLimit /\ nextSyncStart' \in 0..ScanLimit
    BY <1>14, <2>2 DEF RecentNext
  <2> QED BY <1>14, <2>3 DEF RecentNext, keysVars, requestVars, chainVars, KeysTypeOK
<1>15. CASE RefreshDone
  <2>1. 0 \in 0..ScanLimit BY CappedType
  <2>2. firstSyncDone' = TRUE BY <1>15 DEF RefreshDone
  <2>3. firstSyncDone' \in BOOLEAN BY <2>2, Zenon
  <2> QED BY <1>15, <2>1, <2>3 DEF RefreshDone, keysVars, requestVars, chainVars, KeysTypeOK
<1>16. CASE SyncNext
  BY <1>9, <1>10, <1>11, <1>12, <1>13, <1>14, <1>15, <1>16 DEF SyncNext
<1>17. ASSUME NEW a \in WalletAddress, Fund(a) \/ Drain(a) PROVE TypeOK'
  <2>1. CASE Fund(a)
    BY <2>1 DEF Fund, keysVars, requestVars, scanVars, KeysTypeOK
  <2>2. CASE Drain(a)
    BY <2>2, AddressDaemonAssumption DEF Drain, keysVars, requestVars, scanVars, KeysTypeOK
  <2> QED BY <1>17, <2>1, <2>2
<1>18. CASE Crash
  <2>1. 0 \in 0..ScanLimit /\ 0 \in 0..MaxIndex BY CappedType, MaxIndexAssumption
  <2>2. crashes' \in 0..MaxCrashes BY <1>18, AddressDaemonAssumption DEF Crash
  <2>3. running' = FALSE /\ firstSyncDone' = FALSE BY <1>18 DEF Crash
  <2>4. running' \in BOOLEAN /\ firstSyncDone' \in BOOLEAN BY <2>3, Zenon
  <2>5. keychain' \in [Clients -> Keychains] BY <1>18 DEF Crash, Keychains
  <2> QED BY <1>18, <2>1, <2>2, <2>4, <2>5 DEF Crash, keysVars, chainVars, KeysTypeOK
<1>19. CASE Start
  <2>1. running' = TRUE BY <1>19 DEF Start
  <2>2. running' \in BOOLEAN BY <2>1, Zenon
  <2> QED BY <1>19, <2>2 DEF Start, Load, fileVars, requestVars, scanVars, KeysTypeOK
<1>20. CASE StartFails
  BY <1>20 DEF StartFails, vars, keysVars, requestVars, scanVars, chainVars, KeysTypeOK
<1> QED BY <1>8, <1>16, <1>17, <1>18, <1>19, <1>20 DEF Next

\* The mutex keeps the calls apart: it is taken by whoever enters a call, only
\* when it is free, and given back on every way out.
LEMMA ExclusionStep == ASSUME TypeOK, Exclusion, Next PROVE Exclusion'
<1> USE AddressDaemonAssumption DEF TypeOK, Exclusion, Holding
<1>1. ASSUME NEW c \in Clients, NEW k \in Keychains, CheckSynced(c, k) PROVE Exclusion'
  <2>1. /\ pc[c] = "idle" /\ running /\ running' = running /\ lock' = lock
        /\ syncStep' = syncStep /\ pass' = pass
    BY <1>1 DEF CheckSynced, scanVars
  <2>2. \A d \in Clients : pc'[d] = IF d = c THEN "waiting" ELSE pc[d]
    BY <1>1 DEF CheckSynced
  <2> QED BY <2>1, <2>2
<1>2. ASSUME NEW c \in Clients, Draw(c) \/ DrawExisting(c) PROVE Exclusion'
  <2>1. /\ pc[c] = "waiting" /\ lock = "nobody" /\ lock' = c
        /\ running' = running /\ syncStep' = syncStep /\ pass' = pass
    BY <1>2 DEF Draw, DrawExisting, scanVars
  <2>2. \A d \in Clients : pc'[d] = IF d = c THEN "drawn" ELSE pc[d]
    BY <1>2 DEF Draw, DrawExisting
  <2>3. syncStep' \in {"updated", "saving"} <=> lock' = "sync" BY <2>1
  <2> QED BY <2>1, <2>2, <2>3
<1>3. ASSUME NEW c \in Clients, SaveTruncates(c) \/ SaveWrites(c) PROVE Exclusion'
  <2>1. /\ pc[c] \in Holding /\ lock' = lock
        /\ running' = running /\ syncStep' = syncStep /\ pass' = pass
    BY <1>3 DEF SaveTruncates, SaveWrites, scanVars
  <2>2. pc'[c] \in Holding /\ \A d \in Clients : d # c => pc'[d] = pc[d]
    BY <1>3 DEF SaveTruncates, SaveWrites
  <2> QED BY <2>1, <2>2
<1>4. ASSUME NEW c \in Clients, RequestFails(c) \/ Reply(c) PROVE Exclusion'
  <2>1. /\ pc[c] \in Holding /\ lock' = "nobody"
        /\ running' = running /\ syncStep' = syncStep /\ pass' = pass
    BY <1>4 DEF RequestFails, Reply, scanVars
  <2>2. \A d \in Clients : pc'[d] = IF d = c THEN "idle" ELSE pc[d]
    BY <1>4 DEF RequestFails, Reply
  <2>3. lock = c BY <2>1
  <2>4. syncStep' \in {"updated", "saving"} <=> lock' = "sync" BY <2>1, <2>3
  <2> QED BY <2>1, <2>2, <2>3, <2>4
<1>5. CASE RequestNext BY <1>1, <1>2, <1>3, <1>4, <1>5 DEF RequestNext
<1>6. CASE ScanQuery BY <1>6 DEF ScanQuery, requestVars
<1>7. CASE ScanUpdate BY <1>7 DEF ScanUpdate, requestVars
<1>8. CASE ScanTruncates BY <1>8 DEF ScanTruncates, requestVars
<1>9. CASE ScanWrites BY <1>9 DEF ScanWrites, requestVars
<1>10. CASE FarDone BY <1>10 DEF FarDone, requestVars
<1>11. CASE RecentNext BY <1>11 DEF RecentNext, requestVars
<1>12. CASE RefreshDone
  <2>1. /\ lock' = lock /\ pc' = pc /\ running' = running /\ running
        /\ syncStep' = "query" /\ pass' = "far" /\ syncStep = "next"
    BY <1>12 DEF RefreshDone, requestVars
  <2>2. lock # "sync" BY <2>1
  <2>3. syncStep' \in {"updated", "saving"} <=> lock' = "sync" BY <2>1, <2>2
  <2> QED BY <2>1, <2>3
<1>13. ASSUME NEW a \in WalletAddress, Fund(a) \/ Drain(a) PROVE Exclusion'
  BY <1>13 DEF Fund, Drain, requestVars, scanVars
<1>14. CASE Crash BY <1>14 DEF Crash
<1>15. CASE Start BY <1>15 DEF Start, requestVars, scanVars
<1>16. CASE StartFails BY <1>16 DEF StartFails, vars, requestVars, scanVars
<1> QED BY <1>5, <1>6, <1>7, <1>8, <1>9, <1>10, <1>11, <1>12, <1>13, <1>14, <1>15, <1>16
    DEF Next, SyncNext

\* Whoever is inside a call belongs to a running process.
LEMMA InsideRuns ==
    ASSUME Exclusion, NEW c \in Clients, pc[c] # "idle" PROVE running
BY DEF Exclusion

\* A step that leaves the file, the requests and the history alone and lowers
\* no counter keeps what is said of them.
LEMMA Undisturbed ==
    ASSUME Inv, lastUsed' \in Indexes,
           \A k \in Keychains : lastUsed[k] <= lastUsed'[k],
           running' = running, handed' = handed,
           UNCHANGED <<fileVars, requestVars>>
    PROVE  Accounted' /\ DrawnIsNew' /\ HandedIsDurable'
<1> USE DEF Inv, TypeOK, KeysTypeOK, Indexes, fileVars, requestVars
<1>1. Accounted'
  <2> SUFFICES ASSUME NEW a \in WalletAddress, running, handed[a] > 0
               PROVE  a.index <= lastUsed'[a.keychain]
    BY DEF Accounted
  <2>1. a.index <= lastUsed[a.keychain] BY DEF Accounted
  <2>2. a.keychain \in Keychains /\ a.index \in 0..MaxIndex BY DEF WalletAddress
  <2> QED BY <2>1, <2>2, MaxIndexAssumption
<1>2. DrawnIsNew'
  <2> SUFFICES ASSUME NEW c \in Clients, pc[c] \in Holding, drawn[c] # 0
               PROVE  /\ handed[Own(drawn[c], keychain[c])] = 0
                      /\ drawn[c] <= lastUsed'[keychain[c]]
                      /\ pc[c] = "saved" /\ intact => drawn[c] <= persisted[keychain[c]]
    BY DEF DrawnIsNew, Own
  <2>1. keychain[c] \in Keychains /\ drawn[c] \in 0..MaxIndex OBVIOUS
  <2>2. drawn[c] <= lastUsed[keychain[c]] BY DEF DrawnIsNew
  <2>3. drawn[c] <= lastUsed'[keychain[c]] BY <2>1, <2>2, MaxIndexAssumption
  <2> QED BY <2>3 DEF DrawnIsNew
<1>3. HandedIsDurable' BY DEF HandedIsDurable
<1> QED BY <1>1, <1>2, <1>3

\* A request that draws an index takes one nobody was handed.
LEMMA DrawStep ==
    ASSUME Inv, Exclusion', NEW c \in Clients, Draw(c)
    PROVE  Accounted' /\ DrawnIsNew' /\ HandedIsDurable'
<1> USE DEF Inv, TypeOK, KeysTypeOK
<1> DEFINE k == keychain[c]
<1>1. k \in Keychains /\ FetchAdd(k) BY DEF Draw
<1>2. /\ lastUsed' \in Indexes /\ NextIndex(k) \in 0..MaxIndex
      /\ NextIndex(k) > lastUsed[k] /\ lastUsed'[k] = NextIndex(k)
      /\ \A j \in Keychains : lastUsed[j] <= lastUsed'[j]
  BY <1>1, FetchAddRaises
<1>3. /\ running' = running /\ handed' = handed /\ keychain' = keychain
      /\ persisted' = persisted /\ intact' = intact /\ pc'[c] = "drawn"
      /\ drawn'[c] = NextIndex(k) /\ lock' = c /\ pc[c] = "waiting"
  BY DEF Draw, fileVars
<1>4. running BY <1>3, InsideRuns
<1>5. Accounted'
  <2> SUFFICES ASSUME NEW a \in WalletAddress, handed[a] > 0
               PROVE  a.index <= lastUsed'[a.keychain]
    BY <1>3 DEF Accounted
  <2>1. a.index <= lastUsed[a.keychain] BY <1>4 DEF Accounted
  <2>2. a.keychain \in Keychains /\ a.index \in 0..MaxIndex BY DEF WalletAddress
  <2> QED BY <1>2, <2>1, <2>2, MaxIndexAssumption DEF Indexes
<1>6. DrawnIsNew'
  <2> SUFFICES ASSUME NEW d \in Clients, pc'[d] \in Holding, drawn'[d] # 0
               PROVE  /\ handed[Own(drawn'[d], keychain[d])] = 0
                      /\ drawn'[d] <= lastUsed'[keychain[d]]
                      /\ pc'[d] # "saved"
    BY <1>3 DEF DrawnIsNew, Own
  <2>1. d = c BY <1>3 DEF Exclusion
  <2>2. Own(NextIndex(k), k) \in WalletAddress
        /\ Own(NextIndex(k), k).index = NextIndex(k) /\ Own(NextIndex(k), k).keychain = k
    BY <1>1, <1>2, OwnType
  <2>3. ~ NextIndex(k) <= lastUsed[k] BY <1>1, <1>2, MaxIndexAssumption DEF Indexes
  <2>4. handed[Own(NextIndex(k), k)] = 0
    BY <1>4, <2>2, <2>3 DEF Accounted
  <2>5. NextIndex(k) <= lastUsed'[k] BY <1>1, <1>2
  <2> QED BY <1>3, <2>1, <2>4, <2>5
<1>7. HandedIsDurable' BY <1>3 DEF HandedIsDurable
<1> QED BY <1>5, <1>6, <1>7

\* Saving, by whomever, puts every index handed out or drawn on disk.
LEMMA SaveStep ==
    ASSUME Inv, Exclusion', Truncate \/ WriteAll, running,
           running' = running, handed' = handed, UNCHANGED <<keychain, drawn>>,
           \A c \in Clients : pc'[c] \in Holding => pc[c] \in Holding,
           \A c \in Clients : pc'[c] = "saved" => pc[c] = "saved" \/ WriteAll
    PROVE  Accounted' /\ DrawnIsNew' /\ HandedIsDurable'
<1> USE DEF Inv, Truncate, WriteAll
<1>1. lastUsed' = lastUsed OBVIOUS
<1>2. Accounted' BY <1>1 DEF Accounted
<1>3. DrawnIsNew'
  <2> SUFFICES ASSUME NEW d \in Clients, pc'[d] \in Holding, drawn[d] # 0
               PROVE  /\ handed[Own(drawn[d], keychain[d])] = 0
                      /\ drawn[d] <= lastUsed[keychain[d]]
                      /\ pc'[d] = "saved" /\ intact' => drawn[d] <= persisted'[keychain[d]]
    BY <1>1 DEF DrawnIsNew, Own
  <2>1. /\ handed[Own(drawn[d], keychain[d])] = 0
        /\ drawn[d] <= lastUsed[keychain[d]]
    BY DEF DrawnIsNew
  <2>2. CASE Truncate BY <2>1, <2>2
  <2>3. CASE WriteAll BY <2>1, <2>3
  <2> QED BY <2>2, <2>3
<1>4. HandedIsDurable' BY <1>1 DEF HandedIsDurable, Accounted
<1> QED BY <1>2, <1>3, <1>4

\* A reply hands out an address nobody had, which is on disk.
LEMMA ReplyStep ==
    ASSUME Inv, Exclusion', NEW c \in Clients, Reply(c)
    PROVE  /\ Accounted' /\ DrawnIsNew' /\ HandedIsDurable'
           /\ [Issuer!Next]_handed
<1> USE DEF Inv, TypeOK, KeysTypeOK
<1> DEFINE own == Own(drawn[c], keychain[c])
<1>1. /\ pc[c] = "saved" /\ lock' = "nobody" /\ running' = running
      /\ lastUsed' = lastUsed /\ persisted' = persisted /\ intact' = intact
  BY DEF Reply, keysVars
<1>2. running BY <1>1, InsideRuns
<1>3. /\ own \in WalletAddress /\ own.index = drawn[c] /\ own.keychain = keychain[c]
  BY OwnType
<1>4. DrawnIsNew'
  BY <1>1, AddressDaemonAssumption DEF DrawnIsNew, Exclusion, Holding
<1>5. CASE drawn[c] = 0
  <2>1. handed' = handed BY <1>5 DEF Reply
  <2> QED BY <1>1, <1>4, <2>1 DEF Accounted, HandedIsDurable
<1>6. CASE drawn[c] # 0
  <2>1. /\ handed[own] = 0 /\ drawn[c] <= lastUsed[keychain[c]]
        /\ intact => drawn[c] <= persisted[keychain[c]]
    BY <1>1, <1>6 DEF DrawnIsNew, Holding
  <2>2. handed' = [handed EXCEPT ![own] = 1] BY <1>6, <2>1 DEF Reply
  <2>3. \A a \in WalletAddress : handed'[a] = IF a = own THEN 1 ELSE handed[a]
    BY <2>2
  <2>4. Accounted' BY <1>1, <1>3, <2>1, <2>3 DEF Accounted
  <2>5. HandedIsDurable' BY <1>1, <1>3, <2>1, <2>3 DEF HandedIsDurable
  <2>6. Issuer!Next BY <1>3, <2>1, <2>2 DEF Issuer!Next, Issuer!Issue
  <2> QED BY <1>4, <2>4, <2>5, <2>6
<1> QED BY <1>5, <1>6

\* Every step keeps the invariant, and those that change what was handed out
\* are steps of the abstract issuer.
LEMMA NextStep == ASSUME Inv, Next PROVE Inv' /\ [Issuer!Next]_handed
<1>1. TypeOK' /\ Exclusion' BY TypeStep, ExclusionStep DEF Inv
<1>2. SUFFICES Accounted' /\ DrawnIsNew' /\ HandedIsDurable' /\ [Issuer!Next]_handed
  BY <1>1 DEF Inv
<1> DEFINE Good == Accounted' /\ DrawnIsNew' /\ HandedIsDurable' /\ [Issuer!Next]_handed
<1> USE DEF Inv, TypeOK, KeysTypeOK
<1>3. \A k \in Keychains : lastUsed[k] <= lastUsed[k] BY MaxIndexAssumption DEF Indexes
<1>4. ASSUME NEW c \in Clients, NEW k \in Keychains, CheckSynced(c, k) PROVE Good
  <2>1. /\ handed' = handed /\ lastUsed' = lastUsed /\ persisted' = persisted
        /\ intact' = intact /\ running' = running /\ drawn' = drawn
    BY <1>4 DEF CheckSynced, keysVars
  <2>2. \A d \in Clients : pc'[d] \in Holding =>
            pc'[d] = pc[d] /\ keychain'[d] = keychain[d]
    BY <1>4 DEF CheckSynced, Holding
  <2>3. DrawnIsNew' BY <2>1, <2>2 DEF DrawnIsNew, Own
  <2> QED BY <2>1, <2>3 DEF Accounted, HandedIsDurable
<1>5. ASSUME NEW c \in Clients, Draw(c) PROVE Good
  BY <1>1, <1>5, DrawStep DEF Draw
<1>6. ASSUME NEW c \in Clients, DrawExisting(c) PROVE Good
  <2>1. /\ handed' = handed /\ lastUsed' = lastUsed /\ persisted' = persisted
        /\ intact' = intact /\ running' = running /\ keychain' = keychain
    BY <1>6 DEF DrawExisting, keysVars
  <2>2. \A d \in Clients : pc'[d] \in Holding /\ drawn'[d] # 0 =>
            pc'[d] = pc[d] /\ drawn'[d] = drawn[d]
    BY <1>6 DEF DrawExisting
  <2>3. DrawnIsNew' BY <2>1, <2>2 DEF DrawnIsNew, Own
  <2> QED BY <2>1, <2>3 DEF Accounted, HandedIsDurable
<1>7. ASSUME NEW c \in Clients, SaveTruncates(c) \/ SaveWrites(c) PROVE Good
  <2>1. /\ running' = running /\ handed' = handed /\ UNCHANGED <<keychain, drawn>>
        /\ Truncate \/ WriteAll
    BY <1>7 DEF SaveTruncates, SaveWrites
  <2>2. pc[c] \in Holding /\ \A d \in Clients : d # c => pc'[d] = pc[d]
    BY <1>7 DEF SaveTruncates, SaveWrites, Holding
  <2>3. pc'[c] = "saved" => WriteAll BY <1>7 DEF SaveTruncates, SaveWrites
  <2>4. running BY <2>2, InsideRuns DEF Holding
  <2>5. Accounted' /\ DrawnIsNew' /\ HandedIsDurable'
    BY <1>1, <2>1, <2>2, <2>3, <2>4, SaveStep
  <2> QED BY <2>1, <2>5
<1>8. ASSUME NEW c \in Clients, RequestFails(c) PROVE Good
  <2>1. /\ handed' = handed /\ lastUsed' = lastUsed /\ persisted' = persisted
        /\ intact' = intact /\ running' = running
    BY <1>8 DEF RequestFails, keysVars
  <2>2. \A d \in Clients : pc'[d] \in Holding =>
            pc'[d] = pc[d] /\ drawn'[d] = drawn[d] /\ keychain'[d] = keychain[d]
    BY <1>8 DEF RequestFails, Holding
  <2>3. DrawnIsNew' BY <2>1, <2>2 DEF DrawnIsNew, Own
  <2> QED BY <2>1, <2>3 DEF Accounted, HandedIsDurable
<1>9. ASSUME NEW c \in Clients, Reply(c) PROVE Good
  BY <1>1, <1>9, ReplyStep
<1>10. CASE RequestNext
  BY <1>4, <1>5, <1>6, <1>7, <1>8, <1>9, <1>10 DEF RequestNext
<1>11. CASE ScanQuery \/ FarDone \/ RecentNext \/ RefreshDone
  <2>1. /\ handed' = handed /\ lastUsed' = lastUsed /\ running' = running
        /\ UNCHANGED <<fileVars, requestVars>>
    BY <1>11 DEF ScanQuery, FarDone, RecentNext, RefreshDone, keysVars, fileVars
  <2> QED BY <1>3, <2>1, Undisturbed
<1>12. CASE ScanUpdate
  <2>1. UpdateAddresses(answer) BY <1>12 DEF ScanUpdate
  <2>2. lastUsed' \in Indexes /\ \A k \in Keychains : lastUsed[k] <= lastUsed'[k]
    BY <2>1, UpdateRaises
  <2>3. handed' = handed /\ running' = running /\ UNCHANGED <<fileVars, requestVars>>
    BY <1>12 DEF ScanUpdate
  <2> QED BY <2>2, <2>3, Undisturbed
<1>13. CASE ScanTruncates \/ ScanWrites
  <2>1. /\ running' = running /\ handed' = handed /\ UNCHANGED requestVars
        /\ syncStep \in {"updated", "saving"}
        /\ Truncate \/ WriteAll
    BY <1>13 DEF ScanTruncates, ScanWrites
  <2>2. running BY <2>1 DEF Exclusion
  <2>3. Accounted' /\ DrawnIsNew' /\ HandedIsDurable'
    BY <1>1, <2>1, <2>2, SaveStep DEF requestVars
  <2> QED BY <2>1, <2>3
<1>14. ASSUME NEW a \in WalletAddress, Fund(a) \/ Drain(a) PROVE Good
  <2>1. /\ handed' = handed /\ lastUsed' = lastUsed /\ running' = running
        /\ UNCHANGED <<fileVars, requestVars>>
    BY <1>14 DEF Fund, Drain, keysVars, fileVars
  <2> QED BY <1>3, <2>1, Undisturbed
<1>15. CASE Crash
  <2>1. /\ handed' = handed /\ running' = FALSE /\ persisted' = persisted
        /\ intact' = intact /\ \A c \in Clients : pc'[c] = "idle"
    BY <1>15 DEF Crash, keysVars
  <2> QED BY <2>1 DEF Accounted, DrawnIsNew, HandedIsDurable, Holding
<1>16. CASE Start
  <2>1. /\ handed' = handed /\ lastUsed' = persisted /\ persisted' = persisted
        /\ intact /\ intact' = intact /\ pc' = pc /\ \A c \in Clients : pc[c] = "idle"
    BY <1>16 DEF Start, Load, fileVars, requestVars, Exclusion
  <2> QED BY <2>1 DEF Accounted, DrawnIsNew, HandedIsDurable, Holding
<1>17. CASE StartFails
  <2>1. /\ handed' = handed /\ lastUsed' = lastUsed /\ running' = running
        /\ UNCHANGED <<fileVars, requestVars>>
    BY <1>17 DEF StartFails, vars, keysVars, fileVars, requestVars
  <2> QED BY <1>3, <2>1, Undisturbed
<1> QED BY <1>10, <1>11, <1>12, <1>13, <1>14, <1>15, <1>16, <1>17 DEF Next, SyncNext

\* The invariant of the specification.
LEMMA Invariance == Spec => []Inv
<1>1. Inv /\ UNCHANGED vars => Inv'
  BY DEF Inv, vars, keysVars, requestVars, scanVars, chainVars, TypeOK, KeysTypeOK,
         Exclusion, Accounted, DrawnIsNew, HandedIsDurable
<1>2. Inv /\ [Next]_vars => Inv' BY <1>1, NextStep
<1> QED BY InitInv, <1>2, PTL DEF Spec

\* Every variable of the address daemon keeps its type.
THEOREM TypeCorrect == Spec => []TypeOK
<1>1. Inv => TypeOK BY DEF Inv
<1> QED BY Invariance, <1>1, PTL

\* A restart resumes above every address handed out: new_address and
\* change_address save before they reply, and the scan saves whatever it raised.
THEOREM HandedAlwaysDurable == Spec => []HandedIsDurable
<1>1. Inv => HandedIsDurable BY DEF Inv
<1> QED BY Invariance, <1>1, PTL

\* The daemon implements the abstract issuer: no address is handed out twice,
\* by requests at once, after a failed save, or across restarts.
THEOREM NeverHandedTwice == Spec => HandsOutNew
<1>1. Init => Issuer!Init BY DEF Init, Issuer!Init
<1>2. Inv /\ [Next]_vars => [Issuer!Next]_handed
  <2>1. UNCHANGED vars => UNCHANGED handed BY DEF vars
  <2> QED BY <2>1, NextStep
<1> QED BY Invariance, <1>1, <1>2, PTL DEF Spec, HandsOutNew, Issuer!Spec
-----------------------------------------------------------------------------
(* What the scan knows. *)

\* Every address used before the process started and below a position is known.
Scanned(n) == {a \in owed : a.index < n} \subseteq addresses

\* What the two scans have established: everything below the far position and,
\* in the recent pass, below its position too; what the node named in the
\* window under way; and, once the answer is applied, the window itself.
\* The addresses that count still have their balance, so the node names them.
ScanInv ==
    /\ owed \subseteq funded
    /\ ~running => nextSyncStart = 0 /\ scanIndex = 0
    /\ running => Scanned(nextSyncStart)
    /\ running /\ pass = "recent" => Scanned(scanIndex)
    /\ syncStep = "answered" =>
           owed \cap AddressesToQuery(ScanStart, ScanEnd) \subseteq answer
    /\ pass # "refresh" /\ syncStep \in {"updated", "saving", "next"} =>
           owed \cap AddressesToQuery(ScanStart, ScanEnd) \subseteq addresses

\* The cap never moves a position past what was scanned.
LEMMA CappedBelow == ASSUME NEW n \in Nat PROVE Capped(n) <= n
BY CappedType DEF Capped

\* Nothing lies below the first index.
LEMMA NothingScanned == ASSUME TypeOK PROVE Scanned(0)
BY DEF Scanned, TypeOK, WalletAddress

\* A window whose start was reached extends what is known to its end.
LEMMA WindowExtends ==
    ASSUME TypeOK, NEW low \in Nat, NEW high \in Nat, NEW n \in Nat,
           Scanned(low), n <= high,
           owed \cap AddressesToQuery(low, high) \subseteq addresses
    PROVE  Scanned(n)
<1> SUFFICES ASSUME NEW a \in owed, a.index < n PROVE a \in addresses
  BY DEF Scanned
<1>1. a \in WalletAddress /\ a.index \in Nat
  BY MaxIndexAssumption DEF TypeOK, WalletAddress
<1>2. CASE a.index < low BY <1>2 DEF Scanned
<1>3. CASE a.index >= low
  <2>1. a.index < high BY <1>1
  <2> QED BY <1>1, <1>3, <2>1 DEF AddressesToQuery
<1> QED BY <1>1, <1>2, <1>3

\* A step that leaves the scan alone, forgets no address and owes no new one
\* keeps what the scan has established.
LEMMA ScanUndisturbed ==
    ASSUME ScanInv, running' = running, UNCHANGED scanVars,
           addresses \subseteq addresses', owed' \subseteq owed, owed' \subseteq funded'
    PROVE  ScanInv'
<1> USE DEF ScanInv, scanVars
<1>1. ScanStart' = ScanStart /\ ScanEnd' = ScanEnd BY DEF ScanStart, ScanEnd
<1>2. AddressesToQuery(ScanStart, ScanEnd)' = AddressesToQuery(ScanStart, ScanEnd)
  BY <1>1 DEF AddressesToQuery
<1>3. running' => Scanned(nextSyncStart)' BY DEF Scanned
<1>4. running' /\ pass' = "recent" => Scanned(scanIndex)' BY DEF Scanned
<1> QED BY <1>2, <1>3, <1>4

\* A step of a process that is up keeps the scan's invariant if it leaves the
\* balances alone, forgets no address, and establishes the parts named here.
LEMMA ScanStep ==
    ASSUME ScanInv, running, running' = running, owed' = owed, funded' = funded,
           Scanned(nextSyncStart)', pass' = "recent" => Scanned(scanIndex)',
           syncStep' = "answered" =>
               (owed \cap AddressesToQuery(ScanStart, ScanEnd) \subseteq answer)',
           pass' # "refresh" /\ syncStep' \in {"updated", "saving", "next"} =>
               (owed \cap AddressesToQuery(ScanStart, ScanEnd) \subseteq addresses)'
    PROVE  ScanInv'
BY DEF ScanInv

\* Every step keeps it.
LEMMA NextScan == ASSUME Inv, ScanInv, Next PROVE ScanInv'
<1> USE DEF Inv
<1> DEFINE Window == AddressesToQuery(ScanStart, ScanEnd)
<1>1. /\ nextSyncStart \in Nat /\ scanIndex \in Nat /\ ScanLimit \in Nat
      /\ FarWindow \in Nat /\ RecentWindow \in Nat
  BY CappedType, AddressDaemonAssumption, 0 \in Nat DEF TypeOK
<1>2. CASE RequestNext
  <2>1. PICK c \in Clients :
            \/ \E k \in Keychains : CheckSynced(c, k)
            \/ Draw(c) \/ DrawExisting(c)
            \/ SaveTruncates(c) \/ SaveWrites(c) \/ RequestFails(c) \/ Reply(c)
    BY <1>2 DEF RequestNext
  <2>2. /\ running' = running /\ UNCHANGED scanVars /\ UNCHANGED chainVars
        /\ addresses \subseteq addresses'
    BY <2>1 DEF CheckSynced, Draw, DrawExisting, SaveTruncates, SaveWrites, RequestFails, Reply
  <2>3. owed' \subseteq funded' BY <2>2 DEF chainVars, ScanInv
  <2> QED BY <2>2, <2>3, ScanUndisturbed DEF chainVars
<1>3. CASE ScanQuery
  <2>1. /\ running /\ running' = running /\ owed' = owed /\ funded' = funded
        /\ addresses' = addresses /\ pass' = pass /\ scanIndex' = scanIndex
        /\ nextSyncStart' = nextSyncStart
        /\ answer' = funded \cap Window /\ syncStep' = "answered"
    BY <1>3 DEF ScanQuery, chainVars
  <2>2. AddressesToQuery(ScanStart, ScanEnd)' = Window
    BY <2>1 DEF ScanStart, ScanEnd, AddressesToQuery
  <2>3. Scanned(nextSyncStart)' /\ (pass' = "recent" => Scanned(scanIndex)')
    BY <2>1 DEF ScanInv, Scanned
  <2>4. (owed \cap AddressesToQuery(ScanStart, ScanEnd) \subseteq answer)'
    BY <2>1, <2>2 DEF ScanInv
  <2> QED BY <2>1, <2>3, <2>4, ScanStep
<1>4. CASE ScanUpdate
  <2>1. /\ syncStep = "answered" /\ running' = running /\ owed' = owed /\ funded' = funded
        /\ addresses' = addresses \cup answer /\ pass' = pass /\ scanIndex' = scanIndex
        /\ nextSyncStart' = nextSyncStart /\ syncStep' = "updated"
    BY <1>4 DEF ScanUpdate, UpdateAddresses, chainVars
  <2>2. running BY <2>1 DEF Exclusion
  <2>3. AddressesToQuery(ScanStart, ScanEnd)' = Window
    BY <2>1 DEF ScanStart, ScanEnd, AddressesToQuery
  <2>4. Scanned(nextSyncStart)' /\ (pass' = "recent" => Scanned(scanIndex)')
    BY <2>1, <2>2 DEF ScanInv, Scanned
  <2>5. (owed \cap AddressesToQuery(ScanStart, ScanEnd) \subseteq addresses)'
    BY <2>1, <2>3 DEF ScanInv
  <2> QED BY <2>1, <2>2, <2>4, <2>5, ScanStep
<1>5. CASE ScanTruncates \/ ScanWrites
  <2>1. /\ syncStep \in {"updated", "saving"} /\ syncStep' \in {"saving", "next"}
        /\ running' = running /\ owed' = owed /\ funded' = funded
        /\ addresses' = addresses /\ pass' = pass /\ scanIndex' = scanIndex
        /\ nextSyncStart' = nextSyncStart
    BY <1>5 DEF ScanTruncates, ScanWrites, chainVars
  <2>2. running BY <2>1 DEF Exclusion
  <2>3. AddressesToQuery(ScanStart, ScanEnd)' = Window
    BY <2>1 DEF ScanStart, ScanEnd, AddressesToQuery
  <2>4. Scanned(nextSyncStart)' /\ (pass' = "recent" => Scanned(scanIndex)')
    BY <2>1, <2>2 DEF ScanInv, Scanned
  <2>5. pass' # "refresh" =>
            (owed \cap AddressesToQuery(ScanStart, ScanEnd) \subseteq addresses)'
    BY <2>1, <2>3 DEF ScanInv
  <2> QED BY <2>1, <2>2, <2>4, <2>5, ScanStep
<1>6. CASE FarDone
  <2>1. /\ pass = "far" /\ syncStep = "next" /\ running' = running
        /\ owed' = owed /\ funded' = funded /\ addresses' = addresses
        /\ nextSyncStart' = Capped(nextSyncStart + FarWindow)
        /\ pass' = "recent" /\ scanIndex' = 0 /\ syncStep' = "query"
    BY <1>6 DEF FarDone, chainVars
  <2>2. running BY <2>1 DEF Exclusion
  <2>3. nextSyncStart + FarWindow \in Nat /\ 0 \in Nat BY <1>1
  <2>4. owed \cap AddressesToQuery(nextSyncStart, nextSyncStart + FarWindow) \subseteq addresses
    BY <2>1 DEF ScanInv, ScanStart, ScanEnd
  <2>5. Scanned(nextSyncStart) BY <2>2 DEF ScanInv
  <2>6. Capped(nextSyncStart + FarWindow) \in Nat
        /\ Capped(nextSyncStart + FarWindow) <= nextSyncStart + FarWindow
    BY <2>3, CappedType, CappedBelow
  <2>7. Scanned(Capped(nextSyncStart + FarWindow))
    BY <1>1, <2>3, <2>4, <2>5, <2>6, WindowExtends
  <2>8. Scanned(nextSyncStart)' BY <2>1, <2>7 DEF Scanned
  <2>9. Scanned(scanIndex)' BY <2>1, NothingScanned DEF Scanned
  <2> QED BY <2>1, <2>2, <2>8, <2>9, ScanStep
<1>7. CASE RecentNext
  <2> DEFINE index == Capped(scanIndex + RecentWindow)
  <2>1. /\ pass = "recent" /\ syncStep = "next" /\ running' = running
        /\ owed' = owed /\ funded' = funded /\ addresses' = addresses
    BY <1>7 DEF RecentNext, chainVars
  <2>2. \/ /\ scanIndex' = index /\ syncStep' = "query"
           /\ pass' = pass /\ nextSyncStart' = nextSyncStart
        \/ /\ nextSyncStart' = (IF index > nextSyncStart THEN index ELSE nextSyncStart)
           /\ pass' = "refresh"
    BY <1>7 DEF RecentNext
  <2>3. running BY <2>1 DEF Exclusion
  <2>4. scanIndex + RecentWindow \in Nat BY <1>1
  <2>5. owed \cap AddressesToQuery(scanIndex, scanIndex + RecentWindow) \subseteq addresses
    BY <2>1 DEF ScanInv, ScanStart, ScanEnd
  <2>6. Scanned(scanIndex) /\ Scanned(nextSyncStart) BY <2>1, <2>3 DEF ScanInv
  <2>7. index \in Nat /\ index <= scanIndex + RecentWindow
    BY <2>4, CappedType, CappedBelow
  <2>8. Scanned(index) BY <1>1, <2>4, <2>5, <2>6, <2>7, WindowExtends
  <2>9. Scanned(nextSyncStart)' /\ (pass' = "recent" => Scanned(scanIndex)')
    <3> HIDE DEF index
    <3>1. CASE /\ scanIndex' = index /\ nextSyncStart' = nextSyncStart
      BY <2>1, <2>6, <2>8, <3>1 DEF Scanned
    <3>2. CASE /\ nextSyncStart' = (IF index > nextSyncStart THEN index ELSE nextSyncStart)
               /\ pass' = "refresh"
      <4>1. nextSyncStart' = index \/ nextSyncStart' = nextSyncStart BY <3>2
      <4> QED BY <2>1, <2>6, <2>8, <3>2, <4>1 DEF Scanned
    <3> QED BY <2>2, <3>1, <3>2
  <2>10. syncStep' = "query" \/ pass' = "refresh" BY <2>2
  <2>11. syncStep' # "answered" BY <2>1, <2>2, <1>7 DEF RecentNext
  <2> QED BY <2>1, <2>3, <2>9, <2>10, <2>11, ScanStep
<1>8. CASE RefreshDone
  <2>1. /\ running /\ running' = running /\ owed' = owed /\ funded' = funded
        /\ addresses' = addresses /\ nextSyncStart' = nextSyncStart
        /\ pass' = "far" /\ syncStep' = "query"
    BY <1>8 DEF RefreshDone, chainVars
  <2>2. Scanned(nextSyncStart)' BY <2>1 DEF ScanInv, Scanned
  <2> QED BY <2>1, <2>2, ScanStep
<1>9. ASSUME NEW a \in WalletAddress, Fund(a) \/ Drain(a) PROVE ScanInv'
  <2>1. /\ running' = running /\ UNCHANGED scanVars /\ addresses' = addresses
        /\ owed' \subseteq owed
    BY <1>9 DEF Fund, Drain
  <2>2. owed' \subseteq funded' BY <1>9 DEF Fund, Drain, ScanInv
  <2> QED BY <2>1, <2>2, ScanUndisturbed
<1>10. CASE Crash
  <2>1. /\ running' = FALSE /\ nextSyncStart' = 0 /\ scanIndex' = 0
        /\ syncStep' = "query" /\ owed' = owed /\ funded' = funded
    BY <1>10 DEF Crash, chainVars
  <2> QED BY <2>1 DEF ScanInv
<1>11. CASE Start
  <2>1. /\ ~running /\ running' = TRUE /\ owed' = funded /\ funded' = funded
        /\ UNCHANGED scanVars
    BY <1>11 DEF Start
  <2>2. nextSyncStart' = 0 /\ scanIndex' = 0 /\ syncStep' = "query"
    BY <2>1 DEF ScanInv, Exclusion, scanVars
  <2>3. TypeOK' BY TypeStep
  <2>4. \A a \in owed' : ~(a.index < 0)
    BY <2>3, MaxIndexAssumption DEF TypeOK, WalletAddress
  <2>5. Scanned(nextSyncStart)' /\ Scanned(scanIndex)' BY <2>2, <2>4 DEF Scanned
  <2> QED BY <2>1, <2>2, <2>5 DEF ScanInv
<1>12. CASE StartFails
  <2>1. /\ running' = running /\ UNCHANGED scanVars /\ addresses' = addresses
        /\ owed' = owed /\ funded' = funded
    BY <1>12 DEF StartFails, vars, chainVars
  <2> QED BY <2>1, ScanUndisturbed DEF ScanInv
<1> QED BY <1>2, <1>3, <1>4, <1>5, <1>6, <1>7, <1>8, <1>9, <1>10, <1>11, <1>12
    DEF Next, SyncNext

\* A wallet that calls itself synced knows every address below its far position
\* that has had a balance since before the process started: for any windows,
\* any number of requests, and a node whose answer is applied late.
THEOREM SyncedWalletKnows == Spec => []SyncedKnowsOldCoins
<1>1. Init => ScanInv
  <2> SUFFICES ASSUME Init PROVE ScanInv OBVIOUS
  <2>1. TypeOK BY InitInv DEF Inv
  <2>2. Scanned(0) BY <2>1, NothingScanned
  <2> QED BY <2>2 DEF Init, ScanInv
<1>2. Inv /\ ScanInv /\ UNCHANGED vars => ScanInv'
  <2> SUFFICES ASSUME Inv, ScanInv, UNCHANGED vars PROVE ScanInv' OBVIOUS
  <2>1. /\ running' = running /\ UNCHANGED scanVars /\ addresses' = addresses
        /\ owed' = owed /\ funded' = funded
    BY DEF vars, chainVars
  <2> QED BY <2>1, ScanUndisturbed DEF ScanInv
<1>3. Inv /\ ScanInv /\ [Next]_vars => ScanInv' BY <1>2, NextScan
<1>4. Spec => []ScanInv BY Invariance, <1>1, <1>3, PTL DEF Spec
<1>5. ScanInv => SyncedKnowsOldCoins BY DEF ScanInv, Scanned, SyncedKnowsOldCoins
<1> QED BY <1>4, <1>5, PTL
=============================================================================
