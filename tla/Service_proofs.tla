--------------------------- MODULE Service_proofs ---------------------------
(***************************************************************************)
(* However many requests are under way, and whatever they ask for: no two  *)
(* tasks hold one mutex, and nobody waits for a mutex while holding a later *)
(* one, so no circle of tasks waits for itself.                            *)
(***************************************************************************)
EXTENDS Service, FiniteSetTheorems, TLAPS

\* m is the last, in the order of nesting, of the mutexes held.
LastOf(m, held) == \A h \in held \ {m} : Rank[h] < Rank[m]

\* What a handler asks for comes after all it keeps.
Ordered(handler) ==
    LET sections == handler.sections
    IN  /\ sections \in Seq([held : SUBSET Mutexes, asks : BOOLEAN])
        /\ Len(sections) >= 1
        /\ \A m \in sections[1].held : LastOf(m, sections[1].held)
        /\ \A i \in 1..Len(sections) : \A j \in Successors(handler, i) \ {0} :
               /\ j \in 1..Len(sections)
               /\ \A m \in sections[j].held \ sections[i].held :
                      LastOf(m, sections[j].held)

LEMMA AddressesOrdered == Ordered(GetAddresses) /\ Ordered(NewAddress)
BY DEF Ordered, GetAddresses, NewAddress, Successors, Computes, Asks, Mutexes, Rank, LastOf

LEMMA GetBalanceOrdered == Ordered(GetBalance)
BY DEF Ordered, GetBalance, Successors, Computes, Asks, Mutexes, Rank, LastOf

LEMMA SyncCycleOrdered == Ordered(SyncCycle)
BY DEF Ordered, SyncCycle, Successors, Computes, Asks, Mutexes, Rank, LastOf

LEMMA SendOrdered == Ordered(Send)
BY DEF Ordered, Send, Generating, Submitting, Successors, Computes, Asks, Mutexes, Rank, LastOf

LEMMA GetUtxosOrdered == Ordered(GetUtxos)
BY DEF Ordered, GetUtxos, Successors, Computes, Asks, Mutexes, Rank, LastOf

LEMMA CreateUnsignedOrdered == Ordered(CreateUnsignedTransactions)
BY DEF Ordered, CreateUnsignedTransactions, Generating, Successors, Computes, Asks,
       Mutexes, Rank, LastOf

LEMMA BroadcastOrdered == Ordered(Broadcast)
BY DEF Ordered, Broadcast, Submitting, Successors, Computes, Asks, Mutexes, Rank, LastOf

LEMMA HandlersOrdered == \A name \in DOMAIN Handlers : Ordered(Handlers[name])
BY AddressesOrdered, GetBalanceOrdered, SyncCycleOrdered, SendOrdered, GetUtxosOrdered,
   CreateUnsignedOrdered, BroadcastOrdered DEF Handlers

LEMMA SectionsHeld ==
    \A name \in DOMAIN Handlers : \A i \in 1..Len(Handlers[name].sections) :
        Handlers[name].sections[i].held \subseteq Mutexes
<1> SUFFICES ASSUME NEW name \in DOMAIN Handlers, NEW i \in 1..Len(Handlers[name].sections)
             PROVE  Handlers[name].sections[i].held \subseteq Mutexes
  OBVIOUS
<1> DEFINE sections == Handlers[name].sections
           Sections == [held : SUBSET Mutexes, asks : BOOLEAN]
<1>1. sections \in Seq(Sections)
  BY HandlersOrdered DEF Ordered
<1> HIDE DEF sections, Sections
<1>2. i \in 1..Len(sections)
  BY DEF sections
<1>3. sections[i] \in Sections
  BY <1>1, <1>2
<1> QED BY <1>3 DEF sections, Sections

-----------------------------------------------------------------------------
(* Lines. *)

LEMMA WithoutLine ==
    ASSUME NEW s \in Seq(Tasks), NEW t \in Tasks, IsInjective(s)
    PROVE  /\ Without(s, t) \in Seq(Tasks)
           /\ Range(Without(s, t)) = Range(s) \ {t}
           /\ IsInjective(Without(s, t))
<1>1. CASE t \notin Range(s)
  BY <1>1 DEF Without
<1>2. CASE t \in Range(s)
  <2> DEFINE i == CHOOSE k \in DOMAIN s : s[k] = t
             r == RemoveAt(s, i)
  <2>1. i \in 1..Len(s) /\ s[i] = t
    BY <1>2 DEF Range
  <2>2. Without(s, t) = r
    BY <1>2 DEF Without
  <2> HIDE DEF i
  <2>3. /\ r \in Seq(Tasks)
        /\ Len(r) = Len(s) - 1
        /\ \A k \in 1..Len(r) : r[k] = IF k < i THEN s[k] ELSE s[k + 1]
    <3> DEFINE front == SubSeq(s, 1, i - 1)
               back == SubSeq(s, i + 1, Len(s))
    <3>1. /\ front \in Seq(Tasks) /\ Len(front) = i - 1
          /\ \A k \in 1..(i - 1) : front[k] = s[k]
      BY <2>1
    <3>2. /\ back \in Seq(Tasks) /\ Len(back) = Len(s) - i
          /\ \A k \in 1..(Len(s) - i) : back[k] = s[i + k]
      BY <2>1
    <3>3. r = front \o back
      BY DEF RemoveAt
    <3> HIDE DEF front, back, r
    <3>4. r \in Seq(Tasks) /\ Len(r) = Len(s) - 1
      BY <2>1, <3>1, <3>2, <3>3
    <3>5. ASSUME NEW k \in 1..Len(r) PROVE r[k] = IF k < i THEN s[k] ELSE s[k + 1]
      <4>1. CASE k < i
        BY <2>1, <3>1, <3>2, <3>3, <3>4, <4>1
      <4>2. CASE k >= i
        <5>1. r[k] = back[k - (i - 1)] /\ k - (i - 1) \in 1..(Len(s) - i)
          BY <2>1, <3>1, <3>2, <3>3, <3>4, <4>2
        <5>2. i + (k - (i - 1)) = k + 1
          BY <2>1
        <5> QED BY <2>1, <3>2, <4>2, <5>1, <5>2
      <4> QED BY <2>1, <4>1, <4>2
    <3> QED BY <3>4, <3>5
  <2> HIDE DEF r
  <2>4. IsInjective(r)
    <3>1. \A a, b \in 1..Len(s) : s[a] = s[b] => a = b
      BY DEF IsInjective
    <3>2. DOMAIN r = 1..Len(r)
      BY <2>3
    <3> QED BY <2>1, <2>3, <3>1, <3>2 DEF IsInjective
  <2>5. Range(r) = Range(s) \ {t}
    <3>1. \A a, b \in 1..Len(s) : s[a] = s[b] => a = b
      BY DEF IsInjective
    <3>2. ASSUME NEW k \in 1..Len(r) PROVE r[k] \in Range(s) \ {t}
      BY <2>1, <2>3, <3>1, <3>2 DEF Range
    <3>3. ASSUME NEW k \in 1..Len(s), s[k] # t PROVE s[k] \in Range(r)
      <4>1. CASE k < i
        BY <2>1, <2>3, <3>3, <4>1 DEF Range
      <4>2. CASE k > i
        <5>1. k - 1 \in 1..Len(r) /\ r[k - 1] = s[k]
          BY <2>1, <2>3, <4>2
        <5>2. DOMAIN r = 1..Len(r)
          BY <2>3
        <5>3. r[k - 1] \in Range(r)
          BY <5>1, <5>2 DEF Range
        <5> QED BY <5>1, <5>3
      <4> QED BY <2>1, <3>3, <4>1, <4>2
    <3>4. DOMAIN r = 1..Len(r) /\ DOMAIN s = 1..Len(s)
      BY <2>3
    <3>5. Range(r) \subseteq Range(s) \ {t}
      BY <3>2, <3>4 DEF Range
    <3>6. Range(s) \ {t} \subseteq Range(r)
      BY <3>3, <3>4 DEF Range
    <3> QED BY <3>5, <3>6
  <2> QED BY <2>2, <2>3, <2>4, <2>5
<1> QED BY <1>1, <1>2

LEMMA TailLine ==
    ASSUME NEW s \in Seq(Tasks), IsInjective(s), s # <<>>
    PROVE  /\ Head(s) \in Tasks
           /\ Tail(s) \in Seq(Tasks)
           /\ Range(Tail(s)) = Range(s) \ {Head(s)}
           /\ IsInjective(Tail(s))
<1>1. /\ Len(Tail(s)) = Len(s) - 1 /\ Len(s) >= 1
      /\ Tail(s) \in Seq(Tasks)
      /\ \A k \in 1..Len(Tail(s)) : Tail(s)[k] = s[k + 1]
      /\ Head(s) = s[1] /\ Head(s) \in Tasks
  OBVIOUS
<1>2. \A a, b \in 1..Len(s) : s[a] = s[b] => a = b
  BY DEF IsInjective
<1>3. IsInjective(Tail(s))
  BY <1>1, <1>2 DEF IsInjective
<1>4. ASSUME NEW k \in 1..Len(s), s[k] # Head(s) PROVE s[k] \in Range(Tail(s))
  <2>1. k - 1 \in 1..Len(Tail(s)) /\ Tail(s)[k - 1] = s[k]
    BY <1>1, <1>4
  <2>2. DOMAIN Tail(s) = 1..Len(Tail(s))
    BY <1>1
  <2> QED BY <2>1, <2>2 DEF Range
<1>5. ASSUME NEW k \in 1..Len(Tail(s)) PROVE Tail(s)[k] \in Range(s) \ {Head(s)}
  BY <1>1, <1>2 DEF Range
<1> QED BY <1>1, <1>3, <1>4, <1>5 DEF Range

LEMMA AppendLine ==
    ASSUME NEW s \in Seq(Tasks), NEW t \in Tasks, IsInjective(s), t \notin Range(s)
    PROVE  /\ Append(s, t) \in Seq(Tasks)
           /\ Range(Append(s, t)) = Range(s) \cup {t}
           /\ IsInjective(Append(s, t))
<1>1. /\ Append(s, t) \in Seq(Tasks)
      /\ Len(Append(s, t)) = Len(s) + 1
      /\ \A k \in 1..Len(s) : Append(s, t)[k] = s[k]
      /\ Append(s, t)[Len(s) + 1] = t
  OBVIOUS
<1>2. \A k \in 1..Len(s) : s[k] # t
  BY DEF Range
<1>3. IsInjective(Append(s, t))
  BY <1>1, <1>2 DEF IsInjective
<1>4. Range(Append(s, t)) = Range(s) \cup {t}
  BY <1>1 DEF Range
<1> QED BY <1>1, <1>3, <1>4

-----------------------------------------------------------------------------
(* The inductive invariant. *)

\* Whoever waits has asked for a mutex of its section, after all the others of it.
Queued ==
    \A m \in Mutexes : \A t \in Tasks :
        t \in Range(line[m]) => m \in Section(t).held /\ LastOf(m, Section(t).held)

Single == \A m \in Mutexes : \A t, u \in Tasks : m \in Held(t) /\ m \in Held(u) => t = u

IInv == TypeOK /\ Queued /\ Single

LEMMA HandlerNames ==
    /\ "idle" \notin DOMAIN Handlers
    /\ "SyncCycle" \in DOMAIN Handlers
    /\ Requests \subseteq DOMAIN Handlers
BY ServiceAssumption DEF Handlers

LEMMA InitIInv == Init => IInv
<1> SUFFICES ASSUME Init PROVE IInv
  OBVIOUS
<1>1. \A m \in Mutexes : line[m] = <<>> /\ Range(line[m]) = {} /\ IsInjective(line[m])
  BY DEF Init, Range, IsInjective
<1>2. TypeOK
  BY <1>1, ServiceAssumption DEF Init, TypeOK, Waits
<1>3. Queued /\ Single
  BY <1>1 DEF Init, Queued, Single, Held
<1> QED BY <1>2, <1>3 DEF IInv

\* What asking for some mutexes does to the lines.
LEMMA AskedLine ==
    ASSUME TypeOK, NEW t \in Tasks, ~Waits(t), NEW taken, Asked(t, taken)
    PROVE  /\ line' \in [Mutexes -> Seq(Tasks)]
           /\ \A m \in Mutexes :
                  /\ IsInjective(line'[m])
                  /\ Range(line'[m]) = IF ~(\A n \in taken : Free(n)) /\ m \in taken
                                       THEN Range(line[m]) \cup {t} ELSE Range(line[m])
<1>1. \A m \in Mutexes : line[m] \in Seq(Tasks) /\ IsInjective(line[m]) /\ t \notin Range(line[m])
  BY DEF TypeOK, Waits
<1>2. CASE ~(\A n \in taken : Free(n))
  <2>1. line' = [m \in Mutexes |-> IF m \in taken THEN Append(line[m], t) ELSE line[m]]
    BY <1>2 DEF Asked
  <2> QED BY <1>1, <1>2, <2>1, AppendLine
<1>3. CASE \A n \in taken : Free(n)
  BY <1>1, <1>3 DEF Asked, TypeOK
<1> QED BY <1>2, <1>3

\* A task that starts, or goes on, and asks for the mutexes it does not hold yet.
LEMMA AskedKeepsIInv ==
    ASSUME IInv, NEW t \in Tasks, ~Waits(t),
           NEW name \in DOMAIN Handlers, NEW j \in 1..Len(Handlers[name].sections),
           \A m \in Handlers[name].sections[j].held \ Held(t) :
               LastOf(m, Handlers[name].sections[j].held),
           Asked(t, Handlers[name].sections[j].held \ Held(t)),
           doing' = [doing EXCEPT ![t] = name],
           at' = [at EXCEPT ![t] = j],
           rounds' \in [Tasks -> 0..MaxRounds]
    PROVE  IInv'
<1> DEFINE section == Handlers[name].sections[j]
           taken == section.held \ Held(t)
           blocked == ~ \A m \in taken : Free(m)
<1> USE DEF IInv
<1>1. /\ section.held \subseteq Mutexes
      /\ taken \subseteq Mutexes
  BY SectionsHeld
<1>2. \A m \in Mutexes : line[m] \in Seq(Tasks) /\ IsInjective(line[m]) /\ t \notin Range(line[m])
  BY DEF TypeOK, Waits
<1>3. /\ line' \in [Mutexes -> Seq(Tasks)]
      /\ \A m \in Mutexes :
             /\ IsInjective(line'[m])
             /\ Range(line'[m]) = IF blocked /\ m \in taken THEN Range(line[m]) \cup {t}
                                  ELSE Range(line[m])
  <2>1. TypeOK /\ Asked(t, taken)
    OBVIOUS
  <2> HIDE DEF taken
  <2> QED BY <2>1, AskedLine
<1>4. /\ doing'[t] = name /\ at'[t] = j
      /\ \A u \in Tasks \ {t} : doing'[u] = doing[u] /\ at'[u] = at[u]
      /\ doing' \in [Tasks -> DOMAIN Handlers \cup {"idle"}]
      /\ at' \in [Tasks -> Nat]
  BY DEF TypeOK
<1>5. \A u \in Tasks \ {t} :
          /\ Section(u)' = Section(u) /\ Held(u)' = Held(u) /\ Waits(u)' = Waits(u)
          /\ \A m \in Mutexes : u \in Range(line'[m]) <=> u \in Range(line[m])
  <2> SUFFICES ASSUME NEW u \in Tasks \ {t}
               PROVE  /\ Section(u)' = Section(u) /\ Held(u)' = Held(u) /\ Waits(u)' = Waits(u)
                      /\ \A m \in Mutexes : u \in Range(line'[m]) <=> u \in Range(line[m])
    OBVIOUS
  <2>1. \A m \in Mutexes : u \in Range(line'[m]) <=> u \in Range(line[m])
    BY <1>3
  <2>2. Section(u)' = Section(u)
    BY <1>4 DEF Section
  <2>3. doing[u] # "idle" => Section(u).held \subseteq Mutexes
    BY SectionsHeld DEF TypeOK, Section
  <2> QED BY <1>4, <2>1, <2>2, <2>3 DEF Held, Waits
<1>6. Section(t)' = section /\ doing'[t] # "idle"
  BY <1>4, HandlerNames DEF Section
<1>7. Held(t)' = IF blocked THEN section.held \ taken ELSE section.held
  <2>1. Held(t)' = {m \in section.held : t \notin Range(line'[m])}
    BY <1>6 DEF Held
  <2> QED BY <1>1, <1>2, <1>3, <2>1
<1>8. TypeOK'
  BY <1>3, <1>4, <1>5, <1>6 DEF TypeOK
<1>9. Queued'
  BY <1>1, <1>2, <1>3, <1>5, <1>6 DEF Queued
<1>10. Single'
  <2> SUFFICES ASSUME NEW m \in Mutexes, NEW u \in Tasks \ {t}, m \in Held(t)', m \in Held(u)'
               PROVE  FALSE
    BY <1>5 DEF Single
  <2>1. m \in Held(u)
    BY <1>5
  <2>2. CASE m \in Held(t)
    BY <2>1, <2>2 DEF Single
  <2>3. CASE m \notin Held(t)
    BY <1>7, <2>1, <2>3 DEF Free
  <2> QED BY <2>2, <2>3
<1> QED BY <1>8, <1>9, <1>10

\* A task that ends, or is dropped wherever it stands.
LEMMA DroppedKeepsIInv == ASSUME IInv, NEW t \in Tasks, Dropped(t) PROVE IInv'
<1> USE DEF IInv
<1>1. /\ line' \in [Mutexes -> Seq(Tasks)]
      /\ \A m \in Mutexes : IsInjective(line'[m]) /\ Range(line'[m]) = Range(line[m]) \ {t}
  BY WithoutLine DEF TypeOK, Dropped
<1>2. /\ doing'[t] = "idle" /\ at'[t] = 0
      /\ \A u \in Tasks \ {t} : doing'[u] = doing[u] /\ at'[u] = at[u]
      /\ doing' \in [Tasks -> DOMAIN Handlers \cup {"idle"}]
      /\ at' \in [Tasks -> Nat]
      /\ rounds' \in [Tasks -> 0..MaxRounds]
  BY ServiceAssumption DEF TypeOK, Dropped
<1>3. ~Waits(t)' /\ Held(t)' = {}
  BY <1>1, <1>2 DEF Waits, Held
<1>4. \A u \in Tasks \ {t} :
          /\ Section(u)' = Section(u) /\ Held(u)' = Held(u) /\ Waits(u)' = Waits(u)
          /\ \A m \in Mutexes : u \in Range(line'[m]) <=> u \in Range(line[m])
  <2> SUFFICES ASSUME NEW u \in Tasks \ {t}
               PROVE  /\ Section(u)' = Section(u) /\ Held(u)' = Held(u) /\ Waits(u)' = Waits(u)
                      /\ \A m \in Mutexes : u \in Range(line'[m]) <=> u \in Range(line[m])
    OBVIOUS
  <2>1. \A m \in Mutexes : u \in Range(line'[m]) <=> u \in Range(line[m])
    BY <1>1
  <2>2. Section(u)' = Section(u)
    BY <1>2 DEF Section
  <2>3. doing[u] # "idle" => Section(u).held \subseteq Mutexes
    BY SectionsHeld DEF TypeOK, Section
  <2> QED BY <1>2, <2>1, <2>2, <2>3 DEF Held, Waits
<1>5. TypeOK'
  BY <1>1, <1>2, <1>3, <1>4 DEF TypeOK
<1>6. Queued' /\ Single'
  BY <1>1, <1>3, <1>4 DEF Queued, Single
<1> QED BY <1>5, <1>6

LEMMA StartsKeepsIInv ==
    ASSUME IInv, NEW t \in Tasks, NEW name \in DOMAIN Handlers, Starts(t, name) PROVE IInv'
<1> DEFINE taken == Handlers[name].sections[1].held
<1>1. ~Waits(t) /\ Held(t) = {}
  BY DEF IInv, TypeOK, Starts, Held
<1>2. /\ 1 \in 1..Len(Handlers[name].sections)
      /\ \A m \in taken : LastOf(m, Handlers[name].sections[1].held)
  <2>1. Len(Handlers[name].sections) \in Nat
    BY HandlersOrdered DEF Ordered
  <2> QED BY <2>1, HandlersOrdered DEF Ordered
<1>3. taken = Handlers[name].sections[1].held \ Held(t)
  BY <1>1
<1>4. rounds' \in [Tasks -> 0..MaxRounds]
  BY ServiceAssumption DEF IInv, TypeOK, Starts
<1>5. /\ Asked(t, taken)
      /\ doing' = [doing EXCEPT ![t] = name]
      /\ at' = [at EXCEPT ![t] = 1]
  BY DEF Starts
<1> HIDE DEF taken
<1> QED BY <1>1, <1>2, <1>3, <1>4, <1>5, AskedKeepsIInv

LEMMA GoesKeepsIInv ==
    ASSUME IInv, NEW t \in Tasks, doing[t] # "idle", ~Waits(t), NEW j, Goes(t, j) PROVE IInv'
<1> DEFINE name == doing[t]
           taken == Handlers[name].sections[j].held \ Section(t).held
<1>1. name \in DOMAIN Handlers /\ at[t] \in 1..Len(Handlers[name].sections)
  BY DEF IInv, TypeOK
<1>2. Held(t) = Section(t).held
  <2>1. Section(t).held \subseteq Mutexes
    BY <1>1, SectionsHeld DEF Section
  <2> QED BY <2>1 DEF Held, Waits
<1>3. /\ j \in 1..Len(Handlers[name].sections)
      /\ \A m \in taken : LastOf(m, Handlers[name].sections[j].held)
  BY <1>1, HandlersOrdered DEF Goes, Ordered, Section
<1>4. rounds' \in [Tasks -> 0..MaxRounds]
  <2>1. rounds \in [Tasks -> 0..MaxRounds] /\ MaxRounds \in Nat
    BY ServiceAssumption DEF IInv, TypeOK
  <2>2. CASE j > at[t]
    BY <2>1, <2>2 DEF Goes
  <2>3. CASE ~(j > at[t])
    <3>1. rounds[t] > 0 /\ rounds' = [rounds EXCEPT ![t] = @ - 1]
      BY <2>3 DEF Goes
    <3>2. rounds[t] - 1 \in 0..MaxRounds
      BY <2>1, <3>1
    <3> QED BY <2>1, <3>1, <3>2
  <2> QED BY <2>2, <2>3
<1>5. /\ Asked(t, taken)
      /\ doing' = [doing EXCEPT ![t] = name]
      /\ at' = [at EXCEPT ![t] = j]
  BY DEF Goes, IInv, TypeOK
<1>6. taken = Handlers[name].sections[j].held \ Held(t)
  BY <1>2
<1> HIDE DEF taken, name
<1> QED BY <1>1, <1>3, <1>4, <1>5, <1>6, AskedKeepsIInv

LEMMA EntersKeepsIInv == ASSUME IInv, NEW t \in Tasks, Enters(t) PROVE IInv'
<1> USE DEF IInv
<1>1. PICK m \in Mutexes :
          /\ line[m] # <<>>
          /\ t = Head(line[m])
          /\ \A u \in Tasks : m \notin Held(u)
          /\ line' = [line EXCEPT ![m] = Tail(@)]
          /\ UNCHANGED <<doing, at, rounds>>
  BY DEF Enters
<1>2. /\ line' \in [Mutexes -> Seq(Tasks)]
      /\ \A n \in Mutexes : IsInjective(line'[n])
      /\ Range(line'[m]) = Range(line[m]) \ {t}
      /\ \A n \in Mutexes \ {m} : Range(line'[n]) = Range(line[n])
  BY <1>1, TailLine DEF TypeOK
<1>3. \A u \in Tasks : /\ Section(u)' = Section(u)
                       /\ Waits(u)' => Waits(u)
  BY <1>1, <1>2 DEF Section, Waits
<1>4. \A u \in Tasks : \A n \in Mutexes :
          n \in Held(u)' => n \in Held(u) \/ (n = m /\ u = t)
  BY <1>1, <1>2, <1>3 DEF Held
<1>5. TypeOK'
  BY <1>1, <1>2, <1>3 DEF TypeOK
<1>6. Queued'
  BY <1>2, <1>3 DEF Queued
<1>7. Single'
  BY <1>1, <1>4 DEF Single
<1> QED BY <1>5, <1>6, <1>7

LEMMA NextKeepsIInv == IInv /\ [Next]_vars => IInv'
<1> SUFFICES ASSUME IInv, [Next]_vars PROVE IInv'
  OBVIOUS
<1>1. ASSUME NEW t \in Tasks, Arrives(t) PROVE IInv'
  BY <1>1, HandlerNames, StartsKeepsIInv DEF Arrives
<1>2. ASSUME NEW t \in Tasks, Ticks(t) PROVE IInv'
  BY <1>2, HandlerNames, StartsKeepsIInv DEF Ticks
<1>3. ASSUME NEW t \in Tasks, doing[t] # "idle", ~Waits(t), Moves(t) PROVE IInv'
  <2>1. CASE Ends(t)
    BY <2>1, DroppedKeepsIInv DEF Ends
  <2>2. ASSUME NEW j, Goes(t, j) PROVE IInv'
    BY <1>3, <2>2, GoesKeepsIInv
  <2> QED BY <1>3, <2>1, <2>2 DEF Moves
<1>4. ASSUME NEW t \in Tasks, Enters(t) PROVE IInv'
  BY <1>4, EntersKeepsIInv
<1>5. ASSUME NEW t \in Tasks, Fails(t) PROVE IInv'
  BY <1>5, DroppedKeepsIInv DEF Fails
<1>6. CASE UNCHANGED vars
  BY <1>6 DEF vars, IInv, TypeOK, Queued, Single, Section, Held, Waits
<1> QED BY <1>1, <1>2, <1>3, <1>4, <1>5, <1>6 DEF Next, Runs, Answered

LEMMA ServiceInductive == Spec => []IInv
<1>1. Init => IInv
  BY InitIInv
<1>2. IInv /\ [Next]_vars => IInv'
  BY NextKeepsIInv
<1> QED BY <1>1, <1>2, PTL DEF Spec

-----------------------------------------------------------------------------
(* Theorems. *)

\* Only a handler under way waits, and once in a line, however many requests are
\* under way and whenever they fail (a dropped guard or wait leaves nothing behind).
THEOREM ServiceTypeOK == Spec => []TypeOK
<1>1. IInv => TypeOK
  BY DEF IInv
<1> QED BY <1>1, ServiceInductive, PTL

\* No two tasks hold one mutex, however many requests are under way (tokio's Mutex,
\* as the handlers and the sync task use it).
THEOREM ServiceOneHolder == Spec => []OneHolder
<1>1. ASSUME Single PROVE OneHolder
  <2> SUFFICES ASSUME NEW m \in Mutexes
               PROVE  Cardinality({t \in Tasks : m \in Held(t)}) <= 1
    BY DEF OneHolder
  <2> DEFINE holders == {t \in Tasks : m \in Held(t)}
  <2>1. \A t, u \in holders : t = u
    BY <1>1 DEF Single
  <2> HIDE DEF holders
  <2>2. CASE holders = {}
    BY <2>2, FS_EmptySet DEF holders
  <2>3. ASSUME NEW t \in holders PROVE Cardinality(holders) <= 1
    <3>1. holders = {t}
      BY <2>1
    <3>2. Cardinality({t}) = 1
      BY FS_Singleton
    <3> QED BY <3>1, <3>2
  <2> QED BY <2>2, <2>3 DEF holders
<1>2. IInv => OneHolder
  BY <1>1 DEF IInv
<1> QED BY <1>2, ServiceInductive, PTL

\* Whoever waits for a mutex holds only mutexes that come before it, however many
\* requests are under way: the handlers and the sync task never wait in a circle.
THEOREM ServiceLockOrder == Spec => []LockOrder
<1>1. ASSUME IInv PROVE LockOrder
  <2> SUFFICES ASSUME NEW m \in Mutexes, NEW t \in Range(line[m]), NEW h \in Held(t)
               PROVE  Rank[h] < Rank[m]
    BY DEF LockOrder
  <2>1. t \in Tasks
    BY <1>1 DEF IInv, TypeOK, Range
  <2>2. LastOf(m, Section(t).held)
    BY <1>1, <2>1 DEF IInv, Queued
  <2>3. h \in Section(t).held /\ h # m
    BY DEF Held
  <2> QED BY <2>2, <2>3 DEF LastOf
<1>2. IInv => LockOrder
  BY <1>1
<1> QED BY <1>2, ServiceInductive, PTL

-----------------------------------------------------------------------------
(* The spends and the refresh. *)

\* A spend asks for the view first and then keeps it; the sync cycle asks for it
\* in its section 7 only, and keeps it from there on.
ViewAsked ==
    \A t \in Range(line["utxos"]) :
        /\ doing[t] \in {"Send", "Broadcast"} => at[t] = 1
        /\ doing[t] = "SyncCycle" => at[t] = 7

SyncSyncs == doing[SyncTask] \in {"idle", "SyncCycle"}

VInv == IInv /\ ViewAsked /\ SyncSyncs

LEMMA SpendsKeepView ==
    /\ \A i \in 1..Len(Send.sections) : "utxos" \in Send.sections[i].held
    /\ \A i \in 1..Len(Broadcast.sections) : "utxos" \in Broadcast.sections[i].held
<1>1. \A i \in 1..Len(Send.sections) : "utxos" \in Send.sections[i].held
  BY DEF Send, Generating, Submitting, Computes, Asks
<1>2. \A i \in 1..Len(Broadcast.sections) : "utxos" \in Broadcast.sections[i].held
  BY DEF Broadcast, Submitting, Computes, Asks
<1> QED BY <1>1, <1>2

LEMMA CycleKeepsView ==
    \A i \in 1..Len(SyncCycle.sections) :
        "utxos" \in SyncCycle.sections[i].held <=> i >= 7
BY DEF SyncCycle, Computes, Asks

LEMMA CycleEntersRefresh ==
    Len(SyncCycle.sections) \in Nat /\ \A i \in 1..Len(SyncCycle.sections) : \A j \in Successors(SyncCycle, i) :
        i < 7 /\ j >= 7 => j = 7
BY DEF SyncCycle, Successors, Computes, Asks

LEMMA NextKeepsVInv == VInv /\ [Next]_vars => VInv'
<1> SUFFICES ASSUME VInv, [Next]_vars PROVE VInv'
  OBVIOUS
<1> USE DEF VInv
<1>1. IInv'
  BY NextKeepsIInv
<1>2. TypeOK /\ "utxos" \in Mutexes
  BY DEF IInv, Mutexes
<1>3. ASSUME NEW t \in Tasks, NEW name \in DOMAIN Handlers, Starts(t, name),
             t = SyncTask => name = "SyncCycle"
      PROVE  ViewAsked' /\ SyncSyncs'
  <2> DEFINE taken == Handlers[name].sections[1].held
  <2>1. ~Waits(t) /\ Asked(t, taken)
    BY <1>2, <1>3 DEF TypeOK, Starts
  <2> HIDE DEF taken
  <2>2. \A u \in Range(line'["utxos"]) : u \in Range(line["utxos"]) \/ (u = t /\ "utxos" \in taken)
    <3>1. \A m \in Mutexes :
              Range(line'[m]) = IF ~(\A n \in taken : Free(n)) /\ m \in taken
                                THEN Range(line[m]) \cup {t} ELSE Range(line[m])
      BY <1>2, <2>1, AskedLine
    <3> QED BY <1>2, <3>1
  <2>3. t \notin Range(line["utxos"])
    BY <1>2, <2>1 DEF Waits
  <2>4. /\ doing'[t] = name /\ at'[t] = 1
        /\ \A u \in Tasks \ {t} : doing'[u] = doing[u] /\ at'[u] = at[u]
    BY <1>2, <1>3 DEF TypeOK, Starts
  <2>5. name = "SyncCycle" => "utxos" \notin taken
    <3>1. Handlers["SyncCycle"] = SyncCycle
      BY DEF Handlers
    <3>2. 1 \in 1..Len(SyncCycle.sections)
      BY DEF SyncCycle
    <3> QED BY <3>1, <3>2, CycleKeepsView DEF taken
  <2>6. Range(line["utxos"]) \subseteq Tasks
    BY <1>2 DEF TypeOK, Range
  <2>7. ViewAsked'
    BY <2>2, <2>3, <2>4, <2>5, <2>6 DEF ViewAsked
  <2>8. SyncSyncs'
    BY <1>3, <2>4 DEF SyncSyncs, Tasks
  <2> QED BY <2>7, <2>8
<1>4. ASSUME NEW t \in Tasks, doing[t] # "idle", ~Waits(t), NEW j, Goes(t, j)
      PROVE  ViewAsked' /\ SyncSyncs'
  <2> DEFINE taken == Handlers[doing[t]].sections[j].held \ Section(t).held
  <2>1. Asked(t, taken) /\ UNCHANGED doing
    BY <1>4 DEF Goes
  <2>2. /\ at[t] \in 1..Len(Handlers[doing[t]].sections)
        /\ j \in Successors(Handlers[doing[t]], at[t]) \ {0}
        /\ j \in 1..Len(Handlers[doing[t]].sections)
    <3>1. doing[t] \in DOMAIN Handlers /\ at[t] \in 1..Len(Handlers[doing[t]].sections)
      BY <1>2, <1>4 DEF TypeOK
    <3> QED BY <1>4, <3>1, HandlersOrdered DEF Goes, Ordered
  <2>3. doing[t] \in {"Send", "Broadcast"} => "utxos" \notin taken
    BY <2>2, SpendsKeepView DEF Handlers, Section
  <2>4. doing[t] = "SyncCycle" /\ "utxos" \in taken => j = 7
    <3>1. Handlers["SyncCycle"] = SyncCycle
      BY DEF Handlers
    <3>2. ASSUME doing[t] = "SyncCycle", "utxos" \in taken PROVE j = 7
      <4>1. /\ at[t] \in 1..Len(SyncCycle.sections) /\ j \in 1..Len(SyncCycle.sections)
            /\ j \in Successors(SyncCycle, at[t])
            /\ "utxos" \in SyncCycle.sections[j].held
            /\ "utxos" \notin SyncCycle.sections[at[t]].held
        BY <2>2, <3>1, <3>2 DEF Section
      <4>2. j >= 7 /\ ~(at[t] >= 7) /\ at[t] \in Nat
          BY <4>1, CycleKeepsView, CycleEntersRefresh
        <4> QED BY <4>1, <4>2, CycleEntersRefresh
    <3> QED BY <3>2
  <2> HIDE DEF taken
  <2>5. \A u \in Range(line'["utxos"]) : u \in Range(line["utxos"]) \/ (u = t /\ "utxos" \in taken)
    <3>1. \A m \in Mutexes :
              Range(line'[m]) = IF ~(\A n \in taken : Free(n)) /\ m \in taken
                                THEN Range(line[m]) \cup {t} ELSE Range(line[m])
      BY <1>2, <1>4, <2>1, AskedLine
    <3> QED BY <1>2, <3>1
  <2>6. t \notin Range(line["utxos"]) /\ Range(line["utxos"]) \subseteq Tasks
    BY <1>2, <1>4 DEF Waits, TypeOK, Range
  <2>7. at'[t] = j /\ \A u \in Tasks \ {t} : at'[u] = at[u]
    BY <1>2, <1>4 DEF TypeOK, Goes
  <2>8. ViewAsked'
    BY <2>1, <2>3, <2>4, <2>5, <2>6, <2>7 DEF ViewAsked
  <2> QED BY <2>1, <2>8 DEF SyncSyncs
<1>5. ASSUME NEW t \in Tasks, Dropped(t) PROVE ViewAsked' /\ SyncSyncs'
  <2>1. Range(line'["utxos"]) = Range(line["utxos"]) \ {t}
    BY <1>2, <1>5, WithoutLine DEF TypeOK, Dropped
  <2>2. Range(line["utxos"]) \subseteq Tasks
    BY <1>2 DEF TypeOK, Range
  <2>3. /\ doing'[t] = "idle"
        /\ \A u \in Tasks \ {t} : doing'[u] = doing[u] /\ at'[u] = at[u]
    BY <1>2, <1>5 DEF TypeOK, Dropped
  <2> QED BY <2>1, <2>2, <2>3 DEF ViewAsked, SyncSyncs, Tasks
<1>6. ASSUME NEW t \in Tasks, Enters(t) PROVE ViewAsked' /\ SyncSyncs'
  <2>1. PICK m \in Mutexes : line[m] # <<>> /\ line' = [line EXCEPT ![m] = Tail(@)]
    BY <1>6 DEF Enters
  <2>2. Range(line'["utxos"]) \subseteq Range(line["utxos"])
    BY <1>2, <2>1, TailLine DEF TypeOK
  <2>3. UNCHANGED <<doing, at>>
    BY <1>6 DEF Enters
  <2> QED BY <2>2, <2>3 DEF ViewAsked, SyncSyncs
<1>7. ASSUME UNCHANGED vars PROVE ViewAsked' /\ SyncSyncs'
  BY <1>7 DEF vars, ViewAsked, SyncSyncs
<1>8. ASSUME NEW t \in Tasks, Arrives(t) PROVE ViewAsked' /\ SyncSyncs'
  <2>1. PICK request \in Requests : Starts(t, request) /\ t # SyncTask
    BY <1>8, ServiceAssumption DEF Arrives
  <2> QED BY <1>3, <2>1, HandlerNames
<1>9. ASSUME NEW t \in Tasks, Ticks(t) PROVE ViewAsked' /\ SyncSyncs'
  BY <1>3, <1>9, HandlerNames DEF Ticks
<1>10. ASSUME NEW t \in Tasks, doing[t] # "idle", ~Waits(t), Moves(t) PROVE ViewAsked' /\ SyncSyncs'
  BY <1>4, <1>5, <1>10 DEF Moves, Ends
<1> QED BY <1>1, <1>5, <1>6, <1>7, <1>8, <1>9, <1>10 DEF Next, Runs, Answered, Fails

\* From the choice of the coins to the tracking of the last submission no refresh
\* is under way, however many requests are (send.rs: "if sync happens in the middle -
\* it doesn't interfere").
THEOREM ServiceRefreshWaits == Spec => []RefreshWaitsForSpends
<1>1. Init => VInv
  BY InitIInv DEF Init, VInv, ViewAsked, SyncSyncs, Tasks, Mutexes, Range
<1>2. VInv /\ [Next]_vars => VInv'
  BY NextKeepsVInv
<1>3. ASSUME VInv PROVE RefreshWaitsForSpends
  <2> SUFFICES ASSUME NEW t \in Slots, Spending(t), Refreshing PROVE FALSE
    BY DEF RefreshWaitsForSpends
  <2>1. TypeOK /\ t \in Tasks /\ SyncTask \in Tasks /\ t # SyncTask /\ "utxos" \in Mutexes
    BY <1>3, ServiceAssumption DEF VInv, IInv, Tasks, Mutexes
  <2>2. /\ doing[t] \in {"Send", "Broadcast"} /\ at[t] \in 1..Len(Handlers[doing[t]].sections)
        /\ "utxos" \in Section(t).held
    <3>1. doing[t] \in {"Send", "Broadcast"}
      BY DEF Spending
    <3>2. at[t] \in 1..Len(Handlers[doing[t]].sections)
      BY <2>1, <3>1 DEF TypeOK
    <3> QED BY <3>1, <3>2, SpendsKeepView DEF Section, Handlers
  <2>3. t \notin Range(line["utxos"])
    BY <1>3, <2>1, <2>2 DEF VInv, ViewAsked, Spending, Waits
  <2>4. "utxos" \in Held(t)
    BY <2>1, <2>2, <2>3 DEF Held
  <2>5. doing[SyncTask] = "SyncCycle" /\ at[SyncTask] \in 1..Len(SyncCycle.sections)
        /\ at[SyncTask] >= 7
    <3>1. at[SyncTask] >= 7
      BY DEF Refreshing
    <3>2. doing[SyncTask] # "idle"
      BY <2>1, <3>1 DEF TypeOK
    <3>3. doing[SyncTask] = "SyncCycle"
      BY <1>3, <3>2 DEF VInv, SyncSyncs
    <3>4. Handlers["SyncCycle"] = SyncCycle
      BY DEF Handlers
    <3> QED BY <2>1, <3>1, <3>2, <3>3, <3>4 DEF TypeOK
  <2>6. "utxos" \in Section(SyncTask).held
    BY <2>5, CycleKeepsView DEF Section, Handlers
  <2>7. SyncTask \notin Range(line["utxos"])
    BY <1>3, <2>1, <2>5 DEF VInv, ViewAsked, Refreshing, Waits
  <2>8. "utxos" \in Held(SyncTask)
    BY <2>1, <2>5, <2>6, <2>7 DEF Held
  <2> QED BY <1>3, <2>1, <2>4, <2>8 DEF VInv, IInv, Single
<1> QED BY <1>1, <1>2, <1>3, PTL DEF Spec
=============================================================================
