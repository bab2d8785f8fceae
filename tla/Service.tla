------------------------------ MODULE Service ------------------------------
(***************************************************************************)
(* The mutexes of the daemon, and the order in which the request handlers  *)
(* (service/) and the sync task take them.                                 *)
(*                                                                         *)
(* A handler is the list of the sections it runs through: in each it holds *)
(* some mutexes and computes, or also waits for answers of the node.       *)
(* Neighbouring sections differ by the guard taken, or the guards dropped, *)
(* in between; jumps are its loops and early ends.  GetVersion and Sign    *)
(* take no mutex and ask no node; they are left out.  The mutexes are      *)
(* tokio's: whoever asks first gets the mutex first, and a request whose   *)
(* client goes away is dropped wherever it stands, its guards and its      *)
(* place in the line with it.                                              *)
(***************************************************************************)
EXTENDS Naturals, Sequences, FiniteSets, SequencesExt

CONSTANTS
    Slots,      \* requests that may be under way at once
    SyncTask,   \* the task SyncManager::start spawns
    Requests,   \* the requests clients make
    MaxRounds   \* bound on the jumps back of one request, or of one sync cycle

ASSUME ServiceAssumption ==
    /\ SyncTask \notin Slots
    /\ Requests \subseteq {"GetAddresses", "NewAddress", "GetBalance", "GetUtxos",
                            "CreateUnsignedTransactions", "Send", "Broadcast"}
    /\ MaxRounds \in Nat

VARIABLES
    doing,   \* the handler a task runs, or "idle"
    at,      \* the section it is in, or waits to enter
    rounds,  \* jumps back it may still make
    line     \* for each mutex, the tasks that wait for it

vars == <<doing, at, rounds, line>>

Tasks == Slots \cup {SyncTask}

\* The mutexes, in the order in which they may be nested.  AddressManager's two
\* inner mutexes are only reached under its own, so nobody ever waits for them.
Mutexes == {"utxos", "generator", "submit", "addresses"}
Rank == [utxos |-> 1, generator |-> 2, submit |-> 3, addresses |-> 4]

-----------------------------------------------------------------------------
(* The handlers. *)

Computes(held) == [held |-> held, asks |-> FALSE]
Asks(held) == [held |-> held, asks |-> TRUE]

\* check_is_synced, then the addresses.
GetAddresses == [sections |-> <<Computes({"addresses"})>>, jumps |-> {}]
NewAddress == [sections |-> <<Computes({"addresses"})>>, jumps |-> {}]

\* check_is_synced and the DAA score, the coins, the addresses of the coins.
GetBalance ==
    [sections |-> <<Asks({}), Computes({"utxos"}), Computes({}), Computes({"addresses"})>>,
     jumps |-> {}]

\* The address set, the fee rate and the DAA score, the coins (1 to 3).  Then for
\* each coin (4): is it pending (5), is it dust (7 to 9), what is its address (11)?
GetUtxos ==
    [sections |-> <<Computes({"addresses"}), Asks({}), Computes({"utxos"}),
                    Computes({}), Computes({"utxos"}), Computes({}),
                    Computes({"generator"}), Computes({"generator", "addresses"}),
                    Computes({"generator"}), Computes({}), Computes({"addresses"})>>,
     jumps |-> {<<4, 0>>, <<6, 4>>, <<10, 4>>, <<11, 4>>}]

\* create_unsigned_transactions_from_description: the address set, the fee
\* limits, the change address, the DAA score, and then one look at the addresses
\* for each transaction that is estimated or made; a merge that needs more coins
\* asks for the DAA score again.
Generating ==
    LET generator == {"utxos", "generator"}
        derives == {"utxos", "generator", "addresses"}
    IN  <<Computes(generator), Computes(derives), Asks(generator),
          Computes(derives), Asks(generator), Computes(derives), Computes(generator)>>

\* submit_transactions: for each transaction the checks, the submission, and a
\* look at the addresses for each of its outputs.
Submitting ==
    LET submit == {"utxos", "submit"}
    IN  <<Computes(submit), Asks(submit), Computes(submit \cup {"addresses"}),
          Computes(submit)>>

CreateUnsignedTransactions ==
    [sections |-> <<Computes({"utxos"})>> \o Generating,
     jumps |-> {<<8, 7>>, <<8, 6>>}]

\* Mutant: the view is released before the transactions are submitted, and
\* locked again to track each.
SendReleasesView ==
    [sections |-> <<Computes({"utxos"})>> \o Generating
                  \o <<Computes({}), Computes({"submit"}), Asks({"submit"}),
                       Computes({"utxos", "submit"}), Computes({"submit"})>>,
     jumps |-> {<<8, 7>>, <<8, 6>>, <<10, 0>>, <<13, 10>>}]

\* (9 signs.)
Send ==
    [sections |-> <<Computes({"utxos"})>> \o Generating
                  \o <<Computes({"utxos"})>> \o Submitting,
     jumps |-> {<<8, 7>>, <<8, 6>>, <<10, 0>>, <<13, 12>>, <<13, 10>>}]

Broadcast ==
    [sections |-> <<Computes({"utxos"})>> \o Submitting,
     jumps |-> {<<2, 0>>, <<5, 4>>, <<5, 2>>}]

\* One cycle of sync_loop: collect_addresses for each window (1 to 3), the
\* addresses to refresh (5), and refresh_utxos under the view's mutex (7 to 9).
\* Mutants: the scan keeps the address manager while the node looks up the
\* balances; the refresh asks for the view with the addresses still locked.
ScanKeepsAddresses ==
    [sections |-> <<Computes({"addresses"}), Asks({"addresses"}), Computes({"addresses"}),
                    Computes({}), Computes({"addresses"}), Computes({}),
                    Asks({"utxos"}), Computes({"utxos", "addresses"}), Computes({"utxos"})>>,
     jumps |-> {<<4, 1>>, <<9, 8>>}]

RefreshKeepsAddresses ==
    [sections |-> <<Computes({"addresses"}), Asks({}), Computes({"addresses"}),
                    Computes({}), Computes({"addresses"}), Computes({"addresses"}),
                    Asks({"utxos", "addresses"}), Computes({"utxos", "addresses"}),
                    Computes({"utxos"})>>,
     jumps |-> {<<4, 1>>, <<9, 8>>}]

SyncCycle ==
    [sections |-> <<Computes({"addresses"}), Asks({}), Computes({"addresses"}),
                    Computes({}), Computes({"addresses"}), Computes({}),
                    Asks({"utxos"}), Computes({"utxos", "addresses"}), Computes({"utxos"})>>,
     jumps |-> {<<4, 1>>, <<9, 8>>}]

Handlers ==
    [GetAddresses |-> GetAddresses, NewAddress |-> NewAddress, GetBalance |-> GetBalance,
     GetUtxos |-> GetUtxos, CreateUnsignedTransactions |-> CreateUnsignedTransactions,
     Send |-> Send, Broadcast |-> Broadcast, SyncCycle |-> SyncCycle]

-----------------------------------------------------------------------------
(* The tasks. *)

Section(t) == Handlers[doing[t]].sections[at[t]]

Waits(t) == \E m \in Mutexes : t \in Range(line[m])

\* The guards a task holds: those of its section, but for the one it waits for.
Held(t) ==
    IF doing[t] = "idle" THEN {}
    ELSE {m \in Section(t).held : t \notin Range(line[m])}

\* A mutex is free for a newcomer when nobody holds it or waits for it.
\* Mutant: only the line counts.
NoLine(m) == line[m] = <<>>
Free(m) == line[m] = <<>> /\ \A t \in Tasks : m \notin Held(t)

\* Where a handler may go from section i; 0 is its end.
Successors(handler, i) ==
    {IF i < Len(handler.sections) THEN i + 1 ELSE 0}
        \cup {j \in 0..Len(handler.sections) : <<i, j>> \in handler.jumps}

Init ==
    /\ doing = [t \in Tasks |-> "idle"]
    /\ at = [t \in Tasks |-> 0]
    /\ rounds = [t \in Tasks |-> 0]
    /\ line = [m \in Mutexes |-> <<>>]

\* A guard asked for: whoever does not get it at once goes to the end of the line.
\* Mutant: to its front.
JumpsTheLine(t, taken) ==
    IF \A m \in taken : Free(m) THEN UNCHANGED line
    ELSE line' = [m \in Mutexes |-> IF m \in taken THEN <<t>> \o line[m] ELSE line[m]]

Asked(t, taken) ==
    IF \A m \in taken : Free(m) THEN UNCHANGED line
    ELSE line' = [m \in Mutexes |-> IF m \in taken THEN Append(line[m], t) ELSE line[m]]

\* A request arrives, or the sync interval is over.
Starts(t, handler) ==
    /\ doing[t] = "idle"
    /\ doing' = [doing EXCEPT ![t] = handler]
    /\ at' = [at EXCEPT ![t] = 1]
    /\ rounds' = [rounds EXCEPT ![t] = MaxRounds]
    /\ Asked(t, Handlers[handler].sections[1].held)

Arrives(t) == t \in Slots /\ \E request \in Requests : Starts(t, request)
Ticks(t) == t = SyncTask /\ Starts(t, "SyncCycle")

\* On to section j: guards are dropped, or one is asked for.
Goes(t, j) ==
    /\ j \in Successors(Handlers[doing[t]], at[t]) \ {0}
    /\ IF j > at[t] THEN UNCHANGED rounds
       ELSE rounds[t] > 0 /\ rounds' = [rounds EXCEPT ![t] = @ - 1]
    /\ at' = [at EXCEPT ![t] = j]
    /\ Asked(t, Handlers[doing[t]].sections[j].held \ Section(t).held)
    /\ UNCHANGED doing

\* A line once a task has left it.
Without(tasks, t) ==
    IF t \in Range(tasks) THEN RemoveAt(tasks, CHOOSE i \in DOMAIN tasks : tasks[i] = t)
    ELSE tasks

\* The end of a task: all its guards are dropped, and its place in a line.
\* Mutant: not its place.
LeavesItsPlace(t) ==
    /\ doing' = [doing EXCEPT ![t] = "idle"]
    /\ at' = [at EXCEPT ![t] = 0]
    /\ rounds' = [rounds EXCEPT ![t] = 0]
    /\ UNCHANGED line

Dropped(t) ==
    /\ doing' = [doing EXCEPT ![t] = "idle"]
    /\ at' = [at EXCEPT ![t] = 0]
    /\ rounds' = [rounds EXCEPT ![t] = 0]
    /\ line' = [m \in Mutexes |-> Without(line[m], t)]

Ends(t) ==
    /\ 0 \in Successors(Handlers[doing[t]], at[t])
    /\ Dropped(t)

\* One step of a task's own, and one the node's answer allows.
Moves(t) == Ends(t) \/ \E j \in Successors(Handlers[doing[t]], at[t]) : Goes(t, j)

Runs(t) == doing[t] # "idle" /\ ~Waits(t) /\ ~Section(t).asks /\ Moves(t)
Answered(t) == doing[t] # "idle" /\ ~Waits(t) /\ Section(t).asks /\ Moves(t)

\* The first in the line gets the mutex once it has been dropped.
Enters(t) ==
    \E m \in Mutexes :
        /\ line[m] # <<>>
        /\ t = Head(line[m])
        /\ \A u \in Tasks : m \notin Held(u)
        /\ line' = [line EXCEPT ![m] = Tail(@)]
        /\ UNCHANGED <<doing, at, rounds>>

\* A check or a call fails, a handler panics, or the client goes away.  (A
\* failure of the sync task ends the process: see WalletDaemon.)
Fails(t) == t \in Slots /\ doing[t] # "idle" /\ Dropped(t)

Next ==
    \E t \in Tasks :
        Arrives(t) \/ Ticks(t) \/ Runs(t) \/ Answered(t) \/ Enters(t) \/ Fails(t)

\* The runtime polls every task that is ready, and the sync interval elapses.
\* Nothing is assumed of the node, or of the clients.
Spec ==
    /\ Init /\ [][Next]_vars
    /\ \A t \in Tasks : WF_vars(Ticks(t) \/ Runs(t) \/ Enters(t))

\* A node that answers every call in the end.
NodeAnswers == \A t \in Tasks : WF_vars(Answered(t))

-----------------------------------------------------------------------------
(* Properties. *)

\* Only a handler under way waits, and once in a line: one that ends leaves no
\* guard and no place behind.
TypeOK ==
    /\ doing \in [Tasks -> DOMAIN Handlers \cup {"idle"}]
    /\ at \in [Tasks -> Nat]
    /\ rounds \in [Tasks -> 0..MaxRounds]
    /\ line \in [Mutexes -> Seq(Tasks)]
    /\ \A m \in Mutexes : IsInjective(line[m])
    /\ \A t \in Tasks :
           IF doing[t] = "idle" THEN at[t] = 0 /\ ~Waits(t)
           ELSE at[t] \in 1..Len(Handlers[doing[t]].sections)

\* No two tasks hold one mutex, whoever is dropped while it waits or while it
\* holds others (tokio's mutexes; the hand-over to the first in the line).
OneHolder ==
    \A m \in Mutexes : Cardinality({t \in Tasks : m \in Held(t)}) <= 1

\* Whoever waits for a mutex holds only mutexes that come before it: however the
\* handlers and the sync task interleave, no circle of tasks waits for itself.
LockOrder ==
    \A m \in Mutexes : \A t \in Range(line[m]) : \A h \in Held(t) : Rank[h] < Rank[m]

\* send.rs: "lock utxo_manager at this point, so that if sync happens in the
\* middle - it doesn't interfere"; sync_manager.rs: "so that nobody tries to
\* generate transactions while we update the utxo set".  From the choice of the
\* coins to the tracking of the last submission no refresh is under way.
Spending(t) == doing[t] \in {"Send", "Broadcast"} /\ ~(at[t] = 1 /\ Waits(t))
Refreshing == at[SyncTask] >= 7 /\ ~(at[SyncTask] = 7 /\ Waits(SyncTask))

RefreshWaitsForSpends == \A t \in Slots : ~(Spending(t) /\ Refreshing)

\* NewAddress and GetAddresses end even if the node never answers anybody again:
\* nobody keeps the address manager while it waits for the node.
AddressesNeedNoNode ==
    \A t \in Slots :
        doing[t] \in {"NewAddress", "GetAddresses"} ~> doing[t] = "idle"

\* With a node that answers, every request ends, whatever others arrive
\* meanwhile; and the sync task completes cycle after cycle.
EveryRequestEnds == NodeAnswers => \A t \in Slots : doing[t] # "idle" ~> doing[t] = "idle"
SyncGoesOn == NodeAnswers => []<>(doing[SyncTask] = "idle")
=============================================================================
