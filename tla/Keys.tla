-------------------------------- MODULE Keys --------------------------------
(***************************************************************************)
(* The keys file (common/src/keys.rs), reduced to what changes in it: the  *)
(* last used index of each keychain.  The counters in memory are atomics,  *)
(* the file is rewritten in place: truncated first, then written.          *)
(***************************************************************************)
EXTENDS Naturals

CONSTANT MaxIndex    \* bound on the indexes of one behaviour

ASSUME MaxIndexAssumption == MaxIndex \in Nat

Keychains == {"external", "internal"}

VARIABLES
    lastUsed,    \* last_used_external_index and last_used_internal_index
    persisted,   \* the indexes the file holds when it is whole
    intact       \* is the file whole?

keysVars == <<lastUsed, persisted, intact>>
fileVars == <<persisted, intact>>

Indexes == [Keychains -> 0..MaxIndex]

KeysTypeOK ==
    /\ lastUsed \in Indexes
    /\ persisted \in Indexes
    /\ intact \in BOOLEAN

\* last_used_index: the larger of the two counters, here as the bound it is used for.
AboveLastUsed(n) == \A k \in Keychains : lastUsed[k] < n

\* fetch_add(1) on a counter.
FetchAdd(k) ==
    /\ lastUsed[k] < MaxIndex
    /\ lastUsed' = [lastUsed EXCEPT ![k] = @ + 1]

\* save: File::create empties the file, write_all fills it with the counters
\* as they were read when save began; the caller holds the mutex that guards
\* them, so they have not changed since.
Truncate ==
    /\ intact' = FALSE
    /\ UNCHANGED <<lastUsed, persisted>>

WriteAll ==
    /\ persisted' = lastUsed
    /\ intact' = TRUE
    /\ UNCHANGED lastUsed

\* Mutant: the counters start over at zero.
LoadForgets ==
    /\ intact
    /\ lastUsed' = [k \in Keychains |-> 0]
    /\ UNCHANGED fileVars

\* load: an empty or half-written file does not parse.
Load ==
    /\ intact
    /\ lastUsed' = persisted
    /\ UNCHANGED fileVars
=============================================================================
