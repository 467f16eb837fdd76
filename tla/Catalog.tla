------------------------------ MODULE Catalog -------------------------------
(***************************************************************************)
(* The catalogue of models: ModelsDevCatalog of                            *)
(* packages/llm/src/models-dev.ts, which caches it in memory and in a file *)
(* that several processes share, and its consumers in                      *)
(* packages/llm/src/provider.ts.                                           *)
(*                                                                         *)
(* A snapshot is the time at which it was fetched, and is fresh until the  *)
(* clock, which counts in lifetimes of a snapshot, moves on.  A call runs  *)
(* without interruption by its own process up to the fetch, and again      *)
(* after it; saving a snapshot writes a file of its own and renames it     *)
(* onto the cache, and another process may look in between.                *)
(***************************************************************************)
EXTENDS Integers, FiniteSets

CONSTANTS CatProcesses,
          CatCalls,
          MaxTime,          \* bound on the clock
          CatalogModels,    \* the models in the catalogue
          WellKnownModels,  \* WELL_KNOWN_MODELS
          ConfiguredModels, \* the models of the providers in the configuration
          DisabledModels    \* of these, those with disabled: true

ASSUME CatalogAssumption ==
    CatProcesses # {} /\ MaxTime \in Nat \ {0} /\ DisabledModels \subseteq ConfiguredModels

VARIABLES
    clock,
    memory,     \* process -> this.cached
    disk,       \* the cache file
    lookup,     \* the calls of getCatalog() and refresh()
    remembered  \* history: some call has read or saved a snapshot since the last removal

catVars == <<clock, memory, disk, lookup, remembered>>

Missing == -1
Corrupt == -2
Snapshot == 0 .. MaxTime
Pending == {"fetching", "saving"}

\* `late`: its caller has stopped waiting.  `known`: a snapshot was remembered when the call
\* began, and none was removed since.
Lookup == [pc : Pending \cup {"new", "done"}, by : CatProcesses, kind : {"waits", "bounded"},
           disk : Snapshot \cup {Missing}, answer : Snapshot \cup {Missing},
           late : BOOLEAN, known : BOOLEAN]

CatTypeInvariant ==
    /\ clock \in Snapshot /\ disk \in Snapshot \cup {Missing, Corrupt}
    /\ memory \in [CatProcesses -> Snapshot \cup {Missing}]
    /\ lookup \in [CatCalls -> Lookup]
    /\ remembered \in BOOLEAN

NewLookup == [pc |-> "new", by |-> CHOOSE p \in CatProcesses : TRUE, kind |-> "waits",
              disk |-> Missing, answer |-> Missing, late |-> FALSE, known |-> FALSE]

CatIdle(left) ==
    /\ clock = 1
    /\ memory = [p \in CatProcesses |-> Missing]
    /\ disk \in left
    /\ lookup = [c \in CatCalls |-> NewLookup]
    /\ remembered = FALSE

\* An earlier process may have left a snapshot, an old one, or half a file.
CatInit == CatIdle({Missing, Corrupt, 0, 1})

Fresh(s) == s = clock
Idles(p) == \A c \in CatCalls : lookup[c].by = p => lookup[c].pc # "saving"

Forgotten(ls) == [c \in CatCalls |-> [ls[c] EXCEPT !.known = @ /\ ls[c].pc = "done"]]

-----------------------------------------------------------------------------
\* getCatalog() up to the fetch: memory, then the file, of which a corrupt one is deleted.
Looks(c, call) ==
    LET p == call.by
        read == IF disk = Corrupt THEN Missing ELSE disk
        Ends(s) == [lookup EXCEPT ![c] = [call EXCEPT !.pc = "done", !.answer = s]] IN
    \/ /\ Fresh(memory[p])
       /\ lookup' = Ends(memory[p])
       /\ UNCHANGED <<memory, disk, remembered>>
    \/ /\ ~Fresh(memory[p])
       /\ disk' = read
       /\ remembered' = (remembered \/ read # Missing)
       /\ IF Fresh(read)
          THEN lookup' = Ends(read) /\ memory' = [memory EXCEPT ![p] = read]
          ELSE /\ lookup' = [lookup EXCEPT ![c] = [call EXCEPT !.pc = "fetching", !.disk = read]]
               /\ UNCHANGED memory

CatGet(c, p, kind) ==
    /\ lookup[c].pc = "new" /\ Idles(p)
    /\ Looks(c, [lookup[c] EXCEPT !.by = p, !.kind = kind, !.known = remembered])
    /\ UNCHANGED clock

\* refresh() drops what is cached before it looks; clear() only drops it.
CatRefresh(c, p) ==
    /\ lookup[c].pc = "new" /\ Idles(p)
    /\ lookup' = [Forgotten(lookup) EXCEPT ![c].pc = "fetching", ![c].by = p]
    /\ memory' = [memory EXCEPT ![p] = Missing]
    /\ disk' = Missing /\ remembered' = FALSE
    /\ UNCHANGED clock

CatClear(p) ==
    /\ Idles(p)
    /\ memory' = [memory EXCEPT ![p] = Missing]
    /\ disk' = Missing /\ remembered' = FALSE
    /\ lookup' = Forgotten(lookup)
    /\ UNCHANGED clock

\* Mutant of Meanwhile: the cache file itself is written.
MeanwhileTorn == Corrupt

\* What another process finds while a snapshot is being written.
Meanwhile == disk

CatFetched(c) ==
    /\ lookup[c].pc = "fetching" /\ Idles(lookup[c].by)
    /\ memory' = [memory EXCEPT ![lookup[c].by] = clock]
    /\ lookup' = [lookup EXCEPT ![c].pc = "saving", ![c].answer = clock]
    /\ disk' = Meanwhile
    /\ UNCHANGED <<clock, remembered>>

CatSaves(c) ==
    /\ lookup[c].pc = "saving"
    /\ \/ disk' = lookup[c].answer /\ remembered' = TRUE
       \/ UNCHANGED <<disk, remembered>>        \* the directory is gone, or the disk is full
    /\ lookup' = [lookup EXCEPT ![c].pc = "done"]
    /\ UNCHANGED <<clock, memory>>

\* Offline, slow or invalid: the stale copy that the call found on disk, if it found one.
CatFetchFails(c) ==
    LET p == lookup[c].by
        stale == lookup[c].disk IN
    /\ lookup[c].pc = "fetching" /\ Idles(p)
    /\ memory' = [memory EXCEPT ![p] = IF stale = Missing THEN @ ELSE stale]
    /\ lookup' = [lookup EXCEPT ![c].pc = "done", ![c].answer = stale]
    /\ UNCHANGED <<clock, disk, remembered>>

\* costFor() and contextBudgetFor() wait 750 ms and do without; the fetch goes on.
CatTimesOut(c) ==
    /\ lookup[c].pc = "fetching" /\ lookup[c].kind = "bounded" /\ ~lookup[c].late
    /\ lookup' = [lookup EXCEPT ![c].late = TRUE]
    /\ UNCHANGED <<clock, memory, disk, remembered>>

\* A process that ends takes its memory and its calls along.
CatExits(p) ==
    /\ \E c \in CatCalls : lookup[c].by = p /\ lookup[c].pc \in Pending
    /\ memory' = [memory EXCEPT ![p] = Missing]
    /\ lookup' = [c \in CatCalls |->
                     IF lookup[c].by = p /\ lookup[c].pc \in Pending
                     THEN [lookup[c] EXCEPT !.pc = "done", !.answer = Missing, !.known = FALSE]
                     ELSE lookup[c]]
    /\ UNCHANGED <<clock, disk, remembered>>

CatTick ==
    /\ clock < MaxTime
    /\ clock' = clock + 1
    /\ UNCHANGED <<memory, disk, lookup, remembered>>

CatNext ==
    \/ \E c \in CatCalls, p \in CatProcesses, k \in {"waits", "bounded"} : CatGet(c, p, k)
    \/ \E c \in CatCalls, p \in CatProcesses : CatRefresh(c, p)
    \/ \E c \in CatCalls : CatFetched(c) \/ CatSaves(c) \/ CatFetchFails(c) \/ CatTimesOut(c)
    \/ \E p \in CatProcesses : CatClear(p) \/ CatExits(p)
    \/ CatTick

CatSpec == CatInit /\ [][CatNext]_catVars

-----------------------------------------------------------------------------
\* listModels(): the catalogue, or the well-known models without one; then the configured
\* models that are not disabled.
Listed(c) ==
    (IF lookup[c].answer = Missing THEN WellKnownModels ELSE CatalogModels)
        \cup (ConfiguredModels \ DisabledModels)

\* Once a process has read or saved a snapshot, no call of any process that begins later is
\* left without one, however the fetches fail, until the cache is refreshed or cleared.
CatalogIsRemembered ==
    \A c \in CatCalls :
        lookup[c].pc = "done" /\ lookup[c].known => lookup[c].answer # Missing

\* Known not to hold: a call whose fetch fails answers with what it found on disk before,
\* not with what another call of its process has fetched since.
FallsBackOnWhatIsThere ==
    [][\A c \in CatCalls : CatFetchFails(c) /\ memory[lookup[c].by] # Missing
                               => lookup'[c].answer # Missing]_catVars

\* Known not to hold: "Disable this specific model." (packages/llm/src/client.ts:100).
DisabledIsUnlisted ==
    \A c \in CatCalls : lookup[c].pc = "done" => Listed(c) \cap DisabledModels = {}
=============================================================================
