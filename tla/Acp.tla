-------------------------------- MODULE Acp ---------------------------------
(***************************************************************************)
(* The ACP agent of packages/acp/src/butterfly-acp-agent.ts: a bounded map *)
(* of sessions, each with an abort controller that cancel() fires and      *)
(* replaces, under prompts that run concurrently and suspend before they   *)
(* look at the signal.                                                     *)
(*                                                                         *)
(* An entry of the map is an object, and lives as long as the map or a     *)
(* prompt holds it: loadSession() puts a new one in its place, and a       *)
(* prompt puts its own back when it ends.  A transcript is the set of the  *)
(* prompts whose turns it has.  Modes are left out: setSessionMode() is    *)
(* the save of the entry's session that it makes.                          *)
(***************************************************************************)
EXTENDS Integers, FiniteSets

CONSTANTS AcpSessions,
          AcpPrompts,
          MAX_SESSIONS

ASSUME AcpAssumption ==
    /\ IsFiniteSet(AcpSessions) /\ IsFiniteSet(AcpPrompts)
    /\ MAX_SESSIONS \in Nat

VARIABLES
    sessions,   \* the map: session -> entry, 0 if it has none
    entry,      \* entry -> the transcript of its session object, whether its current
                \* controller has fired, and (history) whether it has been evicted
    prompt,     \* the prompts
    stored,     \* session -> its transcript in the store
    known,      \* the sessions in the store
    disturbed   \* history: the sessions that had a failed prompt, a prompt that found no
                \* entry, or two prompts, or a prompt and a change of mode, at once

acpVars == <<sessions, entry, prompt, stored, known, disturbed>>

Entries == 1 .. Cardinality(AcpSessions) + Cardinality(AcpPrompts) + 1
NoEntry == 0
Transcripts == SUBSET AcpPrompts
Live == {"creating", "created", "preparing", "running", "saving"}

Entry == [turns : Transcripts, fired : BOOLEAN, evicted : BOOLEAN]
Prompt == [pc : Live \cup {"new", "done"}, of : AcpSessions, entry : {NoEntry} \cup Entries,
           turns : Transcripts, aborted : BOOLEAN]

AcpTypeInvariant ==
    /\ sessions \in [AcpSessions -> {NoEntry} \cup Entries]
    /\ entry \in [Entries -> Entry]
    /\ prompt \in [AcpPrompts -> Prompt]
    /\ stored \in [AcpSessions -> Transcripts] /\ known \in SUBSET AcpSessions
    /\ disturbed \in SUBSET AcpSessions

Blank == [turns |-> {}, fired |-> FALSE, evicted |-> FALSE]

AcpIdle(pc, ss) ==
    /\ sessions = [s \in AcpSessions |-> NoEntry]
    /\ entry = [e \in Entries |-> Blank]
    /\ prompt \in [AcpPrompts -> [pc : {pc}, of : ss, entry : {NoEntry}, turns : {{}},
                                  aborted : {FALSE}]]
    /\ stored = [s \in AcpSessions |-> {}] /\ known = {} /\ disturbed = {}

AcpInit == AcpIdle("new", AcpSessions)

\* What the map and the prompts still hold stays as it is; the rest is blank again.
Held(map, ps) == {map[s] : s \in AcpSessions} \cup {ps[p].entry : p \in AcpPrompts}
FreeEntry == CHOOSE e \in Entries : e \notin Held(sessions, prompt)

Becomes(map, es, ps) ==
    /\ sessions' = map
    /\ prompt' = ps
    /\ entry' = [e \in Entries |-> IF e \in Held(map, ps) THEN es[e] ELSE Blank]

Mapped(map) == {s \in AcpSessions : map[s] # NoEntry}
Busy(s) == {s} \cap {prompt[p].of : p \in {q \in AcpPrompts : prompt[q].pc \in Live}}
Aborting(ps, e) == [p \in AcpPrompts |-> IF ps[p].pc = "running" /\ ps[p].entry = e
                                         THEN [ps[p] EXCEPT !.aborted = TRUE] ELSE ps[p]]

\* Mutant of Evicting: the victim's runs go on.
EvictedSilently(es, ps, e) == [es |-> [es EXCEPT ![e].evicted = TRUE], ps |-> ps]

\* evictOldest() fires the current controller of the entry that it takes out of the map.
Evicted(es, ps, e) == [es |-> [es EXCEPT ![e].evicted = TRUE, ![e].fired = TRUE],
                       ps |-> Aborting(ps, e)]
Evicting(map, es, ps, e) ==
    LET after == Evicted(es, ps, e) IN Becomes(map, after.es, after.ps)

\* It does so only when the map has grown too large.  The oldest update may be that of any
\* session, of one just loaded too.
Adding(s, e, turns) ==
    LET map == [sessions EXCEPT ![s] = e]
        es == [entry EXCEPT ![e].turns = turns] IN
    IF Cardinality(Mapped(map)) <= MAX_SESSIONS
    THEN Becomes(map, es, prompt)
    ELSE \E t \in Mapped(map) : Evicting([map EXCEPT ![t] = NoEntry], es, prompt, map[t])

-----------------------------------------------------------------------------
\* newSession() creates and stores a session.
AcpNewSession(s) ==
    /\ s \notin known
    /\ known' = known \cup {s}
    /\ Adding(s, FreeEntry, {})
    /\ UNCHANGED <<stored, disturbed>>

\* loadSession() reads the stored session, and replaces the entry if there is one.
AcpLoadSession(s) ==
    /\ s \in known
    /\ Adding(s, FreeEntry, stored[s])
    /\ UNCHANGED <<stored, known, disturbed>>

\* setSessionMode() saves the session object of the entry.
AcpSetMode(s) ==
    /\ sessions[s] # NoEntry
    /\ stored' = [stored EXCEPT ![s] = entry[sessions[s]].turns]
    /\ disturbed' = disturbed \cup Busy(s)
    /\ UNCHANGED <<sessions, entry, prompt, known>>

\* cancel() fires the controller of the entry and puts a fresh one in its place: a prompt
\* that has not read the signal yet is not cancelled.
AcpCancel(s) ==
    /\ sessions[s] # NoEntry
    /\ Becomes(sessions, [entry EXCEPT ![sessions[s]].fired = FALSE],
               Aborting(prompt, sessions[s]))
    /\ UNCHANGED <<stored, known, disturbed>>

-----------------------------------------------------------------------------
\* prompt() takes the session's entry, if the map has one.
AcpPrompt(p) ==
    LET e == sessions[prompt[p].of] IN
    /\ prompt[p].pc = "new"
    /\ prompt' = [prompt EXCEPT ![p].pc = IF e = NoEntry THEN "creating" ELSE "preparing",
                                ![p].entry = e]
    /\ disturbed' = disturbed \cup Busy(prompt[p].of)
    /\ UNCHANGED <<sessions, entry, stored, known>>

\* If not, SessionManager.create() saves an empty session, over one that is stored.
AcpCreate(p) ==
    /\ prompt[p].pc = "creating"
    /\ stored' = [stored EXCEPT ![prompt[p].of] = {}]
    /\ known' = known \cup {prompt[p].of}
    /\ disturbed' = disturbed \cup {prompt[p].of}
    /\ prompt' = [prompt EXCEPT ![p].pc = "created"]
    /\ UNCHANGED <<sessions, entry>>

\* The map makes room before the new entry comes in, so it may grow by one.
AcpAdmit(p) ==
    LET e == FreeEntry
        s == prompt[p].of
        map == [sessions EXCEPT ![s] = e]
        ps == [prompt EXCEPT ![p].pc = "preparing", ![p].entry = e] IN
    /\ prompt[p].pc = "created"
    /\ IF Cardinality(Mapped(sessions)) <= MAX_SESSIONS
       THEN Becomes(map, entry, ps)
       ELSE \E t \in Mapped(sessions) :
               Evicting([sessions EXCEPT ![t] = NoEntry, ![s] = e], entry, ps, sessions[t])
    /\ UNCHANGED <<stored, known, disturbed>>

\* The agent and the budget are there: the run starts on the entry's session object, and
\* with its controller of now.
AcpRun(p) ==
    /\ prompt[p].pc = "preparing"
    /\ prompt' = [prompt EXCEPT ![p].pc = "running",
                                ![p].turns = entry[prompt[p].entry].turns,
                                ![p].aborted = entry[prompt[p].entry].fired]
    /\ UNCHANGED <<sessions, entry, stored, known, disturbed>>

\* Mutant of Result: the run forgets what it started from.
ResultAlone(p) == {p}

Result(p) == prompt[p].turns \cup {p}

\* The loop saves its session after every iteration.
AcpLoopSave(p) ==
    /\ prompt[p].pc = "running" /\ ~prompt[p].aborted
    /\ stored' = [stored EXCEPT ![prompt[p].of] = Result(p)]
    /\ prompt' = [prompt EXCEPT ![p].turns = Result(p)]
    /\ UNCHANGED <<sessions, entry, known, disturbed>>

\* The run is over, and its session is saved; an aborted run may not have got to its turns.
AcpSave(p) ==
    /\ prompt[p].pc = "running"
    /\ \E turns \in {Result(p)} \cup (IF prompt[p].aborted THEN {prompt[p].turns} ELSE {}) :
          /\ stored' = [stored EXCEPT ![prompt[p].of] = turns]
          /\ prompt' = [prompt EXCEPT ![p].pc = "saving", ![p].turns = turns,
                                      ![p].aborted = FALSE]
    /\ UNCHANGED <<sessions, entry, known, disturbed>>

\* The entry takes the session, and is put into the map, where it may not be any more.
AcpDone(p) ==
    LET e == prompt[p].entry IN
    /\ prompt[p].pc = "saving"
    /\ Becomes([sessions EXCEPT ![prompt[p].of] = e],
               [entry EXCEPT ![e].turns = prompt[p].turns, ![e].evicted = FALSE],
               [prompt EXCEPT ![p].pc = "done", ![p].entry = NoEntry, ![p].turns = @ \cap {p}])
    /\ UNCHANGED <<stored, known, disturbed>>

\* createAgent(), the run or the save throws: an error chunk is all that happens.
AcpFails(p) ==
    /\ prompt[p].pc \in {"preparing", "running"}
    /\ Becomes(sessions, entry, [prompt EXCEPT ![p].pc = "done", ![p].entry = NoEntry,
                                               ![p].turns = {}, ![p].aborted = FALSE])
    /\ disturbed' = disturbed \cup {prompt[p].of}
    /\ UNCHANGED <<stored, known>>

AcpNext ==
    \/ \E s \in AcpSessions : \/ AcpNewSession(s) \/ AcpLoadSession(s)
                               \/ AcpSetMode(s) \/ AcpCancel(s)
    \/ \E p \in AcpPrompts : \/ AcpPrompt(p) \/ AcpCreate(p) \/ AcpAdmit(p) \/ AcpRun(p)
                              \/ AcpLoopSave(p) \/ AcpSave(p) \/ AcpDone(p) \/ AcpFails(p)

AcpSpec == AcpInit /\ [][AcpNext]_acpVars

-----------------------------------------------------------------------------
\* A run whose entry was evicted has been told to stop: whether it started before or after,
\* and whatever was cancelled meanwhile.
EvictedIsAborted ==
    \A p \in AcpPrompts :
        prompt[p].pc = "running" /\ entry[prompt[p].entry].evicted => prompt[p].aborted

\* The map exceeds its size by one entry, and by those that ended prompts put back.
MapIsBounded ==
    Cardinality(Mapped(sessions))
        <= MAX_SESSIONS + 1 + Cardinality({p \in AcpPrompts : prompt[p].pc = "done"})

\* Prompts that come one after the other, each finding its session in the map, build one
\* transcript: once they are over the store has the turns of all of them, whatever was
\* loaded, evicted, cancelled or set in between.  (Two prompts at once save over each
\* other, and setSessionMode() over a run; and a prompt to a session that was evicted, or
\* never loaded, stores it anew and empty.)
TurnsAreKept ==
    \A p \in AcpPrompts :
        /\ prompt[p].of \notin disturbed
        /\ p \in prompt[p].turns
        /\ Busy(prompt[p].of) = {}
        => p \in stored[prompt[p].of]
=============================================================================
