------------------------------ MODULE RunState ------------------------------
(***************************************************************************)
(* packages/server/src/run-state.ts: the in-memory table of live agent     *)
(* runs, driven by the calls packages/server/src/agent-run.ts and the      *)
(* routes make.  A run is identified with the AbortController that start() *)
(* creates for it: that object is what executeRun later presents as        *)
(* expectedAbort, and the promise `done` belongs to it.                    *)
(*                                                                         *)
(* The task of a run outlives its entry: a run that was aborted or         *)
(* superseded is still unwinding, and reports when it gets there.          *)
(***************************************************************************)
EXTENDS Naturals, Sequences

CONSTANTS Sessions,   \* session ids
          Runs,       \* the runs (abort controllers) ever started
          NoRun,      \* no entry in a map
          NoSession   \* a run that has not started

ASSUME NoRunAssumption == NoRun \notin Runs
ASSUME NoSessionAssumption == NoSession \notin Sessions

VARIABLES
    runs,       \* runs[s]: the run whose entry the `runs` map holds for s
    resolvers,  \* resolvers[s]: the run whose `done` the resolver of s settles
    owner,      \* owner[r]: the session r was started for
    task,       \* task[r]: what executeRun has told the manager about r
    signalled,  \* runs whose AbortSignal has fired
    resolved,   \* runs whose `done` promise has settled
    outcome,    \* outcome[r]: how the entry of r left the map
    events      \* events[s]: the run.* events the bus carried for s

runVars == <<runs, resolvers, owner, task, signalled, resolved, outcome, events>>

Verdicts == {"completed", "aborted", "error"}
RunEvent == [kind : Verdicts \cup {"started"}, run : Runs]
Event(kind, r) == [kind |-> kind, run |-> r]

TypeOK ==
    /\ runs \in [Sessions -> Runs \cup {NoRun}]
    /\ resolvers \in [Sessions -> Runs \cup {NoRun}]
    /\ owner \in [Runs -> Sessions \cup {NoSession}]
    /\ task \in [Runs -> {"none", "running", "reported", "dead"}]
    /\ signalled \subseteq Runs
    /\ resolved \subseteq Runs
    /\ outcome \in [Runs -> Verdicts \cup {"none", "lost"}]
    /\ events \in [Sessions -> Seq(RunEvent)]

RunInit ==
    /\ runs = [s \in Sessions |-> NoRun]
    /\ resolvers = [s \in Sessions |-> NoRun]
    /\ owner = [r \in Runs |-> NoSession]
    /\ task = [r \in Runs |-> "none"]
    /\ signalled = {}
    /\ resolved = {}
    /\ outcome = [r \in Runs |-> "none"]
    /\ events = [s \in Sessions |-> <<>>]

-----------------------------------------------------------------------------
\* The entry of s goes: its run.* event is emitted and the resolver of s is
\* called (and dropped by the caller).
Retire(s, verdict) ==
    /\ outcome' = [outcome EXCEPT ![runs[s]] = verdict]
    /\ resolved' = resolved \cup ({resolvers[s]} \ {NoRun})
    /\ events' = [events EXCEPT ![s] = Append(@, Event(verdict, runs[s]))]

Untrack(s) ==
    /\ runs' = [runs EXCEPT ![s] = NoRun]
    /\ resolvers' = [resolvers EXCEPT ![s] = NoRun]

\* start() on an idle session.
StartIdle(s, r) ==
    /\ runs[s] = NoRun
    /\ events' = [events EXCEPT ![s] = Append(@, Event("started", r))]
    /\ UNCHANGED <<signalled, resolved, outcome>>

\* Mutant of StartBusy: the old entry is overwritten, not aborted.
StartBusyOverwrites(s, r) ==
    /\ runs[s] # NoRun
    /\ events' = [events EXCEPT ![s] = Append(@, Event("started", r))]
    /\ UNCHANGED <<signalled, resolved, outcome>>

\* Mutant of StartBusy: the new resolver is stored before the old run is aborted.
StartBusyTooEarly(s, r) ==
    /\ runs[s] # NoRun
    /\ signalled' = signalled \cup {runs[s]}
    /\ outcome' = [outcome EXCEPT ![runs[s]] = "aborted"]
    /\ resolved' = resolved \cup {r}
    /\ events' = [events EXCEPT ![s] =
                     Append(Append(@, Event("aborted", runs[s])), Event("started", r))]

\* start() on a busy session: abort() the old entry before anything else.
StartBusy(s, r) ==
    /\ runs[s] # NoRun
    /\ signalled' = signalled \cup {runs[s]}
    /\ outcome' = [outcome EXCEPT ![runs[s]] = "aborted"]
    /\ resolved' = resolved \cup ({resolvers[s]} \ {NoRun})
    /\ events' = [events EXCEPT ![s] =
                     Append(Append(@, Event("aborted", runs[s])), Event("started", r))]

Start(s, r) ==
    /\ owner[r] = NoSession
    /\ StartIdle(s, r) \/ StartBusy(s, r)
    /\ runs' = [runs EXCEPT ![s] = r]
    /\ resolvers' = [resolvers EXCEPT ![s] = r]
    /\ owner' = [owner EXCEPT ![r] = s]
    /\ task' = [task EXCEPT ![r] = "running"]

\* Mutant of Current: any run of the session will do.
CurrentIsAny(s, r) == runs[s] # NoRun

\* The guard of complete(), error() and abort() with an expectedAbort.
Current(s, r) == runs[s] = r

\* complete(s, info, r), error(s, message, r) and abort(s, r): the three calls
\* executeRun makes, r being the expectedAbort.  Without effect on a newer run.
Finish(s, r, verdict) ==
    \/ /\ Current(s, r)
       /\ signalled' = IF verdict = "aborted" THEN signalled \cup {r} ELSE signalled
       /\ Retire(s, verdict)
       /\ Untrack(s)
    \/ /\ ~Current(s, r)
       /\ UNCHANGED <<runs, resolvers, signalled, resolved, outcome, events>>

\* abort(s): the entry of s is signalled and retired.  A no-op when s is idle.
Abort(s) ==
    \/ /\ runs[s] # NoRun
       /\ signalled' = signalled \cup {runs[s]}
       /\ Retire(s, "aborted")
       /\ Untrack(s)
    \/ /\ runs[s] = NoRun
       /\ UNCHANGED <<runs, resolvers, signalled, resolved, outcome, events>>

\* executeRun after the loop and the final save: abort(s, r) when r's signal has
\* fired, complete(s, info, r) otherwise.
TaskReturned(r) ==
    /\ task[r] = "running"
    /\ Finish(owner[r], r, IF r \in signalled THEN "aborted" ELSE "completed")
    /\ task' = [task EXCEPT ![r] = "reported"]
    /\ UNCHANGED owner

\* executeRun's catch block, and the catch runSessionPrompt puts around it: an
\* error may be reported after the run has already reported.
TaskThrew(r) ==
    /\ task[r] \in {"running", "reported"}
    /\ Finish(owner[r], r, "error")
    /\ task' = [task EXCEPT ![r] = "reported"]
    /\ UNCHANGED owner

\* POST /abort, and the first step of DELETE.
AbortSession(s) == Abort(s) /\ UNCHANGED <<owner, task>>

\* abortAll() of a graceful shutdown: abort(s) for every key of the map.
AbortAll ==
    LET busy == {s \in Sessions : runs[s] # NoRun}
        stopped == {runs[s] : s \in busy}
    IN  /\ signalled' = signalled \cup stopped
        /\ outcome' = [r \in Runs |-> IF r \in stopped THEN "aborted" ELSE outcome[r]]
        /\ resolved' = resolved \cup {resolvers[s] : s \in {t \in busy : resolvers[t] # NoRun}}
        /\ events' = [s \in Sessions |->
                         IF s \in busy THEN Append(events[s], Event("aborted", runs[s]))
                                       ELSE events[s]]
        /\ runs' = [s \in Sessions |-> NoRun]
        /\ resolvers' = [s \in Sessions |-> IF s \in busy THEN NoRun ELSE resolvers[s]]
        /\ UNCHANGED <<owner, task>>

\* The process dies and a new one boots: the maps, the tasks and the bus are new.
Restart ==
    /\ runs' = [s \in Sessions |-> NoRun]
    /\ resolvers' = [s \in Sessions |-> NoRun]
    /\ events' = [s \in Sessions |-> <<>>]
    /\ task' = [r \in Runs |-> IF task[r] = "none" THEN "none" ELSE "dead"]
    /\ outcome' = [r \in Runs |-> IF owner[r] # NoSession /\ outcome[r] = "none"
                                  THEN "lost" ELSE outcome[r]]
    /\ UNCHANGED <<owner, signalled, resolved>>

RunNext ==
    \/ \E s \in Sessions, r \in Runs : Start(s, r)
    \/ \E r \in Runs : TaskReturned(r)
    \/ \E r \in Runs : TaskThrew(r)
    \/ \E s \in Sessions : AbortSession(s)
    \/ AbortAll
    \/ Restart

RunSpec == RunInit /\ [][RunNext]_runVars

-----------------------------------------------------------------------------
Started(e) == e.kind = "started"

\* A start comes first, and what follows a start is one end of that same run.
Brackets(es) ==
    /\ Len(es) > 0 => Started(es[1])
    /\ \A i \in 1 .. Len(es) - 1 :
          IF Started(es[i]) THEN ~Started(es[i + 1]) /\ es[i + 1].run = es[i].run
                            ELSE Started(es[i + 1])

\* The run events a client sees of a session bracket its runs: they begin with a
\* start, every start is followed by exactly one end of that same run before
\* anything else, and every end tells how that run really ended.  start() on a
\* busy session, the stale reports of superseded runs and abortAll must all keep
\* the bracket, or a client shows a run that never ends or ends the wrong one.
EventsBracketRuns ==
    \A s \in Sessions :
        /\ Brackets(events[s])
        /\ \A i \in 1 .. Len(events[s]) :
              ~Started(events[s][i]) => events[s][i].kind = outcome[events[s][i].run]

\* The last event of a session is a start exactly while that run is in the map:
\* what the events say and what /status says never drift apart.
EndsWithStartOf(es, r) == Len(es) > 0 /\ es[Len(es)] = Event("started", r)
EndsIdle(es) == Len(es) > 0 => ~Started(es[Len(es)])

StatusMatchesEvents ==
    \A s \in Sessions :
        IF runs[s] = NoRun THEN EndsIdle(events[s])
                           ELSE EndsWithStartOf(events[s], runs[s])

\* complete() and error() are verdicts of the run's own task: a superseded run
\* that finishes late never ends the run that took its session over.
VerdictIsOwn ==
    \A r \in Runs : outcome[r] \in {"completed", "error"} => task[r] \in {"reported", "dead"}

\* A run's `done` promise settles exactly when its entry has left the map, and its
\* AbortSignal has fired exactly when it was announced as aborted: resolvers are
\* keyed by session, so the wrong run's promise could be settled or overwritten.
SettledWithItsEntry ==
    \A r \in Runs :
        /\ r \in resolved <=> outcome[r] \in Verdicts
        /\ r \in signalled <=> outcome[r] = "aborted"

\* How a run ends is its own: neither a stale report nor the resolver of its session lets one
\* run end, settle or signal another, whichever of them took the session over.
EndsAreOwn == VerdictIsOwn /\ SettledWithItsEntry

\* A run that has started is tracked under its own session or has an outcome.
TrackedOrOver ==
    \A r \in Runs :
        outcome[r] = "none" <=> owner[r] = NoSession \/ runs[owner[r]] = r

\* The phase of a run as its clients see it, and the refinement it gives.
phaseOf ==
    [r \in Runs |-> IF owner[r] = NoSession THEN "unborn"
                    ELSE IF runs[owner[r]] = r THEN "live"
                    ELSE outcome[r]]

Lifecycle == INSTANCE RunLifecycle WITH phase <- phaseOf, place <- owner

\* RunStateManager implements the abstract life of a run.
ImplementsLifecycle == Lifecycle!Spec
=============================================================================
