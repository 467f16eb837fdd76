----------------------------- MODULE SessionRun -----------------------------
(***************************************************************************)
(* A prompt from its arrival to the end of its clean-up, with everything   *)
(* it shares with other prompts: the run table (module RunState), the      *)
(* session store, the recovery sweep that every createAgent() runs, and    *)
(* the routes that abort, delete and edit a session meanwhile.             *)
(*                                                                         *)
(* packages/server/src/agent-run.ts, app.ts, session-manager.ts,           *)
(* routes/session.ts and the save points of packages/agent/src/loop.ts.    *)
(*                                                                         *)
(* Each await is a point where any other actor may run: a load and the     *)
(* save computed from it are two steps.  A stored session is reduced to    *)
(* the runs whose messages it holds and to its activeRun marker.           *)
(***************************************************************************)
EXTENDS RunState, FiniteSets

CONSTANTS Absent,       \* no such session, no object in hand
          MaxTroubles   \* bound on the troubles of one behaviour

ASSUME SessionRunAssumption ==
    /\ Absent \notin [turns : SUBSET Runs, marker : Runs \cup {NoRun}]
    /\ MaxTroubles \in Nat
    /\ IsFiniteSet(Runs)

VARIABLES
    store,      \* store[s]: the session as persisted
    asked,      \* asked[r]: the session r's prompt names
    pc,         \* pc[r]: where runSessionPrompt / executeRun of r stands
    obj,        \* obj[r]: the session object r works on
    cur,        \* cur[r]: an object r has loaded and is about to save
    todo,       \* todo[r]: sessions r's recovery sweep has yet to visit
    at,         \* at[r]: the session r's sweep is visiting
    edit,       \* edit[s]: what a metadata edit of s loaded and will save
    deleting,   \* sessions whose DELETE has aborted the run, not yet the file
    recovered,  \* <<s, r>>: run.recovered was emitted for the marker of r in s
    troubles    \* what has gone wrong or got in the way so far

flowVars == <<asked, pc, obj, cur, todo, at>>
sideVars == <<edit, deleting, recovered, troubles>>
vars == <<runVars, store, flowVars, sideVars>>

Object == [turns : SUBSET Runs, marker : Runs \cup {NoRun}]
Troubles == {"save", "agent", "delete", "edit", "crash"}
NewSession == [turns |-> {}, marker |-> NoRun]
Unmarked(o) == [o EXCEPT !.marker = NoRun]

\* Where a prompt stands before runState.start, between start and its report, and
\* between its report and the end of executeRun's finally block.
BeforeStart == {"new", "loaded"}
Starting == {"marking", "listing", "sweep", "sweepLoad", "sweepSave"}
Running == {"looping", "saving", "returned", "threw"}
Unwinding == {"caught", "resaving", "unwinding", "clearing"}
Places == BeforeStart \cup Starting \cup Running \cup Unwinding \cup {"over", "dead"}

TypeInvariant ==
    /\ TypeOK
    /\ store \in [Sessions -> Object \cup {Absent}]
    /\ asked \in [Runs -> Sessions \cup {NoSession}]
    /\ pc \in [Runs -> Places]
    /\ obj \in [Runs -> Object \cup {Absent}]
    /\ cur \in [Runs -> Object \cup {Absent}]
    /\ todo \in [Runs -> SUBSET Sessions]
    /\ at \in [Runs -> Sessions \cup {NoSession}]
    /\ edit \in [Sessions -> Object \cup {Absent}]
    /\ deleting \subseteq Sessions
    /\ recovered \subseteq Sessions \X Runs
    /\ troubles \subseteq Troubles

Init ==
    /\ RunInit
    /\ store \in [Sessions -> {NewSession, Absent}]
    /\ asked = [r \in Runs |-> NoSession]
    /\ pc = [r \in Runs |-> "new"]
    /\ obj = [r \in Runs |-> Absent]
    /\ cur = [r \in Runs |-> Absent]
    /\ todo = [r \in Runs |-> {}]
    /\ at = [r \in Runs |-> NoSession]
    /\ edit = [s \in Sessions |-> Absent]
    /\ deleting = {}
    /\ recovered = {}
    /\ troubles = {}

-----------------------------------------------------------------------------
Goto(r, from, to) == pc[r] = from /\ pc' = [pc EXCEPT ![r] = to]

\* A session store that saves o as session s, and one that fails to.
Save(s, o) == store' = [store EXCEPT ![s] = o] /\ UNCHANGED troubles
Trouble(kind) ==
    /\ kind \notin troubles
    /\ Cardinality(troubles) < MaxTroubles
    /\ troubles' = troubles \cup {kind}
SaveFails == Trouble("save") /\ UNCHANGED store

Forget(r) == cur' = [cur EXCEPT ![r] = Absent]

-----------------------------------------------------------------------------
\* runSessionPrompt: the session is loaded ...
Prompt(r, s) ==
    /\ Goto(r, "new", "loaded")
    /\ asked' = [asked EXCEPT ![r] = s]
    /\ obj' = [obj EXCEPT ![r] = store[s]]
    /\ UNCHANGED <<runVars, store, cur, todo, at, sideVars>>

\* ... or created when there is none; a failed create fails the request.
CreateSession(r) ==
    /\ obj[r] = Absent
    /\ \/ /\ Goto(r, "loaded", "loaded")
          /\ Save(asked[r], NewSession)
          /\ obj' = [obj EXCEPT ![r] = NewSession]
       \/ /\ Goto(r, "loaded", "over")
          /\ SaveFails
          /\ UNCHANGED obj
    /\ UNCHANGED <<runVars, asked, cur, todo, at, edit, deleting, recovered>>

\* runState.start, which aborts the run the session already has.
StartRun(r) ==
    /\ Goto(r, "loaded", "marking")
    /\ obj[r] # Absent
    /\ Start(asked[r], r)
    /\ UNCHANGED <<store, asked, obj, cur, todo, at, sideVars>>

\* The active-run marker is saved, or its failure ignored.  The object the loop
\* will work on stays the one that was loaded, without this run's marker.
SaveMarker(r) ==
    /\ Goto(r, "marking", "listing")
    /\ Save(asked[r], [obj[r] EXCEPT !.marker = r]) \/ SaveFails
    /\ UNCHANGED <<runVars, asked, obj, cur, todo, at, edit, deleting, recovered>>

-----------------------------------------------------------------------------
\* createAgent() awaits ready(), which sweeps the store: recoverFromStore().
SweepList(r) ==
    /\ Goto(r, "listing", "sweep")
    /\ todo' = [todo EXCEPT ![r] = {s \in Sessions : store[s] # Absent}]
    /\ UNCHANGED <<runVars, store, asked, obj, cur, at, sideVars>>

\* Mutant of SweepCheck: skips while a run is active anywhere.
SweepCheckAnywhere(r, s) ==
    /\ s \in todo[r]
    /\ todo' = [todo EXCEPT ![r] = @ \ {s}]
    /\ \/ /\ \E t \in Sessions : runs[t] # NoRun
          /\ Goto(r, "sweep", "sweep")
          /\ UNCHANGED at
       \/ /\ \A t \in Sessions : runs[t] = NoRun
          /\ Goto(r, "sweep", "sweepLoad")
          /\ at' = [at EXCEPT ![r] = s]
    /\ UNCHANGED <<runVars, store, asked, obj, cur, sideVars>>

\* The next entry: skipped when a run is active in it now, else its load is issued.
SweepCheck(r, s) ==
    /\ s \in todo[r]
    /\ todo' = [todo EXCEPT ![r] = @ \ {s}]
    /\ \/ /\ runs[s] # NoRun
          /\ Goto(r, "sweep", "sweep")
          /\ UNCHANGED at
       \/ /\ runs[s] = NoRun
          /\ Goto(r, "sweep", "sweepLoad")
          /\ at' = [at EXCEPT ![r] = s]
    /\ UNCHANGED <<runVars, store, asked, obj, cur, sideVars>>

Interrupted(o) == o # Absent /\ o.marker # NoRun

SweepLoad(r) ==
    /\ \/ /\ Goto(r, "sweepLoad", "sweepSave")
          /\ Interrupted(store[at[r]])
          /\ cur' = [cur EXCEPT ![r] = store[at[r]]]
          /\ UNCHANGED at
       \/ /\ Goto(r, "sweepLoad", "sweep")
          /\ ~Interrupted(store[at[r]])
          /\ at' = [at EXCEPT ![r] = NoSession]
          /\ UNCHANGED cur
    /\ UNCHANGED <<runVars, store, asked, obj, todo, sideVars>>

\* run.recovered is emitted and the session saved without its marker; a failed save
\* ends the whole sweep.
SweepSave(r) ==
    /\ Goto(r, "sweepSave", "sweep")
    /\ recovered' = recovered \cup {<<at[r], cur[r].marker>>}
    /\ \/ /\ Save(at[r], Unmarked(cur[r]))
          /\ UNCHANGED todo
       \/ /\ SaveFails
          /\ todo' = [todo EXCEPT ![r] = {}]
    /\ Forget(r)
    /\ at' = [at EXCEPT ![r] = NoSession]
    /\ UNCHANGED <<runVars, asked, obj, edit, deleting>>

\* A list() or a load() that fails ends the sweep too.
SweepFails(r) ==
    /\ Goto(r, "listing", "sweep") \/ Goto(r, "sweepLoad", "sweep")
    /\ Trouble("save")
    /\ todo' = [todo EXCEPT ![r] = {}]
    /\ at' = [at EXCEPT ![r] = NoSession]
    /\ UNCHANGED <<runVars, store, asked, obj, cur, edit, deleting, recovered>>

\* Mutant of AgentCreated: a superseded run is not let on.
AgentCreatedIfCurrent(r) ==
    /\ Goto(r, "sweep", "looping")
    /\ todo[r] = {}
    /\ runs[asked[r]] = r
    /\ UNCHANGED <<runVars, store, asked, obj, cur, todo, at, sideVars>>

\* createAgent() returns, or throws (ready() may throw before it sweeps).
AgentCreated(r) ==
    /\ Goto(r, "sweep", "looping")
    /\ todo[r] = {}
    /\ UNCHANGED <<runVars, store, asked, obj, cur, todo, at, sideVars>>

AgentFails(r) ==
    /\ Goto(r, "listing", "threw") \/ Goto(r, "sweep", "threw")
    /\ todo[r] = {}
    /\ Trouble("agent")
    /\ UNCHANGED <<runVars, store, asked, obj, cur, todo, at, edit, deleting, recovered>>

-----------------------------------------------------------------------------
\* An iteration of the agent loop appends its messages and saves its object; the
\* loop goes on when the save fails.
LoopSave(r) ==
    LET o == [obj[r] EXCEPT !.turns = @ \cup {r}]
    IN  /\ Goto(r, "looping", "looping")
        /\ obj' = [obj EXCEPT ![r] = o]
        /\ Save(asked[r], o) \/ SaveFails
        /\ UNCHANGED <<runVars, asked, cur, todo, at, edit, deleting, recovered>>

\* Every way out of the loop saves a last time.
LoopReturn(r) ==
    /\ Goto(r, "looping", "saving")
    /\ Save(asked[r], obj[r]) \/ SaveFails
    /\ UNCHANGED <<runVars, asked, obj, cur, todo, at, edit, deleting, recovered>>

\* A failed model call saves what there is and throws; without a client to call,
\* nothing is saved.
LoopThrow(r) ==
    /\ Goto(r, "looping", "threw")
    /\ Save(asked[r], obj[r]) \/ SaveFails \/ UNCHANGED <<store, troubles>>
    /\ UNCHANGED <<runVars, asked, obj, cur, todo, at, edit, deleting, recovered>>

\* sessionManager.save of the loop's result: its failure is the run's failure.
FinalSave(r) ==
    /\ \/ Goto(r, "saving", "returned") /\ Save(asked[r], obj[r])
       \/ Goto(r, "saving", "threw") /\ SaveFails
    /\ UNCHANGED <<runVars, asked, obj, cur, todo, at, edit, deleting, recovered>>

-----------------------------------------------------------------------------
\* The run is aborted or completed in the run table, if it is still in it.
ReportReturn(r) ==
    /\ Goto(r, "returned", "unwinding")
    /\ TaskReturned(r)
    /\ UNCHANGED <<store, asked, obj, cur, todo, at, sideVars>>

\* Mutants of ReportError: error() without its expectedAbort, and no error() at all.
ReportErrorOfAny(r) ==
    /\ Goto(r, "threw", "caught")
    /\ runs[asked[r]] # NoRun
    /\ Retire(asked[r], "error")
    /\ Untrack(asked[r])
    /\ task' = [task EXCEPT ![r] = "reported"]
    /\ UNCHANGED <<owner, signalled, store, asked, obj, cur, todo, at, sideVars>>

ReportErrorSwallowed(r) ==
    /\ Goto(r, "threw", "caught")
    /\ UNCHANGED <<runVars, store, asked, obj, cur, todo, at, sideVars>>

ReportError(r) ==
    /\ Goto(r, "threw", "caught")
    /\ TaskThrew(r)
    /\ UNCHANGED <<store, asked, obj, cur, todo, at, sideVars>>

\* The catch block loads the session and saves it again (to broadcast the partial
\* transcript) when it has grown since the prompt.
Grown(r, o) == o # Absent /\ Cardinality(o.turns) > Cardinality(obj[r].turns \ {r})

CatchLoad(r) ==
    /\ \/ /\ Goto(r, "caught", "resaving")
          /\ Grown(r, store[asked[r]])
          /\ cur' = [cur EXCEPT ![r] = store[asked[r]]]
       \/ /\ Goto(r, "caught", "unwinding")
          /\ ~Grown(r, store[asked[r]])
          /\ UNCHANGED cur
    /\ UNCHANGED <<runVars, store, asked, obj, todo, at, sideVars>>

CatchSave(r) ==
    /\ Goto(r, "resaving", "unwinding")
    /\ Save(asked[r], cur[r]) \/ SaveFails
    /\ Forget(r)
    /\ UNCHANGED <<runVars, asked, obj, todo, at, edit, deleting, recovered>>

\* Mutant of FinallyLoad: clears the run's own marker only.
FinallyLoadOwn(r) ==
    /\ \/ /\ Goto(r, "unwinding", "clearing")
          /\ Interrupted(store[asked[r]])
          /\ store[asked[r]].marker = r
          /\ cur' = [cur EXCEPT ![r] = store[asked[r]]]
       \/ /\ Goto(r, "unwinding", "over")
          /\ Interrupted(store[asked[r]]) => store[asked[r]].marker # r
          /\ UNCHANGED cur
    /\ UNCHANGED <<runVars, store, asked, obj, todo, at, sideVars>>

\* The finally block loads the session and, when it carries a marker, saves it
\* without.
FinallyLoad(r) ==
    /\ \/ /\ Goto(r, "unwinding", "clearing")
          /\ Interrupted(store[asked[r]])
          /\ cur' = [cur EXCEPT ![r] = store[asked[r]]]
       \/ /\ Goto(r, "unwinding", "over")
          /\ ~Interrupted(store[asked[r]])
          /\ UNCHANGED cur
    /\ UNCHANGED <<runVars, store, asked, obj, todo, at, sideVars>>

FinallySave(r) ==
    /\ Goto(r, "clearing", "over")
    /\ Save(asked[r], Unmarked(cur[r])) \/ SaveFails
    /\ Forget(r)
    /\ UNCHANGED <<runVars, asked, obj, todo, at, edit, deleting, recovered>>

-----------------------------------------------------------------------------
\* POST /api/sessions/:id/abort.
AbortRoute(s) ==
    /\ AbortSession(s)
    /\ UNCHANGED <<store, flowVars, sideVars>>

\* DELETE /api/sessions/:id: the run is aborted, then the session removed.
DeleteAbort(s) ==
    /\ Trouble("delete")
    /\ AbortSession(s)
    /\ deleting' = deleting \cup {s}
    /\ UNCHANGED <<store, flowVars, edit, recovered>>

DeleteStored(s) ==
    /\ s \in deleting
    /\ store' = [store EXCEPT ![s] = Absent]
    /\ deleting' = deleting \ {s}
    /\ UNCHANGED <<runVars, flowVars, edit, recovered, troubles>>

\* PATCH /api/sessions/:id: load, then save with other metadata.
EditLoad(s) ==
    /\ Trouble("edit")
    /\ edit[s] = Absent
    /\ store[s] # Absent
    /\ edit' = [edit EXCEPT ![s] = store[s]]
    /\ UNCHANGED <<runVars, store, flowVars, deleting, recovered>>

EditSave(s) ==
    /\ edit[s] # Absent
    /\ Save(s, edit[s])
    /\ edit' = [edit EXCEPT ![s] = Absent]
    /\ UNCHANGED <<runVars, flowVars, deleting, recovered>>

\* dispose() of a graceful shutdown: abortAll(), and nobody waits for the tasks.
Shutdown ==
    /\ AbortAll
    /\ UNCHANGED <<store, flowVars, sideVars>>

\* The process dies and is started again; only the store survives.
Crash ==
    /\ Trouble("crash")
    /\ Restart
    /\ pc' = [r \in Runs |-> IF pc[r] \in {"new", "over"} THEN pc[r] ELSE "dead"]
    /\ obj' = [r \in Runs |-> Absent]
    /\ cur' = [r \in Runs |-> Absent]
    /\ todo' = [r \in Runs |-> {}]
    /\ at' = [r \in Runs |-> NoSession]
    /\ edit' = [s \in Sessions |-> Absent]
    /\ deleting' = {}
    /\ UNCHANGED <<store, asked, recovered>>

RunStep(r) ==
    \/ CreateSession(r) \/ StartRun(r) \/ SaveMarker(r)
    \/ SweepList(r) \/ SweepLoad(r) \/ SweepSave(r) \/ SweepFails(r)
    \/ AgentCreated(r) \/ AgentFails(r)
    \/ \E s \in Sessions : SweepCheck(r, s)
    \/ LoopSave(r) \/ LoopReturn(r) \/ LoopThrow(r) \/ FinalSave(r)
    \/ ReportReturn(r) \/ ReportError(r) \/ CatchLoad(r) \/ CatchSave(r)
    \/ FinallyLoad(r) \/ FinallySave(r)

RouteStep(s) ==
    \/ AbortRoute(s) \/ DeleteAbort(s) \/ DeleteStored(s) \/ EditLoad(s) \/ EditSave(s)

Next ==
    \/ \E r \in Runs, s \in Sessions : Prompt(r, s)
    \/ \E r \in Runs : RunStep(r)
    \/ \E s \in Sessions : RouteStep(s)
    \/ Shutdown
    \/ Crash

Spec == Init /\ [][Next]_vars

\* Every await of a run settles: store calls and createAgent() return or throw, and
\* the loop stops after at most maxSteps iterations.
Fairness ==
    \A r \in Runs : WF_vars(RunStep(r)) /\ WF_vars(LoopReturn(r))

FairSpec == Spec /\ Fairness

-----------------------------------------------------------------------------
InFlight(r) == pc[r] \notin {"new", "over", "dead"}
Busy(s) == \E r \in Runs : asked[r] = s /\ InFlight(r)

\* The run a session's status shows is one whose task still has its report to make,
\* and it is that session's own: an executeRun that has unwound (by return, throw,
\* failed save, abort or supersession) never leaves its entry behind, which nothing
\* but the next prompt would ever clear.
NoZombieRun ==
    \A s \in Sessions : runs[s] # NoRun =>
        asked[runs[s]] = s /\ pc[runs[s]] \in Starting \cup Running

\* A marker in the store has somebody who will clear it: a run in flight on that
\* session (its finally block), or the next sweep when a run of the session died in a
\* crash.  Superseded runs write markers back with stale objects and clear each
\* other's; the last one to unwind must still leave none.  A failed save, or a
\* metadata edit that loaded before and saved after the clearing, does leave one.
MarkerHasKeeper ==
    troubles \cap {"save", "edit"} = {} =>
        \A s \in Sessions :
            Interrupted(store[s]) =>
                \E r \in Runs : asked[r] = s /\ (InFlight(r) \/ pc[r] = "dead")

\* A sweep that ran to its end has cleared the marker of every run that died,
\* except in a session somebody is working on: what the sweep skips as active, and
\* what is written while it runs, is left to that run's own clean-up.
SweepClearsTheDead ==
    [][\A r \in Runs :
          AgentCreated(r) /\ troubles \cap {"save", "edit"} = {} =>
              \A s \in Sessions :
                  Interrupted(store[s]) /\ pc[store[s].marker] = "dead" => Busy(s)]_vars

\* Whoever prompts gets an end: the prompt's run is over, or the process died.
PromptEnds == \A r \in Runs : pc[r] = "loaded" ~> pc[r] \in {"over", "dead"}

-----------------------------------------------------------------------------
\* What agent-run.ts:204-205 and session/src/types.ts:128-129 say of the marker: it
\* is in the store from the start of a run to its end.
RunningIsMarked ==
    troubles = {} => \A r \in Runs :
        pc[r] = "looping" /\ runs[asked[r]] = r => Interrupted(store[asked[r]])

\* What run-state.ts:168-169 says of a marker found by the sweep: that its run was
\* left behind by a crashed or killed process.
RecoveredWasInterrupted == \A m \in recovered : pc[m[2]] = "dead"

\* What run-state.ts:11 says: one run per session, a new prompt having aborted the
\* prior; so what an aborted run still saves takes nothing from the session that a
\* newer run has completed with.
AbortedRunTakesNothing ==
    [][\A q \in signalled : LoopSave(q) \/ LoopReturn(q) \/ FinalSave(q) =>
          \A r \in Runs :
              /\ asked[r] = asked[q] /\ outcome[r] = "completed"
              /\ r \in store[asked[q]].turns
              => r \in store'[asked[q]].turns]_vars
=============================================================================
