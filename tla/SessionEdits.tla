---------------------------- MODULE SessionEdits ----------------------------
(***************************************************************************)
(* The transcripts of sessions under everything that writes them: runs     *)
(* (packages/server/src/agent-run.ts with the save points of               *)
(* packages/agent/src/loop.ts), the edits of the session manager           *)
(* (packages/server/src/session-manager.ts, routes/session.ts) and the     *)
(* clean-up of stale sessions (packages/agent/src/jobs.ts); and what a     *)
(* client knows of them who follows the events.                            *)
(*                                                                         *)
(* A holder, that is a run or a route, has loaded a transcript and will    *)
(* save one; `current` says whether anyone else has written the session    *)
(* since the holder last loaded or saved it.  The run table is RunState's  *)
(* and does not matter here: a run that has been superseded or aborted     *)
(* goes on saving until it returns.                                        *)
(***************************************************************************)
EXTENDS Transcript

CONSTANTS Sessions,
          Runs,         \* the prompts, each of which becomes a run
          Routes,       \* requests under way at the same time
          NotStored,
          Compressing,  \* whether the compressor's model answers
          MaxMessages,  \* the loop's MAX_MESSAGES
          MaxResults,   \* bound on the results of one step
          MaxEdits      \* bound on requests, failing saves, optimisations, crashes and ageing

\* A session file, or one of the copies of it that are under way.
Stored == [msgs : Seq(Messages), marked : BOOLEAN, old : BOOLEAN]

ASSUME SessionEditsAssumption ==
    /\ IsFiniteSet(Sessions) /\ IsFiniteSet(Runs) /\ IsFiniteSet(Routes)
    /\ NotStored \notin Sessions \cup Runs \cup Routes
    /\ NotStored \notin Stored
    /\ Compressing \in BOOLEAN
    /\ {MaxMessages, MaxResults, MaxEdits} \subseteq Nat

VARIABLES
    store,      \* store[s]: the session file, its transcript and its marker
    run,        \* run[r]: the awaits of runSessionPrompt and executeRun
    route,      \* route[a]: the request a is serving
    sweep,      \* the entries a clean-up job has listed and not yet visited
    view,       \* view[s]: what a client has from the events, as [id, ver]
    excused,    \* history: sessions where the events cannot tell the whole story
    edits       \* how many of those there have been

vars == <<store, run, route, sweep, view, excused, edits>>

IdleRun == [pc |-> "idle", s |-> NotStored, msgs |-> <<>>, prev |-> 0,
            marked |-> FALSE, current |-> FALSE, compacted |-> FALSE]
IdleRoute == [op |-> "none", s |-> NotStored, msgs |-> <<>>, marked |-> FALSE,
              id |-> UserQuery, current |-> FALSE]

Init ==
    /\ store = [s \in Sessions |-> NotStored]
    /\ run = [r \in Runs |-> IdleRun]
    /\ route = [a \in Routes |-> IdleRoute]
    /\ sweep = {}
    /\ view = [s \in Sessions |-> {}]
    /\ excused = {}
    /\ edits = 0

\* One of the things that happen MaxEdits times at most.
Counted == edits < MaxEdits /\ edits' = edits + 1

Existing == {s \in Sessions : store[s] # NotStored}
Seen(ms) == {[id |-> ms[i].id, ver |-> ms[i].ver] : i \in DOMAIN ms}

\* An id nobody uses: its number is the n-th that occurs in no transcript and no view.
Transcripts ==
    {store[s].msgs : s \in Existing} \cup {run[r].msgs : r \in Runs} \cup {route[a].msgs : a \in Routes}
UsedIds == (UNION {{ms[i].id : i \in DOMAIN ms} : ms \in Transcripts})
           \cup (UNION {{v.id : v \in view[s]} : s \in Sessions})
FreeUpTo(k) == {j \in 1 .. k : Fresh(j) \notin UsedIds}
NewId(n) == Fresh(CHOOSE k \in 1 .. Cardinality(UsedIds) + n :
                     k \in FreeUpTo(k) /\ Cardinality(FreeUpTo(k)) = n)

-----------------------------------------------------------------------------
\* What a save by r or a does to the copies of the other holders.
Outdated(s, h) ==
    /\ run' = [r \in Runs |->
          IF r = h.run THEN h.to ELSE [run[r] EXCEPT !.current = @ /\ run[r].s # s]]
    /\ route' = [a \in Routes |->
          IF a = h.route THEN h.to ELSE [route[a] EXCEPT !.current = @ /\ route[a].s # s]]

ByRun(r, to) == [run |-> r, route |-> NotStored, to |-> to]
ByRoute(a, to) == [run |-> NotStored, route |-> a, to |-> to]

Write(s, ms, marked) ==
    store' = [store EXCEPT ![s] = [msgs |-> ms, marked |-> marked, old |-> FALSE]]

\* message.added for what stands behind the first n messages.
Added(s, ms, n) == view' = [view EXCEPT ![s] = @ \cup Seen(SubSeq(ms, n + 1, Len(ms)))]

Excuse(s, why) == excused' = IF why THEN excused \cup {s} ELSE excused
Holds(s) == {r \in Runs : run[r].s = s /\ run[r].pc \notin {"idle", "over"}}
Serves(s) == {a \in Routes : route[a].s = s}

-----------------------------------------------------------------------------
\* runSessionPrompt: load, or create; then the marker is saved with a copy.
Prompt(r, s) ==
    /\ run[r].pc = "idle"
    /\ run' = [run EXCEPT ![r] =
          [IdleRun EXCEPT !.pc = "loaded", !.s = s, !.current = TRUE,
                          !.msgs = IF s \in Existing THEN store[s].msgs ELSE <<>>,
                          !.marked = s \in Existing /\ store[s].marked]]
    /\ store' = [store EXCEPT ![s] =
          IF @ = NotStored THEN [msgs |-> <<>>, marked |-> FALSE, old |-> FALSE] ELSE @]
    /\ UNCHANGED <<route, sweep, view, excused, edits>>

Mark(r) ==
    /\ run[r].pc = "loaded"
    /\ LET s == run[r].s
           ms == run[r].msgs
       IN  /\ Write(s, ms, TRUE)
           /\ Outdated(s, ByRun(r, [run[r] EXCEPT !.pc = "running", !.current = TRUE,
                                    !.prev = Len(ms), !.msgs = Primed(ms)]))
           /\ Excuse(s, ~run[r].current)
    /\ UNCHANGED <<sweep, view, edits>>

\* The loop saves its own object, with the marker it was loaded with, and goes on to pc.
LoopSaves(r, ms, pc) ==
    LET s == run[r].s
    IN  /\ Write(s, ms, run[r].marked)
        /\ Outdated(s, ByRun(r, [run[r] EXCEPT !.pc = pc, !.current = TRUE, !.msgs = ms]))
        /\ Excuse(s, ~run[r].current \/ run[r].compacted)
        /\ UNCHANGED <<sweep, view, edits>>

\* An iteration with tool calls; its save may fail, which the loop survives.
ToolStep(r) ==
    /\ run[r].pc = "running"
    /\ Len(run[r].msgs) < MaxMessages
    /\ \E n \in 0 .. MaxResults :
          LET ms == WithStep(run[r].msgs, [i \in 1 .. n |-> NewId(i)])
          IN  \/ LoopSaves(r, ms, "running")
              \/ /\ Counted
                 /\ run' = [run EXCEPT ![r].msgs = ms]
                 /\ UNCHANGED <<store, route, sweep, view, excused>>

\* The answer that ends the run.
Answer(r) ==
    /\ run[r].pc = "running"
    /\ Len(run[r].msgs) <= MaxMessages
    /\ LoopSaves(r, WithText(run[r].msgs, NewId(1)), "returned")

\* Every other end: it returns what it has, saved or not.
Stop(r) ==
    /\ run[r].pc = "running"
    /\ \/ LoopSaves(r, run[r].msgs, "returned")
       \/ /\ Counted
          /\ run' = [run EXCEPT ![r].pc = "returned"]
          /\ UNCHANGED <<store, route, sweep, view, excused>>

\* runCOE at the beginning of an iteration: the budget is anything.
Optimize(r) ==
    /\ run[r].pc = "running"
    /\ \E budget \in 1 .. Len(run[r].msgs) - 1 :
          run' = [run EXCEPT
             ![r].msgs = IF Compressing THEN OptimizedWith(@, budget, NewId(1))
                                        ELSE Optimized(@, budget),
             ![r].compacted = TRUE]
    /\ Counted
    /\ UNCHANGED <<store, route, sweep, view, excused>>

\* The model call fails for good, after a save; or something throws, without one; or the
\* agent cannot be created.
Throw(r) ==
    /\ run[r].pc = "running"
    /\ \/ LoopSaves(r, run[r].msgs, "threw")
       \/ /\ run' = [run EXCEPT ![r].pc = "threw"]
          /\ UNCHANGED <<store, route, sweep, view, excused, edits>>

\* SessionManager.save of the result: what the run has added is announced.
FinalSave(r) ==
    /\ run[r].pc = "returned"
    /\ LET s == run[r].s
           ms == run[r].msgs
       IN  \/ /\ Write(s, ms, run[r].marked)
             /\ Outdated(s, ByRun(r, [run[r] EXCEPT !.pc = "cleaning", !.current = TRUE]))
             /\ Added(s, ms, run[r].prev)
             /\ Excuse(s, ~run[r].current \/ run[r].compacted)
             /\ UNCHANGED <<sweep, edits>>
          \/ /\ Counted
             /\ run' = [run EXCEPT ![r].pc = "threw"]
             /\ UNCHANGED <<store, route, sweep, view, excused>>

\* Mutant of CatchLoad: nothing is announced of a run that failed.
CatchNothing(r) ==
    /\ run[r].pc = "threw"
    /\ run' = [run EXCEPT ![r].pc = "cleaning"]
    /\ UNCHANGED <<store, route, sweep, view, excused, edits>>

\* The catch block loads the session, and saves and announces what has been added to it.
CatchLoad(r) ==
    /\ run[r].pc = "threw"
    /\ LET s == run[r].s
       IN  run' = [run EXCEPT ![r] =
              IF s \in Existing /\ Len(store[s].msgs) > run[r].prev
              THEN [@ EXCEPT !.pc = "caught", !.msgs = store[s].msgs,
                             !.marked = store[s].marked, !.current = TRUE]
              ELSE [@ EXCEPT !.pc = "cleaning"]]
    /\ UNCHANGED <<store, route, sweep, view, excused, edits>>

CatchSave(r) ==
    /\ run[r].pc = "caught"
    /\ LET s == run[r].s
           ms == run[r].msgs
       IN  /\ Write(s, ms, run[r].marked)
           /\ Outdated(s, ByRun(r, [run[r] EXCEPT !.pc = "cleaning", !.current = TRUE]))
           /\ Added(s, ms, run[r].prev)
           /\ Excuse(s, ~run[r].current)
    /\ UNCHANGED <<sweep, edits>>

\* The finally block clears a marker it finds.
CleanLoad(r) ==
    /\ run[r].pc = "cleaning"
    /\ LET s == run[r].s
       IN  run' = [run EXCEPT ![r] =
              IF s \in Existing /\ store[s].marked
              THEN [@ EXCEPT !.pc = "clearing", !.msgs = store[s].msgs, !.current = TRUE]
              ELSE [IdleRun EXCEPT !.pc = "over"]]
    /\ UNCHANGED <<store, route, sweep, view, excused, edits>>

CleanSave(r) ==
    /\ run[r].pc = "clearing"
    /\ Write(run[r].s, run[r].msgs, FALSE)
    /\ Outdated(run[r].s, ByRun(r, [IdleRun EXCEPT !.pc = "over"]))
    /\ Excuse(run[r].s, ~run[r].current)
    /\ UNCHANGED <<sweep, view, edits>>

-----------------------------------------------------------------------------
\* Requests that load a session and save it again.
Load(a, s, op) ==
    /\ route[a].op = "none"
    /\ Counted
    /\ s \in Existing
    /\ \E id \in IF op = "edit" THEN {m.id : m \in ToSet(store[s].msgs)} ELSE {UserQuery} :
          /\ op = "edit" => Editable(store[s].msgs, id) # {}
          /\ op = "retry" => UserTurns(store[s].msgs) # {}
          /\ route' = [route EXCEPT ![a] =
                [op |-> op, s |-> s, msgs |-> store[s].msgs, marked |-> store[s].marked,
                 id |-> id, current |-> TRUE]]
    /\ UNCHANGED <<store, run, sweep, view, excused>>

RouteSaves(a, ms) ==
    LET s == route[a].s
    IN  /\ Write(s, ms, route[a].marked)
        /\ Outdated(s, ByRoute(a, IdleRoute))
        /\ Excuse(s, ~route[a].current)
        /\ UNCHANGED <<sweep, edits>>

\* update, archive, summarize: nothing of the transcript changes.
Update(a) == route[a].op = "update" /\ RouteSaves(a, route[a].msgs) /\ UNCHANGED view

\* editMessage: message.updated.
Edit(a) ==
    LET s == route[a].s
        ms == Edited(route[a].msgs, route[a].id)
    IN  /\ route[a].op = "edit"
        /\ RouteSaves(a, ms)
        /\ view' = [view EXCEPT ![s] =
              {v \in @ : v.id # route[a].id} \cup {v \in Seen(ms) : v.id = route[a].id}]

\* retry: message.removed for each message that goes.  (The prompt that follows is any
\* Prompt.)
Retry(a) ==
    LET s == route[a].s
        ms == Kept(route[a].msgs)
    IN  /\ route[a].op = "retry"
        /\ RouteSaves(a, ms)
        /\ view' = [view EXCEPT ![s] =
              {v \in @ : \A i \in Len(ms) + 1 .. Len(route[a].msgs) : v.id # route[a].msgs[i].id}]

\* The copy gets an id of its own; a client fetches it when it hears of it.
Copies(a, f) ==
    /\ f \notin Existing /\ Holds(f) = {} /\ Serves(f) = {}
    /\ Write(f, route[a].msgs, route[a].marked)
    /\ route' = [route EXCEPT ![a] = IdleRoute]
    /\ view' = [view EXCEPT ![f] = Seen(route[a].msgs)]
    /\ Excuse(f, route[a].s \in excused)
    /\ UNCHANGED <<run, sweep, edits>>

Fork(a, f) == route[a].op = "fork" /\ Copies(a, f)

\* import() of what export() has returned before.
Import(a, f) == route[a].op = "import" /\ Copies(a, f)

\* DELETE, of which the clients hear.
Delete(s) ==
    /\ Counted
    /\ s \in Existing
    /\ store' = [store EXCEPT ![s] = NotStored]
    /\ Outdated(s, ByRun(NotStored, IdleRun))
    /\ view' = [view EXCEPT ![s] = {}]
    /\ UNCHANGED <<sweep, excused>>

\* A session has not been saved for longer than staleSessionAgeMs.
Age(s) ==
    /\ s \in Existing /\ ~store[s].old
    /\ Counted
    /\ store' = [store EXCEPT ![s].old = TRUE]
    /\ UNCHANGED <<run, route, sweep, view, excused>>

\* The clean-up lists the sessions, then removes what was stale, one by one, and tells
\* nobody.
List ==
    /\ sweep = {}
    /\ sweep' = {s \in Existing : store[s].old}
    /\ sweep' # {}
    /\ UNCHANGED <<store, run, route, view, excused, edits>>

CleanUp(s) ==
    /\ s \in sweep
    /\ sweep' = sweep \ {s}
    /\ store' = [store EXCEPT ![s] = NotStored]
    /\ Outdated(s, ByRun(NotStored, IdleRun))
    /\ Excuse(s, TRUE)
    /\ UNCHANGED <<view, edits>>

\* The server dies; what its runs had not announced stays unannounced.
Crash ==
    /\ Counted
    /\ excused' = excused \cup {s \in Sessions : Holds(s) \cup Serves(s) # {}}
    /\ run' = [r \in Runs |-> IF run[r].pc = "idle" THEN run[r] ELSE [IdleRun EXCEPT !.pc = "over"]]
    /\ route' = [a \in Routes |-> IdleRoute]
    /\ sweep' = {}
    /\ UNCHANGED <<store, view>>

RunStep(r) ==
    \/ Mark(r) \/ ToolStep(r) \/ Answer(r) \/ Stop(r) \/ Optimize(r) \/ Throw(r)
    \/ FinalSave(r) \/ CatchLoad(r) \/ CatchSave(r) \/ CleanLoad(r) \/ CleanSave(r)

Next ==
    \/ \E r \in Runs : RunStep(r) \/ \E s \in Sessions : Prompt(r, s)
    \/ \E a \in Routes :
          \/ \E s \in Sessions, op \in {"update", "edit", "retry", "fork", "import"} : Load(a, s, op)
          \/ \E f \in Sessions : Fork(a, f) \/ Import(a, f)
          \/ Update(a) \/ Edit(a) \/ Retry(a)
    \/ \E s \in Sessions : Delete(s) \/ Age(s) \/ CleanUp(s)
    \/ List
    \/ Crash

Spec == Init /\ [][Next]_vars

-----------------------------------------------------------------------------
\* The type invariant.
RunType ==
    [ pc : {"idle", "loaded", "running", "returned", "threw", "caught", "cleaning",
            "clearing", "over"},
      s : Sessions \cup {NotStored}, msgs : Seq(Messages), prev : Nat,
      marked : BOOLEAN, current : BOOLEAN, compacted : BOOLEAN ]
RouteType ==
    [ op : {"none", "update", "edit", "retry", "fork", "import"},
      s : Sessions \cup {NotStored}, msgs : Seq(Messages), marked : BOOLEAN,
      id : Ids, current : BOOLEAN ]

TypeInvariant ==
    /\ store \in [Sessions -> Stored \cup {NotStored}]
    /\ run \in [Runs -> RunType]
    /\ route \in [Routes -> RouteType]
    /\ sweep \subseteq Sessions /\ excused \subseteq Sessions /\ edits \in 0 .. MaxEdits
    /\ view \in [Sessions -> SUBSET [id : Ids, ver : 0 .. 1]]

\* No edit, retry, optimisation, fork, takeover or crash takes a tool result from its
\* request or a request from its results, in what is stored and in what a run would send
\* to the model next.
PairsKept == \A ms \in Transcripts : Paired(ms)

\* Message ids, by which edits and events name messages, are distinct in every transcript
\* that was not optimised: the loop numbers its steps by the length of the transcript.
IdsDistinct == \A s \in Existing : s \notin excused => DistinctIds(store[s].msgs)

\* Once no run is at work on a session, a client that followed its events knows exactly
\* the messages that are stored, with the content they were edited to: whether the run
\* answered, stopped or failed, and with edits and retries before it.  Excused are sessions
\* of which something was optimised away, overwritten by a holder of an older copy, left by
\* a crash, or cleaned up.
ViewIsStore ==
    \A s \in Existing :
        (s \notin excused /\ Holds(s) = {}) => view[s] = Seen(store[s].msgs)
=============================================================================
