# A TLA+ model of Butterfly-Agent

Butterfly-Agent is a coding agent behind an HTTP server: a prompt starts a *run* of an
agent loop in a *session*, the run calls a model and tools, asks the user for permission,
saves the session as it goes and reports its life as events. Everything is one Node.js
process per server, so nothing is preempted; but each `await` lets every other prompt, route
and timer run, and the files under `~/.butterfly/sessions` are shared by as many processes as
there are servers and agents. The model is about what can happen at those awaits.

Paths below are under `src/packages/` unless they say otherwise.

## 1. Inventory

| component | state it keeps | operations | what makes it correct |
| --- | --- | --- | --- |
| Run state manager (`server/src/run-state.ts`) | `runs`: session to live run; `resolvers`: session to the resolver of its `done` promise | `start` (aborts the prior run), `complete`, `error`, `abort`, `abortAll`, `recoverFromStore` | events bracket runs, one live run per session, each run ends once and by its own verdict, promises and signals follow the table |
| Session agent run (`server/src/agent-run.ts`) | a session object per run, the abort controller | `runSessionPrompt`, `executeRun`: load or create, start, mark, create the agent, loop, save, report, clean up | a run always reports; its clean-up harms no other run; markers tell interrupted runs from live ones |
| Server app (`server/src/app.ts`, `src/apps/server`) | the components, one `initPromise` | `createAgent` (sweeps the store each time), `dispose` | recovery clears the dead and only the dead |
| Permission requests (`server/src/permission-store.ts`, `routes/permission.ts`) | pending requests with their timers and resolvers | ask, reply, time out, `clearForSession`, `clear` | every question is settled once, nobody waits for ever, nothing is granted without a yes |
| Permission hook (`agent/src/permission.ts`) | "always" rules per hook | decide, ask, remember | an operation is let through only by a rule or an answer that allows it; what was answered "always" is not asked again |
| Agent factory, subagent, todos (`agent/src/factory.ts`, `subagent.ts`, `tools/src/tools/todowrite.ts`) | `todosRef` and the installed loop detector of one agent | restore, write, copy and save todos; spawn a run | a session keeps the list that was written for it, and no other |
| Selective context engine (`context/src/sce.ts`) | a cache of 20 selections, the searches under way | `select` | an answer is as recent as its call may expect |
| Session list (`routes/session.ts:75-109`, `server/src/cursor.ts`) | none: the cursor is the client's | list a page | a walk shows each session once |
| File session store (`session/src/fs-store.ts`) | `<id>.json`, `.tmp`, `.lock` | `save`, `delete`, `load`, `list` | exclusion, whole files, no lock left behind, survivors are not blocked |
| Other stores (`store.ts`, `sqlite-store.ts`) | a map; a table | same interface | a save is atomic |
| Session manager and routes (`server/src/session-manager.ts`, `routes/session.ts`) | none of their own | create, update, fork, import, edit, retry, revert, delete, prompt, abort, status | edits and runs do not destroy each other's work |
| Agent loop (`agent/src/loop.ts`) | the working session, escalation depth, notices, the loop detector of the run | iterations: model call, tool calls (a parallel batch, then the rest), save | terminates; every tool call gets its result; vetoes and escalation work as documented |
| Loop detector, router (`agent/src`) | history ring, veto streaks; none | `check`, `record`, `registerVeto`, `clearVetoes`; `escalate` | a repeated failure is vetoed and finally breaks the loop |
| Event bus, replay, SSE route (`server/src/bus.ts`, `event-replay.ts`, `routes/event.ts`) | id counter, rings of 500 and 200, subscribers | `emit`, `replay`, stream | a client misses nothing that the rings still hold and sees nothing twice |
| Client SDK (`client/src`) | last event id, back-off | reconnecting stream, `promptAndWait` | it reports the end of its own run; it catches up after a lost connection |
| Context optimiser, compactor (`context/src/coe.ts`, `agent/src/compactor.ts`) | none | `optimize`: compress, drop groups | a tool call and its results stay together |
| LLM adapters (`llm/src/*-adapter.ts`, `failure.ts`, `loop.ts:680-768,1276-1417`) | retry counters, accumulators, timers | complete, stream, retry, time out | one answer comes from one request; a failure that will not pass is not retried; a call ends |
| LSP client (`context/src/lsp-client.ts`) | the server process, open files, pending requests | start, open, ask, reply, drain, shut down | a server is asked about files it was told of; every call ends |
| MCP connections (`tools/src/mcp.ts`, `server/src/integrations/mcp.ts`) | a map from names to clients | connect, connect all, disconnect, dispose | no client is open that no name leads to |
| ACP agent (`acp/src`) | a bounded map of sessions with their abort controllers | new, load, set mode, prompt, cancel, evict | an evicted session's run is told to stop; no prompt loses the turns of another |
| Tools and change record (`tools/src/tools`, `loop.ts:1104-1232`) | the workspace, `readFiles`, `fileChanges` | read, write, patch, delete, bash, rollback, revert | a file is read before it is overwritten; a rollback undoes what was recorded |
| Snapshots (`agent/src/snapshot.ts`, `factory.ts:280-300`) | a git index and its trees | track, restore | a restore brings back what was there |
| Model catalogue (`llm/src/models-dev.ts`, `provider.ts`) | memory and a file on disk | look up, refresh, clear, list | a catalogue once known is not lost to a failing network |
| Background jobs (`agent/src/jobs.ts`) | a timer | delete stale sessions | never a session in use |
| HTTP layer, indexer, configuration, read-only routes | rate buckets; none | parsing, listing | no protocol; see section 8 |

How they interact: a route calls `runSessionPrompt`, which calls the session manager (hence
the store) and the run table, then `createAgent` (hence the sweep, which walks the same store
and reads the same run table) and the loop, which saves through the store *directly*. The
permission hook of the run's tools puts questions into the permission store; routes and timers
settle them. The run table, the permission store and the session manager publish on the bus.
Nothing locks a session inside the process: `start` aborts the prior run but does not wait for
it, so two runs of a session overlap until the older one has unwound.

What is hard: takeovers (old and new run overlap across a dozen awaits); load-then-save of the
same session by runs, sweeps and routes; recovery after a crash with stale objects; clean-ups
keyed by session rather than by run; three parties settling one permission question; a lock
protocol on files with crashes at every step; a loop with seven exits whose failure detector
sees a bounded window, and sees a parallel batch before any of it has run; streams that are cut,
resumed and replayed from rings that forget; transcripts that runs, edits, forks and clean-ups
all write; retries inside retries; caches and maps that several operations change across
their awaits; memories of one agent that outlive a run or serve several sessions; pages of a list
that moves. `PROJECT.json` lists these as hazards, each at
its line.

## 2. Modules

| module | models | state and actions |
| --- | --- | --- |
| `RunLifecycle` | what the run table promises (abstract) | `phase`, `place`; `Begin`, `End`, `StopAll` |
| `RunState` | `run-state.ts` with the calls `agent-run.ts` makes | the two maps, which task reported what, signals, promises, outcomes and the events per session; `Start`, `TaskReturned`, `TaskThrew`, `AbortSession`, `AbortAll`, `Restart` |
| `SessionRun` (extends `RunState`) | `agent-run.ts`, the sweep, `createAgent`, the session routes, the save points of the loop | the store, and per run a program counter with one value per await; one action per stretch between awaits |
| `Permissions` (extends `RunState`) | the permission store, routes, timers, hook, `executeRun`'s clean-up | pending, timers, who waits for what, answers and announcements |
| `FsLock` | `save()` and `delete()` of `fs-store.ts` by several processes | lock file, temporary file, session file, one step per file-system call, ages |
| `LoopDetector` | `loop-detector.ts`: a `ToolLoopTracker` as a value | history and veto counts; operators `Check`, `Record`, `RegisterVetoes`, `ClearVetoes` |
| `AgentLoop` (extends `LoopDetector`) | `run()` of `loop.ts` and `escalate()` of `router.ts`, for the runs of one loop object | which run's detector is installed, the trackers, and per run its place, counters, tier and the calls of its response; one action per stretch between awaits and per exit |
| `EventStream` (extends `RunState`) | `bus.ts`, `event-replay.ts`, `routes/event.ts`, `client/src/sse.ts` | the counter, a ring per scope, and both ends of each client's stream: what is on the wire, the last id, what was delivered; connections are lost, fetches fail, the server restarts |
| `PromptAndWait` (extends `EventStream`) | `promptAndWait` of `client/src/client.ts` | the waiting call beside clients that only subscribe |
| `Transcript` | messages as a value: `loop.ts`, `coe.ts`, `compactor.ts`, `session-manager.ts` | operators: `Primed`, `WithStep`, `Optimized`, `Edited`, `Kept` |
| `SessionEdits` (extends `Transcript`) | runs, routes and the clean-up job as holders of a transcript | store, who holds which copy, what a follower of the events knows |
| `LlmCall` | `callLLM`, `completeWithStream`, `withStreamWatchdog` and the three adapters | one call: attempts, requests, what the provider sent, what was accumulated |
| `LspClient` | `lsp-client.ts` | the servers started, `openFiles`, waiters, pending calls, shutdown |
| `Mcp` | the MCP map with its integration and routes | the map, the clients, operations with one value per await |
| `Acp` | `butterfly-acp-agent.ts` | entries, the map, prompts with one value per await |
| `Workspace` | the tools that change files, the change record, rollback and revert | files, record, what was read |
| `Snapshots` | `snapshot.ts` and the hook that calls it | work tree, index, trackers, a restorer |
| `Catalog` | `models-dev.ts` in several processes, `provider.ts` | memory per process, the disk file, lookups |
| `PermissionRules` | `permission.ts` and the check in `executeOneTool` | the rules, what was approved, the call that met the hook; `HookMeets`, `HookAnswered`, `HookRebuilt` |
| `SharedAgent` | what an agent keeps between its runs: `factory.ts`, `loop.ts:359-368,465-483`, `subagent.ts`, `todowrite.ts` | `todosRef` and the detector per agent, runs with their session and parent, todos in the store and in the ACP agent's hands |
| `Selection` | `select()` of `sce.ts` | calls, cache, searches in flight, a clock |
| `Pages` | `GET /api/sessions` with `cursor.ts` and the stores' `list()` | sessions by the time of their last save, a client's walk |
| `Services` (extends `LlmCall`, `LspClient`, `FsLock`) | composes components whose calls must end | `service` says which of them runs |
| `SharedParts` (extends `Permissions`, `PermissionRules`, `SharedAgent`, `Selection`, `Pages`, `Mcp`, `Acp`, `Workspace`, `Snapshots`, `Catalog`) | composes components that runs, clients and processes share | `part` says which of them runs |
| `*Proofs` | theorems: `RunStateProofs`, `SessionRunProofs`, `AgentLoopProofs`, `AcpProofs` and `SessionEditsProofs` are about the modules of those names, `EventStreamProofs` about `EventStream` and `PromptAndWait`, `ServicesProofs` about `LlmCall`, `FsLock` and `LspClient`, `SharedPartsProofs` about `Permissions`, `PermissionRules`, `SharedAgent`, `Selection`, `Pages`, `Mcp`, `Workspace`, `Snapshots` and `Catalog` | |
| `MC*` | instances for TLC | |

`SessionRun`, `Permissions` and `EventStream` extend `RunState` and call its operators, so one
definition of the run table serves all: `ReportReturn` of `SessionRun` *is* `TaskReturned` of
the table plus what `executeRun` does around it, and `Publish` of `EventStream` sends the very
events that a step of the table has appended.

`Services` and `SharedParts` run one component at a time from one root. Their components have no
variable in common, in the code as in the model, so interleaving them would only multiply states;
those that do meet (the run table with the bus, the prompt path with the sweep, runs with edits)
are composed for real in `SessionRun`, `PromptAndWait` and `SessionEdits`.

Abstractions worth knowing:

* A stored session is `[turns, marker]`: whose messages it holds and which run's `activeRun`
  marker it carries. That is what overwriting, recovery and clean-up can tell apart.
* A run is identified with the `AbortController` that `start` creates, as `expectedAbort`
  does. Each run in `Runs` is one prompt.
* `Restart` is the death of the process together with the next boot. `outcome` becomes `lost`
  for runs that were live, and nothing but the store survives.
* Store calls may fail only as often as `MaxTroubles` allows, and each kind of trouble
  (failing store, failing `createAgent`, DELETE, PATCH, crash) happens once in a behaviour.
  What one trouble of each kind can do is covered; two failing saves in one behaviour are not.
* A route's load and save in one `PATCH` are two steps; so are those of the finally block, of
  the catch block and of the sweep. `SaveMarker` saves a copy of the object, and the loop goes
  on with the original, as in the code.
* In `Permissions` the store's `await`s are left out but for the one in the catch block, which
  separates a run's report from its clean-up. A run waits for one question at a time because
  tools that need permission run serially (`loop.ts:953-956`).
* In `AgentLoop` the model's answers, the results of tools and the fate of saves are arbitrary.
  Arguments stand for their hashes. Notices are left out, since they only word the next prompt,
  and so are transcripts and plans. The retries of a model call are part of the one step that
  calls the model. No caller puts a plan into the request, so `planned` starts FALSE; nobody
  injects `deps.loopDetector`, so every run installs a fresh one (`loop.ts:368`).
  Several runs may be under way on one loop object: the ACP agent has a single loop for all its
  sessions (`acp/src/butterfly-acp-agent.ts:226`), and a subagent runs on the loop of its parent
  (`agent/src/subagent.ts:81`). They share the field `activeLoopDetector` and nothing else.
  `Check` tests the no-progress streak on the last `CriticalThreshold - 1` entries instead of
  counting it: only the comparison with the threshold is used.
* In `FsLock` a file is named by the call that created it, so that an open descriptor, the
  name `.tmp` and the name `.json` may denote the same file. `writeFile` is an open that
  truncates, then a write: a write into a file that another call has filled since may leave
  the longer tail of the other's content (`torn`). Time is kept as ages that stop growing just
  above the largest limit the code compares them with.
* In `EventStream` an event is its number, its session and what it says of a run; other kinds are
  one (`Other`). A frame that is written to a lost connection is lost with it. A response that
  refuses a write is destroyed by the route, which is a lost connection here. The back-off is
  left out: a retry comes at some time.
* In `SessionEdits` a message is an id, a role, the number of results and whether it was edited,
  and weighs one token; so budgets, `MAX_MESSAGES` and the compressor's limits are small numbers.
  Ids made by clocks, providers and `randomUUID` are fresh. `current` says whether anybody has
  written the session since a holder loaded it, which is what decides whether events can be right.
* In `LlmCall` a provider sends any sequence of text and tool calls, whole, cut off or without
  arguments, and then ends, fails or falls silent. Message conversion and usage are left out.
* In `LspClient` the file that is opened is read by an await; replies come in any order, the
  server may exit between any two steps, and a pipe may be full.
* In `Mcp` the SDK's `connect` and `listTools` are one await that succeeds or throws; `mcpAnnounced`
  is the last event about a name since the last `dispose()`, which says nothing itself.
* In `Acp` the agent loop saves the object it was given at any time. Entries of the map are
  objects of their own, since a prompt keeps the entry it found while the map moves on.
* In `Workspace` a shell command changes any file and is recorded as a change of "?"; a formatter
  is part of the tool that calls it, which waits for it.
* In `Snapshots` `git add` and `write-tree` share the index and its lock file with every other
  git command; an undisturbed tracker is one that nothing overlapped.
* In `Catalog` each process has its memory, all share the file; time passes in steps of a
  cache's life.
* In `PermissionRules` a glob is the set of values it matches (`RuleMatches`), the file tools are
  one, and a call without a path or a command is the value `Unnamed`. Only the server asks a user,
  and it makes an agent for every run, so one question is open per hook.
* In `SharedAgent` a list of todos is known by the run that wrote it. One variable, `perRun`, tells
  the server (an agent per run) from the ACP agent (one for all sessions). A subagent's session is
  stored under an id of its own, which nobody loads.
* In `Selection` a search is known by when it began and ended. What it finds is left out.
* In `Pages` the list is taken in one step and the page is loaded session by session: a session
  that is saved while the list is read is one of those the property does not speak of.

## 3. Runs

| run | instance | checks | distinct states |
| --- | --- | --- | --- |
| `SessionRun` | 1 session, 2 runs, no troubles, fair | `RunSpec` (the table is used only as `RunState` says), every prompt ends | 40 930 |
| `BootAfterCrash` | 2 sessions, a dead run's marker in one, 2 new runs, 1 trouble, symmetric in the new runs | no zombie entries, every marker has a keeper, a finished sweep has cleared the dead | 2.0 million |
| `AgentLoop` | 1 run of 3 steps, responses of up to 2 calls out of 4 (a parallel tool with 2 arguments, a serial one, an unknown one), thresholds 2, history 2, 2 tiers, fair | three safety invariants, vetoes are earned, every run ends | 379 811 |
| `PromptAndWait` | 1 session, 2 runs, 1 client, rings of 3 and 2, 1 other event, 1 lost connection or restart, fair | the run events, refinement of `RunLifecycle`, streams are complete and in order, what `promptAndWait` reports is true, clients catch up | 453 780 |
| `SessionEdits` | 2 sessions, 2 runs, 1 route, 3 messages, 1 edit or trouble, symmetric | pairs, ids, events tell what is stored | 1.3 million |
| `Services` | a model call with 1 retry at each level and 2 chunks; 2 LSP calls of 1 file and 2 servers; 2 savers of a file with a timeout of 1 tick; fair | one answer is of one request, a server is asked of what it was told of, exclusion and whole files while nobody is overtaken, a lone call succeeds, and every call ends | 142 926 |
| `SharedParts` | 2 sessions, 2 runs, 2 questions; 3 values, 2 bash patterns, 5 rule sets, 2 answers "always"; 2 runs and 2 sessions of an agent; 3 selections, a cache of 1; 3 sessions in pages of 2; 2 MCP names and operations; 2 ACP sessions and prompts in a map of 1; 2 files, 2 contents, 2 changes; 1 file and 2 iterations of snapshots; 2 catalogue calls of 2 processes; fair to questions | one or two properties of each component | 597 477 |

Why these bounds: two sessions are needed where something walks over several (the sweep,
`clearForSession`, forks). In `BootAfterCrash` the dead run is a third run, so a takeover and a
sweep happen on a session that already carries a foreign marker. Two calls suffice for each
pairwise conflict of `FsLock`; three were tried once without the liveness property (9.1 million
states, no error) and the theorems hold for any number. Ages need only reach one above the
limits, since the code only compares. In `PromptAndWait` two runs of a session are a takeover,
which is what the run events must survive (three runs and two sessions were checked before the
bus was added, and the theorems are for any number); a ring of 2 forgets a run's start while its
end is there, and the global ring outlives it. One lost connection meets every state of the
stream, and a restart every id. In `SessionEdits` one edit meets two overlapping runs at any of
their awaits, and the three messages are a query, a call and its result or an answer, which is
the smallest transcript that can be cut wrongly.

In `AgentLoop` the thresholds are the least at which each detector can both warn and veto, three
steps let a call fail, be vetoed and trip the breaker, and the history of 2 forgets in that
time. With a second run on the same loop the passing properties no longer fit the time of a
run; they are proved for any number of runs (section 5).

In `Services` and `SharedParts` each component has two of what can collide in it: two requests of
a model call, two calls that want the same file, two questions, two operations on one MCP name,
two prompts for a map of one entry, two changes of a file, a tracker and a restorer, two processes
on one cache file, a run and its subagent or the run of the next session, a search and two calls
that meet it. Three sessions fill a page and leave one for the next. The rule sets put a "deny"
before an "ask" that covers more, and an "ask" before an "allow".

`MCSharedParts` cuts symmetric behaviours by constraints on the steps instead of a symmetry set,
which liveness does not allow: sessions, runs and questions are interchangeable, so the first run
is of the first session, and runs and questions begin in order. Runs that have agents of their own
meet nowhere but in a session, so both are of one there.

The type invariants are not spent on runs: those of all modules are proved, on their own or as
a part of the inductive invariants of section 5.

Deadlock checking is off where the system may come to rest: all prompts have ended, all calls
are over.

### Fairness

* `SessionRun`: weak fairness of each run's own steps and of the loop's return. Awaited store
  calls and `createAgent` settle, and the loop stops after at most `maxSteps` iterations
  (`loop.ts:375`), though nothing bounds how long an iteration takes. Nothing is assumed of
  prompts, routes, crashes or failures.
* `Permissions` (in `SharedParts`): an armed timer fires (`setTimeout`), and a resolved promise resumes its
  awaiter. No answer of the user is assumed.
* `AgentLoop`: weak fairness of each run's steps. Tools and permission questions have timeouts,
  and store calls return; that a model call returns is what `CallReturns` of `LlmCall` shows, and
  its exception. Nothing is assumed of the abort signal, nor of which tool of a batch returns
  first.
* `FsLock` (in `Services`): the calls of a process that lives return, sleeps end, time passes. Nothing is
  assumed of crashes or failures.
* `PromptAndWait`: requests are answered or fail, frames on a connection that holds arrive, the
  reconnect timer fires, promises resume their awaiters. Nothing is assumed of runs, of
  deadlines, nor that a connection is lost.
* `LlmCall`: the loop's own steps and the watchdog's timers; a provider sends its end, fails or
  falls silent. That a silent provider ever speaks again is not assumed.
* `LspClient`: files are read, a server that lives answers or refuses what it is sent and drains
  its pipe, the timers of `sendRequest` fire. Nothing is assumed of its death.

### Where code and comments disagree

Five runs expect a violation. Each states what a comment of the repository says, and TLC
shows the interleaving in which the code does otherwise.

* `OwnResult` (`client.ts:264-265`): `promptAndWait` subscribes after its prompt was accepted and
  is replayed the session's history, so the first end of a run that it hears of may be that of
  an earlier run; it answers with it at once.
* `PairsKept` (`coe.ts:129-131`), with a compressor: the pass before the one the comment speaks of
  cuts by position, keeping the last two messages and, of the rest, the last three. Both cuts
  may lie between a call and its results. Without a compressor the property holds (the run
  `SessionEdits`).
* `StreamReachesProvider` (`types.ts:106`): `completeWithStream` calls the adapter's method without
  its object (`loop.ts:1365`), so every run with one of the three adapters fails before its first
  request. Clients made of plain functions, which the tests use, are not affected.
* `StoreIsWhole` (`fs-store.ts:125-127`): an empty lock file counts as stale, so a saver may
  break the lock of one that has just created it; both then share the temporary file and one
  rename publishes a file that is being written.
* `TodosAreOwn` (`todowrite.ts:17`, `factory.ts:166`): the ACP agent's sessions share one
  `todosRef`. A run restores the list of its session only if there is one (`loop.ts:362-365`), so a
  session without todos goes on with the list of the session that ran before, and its first save
  stores that list.

More definitions state what a comment says, or what one would like to hold, and do not hold; they
stand at the end of their modules, and TLC shows the counterexample when the named line is added
to the named configuration:

| definition | add to | what TLC then shows |
| --- | --- | --- |
| `RunningIsMarked` (`agent-run.ts:204-205`, `types.ts:128-129`) | INVARIANT in `MCSessionRun.cfg` | the marker is saved in a copy, and the loop's next save writes the original over it: a run is marked only until then, and a crash later leaves nothing to recover |
| `RecoveredWasInterrupted` (`run-state.ts:168-169`) | INVARIANT in `MCBootAfterCrash.cfg` | an aborted run has left the table but not unwound, and a sweep (it may be its own) reports it as interrupted |
| `AbortedRunTakesNothing` (`run-state.ts:11`) | PROPERTY in `MCSessionRun.cfg` | an aborted run unwinds with a save of what it had, over what its successor has completed with |
| `DroppedWhenOver` (`agent-run.ts:161-162`) | PROPERTY in `MCSharedParts.cfg` | the clean-up of a superseded run denies the questions of its successor |
| `EveryStreakBounded` (`loop.ts:367`, `loop-detector.ts:41`) | INVARIANT in `MCAgentLoop.cfg`, with `Runs = {long, short}` | the first run's calls are checked against the detector that the second run has installed |
| `WatchdogReleases` (`loop.ts:1293`) | PROPERTY in `MCServices.cfg` | the watchdog ends the wait for the next event, then awaits `return()` of an iterator whose provider stays silent |
| `ShutdownReleases` (`lsp-client.ts:243`) | PROPERTY in `MCServices.cfg` | a request, that of `shutdown()` too, to a server that was killed waits for "drain" of its pipe, which is not rejected |
| `NoneLeaked` | INVARIANT in `MCSharedParts.cfg` | of two connects of one name the slower takes the entry; nobody can close the other's client |
| `RestoreIsComplete` (`snapshot.ts:35`) | INVARIANT in `MCSharedParts.cfg` | a file that was created since the snapshot is still there |
| `FallsBackOnWhatIsThere` | PROPERTY in `MCSharedParts.cfg` | a lookup whose fetch fails answers with what it read before, although its process has fetched since |
| `DisabledIsUnlisted` (`llm/src/client.ts:100`) | INVARIANT in `MCSharedParts.cfg` | a model that the configuration disables is listed |
| `StopsAsking` (`permission.ts:11-13`) | INVARIANT in `MCSharedParts.cfg` | a command that no bash rule is about is asked about again after "always": the fallback (`permission.ts:129-131`) remembers the answer and never looks it up; and the next run has a hook without memory |
| `DetectorIsOwn` (`loop.ts:367`) | INVARIANT in `MCSharedParts.cfg` | after its subagent a run goes on with the subagent's loop detector |
| `NoDrift` (`cursor.ts:4-6`) | INVARIANT in `MCSharedParts.cfg` | of two sessions with the same time, listed in either order, the cursor passes the one with the greater id, which is never shown |
| `SkippingLooksNow` (`sce.ts:118-119`) | INVARIANT in `MCSharedParts.cfg` | a call that skips the cache joins a search that another such call began before |

Seen while modelling, without a definition of its own because nothing in the repository states
the contrary precisely enough, or because the property would repeat a guard:

* With a fixed model `escalate()` answers `capped` (`router.ts:77`), so such a run stops at its
  first failing tool; `router.ts:67-68` calls escalation a no-op there.
* `clearVetoes` is called with the verdict a call was let through with, whose key is never the
  no-progress key the vetoes were counted under (`loop-detector.ts:191`): vetoes add up over the
  run, although the option says "consecutive" (`loop-detector.ts:43`).
* `WANDER_TOOLS` lists `webfetch` (`loop-detector.ts:74`), the tool is called `web_fetch`.
* A call of an unknown tool leaves the assistant's tool call without a result (`loop.ts:970`).
* A read that fails still marks its path as read (`loop.ts:1187`).
* A serial tool that throws ends the run without a save (`loop.ts:955`); the batch turns the same
  failure into an error result.
* `ready` of a stream never settles if the first request fails and every later one does
  (`sse.ts:119-121` and the comment at `sse.ts:31`); when it rejects, the stream of
  `promptAndWait` goes on reconnecting (`client.ts:284`).
* A response that refuses a write in the middle of a replay is destroyed (`routes/event.ts:51`);
  the client comes back with a later id, and gets the rest.
* fork and import copy the `activeRun` marker (`session-manager.ts:218`). After an optimisation
  `previousMessageCount` exceeds the transcript, and no event tells of what the run added.
* `anthropic-adapter.ts:136` and `gemini-adapter.ts:121` say "Non-retryable errors: throw
  immediately", and throw inside the `try` whose `catch` goes on to the next attempt. (This is the
  exception in `FatalIsFinal`.)
* Gemini's stream keeps tool calls by their place in the event (`gemini-adapter.ts:320`), so that
  the next event's call takes the place of one; a stream that is cut ends as if it were whole.
* The exit handler of any server process clears the fields of the current one, and a server that
  was killed by a signal leaves the client initialised (`lsp-client.ts:355-373`); a request then
  waits for "drain" of a dead pipe.
* A cancel that arrives before the prompt has taken its signal is lost
  (`butterfly-acp-agent.ts:242`); a prompt to a session that was evicted stores a blank one over it.
* `apply_patch` is not among the tools whose changes are recorded (`loop.ts:217-250`): it needs no
  file to be read first, and no rollback takes its changes back. The revert route does not
  remove files that were created (`routes/session.ts:303-355`).
* `refresh()` removes the disk cache before it fetches (`models-dev.ts:310-318`): without a network the
  catalogue is gone.
* Neither the tool nor the factory passes a subagent's depth on (`factory.ts:320-322`), so `spawn`
  always counts from 0 and `MAX_SUBAGENT_DEPTH` (`subagent.ts:40`) stops nobody; the limits are the
  steps of each run.
* `updatePlanFromResults` discards what `updatePlanFromToolResult` returns, so a plan never
  progresses.

## 4. Properties, in words

* Run table: `EventsBracketRuns`, `EndsAreOwn` (a late report of a superseded run never ends its
  successor, `VerdictIsOwn`, and promise and signal follow the entry, `SettledWithItsEntry`),
  `ImplementsLifecycle`.
* Prompt path: `RunSpec`, `PromptEnds`, `NoZombieRun` (no path through `executeRun` leaves its
  entry), `MarkerHasKeeper` (a marker in the store has somebody who will clear it, save for the
  two exceptions it names: a failed save and a metadata edit), `SweepClearsTheDead`.
* Permissions: `QuestionIsAnswerable` (a suspended tool's question is listed and timed, a listed one
  is open and awaited), `SettledOnce`, `WaitEnds`, and `GrantedByReply` (a tool goes on
  only after a yes), proved and not run. `QuestionIsAnswerable` excepts the end of `dispose()`, which drops the questions
  without settling them; the process exits right after.
* Agent loop: `StreakBounded` (no call fails more often in a row than the threshold allows; a
  parallel batch, checked as a whole before it is recorded, may add one failure per further
  place), `VetoIsEarned` (a no-progress veto falls only on a call that really failed that often,
  whatever was vetoed, refused or forgotten in between), `ReturnedIsSaved` (whichever exit the
  loop takes, the store was last given what it returns), `AbortHeeded` (after the signal at most
  the model call that was next, and one more if its answer was a plan), `LoopEnds`, and
  `CappedAtTop` (a tiered run gives up for its failures only at the strongest tier), proved and
  not run. The first two speak of
  runs that had their detector to themselves.
* File store: `ExclusiveUnlessOvertaken`, `StoredUnlessOvertaken`,
  `LoneSaverSucceeds`, `CallEnds`, and `LockHasKeeper`, proved and not run. The first two say exactly how far the lock protects: until
  some live holder's lock has been removed by another call.

* Event stream: `ResumeIsComplete` (a resumed stream misses nothing that the rings still hold),
  `Ascends` (nothing comes twice or out of order, although it may be in the replay, on the lost
  connection and in the live part of the next), `CatchesUp` (a stream that stays open has in the
  end read what its ring holds). Excepted are streams resumed with an id of an earlier process.
  `ReportIsTrue`: the end that `promptAndWait` returns may be that of another run than its own
  (section 3), but it is one that a run of its session really had, whatever was lost, replayed or
  restarted on the way.
* Transcripts: `PairsKept`, `IdsDistinct` (edits and events name messages by id; the loop makes
  the ids of its steps from the length of the transcript), `ViewIsStore` (who followed the events
  knows what is stored, once nobody is at work on the session and nobody wrote over a newer copy).
* Model call: `AnswerIsOfOneRequest` (no piece of a failed attempt, nothing twice, nothing lost but
  what an adapter drops), `CallReturns`; in addition `FatalIsFinal` and `RequestsBounded`, which
  are proved and not run.
* LSP: `AskedIsOpen`, `LspCallEnds`. MCP: `ConnectionsAccounted`. ACP: `TurnsAreKept`,
  and `EvictedIsAborted` and `MapIsBounded`, proved and not run. Workspace: `RollbackUndoes`. Snapshots:
  `RestoreBringsBack`. Catalogue: `CatalogIsRemembered`. Rules: `GrantedKnowingly` (whatever
  was answered "always", nothing is let through that the first rule about it denies, nor without an
  answer what it asks about). Todos: `TodosAreKept` (through saves, agents, restarts of runs and
  subagents a session keeps the last list written for it, if its runs had their agent for
  themselves). Selections: `SelectionIsRecent`. Pages: `PagedOnce`. Their exceptions are named in the
  comments before them; each is an interleaving that the code does not handle.

Every property has a mutant in `PROJECT.json`: a small change of one action, of the kind a
maintainer could make by mistake, under which TLC finds the property violated. The mutated
forms stand next to the definitions they replace.

## 5. Proofs

All theorems are for any sets of sessions, runs, requests, calls, prompts, clients, processes and
files, and any timeouts, thresholds, capacities and sizes; the only assumptions are the named ones
on the constants: the null values are not members of the sets (`Bootstrap` and `NoId` are no events),
sets that are counted or sorted are finite, timeouts and thresholds are positive, the detector
remembers at least as many calls as its threshold needs (30 against 5 in the code), and the cap on
escalations is at least the number of rungs of the ladder (3 and 3).

Every safety property that a passing run checks is stated by a theorem, for every value of the
constants. The invariants behind them:

* **`RunStateProofs`.** `IInv` is the conjunction of the checked invariants with four facts
  they are not inductive without: an entry is filed under the session of its run
  (`OwnEntry`), the resolver of a session belongs to the run in its entry
  (`ResolverOfEntry`, the fact that makes keying by session safe), a run has a task from its
  start on (`TaskOfStarted`), and a run that has started is tracked or over
  (`TrackedOrOver`). Two lemmas on sequences (appending a start to an idle bracket, an end to
  an open one) carry the event properties. `RunStateImplementsLifecycle` maps `Start` to
  `Begin`, effective reports to `End` or `StopAll`, ineffective ones to stutters.
* **`SessionRunProofs`.** `SessionImplementsRunState`: each action of the prompt path makes
  one call on the table or none, so every theorem of `RunState` holds of the whole
  (`SessionEventsCorrect`, `SessionImplementsLifecycle`). `SInv` adds to `IInv` what a prompt
  holds when it gets to use it, and `TaskOfEntry` and `TaskOfPrompt`, which tie the table's
  view of a task to the place of its prompt; `NoZombieRun` follows. `MarkerInv` is about the
  store: only the runs at work on a session write markers into it, the last to leave leaves
  none, and a sweep still has every marked session ahead that nobody works on; from it follow
  `MarkerHasKeeper` and `SweepClearsTheDead`.
* **`EventStreamProofs`.** What a client has read and what is on its way to it are taken as one
  sequence, `Full`: reading does not change it, a lost connection shortens it, and publishing
  (`WriteKeeps`, `MissKeeps`) and the replay (`ServeKeeps`) extend it. The invariant `Streams` says
  that each ring is a `Batch` (numbers of one process that ascend up to the counter, no more than
  the ring holds) and each stream `Sound` in view of its ring: two frames in a row ascend (`Linked`),
  none has a number yet to be given out (`Known`), nothing that the ring holds was jumped over
  (`Covered`), and a subscribed stream has all of its ring. `Ascends` and `ResumeIsComplete` follow.
  `PromptImplementsRunState` carries the theorems of the run table to the composition with the bus.
  For `ReportIsTrue`: the session and the end of a run are settled once (`Settled`), an event of a
  session is of a run of it (`OwnEvents`), so that whatever is on a ring or a stream was true when
  it was said and stays so (`Hear`); and a call that has returned has closed its stream (`Told`), so
  the first end on it remains the one it answered with.
* **`SessionEditsProofs`.** `Follows` says what the events are worth: a follower knows nothing but
  what is stored, and each stored message that it does not know yet is owed (`Owes`) by a run at
  work. `RunKnows` and `RouteKnows` say of the holders of a copy that were not overtaken that they
  have what is stored, and of a run at work that it has only added to it. `Named` is why ids do not
  collide: a message that the loop numbered stands behind the place its number names (`Placed`), so
  the length of the transcript is a new number, and an edit, which cuts the end off, keeps that so.
  `PairsKept` is proved for a loop without a compressor (`~Compressing`), which is what the run
  checks; with one it does not hold (section 3).
* **`AgentLoopProofs`.** `IInv` has a part for each run's record (`Good`: what has been saved
  when, how depth and tier climb together, how often the model is called after an abort) and a
  part for the detector. `Owned` says that a run which never shared its detector has the
  installed one, and the loop to itself. For a run that has its detector to itself, `Window` says that the end of the
  bounded history *is* the current streak of failures, as far as the history reaches; this is
  what makes a verdict on the window a verdict on the real past, and `VetoIsEarned` and the
  bound on serial calls follow. `Room` counts a batch: the failures so far and the calls of the
  same kind still running are within the bound, since all of them passed a check that saw fewer
  than the threshold. Cardinalities are handled by the library's theorems on finite sets.
* **`ServicesProofs`.** *A call of a model:* `LlmIInv` counts: the requests made are at most the
  attempts already over times the tries of an adapter, plus the tries of this one; and a call that
  has met a failure which will not pass is on its way out. `RequestsBounded` and `FatalIsFinal`
  follow. `AnsInv` adds what is accumulated: a request is sent with empty accumulators, and while it
  is streamed they hold chunks of it, none twice, and each that the adapter passes on (`Received`);
  what Gemini holds back is joined to it at the end. `AnswerIsOfOneRequest` follows.
  *The lock of the file store:* `Inv` says, for a history in which nobody has been overtaken, where
  an undisturbed writer stands (`AtStation`): the temporary file is its own from creation to
  rename. `FsLockLoneSaver` needs a second invariant about time: the lock a lone caller waits
  for is stale or at least as old as the wait, so it goes stale at half the time the caller is
  willing to wait. *The language server:* `LspIInv` says that a live server was told of a file at
  most once, and the one in use of open files only (`Told`), that a file which is not open has one
  reader at most (`Readers`), and that as long as there was one server and no shutdown it knows of
  all open files and requests are about open files (`Knows`); `AskedIsOpen` follows.
* **`AcpProofs`.** `AcpIInv` ties a prompt to the entry it found: an entry in the map is not
  evicted, an evicted entry's controller has fired, and so have the signals of the running
  prompts that hold it. `EvictedIsAborted` follows. For
  `MapIsBounded` each entry beyond the first is charged to an ended prompt. `TurnsInv` follows
  the answered turns of a session that nothing disturbed: they are in the store, in the entry of
  the map and in what the prompt at work began from, and nobody has worked on a session that is
  not stored; `TurnsAreKept` follows.
* **`SharedPartsProofs`.** *Questions:* `PInv` adds who waits for what (`AwaiterAsked`), that what
  nobody asked is untouched, and that only listed questions are timed.
  *Rules:* `RuleIInv`: what is approved was said to this hook, a question comes of
  a rule that asks, and a file tool was approved only under an edit rule that asks, which is why
  a remembered approval cannot outlive a rule that denies; `RulesGrantKnowingly` follows.
  *Selections:* `SelIInv`: a search that a call makes has begun, and no call began later than now;
  `SelectionsAreRecent` follows.
  *Catalogue:* `CatIInv`: once a snapshot was read or saved, the file on disk has
  one, and no lookup that began later has read less.
  *Snapshots:* `SnapIInv` follows a tree from the tracker
  that began it through the index, which nobody else has used, to the restore.
  *MCP:* `McpIInv` speaks of
  the names on which no two operations have overlapped: what the one at work on a name leaves on
  its way, and that an open client is under its name or being connected;
  `ConnectionsAccounted` is what remains of it when nobody is at work.
  *Workspace:* `WsIInv`: the first recorded change of a file that nothing else has touched knows what
  was there when the run began, and a file without a recorded change is as it was (`FirstKnows`).
  Since a rollback goes from the last change to the first, the first of each file is what remains
  (`WrittenBack`), and `RollbackUndoes` follows.
  *Todos:* `AgIInv`: in a session whose runs had their agent to themselves, at most one run is at
  work that waits for no other (`Family`, `OwnAgent`); what its agent has and what it is about to
  store is what was written last (`ListsAgree`), and between runs the store has it (`RestsInStore`).
  *Pages:* `PgIInv`: the list has one entry of a session and the cursor has not passed it
  (`OneEntryEach`); a session that is left alone and shares its time with no other is apart from the
  others in the list (`Apart`), and was shown, is on the page or in the list, or is behind the cursor
  (`Ahead`), but never shown and to come (`Behind`).

Induction over data is out of the prover's reach. Where a proof needs it, the model has a closed form
of the code's loop instead, `DropGroups` of the compactor, `WrittenBack` of the rollback and
`HeldCalls` of the Gemini adapter, and the proofs use that a set of numbers has a least element
(`Least`, from the library's theorem on well-founded relations). `DropGroupsIsTheLoop` in
`MCSessionEdits` compares the first of them with the loop it stands for.

Only model-checked: liveness (`PromptEnds`, `WaitEnds`, `CallEnds`, `LoopEnds`, `CatchesUp`,
`CallReturns`, `LspCallEnds`), which is out of the prover's reach.

## 6. Not modelled in the modules above

* An `unlink` that fails: `fs-store.ts` ignores such errors of the temporary and lock files.
  The model assumes they succeed; a lock that cannot be removed goes stale as after a crash.
* `writeFile` as more than one write, and the loss of unsynced data on power failure.
* The query, references, model selection, plan and usage of a run.
* A timeout of a run as a whole: the code has none.
* The ascending cursor, which pages through the messages of one loaded session; the
  choice among several LSP servers by file name; the updates the ACP agent sends to its editor.
* `AgentLoop` as a refinement of what `SessionRun` and `SessionEdits` assume of the loop: they let
  it save, return and throw at any time, which is more than it does.

## 7. Plan

Written so far, in this order: `RunLifecycle`, `RunState`, `SessionRun`, `Permissions`, `FsLock`,
`LoopDetector`, `AgentLoop`; then `EventStream`, `PromptAndWait`, `Transcript`, `SessionEdits`,
`LlmCall`, `LspClient`, `Mcp`, `Acp`, `Workspace`, `Snapshots`, `Catalog` and `Services`;
then `PermissionRules`, `SharedAgent`, `Selection`, `Pages` and `SharedParts`; then the proofs of every
safety property of the runs. Next:

1. `EventStream` as an implementation of a channel that loses only what the rings have dropped.
2. `AgentLoop` as an implementation of a loop that saves, returns and throws at any time, which is
   what `SessionRun` and `SessionEdits` take it for.
3. Plugins (`tools/src/plugins.ts`): activation and disposal when one of several fails.

## 8. Left out for good

Tool bodies beyond their effect on files, message conversion of the LLM adapters, OpenAPI and
read-only routes, configuration loading, tokenising, indexing and search: I/O or pure text work
without shared mutable state that a property here could be about. The rate limiter keeps a bucket
per address and nothing depends on it.
