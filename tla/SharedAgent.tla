---------------------------- MODULE SharedAgent ----------------------------
(***************************************************************************)
(* The references of one agent that outlive a run: todosRef of             *)
(* packages/agent/src/factory.ts, and the loop's active loop detector.     *)
(*                                                                         *)
(* The server makes an agent for every run; the ACP agent makes one, and   *)
(* all of its sessions share it.  A subagent is a run of the same loop     *)
(* with a session of its own, started by a tool of its parent, which waits *)
(* for it.                                                                 *)
(***************************************************************************)
EXTENDS Integers, FiniteSets

CONSTANTS AgRuns, AgSessions, Nobody

ASSUME SharedAgentAssumption == AgRuns # {} /\ AgSessions # {} /\ Nobody \notin AgRuns

VARIABLES
    perRun,      \* an agent for every run, or one for all
    agRun,       \* the runs, those of subagents among them
    todosRef,    \* agent -> todosRef.current
    loopDetector,\* agent -> the run that activeLoopDetector was made for
    storedTodos, \* session -> its todos in the store
    heldTodos,   \* session -> its todos in the session object the ACP agent holds
    wroteTodos,  \* history: the last list that a run wrote for the session
    mingled      \* history: sessions a run of which shared its list or lost its session

agVars == <<perRun, agRun, todosRef, loopDetector, storedTodos, heldTodos,
            wroteTodos, mingled>>

\* A list is known by its writer; every run writes one list, or empties it.
NoTodos == [by |-> Nobody, list |-> "undefined"]
EmptyTodos == [by |-> Nobody, list |-> "empty"]
OldTodos == [by |-> Nobody, list |-> "some"]
TodosOf(r) == [by |-> r, list |-> "some"]
Todos == {NoTodos, EmptyTodos, OldTodos} \cup {TodosOf(r) : r \in AgRuns}

\* An agent is named for the run it was made for.
TheAgent == CHOOSE r \in AgRuns : TRUE

AgRun == [pc : {"new", "primed", "thinking", "tooling", "saving", "over"},
          agent : AgRuns, session : AgSessions, parent : AgRuns \cup {Nobody}, todos : Todos]

AgTypeInvariant ==
    /\ perRun \in BOOLEAN
    /\ agRun \in [AgRuns -> AgRun]
    /\ todosRef \in [AgRuns -> Todos]
    /\ loopDetector \in [AgRuns -> AgRuns \cup {Nobody}]
    /\ {storedTodos, heldTodos, wroteTodos} \subseteq [AgSessions -> Todos]
    /\ mingled \subseteq AgSessions

AgIdle(arrangements, before) ==
    /\ perRun \in arrangements
    /\ agRun = [r \in AgRuns |-> [pc |-> "new", agent |-> r,
                                  session |-> CHOOSE s \in AgSessions : TRUE,
                                  parent |-> Nobody, todos |-> NoTodos]]
    /\ todosRef = [a \in AgRuns |-> EmptyTodos]
    /\ loopDetector = [a \in AgRuns |-> Nobody]
    /\ storedTodos \in [AgSessions -> before]
    /\ heldTodos = storedTodos
    /\ wroteTodos = storedTodos
    /\ mingled = {}

AgInit == AgIdle(BOOLEAN, {NoTodos, OldTodos})

Active(r) == agRun[r].pc \notin {"new", "over"}
IsSub(r) == agRun[r].parent # Nobody
Waits(r) == \E c \in AgRuns : agRun[c].parent = r /\ Active(c)
Goes(r, pc) == agRun' = [agRun EXCEPT ![r].pc = pc]
AgOver(r) == agRun' = [agRun EXCEPT ![r].pc = "over", ![r].todos = NoTodos]

-----------------------------------------------------------------------------
\* A prompt: the server loads the session, the ACP agent has it at hand.
AgStarts(r, s) ==
    LET agent == IF perRun THEN r ELSE TheAgent
        met == {q \in AgRuns : Active(q) /\ (agRun[q].agent = agent \/ agRun[q].session = s)} IN
    /\ agRun[r].pc = "new"
    /\ agRun' = [agRun EXCEPT ![r].pc = "primed", ![r].agent = agent, ![r].session = s,
                              ![r].todos = IF perRun THEN storedTodos[s] ELSE heldTodos[s]]
    /\ mingled' = mingled \cup {agRun[q].session : q \in met} \cup (IF met # {} THEN {s} ELSE {})
    /\ UNCHANGED <<perRun, todosRef, loopDetector, storedTodos, heldTodos, wroteTodos>>

\* Mutant of RestoredTodos: the list of the session is not restored.
RestoredTodosNot(a, todos) == todosRef[a]

RestoredTodos(a, todos) == IF todos # NoTodos THEN todos ELSE todosRef[a]

\* run() goes on from primeSession: the list is restored, the loop detector is a new one.
AgRestores(r) ==
    LET a == agRun[r].agent IN
    /\ agRun[r].pc = "primed"
    /\ Goes(r, "thinking")
    /\ todosRef' = [todosRef EXCEPT ![a] = RestoredTodos(a, agRun[r].todos)]
    /\ loopDetector' = [loopDetector EXCEPT ![a] = r]
    /\ mingled' = IF agRun[r].todos = NoTodos /\ todosRef[a] # EmptyTodos /\ ~IsSub(r)
                  THEN mingled \cup {agRun[r].session} ELSE mingled
    /\ UNCHANGED <<perRun, storedTodos, heldTodos, wroteTodos>>

\* The model answers with tool calls.  todowrite replaces the list ...
AgWrites(r) ==
    LET a == agRun[r].agent
        s == agRun[r].session IN
    /\ agRun[r].pc \in {"thinking", "tooling"} /\ ~Waits(r)
    /\ Goes(r, "tooling")
    /\ \E todos \in {EmptyTodos, TodosOf(r)} :
          /\ todosRef' = [todosRef EXCEPT ![a] = todos]
          /\ wroteTodos' = [wroteTodos EXCEPT ![s] = todos]
    /\ mingled' = IF IsSub(r) THEN mingled \cup {s} ELSE mingled
    /\ UNCHANGED <<perRun, loopDetector, storedTodos, heldTodos>>

\* ... and spawn_subagent runs the loop again, at any depth: the factory's spawn passes on
\* no depth.
AgSpawns(r, c) ==
    /\ agRun[r].pc \in {"thinking", "tooling"} /\ ~Waits(r)
    /\ agRun[c].pc = "new" /\ c # r
    /\ agRun' = [agRun EXCEPT ![r].pc = "tooling", ![c].pc = "primed",
                              ![c].agent = agRun[r].agent, ![c].session = agRun[r].session,
                              ![c].parent = r]
    /\ UNCHANGED <<perRun, todosRef, loopDetector, storedTodos, heldTodos, wroteTodos,
                   mingled>>

\* The tools are done, and the list is copied into the session that is about to be saved.
AgSyncs(r) ==
    /\ agRun[r].pc \in {"thinking", "tooling"} /\ ~Waits(r)
    /\ agRun' = [agRun EXCEPT ![r].pc = "saving", ![r].todos = todosRef[agRun[r].agent]]
    /\ UNCHANGED <<perRun, todosRef, loopDetector, storedTodos, heldTodos, wroteTodos,
                   mingled>>

\* saveSession() of r, whose failure is only logged; a subagent's session is stored apart.
Stores(r, ok) ==
    LET s == agRun[r].session IN
    storedTodos' = IF ok /\ ~IsSub(r) THEN [storedTodos EXCEPT ![s] = agRun[r].todos]
                   ELSE storedTodos

\* The save of the iteration, then the factory's onIteration.
AgSaves(r, ok) ==
    LET a == agRun[r].agent IN
    /\ agRun[r].pc = "saving"
    /\ Goes(r, "thinking")
    /\ Stores(r, ok)
    /\ todosRef' = [todosRef EXCEPT ![a] = IF @ = EmptyTodos THEN agRun[r].todos ELSE @]
    /\ UNCHANGED <<perRun, loopDetector, heldTodos, wroteTodos, mingled>>

\* A text answer or a limit ends the run; the ACP agent keeps the session it returns, once
\* that is saved.
AgEnds(r, ok) ==
    /\ agRun[r].pc = "thinking"
    /\ AgOver(r)
    /\ Stores(r, ok)
    /\ heldTodos' = IF IsSub(r) \/ ~ok THEN heldTodos
                    ELSE [heldTodos EXCEPT ![agRun[r].session] = agRun[r].todos]
    /\ mingled' = IF ok \/ IsSub(r) THEN mingled ELSE mingled \cup {agRun[r].session}
    /\ UNCHANGED <<perRun, todosRef, loopDetector, wroteTodos>>

\* The call of the model fails: the session is saved and run() throws, so that the ACP agent
\* keeps the session from before the prompt.
AgThrows(r, ok) ==
    /\ agRun[r].pc = "thinking"
    /\ AgOver(r)
    /\ Stores(r, ok)
    /\ mingled' = IF (ok /\ perRun) \/ IsSub(r) THEN mingled
                  ELSE mingled \cup {agRun[r].session}
    /\ UNCHANGED <<perRun, todosRef, loopDetector, heldTodos, wroteTodos>>

AgNext ==
    \/ \E r \in AgRuns, s \in AgSessions : AgStarts(r, s)
    \/ \E r \in AgRuns : AgRestores(r) \/ AgWrites(r) \/ AgSyncs(r)
    \/ \E r, c \in AgRuns : AgSpawns(r, c)
    \/ \E r \in AgRuns, ok \in BOOLEAN : AgSaves(r, ok) \/ AgEnds(r, ok) \/ AgThrows(r, ok)

AgSpec == AgInit /\ [][AgNext]_agVars

-----------------------------------------------------------------------------
SameList(x, y) == x = y \/ {x, y} \subseteq {NoTodos, EmptyTodos}

\* A session whose runs had their agent for themselves ends each of them with the last list
\* that was written for it, by whichever run and however many agents ago.
TodosAreKept ==
    \A s \in AgSessions :
        /\ s \notin mingled
        /\ \A r \in AgRuns : Active(r) => agRun[r].session # s
        => SameList(storedTodos[s], wroteTodos[s])

\* What packages/tools/src/tools/todowrite.ts:17 says, "Persist an updated todo list for the
\* active session.": the list that is stored for a session was written by a run of it.
TodosAreOwn ==
    \A s \in AgSessions :
        storedTodos[s].by # Nobody => agRun[storedTodos[s].by].session = s

\* Known not to hold: "one per run so prior runs don't leak history into new ones"
\* (loop.ts:367); after its subagent a run goes on with the subagent's loop detector.
DetectorIsOwn ==
    \A r \in AgRuns :
        agRun[r].pc = "tooling" /\ ~Waits(r) => loopDetector[agRun[r].agent] = r
=============================================================================
