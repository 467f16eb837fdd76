----------------------------- MODULE AgentLoop ------------------------------
(***************************************************************************)
(* packages/agent/src/loop.ts, with router.ts and (module LoopDetector)    *)
(* loop-detector.ts: the runs of one AgentLoop object.                     *)
(*                                                                         *)
(* Several run() calls may be under way on one object: the ACP agent has a *)
(* single loop for all its sessions, and a subagent's run starts and ends  *)
(* while a tool call of its parent executes.  Each has its own session and *)
(* counters; the field activeLoopDetector is shared.                       *)
(*                                                                         *)
(* A step is what happens between two awaits.  The model's answers, the    *)
(* results of tools and the fate of saves are arbitrary.                   *)
(***************************************************************************)
EXTENDS LoopDetector

CONSTANTS Runs, NoRun,
          MaxSteps,         \* maxSteps of each run's request
          MaxCalls,         \* bound on the tool calls of one response
          Offered,          \* the calls each run's model may make
          AutoModel,        \* the runs whose session selects no fixed model
          Signalled,        \* the runs whose request has an AbortSignal
          EscalationLimit,
          MaxSaveFailures,  \* MAX_CONSECUTIVE_SAVE_FAILURES
          TopTier,          \* tiers are 1 .. TopTier: trivial .. escalate
          Registered,       \* the tools the registry knows
          ParallelSafe      \* the tools that are executed concurrently

ASSUME AgentLoopAssumption ==
    /\ NoRun \notin Runs
    /\ MaxSteps \in [Runs -> Nat \ {0}]
    /\ MaxCalls \in Nat \ {0}
    /\ Offered \in [Runs -> SUBSET Call]
    /\ AutoModel \subseteq Runs
    /\ Signalled \subseteq Runs
    /\ TopTier \in Nat \ {0}
    /\ EscalationLimit \in Nat
    /\ EscalationLimit + 1 >= TopTier
    /\ MaxSaveFailures \in Nat \ {0}

VARIABLES
    active,     \* the run that installed the current activeLoopDetector
    tracker,    \* tracker[r]: the ToolLoopTracker r installed
    run         \* run[r]: where r stands, its counters and its current step

vars == <<active, tracker, run>>

StopReasons == {"no_tool_calls", "error_max_escalation", "max_steps", "max_messages",
                "save_failure", "aborted", "loop_breaker"}

\* A call waits (todo), executes (running) or has ended in one of these ways.
Ends == {"ok", "err", "refused", "vetoed", "unknown", "rejected"}
CallState == [call : Call, status : Ends \cup {"todo", "running"}, key : Keys]

RunType ==
    [ pc : {"idle", "top", "model", "tools", "decide", "over"},
      iteration : Nat,
      depth : Nat,                 \* escalationDepth
      tier : 1 .. TopTier,
      planned : BOOLEAN,           \* a plan has been extracted from a text
      calls : Seq(CallState),      \* the calls of the current response
      breaker : BOOLEAN,           \* iterState.loopBreaker
      saveFailures : Nat,          \* consecutiveSaveFailures
      saved : {"stale", "stored", "failed"},  \* what the last save knew of the session
      aborted : BOOLEAN,           \* the request's AbortSignal has fired
      reason : StopReasons \cup {"none", "threw"},
      \* history: model calls made after the abort, how often the last executed call
      \* has failed in a row, and whether the detector was shared with another run
      late : Nat,
      streak : [call : Call \cup {NoKey}, n : Nat],
      shared : BOOLEAN ]

TypeInvariant ==
    /\ active \in Runs \cup {NoRun}
    /\ tracker \in [Runs -> Tracker]
    /\ run \in [Runs -> RunType]

Idle == [pc |-> "idle", iteration |-> 0, depth |-> 0, tier |-> 1, planned |-> FALSE,
         calls |-> <<>>, breaker |-> FALSE, saveFailures |-> 0, saved |-> "stale",
         aborted |-> FALSE, reason |-> "none", late |-> 0,
         streak |-> [call |-> NoKey, n |-> 0], shared |-> FALSE]

Init ==
    /\ active = NoRun
    /\ tracker = [r \in Runs |-> NewTracker]
    /\ run = [r \in Runs |-> Idle]

UnderWay(r) == run[r].pc \notin {"idle", "over"}

-----------------------------------------------------------------------------
\* run(), of a session of any tier: a fresh detector takes the place of whatever
\* detector the loop had.
Start(r) ==
    /\ run[r].pc = "idle"
    /\ active' = r
    /\ tracker' = [tracker EXCEPT ![r] = NewTracker]
    /\ \E tier \in 1 .. TopTier :
          run' = [q \in Runs |->
              IF q = r THEN [Idle EXCEPT !.pc = "top", !.tier = tier,
                                         !.shared = \E p \in Runs : UnderWay(p)]
              ELSE [run[q] EXCEPT !.shared = @ \/ UnderWay(q)]]

\* A return from the loop: the session in hand is saved, successfully or not.
Exit(r, s, reason) ==
    \E saved \in {"stored", "failed"} :
        run' = [run EXCEPT ![r] = [s EXCEPT !.pc = "over", !.reason = reason, !.saved = saved,
                                            !.calls = <<>>, !.breaker = FALSE]]

\* Mutant of MaxStepsReached: returns without a save.
MaxStepsReachedUnsaved(r) ==
    /\ run[r].pc = "top"
    /\ run[r].iteration >= MaxSteps[r]
    /\ run' = [run EXCEPT ![r] = [run[r] EXCEPT !.pc = "over", !.reason = "max_steps"]]
    /\ UNCHANGED <<active, tracker>>

MaxStepsReached(r) ==
    /\ run[r].pc = "top"
    /\ run[r].iteration >= MaxSteps[r]
    /\ Exit(r, run[r], "max_steps")
    /\ UNCHANGED <<active, tracker>>

\* The transcript is still too long after the context has been optimized.
MaxMessagesReached(r) ==
    /\ run[r].pc = "top"
    /\ run[r].iteration < MaxSteps[r]
    /\ Exit(r, run[r], "max_messages")
    /\ UNCHANGED <<active, tracker>>

\* Context is selected and optimized, and the model is called.
CallModel(r) ==
    /\ run[r].pc = "top"
    /\ run[r].iteration < MaxSteps[r]
    /\ run' = [run EXCEPT ![r].pc = "model", ![r].saved = "stale",
                          ![r].late = IF run[r].aborted THEN @ + 1 ELSE @]
    /\ UNCHANGED <<active, tracker>>

\* Selecting context or calling the model fails for good, and run() throws: after a
\* save (a failed model call), or without one.
RunThrows(r) ==
    /\ run[r].pc \in {"top", "model"}
    /\ run[r].iteration < MaxSteps[r]
    /\ \/ run' = [run EXCEPT ![r].pc = "over", ![r].reason = "threw"]
       \/ run[r].pc = "model" /\ Exit(r, run[r], "threw")
    /\ UNCHANGED <<active, tracker>>

\* A text answer ends the run ...
Answer(r) ==
    /\ run[r].pc = "model"
    /\ Exit(r, run[r], "no_tool_calls")
    /\ UNCHANGED <<active, tracker>>

\* ... unless it is the first that looks like a plan and a step is left to follow it.
\* A failed save is ignored here.
ExtractPlan(r) ==
    /\ run[r].pc = "model"
    /\ ~run[r].planned
    /\ run[r].iteration + 1 < MaxSteps[r]
    /\ \E saved \in {"stored", "failed"} :
          run' = [run EXCEPT ![r].pc = "top", ![r].planned = TRUE,
                             ![r].iteration = @ + 1, ![r].saved = saved]
    /\ UNCHANGED <<active, tracker>>

\* An answer with tool calls.
AskForCalls(r) ==
    /\ run[r].pc = "model"
    /\ \E n \in 1 .. MaxCalls : \E cs \in [1 .. n -> Offered[r]] :
          run' = [run EXCEPT ![r].pc = "tools",
                             ![r].calls = [i \in 1 .. n |->
                                 [call |-> cs[i], status |-> "todo", key |-> NoKey]]]
    /\ UNCHANGED <<active, tracker>>

-----------------------------------------------------------------------------
\* The calls I of r's response are begun in one go: unknown tools fail, the detector
\* in place vetoes, the others start (their permission may still be refused).
Launch(r, I) ==
    LET cs == run[r].calls
        verdict == [i \in I |-> Check(tracker[active], cs[i].call)]
        known == {i \in I : cs[i].call.tool \in Registered}
        vetoed == {i \in known : verdict[i].level = "critical"}
        n == [k \in VetoKeys |-> Cardinality({i \in vetoed : verdict[i].key = k})]
    IN  /\ run[r].pc = "tools"
        /\ \A i \in I : cs[i].status = "todo"
        /\ tracker' = [tracker EXCEPT ![active] = RegisterVetoes(@, n)]
        /\ run' = [run EXCEPT
              ![r].breaker = @ \/ Trips(tracker[active], n),
              ![r].calls = [i \in DOMAIN cs |->
                  IF i \notin I THEN cs[i]
                  ELSE IF i \notin known THEN [cs[i] EXCEPT !.status = "unknown"]
                  ELSE [cs[i] EXCEPT !.status = IF i \in vetoed THEN "vetoed" ELSE "running",
                                     !.key = verdict[i].key]]]
        /\ UNCHANGED active

Parallel(r) == {i \in DOMAIN run[r].calls : run[r].calls[i].call.tool \in ParallelSafe}
Settled(r, I) == \A i \in I : run[r].calls[i].status \in Ends

\* The parallel-safe calls start together ...
StartBatch(r) == Parallel(r) # {} /\ Launch(r, Parallel(r))

\* ... and the others one after the other, in the model's order, once they are done.
StartNext(r, i) ==
    /\ i \in DOMAIN run[r].calls \ Parallel(r)
    /\ Settled(r, Parallel(r) \cup 1 .. (i - 1))
    /\ Launch(r, {i})

\* A tool returns: the detector that is in place by now records the outcome.
Finish(r, i, ok) ==
    LET c == run[r].calls[i].call
        t == Record(tracker[active], c, ok)
        before == IF run[r].streak.call = c THEN run[r].streak.n ELSE 0
    IN  /\ run[r].pc = "tools"
        /\ run[r].calls[i].status = "running"
        /\ tracker' = [tracker EXCEPT ![active] =
                          IF ok THEN ClearVetoes(t, run[r].calls[i].key) ELSE t]
        /\ run' = [run EXCEPT ![r].calls[i].status = IF ok THEN "ok" ELSE "err",
                              ![r].streak = [call |-> c, n |-> IF ok THEN 0 ELSE before + 1]]
        /\ UNCHANGED active

\* The user denies permission, or the input fails the quality check.
Refuse(r, i) ==
    /\ run[r].pc = "tools"
    /\ run[r].calls[i].status = "running"
    /\ run' = [run EXCEPT ![r].calls[i].status = "refused"]
    /\ UNCHANGED <<active, tracker>>

\* A tool throws instead of returning an error: the batch makes an error of it, for a
\* serial call it ends the run.
Reject(r, i) ==
    /\ run[r].pc = "tools"
    /\ run[r].calls[i].status = "running"
    /\ run' = IF i \in Parallel(r)
              THEN [run EXCEPT ![r].calls[i].status = "rejected"]
              ELSE [run EXCEPT ![r].pc = "over", ![r].reason = "threw"]
    /\ UNCHANGED <<active, tracker>>

\* The results join the session, and it is saved; too many failed saves end the run.
Collect(r) ==
    LET failures == run[r].saveFailures + 1
    IN  /\ run[r].pc = "tools"
        /\ Settled(r, DOMAIN run[r].calls)
        /\ \/ run' = [run EXCEPT ![r].pc = "decide", ![r].saved = "stored",
                                 ![r].saveFailures = 0]
           \/ /\ failures < MaxSaveFailures
              /\ run' = [run EXCEPT ![r].pc = "decide", ![r].saved = "failed",
                                    ![r].saveFailures = failures]
           \/ /\ failures >= MaxSaveFailures
              /\ run' = [run EXCEPT ![r].pc = "over", ![r].saved = "failed",
                                    ![r].saveFailures = failures,
                                    ![r].reason = "save_failure"]
        /\ UNCHANGED <<active, tracker>>

\* Denials, vetoes, unknown tools and refusals say nothing of the model's capability.
CapabilityFailure(r) == \E i \in DOMAIN run[r].calls : run[r].calls[i].status = "err"

\* Mutant of Capped: one escalation too few.
CappedEarly(r) == r \notin AutoModel \/ run[r].depth + 1 >= EscalationLimit

Capped(r) == r \notin AutoModel \/ run[r].depth >= EscalationLimit

\* The next tier, if there is one.
Stronger(tier) == IF tier < TopTier THEN tier + 1 ELSE tier

\* Mutant of NextStep: the loop continues before it has counted the step.
NextStepUncounted(r, s) ==
    run' = [run EXCEPT ![r] = [s EXCEPT !.pc = "top", !.calls = <<>>, !.breaker = FALSE]]

NextStep(r, s) ==
    run' = [run EXCEPT ![r] = [s EXCEPT !.pc = "top", !.iteration = @ + 1,
                                        !.calls = <<>>, !.breaker = FALSE]]

\* Mutant of Decide: the signal is not looked at.
DecideUnaborted(r) ==
    /\ run[r].pc = "decide"
    /\ IF run[r].breaker THEN Exit(r, run[r], "loop_breaker")
       ELSE IF ~CapabilityFailure(r) THEN NextStep(r, run[r])
       ELSE IF Capped(r) THEN Exit(r, run[r], "error_max_escalation")
       ELSE NextStep(r, [run[r] EXCEPT !.depth = @ + 1, !.saved = "stale",
                                       !.tier = Stronger(@)])
    /\ UNCHANGED <<active, tracker>>

\* The end of an iteration: breaker, abort, escalation, in this order.
Decide(r) ==
    /\ run[r].pc = "decide"
    /\ IF run[r].breaker THEN Exit(r, run[r], "loop_breaker")
       ELSE IF run[r].aborted THEN Exit(r, run[r], "aborted")
       ELSE IF ~CapabilityFailure(r) THEN NextStep(r, run[r])
       ELSE IF Capped(r) THEN Exit(r, run[r], "error_max_escalation")
       ELSE NextStep(r, [run[r] EXCEPT !.depth = @ + 1, !.saved = "stale",
                                       !.tier = Stronger(@)])
    /\ UNCHANGED <<active, tracker>>

\* The signal of the request fires.  A subagent is given none.
Abort(r) ==
    /\ r \in Signalled
    /\ UnderWay(r)
    /\ ~run[r].aborted
    /\ run' = [run EXCEPT ![r].aborted = TRUE]
    /\ UNCHANGED <<active, tracker>>

-----------------------------------------------------------------------------
CallStep(r) ==
    \E i \in DOMAIN run[r].calls :
        StartNext(r, i) \/ Finish(r, i, TRUE) \/ Finish(r, i, FALSE) \/ Refuse(r, i) \/ Reject(r, i)

RunStep(r) ==
    \/ MaxStepsReached(r) \/ MaxMessagesReached(r) \/ CallModel(r) \/ RunThrows(r)
    \/ Answer(r) \/ ExtractPlan(r) \/ AskForCalls(r)
    \/ StartBatch(r) \/ CallStep(r) \/ Collect(r) \/ Decide(r)

Next == \E r \in Runs : Start(r) \/ RunStep(r) \/ Abort(r)

Spec == Init /\ [][Next]_vars

\* Every await of a run settles: the model's stream has a watchdog, tools and
\* permission questions have timeouts, store calls return.
FairSpec == Spec /\ \A r \in Runs : WF_vars(RunStep(r))

-----------------------------------------------------------------------------
\* The detector's promise: no call fails more often in a row than the threshold
\* allows, although it sees a bounded window, only executed calls, and (in a parallel
\* batch, which is checked as a whole before any of it is recorded) a stale one.
Bound(c) ==
    CriticalThreshold - 1 + (IF c.tool \in ParallelSafe THEN MaxCalls - 1 ELSE 0)
WithinBound(r) == run[r].streak.n > 0 => run[r].streak.n <= Bound(run[r].streak.call)

\* It is kept for a run that had its detector to itself.
StreakBounded == \A r \in Runs : ~run[r].shared => WithinBound(r)

\* A veto for lack of progress is deserved: the call really has failed as often in a
\* row as the threshold says, whatever was vetoed, refused or forgotten in between.
VetoIsEarned ==
    [][\A r \in Runs : \A i \in DOMAIN run[r].calls :
          (/\ ~run[r].shared
           /\ run[r].calls[i].status = "todo"
           /\ run'[r].calls[i].status = "vetoed"
           /\ run'[r].calls[i].key.detector = "no_progress")
          => /\ run[r].streak.n + 1 >= CriticalThreshold
             /\ CriticalThreshold > 1 => run[r].streak.call = run[r].calls[i].call]_vars

\* However the loop returns, the store was last given the session it returns: no exit
\* drops the results or the escalated tier of its last step.
ReturnedIsSaved ==
    \A r \in Runs : run[r].pc = "over" /\ run[r].reason # "threw" => run[r].saved # "stale"

\* After its signal has fired, a run makes at most the model call that was next, and
\* one more when the answer to that one was its plan: it never acts on results that
\* came in after the abort.
AbortHeeded == \A r \in Runs : run[r].late <= IF run[r].planned THEN 2 ELSE 1

\* With tiered routing, a run that gives up for its failures gave the strongest model
\* a try.
CappedAtTop ==
    \A r \in AutoModel : run[r].reason = "error_max_escalation" => run[r].tier = TopTier

\* Every run ends.
LoopEnds == \A r \in Runs : run[r].pc = "top" ~> run[r].pc = "over"

-----------------------------------------------------------------------------
\* What loop.ts:367 and loop-detector.ts:41 say together: each run has a detector of its
\* own, so the threshold holds for every run.
EveryStreakBounded == \A r \in Runs : WithinBound(r)
=============================================================================
