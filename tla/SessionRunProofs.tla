-------------------------- MODULE SessionRunProofs --------------------------
(***************************************************************************)
(* Prompts drive the run table the way RunState says, whatever the store,  *)
(* the sweeps and the other routes do; so every invariant of RunState      *)
(* holds of the whole, and a task that ends leaves no entry behind.        *)
(***************************************************************************)
EXTENDS SessionRun, RunStateProofs

\* An entry of the map belongs to a task that has its report to make, and such a
\* task is the one the prompt of that session started.
TaskOfEntry == \A s \in Sessions : runs[s] # NoRun => task[runs[s]] = "running"

TaskOfPrompt ==
    \A r \in Runs : task[r] = "running" =>
        pc[r] \in Starting \cup Running /\ owner[r] = asked[r]

\* A run works on a session it was asked for.
AskedFirst == \A r \in Runs : pc[r] # "new" => asked[r] \in Sessions

-----------------------------------------------------------------------------
\* Every step of a prompt is one call on the run table or none.
LEMMA RunStepRefines ==
    ASSUME NEW r \in Runs, RunStep(r), AskedFirst
    PROVE  [RunNext]_runVars
<1>1. CASE StartRun(r)
  BY <1>1 DEF StartRun, Goto, RunNext, AskedFirst
<1>2. CASE ReportReturn(r)
  BY <1>2 DEF ReportReturn, RunNext
<1>3. CASE ReportError(r)
  BY <1>3 DEF ReportError, RunNext
<1>4. CASE CreateSession(r) \/ SaveMarker(r)
  BY <1>4 DEF CreateSession, SaveMarker
<1>5. CASE \/ SweepList(r) \/ SweepLoad(r) \/ SweepSave(r) \/ SweepFails(r)
           \/ AgentCreated(r) \/ AgentFails(r) \/ \E s \in Sessions : SweepCheck(r, s)
  BY <1>5 DEF SweepList, SweepLoad, SweepSave, SweepFails, AgentCreated, AgentFails,
              SweepCheck
<1>6. CASE LoopSave(r) \/ LoopReturn(r) \/ LoopThrow(r) \/ FinalSave(r)
  BY <1>6 DEF LoopSave, LoopReturn, LoopThrow, FinalSave
<1>7. CASE CatchLoad(r) \/ CatchSave(r) \/ FinallyLoad(r) \/ FinallySave(r)
  BY <1>7 DEF CatchLoad, CatchSave, FinallyLoad, FinallySave
<1> QED
  BY <1>1, <1>2, <1>3, <1>4, <1>5, <1>6, <1>7 DEF RunStep

LEMMA NextRefines ==
    ASSUME [Next]_vars, AskedFirst
    PROVE  [RunNext]_runVars
<1>1. CASE \E r \in Runs, s \in Sessions : Prompt(r, s)
  BY <1>1 DEF Prompt
<1>2. CASE \E r \in Runs : RunStep(r)
  BY <1>2, RunStepRefines
<1>3. CASE \E s \in Sessions : RouteStep(s)
  <2>1. PICK s \in Sessions : RouteStep(s)
    BY <1>3
  <2>2. CASE AbortRoute(s)
    BY <2>2 DEF AbortRoute, RunNext
  <2>3. CASE DeleteAbort(s)
    BY <2>3 DEF DeleteAbort, RunNext
  <2>4. CASE DeleteStored(s) \/ EditLoad(s) \/ EditSave(s)
    BY <2>4 DEF DeleteStored, EditLoad, EditSave
  <2> QED
    BY <2>1, <2>2, <2>3, <2>4 DEF RouteStep
<1>4. CASE Shutdown
  BY <1>4 DEF Shutdown, RunNext
<1>5. CASE Crash
  BY <1>5 DEF Crash, RunNext
<1>6. CASE UNCHANGED vars
  BY <1>6 DEF vars
<1> QED
  BY <1>1, <1>2, <1>3, <1>4, <1>5, <1>6 DEF Next

-----------------------------------------------------------------------------
\* The flow of a prompt keeps its types.
FlowTypes ==
    /\ store \in [Sessions -> Object \cup {Absent}]
    /\ asked \in [Runs -> Sessions \cup {NoSession}]
    /\ pc \in [Runs -> Places]
    /\ obj \in [Runs -> Object \cup {Absent}]
    /\ cur \in [Runs -> Object \cup {Absent}]
    /\ todo \in [Runs -> SUBSET Sessions]
    /\ at \in [Runs -> Sessions \cup {NoSession}]
    /\ edit \in [Sessions -> Object \cup {Absent}]
    /\ deleting \subseteq Sessions
    /\ recovered \subseteq Sessions \X Runs
    /\ troubles \subseteq Troubles

\* What the object in hand is when a prompt gets to use it.
InHand ==
    \A r \in Runs :
        /\ pc[r] \notin {"new", "loaded", "over", "dead"} => obj[r] \in Object
        /\ pc[r] \in {"resaving", "clearing", "sweepSave"} => cur[r] \in Object
        /\ pc[r] \in {"sweepLoad", "sweepSave"} => at[r] \in Sessions
        /\ pc[r] = "sweepSave" => cur[r].marker \in Runs

FlowInv == FlowTypes /\ InHand /\ AskedFirst

LEMMA FlowInit == Init => FlowInv
  BY DEF Init, FlowInv, FlowTypes, InHand, AskedFirst, Places, BeforeStart, Starting,
         Running, Unwinding, Troubles, NewSession, Object

LEMMA RunStepFlow ==
    ASSUME NEW r \in Runs, RunStep(r), FlowInv
    PROVE  FlowInv'
<1> USE SessionRunAssumption DEF FlowInv, FlowTypes, InHand, AskedFirst, Places,
        BeforeStart, Starting, Running, Unwinding, Troubles, Goto, Save, SaveFails,
        Trouble, sideVars
<1>1. CASE CreateSession(r)
  <2>1. NewSession \in Object /\ UNCHANGED <<asked, cur, todo, at, edit, deleting, recovered>>
    BY <1>1 DEF CreateSession, NewSession, Object
  <2>2. CASE pc' = [pc EXCEPT ![r] = "loaded"]
    <3>1. /\ pc[r] = "loaded"
          /\ store' = [store EXCEPT ![asked[r]] = NewSession] /\ UNCHANGED troubles
          /\ obj' = [obj EXCEPT ![r] = NewSession]
      BY <1>1, <2>2 DEF CreateSession
    <3> QED
      BY <2>1, <2>2, <3>1
  <2>3. CASE pc' = [pc EXCEPT ![r] = "over"]
    <3>1. /\ pc[r] = "loaded"
          /\ UNCHANGED <<store, obj>> /\ troubles' = troubles \cup {"save"}
      BY <1>1, <2>3 DEF CreateSession
    <3> QED
      BY <2>1, <2>3, <3>1
  <2> QED
    BY <1>1, <2>2, <2>3 DEF CreateSession
<1>2. CASE StartRun(r)
  BY <1>2 DEF StartRun
<1>3. CASE SaveMarker(r)
  BY <1>3 DEF SaveMarker, Object
<1>4. CASE SweepList(r)
  BY <1>4 DEF SweepList
<1>5. CASE \E s \in Sessions : SweepCheck(r, s)
  BY <1>5 DEF SweepCheck
<1>6. CASE SweepLoad(r)
  BY <1>6 DEF SweepLoad, Interrupted, Object
<1>7. CASE SweepSave(r)
  BY <1>7 DEF SweepSave, Unmarked, Forget, Object
<1>8. CASE SweepFails(r)
  BY <1>8 DEF SweepFails
<1>9. CASE AgentCreated(r)
  BY <1>9 DEF AgentCreated
<1>10. CASE AgentFails(r)
  BY <1>10 DEF AgentFails
<1>11. CASE LoopSave(r)
  <2> DEFINE o == [obj[r] EXCEPT !.turns = @ \cup {r}]
  <2>1. /\ pc[r] = "looping" /\ pc' = [pc EXCEPT ![r] = "looping"]
        /\ obj' = [obj EXCEPT ![r] = o]
        /\ \/ store' = [store EXCEPT ![asked[r]] = o] /\ UNCHANGED troubles
           \/ UNCHANGED store /\ troubles' = troubles \cup {"save"}
        /\ UNCHANGED <<asked, cur, todo, at, edit, deleting, recovered>>
    BY <1>11 DEF LoopSave
  <2>2. o \in Object
    BY <2>1 DEF Object
  <2> HIDE DEF o
  <2>3. store' \in [Sessions -> Object \cup {Absent}] /\ troubles' \subseteq Troubles
    <3>1. CASE store' = [store EXCEPT ![asked[r]] = o] /\ UNCHANGED troubles
      BY <2>2, <3>1
    <3>2. CASE UNCHANGED store /\ troubles' = troubles \cup {"save"}
      BY <3>2
    <3> QED
      BY <2>1, <3>1, <3>2
  <2>4. pc' = pc
    BY <2>1
  <2> QED
    BY <2>1, <2>2, <2>3, <2>4
<1>12. CASE LoopReturn(r)
  BY <1>12 DEF LoopReturn
<1>13. CASE LoopThrow(r)
  BY <1>13 DEF LoopThrow
<1>14. CASE FinalSave(r)
  <2>1. UNCHANGED <<asked, obj, cur, todo, at, edit, deleting, recovered>>
    BY <1>14 DEF FinalSave
  <2>2. pc[r] = "saving" /\ \E p \in {"returned", "threw"} : pc' = [pc EXCEPT ![r] = p]
    BY <1>14 DEF FinalSave
  <2>3. store' \in [Sessions -> Object \cup {Absent}] /\ troubles' \subseteq Troubles
    BY <1>14 DEF FinalSave
  <2> QED
    BY <2>1, <2>2, <2>3
<1>15. CASE ReportReturn(r)
  BY <1>15 DEF ReportReturn
<1>16. CASE ReportError(r)
  BY <1>16 DEF ReportError
<1>17. CASE CatchLoad(r)
  BY <1>17 DEF CatchLoad, Grown
<1>18. CASE CatchSave(r)
  BY <1>18 DEF CatchSave, Forget
<1>19. CASE FinallyLoad(r)
  BY <1>19 DEF FinallyLoad, Interrupted
<1>20. CASE FinallySave(r)
  BY <1>20 DEF FinallySave, Unmarked, Forget, Object
<1> QED
  BY <1>1, <1>2, <1>3, <1>4, <1>5, <1>6, <1>7, <1>8, <1>9, <1>10, <1>11, <1>12,
     <1>13, <1>14, <1>15, <1>16, <1>17, <1>18, <1>19, <1>20 DEF RunStep

LEMMA NextFlow ==
    ASSUME [Next]_vars, FlowInv
    PROVE  FlowInv'
<1> USE DEF FlowInv, FlowTypes, InHand, AskedFirst, Places, BeforeStart, Starting,
        Running, Unwinding, Troubles
<1>1. CASE \E r \in Runs, s \in Sessions : Prompt(r, s)
  BY <1>1 DEF Prompt, Goto, sideVars
<1>2. CASE \E r \in Runs : RunStep(r)
  BY <1>2, RunStepFlow
<1>3. CASE \E s \in Sessions : RouteStep(s)
  <2> USE DEF flowVars, sideVars, Trouble
  <2>1. PICK s \in Sessions : RouteStep(s)
    BY <1>3
  <2>2. CASE AbortRoute(s)
    BY <2>2 DEF AbortRoute
  <2>3. CASE DeleteAbort(s)
    BY <2>3 DEF DeleteAbort
  <2>4. CASE DeleteStored(s)
    BY <2>4 DEF DeleteStored
  <2>5. CASE EditLoad(s)
    BY <2>5 DEF EditLoad
  <2>6. CASE EditSave(s)
    BY <2>6 DEF EditSave, Save
  <2> QED
    BY <2>1, <2>2, <2>3, <2>4, <2>5, <2>6 DEF RouteStep
<1>4. CASE Shutdown
  BY <1>4 DEF Shutdown, flowVars, sideVars
<1>5. CASE Crash
  BY <1>5 DEF Crash, Trouble
<1>6. CASE UNCHANGED vars
  BY <1>6 DEF vars, flowVars, sideVars
<1> QED
  BY <1>1, <1>2, <1>3, <1>4, <1>5, <1>6 DEF Next

-----------------------------------------------------------------------------
Links == TaskOfEntry /\ TaskOfPrompt

\* A call on the run table that only drops entries keeps the links.
LEMMA LinksOfStop ==
    ASSUME Links, UNCHANGED <<owner, task, pc, asked>>,
           \A s \in Sessions : runs'[s] \in {runs[s], NoRun}
    PROVE  Links'
  BY DEF Links, TaskOfEntry, TaskOfPrompt

\* A run that reports leaves the table.
LEMMA LinksOfReport ==
    ASSUME NEW r \in Runs, NEW v \in Verdicts, IInv, FlowInv, Links,
           task[r] \in {"running", "reported"}, Finish(owner[r], r, v),
           task' = [task EXCEPT ![r] = "reported"], UNCHANGED <<owner, asked>>,
           NEW p \in Places, pc' = [pc EXCEPT ![r] = p]
    PROVE  Links'
<1>1. owner[r] \in Sessions
  BY NoSessionAssumption DEF IInv, Bookkeeping, TypeOK, TaskOfStarted
<1>2. \A s \in Sessions : runs'[s] \in {runs[s], NoRun} /\ runs'[s] # r
  <2>1. \A s \in Sessions : runs[s] = r => s = owner[r]
    BY NoRunAssumption DEF IInv, Bookkeeping, OwnEntry
  <2>2. CASE Current(owner[r], r)
    <3>1. runs' = [runs EXCEPT ![owner[r]] = NoRun]
      BY <2>2 DEF Finish, Current, Untrack
    <3> QED
      BY <2>1, <3>1, NoRunAssumption DEF IInv, Bookkeeping, TypeOK
  <2>3. CASE ~Current(owner[r], r)
    BY <1>1, <2>1, <2>3 DEF Finish, Current
  <2> QED
    BY <2>2, <2>3
<1>3. TaskOfEntry'
  BY <1>2 DEF Links, TaskOfEntry, IInv, Bookkeeping, TypeOK
<1>4. ASSUME NEW q \in Runs, task'[q] = "running"
      PROVE  pc'[q] \in Starting \cup Running /\ owner'[q] = asked'[q]
  <2>1. q # r /\ task[q] = "running"
    BY <1>4 DEF IInv, Bookkeeping, TypeOK
  <2> QED
    BY <2>1 DEF Links, TaskOfPrompt, FlowInv, FlowTypes
<1> QED
  BY <1>3, <1>4 DEF Links, TaskOfPrompt

\* The steps of a prompt that leave the run table alone move a run with a report to
\* make from one such place to another.
LEMMA LinksOfFlow ==
    ASSUME NEW r \in Runs, FlowInv, Links, UNCHANGED <<runVars, asked>>,
           NEW p \in Places, pc' = [pc EXCEPT ![r] = p],
           pc[r] \in Starting \cup Running => p \in Starting \cup Running
    PROVE  Links'
  BY DEF Links, TaskOfEntry, TaskOfPrompt, FlowInv, FlowTypes, runVars

LEMMA RunStepLinks ==
    ASSUME NEW r \in Runs, RunStep(r), IInv, FlowInv, Links
    PROVE  Links'
<1> USE DEF Goto, Places, BeforeStart, Starting, Running, Unwinding
<1>1. CASE StartRun(r)
  <2>1. /\ asked[r] \in Sessions /\ Start(asked[r], r) /\ asked' = asked
        /\ pc' = [pc EXCEPT ![r] = "marking"]
    BY <1>1 DEF StartRun, FlowInv, AskedFirst
  <2>2. TaskOfEntry'
    BY <2>1, NoSessionAssumption
    DEF Start, Links, TaskOfEntry, IInv, Bookkeeping, TypeOK, OwnEntry
  <2>3. TaskOfPrompt'
    BY <2>1 DEF Start, Links, TaskOfPrompt, IInv, Bookkeeping, TypeOK, FlowInv, FlowTypes
  <2> QED
    BY <2>2, <2>3 DEF Links
<1>2. CASE ReportReturn(r)
  BY <1>2, LinksOfReport DEF ReportReturn, TaskReturned, Verdicts
<1>3. CASE ReportError(r)
  BY <1>3, LinksOfReport DEF ReportError, TaskThrew, Verdicts
<1>4. CASE CreateSession(r)
  BY <1>4, LinksOfFlow DEF CreateSession
<1>5. CASE SaveMarker(r)
  BY <1>5, LinksOfFlow DEF SaveMarker
<1>6. CASE SweepList(r) \/ SweepFails(r) \/ AgentCreated(r) \/ AgentFails(r)
  BY <1>6, LinksOfFlow DEF SweepList, SweepFails, AgentCreated, AgentFails
<1>7. CASE SweepLoad(r) \/ SweepSave(r) \/ \E s \in Sessions : SweepCheck(r, s)
  BY <1>7, LinksOfFlow DEF SweepLoad, SweepSave, SweepCheck
<1>8. CASE LoopSave(r) \/ LoopReturn(r) \/ LoopThrow(r) \/ FinalSave(r)
  BY <1>8, LinksOfFlow DEF LoopSave, LoopReturn, LoopThrow, FinalSave
<1>9. CASE CatchLoad(r) \/ CatchSave(r) \/ FinallyLoad(r) \/ FinallySave(r)
  BY <1>9, LinksOfFlow DEF CatchLoad, CatchSave, FinallyLoad, FinallySave
<1> QED
  BY <1>1, <1>2, <1>3, <1>4, <1>5, <1>6, <1>7, <1>8, <1>9 DEF RunStep

LEMMA NextLinks ==
    ASSUME [Next]_vars, IInv, FlowInv, Links
    PROVE  Links'
<1>1. CASE \E r \in Runs, s \in Sessions : Prompt(r, s)
  <2>1. PICK r \in Runs, s \in Sessions : Prompt(r, s)
    BY <1>1
  <2>2. task[r] # "running"
    BY <2>1 DEF Prompt, Goto, Links, TaskOfPrompt, Starting, Running
  <2> QED
    BY <2>1, <2>2
    DEF Prompt, Goto, Links, TaskOfEntry, TaskOfPrompt, runVars, FlowInv, FlowTypes
<1>2. CASE \E r \in Runs : RunStep(r)
  BY <1>2, RunStepLinks
<1>3. CASE \E s \in Sessions : RouteStep(s)
  <2>1. PICK s \in Sessions : RouteStep(s)
    BY <1>3
  <2>2. CASE AbortRoute(s) \/ DeleteAbort(s)
    <3>1. Abort(s) /\ UNCHANGED <<owner, task, pc, asked>>
      BY <2>2 DEF AbortRoute, DeleteAbort, AbortSession, flowVars
    <3>2. \A t \in Sessions : runs'[t] \in {runs[t], NoRun}
      BY <3>1 DEF Abort, Untrack, IInv, Bookkeeping, TypeOK
    <3> QED
      BY <3>1, <3>2, LinksOfStop
  <2>3. CASE DeleteStored(s) \/ EditLoad(s) \/ EditSave(s)
    BY <2>3, LinksOfStop DEF DeleteStored, EditLoad, EditSave, runVars, flowVars
  <2> QED
    BY <2>1, <2>2, <2>3 DEF RouteStep
<1>4. CASE Shutdown
  BY <1>4, LinksOfStop DEF Shutdown, AbortAll, flowVars
<1>5. CASE Crash
  BY <1>5 DEF Crash, Restart, Links, TaskOfEntry, TaskOfPrompt, IInv, Bookkeeping, TypeOK
<1>6. CASE UNCHANGED vars
  BY <1>6, LinksOfStop DEF vars, runVars, flowVars
<1> QED
  BY <1>1, <1>2, <1>3, <1>4, <1>5, <1>6 DEF Next

-----------------------------------------------------------------------------
SInv == IInv /\ FlowInv /\ Links

LEMMA SInvInductive ==
    /\ Init => SInv
    /\ SInv /\ [Next]_vars => SInv'
<1>1. Init => SInv
  <2> SUFFICES ASSUME Init PROVE SInv
    OBVIOUS
  <2>1. IInv /\ FlowInv
    BY InitIInv, FlowInit DEF Init
  <2>2. Links
    BY DEF Init, RunInit, Links, TaskOfEntry, TaskOfPrompt
  <2> QED
    BY <2>1, <2>2 DEF SInv
<1>2. SInv /\ [Next]_vars => SInv'
  <2> SUFFICES ASSUME SInv, [Next]_vars PROVE SInv'
    OBVIOUS
  <2>1. [RunNext]_runVars
    BY NextRefines DEF SInv, FlowInv
  <2>2. IInv'
    BY <2>1, NextIInv DEF SInv
  <2> QED
    BY <2>2, NextFlow, NextLinks DEF SInv
<1> QED
  BY <1>1, <1>2

THEOREM SessionInductive == Spec => []SInv
  BY SInvInductive, PTL DEF Spec

\* Types: every object a run holds, in memory or in the store, is a session.
THEOREM SessionTypeCorrect == Spec => []TypeInvariant
<1>1. SInv => TypeInvariant
  BY DEF SInv, IInv, Bookkeeping, FlowInv, FlowTypes, TypeInvariant
<1> QED
  BY <1>1, SessionInductive, PTL

\* However prompts, sweeps, aborts, deletes, shutdowns and crashes interleave with the
\* awaits of the store, the run table only sees the calls RunState allows it.
THEOREM SessionImplementsRunState == Spec => RunSpec
<1>1. Init => RunInit
  BY DEF Init
<1>2. SInv /\ [Next]_vars => [RunNext]_runVars
  BY NextRefines DEF SInv, FlowInv
<1> QED
  BY <1>1, <1>2, SessionInductive, PTL DEF Spec, RunSpec

\* So the run.* events of a session bracket its runs, and match its status, in the
\* whole system ...
THEOREM SessionEventsCorrect == Spec => [](EventsBracketRuns /\ StatusMatchesEvents)
  BY SessionImplementsRunState, RunEventsCorrect, PTL

\* ... and each run lives the abstract life of RunLifecycle.
THEOREM SessionImplementsLifecycle == Spec => ImplementsLifecycle
  BY SessionImplementsRunState, RunStateImplementsLifecycle, PTL

\* A task that has unwound, on any path through executeRun, leaves no entry behind.
THEOREM SessionNoZombieRun == Spec => []NoZombieRun
<1>1. SInv => NoZombieRun
  BY DEF SInv, Links, TaskOfEntry, TaskOfPrompt, IInv, Bookkeeping, TypeOK, OwnEntry,
         NoZombieRun
<1> QED
  BY <1>1, SessionInductive, PTL

-----------------------------------------------------------------------------
\* Markers, as long as no save has failed and nobody has edited metadata.
Clean == troubles \cap {"save", "edit"} = {}
Sweeping(r) == pc[r] \in {"sweep", "sweepLoad", "sweepSave"}

EditIsTrouble == \A s \in Sessions : edit[s] # Absent => "edit" \in troubles

Kept == \A s \in Sessions :
    Interrupted(store[s]) => \E r \in Runs : asked[r] = s /\ (InFlight(r) \/ pc[r] = "dead")

\* A sweep has still to come to a session, or is at it, if the session has a marker and
\* nobody works on it: only runs at work on a session write markers into it, and the last
\* one to leave leaves none.
SweepAhead == \A r \in Runs, s \in Sessions :
    Sweeping(r) /\ Interrupted(store[s]) =>
        Busy(s) \/ s \in todo[r] \/ (pc[r] # "sweep" /\ at[r] = s)

MarkerInv == EditIsTrouble /\ (Clean => Kept /\ SweepAhead)

\* Once there has been such a trouble, nothing is left to show.
LEMMA MarkerUnclean ==
    ASSUME MarkerInv, troubles \subseteq troubles', ~Clean',
           edit' = edit \/ "edit" \in troubles'
    PROVE  MarkerInv'
  BY DEF MarkerInv, EditIsTrouble

\* A step of a run in flight that writes a marker only into its own session, and leaves
\* it without one when it ends.
LEMMA MarkerStep ==
    ASSUME NEW r \in Runs, MarkerInv, InFlight(r), pc'[r] \notin {"new", "dead"},
           UNCHANGED <<asked, edit>>, troubles \subseteq troubles',
           \A q \in Runs \ {r} : pc'[q] = pc[q] /\ todo'[q] = todo[q] /\ at'[q] = at[q],
           \A s \in Sessions : Interrupted(store'[s]) =>
               /\ Interrupted(store[s]) \/ s = asked[r]
               /\ pc'[r] = "over" => s # asked[r],
           Clean => \A s \in Sessions : Sweeping(r)' /\ Interrupted(store'[s]) =>
               Busy(s) \/ s \in todo'[r] \/ (pc'[r] # "sweep" /\ at'[r] = s)
    PROVE  MarkerInv'
<1>1. EditIsTrouble'
  BY DEF MarkerInv, EditIsTrouble
<1>2. SUFFICES ASSUME Clean, Kept, SweepAhead PROVE Kept' /\ SweepAhead'
  BY <1>1 DEF MarkerInv, Clean
<1>3. ASSUME NEW s \in Sessions, Interrupted(store'[s])
      PROVE  Busy(s) => Busy(s)'
  BY <1>3 DEF Busy, InFlight
<1>4. Kept'
  <2> SUFFICES ASSUME NEW s \in Sessions, Interrupted(store'[s])
               PROVE  \E q \in Runs : asked'[q] = s /\ (InFlight(q)' \/ pc'[q] = "dead")
    BY DEF Kept, Interrupted
  <2>1. CASE s = asked[r]
    BY <2>1 DEF InFlight
  <2>2. CASE s # asked[r]
    <3>1. PICK q \in Runs : asked[q] = s /\ (InFlight(q) \/ pc[q] = "dead")
      BY <1>2, <2>2 DEF Kept
    <3> QED
      BY <2>2, <3>1 DEF InFlight
  <2> QED
    BY <2>1, <2>2
<1>5. SweepAhead'
  <2> SUFFICES ASSUME NEW q \in Runs, NEW s \in Sessions, Sweeping(q)', Interrupted(store'[s])
               PROVE  Busy(s)' \/ s \in todo'[q] \/ (pc'[q] # "sweep" /\ at'[q] = s)
    BY DEF SweepAhead, Interrupted
  <2>1. CASE q = r
    BY <1>2, <1>3, <2>1 DEF Sweeping
  <2>2. CASE q # r /\ s = asked[r]
    BY <2>2 DEF Busy, InFlight
  <2>3. CASE q # r /\ s # asked[r]
    <3>1. Busy(s) \/ s \in todo[q] \/ (pc[q] # "sweep" /\ at[q] = s)
      BY <1>2, <2>3 DEF SweepAhead, Sweeping
    <3> QED
      BY <1>3, <2>3, <3>1
  <2> QED
    BY <2>1, <2>2, <2>3
<1> QED
  BY <1>4, <1>5

\* Saves that fail are troubles.
LEMMA SaveFailed ==
    ASSUME MarkerInv, SaveFails, UNCHANGED edit
    PROVE  MarkerInv'
  BY MarkerUnclean DEF SaveFails, Trouble, Clean

LEMMA RunStepMarkers ==
    ASSUME NEW r \in Runs, RunStep(r), SInv, MarkerInv
    PROVE  MarkerInv'
<1> USE SessionRunAssumption DEF Goto, Places, BeforeStart, Starting, Running, Unwinding
<1>0. /\ pc \in [Runs -> Places] /\ todo \in [Runs -> SUBSET Sessions]
      /\ at \in [Runs -> Sessions \cup {NoSession}]
      /\ asked \in [Runs -> Sessions \cup {NoSession}]
      /\ store \in [Sessions -> Object \cup {Absent}]
      /\ (pc[r] # "new" => asked[r] \in Sessions)
  BY DEF SInv, FlowInv, FlowTypes, AskedFirst
<1>1. CASE CreateSession(r)
  <2>1. CASE SaveFails
    BY <1>1, <2>1, SaveFailed DEF CreateSession
  <2>2. CASE ~SaveFails
    <3>1. /\ pc[r] = "loaded" /\ pc' = [pc EXCEPT ![r] = "loaded"]
          /\ store' = [store EXCEPT ![asked[r]] = NewSession]
          /\ UNCHANGED <<asked, edit, todo, at, troubles>>
      BY <1>1, <2>2 DEF CreateSession, Save
    <3>2. ~Interrupted(NewSession)
      BY DEF Interrupted, NewSession
    <3>3. \A s \in Sessions : Interrupted(store'[s]) => Interrupted(store[s])
      BY <1>0, <3>1, <3>2
    <3> QED
      BY <1>0, <3>1, <3>3, MarkerStep DEF InFlight, Sweeping
  <2> QED
    BY <2>1, <2>2
<1>2. CASE StartRun(r)
  BY <1>0, <1>2, MarkerStep DEF StartRun, sideVars, InFlight, Sweeping
<1>3. CASE SaveMarker(r)
  <2>1. CASE SaveFails
    BY <1>3, <2>1, SaveFailed DEF SaveMarker
  <2>2. CASE ~SaveFails
    <3>1. /\ pc[r] = "marking" /\ pc' = [pc EXCEPT ![r] = "listing"]
          /\ store' = [store EXCEPT ![asked[r]] = [obj[r] EXCEPT !.marker = r]]
          /\ UNCHANGED <<asked, edit, todo, at, troubles>>
      BY <1>3, <2>2 DEF SaveMarker, Save
    <3> QED
      BY <1>0, <3>1, MarkerStep DEF InFlight, Sweeping
  <2> QED
    BY <2>1, <2>2
<1>4. CASE SweepList(r)
  <2>1. /\ pc[r] = "listing" /\ pc' = [pc EXCEPT ![r] = "sweep"]
        /\ todo' = [todo EXCEPT ![r] = {s \in Sessions : store[s] # Absent}]
        /\ UNCHANGED <<store, asked, edit, at, troubles>>
    BY <1>4 DEF SweepList, sideVars
  <2>2. \A s \in Sessions : Interrupted(store[s]) => s \in todo'[r]
    BY <2>1 DEF Interrupted, SInv, FlowInv, FlowTypes
  <2> QED
    BY <1>0, <2>1, <2>2, MarkerStep DEF InFlight, Sweeping, SInv, FlowInv, FlowTypes
<1>5. CASE \E s \in Sessions : SweepCheck(r, s)
  <2>1. PICK s \in Sessions : SweepCheck(r, s)
    BY <1>5
  <2>2. /\ pc[r] = "sweep" /\ UNCHANGED <<store, asked, edit, troubles>>
        /\ todo' = [todo EXCEPT ![r] = @ \ {s}]
    BY <2>1 DEF SweepCheck, sideVars
  <2>3. \A q \in Runs \ {r} : todo'[q] = todo[q]
    BY <2>2 DEF SInv, FlowInv, FlowTypes
  <2>4. Clean => \A t \in Sessions : Interrupted(store'[t]) => Busy(t) \/ t \in todo[r]
    BY <2>2 DEF MarkerInv, SweepAhead, Sweeping
  <2>5. todo'[r] = todo[r] \ {s}
    BY <2>2 DEF SInv, FlowInv, FlowTypes
  <2>6. CASE runs[s] # NoRun
    <3>1. Busy(s)
      <4>1. runs[s] \in Runs /\ owner[runs[s]] = s
        BY <2>6 DEF SInv, IInv, Bookkeeping, TypeOK, OwnEntry
      <4>2. pc[runs[s]] \in Starting \cup Running /\ asked[runs[s]] = s
        BY <2>6, <4>1 DEF SInv, Links, TaskOfEntry, TaskOfPrompt
      <4> QED
        BY <4>1, <4>2 DEF Busy, InFlight
    <3>2. pc' = [pc EXCEPT ![r] = "sweep"] /\ at' = at
      BY <2>1, <2>6 DEF SweepCheck
    <3> QED
      BY <1>0, <2>2, <2>3, <2>4, <2>5, <3>1, <3>2, MarkerStep DEF InFlight, Sweeping
  <2>7. CASE runs[s] = NoRun
    <3>1. pc' = [pc EXCEPT ![r] = "sweepLoad"] /\ at' = [at EXCEPT ![r] = s]
      BY <2>1, <2>7 DEF SweepCheck
    <3>2. at'[r] = s /\ \A q \in Runs \ {r} : at'[q] = at[q]
      BY <3>1 DEF SInv, FlowInv, FlowTypes
    <3> QED
      BY <1>0, <2>2, <2>3, <2>4, <2>5, <3>1, <3>2, MarkerStep DEF InFlight, Sweeping
  <2> QED
    BY <2>6, <2>7
<1>6. CASE SweepLoad(r)
  <2>1. pc[r] = "sweepLoad" /\ UNCHANGED <<store, asked, todo, edit, troubles>>
    BY <1>6 DEF SweepLoad, sideVars
  <2>2. Clean => \A t \in Sessions : Interrupted(store'[t]) =>
                     Busy(t) \/ t \in todo'[r] \/ at[r] = t
    BY <2>1 DEF MarkerInv, SweepAhead, Sweeping
  <2>3. CASE Interrupted(store[at[r]])
    <3>1. pc' = [pc EXCEPT ![r] = "sweepSave"] /\ at' = at
      BY <1>6, <2>3 DEF SweepLoad
    <3> QED
      BY <1>0, <2>1, <2>2, <3>1, MarkerStep DEF InFlight, Sweeping
  <2>4. CASE ~Interrupted(store[at[r]])
    <3>1. pc' = [pc EXCEPT ![r] = "sweep"] /\ at' = [at EXCEPT ![r] = NoSession]
      BY <1>6, <2>4 DEF SweepLoad
    <3>2. \A q \in Runs \ {r} : at'[q] = at[q]
      BY <3>1 DEF SInv, FlowInv, FlowTypes
    <3>3. Clean => \A t \in Sessions : Interrupted(store'[t]) => Busy(t) \/ t \in todo'[r]
      BY <2>1, <2>2, <2>4
    <3> QED
      BY <1>0, <2>1, <3>1, <3>2, <3>3, MarkerStep DEF InFlight, Sweeping
  <2> QED
    BY <2>3, <2>4
<1>7. CASE SweepSave(r)
  <2>1. CASE SaveFails
    BY <1>7, <2>1, SaveFailed DEF SweepSave
  <2>2. CASE ~SaveFails
    <3>1. /\ pc[r] = "sweepSave" /\ pc' = [pc EXCEPT ![r] = "sweep"]
          /\ store' = [store EXCEPT ![at[r]] = Unmarked(cur[r])]
          /\ at' = [at EXCEPT ![r] = NoSession]
          /\ UNCHANGED <<asked, edit, todo, troubles>>
      BY <1>7, <2>2 DEF SweepSave, Save
    <3>2. at[r] \in Sessions /\ cur[r] \in Object
      BY <3>1 DEF SInv, FlowInv, InHand
    <3>3. ~Interrupted(Unmarked(cur[r]))
      BY <3>2 DEF Interrupted, Unmarked, Object
    <3>4. \A s \in Sessions : Interrupted(store'[s]) => s # at[r] /\ Interrupted(store[s])
      BY <1>0, <3>1, <3>2, <3>3
    <3>5. \A q \in Runs \ {r} : at'[q] = at[q]
      BY <3>1 DEF SInv, FlowInv, FlowTypes
    <3>6. Clean => \A t \in Sessions : Interrupted(store'[t]) => Busy(t) \/ t \in todo'[r]
      BY <3>1, <3>4 DEF MarkerInv, SweepAhead, Sweeping
    <3> QED
      BY <1>0, <3>1, <3>4, <3>5, <3>6, MarkerStep DEF InFlight, Sweeping
  <2> QED
    BY <2>1, <2>2
<1>8. CASE SweepFails(r)
  BY <1>8, MarkerUnclean DEF SweepFails, Trouble, Clean
<1>9. CASE AgentCreated(r)
  BY <1>0, <1>9, MarkerStep DEF AgentCreated, sideVars, InFlight, Sweeping
<1>10. CASE AgentFails(r)
  BY <1>0, <1>10, MarkerStep DEF AgentFails, Trouble, InFlight, Sweeping
<1>11. CASE LoopSave(r) \/ LoopReturn(r) \/ LoopThrow(r) \/ FinalSave(r)
  <2>1. CASE SaveFails
    BY <1>11, <2>1, SaveFailed DEF LoopSave, LoopReturn, LoopThrow, FinalSave
  <2>2. CASE ~SaveFails
    <3>1. /\ pc[r] \in Running /\ UNCHANGED <<asked, edit, todo, at, troubles>>
          /\ store' = store \/ \E o : store' = [store EXCEPT ![asked[r]] = o]
      BY <1>11, <2>2 DEF LoopSave, LoopReturn, LoopThrow, FinalSave, Save
    <3>2. PICK p \in Running : pc' = [pc EXCEPT ![r] = p]
      BY <1>11 DEF LoopSave, LoopReturn, LoopThrow, FinalSave
    <3>3. \A s \in Sessions : Interrupted(store'[s]) => Interrupted(store[s]) \/ s = asked[r]
      BY <1>0, <3>1
    <3> QED
      BY <1>0, <3>1, <3>2, <3>3, MarkerStep DEF InFlight, Sweeping
  <2> QED
    BY <2>1, <2>2
<1>12. CASE ReportReturn(r)
  BY <1>0, <1>12, MarkerStep DEF ReportReturn, sideVars, InFlight, Sweeping
<1>13. CASE ReportError(r)
  BY <1>0, <1>13, MarkerStep DEF ReportError, sideVars, InFlight, Sweeping
<1>14. CASE CatchLoad(r)
  <2>1. /\ pc[r] = "caught" /\ UNCHANGED <<store, asked, todo, at, edit, troubles>>
        /\ \E p \in {"resaving", "unwinding"} : pc' = [pc EXCEPT ![r] = p]
    BY <1>14 DEF CatchLoad, sideVars
  <2> QED
    BY <1>0, <2>1, MarkerStep DEF InFlight, Sweeping
<1>15. CASE CatchSave(r)
  <2>1. CASE SaveFails
    BY <1>15, <2>1, SaveFailed DEF CatchSave
  <2>2. CASE ~SaveFails
    <3>1. /\ pc[r] = "resaving" /\ UNCHANGED <<asked, edit, todo, at, troubles>>
          /\ store' = [store EXCEPT ![asked[r]] = cur[r]]
          /\ pc' = [pc EXCEPT ![r] = "unwinding"]
      BY <1>15, <2>2 DEF CatchSave, Save
    <3> QED
      BY <1>0, <3>1, MarkerStep DEF InFlight, Sweeping
  <2> QED
    BY <2>1, <2>2
<1>16. CASE FinallyLoad(r)
  <2>1. pc[r] = "unwinding" /\ UNCHANGED <<store, asked, todo, at, edit, troubles>>
    BY <1>16 DEF FinallyLoad, sideVars
  <2>2. CASE Interrupted(store[asked[r]])
    BY <1>0, <1>16, <2>1, <2>2, MarkerStep DEF FinallyLoad, InFlight, Sweeping
  <2>3. CASE ~Interrupted(store[asked[r]])
    BY <1>0, <1>16, <2>1, <2>3, MarkerStep DEF FinallyLoad, InFlight, Sweeping
  <2> QED
    BY <2>2, <2>3
<1>17. CASE FinallySave(r)
  <2>1. CASE SaveFails
    BY <1>17, <2>1, SaveFailed DEF FinallySave
  <2>2. CASE ~SaveFails
    <3>1. /\ pc[r] = "clearing" /\ UNCHANGED <<asked, edit, todo, at, troubles>>
          /\ store' = [store EXCEPT ![asked[r]] = Unmarked(cur[r])]
          /\ pc' = [pc EXCEPT ![r] = "over"]
      BY <1>17, <2>2 DEF FinallySave, Save
    <3>2. cur[r] \in Object
      BY <3>1 DEF SInv, FlowInv, InHand
    <3>3. ~Interrupted(Unmarked(cur[r]))
      BY <3>2 DEF Interrupted, Unmarked, Object
    <3>4. \A s \in Sessions : Interrupted(store'[s]) => s # asked[r] /\ Interrupted(store[s])
      BY <1>0, <3>1, <3>3
    <3> QED
      BY <1>0, <3>1, <3>4, MarkerStep DEF InFlight, Sweeping
  <2> QED
    BY <2>1, <2>2
<1> QED
  BY <1>1, <1>2, <1>3, <1>4, <1>5, <1>6, <1>7, <1>8, <1>9, <1>10, <1>11, <1>12,
     <1>13, <1>14, <1>15, <1>16, <1>17 DEF RunStep

LEMMA NextMarkers ==
    ASSUME [Next]_vars, SInv, MarkerInv
    PROVE  MarkerInv'
<1>0. /\ store \in [Sessions -> Object \cup {Absent}]
      /\ pc \in [Runs -> Places] /\ asked \in [Runs -> Sessions \cup {NoSession}]
      /\ edit \in [Sessions -> Object \cup {Absent}]
  BY DEF SInv, FlowInv, FlowTypes
<1>1. CASE \E r \in Runs, s \in Sessions : Prompt(r, s)
  <2>1. PICK r \in Runs, s \in Sessions : Prompt(r, s)
    BY <1>1
  <2>2. /\ pc[r] = "new" /\ pc' = [pc EXCEPT ![r] = "loaded"]
        /\ asked' = [asked EXCEPT ![r] = s]
        /\ UNCHANGED <<store, todo, at, edit, troubles>>
    BY <2>1 DEF Prompt, Goto, sideVars
  <2>3. \A q \in Runs : pc[q] # "new" => pc'[q] = pc[q] /\ asked'[q] = asked[q]
    BY <1>0, <2>2
  <2>4. \A q \in Runs : Sweeping(q)' => Sweeping(q) /\ pc'[q] = pc[q]
    BY <1>0, <2>2 DEF Sweeping
  <2>5. \A t \in Sessions : Busy(t) => Busy(t)'
    BY <2>3 DEF Busy, InFlight
  <2>6. Kept => Kept'
    BY <2>2, <2>3 DEF Kept, InFlight, Interrupted
  <2>7. SweepAhead => SweepAhead'
    BY <2>2, <2>4, <2>5 DEF SweepAhead, Interrupted
  <2> QED
    BY <2>2, <2>6, <2>7 DEF MarkerInv, EditIsTrouble, Clean
<1>2. CASE \E r \in Runs : RunStep(r)
  BY <1>2, RunStepMarkers
<1>3. CASE \E s \in Sessions : RouteStep(s)
  <2>1. PICK s \in Sessions : RouteStep(s)
    BY <1>3
  <2>2. CASE EditLoad(s)
    BY <2>2, MarkerUnclean DEF EditLoad, Trouble, Clean
  <2>3. CASE EditSave(s)
    <3>1. "edit" \in troubles /\ troubles' = troubles
      BY <2>3 DEF EditSave, Save, MarkerInv, EditIsTrouble
    <3> QED
      BY <3>1 DEF MarkerInv, EditIsTrouble, Clean
  <2>4. CASE AbortRoute(s) \/ DeleteAbort(s) \/ DeleteStored(s)
    <3>1. /\ UNCHANGED <<flowVars, edit>> /\ troubles \subseteq troubles'
          /\ \A t \in Sessions : Interrupted(store'[t]) => Interrupted(store[t])
      BY <1>0, <2>4
      DEF AbortRoute, DeleteAbort, DeleteStored, Trouble, sideVars, Interrupted
    <3> QED
      BY <3>1 DEF MarkerInv, EditIsTrouble, Clean, Kept, SweepAhead, Sweeping, Busy,
                  InFlight, flowVars, Interrupted
  <2> QED
    BY <2>1, <2>2, <2>3, <2>4 DEF RouteStep
<1>4. CASE Shutdown \/ UNCHANGED vars
  BY <1>4 DEF Shutdown, vars, flowVars, sideVars, MarkerInv, EditIsTrouble, Clean, Kept,
              SweepAhead, Sweeping, Busy, InFlight, Interrupted
<1>5. CASE Crash
  <2>1. /\ pc' = [r \in Runs |-> IF pc[r] \in {"new", "over"} THEN pc[r] ELSE "dead"]
        /\ edit' = [s \in Sessions |-> Absent] /\ UNCHANGED <<store, asked>>
        /\ troubles \subseteq troubles'
    BY <1>5 DEF Crash, Trouble
  <2>2. Kept => Kept'
    BY <2>1 DEF Kept, InFlight, Interrupted
  <2>3. \A r \in Runs : ~Sweeping(r)'
    BY <2>1 DEF Sweeping
  <2> QED
    BY <2>1, <2>2, <2>3 DEF MarkerInv, EditIsTrouble, Clean, SweepAhead
<1> QED
  BY <1>1, <1>2, <1>3, <1>4, <1>5 DEF Next

LEMMA MarkersInductive == Spec => []MarkerInv
<1>1. Init => MarkerInv
  BY DEF Init, MarkerInv, EditIsTrouble, Kept, SweepAhead, Sweeping, Interrupted, NewSession
<1> QED
  BY <1>1, NextMarkers, SessionInductive, PTL DEF Spec

\* Whatever overlapping runs write back and clear of each other's, a marker is never left
\* without a run that will clear it or died (the finally block of agent-run.ts).
THEOREM SessionMarkerHasKeeper == Spec => []MarkerHasKeeper
<1>1. MarkerInv => MarkerHasKeeper
  BY DEF MarkerInv, Clean, Kept, MarkerHasKeeper
<1> QED
  BY <1>1, MarkersInductive, PTL

\* When a sweep has come to its end, nothing is left of the dead where nobody works, although
\* it skips sessions that a run is active in and works on copies (run-state.ts:168-190).
THEOREM SessionSweepClearsTheDead == Spec => SweepClearsTheDead
<1>1. ASSUME MarkerInv, [Next]_vars
      PROVE  [\A r \in Runs :
                 AgentCreated(r) /\ troubles \cap {"save", "edit"} = {} =>
                     \A s \in Sessions :
                         Interrupted(store[s]) /\ pc[store[s].marker] = "dead" => Busy(s)]_vars
  BY <1>1 DEF MarkerInv, Clean, SweepAhead, Sweeping, AgentCreated, Goto
<1> QED
  BY <1>1, MarkersInductive, PTL DEF Spec, SweepClearsTheDead
=============================================================================
