--------------------------- MODULE RunStateProofs ---------------------------
(***************************************************************************)
(* The invariants of RunState and its refinement of RunLifecycle, for any  *)
(* sets of sessions and runs.                                              *)
(***************************************************************************)
EXTENDS RunState, TLAPS

\* An entry of the map is filed under the session its run was started for.
OwnEntry == \A s \in Sessions : runs[s] # NoRun => owner[runs[s]] = s

\* The resolver of a session belongs to the run whose entry it holds.
ResolverOfEntry == \A s \in Sessions : resolvers[s] = runs[s]

\* A run has a task from its start on, and only then.
TaskOfStarted == \A r \in Runs : task[r] = "none" <=> owner[r] = NoSession

\* The part of the inductive invariant that does not speak of events.
Bookkeeping ==
    /\ TypeOK
    /\ OwnEntry
    /\ ResolverOfEntry
    /\ TaskOfStarted
    /\ TrackedOrOver
    /\ SettledWithItsEntry
    /\ VerdictIsOwn

IInv == Bookkeeping /\ EventsBracketRuns /\ StatusMatchesEvents

-----------------------------------------------------------------------------
\* Appending the start of a run to an idle bracketed sequence keeps the bracket.
LEMMA AppendStart ==
    ASSUME NEW es \in Seq(RunEvent), NEW r \in Runs, Brackets(es), EndsIdle(es)
    PROVE  LET fs == Append(es, Event("started", r))
           IN  fs \in Seq(RunEvent) /\ Brackets(fs) /\ EndsWithStartOf(fs, r)
  BY DEF Brackets, EndsIdle, EndsWithStartOf, Started, Event, RunEvent

\* Appending the end of the run that started last keeps the bracket.
LEMMA AppendEnd ==
    ASSUME NEW es \in Seq(RunEvent), NEW r \in Runs, NEW v \in Verdicts,
           Brackets(es), EndsWithStartOf(es, r)
    PROVE  LET fs == Append(es, Event(v, r))
           IN  fs \in Seq(RunEvent) /\ Brackets(fs) /\ EndsIdle(fs)
  BY DEF Brackets, EndsIdle, EndsWithStartOf, Started, Event, RunEvent, Verdicts

-----------------------------------------------------------------------------
LEMMA InitIInv == RunInit => IInv
<1> SUFFICES ASSUME RunInit PROVE IInv
  OBVIOUS
<1>1. Bookkeeping
  BY NoRunAssumption, NoSessionAssumption
  DEF RunInit, Bookkeeping, TypeOK, OwnEntry, ResolverOfEntry, TaskOfStarted,
      TrackedOrOver, SettledWithItsEntry, VerdictIsOwn, Verdicts, RunEvent
<1>2. EventsBracketRuns /\ StatusMatchesEvents
  BY DEF RunInit, EventsBracketRuns, StatusMatchesEvents, Brackets, EndsIdle
<1> QED
  BY <1>1, <1>2 DEF IInv

-----------------------------------------------------------------------------
\* Each kind of step keeps the bookkeeping, given that the events stay well typed.
LEMMA StartBookkeeping ==
    ASSUME NEW s \in Sessions, NEW r \in Runs, Bookkeeping, Start(s, r),
           events' \in [Sessions -> Seq(RunEvent)]
    PROVE  Bookkeeping'
<1> USE NoRunAssumption, NoSessionAssumption DEF Start, StartIdle, StartBusy
<1>1. TypeOK'
  <2>1. runs' \in [Sessions -> Runs \cup {NoRun}]
    BY DEF Bookkeeping, TypeOK
  <2>2. resolvers' \in [Sessions -> Runs \cup {NoRun}]
    BY DEF Bookkeeping, TypeOK
  <2>3. /\ owner' \in [Runs -> Sessions \cup {NoSession}]
        /\ task' \in [Runs -> {"none", "running", "reported", "dead"}]
    BY DEF Bookkeeping, TypeOK
  <2>4. signalled' \subseteq Runs /\ resolved' \subseteq Runs
    BY DEF Bookkeeping, TypeOK
  <2>5. outcome' \in [Runs -> Verdicts \cup {"none", "lost"}]
    BY DEF Bookkeeping, TypeOK, Verdicts
  <2> QED
    BY <2>1, <2>2, <2>3, <2>4, <2>5 DEF TypeOK
<1>2. OwnEntry'
  BY DEF Bookkeeping, TypeOK, OwnEntry, TrackedOrOver, Verdicts
<1>3. ResolverOfEntry'
  BY DEF Bookkeeping, TypeOK, ResolverOfEntry, Verdicts
<1>4. TaskOfStarted'
  BY DEF Bookkeeping, TypeOK, TaskOfStarted, Verdicts
<1>5. TrackedOrOver'
  BY DEF Bookkeeping, TypeOK, TrackedOrOver, OwnEntry, TaskOfStarted, Verdicts
<1>6. SettledWithItsEntry'
  BY DEF Bookkeeping, TypeOK, SettledWithItsEntry, ResolverOfEntry, TrackedOrOver, OwnEntry, Verdicts
<1>7. VerdictIsOwn'
  BY DEF Bookkeeping, TypeOK, VerdictIsOwn, TrackedOrOver, TaskOfStarted, OwnEntry, Verdicts
<1> QED
  BY <1>1, <1>2, <1>3, <1>4, <1>5, <1>6, <1>7 DEF Bookkeeping

LEMMA FinishBookkeeping ==
    ASSUME NEW s \in Sessions, NEW r \in Runs, NEW v \in Verdicts,
           Bookkeeping, Finish(s, r, v), s = owner[r],
           task' = [task EXCEPT ![r] = "reported"],
           task[r] # "none", UNCHANGED owner,
           events' \in [Sessions -> Seq(RunEvent)]
    PROVE  Bookkeeping'
<1> USE NoRunAssumption, NoSessionAssumption DEF Finish, Current, Retire, Untrack
<1>1. TypeOK'
  <2>1. runs' \in [Sessions -> Runs \cup {NoRun}]
    BY DEF Bookkeeping, TypeOK
  <2>2. resolvers' \in [Sessions -> Runs \cup {NoRun}]
    BY DEF Bookkeeping, TypeOK
  <2>3. /\ owner' \in [Runs -> Sessions \cup {NoSession}]
        /\ task' \in [Runs -> {"none", "running", "reported", "dead"}]
    BY DEF Bookkeeping, TypeOK
  <2>4. signalled' \subseteq Runs /\ resolved' \subseteq Runs
    BY DEF Bookkeeping, TypeOK
  <2>5. outcome' \in [Runs -> Verdicts \cup {"none", "lost"}]
    BY DEF Bookkeeping, TypeOK, Verdicts
  <2> QED
    BY <2>1, <2>2, <2>3, <2>4, <2>5 DEF TypeOK
<1>2. OwnEntry'
  BY DEF Bookkeeping, TypeOK, OwnEntry, TrackedOrOver, Verdicts
<1>3. ResolverOfEntry'
  BY DEF Bookkeeping, TypeOK, ResolverOfEntry, Verdicts
<1>4. TaskOfStarted'
  BY DEF Bookkeeping, TypeOK, TaskOfStarted, Verdicts
<1>5. TrackedOrOver'
  BY DEF Bookkeeping, TypeOK, TrackedOrOver, OwnEntry, TaskOfStarted, Verdicts
<1>6. SettledWithItsEntry'
  BY DEF Bookkeeping, TypeOK, SettledWithItsEntry, ResolverOfEntry, TrackedOrOver, OwnEntry, Verdicts
<1>7. VerdictIsOwn'
  BY DEF Bookkeeping, TypeOK, VerdictIsOwn, TrackedOrOver, TaskOfStarted, OwnEntry, Verdicts
<1> QED
  BY <1>1, <1>2, <1>3, <1>4, <1>5, <1>6, <1>7 DEF Bookkeeping

LEMMA AbortBookkeeping ==
    ASSUME NEW s \in Sessions, Bookkeeping, Abort(s), UNCHANGED <<owner, task>>,
           events' \in [Sessions -> Seq(RunEvent)]
    PROVE  Bookkeeping'
<1> USE NoRunAssumption, NoSessionAssumption DEF Abort, Retire, Untrack
<1>1. TypeOK'
  <2>1. runs' \in [Sessions -> Runs \cup {NoRun}]
    BY DEF Bookkeeping, TypeOK
  <2>2. resolvers' \in [Sessions -> Runs \cup {NoRun}]
    BY DEF Bookkeeping, TypeOK
  <2>3. /\ owner' \in [Runs -> Sessions \cup {NoSession}]
        /\ task' \in [Runs -> {"none", "running", "reported", "dead"}]
    BY DEF Bookkeeping, TypeOK
  <2>4. signalled' \subseteq Runs /\ resolved' \subseteq Runs
    BY DEF Bookkeeping, TypeOK
  <2>5. outcome' \in [Runs -> Verdicts \cup {"none", "lost"}]
    BY DEF Bookkeeping, TypeOK, Verdicts
  <2> QED
    BY <2>1, <2>2, <2>3, <2>4, <2>5 DEF TypeOK
<1>2. OwnEntry'
  BY DEF Bookkeeping, TypeOK, OwnEntry, TrackedOrOver, Verdicts
<1>3. ResolverOfEntry'
  BY DEF Bookkeeping, TypeOK, ResolverOfEntry, Verdicts
<1>4. TaskOfStarted'
  BY DEF Bookkeeping, TypeOK, TaskOfStarted, Verdicts
<1>5. TrackedOrOver'
  BY DEF Bookkeeping, TypeOK, TrackedOrOver, OwnEntry, TaskOfStarted, Verdicts
<1>6. SettledWithItsEntry'
  BY DEF Bookkeeping, TypeOK, SettledWithItsEntry, ResolverOfEntry, TrackedOrOver, OwnEntry, Verdicts
<1>7. VerdictIsOwn'
  BY DEF Bookkeeping, TypeOK, VerdictIsOwn, TrackedOrOver, TaskOfStarted, OwnEntry, Verdicts
<1> QED
  BY <1>1, <1>2, <1>3, <1>4, <1>5, <1>6, <1>7 DEF Bookkeeping

LEMMA AbortAllBookkeeping ==
    ASSUME Bookkeeping, AbortAll, events' \in [Sessions -> Seq(RunEvent)]
    PROVE  Bookkeeping'
  BY NoRunAssumption, NoSessionAssumption
  DEF Bookkeeping, TypeOK, OwnEntry, ResolverOfEntry, TaskOfStarted, TrackedOrOver,
      SettledWithItsEntry, VerdictIsOwn, Verdicts, AbortAll

LEMMA RestartBookkeeping ==
    ASSUME Bookkeeping, Restart
    PROVE  Bookkeeping'
  BY NoRunAssumption, NoSessionAssumption
  DEF Bookkeeping, TypeOK, OwnEntry, ResolverOfEntry, TaskOfStarted, TrackedOrOver,
      SettledWithItsEntry, VerdictIsOwn, Verdicts, Restart, RunEvent

-----------------------------------------------------------------------------
\* What the two event invariants say of one session.
EventsOf(s) ==
    /\ Brackets(events[s])
    /\ \A i \in 1 .. Len(events[s]) :
          ~Started(events[s][i]) => events[s][i].kind = outcome[events[s][i].run]
    /\ IF runs[s] = NoRun THEN EndsIdle(events[s])
                          ELSE EndsWithStartOf(events[s], runs[s])

LEMMA EventsBySession ==
    (EventsBracketRuns /\ StatusMatchesEvents) <=> \A s \in Sessions : EventsOf(s)
  BY DEF EventsBracketRuns, StatusMatchesEvents, EventsOf

\* A session whose map entry and events a step leaves alone keeps its invariant as
\* long as only runs without an outcome get one: no end event speaks of those.
LEMMA EventsElsewhere ==
    ASSUME TypeOK, NEW t \in Sessions, EventsOf(t),
           events'[t] = events[t], runs'[t] = runs[t],
           \A q \in Runs : outcome[q] \in Verdicts => outcome'[q] = outcome[q]
    PROVE  EventsOf(t)'
<1>1. \A i \in 1 .. Len(events[t]) : events[t][i] \in RunEvent
  BY DEF TypeOK
<1>2. ASSUME NEW i \in 1 .. Len(events[t]), ~Started(events[t][i])
      PROVE  events[t][i].kind = outcome'[events[t][i].run]
  BY <1>1, <1>2 DEF EventsOf, RunEvent, Started, Verdicts
<1> QED
  BY <1>2 DEF EventsOf

\* Ending the live run of s: its event is appended and it gets its outcome.
LEMMA EventsEnd ==
    ASSUME Bookkeeping, NEW s \in Sessions, NEW v \in Verdicts, EventsOf(s),
           runs[s] # NoRun
    PROVE  LET fs == Append(events[s], Event(v, runs[s]))
               out == [outcome EXCEPT ![runs[s]] = v]
           IN  /\ fs \in Seq(RunEvent)
               /\ Brackets(fs)
               /\ EndsIdle(fs)
               /\ \A i \in 1 .. Len(fs) : ~Started(fs[i]) => fs[i].kind = out[fs[i].run]
<1> DEFINE fs == Append(events[s], Event(v, runs[s]))
           out == [outcome EXCEPT ![runs[s]] = v]
<1>1. /\ runs[s] \in Runs
      /\ events[s] \in Seq(RunEvent)
      /\ outcome \in [Runs -> Verdicts \cup {"none", "lost"}]
      /\ outcome[runs[s]] = "none"
  BY NoSessionAssumption DEF Bookkeeping, TypeOK, TrackedOrOver, OwnEntry
<1>2. fs \in Seq(RunEvent) /\ Brackets(fs) /\ EndsIdle(fs)
  BY <1>1, AppendEnd DEF EventsOf
<1>3. ASSUME NEW i \in 1 .. Len(fs), ~Started(fs[i])
      PROVE  fs[i].kind = out[fs[i].run]
  <2>1. CASE i = Len(events[s]) + 1
    BY <1>1, <2>1 DEF Event
  <2>2. CASE i \in 1 .. Len(events[s])
    <3>1. fs[i] = events[s][i] /\ events[s][i] \in RunEvent
      BY <1>1, <2>2
    <3>2. events[s][i].kind = outcome[events[s][i].run]
      BY <1>3, <2>2, <3>1 DEF EventsOf
    <3>3. events[s][i].kind \in Verdicts
      BY <1>3, <3>1 DEF RunEvent, Started
    <3>4. events[s][i].run # runs[s]
      BY <1>1, <3>2, <3>3 DEF Verdicts
    <3> QED
      BY <1>1, <3>1, <3>2, <3>4 DEF RunEvent
  <2> QED
    BY <1>1, <2>1, <2>2
<1> HIDE DEF fs, out
<1>4. \A i \in 1 .. Len(fs) : ~Started(fs[i]) => fs[i].kind = out[fs[i].run]
  BY <1>3
<1> QED
  BY <1>2, <1>4 DEF fs, out

\* A session left idle by an ending step.
LEMMA EventsAfterEnd ==
    ASSUME Bookkeeping, NEW s \in Sessions, NEW v \in Verdicts, EventsOf(s),
           runs[s] # NoRun, Retire(s, v), Untrack(s)
    PROVE  EventsOf(s)' /\ events' \in [Sessions -> Seq(RunEvent)]
<1>1. /\ events'[s] = Append(events[s], Event(v, runs[s]))
      /\ outcome' = [outcome EXCEPT ![runs[s]] = v]
      /\ runs'[s] = NoRun
  BY DEF Bookkeeping, TypeOK, Retire, Untrack
<1>2. EventsOf(s)'
  BY <1>1, EventsEnd DEF EventsOf
<1>3. Append(events[s], Event(v, runs[s])) \in Seq(RunEvent)
  BY EventsEnd
<1> QED
  BY <1>2, <1>3 DEF Bookkeeping, TypeOK, Retire

-----------------------------------------------------------------------------
LEMMA StartStep ==
    ASSUME IInv, NEW s \in Sessions, NEW r \in Runs, Start(s, r)
    PROVE  IInv'
<1> DEFINE ended == Append(events[s], Event("aborted", runs[s]))
<1>1. EventsOf(s)
  BY EventsBySession DEF IInv
<1>2. events'[s] \in Seq(RunEvent) /\ EventsOf(s)'
  <2>1. runs'[s] = r /\ r # NoRun
    BY NoRunAssumption DEF Start, IInv, Bookkeeping, TypeOK
  <2>2. CASE StartIdle(s, r)
    <3>1. events'[s] = Append(events[s], Event("started", r)) /\ outcome' = outcome
      BY <2>2 DEF StartIdle, IInv, Bookkeeping, TypeOK
    <3>2. events[s] \in Seq(RunEvent) /\ EndsIdle(events[s]) /\ Brackets(events[s])
      BY <1>1, <2>2 DEF EventsOf, StartIdle, IInv, Bookkeeping, TypeOK
    <3>3. /\ events'[s] \in Seq(RunEvent)
          /\ Brackets(events'[s])
          /\ EndsWithStartOf(events'[s], r)
      BY <3>1, <3>2, AppendStart
    <3>4. ASSUME NEW i \in 1 .. Len(events'[s]), ~Started(events'[s][i])
          PROVE  events'[s][i].kind = outcome'[events'[s][i].run]
      BY <1>1, <3>1, <3>2, <3>4 DEF EventsOf, Started, Event
    <3> QED
      BY <2>1, <3>3, <3>4 DEF EventsOf
  <2>3. CASE StartBusy(s, r)
    <3>1. /\ events'[s] = Append(ended, Event("started", r))
          /\ outcome' = [outcome EXCEPT ![runs[s]] = "aborted"]
      BY <2>3 DEF StartBusy, IInv, Bookkeeping, TypeOK
    <3>2. /\ ended \in Seq(RunEvent)
          /\ Brackets(ended)
          /\ EndsIdle(ended)
          /\ \A i \in 1 .. Len(ended) :
                ~Started(ended[i]) => ended[i].kind = outcome'[ended[i].run]
      BY <1>1, <2>3, <3>1, EventsEnd DEF StartBusy, IInv, Verdicts
    <3> HIDE DEF ended
    <3>3. /\ events'[s] \in Seq(RunEvent)
          /\ Brackets(events'[s])
          /\ EndsWithStartOf(events'[s], r)
      BY <3>1, <3>2, AppendStart
    <3>4. ASSUME NEW i \in 1 .. Len(events'[s]), ~Started(events'[s][i])
          PROVE  events'[s][i].kind = outcome'[events'[s][i].run]
      BY <3>1, <3>2, <3>4 DEF Started, Event
    <3> QED
      BY <2>1, <3>3, <3>4 DEF EventsOf
  <2> QED
    BY <2>2, <2>3 DEF Start
<1>3. events' \in [Sessions -> Seq(RunEvent)]
  BY <1>2 DEF IInv, Bookkeeping, TypeOK, Start, StartIdle, StartBusy
<1>4. Bookkeeping'
  BY <1>3, StartBookkeeping DEF IInv
<1>5. ASSUME NEW t \in Sessions, t # s
      PROVE  EventsOf(t)'
  <2>1. events'[t] = events[t] /\ runs'[t] = runs[t]
    BY <1>5 DEF IInv, Bookkeeping, TypeOK, Start, StartIdle, StartBusy
  <2>2. \A q \in Runs : outcome[q] \in Verdicts => outcome'[q] = outcome[q]
    BY NoSessionAssumption
    DEF IInv, Bookkeeping, TypeOK, TrackedOrOver, OwnEntry, Start, StartIdle,
        StartBusy, Verdicts
  <2>3. TypeOK /\ EventsOf(t)
    BY EventsBySession DEF IInv, Bookkeeping
  <2> QED
    BY <2>1, <2>2, <2>3, EventsElsewhere
<1>6. (EventsBracketRuns /\ StatusMatchesEvents)'
  BY <1>2, <1>5 DEF EventsBracketRuns, StatusMatchesEvents, EventsOf
<1> QED
  BY <1>4, <1>6 DEF IInv

\* The two ways an entry is retired, by its task or by abort(), share this step.
LEMMA RetireStep ==
    ASSUME IInv, NEW s \in Sessions, NEW v \in Verdicts, runs[s] # NoRun,
           Retire(s, v), Untrack(s)
    PROVE  /\ events' \in [Sessions -> Seq(RunEvent)]
           /\ (EventsBracketRuns /\ StatusMatchesEvents)'
<1>1. EventsOf(s)' /\ events' \in [Sessions -> Seq(RunEvent)]
  BY EventsBySession, EventsAfterEnd DEF IInv
<1>2. ASSUME NEW t \in Sessions, t # s
      PROVE  EventsOf(t)'
  <2>1. events'[t] = events[t] /\ runs'[t] = runs[t]
    BY <1>2 DEF IInv, Bookkeeping, TypeOK, Retire, Untrack
  <2>2. \A q \in Runs : outcome[q] \in Verdicts => outcome'[q] = outcome[q]
    BY NoSessionAssumption
    DEF IInv, Bookkeeping, TypeOK, TrackedOrOver, OwnEntry, Retire, Verdicts
  <2>3. TypeOK /\ EventsOf(t)
    BY EventsBySession DEF IInv, Bookkeeping
  <2> QED
    BY <2>1, <2>2, <2>3, EventsElsewhere
<1> QED
  BY <1>1, <1>2 DEF EventsBracketRuns, StatusMatchesEvents, EventsOf

LEMMA ReportStep ==
    ASSUME IInv, NEW r \in Runs, NEW v \in Verdicts,
           Finish(owner[r], r, v), task[r] \in {"running", "reported"},
           task' = [task EXCEPT ![r] = "reported"], UNCHANGED owner
    PROVE  IInv'
<1> DEFINE s == owner[r]
<1>1. s \in Sessions
  BY NoSessionAssumption DEF IInv, Bookkeeping, TypeOK, TaskOfStarted
<1>2. CASE Current(s, r)
  <2>1. runs[s] # NoRun /\ Retire(s, v) /\ Untrack(s)
    BY <1>2, NoRunAssumption DEF Current, Finish
  <2>2. /\ events' \in [Sessions -> Seq(RunEvent)]
        /\ (EventsBracketRuns /\ StatusMatchesEvents)'
    BY <1>1, <2>1, RetireStep
  <2>3. Bookkeeping'
    BY <1>1, <2>2, FinishBookkeeping DEF IInv
  <2> QED
    BY <2>2, <2>3 DEF IInv
<1>3. CASE ~Current(s, r)
  <2>1. UNCHANGED <<runs, resolvers, signalled, resolved, outcome, events>>
    BY <1>3 DEF Finish
  <2>2. Bookkeeping'
    BY <1>1, <2>1, FinishBookkeeping DEF IInv, Bookkeeping, TypeOK
  <2> QED
    BY <2>1, <2>2 DEF IInv, EventsBracketRuns, StatusMatchesEvents
<1> QED
  BY <1>2, <1>3

LEMMA AbortStep ==
    ASSUME IInv, NEW s \in Sessions, AbortSession(s)
    PROVE  IInv'
<1>1. Abort(s) /\ UNCHANGED <<owner, task>>
  BY DEF AbortSession
<1>2. CASE runs[s] # NoRun
  <2>1. Retire(s, "aborted") /\ Untrack(s) /\ "aborted" \in Verdicts
    BY <1>1, <1>2 DEF Abort, Verdicts
  <2>2. /\ events' \in [Sessions -> Seq(RunEvent)]
        /\ (EventsBracketRuns /\ StatusMatchesEvents)'
    BY <1>2, <2>1, RetireStep
  <2> QED
    BY <1>1, <2>2, AbortBookkeeping DEF IInv
<1>3. CASE runs[s] = NoRun
  <2>1. UNCHANGED <<runs, resolvers, signalled, resolved, outcome, events>>
    BY <1>1, <1>3 DEF Abort
  <2>2. Bookkeeping'
    BY <1>1, <2>1, AbortBookkeeping DEF IInv, Bookkeeping, TypeOK
  <2> QED
    BY <2>1, <2>2 DEF IInv, EventsBracketRuns, StatusMatchesEvents
<1> QED
  BY <1>2, <1>3

LEMMA AbortAllStep ==
    ASSUME IInv, AbortAll
    PROVE  IInv'
<1>1. ASSUME NEW s \in Sessions
      PROVE  EventsOf(s)' /\ events'[s] \in Seq(RunEvent)
  <2>1. runs'[s] = NoRun
    BY DEF AbortAll
  <2>2. TypeOK /\ EventsOf(s)
    BY EventsBySession DEF IInv, Bookkeeping
  <2>3. CASE runs[s] = NoRun
    <3>1. events'[s] = events[s]
      BY <2>3 DEF AbortAll
    <3>2. \A q \in Runs : outcome[q] \in Verdicts => outcome'[q] = outcome[q]
      BY NoRunAssumption, NoSessionAssumption
      DEF IInv, Bookkeeping, TypeOK, TrackedOrOver, OwnEntry, AbortAll, Verdicts
    <3>3. EventsOf(s)'
      BY <2>1, <2>2, <2>3, <3>1, <3>2, EventsElsewhere
    <3> QED
      BY <2>2, <3>1, <3>3 DEF TypeOK
  <2>4. CASE runs[s] # NoRun
    <3> DEFINE fs == Append(events[s], Event("aborted", runs[s]))
               out == [outcome EXCEPT ![runs[s]] = "aborted"]
    <3>1. events'[s] = fs
      BY <2>4 DEF AbortAll
    <3>2. /\ fs \in Seq(RunEvent)
          /\ Brackets(fs)
          /\ EndsIdle(fs)
          /\ \A i \in 1 .. Len(fs) : ~Started(fs[i]) => fs[i].kind = out[fs[i].run]
      BY <2>2, <2>4, EventsEnd DEF IInv, Verdicts
    <3>3. \A q \in Runs : out[q] \in Verdicts => outcome'[q] = out[q]
      BY <2>4, NoRunAssumption, NoSessionAssumption
      DEF IInv, Bookkeeping, TypeOK, TrackedOrOver, OwnEntry, AbortAll, Verdicts
    <3> HIDE DEF fs, out
    <3>4. ASSUME NEW i \in 1 .. Len(fs), ~Started(fs[i])
          PROVE  fs[i].kind = outcome'[fs[i].run]
      <4>1. fs[i] \in RunEvent
        BY <3>2
      <4>2. fs[i].run \in Runs /\ fs[i].kind \in Verdicts
        BY <3>4, <4>1 DEF RunEvent, Started
      <4>3. fs[i].kind = out[fs[i].run]
        BY <3>2, <3>4
      <4> QED
        BY <3>3, <4>2, <4>3
    <3> QED
      BY <2>1, <3>1, <3>2, <3>4 DEF EventsOf
  <2> QED
    BY <2>3, <2>4
<1>2. events' \in [Sessions -> Seq(RunEvent)]
  BY <1>1 DEF AbortAll
<1>3. Bookkeeping'
  BY <1>2, AbortAllBookkeeping DEF IInv
<1> QED
  BY <1>1, <1>3 DEF IInv, EventsBracketRuns, StatusMatchesEvents, EventsOf

LEMMA RestartStep ==
    ASSUME IInv, Restart
    PROVE  IInv'
<1>1. Bookkeeping'
  BY RestartBookkeeping DEF IInv
<1>2. (EventsBracketRuns /\ StatusMatchesEvents)'
  BY DEF Restart, EventsBracketRuns, StatusMatchesEvents, Brackets, EndsIdle
<1> QED
  BY <1>1, <1>2 DEF IInv

\* Every step of RunStateManager and of its callers keeps the inductive invariant.
LEMMA NextIInv == IInv /\ [RunNext]_runVars => IInv'
<1> SUFFICES ASSUME IInv, [RunNext]_runVars
             PROVE  IInv'
  OBVIOUS
<1>1. ASSUME NEW s \in Sessions, NEW r \in Runs, Start(s, r)
      PROVE  IInv'
  BY <1>1, StartStep
<1>2. ASSUME NEW r \in Runs, TaskReturned(r)
      PROVE  IInv'
  <2> DEFINE v == IF r \in signalled THEN "aborted" ELSE "completed"
  <2>1. v \in Verdicts
    BY DEF Verdicts
  <2>2. /\ Finish(owner[r], r, v)
        /\ task[r] \in {"running", "reported"}
        /\ task' = [task EXCEPT ![r] = "reported"]
        /\ UNCHANGED owner
    BY <1>2 DEF TaskReturned
  <2> QED
    BY <2>1, <2>2, ReportStep
<1>3. ASSUME NEW r \in Runs, TaskThrew(r)
      PROVE  IInv'
  BY <1>3, ReportStep DEF TaskThrew, Verdicts
<1>4. ASSUME NEW s \in Sessions, AbortSession(s)
      PROVE  IInv'
  BY <1>4, AbortStep
<1>5. CASE AbortAll
  BY <1>5, AbortAllStep
<1>6. CASE Restart
  BY <1>6, RestartStep
<1>7. CASE UNCHANGED runVars
  BY <1>7
  DEF IInv, Bookkeeping, TypeOK, OwnEntry, ResolverOfEntry, TaskOfStarted, TrackedOrOver,
      SettledWithItsEntry, VerdictIsOwn, EventsBracketRuns, StatusMatchesEvents, runVars
<1> QED
  BY <1>1, <1>2, <1>3, <1>4, <1>5, <1>6, <1>7 DEF RunNext

-----------------------------------------------------------------------------
\* The inductive invariant holds of every execution of the run table
\* (run-state.ts under the calls of agent-run.ts and the routes).
THEOREM RunIInv == RunSpec => []IInv
  BY InitIInv, NextIInv, PTL DEF RunSpec

\* The run table keeps its types: entries, resolvers and events are of known runs.
THEOREM RunTypeCorrect == RunSpec => []TypeOK
<1>1. IInv => TypeOK
  BY DEF IInv, Bookkeeping
<1> QED
  BY <1>1, RunIInv, PTL

\* For any number of sessions and runs, the run.* events of a session bracket its
\* runs and the last one agrees with what /status reads from the map.
THEOREM RunEventsCorrect == RunSpec => [](EventsBracketRuns /\ StatusMatchesEvents)
<1>1. IInv => EventsBracketRuns /\ StatusMatchesEvents
  BY DEF IInv
<1> QED
  BY <1>1, RunIInv, PTL

\* No superseded run ever completes or errors the run that replaced it: the expectedAbort
\* guard of complete() and error() suffices for any interleaving.  And `done` settles and the
\* signal fires exactly with the run's own outcome, although the resolvers are keyed by session
\* and not by run (run-state.ts).
THEOREM RunEndsAreOwn == RunSpec => []EndsAreOwn
<1>1. IInv => EndsAreOwn
  BY DEF IInv, Bookkeeping, EndsAreOwn
<1> QED
  BY <1>1, RunIInv, PTL

-----------------------------------------------------------------------------
\* The phases of the runs after a step, given those before it.
LEMMA RefineInit == RunInit => Lifecycle!Init
  BY DEF RunInit, Lifecycle!Init, phaseOf

LEMMA RefineStart ==
    ASSUME IInv, IInv', NEW s \in Sessions, NEW r \in Runs, Start(s, r)
    PROVE  Lifecycle!Begin(s, r)
<1>1. phaseOf[r] = "unborn"
  BY DEF Start, phaseOf
<1>2. ASSUME NEW q \in Runs
      PROVE  phaseOf'[q] = IF q = r THEN "live"
                           ELSE IF q \in Lifecycle!LiveIn({s}) THEN "aborted"
                           ELSE phaseOf[q]
  <2>1. /\ r # NoRun
        /\ runs' = [runs EXCEPT ![s] = r]
        /\ owner' = [owner EXCEPT ![r] = s]
    BY NoRunAssumption DEF Start
  <2>2. q \in Lifecycle!LiveIn({s}) <=> owner[q] = s /\ runs[s] = q
    BY NoSessionAssumption, NoRunAssumption
    DEF IInv, Bookkeeping, TypeOK, OwnEntry, TrackedOrOver, Verdicts, phaseOf,
        Lifecycle!LiveIn
  <2>3. CASE q = r
    BY <2>1, <2>3, NoSessionAssumption DEF IInv, Bookkeeping, TypeOK, phaseOf
  <2>4. CASE q # r /\ runs[s] = q
    <3>1. owner[q] = s /\ owner'[q] = s /\ runs'[s] = r
      BY <2>1, <2>4, NoRunAssumption DEF IInv, Bookkeeping, TypeOK, OwnEntry
    <3>2. outcome'[q] = "aborted"
      BY <2>4, NoRunAssumption
      DEF IInv, Bookkeeping, TypeOK, Start, StartIdle, StartBusy
    <3>3. phaseOf'[q] = "aborted"
      BY <2>4, <3>1, <3>2, NoSessionAssumption DEF phaseOf
    <3> QED
      BY <2>2, <2>4, <3>1, <3>3
  <2>5. CASE q # r /\ runs[s] # q
    <3>1. owner'[q] = owner[q] /\ outcome'[q] = outcome[q]
      BY <2>1, <2>5 DEF IInv, Bookkeeping, TypeOK, Start, StartIdle, StartBusy
    <3>2. owner[q] # NoSession => (runs'[owner[q]] = q <=> runs[owner[q]] = q)
      BY <2>1, <2>5 DEF IInv, Bookkeeping, TypeOK
    <3> QED
      BY <2>2, <2>5, <3>1, <3>2 DEF phaseOf
  <2> QED
    BY <2>3, <2>4, <2>5
<1>3. owner' = [owner EXCEPT ![r] = s]
  BY DEF Start
<1> QED
  BY <1>1, <1>2, <1>3 DEF Lifecycle!Begin, phaseOf

\* A report of run r's own task ends r, or is the late report of a run that is over.
LEMMA RefineReport ==
    ASSUME IInv, IInv', NEW r \in Runs, NEW v \in Verdicts, task[r] = "running" \/ v = "error",
           Finish(owner[r], r, v), task[r] # "none", UNCHANGED owner,
           v = "aborted" => r \in signalled
    PROVE  \/ Lifecycle!End(r, v) /\ v \in {"completed", "error"}
           \/ UNCHANGED <<phaseOf, owner>>
<1>1. owner[r] \in Sessions
  BY DEF IInv, Bookkeeping, TypeOK, TaskOfStarted
<1>2. CASE Current(owner[r], r)
  <2>1. phaseOf[r] = "live" /\ outcome[r] = "none" /\ r \notin signalled
    BY <1>1, <1>2, NoSessionAssumption
    DEF IInv, Bookkeeping, TrackedOrOver, SettledWithItsEntry, Current, phaseOf
  <2>2. v \in {"completed", "error"}
    BY <2>1 DEF Verdicts
  <2>3. /\ runs' = [runs EXCEPT ![owner[r]] = NoRun]
        /\ outcome' = [outcome EXCEPT ![r] = v]
    BY <1>2, NoRunAssumption DEF Finish, Current, Retire, Untrack
  <2>4. ASSUME NEW q \in Runs
        PROVE  phaseOf'[q] = IF q = r THEN v ELSE phaseOf[q]
    <3>1. CASE q = r
      BY <1>1, <2>3, <3>1, NoRunAssumption, NoSessionAssumption
      DEF IInv, Bookkeeping, TypeOK, phaseOf
    <3>2. CASE q # r
      <4>1. outcome'[q] = outcome[q]
        BY <2>3, <3>2 DEF IInv, Bookkeeping, TypeOK
      <4>2. owner[q] # NoSession => (runs'[owner[q]] = q <=> runs[owner[q]] = q)
        BY <1>1, <1>2, <2>3, <3>2, NoRunAssumption
        DEF IInv, Bookkeeping, TypeOK, Current
      <4> QED
        BY <3>2, <4>1, <4>2 DEF phaseOf
    <3> QED
      BY <3>1, <3>2
  <2>5. phaseOf' = [phaseOf EXCEPT ![r] = v]
    BY <2>4 DEF phaseOf
  <2> QED
    BY <2>1, <2>2, <2>5 DEF Lifecycle!End
<1>3. CASE ~Current(owner[r], r)
  BY <1>3 DEF Finish, phaseOf
<1> QED
  BY <1>2, <1>3

LEMMA RefineAbort ==
    ASSUME IInv, IInv', NEW s \in Sessions, AbortSession(s)
    PROVE  Lifecycle!StopAll({s}, "aborted")
<1>1. UNCHANGED owner
  BY DEF AbortSession
<1>2. ASSUME NEW q \in Runs
      PROVE  q \in Lifecycle!LiveIn({s}) <=> runs[s] = q
  BY NoSessionAssumption, NoRunAssumption
  DEF IInv, Bookkeeping, TypeOK, OwnEntry, TrackedOrOver, Verdicts, phaseOf,
      Lifecycle!LiveIn
<1>3. ASSUME NEW q \in Runs
      PROVE  phaseOf'[q] = IF q \in Lifecycle!LiveIn({s}) THEN "aborted" ELSE phaseOf[q]
  <2>1. CASE runs[s] = NoRun
    BY <1>1, <1>2, <2>1, NoRunAssumption DEF AbortSession, Abort, phaseOf
  <2>2. CASE runs[s] # NoRun
    <3>1. /\ runs' = [runs EXCEPT ![s] = NoRun]
          /\ outcome' = [outcome EXCEPT ![runs[s]] = "aborted"]
      BY <2>2 DEF AbortSession, Abort, Retire, Untrack
    <3>2. owner[q] # NoSession =>
            (runs'[owner[q]] = q <=> runs[owner[q]] = q /\ runs[s] # q)
      BY <3>1, <1>2, NoRunAssumption DEF IInv, Bookkeeping, TypeOK, OwnEntry
    <3>3. outcome'[q] = IF runs[s] = q THEN "aborted" ELSE outcome[q]
      BY <3>1 DEF IInv, Bookkeeping, TypeOK
    <3>4. runs[s] = q => owner[q] = s
      BY <2>2 DEF IInv, Bookkeeping, OwnEntry
    <3> QED
      BY <1>1, <1>2, <3>2, <3>3, <3>4, NoSessionAssumption DEF phaseOf
  <2> QED
    BY <2>1, <2>2
<1> QED
  BY <1>1, <1>3 DEF Lifecycle!StopAll, phaseOf

\* abortAll and a crash stop every live run, with one outcome or the other.
LEMMA RefineStopAll ==
    ASSUME IInv, NEW how \in {"aborted", "lost"}, UNCHANGED owner,
           runs' = [s \in Sessions |-> NoRun],
           \A q \in Runs : outcome'[q] = IF owner[q] # NoSession /\ outcome[q] = "none"
                                         THEN how ELSE outcome[q]
    PROVE  Lifecycle!StopAll(Sessions, how)
<1>1. ASSUME NEW q \in Runs
      PROVE  phaseOf'[q] = IF q \in Lifecycle!LiveIn(Sessions) THEN how ELSE phaseOf[q]
  <2>1. q \in Lifecycle!LiveIn(Sessions) <=> owner[q] # NoSession /\ outcome[q] = "none"
    <3>1. /\ owner[q] \in Sessions \cup {NoSession}
          /\ outcome[q] # "live"
          /\ outcome[q] = "none" <=> owner[q] = NoSession \/ runs[owner[q]] = q
      BY DEF IInv, Bookkeeping, TypeOK, TrackedOrOver, Verdicts
    <3>2. phaseOf[q] = "live" <=> owner[q] # NoSession /\ runs[owner[q]] = q
      BY <3>1 DEF phaseOf
    <3> QED
      BY <3>1, <3>2, NoSessionAssumption DEF Lifecycle!LiveIn
  <2>2. owner[q] # NoSession => phaseOf'[q] = outcome'[q]
    BY NoRunAssumption DEF IInv, Bookkeeping, TypeOK, phaseOf
  <2>3. owner[q] # NoSession /\ outcome[q] # "none" => phaseOf[q] = outcome[q]
    BY DEF IInv, Bookkeeping, TrackedOrOver, phaseOf
  <2>4. owner[q] = NoSession => phaseOf'[q] = phaseOf[q]
    BY DEF phaseOf
  <2> QED
    BY <2>1, <2>2, <2>3, <2>4
<1> QED
  BY <1>1 DEF Lifecycle!StopAll, phaseOf

\* Every step of the run table is a step of the abstract life of runs, or leaves
\* the phases of all runs alone.
LEMMA RefineNext ==
    IInv /\ IInv' /\ [RunNext]_runVars => [Lifecycle!Next]_<<phaseOf, owner>>
<1> SUFFICES ASSUME IInv, IInv', [RunNext]_runVars
             PROVE  [Lifecycle!Next]_<<phaseOf, owner>>
  OBVIOUS
<1>1. ASSUME NEW s \in Sessions, NEW r \in Runs, Start(s, r)
      PROVE  Lifecycle!Next
  BY <1>1, RefineStart DEF Lifecycle!Next
<1>2. ASSUME NEW r \in Runs, TaskReturned(r)
      PROVE  [Lifecycle!Next]_<<phaseOf, owner>>
  <2> DEFINE v == IF r \in signalled THEN "aborted" ELSE "completed"
  <2>1. /\ v \in Verdicts
        /\ v = "aborted" => r \in signalled
        /\ task[r] = "running" /\ task[r] # "none"
        /\ Finish(owner[r], r, v)
        /\ UNCHANGED owner
    BY <1>2 DEF TaskReturned, Verdicts
  <2> HIDE DEF v
  <2> QED
    BY <2>1, RefineReport DEF Lifecycle!Next
<1>3. ASSUME NEW r \in Runs, TaskThrew(r)
      PROVE  [Lifecycle!Next]_<<phaseOf, owner>>
  BY <1>3, RefineReport DEF TaskThrew, Verdicts, Lifecycle!Next
<1>4. ASSUME NEW s \in Sessions, AbortSession(s)
      PROVE  Lifecycle!Next
  BY <1>4, RefineAbort DEF Lifecycle!Next
<1>5. CASE AbortAll
  <2>1. ASSUME NEW q \in Runs
        PROVE  outcome'[q] = IF owner[q] # NoSession /\ outcome[q] = "none"
                             THEN "aborted" ELSE outcome[q]
    BY <1>5, NoRunAssumption, NoSessionAssumption
    DEF IInv, Bookkeeping, TypeOK, OwnEntry, TrackedOrOver, AbortAll
  <2>2. UNCHANGED owner /\ runs' = [s \in Sessions |-> NoRun]
    BY <1>5 DEF AbortAll
  <2> QED
    BY <2>1, <2>2, RefineStopAll DEF Lifecycle!Next
<1>6. CASE Restart
  BY <1>6, RefineStopAll DEF Restart, Lifecycle!Next
<1>7. CASE UNCHANGED runVars
  BY <1>7 DEF runVars, phaseOf
<1> QED
  BY <1>1, <1>2, <1>3, <1>4, <1>5, <1>6, <1>7 DEF RunNext

\* RunStateManager, for any sessions and runs and any interleaving of its callers,
\* implements the abstract life of runs: one live run per session at most, and
\* exactly one end per run.
THEOREM RunStateImplementsLifecycle == RunSpec => ImplementsLifecycle
<1>1. RunInit => Lifecycle!Init
  BY RefineInit
<1>2. IInv /\ IInv' /\ [RunNext]_runVars => [Lifecycle!Next]_<<phaseOf, owner>>
  BY RefineNext
<1> QED
  BY <1>1, <1>2, RunIInv, PTL DEF RunSpec, ImplementsLifecycle, Lifecycle!Spec
=============================================================================
