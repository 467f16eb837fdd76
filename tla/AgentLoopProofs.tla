--------------------------- MODULE AgentLoopProofs ---------------------------
(***************************************************************************)
(* What the agent loop guarantees for any number of runs on one loop, any  *)
(* steps, calls and thresholds: what it returns has been saved, an abort   *)
(* is heeded, the cap on escalations is reached at the strongest model,    *)
(* and the detector keeps its promise to a run it was not shared by.       *)
(***************************************************************************)
EXTENDS AgentLoop, TLAPS, FiniteSetTheorems

LEMMA KeyTypes ==
    /\ NoKey \in Keys
    /\ \A c \in Call : NoProgress(c) \in VetoKeys /\ Repeat(c) \in Keys
    /\ \A t \in WanderTools : Wandering(t) \in VetoKeys
    /\ VetoKeys \subseteq Keys
BY DEF Keys, VetoKeys

LEMMA CheckType ==
    ASSUME NEW t \in Tracker, NEW c \in Call
    PROVE  Check(t, c) \in Verdict
BY KeyTypes DEF Check, Verdict

LEMMA RecordType ==
    ASSUME NEW t \in Tracker, NEW c \in Call, NEW ok \in BOOLEAN
    PROVE  Record(t, c, ok) \in Tracker
<1> DEFINE e == [call |-> c, ok |-> ok]
           h == Append(t.history, e)
<1>1. e \in Entry
  BY DEF Entry
<1>2. h \in Seq(Entry) /\ Len(h) > 0
  BY <1>1 DEF Tracker
<1>3. Record(t, c, ok) = [t EXCEPT !.history = IF Len(h) > HistorySize THEN Tail(h) ELSE h]
  BY DEF Record
<1> HIDE DEF h
<1>4. Tail(h) \in Seq(Entry)
  BY <1>2
<1> QED
  BY <1>2, <1>3, <1>4 DEF Tracker

LEMMA RegisterType ==
    ASSUME NEW t \in Tracker, NEW n \in [VetoKeys -> Nat]
    PROVE  /\ RegisterVetoes(t, n) \in Tracker
           /\ RegisterVetoes(t, n).history = t.history
<1> DEFINE v == [k \in VetoKeys |-> t.vetoes[k] + n[k]]
<1>1. v \in [VetoKeys -> Nat]
  BY DEF Tracker
<1>2. RegisterVetoes(t, n) = [t EXCEPT !.vetoes = v]
  BY DEF RegisterVetoes
<1> HIDE DEF v
<1> QED
  BY <1>1, <1>2 DEF Tracker

LEMMA ClearType ==
    ASSUME NEW t \in Tracker, NEW key
    PROVE  /\ ClearVetoes(t, key) \in Tracker
           /\ ClearVetoes(t, key).history = t.history
BY DEF ClearVetoes, Tracker

-----------------------------------------------------------------------------
\* Whoever is under way, some run has installed a detector.
Installed == \A r \in Runs : UnderWay(r) => active \in Runs

TInv == TypeInvariant /\ Installed

\* The fields of a run's record.
LEMMA RunFields ==
    ASSUME TInv, NEW r \in Runs
    PROVE  run[r] \in RunType /\ run[r].calls \in Seq(CallState)
BY DEF TInv, TypeInvariant, RunType

\* A call of the current response.
LEMMA CallFields ==
    ASSUME TInv, NEW r \in Runs, NEW i \in DOMAIN run[r].calls
    PROVE  /\ i \in 1 .. Len(run[r].calls)
           /\ run[r].calls[i] \in CallState
           /\ run[r].calls[i].call \in Call
<1>1. run[r].calls \in Seq(CallState)
  BY RunFields
<1>2. i \in 1 .. Len(run[r].calls) /\ run[r].calls[i] \in CallState
  BY <1>1
<1> QED
  BY <1>2 DEF CallState

\* The updates of one call's state.
LEMMA CallUpdate ==
    ASSUME NEW c \in CallState, NEW status \in Ends \cup {"running"}, NEW key \in Keys
    PROVE  /\ [c EXCEPT !.status = status] \in CallState
           /\ [c EXCEPT !.status = status, !.key = key] \in CallState
BY DEF CallState

-----------------------------------------------------------------------------
\* What Launch makes of a response's calls.
Launched(r, I, new) ==
    /\ DOMAIN new = DOMAIN run[r].calls
    /\ \A i \in DOMAIN new :
          /\ new[i].call = run[r].calls[i].call
          /\ i \notin I => new[i] = run[r].calls[i]
          /\ i \in I => /\ new[i].status \in {"unknown", "vetoed", "running"}
                        /\ new[i].status # "unknown" =>
                              LET v == Check(tracker[active], new[i].call)
                              IN  /\ new[i].key = v.key
                                  /\ (new[i].status = "vetoed") <=> (v.level = "critical")

LEMMA LaunchEffect ==
    ASSUME TInv, NEW r \in Runs, NEW I \in SUBSET (DOMAIN run[r].calls), Launch(r, I)
    PROVE  /\ active' = active /\ active \in Runs
           /\ tracker' \in [Runs -> Tracker]
           /\ \A q \in Runs : tracker'[q].history = tracker[q].history
           /\ \E new \in Seq(CallState), b \in BOOLEAN :
                 /\ run' = [run EXCEPT ![r] = [run[r] EXCEPT !.breaker = b, !.calls = new]]
                 /\ Launched(r, I, new)
<1> DEFINE cs == run[r].calls
           verdict == [i \in I |-> Check(tracker[active], cs[i].call)]
           known == {i \in I : cs[i].call.tool \in Registered}
           vetoed == {i \in known : verdict[i].level = "critical"}
           n == [k \in VetoKeys |-> Cardinality({i \in vetoed : verdict[i].key = k})]
           new == [i \in DOMAIN cs |->
                      IF i \notin I THEN cs[i]
                      ELSE IF i \notin known THEN [cs[i] EXCEPT !.status = "unknown"]
                      ELSE [cs[i] EXCEPT !.status = IF i \in vetoed THEN "vetoed" ELSE "running",
                                         !.key = verdict[i].key]]
           b == run[r].breaker \/ Trips(tracker[active], n)
<1>1. active \in Runs
  BY DEF TInv, TypeInvariant, Launch, Installed, UnderWay
<1>2. tracker[active] \in Tracker /\ run[r] \in RunType /\ tracker \in [Runs -> Tracker]
  BY <1>1 DEF TInv, TypeInvariant
<1>3. cs \in Seq(CallState)
  BY RunFields
<1>4. \A i \in DOMAIN cs : cs[i] \in CallState /\ cs[i].call \in Call
  BY CallFields
<1>5. \A i \in I : verdict[i] \in Verdict
  BY <1>2, <1>4, CheckType
<1>6. n \in [VetoKeys -> Nat]
  <2>1. IsFiniteSet(1 .. Len(cs))
    BY <1>3, FS_Interval
  <2>2. IsFiniteSet(DOMAIN cs)
    BY <1>3, <2>1
  <2>3. \A k \in VetoKeys : {i \in vetoed : verdict[i].key = k} \subseteq DOMAIN cs
    OBVIOUS
  <2>4. \A k \in VetoKeys : Cardinality({i \in vetoed : verdict[i].key = k}) \in Nat
    BY <2>2, <2>3, FS_Subset, FS_CardinalityType
  <2> QED
    BY <2>4
<1>7. /\ tracker' = [tracker EXCEPT ![active] = RegisterVetoes(@, n)]
      /\ run' = [run EXCEPT ![r].breaker = b, ![r].calls = new]
      /\ active' = active
  BY DEF Launch
<1>8. \A i \in DOMAIN cs : new[i] \in CallState
  <2> TAKE i \in DOMAIN cs
  <2>1. CASE i \notin I
    BY <2>1, <1>4
  <2>2. CASE i \in I /\ i \notin known
    <3>1. new[i] = [cs[i] EXCEPT !.status = "unknown"]
      BY <2>2
    <3>2. cs[i] \in CallState
      BY <1>4
    <3> HIDE DEF new, known, cs
    <3> QED
      BY <3>1, <3>2, KeyTypes, CallUpdate DEF Ends
  <2>3. CASE i \in known
    <3>1. verdict[i].key \in Keys
      BY <2>3, <1>5 DEF Verdict
    <3>2. new[i] = [cs[i] EXCEPT !.status = IF i \in vetoed THEN "vetoed" ELSE "running",
                                 !.key = verdict[i].key]
      BY <2>3
    <3>3. cs[i] \in CallState
      BY <1>4
    <3> HIDE DEF new, vetoed, verdict, known, cs
    <3>4. CASE i \in vetoed
      <4>1. new[i] = [cs[i] EXCEPT !.status = "vetoed", !.key = verdict[i].key]
        BY <3>2, <3>4
      <4> QED
        BY <4>1, <3>1, <3>3 DEF CallState, Ends
    <3>5. CASE i \notin vetoed
      <4>1. new[i] = [cs[i] EXCEPT !.status = "running", !.key = verdict[i].key]
        BY <3>2, <3>5
      <4> QED
        BY <4>1, <3>1, <3>3 DEF CallState, Ends
    <3> QED
      BY <3>4, <3>5
  <2> QED
    BY <2>1, <2>2, <2>3
<1>9. Launched(r, I, new)
  <2> SUFFICES ASSUME NEW i \in DOMAIN cs
               PROVE  /\ new[i].call = cs[i].call
                      /\ i \notin I => new[i] = cs[i]
                      /\ i \in I => /\ new[i].status \in {"unknown", "vetoed", "running"}
                                    /\ new[i].status # "unknown" =>
                                         LET v == Check(tracker[active], new[i].call)
                                         IN  /\ new[i].key = v.key
                                             /\ (new[i].status = "vetoed") <=> (v.level = "critical")
    BY DEF Launched
  <2>1. cs[i] \in CallState
    BY <1>4
  <2>2. CASE i \notin I
    BY <2>2
  <2>3. CASE i \in I /\ i \notin known
    <3>1. new[i] = [cs[i] EXCEPT !.status = "unknown"]
      BY <2>3
    <3> HIDE DEF new
    <3> QED
      BY <3>1, <2>1, <2>3 DEF CallState
  <2>4. CASE i \in known
    <3>1. new[i] = [cs[i] EXCEPT !.status = IF i \in vetoed THEN "vetoed" ELSE "running",
                                 !.key = verdict[i].key]
      BY <2>4
    <3>2. i \in vetoed <=> verdict[i].level = "critical"
      BY <2>4
    <3>3. verdict[i] = Check(tracker[active], cs[i].call)
      BY <2>4
    <3> HIDE DEF new, vetoed, verdict
    <3> QED
      BY <3>1, <3>2, <3>3, <2>1, <2>4 DEF CallState
  <2> QED
    BY <2>2, <2>3, <2>4
<1>10. b \in BOOLEAN
  BY <1>2 DEF Trips, RunType
<1>11. new \in Seq(CallState)
  <2>1. DOMAIN cs = 1 .. Len(cs) /\ Len(cs) \in Nat
    BY <1>3
  <2>2. DOMAIN new = DOMAIN cs /\ new = [i \in DOMAIN new |-> new[i]]
    OBVIOUS
  <2> HIDE DEF new, cs
  <2> QED
    BY <1>8, <2>1, <2>2
<1> HIDE DEF n, b, new
<1>12. /\ tracker' \in [Runs -> Tracker]
       /\ \A q \in Runs : tracker'[q].history = tracker[q].history
  <2> DEFINE t == RegisterVetoes(tracker[active], n)
  <2>1. t \in Tracker /\ t.history = tracker[active].history
    BY <1>2, <1>6, RegisterType
  <2>2. tracker' = [tracker EXCEPT ![active] = t]
    BY <1>7
  <2> HIDE DEF t
  <2> QED
    BY <1>1, <1>2, <2>1, <2>2
<1>13. run' = [run EXCEPT ![r] = [run[r] EXCEPT !.breaker = b, !.calls = new]]
  BY <1>7
<1> QED
  BY <1>1, <1>7, <1>9, <1>10, <1>11, <1>12, <1>13

\* Where only r's record changes, into one of the right type, all types are kept.
LEMMA RunUpdate ==
    ASSUME TInv, NEW r \in Runs, UnderWay(r), NEW s \in RunType,
           run' = [run EXCEPT ![r] = s], UNCHANGED <<active, tracker>>
    PROVE  TInv'
<1>1. run' \in [Runs -> RunType] /\ active \in Runs
  BY DEF TInv, TypeInvariant, Installed
<1> QED
  BY <1>1 DEF TInv, TypeInvariant, Installed

LEMMA InitType == Init => TInv
<1>1. NewTracker \in Tracker
  BY DEF NewTracker, Tracker
<1>2. Idle \in RunType
  BY AgentLoopAssumption DEF Idle, RunType
<1> QED
  BY <1>1, <1>2 DEF Init, TInv, TypeInvariant, Installed, UnderWay, Idle

LEMMA StartType ==
    ASSUME TInv, NEW r \in Runs, Start(r)
    PROVE  TInv'
<1>1. NewTracker \in Tracker
  BY DEF NewTracker, Tracker
<1>2. tracker' \in [Runs -> Tracker] /\ active' = r
  BY <1>1 DEF Start, TInv, TypeInvariant
<1>3. PICK tier \in 1 .. TopTier :
          run' = [q \in Runs |->
              IF q = r THEN [Idle EXCEPT !.pc = "top", !.tier = tier,
                                         !.shared = \E p \in Runs : UnderWay(p)]
              ELSE [run[q] EXCEPT !.shared = @ \/ UnderWay(q)]]
  BY DEF Start
<1> DEFINE b == \E p \in Runs : UnderWay(p)
<1>4. [Idle EXCEPT !.pc = "top", !.tier = tier, !.shared = b] \in RunType
  <2>1. b \in BOOLEAN
    OBVIOUS
  <2>2. Idle \in RunType
    BY AgentLoopAssumption DEF Idle, RunType
  <2> HIDE DEF b
  <2> QED
    BY <2>1, <2>2 DEF RunType
<1>5. \A q \in Runs : [run[q] EXCEPT !.shared = @ \/ UnderWay(q)] \in RunType
  <2> TAKE q \in Runs
  <2> DEFINE u == run[q].shared \/ UnderWay(q)
  <2>1. run[q] \in RunType /\ u \in BOOLEAN
    BY DEF TInv, TypeInvariant, UnderWay
  <2>2. [run[q] EXCEPT !.shared = @ \/ UnderWay(q)] = [run[q] EXCEPT !.shared = u]
    BY <2>1
  <2> HIDE DEF u
  <2> QED
    BY <2>1, <2>2 DEF RunType
<1>6. run' \in [Runs -> RunType]
  BY <1>3, <1>4, <1>5
<1> QED
  BY <1>2, <1>6 DEF TInv, TypeInvariant, Installed

\* The record that a return from the loop leaves.
Exited(s, reason, saved) ==
    [s EXCEPT !.pc = "over", !.reason = reason, !.saved = saved,
              !.calls = <<>>, !.breaker = FALSE]

LEMMA ExitType ==
    ASSUME NEW s \in RunType, NEW reason \in StopReasons \cup {"threw"},
           NEW saved \in {"stored", "failed"}
    PROVE  Exited(s, reason, saved) \in RunType
<1>1. <<>> \in Seq(CallState) /\ FALSE \in BOOLEAN
  OBVIOUS
<1> QED
  BY <1>1 DEF Exited, RunType

LEMMA ExitStep ==
    ASSUME NEW r \in Runs, NEW s, NEW reason, Exit(r, s, reason)
    PROVE  \E saved \in {"stored", "failed"} :
              run' = [run EXCEPT ![r] = Exited(s, reason, saved)]
BY DEF Exit, Exited

-----------------------------------------------------------------------------
(***************************************************************************)
(* The inductive invariant, the part of one run's record at a time.        *)
(***************************************************************************)
\* Calls of the model after the abort: none has brought the loop back to its top but
\* the one whose answer was the plan.
Heeds(s) ==
    /\ s.late > 0 => s.aborted
    /\ s.late <= IF s.planned THEN 2 ELSE 1
    /\ s.pc = "top" => s.late <= IF s.planned THEN 1 ELSE 0

\* A reason is given by the exit, which saves.
Kept(s) ==
    /\ s.pc # "over" => s.reason = "none"
    /\ s.pc = "over" /\ s.reason # "threw" => s.saved # "stale"

\* Each escalation has raised the tier until there was no stronger one.
Climbs(r, s) ==
    /\ s.depth < s.tier \/ s.tier = TopTier
    /\ r \in AutoModel /\ s.reason = "error_max_escalation" => s.tier = TopTier

\* A serial call begins when everything before it has ended.
ParallelOf(cs) == {i \in DOMAIN cs : cs[i].call.tool \in ParallelSafe}
SettledIn(cs, I) == \A i \in I : cs[i].status \in Ends

InTurn(cs) ==
    \A j \in DOMAIN cs \ ParallelOf(cs) :
        cs[j].status # "todo" => SettledIn(cs, ParallelOf(cs) \cup 1 .. (j - 1))

Orderly(s) ==
    /\ Len(s.calls) <= MaxCalls
    /\ s.pc \in {"idle", "top", "model"} => s.calls = <<>>
    /\ s.pc = "decide" => SettledIn(s.calls, DOMAIN s.calls)
    /\ s.pc = "tools" => InTurn(s.calls)

Good(r, s) == s \in RunType /\ Heeds(s) /\ Kept(s) /\ Climbs(r, s) /\ Orderly(s)

Running(s, i) == i \in DOMAIN s.calls /\ s.calls[i].status = "running"

\* A move from s to t starts no call, vetoes none, records no outcome and shares nothing.
Quiet(s, t) ==
    /\ t.streak = s.streak
    /\ t.shared = s.shared
    /\ t.pc \notin {"idle", "over"} =>
          \A i \in DOMAIN t.calls :
             t.calls[i].status = "running" => i \in DOMAIN s.calls /\ t.calls[i] = s.calls[i]
    /\ \A i \in DOMAIN s.calls :
          s.calls[i].status = "todo" => t.calls[i].status # "vetoed"

\* Away from the tools no call waits.
LEMMA NoneWaits ==
    ASSUME NEW r, NEW s, Good(r, s), s.pc \in {"top", "model", "decide"}
    PROVE  \A i \in DOMAIN s.calls : s.calls[i].status # "todo"
BY DEF Good, Orderly, SettledIn, Ends

\* An exit keeps everything, whatever its reason, if that is what it takes.
LEMMA ExitGood ==
    ASSUME NEW r \in Runs, Good(r, run[r]), run[r].pc \in {"top", "model", "decide"},
           NEW reason \in StopReasons \cup {"threw"}, NEW saved \in {"stored", "failed"},
           r \in AutoModel /\ reason = "error_max_escalation" => run[r].tier = TopTier
    PROVE  LET t == Exited(run[r], reason, saved)
           IN  Good(r, t) /\ Quiet(run[r], t)
<1> DEFINE s == run[r]
           t == Exited(s, reason, saved)
<1>1. s \in RunType /\ t \in RunType
  BY ExitType DEF Good
<1>2. /\ t.pc = "over" /\ t.reason = reason /\ t.saved = saved /\ t.calls = <<>>
      /\ t.late = s.late /\ t.aborted = s.aborted /\ t.planned = s.planned
      /\ t.depth = s.depth /\ t.tier = s.tier /\ t.streak = s.streak /\ t.shared = s.shared
  BY <1>1 DEF Exited, RunType
<1>3. Len(<<>>) <= MaxCalls
  BY AgentLoopAssumption
<1> HIDE DEF t
<1>4. Heeds(t) /\ Kept(t) /\ Climbs(r, t)
  BY <1>2 DEF Good, Heeds, Kept, Climbs
<1>5. Orderly(t)
  BY <1>2, <1>3 DEF Orderly
<1>6. Quiet(s, t)
  BY <1>2, NoneWaits DEF Quiet
<1> QED
  BY <1>1, <1>4, <1>5, <1>6 DEF Good, t

\* The end of a running call.
Ended(cs, i, e) == [cs EXCEPT ![i].status = e]

LEMMA SettleOne ==
    ASSUME NEW cs \in Seq(CallState), NEW i \in DOMAIN cs, cs[i].status = "running",
           NEW e \in Ends
    PROVE  LET ds == Ended(cs, i, e) IN
           /\ ds \in Seq(CallState) /\ Len(ds) = Len(cs) /\ DOMAIN ds = DOMAIN cs
           /\ \A j \in DOMAIN cs : ds[j].call = cs[j].call
           /\ ds[i].status = e
           /\ \A j \in DOMAIN cs : j # i => ds[j] = cs[j]
           /\ InTurn(cs) => InTurn(ds)
<1> DEFINE ds == Ended(cs, i, e)
<1>1. cs[i] \in CallState /\ DOMAIN cs = 1 .. Len(cs) /\ Len(cs) \in Nat
  OBVIOUS
<1>2. [cs[i] EXCEPT !.status = e] \in CallState
  BY <1>1 DEF CallState
<1>3. /\ ds \in Seq(CallState) /\ Len(ds) = Len(cs) /\ DOMAIN ds = DOMAIN cs
      /\ ds[i] = [cs[i] EXCEPT !.status = e]
      /\ \A j \in DOMAIN cs : j # i => ds[j] = cs[j]
  BY <1>1, <1>2 DEF Ended
<1> HIDE DEF ds
<1>4. ds[i].call = cs[i].call /\ ds[i].status = e
  BY <1>1, <1>3 DEF CallState
<1>5. \A j \in DOMAIN cs : ds[j].call = cs[j].call
  BY <1>3, <1>4
<1>6. ParallelOf(ds) = ParallelOf(cs)
  BY <1>3, <1>5 DEF ParallelOf
<1>7. ASSUME InTurn(cs) PROVE InTurn(ds)
  <2> SUFFICES ASSUME NEW j \in DOMAIN cs \ ParallelOf(cs), ds[j].status # "todo"
               PROVE  SettledIn(ds, ParallelOf(cs) \cup 1 .. (j - 1))
    BY <1>3, <1>6 DEF InTurn
  <2>1. cs[j].status # "todo"
    BY <1>3
  <2>2. SettledIn(cs, ParallelOf(cs) \cup 1 .. (j - 1))
    BY <1>7, <2>1 DEF InTurn
  <2>3. ParallelOf(cs) \cup 1 .. (j - 1) \subseteq DOMAIN cs
    BY <1>1 DEF ParallelOf
  <2> QED
    BY <2>2, <2>3, <1>3, <1>4 DEF SettledIn
<1> QED
  BY <1>3, <1>4, <1>5, <1>7 DEF ds

\* The steps that only move r's record, quietly.
QuietStep(r) ==
    \/ MaxStepsReached(r) \/ MaxMessagesReached(r) \/ CallModel(r) \/ RunThrows(r)
    \/ Answer(r) \/ ExtractPlan(r) \/ AskForCalls(r) \/ Collect(r) \/ Decide(r) \/ Abort(r)
    \/ \E i \in DOMAIN run[r].calls : Refuse(r, i) \/ Reject(r, i)

Moves(r) ==
    /\ UNCHANGED <<active, tracker>>
    /\ \E t : Good(r, t) /\ Quiet(run[r], t) /\ run' = [run EXCEPT ![r] = t]

LEMMA ExitMoves ==
    ASSUME TInv, NEW r \in Runs, Good(r, run[r]),
           run[r].pc \in {"top", "model", "decide"},
           NEW reason \in StopReasons \cup {"threw"}, Exit(r, run[r], reason),
           UNCHANGED <<active, tracker>>,
           r \in AutoModel /\ reason = "error_max_escalation" => run[r].tier = TopTier
    PROVE  Moves(r)
BY ExitStep, ExitGood DEF Moves

\* Text answers, exits at the top, and thrown errors.
LEMMA TextMoves ==
    ASSUME TInv, NEW r \in Runs, Good(r, run[r]),
           \/ MaxStepsReached(r) \/ MaxMessagesReached(r) \/ CallModel(r) \/ RunThrows(r)
           \/ Answer(r) \/ ExtractPlan(r)
    PROVE  Moves(r)
<1> DEFINE s == run[r]
<1>0. run \in [Runs -> RunType] /\ s \in RunType
  BY DEF TInv, TypeInvariant
<1>1. CASE MaxStepsReached(r)
  BY <1>1, ExitMoves DEF MaxStepsReached, StopReasons
<1>2. CASE MaxMessagesReached(r)
  BY <1>2, ExitMoves DEF MaxMessagesReached, StopReasons
<1>3. CASE CallModel(r)
  <2> DEFINE l == IF s.aborted THEN s.late + 1 ELSE s.late
             t == [s EXCEPT !.pc = "model", !.saved = "stale", !.late = l]
  <2>1. run' = [run EXCEPT ![r] = t] /\ s.pc = "top" /\ UNCHANGED <<active, tracker>>
    BY <1>3, <1>0 DEF CallModel
  <2>2. l \in Nat
    BY <1>0 DEF RunType
  <2>3. s.late \in Nat /\ s.calls = <<>> /\ s.reason = "none"
    BY <1>0, <2>1 DEF RunType, Good, Orderly, Kept
  <2>4. /\ t \in RunType /\ t.pc = "model" /\ t.late = l /\ t.planned = s.planned
        /\ t.aborted = s.aborted /\ t.reason = s.reason /\ t.depth = s.depth
        /\ t.tier = s.tier /\ t.calls = s.calls /\ t.streak = s.streak /\ t.shared = s.shared
    <3> HIDE DEF l
    <3> QED
      BY <1>0, <2>2 DEF RunType
  <2> HIDE DEF t
  <2>5. Heeds(t)
    BY <2>1, <2>3, <2>4 DEF Good, Heeds
  <2>6. Kept(t) /\ Climbs(r, t) /\ Orderly(t) /\ Quiet(s, t)
    BY <2>1, <2>3, <2>4 DEF Good, Kept, Climbs, Orderly, Quiet
  <2> QED
    BY <2>1, <2>4, <2>5, <2>6 DEF Moves, Good
<1>4. CASE RunThrows(r)
  <2>1. CASE s.pc = "model" /\ Exit(r, s, "threw")
    BY <1>4, <2>1, ExitMoves DEF RunThrows
  <2>2. CASE run' = [run EXCEPT ![r].pc = "over", ![r].reason = "threw"]
    <3> DEFINE t == [s EXCEPT !.pc = "over", !.reason = "threw"]
    <3>1. run' = [run EXCEPT ![r] = t] /\ s.pc \in {"top", "model"} /\ UNCHANGED <<active, tracker>>
      BY <1>4, <1>0, <2>2 DEF RunThrows
    <3>2. /\ t \in RunType /\ t.pc = "over" /\ t.late = s.late /\ t.planned = s.planned
          /\ t.aborted = s.aborted /\ t.reason = "threw" /\ t.depth = s.depth
          /\ t.tier = s.tier /\ t.calls = s.calls /\ t.streak = s.streak /\ t.shared = s.shared
      BY <1>0 DEF RunType
    <3> HIDE DEF t
    <3>3. Heeds(t) /\ Kept(t) /\ Climbs(r, t) /\ Orderly(t) /\ Quiet(s, t)
      BY <3>1, <3>2, NoneWaits DEF Good, Heeds, Kept, Climbs, Orderly, Quiet
    <3> QED
      BY <3>1, <3>2, <3>3 DEF Moves, Good
  <2> QED
    BY <1>4, <2>1, <2>2 DEF RunThrows
<1>5. CASE Answer(r)
  BY <1>5, ExitMoves DEF Answer, StopReasons
<1>6. CASE ExtractPlan(r)
  <2>1. PICK saved \in {"stored", "failed"} :
            run' = [run EXCEPT ![r].pc = "top", ![r].planned = TRUE,
                               ![r].iteration = @ + 1, ![r].saved = saved]
    BY <1>6 DEF ExtractPlan
  <2> DEFINE t == [s EXCEPT !.pc = "top", !.planned = TRUE,
                            !.iteration = s.iteration + 1, !.saved = saved]
  <2>2. run' = [run EXCEPT ![r] = t] /\ s.pc = "model" /\ ~s.planned /\ UNCHANGED <<active, tracker>>
    BY <1>6, <1>0, <2>1 DEF ExtractPlan
  <2>3. s.late \in Nat /\ s.calls = <<>> /\ s.reason = "none" /\ s.iteration + 1 \in Nat
    BY <1>0, <2>2 DEF RunType, Good, Orderly, Kept
  <2>4. /\ t \in RunType /\ t.pc = "top" /\ t.late = s.late /\ t.planned
        /\ t.aborted = s.aborted /\ t.reason = s.reason /\ t.depth = s.depth
        /\ t.tier = s.tier /\ t.calls = s.calls /\ t.streak = s.streak /\ t.shared = s.shared
    BY <1>0, <2>3 DEF RunType
  <2> HIDE DEF t
  <2>5. Heeds(t) /\ Kept(t) /\ Climbs(r, t) /\ Orderly(t) /\ Quiet(s, t)
    BY <2>2, <2>3, <2>4 DEF Good, Heeds, Kept, Climbs, Orderly, Quiet
  <2> QED
    BY <2>2, <2>4, <2>5 DEF Moves, Good
<1> QED
  BY <1>1, <1>2, <1>3, <1>4, <1>5, <1>6

\* The response's calls, their refusals and rejections, and the save of their results.
LEMMA ToolMoves ==
    ASSUME TInv, NEW r \in Runs, Good(r, run[r]),
           \/ AskForCalls(r) \/ Collect(r)
           \/ \E i \in DOMAIN run[r].calls : Refuse(r, i) \/ Reject(r, i)
    PROVE  Moves(r)
<1> DEFINE s == run[r]
           cs == s.calls
<1>0. run \in [Runs -> RunType] /\ s \in RunType /\ cs \in Seq(CallState)
  BY DEF TInv, TypeInvariant, RunType
<1>1. CASE AskForCalls(r)
  <2>1. PICK n \in 1 .. MaxCalls : \E ca \in [1 .. n -> Offered[r]] :
            run' = [run EXCEPT ![r].pc = "tools",
                               ![r].calls = [i \in 1 .. n |->
                                   [call |-> ca[i], status |-> "todo", key |-> NoKey]]]
    BY <1>1 DEF AskForCalls
  <2>2. PICK ca \in [1 .. n -> Offered[r]] :
            run' = [run EXCEPT ![r].pc = "tools",
                               ![r].calls = [i \in 1 .. n |->
                                   [call |-> ca[i], status |-> "todo", key |-> NoKey]]]
    BY <2>1
  <2> DEFINE ds == [i \in 1 .. n |-> [call |-> ca[i], status |-> "todo", key |-> NoKey]]
             t == [s EXCEPT !.pc = "tools", !.calls = ds]
  <2>3. n \in Nat /\ n <= MaxCalls /\ Offered[r] \subseteq Call
    BY AgentLoopAssumption
  <2>4. \A i \in 1 .. n : [call |-> ca[i], status |-> "todo", key |-> NoKey] \in CallState
    BY <2>3, KeyTypes DEF CallState
  <2>5. /\ ds \in Seq(CallState) /\ Len(ds) = n /\ DOMAIN ds = 1 .. n
        /\ \A i \in 1 .. n : ds[i].status = "todo"
    BY <2>3, <2>4
  <2>6. run' = [run EXCEPT ![r] = t] /\ s.pc = "model" /\ UNCHANGED <<active, tracker>>
    BY <1>1, <1>0, <2>2 DEF AskForCalls
  <2> HIDE DEF ds
  <2>7. /\ t \in RunType /\ t.pc = "tools" /\ t.late = s.late /\ t.planned = s.planned
        /\ t.aborted = s.aborted /\ t.reason = s.reason /\ t.depth = s.depth
        /\ t.tier = s.tier /\ t.calls = ds /\ t.streak = s.streak /\ t.shared = s.shared
    BY <1>0, <2>5 DEF RunType
  <2> HIDE DEF t
  <2>8. Heeds(t) /\ Kept(t) /\ Climbs(r, t)
    BY <2>6, <2>7 DEF Good, Heeds, Kept, Climbs
  <2>9. Orderly(t)
    BY <2>3, <2>5, <2>7 DEF Orderly, InTurn
  <2>10. Quiet(s, t)
    BY <2>5, <2>6, <2>7, NoneWaits DEF Quiet
  <2> QED
    BY <2>6, <2>7, <2>8, <2>9, <2>10 DEF Moves, Good
<1>2. ASSUME NEW i \in DOMAIN cs, NEW e \in {"refused", "rejected"}, s.pc = "tools",
             cs[i].status = "running", run' = [run EXCEPT ![r].calls[i].status = e],
             UNCHANGED <<active, tracker>>
      PROVE  Moves(r)
  <2> DEFINE ds == Ended(cs, i, e)
             t == [s EXCEPT !.calls = ds]
  <2>1. /\ ds \in Seq(CallState) /\ Len(ds) = Len(cs) /\ DOMAIN ds = DOMAIN cs
        /\ ds[i].status = e
        /\ \A j \in DOMAIN cs : j # i => ds[j] = cs[j]
        /\ InTurn(cs) => InTurn(ds)
    <3>1. /\ e \in Ends /\ cs[i].status = "running"
          /\ i \in DOMAIN cs /\ cs \in Seq(CallState)
      BY <1>0, <1>2 DEF Ends
    <3> HIDE DEF cs
    <3> QED
      BY <3>1, SettleOne
  <2>2. run' = [run EXCEPT ![r] = t]
    BY <1>0, <1>2 DEF Ended
  <2> HIDE DEF ds
  <2>3. /\ t \in RunType /\ t.pc = s.pc /\ t.late = s.late /\ t.planned = s.planned
        /\ t.aborted = s.aborted /\ t.reason = s.reason /\ t.depth = s.depth /\ t.saved = s.saved
        /\ t.tier = s.tier /\ t.calls = ds /\ t.streak = s.streak /\ t.shared = s.shared
    BY <1>0, <2>1 DEF RunType
  <2> HIDE DEF t
  <2>4. Heeds(t) /\ Kept(t) /\ Climbs(r, t) /\ Orderly(t)
    BY <1>2, <2>1, <2>3 DEF Good, Heeds, Kept, Climbs, Orderly
  <2>5. Quiet(s, t)
    BY <1>2, <2>1, <2>3 DEF Quiet
  <2> QED
    BY <1>2, <2>2, <2>3, <2>4, <2>5 DEF Moves, Good
<1>3. ASSUME s.pc = "tools", run' = [run EXCEPT ![r].pc = "over", ![r].reason = "threw"],
             UNCHANGED <<active, tracker>>
      PROVE  Moves(r)
  <2> DEFINE t == [s EXCEPT !.pc = "over", !.reason = "threw"]
  <2>1. run' = [run EXCEPT ![r] = t]
    BY <1>0, <1>3
  <2>2. /\ t \in RunType /\ t.pc = "over" /\ t.late = s.late /\ t.planned = s.planned
        /\ t.aborted = s.aborted /\ t.reason = "threw" /\ t.depth = s.depth
        /\ t.tier = s.tier /\ t.calls = s.calls /\ t.streak = s.streak /\ t.shared = s.shared
    BY <1>0 DEF RunType
  <2> HIDE DEF t
  <2>3. Heeds(t) /\ Kept(t) /\ Climbs(r, t) /\ Orderly(t) /\ Quiet(s, t)
    BY <1>3, <2>2 DEF Good, Heeds, Kept, Climbs, Orderly, Quiet
  <2> QED
    BY <1>3, <2>1, <2>2, <2>3 DEF Moves, Good
<1>4. ASSUME NEW i \in DOMAIN cs, Refuse(r, i) \/ Reject(r, i)
      PROVE  Moves(r)
  BY <1>2, <1>3, <1>4 DEF Refuse, Reject
<1>5. CASE Collect(r)
  <2>1. s.pc = "tools" /\ SettledIn(cs, DOMAIN cs) /\ UNCHANGED <<active, tracker>>
    BY <1>5 DEF Collect, Settled, SettledIn
  <2>2. s.saveFailures + 1 \in Nat /\ s.reason = "none"
    BY <1>0, <2>1 DEF RunType, Good, Kept
  <2>3. ASSUME NEW pc \in {"decide", "over"}, NEW saved \in {"stored", "failed"},
               NEW failures \in Nat, NEW reason \in {"none", "save_failure"},
               (pc = "decide") <=> (reason = "none"),
               run' = [run EXCEPT ![r] = [s EXCEPT !.pc = pc, !.saved = saved,
                                           !.saveFailures = failures, !.reason = reason]]
        PROVE  Moves(r)
    <3> DEFINE t == [s EXCEPT !.pc = pc, !.saved = saved,
                              !.saveFailures = failures, !.reason = reason]
    <3>1. /\ t \in RunType /\ t.pc = pc /\ t.late = s.late /\ t.planned = s.planned
          /\ t.aborted = s.aborted /\ t.reason = reason /\ t.depth = s.depth /\ t.saved = saved
          /\ t.tier = s.tier /\ t.calls = cs /\ t.streak = s.streak /\ t.shared = s.shared
      BY <1>0 DEF RunType, StopReasons
    <3>2. run' = [run EXCEPT ![r] = t]
      BY <2>3
    <3> HIDE DEF t
    <3>3. Heeds(t) /\ Kept(t) /\ Climbs(r, t)
      BY <2>1, <2>3, <3>1 DEF Good, Heeds, Kept, Climbs
    <3>4. Orderly(t) /\ Quiet(s, t)
      BY <2>1, <2>3, <3>1 DEF Good, Orderly, Quiet
    <3> QED
      BY <2>1, <3>1, <3>2, <3>3, <3>4 DEF Moves, Good
  <2>4. CASE run' = [run EXCEPT ![r].pc = "decide", ![r].saved = "stored",
                                ![r].saveFailures = 0]
    <3>1. run' = [run EXCEPT ![r] = [s EXCEPT !.pc = "decide", !.saved = "stored",
                                       !.saveFailures = 0, !.reason = "none"]]
      BY <1>0, <2>2, <2>4 DEF RunType
    <3> QED
      BY <2>3, <3>1
  <2>5. CASE run' = [run EXCEPT ![r].pc = "decide", ![r].saved = "failed",
                                ![r].saveFailures = s.saveFailures + 1]
    <3>1. run' = [run EXCEPT ![r] = [s EXCEPT !.pc = "decide", !.saved = "failed",
                                       !.saveFailures = s.saveFailures + 1, !.reason = "none"]]
      BY <1>0, <2>2, <2>5 DEF RunType
    <3> QED
      BY <2>2, <2>3, <3>1
  <2>6. CASE run' = [run EXCEPT ![r].pc = "over", ![r].saved = "failed",
                                ![r].saveFailures = s.saveFailures + 1,
                                ![r].reason = "save_failure"]
    <3>1. run' = [run EXCEPT ![r] = [s EXCEPT !.pc = "over", !.saved = "failed",
                                       !.saveFailures = s.saveFailures + 1,
                                       !.reason = "save_failure"]]
      BY <1>0, <2>6
    <3> QED
      BY <2>2, <2>3, <3>1
  <2>7. \/ run' = [run EXCEPT ![r].pc = "decide", ![r].saved = "stored",
                             ![r].saveFailures = 0]
        \/ run' = [run EXCEPT ![r].pc = "decide", ![r].saved = "failed",
                             ![r].saveFailures = s.saveFailures + 1]
        \/ run' = [run EXCEPT ![r].pc = "over", ![r].saved = "failed",
                             ![r].saveFailures = s.saveFailures + 1,
                             ![r].reason = "save_failure"]
    BY <1>5 DEF Collect
  <2> QED
    BY <2>4, <2>5, <2>6, <2>7
<1> QED
  BY <1>1, <1>4, <1>5

\* The end of an iteration, and the signal.
LEMMA DecideMoves ==
    ASSUME TInv, NEW r \in Runs, Good(r, run[r]), Decide(r) \/ Abort(r)
    PROVE  Moves(r)
<1> DEFINE s == run[r]
<1>0. run \in [Runs -> RunType] /\ s \in RunType
  BY DEF TInv, TypeInvariant
<1>1. CASE Abort(r)
  <2> DEFINE t == [s EXCEPT !.aborted = TRUE]
  <2>1. run' = [run EXCEPT ![r] = t] /\ UNCHANGED <<active, tracker>>
    BY <1>1, <1>0 DEF Abort
  <2>2. /\ t \in RunType /\ t.pc = s.pc /\ t.late = s.late /\ t.planned = s.planned
        /\ t.aborted /\ t.reason = s.reason /\ t.depth = s.depth /\ t.saved = s.saved
        /\ t.tier = s.tier /\ t.calls = s.calls /\ t.streak = s.streak /\ t.shared = s.shared
    BY <1>0 DEF RunType
  <2> HIDE DEF t
  <2>3. Heeds(t) /\ Kept(t) /\ Climbs(r, t) /\ Orderly(t) /\ Quiet(s, t)
    BY <2>2 DEF Good, Heeds, Kept, Climbs, Orderly, Quiet
  <2> QED
    BY <2>1, <2>2, <2>3 DEF Moves, Good
<1>2. ASSUME NEW u \in RunType, NextStep(r, u), ~s.aborted, s.pc = "decide",
             UNCHANGED <<active, tracker>>,
             u.late = s.late, u.planned = s.planned, u.aborted = s.aborted,
             u.reason = s.reason, u.streak = s.streak, u.shared = s.shared,
             Climbs(r, u)
      PROVE  Moves(r)
  <2> DEFINE t == [u EXCEPT !.pc = "top", !.iteration = u.iteration + 1,
                            !.calls = <<>>, !.breaker = FALSE]
  <2>1. run' = [run EXCEPT ![r] = t]
    BY <1>2 DEF NextStep
  <2>2. u.iteration + 1 \in Nat /\ u.late \in Nat /\ <<>> \in Seq(CallState) /\ 0 <= MaxCalls
    BY AgentLoopAssumption DEF RunType
  <2>3. /\ t \in RunType /\ t.pc = "top" /\ t.late = u.late /\ t.planned = u.planned
        /\ t.aborted = u.aborted /\ t.reason = u.reason /\ t.depth = u.depth
        /\ t.tier = u.tier /\ t.calls = <<>> /\ t.streak = u.streak /\ t.shared = u.shared
    BY <1>2, <2>2 DEF RunType
  <2> HIDE DEF t
  <2>4. Heeds(t) /\ Kept(t)
    BY <1>2, <2>2, <2>3 DEF Good, Heeds, Kept
  <2>5. Climbs(r, t) /\ Orderly(t) /\ Quiet(s, t)
    BY <1>2, <2>2, <2>3, NoneWaits DEF Climbs, Orderly, Quiet
  <2> QED
    BY <1>2, <2>1, <2>3, <2>4, <2>5 DEF Moves, Good
<1>3. CASE Decide(r)
  <2>1. s.pc = "decide" /\ UNCHANGED <<active, tracker>>
    BY <1>3 DEF Decide
  <2>2. s.depth \in Nat /\ s.tier \in 1 .. TopTier /\ TopTier \in Nat /\ s.reason = "none"
    BY <1>0, <2>1, AgentLoopAssumption DEF RunType, Good, Kept
  <2>3. ASSUME Capped(r), r \in AutoModel
        PROVE  s.tier = TopTier
    <3>1. s.depth >= EscalationLimit /\ EscalationLimit + 1 >= TopTier /\ EscalationLimit \in Nat
      BY <2>3, AgentLoopAssumption DEF Capped
    <3>2. s.depth < s.tier \/ s.tier = TopTier
      BY DEF Good, Climbs
    <3> QED
      BY <2>2, <3>1, <3>2
  <2>4. CASE s.breaker
    BY <2>1, <2>4, <1>3, ExitMoves DEF Decide, StopReasons
  <2>5. CASE ~s.breaker /\ s.aborted
    BY <2>1, <2>5, <1>3, ExitMoves DEF Decide, StopReasons
  <2>6. CASE ~s.breaker /\ ~s.aborted /\ ~CapabilityFailure(r)
    <3>1. NextStep(r, s) /\ Climbs(r, s)
      BY <2>6, <1>3 DEF Decide, Good
    <3> QED
      BY <1>0, <1>2, <2>1, <2>6, <3>1
  <2>7. CASE ~s.breaker /\ ~s.aborted /\ CapabilityFailure(r) /\ Capped(r)
    BY <2>1, <2>3, <2>7, <1>3, ExitMoves DEF Decide, StopReasons
  <2>8. CASE ~s.breaker /\ ~s.aborted /\ CapabilityFailure(r) /\ ~Capped(r)
    <3> DEFINE tier == Stronger(s.tier)
               u == [s EXCEPT !.depth = s.depth + 1, !.saved = "stale", !.tier = tier]
    <3>1. NextStep(r, u)
      BY <2>8, <1>3 DEF Decide
    <3>2. tier \in 1 .. TopTier /\ s.depth + 1 \in Nat
          /\ (s.depth + 1 < tier \/ tier = TopTier)
      BY <2>2 DEF Stronger, Good, Climbs
    <3> HIDE DEF tier
    <3>3. /\ u \in RunType /\ u.late = s.late /\ u.planned = s.planned
          /\ u.aborted = s.aborted /\ u.reason = s.reason /\ u.depth = s.depth + 1
          /\ u.tier = tier /\ u.streak = s.streak /\ u.shared = s.shared
      BY <1>0, <3>2 DEF RunType
    <3> HIDE DEF u
    <3>4. Climbs(r, u)
      BY <2>2, <3>2, <3>3 DEF Climbs
    <3> QED
      BY <1>2, <2>1, <2>8, <3>1, <3>3, <3>4
  <2> QED
    BY <2>4, <2>5, <2>6, <2>7, <2>8
<1> QED
  BY <1>1, <1>3

-----------------------------------------------------------------------------
(***************************************************************************)
(* The history of a tracker against the streak of the last executed call:  *)
(* the end of the history is the streak, as far as the history goes.       *)
(***************************************************************************)
Failure(c) == [call |-> c, ok |-> FALSE]

StreakType == [call : Call \cup {NoKey}, n : Nat]

Window(h, st) ==
    /\ Len(h) <= HistorySize
    /\ st.n <= Len(h) \/ Len(h) = HistorySize
    /\ \A i \in DOMAIN h : i > Len(h) - st.n => h[i] = Failure(st.call)
    /\ \A c \in Call : \A k \in DOMAIN h :
          (\A i \in k .. Len(h) : h[i] = Failure(c))
          => st.call = c /\ st.n >= Len(h) - k + 1

\* The streak after c has been executed.
Extended(st, c, ok) ==
    [call |-> c, n |-> IF ok THEN 0 ELSE (IF st.call = c THEN st.n ELSE 0) + 1]

\* What is remembered: the new outcome, and before it all or all but the oldest.
LEMMA RecordEffect ==
    ASSUME NEW t \in Tracker, NEW c \in Call, NEW ok \in BOOLEAN,
           Len(t.history) <= HistorySize
    PROVE  LET h == t.history
               g == Record(t, c, ok).history
           IN  /\ g \in Seq(Entry)
               /\ \E d \in {0, 1} :
                     /\ d = 1 <=> Len(h) = HistorySize
                     /\ Len(g) = Len(h) + 1 - d
                     /\ Len(g) > 0
                     /\ g[Len(g)] = [call |-> c, ok |-> ok]
                     /\ \A i \in 1 .. Len(g) - 1 : i + d \in DOMAIN h /\ g[i] = h[i + d]
<1> DEFINE h == t.history
           e == [call |-> c, ok |-> ok]
           a == Append(h, e)
           g == Record(t, c, ok).history
<1>1. h \in Seq(Entry) /\ e \in Entry
  BY DEF Tracker, Entry
<1>2. HistorySize \in Nat /\ HistorySize > 0
  BY LoopDetectorAssumption
<1>3. g = IF Len(a) > HistorySize THEN Tail(a) ELSE a
  <2>1. Record(t, c, ok) = [t EXCEPT !.history = IF Len(a) > HistorySize THEN Tail(a) ELSE a]
    BY DEF Record
  <2> HIDE DEF a
  <2> QED
    BY <2>1 DEF Tracker
<1> HIDE DEF h, e, g
<1>4. /\ a \in Seq(Entry) /\ Len(a) = Len(h) + 1 /\ a[Len(a)] = e
      /\ \A i \in 1 .. Len(h) : a[i] = h[i]
  BY <1>1
<1>5. Len(h) <= HistorySize /\ Len(h) \in Nat /\ DOMAIN h = 1 .. Len(h)
  BY <1>1 DEF h
<1> HIDE DEF a
<1>6. CASE Len(a) > HistorySize
  <2>1. /\ g = Tail(a) /\ g \in Seq(Entry) /\ Len(g) = Len(a) - 1
        /\ \A i \in 1 .. Len(g) : g[i] = a[i + 1]
    BY <1>3, <1>4, <1>5, <1>6
  <2>2. Len(h) = HistorySize /\ Len(g) = Len(h) /\ Len(g) > 0
    <3>1. Len(a) = Len(h) + 1 /\ Len(h) <= HistorySize /\ Len(h) \in Nat /\ Len(g) = Len(a) - 1
      BY <1>4, <1>5, <2>1
    <3> QED
      BY <1>2, <1>6, <3>1
  <2>3. g[Len(g)] = e
    BY <1>4, <1>5, <2>1, <2>2
  <2>4. \A i \in 1 .. Len(g) - 1 : i + 1 \in DOMAIN h /\ g[i] = h[i + 1]
    BY <1>4, <1>5, <2>1, <2>2
  <2> QED
    BY <1>5, <2>1, <2>2, <2>3, <2>4 DEF h, g, e
<1>7. CASE ~(Len(a) > HistorySize)
  <2>1. g = a /\ Len(h) # HistorySize /\ Len(g) > 0
    <3>1. Len(a) = Len(h) + 1 /\ Len(h) \in Nat /\ g = a
      BY <1>3, <1>4, <1>5, <1>7
    <3> QED
      BY <1>2, <1>7, <3>1
  <2>2. \A i \in 1 .. Len(g) - 1 : i + 0 \in DOMAIN h /\ g[i] = h[i + 0]
    BY <1>4, <1>5, <2>1
  <2> QED
    BY <1>4, <1>5, <2>1, <2>2 DEF h, g, e
<1> QED
  BY <1>6, <1>7

\* An outcome keeps history and streak together.
LEMMA RecordWindow ==
    ASSUME NEW t \in Tracker, NEW c \in Call, NEW ok \in BOOLEAN, NEW st \in StreakType,
           Window(t.history, st)
    PROVE  Window(Record(t, c, ok).history, Extended(st, c, ok))
<1> DEFINE h == t.history
           g == Record(t, c, ok).history
           u == Extended(st, c, ok)
<1>1. HistorySize \in Nat /\ HistorySize > 0
  BY LoopDetectorAssumption
<1>2. h \in Seq(Entry) /\ Len(h) \in Nat /\ DOMAIN h = 1 .. Len(h)
  BY DEF Tracker
<1>3. Len(h) <= HistorySize
  BY DEF Window
<1>4. g \in Seq(Entry)
  BY <1>3, RecordEffect
<1>5. PICK d \in {0, 1} :
         /\ d = 1 <=> Len(h) = HistorySize
         /\ Len(g) = Len(h) + 1 - d
         /\ Len(g) > 0
         /\ g[Len(g)] = [call |-> c, ok |-> ok]
         /\ \A i \in 1 .. Len(g) - 1 : i + d \in DOMAIN h /\ g[i] = h[i + d]
  BY <1>3, RecordEffect
<1>6. /\ u.call = c
      /\ u.n = IF ok THEN 0 ELSE (IF st.call = c THEN st.n ELSE 0) + 1
      /\ u.n \in Nat /\ st.n \in Nat
  BY DEF Extended, StreakType
<1>7. /\ st.n <= Len(h) \/ Len(h) = HistorySize
      /\ \A i \in DOMAIN h : i > Len(h) - st.n => h[i] = Failure(st.call)
      /\ \A b \in Call : \A k \in DOMAIN h :
            (\A i \in k .. Len(h) : h[i] = Failure(b))
            => st.call = b /\ st.n >= Len(h) - k + 1
  BY DEF Window
<1>8. Len(g) \in Nat /\ DOMAIN g = 1 .. Len(g)
  BY <1>4
<1> HIDE DEF h, g, u
<1>9. Len(g) <= HistorySize /\ (u.n <= Len(g) \/ Len(g) = HistorySize)
  <2>1. /\ d \in {0, 1} /\ (d = 1 <=> Len(h) = HistorySize) /\ Len(g) = Len(h) + 1 - d
        /\ Len(h) \in Nat /\ Len(h) <= HistorySize /\ st.n \in Nat
        /\ u.n <= st.n + 1 /\ u.n \in Nat
        /\ st.n <= Len(h) \/ Len(h) = HistorySize
    BY <1>2, <1>3, <1>5, <1>6, <1>7
  <2> QED
    BY <1>1, <2>1
<1>10. ASSUME NEW i \in DOMAIN g, i > Len(g) - u.n
       PROVE  g[i] = Failure(u.call)
  <2>1. ~ok
    BY <1>6, <1>8, <1>10
  <2>2. CASE i = Len(g)
    BY <1>5, <1>6, <2>1, <2>2 DEF Failure
  <2>3. CASE i # Len(g)
    <3>1. st.call = c /\ u.n = st.n + 1
      BY <1>6, <1>8, <1>10, <2>1, <2>3
    <3>2. i \in 1 .. Len(g) - 1
      BY <1>8, <2>3
    <3>3. i + d \in DOMAIN h /\ g[i] = h[i + d]
      BY <1>5, <3>2
    <3>4. /\ Len(g) = Len(h) + 1 - d /\ d \in Int /\ i \in Int /\ Len(h) \in Int
          /\ st.n \in Int /\ u.n = st.n + 1 /\ i > Len(g) - u.n
      BY <1>2, <1>5, <1>6, <1>8, <1>10, <3>1
    <3>5. i + d > Len(h) - st.n
      BY <3>4
    <3> QED
      BY <1>6, <1>7, <3>1, <3>3, <3>5
  <2> QED
    BY <2>2, <2>3
<1>11. ASSUME NEW b \in Call, NEW k \in DOMAIN g, \A i \in k .. Len(g) : g[i] = Failure(b)
       PROVE  u.call = b /\ u.n >= Len(g) - k + 1
  <2>1. g[Len(g)] = Failure(b)
    BY <1>8, <1>11
  <2>2. b = c /\ ~ok
    BY <1>5, <2>1 DEF Failure
  <2>3. CASE k = Len(g)
    BY <1>6, <1>8, <2>2, <2>3
  <2>4. CASE k # Len(g)
    <3>1. k \in 1 .. Len(g) - 1 /\ k + d \in DOMAIN h
      BY <1>5, <1>8, <2>4
    <3>2. \A i \in (k + d) .. Len(h) : h[i] = Failure(b)
      <4> TAKE i \in (k + d) .. Len(h)
      <4>1. i - d \in 1 .. Len(g) - 1 /\ i - d \in k .. Len(g) /\ (i - d) + d = i
        BY <1>2, <1>5, <1>8, <3>1
      <4>2. g[i - d] = h[(i - d) + d] /\ g[i - d] = Failure(b)
        BY <1>5, <1>11, <4>1
      <4> QED
        BY <4>1, <4>2
    <3>3. st.call = b /\ st.n >= Len(h) - (k + d) + 1
      BY <1>7, <3>1, <3>2
    <3> QED
      BY <1>2, <1>5, <1>6, <1>8, <2>2, <3>1, <3>3
  <2> QED
    BY <2>3, <2>4
<1> QED
  BY <1>9, <1>10, <1>11 DEF Window, g, u

\* With the window, the detector's test is the one its threshold means.
LEMMA StuckIsStreak ==
    ASSUME NEW h \in Seq(Entry), NEW st \in StreakType, Window(h, st), NEW c \in Call
    PROVE  /\ Stuck(h, c) => /\ st.n + 1 >= CriticalThreshold
                             /\ CriticalThreshold > 1 => st.call = c
           /\ ~Stuck(h, c) => /\ CriticalThreshold >= 2
                              /\ st.call = c => st.n <= CriticalThreshold - 2
<1>1. /\ HistorySize \in Nat /\ HistorySize > 0 /\ HistorySize + 1 >= CriticalThreshold
      /\ CriticalThreshold \in Nat /\ CriticalThreshold > 0
  BY LoopDetectorAssumption
<1>2. Len(h) \in Nat /\ DOMAIN h = 1 .. Len(h) /\ st.n \in Nat
  BY DEF StreakType
<1> DEFINE k == Len(h) + 2 - CriticalThreshold
<1>3. ASSUME Stuck(h, c)
      PROVE  st.n + 1 >= CriticalThreshold /\ (CriticalThreshold > 1 => st.call = c)
  <2>1. CASE CriticalThreshold = 1
    BY <1>2, <2>1
  <2>2. CASE CriticalThreshold > 1
    <3>1. Len(h) + 1 >= CriticalThreshold /\ \A i \in k .. Len(h) : h[i] = Failure(c)
      BY <1>3 DEF Stuck, Failure
    <3>2. k \in DOMAIN h
      BY <1>1, <1>2, <2>2, <3>1
    <3>3. st.call = c /\ st.n >= Len(h) - k + 1
      BY <3>1, <3>2 DEF Window
    <3> QED
      BY <1>1, <1>2, <3>3
  <2> QED
    BY <1>1, <2>1, <2>2
<1>4. ASSUME ~Stuck(h, c)
      PROVE  CriticalThreshold >= 2 /\ (st.call = c => st.n <= CriticalThreshold - 2)
  <2>1. CriticalThreshold >= 2
    BY <1>1, <1>2, <1>4 DEF Stuck
  <2>2. ASSUME st.call = c, st.n > CriticalThreshold - 2
        PROVE  FALSE
    <3>1. \A i \in DOMAIN h : i > Len(h) - st.n => h[i] = Failure(c)
      BY <2>2 DEF Window
    <3>2. st.n <= Len(h) \/ Len(h) = HistorySize
      BY DEF Window
    <3>3. Len(h) + 1 >= CriticalThreshold
      <4>1. CASE st.n <= Len(h)
        BY <1>1, <1>2, <2>2, <4>1
      <4>2. CASE Len(h) = HistorySize
        BY <1>1, <4>2
      <4> QED
        BY <3>2, <4>1, <4>2
    <3>4. \A i \in k .. Len(h) : i \in DOMAIN h /\ i > Len(h) - st.n
      BY <1>1, <1>2, <2>2, <3>3
    <3>5. \A i \in k .. Len(h) : h[i] = Failure(c)
      BY <3>1, <3>4
    <3> QED
      BY <1>4, <3>5, <3>3 DEF Stuck, Failure
  <2> QED
    BY <1>1, <1>2, <2>1, <2>2
<1> QED
  BY <1>3, <1>4

-----------------------------------------------------------------------------
(***************************************************************************)
(* The inductive invariant, the part that relates a run to its detector.   *)
(***************************************************************************)
\* A run that has not shared its detector is the only one under way.
Alone(r) == UnderWay(r) /\ ~run[r].shared

Owned ==
    \A r \in Runs : Alone(r) => active = r /\ \A q \in Runs \ {r} : ~UnderWay(q)

\* What executes may fail without breaking the bound: a serial call has been checked
\* against the streak as it is, the parallel ones together.
Alike(s, c) == {i \in DOMAIN s.calls : s.calls[i].status = "running" /\ s.calls[i].call = c}

RoomFor(s, c) ==
    /\ CriticalThreshold >= 2
    /\ s.streak.call = c =>
          IF c.tool \in ParallelSafe
          THEN s.streak.n + Cardinality(Alike(s, c)) <= CriticalThreshold - 2 + MaxCalls
          ELSE s.streak.n <= CriticalThreshold - 2

Room(s) ==
    \A i \in DOMAIN s.calls : s.calls[i].status = "running" => RoomFor(s, s.calls[i].call)

Watched(r) == Window(tracker[r].history, run[r].streak) /\ Room(run[r])

IInv ==
    /\ TInv
    /\ \A r \in Runs : Good(r, run[r])
    /\ Owned
    /\ \A r \in Runs : Alone(r) => Watched(r)
    /\ StreakBounded

\* No more calls are alike than the response has.
LEMMA AlikeFinite ==
    ASSUME NEW s, s.calls \in Seq(CallState), Len(s.calls) <= MaxCalls, NEW c
    PROVE  /\ IsFiniteSet(Alike(s, c))
           /\ Cardinality(Alike(s, c)) \in Nat
           /\ Cardinality(Alike(s, c)) <= MaxCalls
<1>1. /\ DOMAIN s.calls = 1 .. Len(s.calls) /\ Len(s.calls) \in Nat /\ MaxCalls \in Nat
  BY AgentLoopAssumption
<1>2. IsFiniteSet(1 .. Len(s.calls)) /\ Cardinality(1 .. Len(s.calls)) = Len(s.calls)
  BY <1>1, FS_Interval
<1>3. Alike(s, c) \subseteq 1 .. Len(s.calls)
  BY <1>1 DEF Alike
<1>4. /\ IsFiniteSet(Alike(s, c))
      /\ Cardinality(Alike(s, c)) <= Cardinality(1 .. Len(s.calls))
  BY <1>2, <1>3, FS_Subset
<1>5. Cardinality(Alike(s, c)) \in Nat
  BY <1>4, FS_CardinalityType
<1> QED
  BY <1>1, <1>2, <1>4, <1>5

LEMMA InitInvariant == Init => IInv
<1> SUFFICES ASSUME Init PROVE IInv
  OBVIOUS
<1>1. TInv
  BY InitType
<1>2. \A r \in Runs : /\ run[r] \in RunType
                      /\ run[r].pc = "idle" /\ run[r].late = 0 /\ run[r].reason = "none"
                      /\ run[r].depth = 0 /\ run[r].tier = 1 /\ run[r].calls = <<>>
                      /\ run[r].streak.n = 0
  BY <1>1 DEF Init, Idle, TInv, TypeInvariant
<1>3. Len(<<>>) <= MaxCalls
  BY AgentLoopAssumption
<1>4. \A r \in Runs : Good(r, run[r])
  BY <1>2, <1>3 DEF Good, Heeds, Kept, Climbs, Orderly
<1>5. \A r \in Runs : ~Alone(r)
  BY <1>2 DEF Alone, UnderWay
<1>6. StreakBounded
  BY <1>2 DEF StreakBounded, WithinBound
<1> QED
  BY <1>1, <1>4, <1>5, <1>6 DEF IInv, Owned

\* A quiet step.
LEMMA MovesInvariant ==
    ASSUME IInv, NEW r \in Runs, UnderWay(r), Moves(r)
    PROVE  IInv'
<1>1. PICK t : Good(r, t) /\ Quiet(run[r], t) /\ run' = [run EXCEPT ![r] = t]
  BY DEF Moves
<1>2. active' = active /\ tracker' = tracker
  BY DEF Moves
<1>3. run \in [Runs -> RunType]
  BY DEF IInv, TInv, TypeInvariant
<1>4. /\ run'[r] = t
      /\ \A q \in Runs \ {r} : run'[q] = run[q]
  BY <1>1, <1>3
<1>5. TInv'
  BY <1>1, <1>2, RunUpdate DEF IInv, Good
<1>6. \A q \in Runs : Good(q, run'[q])
  BY <1>1, <1>4 DEF IInv
<1>7. t.streak = run[r].streak /\ t.shared = run[r].shared
  BY <1>1 DEF Quiet
<1>8. \A q \in Runs : UnderWay(q)' => UnderWay(q)
  BY <1>4 DEF UnderWay
<1>9. \A q \in Runs : Alone(q)' => Alone(q)
  BY <1>4, <1>7, <1>8 DEF Alone, UnderWay
<1>10. Owned'
  BY <1>2, <1>8, <1>9 DEF Owned, IInv
<1>11. ASSUME NEW q \in Runs, Alone(q)'
       PROVE  Watched(q)'
  <2>1. Alone(q) /\ Watched(q)
    BY <1>9, <1>11 DEF IInv
  <2>2. CASE q # r
    BY <1>2, <1>4, <2>1, <2>2 DEF Watched
  <2>3. CASE q = r
    <3>1. Window(tracker[r].history, t.streak)
      BY <1>7, <2>1, <2>3 DEF Watched
    <3>2. t.pc \notin {"idle", "over"}
      BY <1>4, <1>11, <2>3 DEF Alone, UnderWay
    <3>3. ASSUME NEW i \in DOMAIN t.calls, t.calls[i].status = "running"
          PROVE  RoomFor(t, t.calls[i].call)
      <4> DEFINE c == t.calls[i].call
      <4>1. i \in DOMAIN run[r].calls /\ t.calls[i] = run[r].calls[i]
        BY <1>1, <3>2, <3>3 DEF Quiet
      <4>2. RoomFor(run[r], c)
        BY <2>1, <2>3, <3>3, <4>1 DEF Watched, Room
      <4>3. Alike(t, c) \subseteq Alike(run[r], c)
        BY <1>1, <3>2 DEF Alike, Quiet
      <4>4. run[r].calls \in Seq(CallState) /\ Len(run[r].calls) <= MaxCalls
        BY <1>3 DEF RunType, IInv, Good, Orderly
      <4>5. t.calls \in Seq(CallState) /\ Len(t.calls) <= MaxCalls
        BY <1>1 DEF RunType, Good, Orderly
      <4>6. /\ IsFiniteSet(Alike(run[r], c))
            /\ Cardinality(Alike(run[r], c)) \in Nat
        BY <4>4, AlikeFinite
      <4>7. Cardinality(Alike(t, c)) \in Nat
        BY <4>5, AlikeFinite
      <4>8. Cardinality(Alike(t, c)) <= Cardinality(Alike(run[r], c))
        BY <4>3, <4>6, FS_Subset
      <4>9. run[r].streak.n \in Nat /\ CriticalThreshold \in Nat /\ MaxCalls \in Nat
        BY <1>3, LoopDetectorAssumption, AgentLoopAssumption DEF RunType
      <4> HIDE DEF c
      <4>10. RoomFor(t, c)
        BY <1>7, <4>2, <4>6, <4>7, <4>8, <4>9 DEF RoomFor
      <4> QED
        BY <4>10 DEF c
    <3> QED
      BY <1>2, <1>4, <2>3, <3>1, <3>3 DEF Watched, Room
  <2> QED
    BY <2>2, <2>3
<1>12. StreakBounded'
  <2>1. \A q \in Runs : run'[q].streak = run[q].streak /\ run'[q].shared = run[q].shared
    BY <1>4, <1>7
  <2> QED
    BY <2>1 DEF IInv, StreakBounded, WithinBound
<1> QED
  BY <1>5, <1>6, <1>10, <1>11, <1>12 DEF IInv

\* A run begins: it is the only one under way, or it shares the detector with those
\* that are, and they know.
LEMMA StartInvariant ==
    ASSUME IInv, NEW r \in Runs, Start(r)
    PROVE  IInv'
<1>1. TInv'
  BY StartType DEF IInv
<1>2. run \in [Runs -> RunType] /\ run' \in [Runs -> RunType]
  BY <1>1 DEF IInv, TInv, TypeInvariant
<1>3. PICK tier \in 1 .. TopTier :
          run' = [q \in Runs |->
              IF q = r THEN [Idle EXCEPT !.pc = "top", !.tier = tier,
                                         !.shared = \E p \in Runs : UnderWay(p)]
              ELSE [run[q] EXCEPT !.shared = @ \/ UnderWay(q)]]
  BY DEF Start
<1> DEFINE b == \E p \in Runs : UnderWay(p)
<1>4. /\ run'[r].pc = "top" /\ run'[r].tier = tier /\ run'[r].shared = b
      /\ run'[r].late = 0 /\ run'[r].reason = "none" /\ run'[r].depth = 0
      /\ run'[r].calls = <<>> /\ run'[r].streak = [call |-> NoKey, n |-> 0]
  BY <1>3 DEF Idle
<1>5. \A q \in Runs \ {r} :
         /\ run'[q].pc = run[q].pc /\ run'[q].late = run[q].late
         /\ run'[q].aborted = run[q].aborted /\ run'[q].planned = run[q].planned
         /\ run'[q].reason = run[q].reason /\ run'[q].saved = run[q].saved
         /\ run'[q].depth = run[q].depth /\ run'[q].tier = run[q].tier
         /\ run'[q].calls = run[q].calls /\ run'[q].streak = run[q].streak
         /\ run'[q].shared <=> (run[q].shared \/ UnderWay(q))
  <2> TAKE q \in Runs \ {r}
  <2>1. run'[q] = [run[q] EXCEPT !.shared = @ \/ UnderWay(q)] /\ run[q] \in RunType
    BY <1>2, <1>3
  <2> QED
    BY <2>1 DEF RunType
<1>6. tier \in Nat /\ 0 < tier /\ Len(<<>>) <= MaxCalls
  BY AgentLoopAssumption
<1>7. Good(r, run'[r])
  BY <1>2, <1>4, <1>6 DEF Good, Heeds, Kept, Climbs, Orderly
<1>8. ASSUME NEW q \in Runs \ {r}
      PROVE  Good(q, run'[q])
  <2>1. Good(q, run[q])
    BY DEF IInv
  <2>2. Heeds(run'[q]) /\ Kept(run'[q]) /\ Climbs(q, run'[q])
    BY <1>5, <2>1 DEF Good, Heeds, Kept, Climbs
  <2>3. Orderly(run'[q])
    BY <1>5, <2>1 DEF Good, Orderly
  <2> QED
    BY <1>2, <2>2, <2>3 DEF Good
<1>9. \A q \in Runs : Alone(q)' => q = r
  BY <1>5 DEF Alone, UnderWay
<1>10. Alone(r)' => \A q \in Runs \ {r} : ~UnderWay(q)'
  BY <1>4, <1>5 DEF Alone, UnderWay
<1>11. Owned'
  BY <1>9, <1>10 DEF Owned, Start
<1>12. Watched(r)'
  <2>1. tracker'[r].history = <<>>
    BY DEF Start, NewTracker, IInv, TInv, TypeInvariant
  <2>2. HistorySize \in Nat
    BY LoopDetectorAssumption
  <2>3. Window(<<>>, [call |-> NoKey, n |-> 0])
    BY <2>2 DEF Window
  <2>4. Room(run'[r])
    BY <1>4 DEF Room
  <2> QED
    BY <1>4, <2>1, <2>3, <2>4 DEF Watched
<1>13. StreakBounded'
  BY <1>4, <1>5 DEF IInv, StreakBounded, WithinBound
<1> QED
  BY <1>1, <1>7, <1>8, <1>9, <1>11, <1>12, <1>13 DEF IInv

-----------------------------------------------------------------------------
\* Calls begin: none of the others is running, and their turns are kept.
LEMMA LaunchInTurn ==
    ASSUME TInv, NEW r \in Runs, Orderly(run[r]), NEW I \in SUBSET (DOMAIN run[r].calls),
           Launch(r, I), NEW new \in Seq(CallState), Launched(r, I, new),
           \/ I = Parallel(r) /\ I # {}
           \/ \E i \in DOMAIN run[r].calls \ Parallel(r) :
                 I = {i} /\ Settled(r, Parallel(r) \cup 1 .. (i - 1))
    PROVE  /\ Len(new) = Len(run[r].calls)
           /\ InTurn(new)
           /\ \A i \in DOMAIN new : new[i].status = "running" => i \in I
<1> DEFINE cs == run[r].calls
<1>1. /\ cs \in Seq(CallState) /\ DOMAIN cs = 1 .. Len(cs) /\ Len(cs) \in Nat
      /\ DOMAIN new = DOMAIN cs /\ Len(new) = Len(cs)
  <2>1. cs \in Seq(CallState)
    BY RunFields
  <2>2. DOMAIN new = DOMAIN cs
    BY DEF Launched
  <2> HIDE DEF cs
  <2> QED
    BY <2>1, <2>2
<1>2. InTurn(cs) /\ \A i \in I : cs[i].status = "todo"
  BY DEF Launch, Orderly
<1>3. \A i \in DOMAIN cs : /\ new[i].call = cs[i].call
                           /\ i \notin I => new[i] = cs[i]
  BY <1>1 DEF Launched
<1>4. ParallelOf(new) = ParallelOf(cs) /\ Parallel(r) = ParallelOf(cs)
  BY <1>1, <1>3 DEF ParallelOf, Parallel
<1>5. \A i \in I : cs[i].status \notin Ends
  BY <1>2 DEF Ends
<1> DEFINE P == ParallelOf(cs)
<1>6. P \subseteq DOMAIN cs
  BY DEF ParallelOf
<1>7. \A j \in DOMAIN cs \ P : cs[j].status # "todo" => SettledIn(cs, P \cup 1 .. (j - 1))
  BY <1>2 DEF InTurn
<1> SUFFICES /\ \A j \in DOMAIN cs \ P :
                   new[j].status # "todo" => SettledIn(new, P \cup 1 .. (j - 1))
             /\ \A i \in DOMAIN cs : new[i].status = "running" => i \in I
  BY <1>1, <1>4 DEF InTurn
<1> HIDE DEF cs, P
<1>8. CASE I = P /\ I # {}
  <2>1. \A j \in DOMAIN cs \ P : cs[j].status = "todo"
    BY <1>5, <1>7, <1>8 DEF SettledIn
  <2> QED
    BY <1>3, <1>8, <2>1
<1>9. ASSUME NEW i \in DOMAIN cs \ P, I = {i}, SettledIn(cs, P \cup 1 .. (i - 1))
      PROVE  /\ \A j \in DOMAIN cs \ P :
                   new[j].status # "todo" => SettledIn(new, P \cup 1 .. (j - 1))
             /\ \A j \in DOMAIN cs : new[j].status = "running" => j \in I
  <2>1. \A j \in DOMAIN cs \ P : cs[j].status # "todo" => i \notin 1 .. (j - 1)
    BY <1>5, <1>7, <1>9 DEF SettledIn
  <2>2. ASSUME NEW j \in DOMAIN cs \ P, new[j].status # "todo"
        PROVE  SettledIn(new, P \cup 1 .. (j - 1))
    <3>1. SettledIn(cs, P \cup 1 .. (j - 1)) /\ i \notin P \cup 1 .. (j - 1)
      <4>1. CASE j = i
        BY <1>1, <1>9, <4>1
      <4>2. CASE j # i
        BY <1>3, <1>7, <1>9, <2>1, <2>2, <4>2
      <4> QED
        BY <4>1, <4>2
    <3>2. P \cup 1 .. (j - 1) \subseteq DOMAIN cs
      BY <1>1, <1>6
    <3> QED
      BY <1>3, <1>9, <3>1, <3>2 DEF SettledIn
  <2>3. ASSUME NEW j \in DOMAIN cs, new[j].status = "running", j # i
        PROVE  FALSE
    <3>1. cs[j].status = "running" /\ cs[j].status \notin Ends /\ cs[j].status # "todo"
      BY <1>3, <1>9, <2>3 DEF Ends
    <3>2. j \notin P /\ j \notin 1 .. (i - 1)
      BY <1>9, <3>1 DEF SettledIn
    <3>3. i \in 1 .. (j - 1)
      BY <1>1, <1>9, <2>3, <3>2
    <3> QED
      BY <2>1, <3>1, <3>2, <3>3
  <2> QED
    BY <1>9, <2>2, <2>3
<1> QED
  BY <1>4, <1>8, <1>9 DEF Settled, SettledIn, cs, P

LEMMA LaunchInvariant ==
    ASSUME IInv, NEW r \in Runs, NEW I \in SUBSET (DOMAIN run[r].calls), Launch(r, I),
           \/ I = Parallel(r) /\ I # {}
           \/ \E i \in DOMAIN run[r].calls \ Parallel(r) :
                 I = {i} /\ Settled(r, Parallel(r) \cup 1 .. (i - 1))
    PROVE  IInv'
<1> DEFINE s == run[r]
<1>1. TInv /\ Good(r, s) /\ s.pc = "tools" /\ s \in RunType /\ run \in [Runs -> RunType]
  BY DEF IInv, TInv, TypeInvariant, Launch
<1>2. /\ active' = active /\ active \in Runs
      /\ tracker' \in [Runs -> Tracker]
      /\ \A q \in Runs : tracker'[q].history = tracker[q].history
  BY <1>1, LaunchEffect
<1>3. PICK new \in Seq(CallState), b \in BOOLEAN :
         /\ run' = [run EXCEPT ![r] = [s EXCEPT !.breaker = b, !.calls = new]]
         /\ Launched(r, I, new)
  BY <1>1, LaunchEffect
<1> DEFINE t == [s EXCEPT !.breaker = b, !.calls = new]
<1>4. /\ t \in RunType /\ t.pc = s.pc /\ t.late = s.late /\ t.planned = s.planned
      /\ t.aborted = s.aborted /\ t.reason = s.reason /\ t.depth = s.depth /\ t.saved = s.saved
      /\ t.tier = s.tier /\ t.calls = new /\ t.streak = s.streak /\ t.shared = s.shared
  BY <1>1 DEF RunType
<1>5. run'[r] = t /\ run' \in [Runs -> RunType] /\ \A q \in Runs \ {r} : run'[q] = run[q]
  BY <1>1, <1>3, <1>4
<1> HIDE DEF t
<1>6. /\ Len(new) = Len(s.calls) /\ InTurn(new)
      /\ \A i \in DOMAIN new : new[i].status = "running" => i \in I
  BY <1>1, <1>3, LaunchInTurn DEF Good
<1>7. TInv'
  BY <1>1, <1>2, <1>5 DEF TInv, TypeInvariant, Installed
<1>8. Good(r, t)
  BY <1>1, <1>4, <1>6 DEF Good, Heeds, Kept, Climbs, Orderly
<1>9. \A q \in Runs : Alone(q)' <=> Alone(q)
  BY <1>4, <1>5 DEF Alone, UnderWay
<1>10. \A q \in Runs : UnderWay(q)' <=> UnderWay(q)
  BY <1>4, <1>5 DEF UnderWay
<1>11. Owned'
  BY <1>2, <1>9, <1>10 DEF IInv, Owned
<1>12. ASSUME Alone(r)
       PROVE  Room(t)
  <2>1. active = r /\ Window(tracker[r].history, s.streak)
    BY <1>12 DEF IInv, Owned, Watched
  <2>2. tracker[r].history \in Seq(Entry) /\ s.streak \in StreakType
    BY <1>1 DEF TInv, TypeInvariant, Tracker, RunType, StreakType
  <2> SUFFICES ASSUME NEW i \in DOMAIN new, new[i].status = "running"
               PROVE  RoomFor(t, new[i].call)
    BY <1>4 DEF Room
  <2> DEFINE c == new[i].call
  <2>3. c \in Call
    BY CallFields, <1>1, <1>3 DEF Launched
  <2>4. Check(tracker[r], c).level # "critical"
    BY <1>3, <1>6, <2>1 DEF Launched
  <2>5. ~Stuck(tracker[r].history, c)
    BY <2>4 DEF Check
  <2> HIDE DEF c
  <2>6. CriticalThreshold >= 2 /\ (s.streak.call = c => s.streak.n <= CriticalThreshold - 2)
    BY <2>1, <2>2, <2>3, <2>5, StuckIsStreak
  <2>7. Len(new) <= MaxCalls
    BY <1>1, <1>6 DEF Good, Orderly
  <2>8. Cardinality(Alike(t, c)) \in Nat /\ Cardinality(Alike(t, c)) <= MaxCalls
    BY <1>4, <2>7, AlikeFinite
  <2>9. s.streak.n \in Nat /\ CriticalThreshold \in Nat /\ MaxCalls \in Nat
    BY <2>2, LoopDetectorAssumption, AgentLoopAssumption DEF StreakType
  <2>10. RoomFor(t, c)
    BY <1>4, <2>6, <2>8, <2>9 DEF RoomFor
  <2> QED
    BY <2>10 DEF c
<1>13. ASSUME NEW q \in Runs, Alone(q)'
       PROVE  Watched(q)'
  <2>1. Alone(q) /\ Watched(q)
    BY <1>9, <1>13 DEF IInv
  <2>2. q = r
    BY <1>1, <2>1 DEF IInv, Owned, UnderWay
  <2> QED
    BY <1>2, <1>4, <1>5, <1>12, <2>1, <2>2 DEF Watched
<1>14. StreakBounded'
  <2>1. \A q \in Runs : run'[q].streak = run[q].streak /\ run'[q].shared = run[q].shared
    BY <1>4, <1>5
  <2> QED
    BY <2>1 DEF IInv, StreakBounded, WithinBound
<1>15. \A q \in Runs : Good(q, run'[q])
  BY <1>5, <1>8 DEF IInv
<1> QED
  BY <1>7, <1>11, <1>13, <1>14, <1>15 DEF IInv

\* One alike less executes.
LEMMA AlikeLess ==
    ASSUME NEW s, s.calls \in Seq(CallState), Len(s.calls) <= MaxCalls,
           NEW i \in DOMAIN s.calls, s.calls[i].status = "running", NEW e \in Ends,
           NEW t, t.calls = Ended(s.calls, i, e)
    PROVE  LET c == s.calls[i].call
           IN  Cardinality(Alike(t, c)) = Cardinality(Alike(s, c)) - 1
<1> DEFINE c == s.calls[i].call
<1>1. /\ DOMAIN t.calls = DOMAIN s.calls
      /\ t.calls[i].status = e
      /\ \A j \in DOMAIN s.calls : j # i => t.calls[j] = s.calls[j]
  BY SettleOne
<1>2. e # "running"
  BY DEF Ends
<1>3. Alike(t, c) = Alike(s, c) \ {i} /\ i \in Alike(s, c)
  BY <1>1, <1>2 DEF Alike
<1>4. IsFiniteSet(Alike(s, c))
  BY AlikeFinite
<1> QED
  BY <1>3, <1>4, FS_RemoveElement

LEMMA FinishInvariant ==
    ASSUME IInv, NEW r \in Runs, NEW i \in DOMAIN run[r].calls, NEW ok \in BOOLEAN,
           Finish(r, i, ok)
    PROVE  IInv'
<1> DEFINE s == run[r]
           cs == s.calls
           c == cs[i].call
           e == IF ok THEN "ok" ELSE "err"
           ds == Ended(cs, i, e)
           st == Extended(s.streak, c, ok)
           t == [s EXCEPT !.calls = ds, !.streak = st]
<1>1. /\ TInv /\ Good(r, s) /\ s.pc = "tools" /\ s \in RunType
      /\ run \in [Runs -> RunType] /\ tracker \in [Runs -> Tracker]
      /\ cs \in Seq(CallState) /\ cs[i].status = "running" /\ c \in Call
      /\ Len(cs) <= MaxCalls /\ InTurn(cs) /\ s.streak \in StreakType
  <2>1. TInv /\ Good(r, s) /\ run \in [Runs -> RunType] /\ tracker \in [Runs -> Tracker]
    BY DEF IInv, TInv, TypeInvariant
  <2>2. s.pc = "tools" /\ cs[i].status = "running"
    BY DEF Finish
  <2>3. cs \in Seq(CallState) /\ c \in Call /\ s.streak \in StreakType
    BY <2>1, RunFields, CallFields DEF RunType, StreakType
  <2>4. Len(cs) <= MaxCalls /\ InTurn(cs)
    BY <2>1, <2>2 DEF Good, Orderly
  <2> QED
    BY <2>1, <2>2, <2>3, <2>4
<1>2. active \in Runs /\ active' = active
  BY <1>1 DEF Finish, TInv, Installed, UnderWay
<1>3. e \in Ends
  BY DEF Ends
<1>4. /\ ds \in Seq(CallState) /\ Len(ds) = Len(cs) /\ DOMAIN ds = DOMAIN cs
      /\ \A j \in DOMAIN cs : ds[j].call = cs[j].call
      /\ ds[i].status = e
      /\ \A j \in DOMAIN cs : j # i => ds[j] = cs[j]
      /\ InTurn(ds)
  BY <1>1, <1>3, SettleOne
<1>5. st \in StreakType /\ st.call = c
      /\ st.n = IF ok THEN 0 ELSE (IF s.streak.call = c THEN s.streak.n ELSE 0) + 1
  BY <1>1 DEF Extended, StreakType
<1>6. run' = [run EXCEPT ![r] = t]
  BY <1>1 DEF Finish, Ended, Extended
<1>7. \E key : LET u == Record(tracker[active], c, ok)
               IN  tracker' = [tracker EXCEPT ![active] =
                                  IF ok THEN ClearVetoes(u, key) ELSE u]
  BY DEF Finish
<1>8. /\ tracker' \in [Runs -> Tracker]
      /\ tracker'[active].history = Record(tracker[active], c, ok).history
  <2>1. Record(tracker[active], c, ok) \in Tracker
    BY <1>1, <1>2, RecordType
  <2> HIDE DEF c
  <2> QED
    BY <1>1, <1>2, <1>7, <2>1, ClearType
<1> HIDE DEF ds, st
<1>9. /\ t \in RunType /\ t.pc = s.pc /\ t.late = s.late /\ t.planned = s.planned
      /\ t.aborted = s.aborted /\ t.reason = s.reason /\ t.depth = s.depth /\ t.saved = s.saved
      /\ t.tier = s.tier /\ t.calls = ds /\ t.streak = st /\ t.shared = s.shared
  BY <1>1, <1>4, <1>5 DEF RunType, StreakType
<1>10. run'[r] = t /\ run' \in [Runs -> RunType] /\ \A q \in Runs \ {r} : run'[q] = run[q]
  BY <1>1, <1>6, <1>9
<1> HIDE DEF t
<1>11. TInv'
  BY <1>1, <1>2, <1>8, <1>10 DEF TInv, TypeInvariant, Installed
<1>12. Good(r, t)
  BY <1>1, <1>4, <1>9 DEF Good, Heeds, Kept, Climbs, Orderly
<1>13. \A q \in Runs : (UnderWay(q)' <=> UnderWay(q)) /\ (Alone(q)' <=> Alone(q))
  BY <1>9, <1>10 DEF Alone, UnderWay
<1>14. Owned'
  BY <1>2, <1>13 DEF IInv, Owned
<1>15. /\ CriticalThreshold \in Nat /\ MaxCalls \in Nat /\ MaxCalls > 0
       /\ s.streak.n \in Nat /\ st.n \in Nat
       /\ Cardinality(Alike(s, c)) \in Nat /\ Cardinality(Alike(s, c)) <= MaxCalls
       /\ Cardinality(Alike(t, c)) \in Nat
       /\ Cardinality(Alike(t, c)) = Cardinality(Alike(s, c)) - 1
  <2>1. Cardinality(Alike(s, c)) \in Nat /\ Cardinality(Alike(s, c)) <= MaxCalls
    BY <1>1, AlikeFinite
  <2>2. Cardinality(Alike(t, c)) \in Nat
    BY <1>1, <1>4, <1>9, AlikeFinite
  <2>3. Cardinality(Alike(t, c)) = Cardinality(Alike(s, c)) - 1
    BY <1>1, <1>3, <1>9, AlikeLess DEF ds
  <2> QED
    BY <1>1, <1>5, <2>1, <2>2, <2>3, LoopDetectorAssumption, AgentLoopAssumption DEF StreakType
<1>16. ASSUME Alone(r)
       PROVE  RoomFor(s, c)
  BY <1>1, <1>16 DEF IInv, Watched, Room
<1>17. ASSUME Alone(r), NEW j \in DOMAIN ds, ds[j].status = "running"
       PROVE  RoomFor(t, ds[j].call)
  <2>1. j # i /\ j \in DOMAIN cs /\ cs[j].status = "running" /\ ds[j].call = cs[j].call
    BY <1>4, <1>17 DEF Ends
  <2>2. CriticalThreshold >= 2
    BY <1>16, <1>17 DEF RoomFor
  <2>3. CASE cs[j].call # c
    BY <1>5, <1>9, <2>1, <2>2, <2>3 DEF RoomFor
  <2>4. CASE cs[j].call = c /\ c.tool \in ParallelSafe
    <3>1. s.streak.call = c =>
             s.streak.n + Cardinality(Alike(s, c)) <= CriticalThreshold - 2 + MaxCalls
      BY <1>16, <1>17, <2>4 DEF RoomFor
    <3>2. st.n <= 0 \/ st.n <= 1 \/ (s.streak.call = c /\ st.n <= s.streak.n + 1)
      BY <1>5, <1>15
    <3>3. st.n + Cardinality(Alike(t, c)) <= CriticalThreshold - 2 + MaxCalls
      BY <1>15, <2>2, <3>1, <3>2
    <3> QED
      BY <1>9, <2>1, <2>2, <2>4, <3>3 DEF RoomFor
  <2>5. CASE cs[j].call = c /\ c.tool \notin ParallelSafe
    <3>1. i \in DOMAIN cs \ ParallelOf(cs) /\ j \in DOMAIN cs \ ParallelOf(cs)
      BY <2>1, <2>5 DEF ParallelOf
    <3>2. i \in 1 .. (j - 1) \/ j \in 1 .. (i - 1)
      BY <1>1, <2>1
    <3>3. "running" \notin Ends /\ cs[i].status # "todo" /\ cs[j].status # "todo"
      BY <1>1, <2>1 DEF Ends
    <3> HIDE DEF cs
    <3> QED
      BY <1>1, <2>1, <3>1, <3>2, <3>3 DEF InTurn, SettledIn
  <2> QED
    BY <2>3, <2>4, <2>5
<1>18. ASSUME NEW q \in Runs, Alone(q)'
       PROVE  Watched(q)'
  <2>1. Alone(q) /\ Watched(q)
    BY <1>13, <1>18 DEF IInv
  <2>2. q = r /\ active = r
    BY <1>1, <2>1 DEF IInv, Owned, UnderWay
  <2>3. Window(tracker'[r].history, st)
    BY <1>1, <1>8, <2>1, <2>2, RecordWindow DEF Watched, st
  <2>4. Room(t)
    BY <1>9, <1>17, <2>1, <2>2 DEF Room
  <2> QED
    BY <1>9, <1>10, <2>2, <2>3, <2>4 DEF Watched
<1>19. ASSUME ~s.shared, st.n > 0
       PROVE  st.n <= Bound(c)
  <2>1. Alone(r)
    BY <1>1, <1>19 DEF Alone, UnderWay
  <2>2. RoomFor(s, c)
    BY <1>16, <2>1
  <2>3. st.n <= 1 \/ (s.streak.call = c /\ st.n <= s.streak.n + 1)
    BY <1>5, <1>15
  <2>4. CASE c.tool \in ParallelSafe
    <3>1. Cardinality(Alike(s, c)) >= 1
      BY <1>15
    <3> QED
      BY <1>15, <2>2, <2>3, <2>4, <3>1 DEF RoomFor, Bound
  <2>5. CASE c.tool \notin ParallelSafe
    BY <1>15, <2>2, <2>3, <2>5 DEF RoomFor, Bound
  <2> QED
    BY <2>4, <2>5
<1>20. StreakBounded'
  BY <1>5, <1>9, <1>10, <1>19 DEF IInv, StreakBounded, WithinBound
<1>21. \A q \in Runs : Good(q, run'[q])
  BY <1>10, <1>12 DEF IInv
<1> QED
  BY <1>11, <1>14, <1>18, <1>20, <1>21 DEF IInv

-----------------------------------------------------------------------------
\* Every step begins a run, moves one quietly, begins calls or ends one.
LEMMA StepCases ==
    ASSUME IInv, NEW r \in Runs, Start(r) \/ RunStep(r) \/ Abort(r)
    PROVE  \/ Start(r)
           \/ UnderWay(r) /\ Moves(r)
           \/ \E I \in SUBSET (DOMAIN run[r].calls) :
                 /\ Launch(r, I)
                 /\ \/ I = Parallel(r) /\ I # {}
                    \/ \E i \in DOMAIN run[r].calls \ Parallel(r) :
                          I = {i} /\ Settled(r, Parallel(r) \cup 1 .. (i - 1))
           \/ \E i \in DOMAIN run[r].calls, ok \in BOOLEAN : Finish(r, i, ok)
<1>1. TInv /\ Good(r, run[r])
  BY DEF IInv
<1>2. CASE \/ MaxStepsReached(r) \/ MaxMessagesReached(r) \/ CallModel(r) \/ RunThrows(r)
           \/ Answer(r) \/ ExtractPlan(r)
  <2>1. UnderWay(r)
    BY <1>2 DEF MaxStepsReached, MaxMessagesReached, CallModel, RunThrows, Answer,
                ExtractPlan, UnderWay
  <2> QED
    BY <1>1, <1>2, <2>1, TextMoves
<1>3. CASE AskForCalls(r) \/ Collect(r) \/ \E i \in DOMAIN run[r].calls : Refuse(r, i) \/ Reject(r, i)
  <2>1. UnderWay(r)
    BY <1>3 DEF AskForCalls, Collect, Refuse, Reject, UnderWay
  <2> QED
    BY <1>1, <1>3, <2>1, ToolMoves
<1>4. CASE Decide(r) \/ Abort(r)
  <2>1. UnderWay(r)
    BY <1>4 DEF Decide, Abort, UnderWay
  <2> QED
    BY <1>1, <1>4, <2>1, DecideMoves
<1>5. CASE StartBatch(r)
  BY <1>5 DEF StartBatch, Parallel
<1>6. ASSUME NEW i \in DOMAIN run[r].calls, StartNext(r, i)
      PROVE  \E I \in SUBSET (DOMAIN run[r].calls) :
                /\ Launch(r, I)
                /\ \E j \in DOMAIN run[r].calls \ Parallel(r) :
                      I = {j} /\ Settled(r, Parallel(r) \cup 1 .. (j - 1))
  BY <1>6 DEF StartNext
<1> QED
  BY <1>2, <1>3, <1>4, <1>5, <1>6 DEF RunStep, CallStep

LEMMA StepInvariant == IInv /\ [Next]_vars => IInv'
<1> SUFFICES ASSUME IInv, [Next]_vars PROVE IInv'
  OBVIOUS
<1>1. CASE UNCHANGED vars
  <2>1. active' = active /\ tracker' = tracker /\ run' = run
    BY <1>1 DEF vars
  <2>2. TInv' /\ StreakBounded'
    BY <2>1 DEF IInv, TInv, TypeInvariant, Installed, UnderWay, StreakBounded, WithinBound
  <2>3. \A r \in Runs : Good(r, run'[r])
    BY <2>1 DEF IInv
  <2>4. Owned' /\ \A r \in Runs : Alone(r)' => Watched(r)'
    BY <2>1 DEF IInv, Owned, Alone, UnderWay, Watched
  <2> QED
    BY <2>2, <2>3, <2>4 DEF IInv
<1>2. ASSUME NEW r \in Runs, Start(r) \/ RunStep(r) \/ Abort(r)
      PROVE  IInv'
  BY <1>2, StepCases, StartInvariant, MovesInvariant, LaunchInvariant, FinishInvariant
<1> QED
  BY <1>1, <1>2 DEF Next

\* A veto for lack of progress names the streak that earned it.
Earned ==
    \A r \in Runs : \A i \in DOMAIN run[r].calls :
        (/\ ~run[r].shared
         /\ run[r].calls[i].status = "todo"
         /\ run'[r].calls[i].status = "vetoed"
         /\ run'[r].calls[i].key.detector = "no_progress")
        => /\ run[r].streak.n + 1 >= CriticalThreshold
           /\ CriticalThreshold > 1 => run[r].streak.call = run[r].calls[i].call

LEMMA LaunchEarned ==
    ASSUME IInv, NEW r \in Runs, NEW I \in SUBSET (DOMAIN run[r].calls), Launch(r, I)
    PROVE  Earned
<1>1. TInv /\ Good(r, run[r]) /\ run[r].pc = "tools" /\ run \in [Runs -> RunType]
  BY DEF IInv, TInv, TypeInvariant, Launch
<1>2. PICK new \in Seq(CallState), b \in BOOLEAN :
         /\ run' = [run EXCEPT ![r] = [run[r] EXCEPT !.breaker = b, !.calls = new]]
         /\ Launched(r, I, new)
  BY <1>1, LaunchEffect
<1>3. run'[r].calls = new /\ \A q \in Runs \ {r} : run'[q] = run[q]
  BY <1>1, <1>2 DEF RunType
<1>4. ASSUME NEW i \in DOMAIN run[r].calls, ~run[r].shared, run[r].calls[i].status = "todo",
             new[i].status = "vetoed", new[i].key.detector = "no_progress"
      PROVE  /\ run[r].streak.n + 1 >= CriticalThreshold
             /\ CriticalThreshold > 1 => run[r].streak.call = run[r].calls[i].call
  <2> DEFINE c == run[r].calls[i].call
             h == tracker[r].history
  <2>1. active = r /\ Window(h, run[r].streak)
    BY <1>1, <1>4 DEF IInv, Owned, Watched, Alone, UnderWay
  <2>2. h \in Seq(Entry) /\ run[r].streak \in StreakType /\ c \in Call
    BY <1>1, CallFields DEF TInv, TypeInvariant, Tracker, RunType, StreakType
  <2>3. i \in I /\ new[i].call = c
    BY <1>2, <1>4 DEF Launched
  <2>4. /\ new[i].key = Check(tracker[r], c).key
        /\ Check(tracker[r], c).level = "critical"
    BY <1>2, <1>4, <2>1, <2>3 DEF Launched
  <2>5. Stuck(h, c)
    BY <1>4, <2>4 DEF Check, Wandering
  <2> HIDE DEF c, h
  <2>6. /\ run[r].streak.n + 1 >= CriticalThreshold
        /\ CriticalThreshold > 1 => run[r].streak.call = c
    BY <2>1, <2>2, <2>5, StuckIsStreak
  <2> QED
    BY <2>6 DEF c
<1> QED
  BY <1>3, <1>4 DEF Earned

LEMMA StepEarned == IInv /\ [Next]_vars => Earned
<1> SUFFICES ASSUME IInv, [Next]_vars PROVE Earned
  OBVIOUS
<1>1. CASE UNCHANGED vars
  BY <1>1 DEF vars, Earned
<1>2. run \in [Runs -> RunType]
  BY DEF IInv, TInv, TypeInvariant
<1>3. ASSUME NEW r \in Runs, Start(r)
      PROVE  Earned
  <2>1. run[r].calls = <<>>
    BY <1>3 DEF IInv, Good, Orderly, Start
  <2>2. \A q \in Runs \ {r} : run'[q] = [run[q] EXCEPT !.shared = @ \/ UnderWay(q)]
    BY <1>2, <1>3 DEF Start
  <2>3. \A q \in Runs \ {r} : run'[q].calls = run[q].calls
    BY <1>2, <2>2 DEF RunType
  <2> QED
    BY <2>1, <2>3 DEF Earned
<1>4. ASSUME NEW r \in Runs, Moves(r)
      PROVE  Earned
  <2>1. PICK t : Quiet(run[r], t) /\ run' = [run EXCEPT ![r] = t]
    BY <1>4 DEF Moves
  <2>2. run'[r] = t /\ \A q \in Runs \ {r} : run'[q] = run[q]
    BY <1>2, <2>1
  <2> QED
    BY <2>1, <2>2 DEF Earned, Quiet
<1>5. ASSUME NEW r \in Runs, NEW i \in DOMAIN run[r].calls, NEW ok \in BOOLEAN, Finish(r, i, ok)
      PROVE  Earned
  <2> DEFINE e == IF ok THEN "ok" ELSE "err"
             cs == run[r].calls
  <2>1. cs \in Seq(CallState) /\ cs[i].status = "running" /\ e \in Ends
    BY <1>2, <1>5 DEF RunType, Finish, Ends
  <2>2. run'[r].calls = Ended(cs, i, e) /\ \A q \in Runs \ {r} : run'[q] = run[q]
    <3> DEFINE st == [call |-> cs[i].call,
                      n |-> IF ok THEN 0
                            ELSE (IF run[r].streak.call = cs[i].call THEN run[r].streak.n ELSE 0) + 1]
    <3>1. run' = [run EXCEPT ![r] = [run[r] EXCEPT !.calls = Ended(cs, i, e), !.streak = st]]
      BY <1>2, <1>5 DEF Finish, Ended
    <3> HIDE DEF st, cs, e
    <3> QED
      BY <1>2, <3>1 DEF RunType
  <2>3. \A j \in DOMAIN cs : j # i => Ended(cs, i, e)[j] = cs[j]
    BY <2>1 DEF Ended
  <2>4. \A j \in DOMAIN cs : cs[j].status = "todo" => run'[r].calls[j] = cs[j]
    BY <2>1, <2>2, <2>3
  <2> QED
    BY <2>2, <2>4 DEF Earned
<1>6. ASSUME NEW r \in Runs, Start(r) \/ RunStep(r) \/ Abort(r)
      PROVE  Earned
  BY <1>3, <1>4, <1>5, <1>6, StepCases, LaunchEarned
<1> QED
  BY <1>1, <1>6 DEF Next

-----------------------------------------------------------------------------
THEOREM AgentLoopInductive == Spec => []IInv
<1>1. Init => IInv
  BY InitInvariant
<1>2. IInv /\ [Next]_vars => IInv'
  BY StepInvariant
<1> QED
  BY <1>1, <1>2, PTL DEF Spec

\* The runs, their records and the trackers keep their types.
THEOREM AgentLoopTypeCorrect == Spec => []TypeInvariant
<1>1. IInv => TypeInvariant
  BY DEF IInv, TInv
<1> QED
  BY <1>1, AgentLoopInductive, PTL

\* However many runs the loop object serves: a run that had its detector to itself has
\* no call fail more often in a row than the threshold allows.
THEOREM AgentLoopStreakBounded == Spec => []StreakBounded
<1>1. IInv => StreakBounded
  BY DEF IInv
<1> QED
  BY <1>1, AgentLoopInductive, PTL

\* No call is vetoed for lack of progress unless it really has failed that often.
THEOREM AgentLoopVetoIsEarned == Spec => VetoIsEarned
<1>1. IInv /\ [Next]_vars => Earned
  BY StepEarned
<1>2. IInv /\ [Next]_vars => [Earned]_vars
  BY <1>1
<1> QED
  BY <1>2, AgentLoopInductive, PTL DEF Spec, VetoIsEarned, Earned

\* However the loop returns, it has tried to save what it returns.
THEOREM AgentLoopReturnedIsSaved == Spec => []ReturnedIsSaved
<1>1. IInv => ReturnedIsSaved
  BY DEF IInv, Good, Kept, ReturnedIsSaved
<1> QED
  BY <1>1, AgentLoopInductive, PTL

\* After its abort a run calls the model at most once more, or twice with its plan.
THEOREM AgentLoopAbortHeeded == Spec => []AbortHeeded
<1>1. IInv => AbortHeeded
  BY DEF IInv, Good, Heeds, AbortHeeded
<1> QED
  BY <1>1, AgentLoopInductive, PTL

\* With any limits that leave room for the ladder, giving up comes after the top.
THEOREM AgentLoopCappedAtTop == Spec => []CappedAtTop
<1>1. IInv => CappedAtTop
  BY AgentLoopAssumption DEF IInv, Good, Climbs, CappedAtTop
<1> QED
  BY <1>1, AgentLoopInductive, PTL
=============================================================================
