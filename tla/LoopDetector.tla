---------------------------- MODULE LoopDetector ----------------------------
(***************************************************************************)
(* packages/agent/src/loop-detector.ts: the ToolLoopTracker, which vetoes  *)
(* tool calls that make no progress.  A tracker is a value here; module    *)
(* AgentLoop holds the trackers and says who uses which.                   *)
(*                                                                         *)
(* An argument stands for its hash.  Counts that only word a notice are    *)
(* left out, and with them the notices.                                    *)
(***************************************************************************)
EXTENDS Naturals, Sequences, FiniteSets

CONSTANTS Tools, Args,
          Call,                 \* the tool calls a model may make
          WanderTools,          \* tools whose spread over arguments is watched
          WarningThreshold,     \* repeats of a call that warn
          CriticalThreshold,    \* failures in a row that veto
          BreakerVetoStreak,    \* vetoes of one key that trip the breaker
          HistorySize,          \* executed calls a tracker remembers
          WanderingThreshold,   \* distinct arguments that warn
          WanderingEscalation   \* distinct arguments that veto

ASSUME LoopDetectorAssumption ==
    /\ {WarningThreshold, CriticalThreshold, BreakerVetoStreak, HistorySize,
        WanderingThreshold, WanderingEscalation} \subseteq Nat \ {0}
    /\ HistorySize + 1 >= CriticalThreshold
    /\ Call \subseteq [tool : Tools, args : Args]
    /\ WanderTools \subseteq Tools

Entry == [call : Call, ok : BOOLEAN]

\* The warning keys: of a failing call, of a repeated one, of a wandering tool, and
\* the empty one of an `ok` verdict.
NoProgress(c) == [detector |-> "no_progress", call |-> c]
Repeat(c) == [detector |-> "generic_repeat", call |-> c]
Wandering(t) == [detector |-> "wandering", tool |-> t]
NoKey == [detector |-> "none"]

VetoKeys == {NoProgress(c) : c \in Call} \cup {Wandering(t) : t \in WanderTools}
Keys == VetoKeys \cup {Repeat(c) : c \in Call} \cup {NoKey}
Verdict == [level : {"ok", "warn", "critical"}, key : Keys]

Tracker == [history : Seq(Entry), vetoes : [VetoKeys -> Nat]]
NewTracker == [history |-> <<>>, vetoes |-> [k \in VetoKeys |-> 0]]

-----------------------------------------------------------------------------
\* Mutants of Stuck: a success does not end the streak, and one failure too many.
StuckDespiteSuccess(h, c) ==
    /\ Len(h) + 1 >= CriticalThreshold
    /\ \A i \in (Len(h) + 2 - CriticalThreshold) .. Len(h) : h[i].call = c

StuckTooLate(h, c) ==
    /\ Len(h) >= CriticalThreshold
    /\ \A i \in (Len(h) + 1 - CriticalThreshold) .. Len(h) : h[i] = [call |-> c, ok |-> FALSE]

\* With this call, c has failed CriticalThreshold times in a row.
Stuck(h, c) ==
    /\ Len(h) + 1 >= CriticalThreshold
    /\ \A i \in (Len(h) + 2 - CriticalThreshold) .. Len(h) : h[i] = [call |-> c, ok |-> FALSE]

\* The calls of c since its tool was last called with other arguments.
Repeats(h, c) ==
    Cardinality({i \in DOMAIN h : h[i].call = c /\
                    \A j \in i .. Len(h) : h[j].call.tool = c.tool => h[j].call = c})

\* The arguments c.tool was given in the calls since another tool was called.
Spread(h, c) ==
    {c.args} \cup
    {h[i].call.args : i \in {i \in DOMAIN h : \A j \in i .. Len(h) : h[j].call.tool = c.tool}}

\* The verdict on a call that is about to be executed.
Check(t, c) ==
    LET h == t.history
        wanders(n) == c.tool \in WanderTools /\ Cardinality(Spread(h, c)) >= n
    IN  IF Stuck(h, c) THEN [level |-> "critical", key |-> NoProgress(c)]
        ELSE IF Repeats(h, c) + 1 >= WarningThreshold THEN [level |-> "warn", key |-> Repeat(c)]
        ELSE IF wanders(WanderingEscalation) THEN [level |-> "critical", key |-> Wandering(c.tool)]
        ELSE IF wanders(WanderingThreshold) THEN [level |-> "warn", key |-> Wandering(c.tool)]
        ELSE [level |-> "ok", key |-> NoKey]

\* The outcome of an executed call; the oldest one is forgotten when there are too many.
Record(t, c, ok) ==
    LET h == Append(t.history, [call |-> c, ok |-> ok])
    IN  [t EXCEPT !.history = IF Len(h) > HistorySize THEN Tail(h) ELSE h]

\* n[k] vetoes under each key k are registered; the breaker trips when one of them
\* makes its streak long enough.
RegisterVetoes(t, n) == [t EXCEPT !.vetoes = [k \in VetoKeys |-> t.vetoes[k] + n[k]]]
Trips(t, n) == \E k \in VetoKeys : n[k] > 0 /\ t.vetoes[k] + n[k] >= BreakerVetoStreak

\* A success forgets the vetoes under the key of the verdict it was let through with.
ClearVetoes(t, key) ==
    IF key \in VetoKeys THEN [t EXCEPT !.vetoes[key] = 0] ELSE t
=============================================================================
