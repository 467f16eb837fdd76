----------------------------- MODULE Transcript -----------------------------
(***************************************************************************)
(* The messages of a session as a value: what the agent loop appends to    *)
(* them (packages/agent/src/loop.ts), what the context optimiser takes     *)
(* away (packages/context/src/coe.ts, packages/agent/src/compactor.ts) and *)
(* what the session manager's edits make of them                           *)
(* (packages/server/src/session-manager.ts).                               *)
(*                                                                         *)
(* A message is [id, role, results, ver].  An assistant message that asks  *)
(* for tools has role "call" and counts the results that the loop gave it  *)
(* (a call of an unknown tool gets none); "text" is any other assistant    *)
(* message.  ver is 1 once a user has edited the content.                  *)
(* Sizes are in messages: every message weighs one token.                  *)
(***************************************************************************)
EXTENDS Integers, FiniteSets, SequencesExt

CONSTANTS CompressMin,      \* minMessages of the compressor
          CompressTail,     \* the messages it leaves alone
          PreservedTail     \* the messages COE means to keep

ASSUME TranscriptAssumption == {CompressMin, CompressTail, PreservedTail} \subseteq Nat

Roles == {"system", "user", "call", "text", "tool"}
Fresh(n) == <<"m", n>>      \* an id that a clock, a provider or randomUUID makes
UserQuery == <<"user-query", 0>>
Step(n) == <<"step", n>>    \* msg-assistant-step-<length of the transcript>

Ids == {"m", "user-query", "step"} \X Nat
Messages == [id : Ids, role : Roles, results : Nat, ver : 0 .. 1]
Message(id, role, results) == [id |-> id, role |-> role, results |-> results, ver |-> 0]

-----------------------------------------------------------------------------
\* Mutant of Primed: the query is added to any transcript.
PrimedAlways(ms) == Append(ms, Message(UserQuery, "user", 0))

\* primeSession: the query becomes a message only if there is none yet.
Primed(ms) == IF ms = <<>> THEN <<Message(UserQuery, "user", 0)>> ELSE ms

\* executeToolCalls and collectResults: the request, then a result for each call of a known
\* tool, in the order of the request.
WithStep(ms, ids) ==
    Append(ms, Message(Step(Len(ms)), "call", Len(ids)))
        \o [i \in DOMAIN ids |-> Message(ids[i], "tool", 0)]

WithText(ms, id) == Append(ms, Message(id, "text", 0))

-----------------------------------------------------------------------------
Head0(ms) == IF ms # <<>> /\ ms[1].role = "system" THEN 1 ELSE 0
Tail0(ms) == IF PreservedTail <= Len(ms) - Head0(ms) THEN PreservedTail ELSE Len(ms) - Head0(ms)

\* findMessageGroup: a request and the results behind it are one group, results without a
\* request another, and every other message is one by itself.  Whether one begins at k.
GroupBegins(ms, k) ==
    \/ k \in {Head0(ms) + 1, Len(ms) + 1}
    \/ ms[k].role # "tool"
    \/ ms[k - 1].role \notin {"call", "tool"}

\* Pass 4 drops the first group behind the system message until the budget is met, or no
\* more than head and tail are left: what is left begins with the first group from which on
\* there is room.  (A system message stands nowhere but at the front.)
Cut(ms, budget) ==
    LET left(k) == Head0(ms) + Len(ms) + 1 - k
    IN  Min({k \in Head0(ms) + 1 .. Len(ms) + 1 :
               /\ GroupBegins(ms, k)
               /\ left(k) <= budget \/ left(k) <= Head0(ms) + Tail0(ms)})

DropGroups(ms, budget) == SubSeq(ms, 1, Head0(ms)) \o SubSeq(ms, Cut(ms, budget), Len(ms))

\* createSummarizingCompressor with a model that answers: all but the last few of what it
\* is given become one user message.
Summarized(ms, id) ==
    IF Len(ms) <= CompressMin + CompressTail THEN ms
    ELSE <<Message(id, "user", 0)>> \o SubSeq(ms, Len(ms) - CompressTail + 1, Len(ms))

\* Pass 3: the compressor gets what lies between head and tail.
Compress(ms, id) ==
    LET h == Head0(ms)
        e == Len(ms) - Tail0(ms)
    IN  IF e > h
        THEN SubSeq(ms, 1, h) \o Summarized(SubSeq(ms, h + 1, e), id) \o SubSeq(ms, e + 1, Len(ms))
        ELSE ms

\* optimize() without and with a summary; nothing happens within the budget.
Optimized(ms, budget) == DropGroups(ms, budget)
OptimizedWith(ms, budget, id) ==
    IF Len(ms) > budget THEN DropGroups(Compress(ms, id), budget) ELSE ms

-----------------------------------------------------------------------------
\* editMessage finds the first message with the id, and takes user and assistant messages.
Editable(ms, id) ==
    {i \in DOMAIN ms : /\ ms[i].id = id
                       /\ \A j \in 1 .. i - 1 : ms[j].id # id
                       /\ ms[i].role \in {"user", "call", "text"}}

Edited(ms, id) ==
    [i \in DOMAIN ms |-> IF i \in Editable(ms, id) THEN [ms[i] EXCEPT !.ver = 1] ELSE ms[i]]

UserTurns(ms) == {i \in DOMAIN ms : ms[i].role = "user"}
LastTurn(ms) == CHOOSE i \in UserTurns(ms) : \A j \in UserTurns(ms) : j <= i

\* Mutant of Kept: one message more.
KeptAndNext(ms) == SubSeq(ms, 1, IF LastTurn(ms) < Len(ms) THEN LastTurn(ms) + 1 ELSE Len(ms))

\* retry: up to and including the last user message.
Kept(ms) == SubSeq(ms, 1, LastTurn(ms))

-----------------------------------------------------------------------------
\* Every result stands behind the request it answers, and every request still has the
\* results it got: nothing but the loop itself may take a group apart.
HasResults(ms, i) ==
    LET e == i + ms[i].results
    IN  /\ e <= Len(ms)
        /\ \A k \in i + 1 .. e : ms[k].role = "tool"
        /\ e < Len(ms) => ms[e + 1].role # "tool"

Paired(ms) ==
    /\ \A i \in DOMAIN ms : ms[i].role = "call" => HasResults(ms, i)
    /\ \A i \in DOMAIN ms :
          ms[i].role = "tool" => i > 1 /\ ms[i - 1].role \in {"tool", "call"}

DistinctIds(ms) == \A i, j \in DOMAIN ms : ms[i].id = ms[j].id => i = j
=============================================================================
