---------------------------- MODULE Permissions ----------------------------
(***************************************************************************)
(* A tool of a run asks the user for permission and waits for the answer:  *)
(* packages/server/src/routes/permission.ts, permission-store.ts, the hook *)
(* of packages/agent/src/permission.ts, and what executeRun does to the    *)
(* questions of a session when a run of it is over.                        *)
(*                                                                         *)
(* A question is settled by a reply, by its timeout or by a clean-up, and  *)
(* these race.  The tool calls that ask are executed one after the other,  *)
(* so a run waits for one question at a time.                              *)
(***************************************************************************)
EXTENDS RunState

CONSTANTS Requests,   \* the requestIds ever drawn
          NoRequest   \* a run that waits for no answer

ASSUME NoRequestAssumption == NoRequest \notin Requests

VARIABLES
    pending,     \* the requests in the permission store
    timers,      \* the requests whose setTimeout is armed
    asker,       \* asker[q]: the run that asked q
    awaiting,    \* awaiting[r]: the request whose promise r is suspended on
    answer,      \* answer[q]: what the promise of q resolved with
    announced,   \* announced[q]: `allowed` of each permission.resolved of q
    acked,       \* <<q, a>>: POST reply of a to q was answered resolved: true
    granted,     \* requests whose operation the hook allowed
    cleaning,    \* runs that have reported and not reached their finally block
    stopping     \* dispose() has aborted the runs and not yet cleared the store

permVars == <<pending, timers, asker, awaiting, answer, announced, acked,
              granted, cleaning, stopping>>
vars == <<runVars, permVars>>

Replies == {"yes", "always", "no"}
Cancelled == "null"
Open(q) == answer[q] = "none"

\* `allowed` in permission.resolved: only the answer "yes" makes it true.
Allowed(a) == IF a = "yes" THEN "allowed" ELSE "denied"

TypeInvariant ==
    /\ TypeOK
    /\ pending \subseteq Requests
    /\ timers \subseteq Requests
    /\ asker \in [Requests -> Runs \cup {NoRun}]
    /\ awaiting \in [Runs -> Requests \cup {NoRequest}]
    /\ answer \in [Requests -> Replies \cup {"none", Cancelled}]
    /\ announced \in [Requests -> Seq({"allowed", "denied"})]
    /\ acked \subseteq Requests \X Replies
    /\ granted \subseteq Requests
    /\ cleaning \subseteq Runs
    /\ stopping \in BOOLEAN

Init ==
    /\ RunInit
    /\ pending = {}
    /\ timers = {}
    /\ asker = [q \in Requests |-> NoRun]
    /\ awaiting = [r \in Runs |-> NoRequest]
    /\ answer = [q \in Requests |-> "none"]
    /\ announced = [q \in Requests |-> <<>>]
    /\ acked = {}
    /\ granted = {}
    /\ cleaning = {}
    /\ stopping = FALSE

-----------------------------------------------------------------------------
\* Mutant of Ask: no timer.
AskUntimed(r, q) ==
    /\ task[r] = "running"
    /\ awaiting[r] = NoRequest
    /\ asker[q] = NoRun
    /\ asker' = [asker EXCEPT ![q] = r]
    /\ awaiting' = [awaiting EXCEPT ![r] = q]
    /\ pending' = pending \cup {q}
    /\ UNCHANGED <<runVars, timers, answer, announced, acked, granted, cleaning, stopping>>

\* requestPermission(): timer armed, entry stored, the run's tool suspended.
Ask(r, q) ==
    /\ task[r] = "running"
    /\ awaiting[r] = NoRequest
    /\ asker[q] = NoRun
    /\ asker' = [asker EXCEPT ![q] = r]
    /\ awaiting' = [awaiting EXCEPT ![r] = q]
    /\ pending' = pending \cup {q}
    /\ timers' = timers \cup {q}
    /\ UNCHANGED <<runVars, answer, announced, acked, granted, cleaning, stopping>>

\* The promises of Q resolve with a, unless they already have (the timedOut flag),
\* permission.resolved is emitted, the timers are disarmed.
Settle(Q, a) ==
    LET settled == {q \in Q : Open(q)}
    IN  /\ answer' = [q \in Requests |-> IF q \in settled THEN a ELSE answer[q]]
        /\ announced' = [q \in Requests |->
                            IF q \in settled THEN Append(announced[q], Allowed(a))
                                             ELSE announced[q]]
        /\ timers' = timers \ Q
        /\ pending' = pending \ Q

\* POST /api/permission/:requestId/reply; 404 when the store does not hold q.
Reply(q, a) ==
    /\ q \in pending
    /\ Settle({q}, a)
    /\ acked' = acked \cup {<<q, a>>}
    /\ UNCHANGED <<runVars, asker, awaiting, granted, cleaning, stopping>>

\* Mutant of TimesOut: the entry stays in the store.
TimesOutListed(q) ==
    /\ q \in timers
    /\ answer' = [answer EXCEPT ![q] = Cancelled]
    /\ announced' = [announced EXCEPT ![q] = Append(@, "denied")]
    /\ timers' = timers \ {q}
    /\ UNCHANGED <<runVars, pending, asker, awaiting, acked, granted, cleaning, stopping>>

TimesOut(q) ==
    /\ q \in timers
    /\ Settle({q}, Cancelled)
    /\ UNCHANGED <<runVars, asker, awaiting, acked, granted, cleaning, stopping>>

\* Mutant of Resume: whatever is not a "no" allows.
ResumeUnlessNo(r) ==
    /\ awaiting[r] # NoRequest
    /\ ~Open(awaiting[r])
    /\ granted' = IF answer[awaiting[r]] # "no"
                  THEN granted \cup {awaiting[r]} ELSE granted
    /\ awaiting' = [awaiting EXCEPT ![r] = NoRequest]
    /\ UNCHANGED <<runVars, pending, timers, asker, answer, announced, acked,
                   cleaning, stopping>>

\* The hook goes on with the answer: yes and always allow the operation.
Resume(r) ==
    /\ awaiting[r] # NoRequest
    /\ ~Open(awaiting[r])
    /\ granted' = IF answer[awaiting[r]] \in {"yes", "always"}
                  THEN granted \cup {awaiting[r]} ELSE granted
    /\ awaiting' = [awaiting EXCEPT ![r] = NoRequest]
    /\ UNCHANGED <<runVars, pending, timers, asker, answer, announced, acked,
                   cleaning, stopping>>

-----------------------------------------------------------------------------
\* clearForSession(s): every entry of s is cancelled, whichever run asked.
QuestionsOf(s) == {q \in pending : owner[asker[q]] = s}
\* Mutant of ClearForSession: entries and timers go, the promises stay open.
ClearForSessionSilently(s) ==
    /\ pending' = pending \ QuestionsOf(s)
    /\ timers' = timers \ QuestionsOf(s)
    /\ UNCHANGED <<answer, announced>>

ClearForSession(s) == Settle(QuestionsOf(s), Cancelled)

StartRun(s, r) == Start(s, r) /\ UNCHANGED permVars

\* executeRun returns: report and finally block are one stretch without an await.
RunReturns(r) ==
    /\ awaiting[r] = NoRequest
    /\ r \notin cleaning
    /\ TaskReturned(r)
    /\ ClearForSession(owner[r])
    /\ UNCHANGED <<asker, awaiting, acked, granted, cleaning, stopping>>

\* executeRun throws: the catch block reports and awaits the session store ...
RunThrows(r) ==
    /\ awaiting[r] = NoRequest
    /\ task[r] = "running"
    /\ TaskThrew(r)
    /\ cleaning' = cleaning \cup {r}
    /\ UNCHANGED <<pending, timers, asker, awaiting, answer, announced, acked,
                   granted, stopping>>

\* ... before its finally block runs.
RunCleansUp(r) ==
    /\ r \in cleaning
    /\ cleaning' = cleaning \ {r}
    /\ ClearForSession(owner[r])
    /\ UNCHANGED <<runVars, asker, awaiting, acked, granted, stopping>>

AbortRun(s) == AbortSession(s) /\ UNCHANGED permVars

\* dispose(): abortAll, an await, then the store's clear(), which disarms the timers
\* and drops the entries without resolving their promises.
DisposeAborts ==
    /\ ~stopping
    /\ stopping' = TRUE
    /\ AbortAll
    /\ UNCHANGED <<pending, timers, asker, awaiting, answer, announced, acked,
                   granted, cleaning>>

DisposeClears ==
    /\ stopping
    /\ pending' = {}
    /\ timers' = {}
    /\ UNCHANGED <<runVars, asker, awaiting, answer, announced, acked, granted,
                   cleaning, stopping>>

\* The process ends, after dispose() or in a crash, and a new one boots.
Reboot ==
    /\ Restart
    /\ pending' = {}
    /\ timers' = {}
    /\ awaiting' = [r \in Runs |-> NoRequest]
    /\ cleaning' = {}
    /\ stopping' = FALSE
    /\ UNCHANGED <<asker, answer, announced, acked, granted>>

Next ==
    \/ \E s \in Sessions, r \in Runs : StartRun(s, r)
    \/ \E r \in Runs, q \in Requests : Ask(r, q)
    \/ \E q \in Requests, a \in Replies : Reply(q, a)
    \/ \E q \in Requests : TimesOut(q)
    \/ \E r \in Runs : Resume(r) \/ RunReturns(r) \/ RunThrows(r) \/ RunCleansUp(r)
    \/ \E s \in Sessions : AbortRun(s)
    \/ DisposeAborts
    \/ DisposeClears
    \/ Reboot

Spec == Init /\ [][Next]_vars

\* An armed timer fires, and a resolved promise resumes its awaiter.
Fairness ==
    /\ \A q \in Requests : WF_vars(TimesOut(q))
    /\ \A r \in Runs : WF_vars(Resume(r))

FairSpec == Spec /\ Fairness

-----------------------------------------------------------------------------
\* While the promise of a run is open its question is listed, can be answered, and has
\* a timer that will deny it.  Only dispose() breaks this, on its way out.
OpenIsAnswerable ==
    \A r \in Runs :
        awaiting[r] # NoRequest /\ Open(awaiting[r]) /\ ~stopping =>
            awaiting[r] \in pending /\ awaiting[r] \in timers

\* Every listed question is open, and its run is at work and suspended on it.
PendingIsAwaited ==
    \A q \in pending :
        Open(q) /\ awaiting[asker[q]] = q /\ task[asker[q]] = "running"

\* Asking and answering meet: a run that waits for the user waits for a question the
\* store lists and a timer will end, and a question the store lists is waited for, by
\* a run still at work, so that a reply to it has an effect.
QuestionIsAnswerable == OpenIsAnswerable /\ PendingIsAwaited

\* Of the reply, the timeout and the clean-ups that race for a question, one wins:
\* it is announced to the clients once, with what the promise resolved with, and a
\* reply that was acknowledged is the answer the tool got.
SettledOnce ==
    \A q \in Requests :
        /\ announced[q] = IF Open(q) THEN <<>> ELSE <<Allowed(answer[q])>>
        /\ \A a \in Replies : <<q, a>> \in acked <=> answer[q] = a

\* Silence, aborts, clean-ups and shutdowns never grant: what the hook let through
\* was allowed by an acknowledged reply.
GrantedByReply ==
    \A q \in granted : <<q, "yes">> \in acked \/ <<q, "always">> \in acked

\* A run waits for the user only so long: it goes on, or its process ends.
WaitEnds ==
    \A r \in Runs : awaiting[r] # NoRequest ~> awaiting[r] = NoRequest \/ stopping

-----------------------------------------------------------------------------
\* What agent-run.ts:161-162 says of the questions a finally block drops: that "the
\* run is over", so nobody needs their answers.
DroppedWhenOver ==
    [][\A r \in Runs : RunReturns(r) \/ RunCleansUp(r) =>
          \A q \in pending \ pending' : runs[owner[asker[q]]] # asker[q]]_vars
=============================================================================
