--------------------------- MODULE PromptAndWait ----------------------------
(***************************************************************************)
(* packages/client/src/client.ts: promptAndWait, which starts a run,       *)
(* subscribes to its session and returns the first end of a run it hears   *)
(* of, beside clients that only subscribe.                                 *)
(***************************************************************************)
EXTENDS EventStream

VARIABLE wait   \* wait[c]: the call of promptAndWait that c's stream belongs to

vars == <<runVars, busVars, wait>>

NoWait == [pc |-> "none", run |-> NoRun, result |-> NoRun]

TypeInvariant ==
    /\ TypeOK
    /\ counter \in Nat
    /\ ring \in [Scopes -> Seq(BusEvent)]
    /\ \A x \in Scopes : Len(ring[x]) <= Capacity(x)
    /\ stream \in [Clients -> StreamType]
    /\ drops \in 0 .. MaxDrops
    /\ epoch \in 0 .. MaxDrops
    /\ wait \in [Clients -> [pc : {"none", "posted", "connecting", "polling", "returned", "threw"},
                             run : Runs \cup {NoRun}, result : Runs \cup {NoRun}]]

Init == RunInit /\ BusInit /\ wait = [c \in Clients |-> NoWait]

\* The POST is served: the run starts.
Post(c, r) ==
    /\ wait[c].pc = "none"
    /\ stream[c].phase = "unopened"
    /\ ScopeOf[c] # All
    /\ StartRun(ScopeOf[c], r)
    /\ wait' = [wait EXCEPT ![c].pc = "posted", ![c].run = r]

\* Its answer, status "running", arrives: subscribeToSession.
Subscribe(c) ==
    /\ wait[c].pc = "posted"
    /\ Open(c)
    /\ wait' = [wait EXCEPT ![c].pc = "connecting"]

\* await handle.ready, outside the try: when it rejects, the stream stays open.
ReadySettles(c) ==
    /\ wait[c].pc = "connecting"
    /\ stream[c].ready # "pending"
    /\ wait' = [wait EXCEPT ![c].pc = IF stream[c].ready = "resolved" THEN "polling" ELSE "threw"]
    /\ UNCHANGED <<runVars, busVars>>

CloseStream(c) ==
    /\ stream' = [stream EXCEPT ![c] = Closed(@)]
    /\ UNCHANGED <<counter, ring, drops, epoch, runVars>>

\* Mutant of IsEnd: any event of a run will do.
IsEndAny(f) == f # Bootstrap /\ f.body # NoBody

IsEnd(f) == f # Bootstrap /\ f.body # NoBody /\ f.body.kind \in Verdicts
Ends(c) == {i \in DOMAIN stream[c].got : IsEnd(stream[c].got[i])}

\* Every 25 ms: the first end among the events so far is the result.
Poll(c) ==
    /\ wait[c].pc = "polling"
    /\ Ends(c) # {}
    /\ wait' = [wait EXCEPT ![c].pc = "returned",
                             ![c].result = stream[c].got[Min(Ends(c))].body.run]
    /\ CloseStream(c)

Deadline(c) ==
    /\ wait[c].pc = "polling"
    /\ Ends(c) = {}
    /\ wait' = [wait EXCEPT ![c].pc = "threw"]
    /\ CloseStream(c)

\* A client without promptAndWait opens and closes its stream as it likes.
OpenAlone(c) == wait[c].pc = "none" /\ Open(c) /\ UNCHANGED wait
CloseAlone(c) ==
    /\ wait[c].pc = "none"
    /\ stream[c].phase \notin {"unopened", "closed"}
    /\ CloseStream(c)
    /\ UNCHANGED wait

WaitStep(c) == Subscribe(c) \/ ReadySettles(c) \/ Poll(c)

Next ==
    \/ TableStep /\ UNCHANGED wait
    \/ \E c \in Clients :
          \/ (ClientStep(c) \/ Lose(c) \/ ConnectTimeout(c)) /\ UNCHANGED wait
          \/ \E r \in Runs : Post(c, r)
          \/ WaitStep(c) \/ Deadline(c) \/ OpenAlone(c) \/ CloseAlone(c)

Spec == Init /\ [][Next]_vars

\* Requests are answered, frames on a connection that holds arrive, timers fire, promises
\* resume their awaiters.  Nothing is assumed of runs, users or deadlines.
FairSpec ==
    /\ Spec
    /\ \A c \in Clients : /\ WF_vars(ClientStep(c) /\ UNCHANGED wait)
                          /\ WF_vars(WaitStep(c))

-----------------------------------------------------------------------------
\* A client whose stream stays open catches up: in the end it has read whatever its ring
\* holds, however often connections were lost and the server restarted (unless it came
\* back with a number of an earlier process).
CaughtUp(c) ==
    \/ stream[c].phase \in {"unopened", "closed"}
    \/ stream[c].stale
    \/ Range(ring[ScopeOf[c]]) \subseteq Range(stream[c].got)

CatchesUp == \A c \in Clients : <>[]CaughtUp(c)

-----------------------------------------------------------------------------
\* What promptAndWait reports is true: it may be of another run than its own (OwnResult),
\* but it is of a run of its session, and that run really ended as it says, whatever took
\* the session over, replayed its events or restarted since.
ReportIsTrue ==
    \A c \in Clients :
        wait[c].pc = "returned" =>
            LET e == stream[c].got[Min(Ends(c))].body
            IN  /\ e.run = wait[c].result
                /\ owner[e.run] = ScopeOf[c]
                /\ outcome[e.run] = e.kind

-----------------------------------------------------------------------------
\* What client.ts:264-265 says: the result of promptAndWait is that of the run it started.
OwnResult == \A c \in Clients : wait[c].pc = "returned" => wait[c].result = wait[c].run
=============================================================================
