---------------------------- MODULE EventStream -----------------------------
(***************************************************************************)
(* How a client hears of the runs: packages/server/src/bus.ts and          *)
(* event-replay.ts (ids and rings), routes/event.ts (the SSE response) and *)
(* packages/client/src/sse.ts (openEventStream, which reconnects).         *)
(*                                                                         *)
(* The events of the bus are those of the run table (RunState) and others, *)
(* which only take up room.  A frame is the event it carries.  The network *)
(* loses connections, never frames in the middle of one; a response whose  *)
(* buffer is full is destroyed by the route, which is such a loss.  What a *)
(* broken connection had under way arrives up to some frame.               *)
(***************************************************************************)
EXTENDS RunState, SequencesExt

CONSTANTS Clients,          \* the streams that are ever opened
          All,              \* the scope of the global stream
          ScopeOf,          \* ScopeOf[c]: the session c subscribes to, or All
          GlobalCapacity,   \* events the rings hold
          SessionCapacity,
          NoId,             \* no Last-Event-ID
          Bootstrap,        \* the frame a connection starts its live part with
          NoBody,           \* an event that is not about a run
          MaxOthers,        \* bound: none of them once there are that many events
          MaxDrops          \* bound on connections lost and restarts of the server

BusEvent == [seq : Nat, epoch : Nat, session : Sessions, body : RunEvent \cup {NoBody}]

ASSUME EventStreamAssumption ==
    /\ IsFiniteSet(Sessions)
    /\ All \notin Sessions
    /\ Bootstrap \notin BusEvent /\ NoId \notin BusEvent \cup {Bootstrap}
    /\ ScopeOf \in [Clients -> Sessions \cup {All}]
    /\ {GlobalCapacity, SessionCapacity} \subseteq Nat \ {0}
    /\ {MaxOthers, MaxDrops} \subseteq Nat

VARIABLES
    counter,    \* eventCounter: the id of the last event
    ring,       \* ring[x]: what the replay buffer holds for the scope x
    stream,     \* stream[c]: both ends of what openEventStream opened
    drops,      \* connections lost and restarts so far
    epoch       \* history: lives of the server process so far

busVars == <<counter, ring, stream, drops, epoch>>

Scopes == Sessions \cup {All}
Frame == BusEvent \cup {Bootstrap}

StreamType ==
    [ phase : {"unopened", "fetching", "open", "waiting", "closed"},
      lastId : Frame \cup {NoId},   \* currentLastEventId, as the event it is of
      sub : BOOLEAN,                \* the response is subscribed to the bus
      up : BOOLEAN,                 \* the connection has not been lost
      wire : Seq(Frame),            \* written to it and not yet read
      ready : {"pending", "resolved", "rejected"},
      settled : BOOLEAN,            \* readySettled
      got : Seq(Frame),             \* history: what onEvent was called with
      stale : BOOLEAN ]             \* history: resumed after an id of an earlier process

Unopened == [phase |-> "unopened", lastId |-> NoId, sub |-> FALSE, up |-> FALSE,
             wire |-> <<>>, ready |-> "pending", settled |-> FALSE, got |-> <<>>,
             stale |-> FALSE]

BusInit ==
    /\ counter = 0
    /\ ring = [x \in Scopes |-> <<>>]
    /\ stream = [c \in Clients |-> Unopened]
    /\ drops = 0
    /\ epoch = 0

-----------------------------------------------------------------------------
\* The last n entries of a sequence: pushRing.
Tailing(es, n) == IF Len(es) > n THEN SubSeq(es, Len(es) - n + 1, Len(es)) ELSE es
Capacity(x) == IF x = All THEN GlobalCapacity ELSE SessionCapacity

InScope(e, x) == x = All \/ e.session = x

\* The entries of a sequence that are in a set, in their order: filter().
Filter(es, T) ==
    LET kept[i \in 0 .. Len(es)] ==
            IF i = 0 THEN <<>>
            ELSE IF es[i] \in T THEN Append(kept[i - 1], es[i])
            ELSE kept[i - 1]
    IN  kept[Len(es)]

\* The bus emits news, a sequence of [session, body]: each event gets the next id, goes
\* into the rings and to the responses that are subscribed.
Publish(news) ==
    LET es == [i \in DOMAIN news |->
                  [seq |-> counter + i, epoch |-> epoch,
                   session |-> news[i].session, body |-> news[i].body]]
        of(x) == Filter(es, {e \in Range(es) : InScope(e, x)})
    IN  /\ counter' = counter + Len(news)
        /\ ring' = [x \in Scopes |-> Tailing(ring[x] \o of(x), Capacity(x))]
        /\ stream' = [c \in Clients |->
              IF stream[c].sub THEN [stream[c] EXCEPT !.wire = @ \o of(ScopeOf[c])]
                               ELSE stream[c]]
        /\ UNCHANGED <<drops, epoch>>

\* The run events a step of the table has added to those of s.
News(s) == [i \in 1 .. Len(events'[s]) - Len(events[s]) |->
               [session |-> s, body |-> events'[s][Len(events[s]) + i]]]

StartRun(s, r) == Start(s, r) /\ Publish(News(s))
RunReturns(r) == TaskReturned(r) /\ Publish(News(owner[r]))
RunThrows(r) == TaskThrew(r) /\ Publish(News(owner[r]))
AbortRun(s) == AbortSession(s) /\ Publish(News(s))
AbortRuns ==
    /\ AbortAll
    /\ \E order \in SetToSeqs({s \in Sessions : runs[s] # NoRun}) :
          Publish([i \in DOMAIN order |->
                      [session |-> order[i], body |-> Event("aborted", runs[order[i]])]])

\* An event of another kind.
Other(s) ==
    /\ counter < MaxOthers
    /\ Publish(<<[session |-> s, body |-> NoBody]>>)
    /\ UNCHANGED runVars

-----------------------------------------------------------------------------
\* openEventStream: the first request, and the timeout of `ready`.
Open(c) ==
    /\ stream[c].phase = "unopened"
    /\ stream' = [stream EXCEPT ![c].phase = "fetching", ![c].up = TRUE]
    /\ UNCHANGED <<counter, ring, drops, epoch, runVars>>

\* parseEventSeq: what is not of the form evt-<number> counts as 0.
EventSeq(id) == IF id \in {NoId, Bootstrap} THEN 0 ELSE id.seq

\* The entries of a ring behind number n.
After(x, n) == Filter(ring[x], {e \in Range(ring[x]) : e.seq > n})

\* Mutants of Replay: the event of the id again; the ring without its next event.
ReplayInclusive(x, id) == IF id = NoId THEN ring[x] ELSE After(x, EventSeq(id) - 1)
ReplayOther(x, id) == IF id = NoId THEN ring[x] ELSE After(x, EventSeq(id) + 1)

Replay(x, id) == IF id = NoId THEN ring[x] ELSE After(x, EventSeq(id))

\* The route: replay, the bootstrap frame, and the subscription, without an await between.
Serve(c) ==
    LET id == stream[c].lastId
        old == id \notin {NoId, Bootstrap} /\ (stream[c].stale \/ id.epoch < epoch)
    IN  /\ stream[c].phase = "fetching" /\ stream[c].up /\ ~stream[c].sub
        /\ stream' = [stream EXCEPT
              ![c].wire = Append(Replay(ScopeOf[c], id), Bootstrap),
              ![c].sub = TRUE,
              ![c].stale = old]
        /\ UNCHANGED <<counter, ring, drops, epoch, runVars>>

\* The response headers arrive.
Connected(c) ==
    /\ stream[c].phase = "fetching"
    /\ stream[c].sub
    /\ stream' = [stream EXCEPT
          ![c].phase = "open",
          ![c].ready = IF stream[c].settled THEN @ ELSE "resolved",
          ![c].settled = TRUE]
    /\ UNCHANGED <<counter, ring, drops, epoch, runVars>>

\* A whole frame is read: its id is kept and onEvent called.
Receive(c) ==
    /\ stream[c].phase = "open"
    /\ stream[c].wire # <<>>
    /\ LET f == Head(stream[c].wire)
       IN  stream' = [stream EXCEPT ![c].wire = Tail(@), ![c].lastId = f,
                                    ![c].got = Append(@, f)]
    /\ UNCHANGED <<counter, ring, drops, epoch, runVars>>

\* A connection is lost, or the route destroys the response because a write finds its
\* buffer full: the subscription goes, and some of what is under way.
Lose(c) ==
    /\ stream[c].up
    /\ drops < MaxDrops
    /\ drops' = drops + 1
    /\ \E n \in 0 .. Len(stream[c].wire) :
          stream' = [stream EXCEPT ![c].up = FALSE, ![c].sub = FALSE,
                                   ![c].wire = SubSeq(@, 1, n)]
    /\ UNCHANGED <<counter, ring, epoch, runVars>>

\* Mutant of Retry: the end of a connection goes unnoticed.
RetryNot(s) == [s EXCEPT !.up = FALSE, !.sub = FALSE, !.wire = <<>>]

\* A reconnect is scheduled.
Retry(s) == [s EXCEPT !.phase = "waiting", !.up = FALSE, !.sub = FALSE, !.wire = <<>>]

\* fetch rejects (no server, an error status, a connection lost before the headers): if
\* that is the first thing to happen, `ready` counts as settled, and is not.
FetchFails(c) ==
    /\ stream[c].phase = "fetching"
    /\ ~stream[c].up
    /\ stream' = [stream EXCEPT ![c] = [Retry(@) EXCEPT !.settled = TRUE]]
    /\ UNCHANGED <<counter, ring, drops, epoch, runVars>>

\* The pump comes to the end of a lost connection.
PumpEnds(c) ==
    /\ stream[c].phase = "open"
    /\ ~stream[c].up
    /\ stream[c].wire = <<>>
    /\ stream' = [stream EXCEPT ![c] = Retry(@)]
    /\ UNCHANGED <<counter, ring, drops, epoch, runVars>>

\* The delay is over.
Reconnect(c) ==
    /\ stream[c].phase = "waiting"
    /\ stream' = [stream EXCEPT ![c].phase = "fetching", ![c].up = TRUE]
    /\ UNCHANGED <<counter, ring, drops, epoch, runVars>>

\* The timeout of `ready`: the request is given up, which is a failure of fetch.
ConnectTimeout(c) ==
    /\ stream[c].phase = "fetching"
    /\ ~stream[c].settled
    /\ stream' = [stream EXCEPT ![c] = [Retry(@) EXCEPT !.settled = TRUE, !.ready = "rejected"]]
    /\ UNCHANGED <<counter, ring, drops, epoch, runVars>>

Closed(s) == [s EXCEPT !.phase = "closed", !.up = FALSE, !.sub = FALSE, !.wire = <<>>]

\* The server stops and another one boots: new ids, empty rings, no connections.
ServerRestarts ==
    /\ drops < MaxDrops
    /\ drops' = drops + 1
    /\ Restart
    /\ epoch' = epoch + 1
    /\ counter' = 0
    /\ ring' = [x \in Scopes |-> <<>>]
    /\ stream' = [c \in Clients |-> [stream[c] EXCEPT !.up = FALSE, !.sub = FALSE]]

TableStep ==
    \/ \E s \in Sessions, r \in Runs : StartRun(s, r)
    \/ \E r \in Runs : RunReturns(r) \/ RunThrows(r)
    \/ \E s \in Sessions : AbortRun(s) \/ Other(s)
    \/ AbortRuns
    \/ ServerRestarts

ClientStep(c) ==
    Serve(c) \/ Connected(c) \/ Receive(c) \/ FetchFails(c) \/ PumpEnds(c) \/ Reconnect(c)

-----------------------------------------------------------------------------
\* A resumed stream misses nothing the rings still held: while a response is subscribed,
\* every event in the ring of its scope has been read by the client or is on its way.
\* It does not hold of a client that resumed with an id of an earlier process, whose
\* numbers the new process gives out again.
ResumeIsComplete ==
    \A c \in Clients :
        stream[c].sub /\ ~stream[c].stale =>
            Range(ring[ScopeOf[c]]) \subseteq Range(stream[c].got) \cup Range(stream[c].wire)

\* What onEvent is told between two bootstrap frames ascends: no event of a process comes
\* twice or out of its order, although it may be in the replay, on a lost connection and
\* in the live part of the next one.  (After a bootstrap frame it may come again: the
\* client keeps its id, and resumes from it as from nothing.)
Ascends ==
    \A c \in Clients : LET got == stream[c].got IN
        \A i \in 1 .. Len(got) - 1 :
            (Bootstrap \notin {got[i], got[i + 1]} /\ got[i].epoch = got[i + 1].epoch)
            => got[i].seq < got[i + 1].seq
=============================================================================
