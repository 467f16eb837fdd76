------------------------------ MODULE LlmCall -------------------------------
(***************************************************************************)
(* One call of a model: callLLM(), completeWithStream() and                *)
(* withStreamWatchdog() of packages/agent/src/loop.ts over the clients of  *)
(* packages/llm/src (anthropic-, gemini- and vercel-adapter.ts), or over a *)
(* client that is an object of functions, as deps.llm may be: "object",    *)
(* or "whole" if it has no completeStream.                                 *)
(*                                                                         *)
(* A caller is "loop" (callLLM), "stream" (completeStream() called on its  *)
(* client) or "complete" (complete(), as the compressor calls it).  What a *)
(* provider sends is a sequence of text and tool calls; it may break off,  *)
(* fail, or fall silent.  Failures are what classifyFailure makes of them: *)
(* transient (retried) or fatal.                                           *)
(***************************************************************************)
EXTENDS Integers, Sequences, SequencesExt

CONSTANTS LoopRetries,      \* llmRetries
          AdapterRetries,   \* maxRetries of an adapter
          MaxChunks,        \* bound on what a provider sends to one request
          NoError

ASSUME LlmCallAssumption ==
    /\ {LoopRetries, AdapterRetries, MaxChunks} \subseteq Nat
    /\ NoError \notin {"transient", "fatal"}

VARIABLES
    client,     \* the class of the client
    caller,
    llm         \* the call: see LlmType

llmVars == <<client, caller, llm>>

Adapters == {"anthropic", "gemini", "vercel"}
LlmClients == Adapters \cup {"object", "whole"}
LlmCallers == {"loop", "stream", "complete"}

\* A tool call comes in the place `index` of its event; its arguments may be missing or
\* cut off.
Chunk == [kind : {"text"}] \cup
         [kind : {"call"}, index : {0, 1}, args : {"whole", "none", "broken"}]
Errors == {"transient", "fatal"}
Place == [request : Nat, at : Nat]      \* a chunk, by the request that brought it

LlmType ==
    [ pc : {"start", "asking", "streaming", "returning", "failed", "over"},
      attempt : Nat,            \* of callLLM
      inner : Nat,              \* of the adapter
      requests : Nat,           \* made so far
      sent : Seq(Chunk),        \* what the provider has sent to the last request
      kept : Seq(Place),        \* what completeWithStream has accumulated
      yielded : BOOLEAN,        \* yieldedChunks
      silent : BOOLEAN,         \* the source will not settle any more
      error : Errors \cup {NoError},
      burnt : BOOLEAN,          \* history: a fatal failure was met
      answer : {"none", "response", "error"} ]

LlmIdle(pc) ==
    llm = [pc |-> pc, attempt |-> 0, inner |-> 0, requests |-> 0, sent |-> <<>>,
           kept |-> <<>>, yielded |-> FALSE, silent |-> FALSE, error |-> NoError,
           burnt |-> FALSE, answer |-> "none"]

LlmInit ==
    /\ client \in LlmClients
    /\ caller \in LlmCallers
    /\ client = "whole" => caller # "stream"
    /\ LlmIdle("start")

Same == UNCHANGED <<client, caller>>
Streams == caller # "complete" /\ client # "whole"

-----------------------------------------------------------------------------
\* Mutant of Attempt: the accumulators outlive the attempt.
AttemptKeeps(c) == [c EXCEPT !.pc = "asking", !.yielded = FALSE, !.sent = <<>>, !.inner = 0]

\* completeWithStream starts from nothing.
Attempt(c) == [c EXCEPT !.pc = "asking", !.yielded = FALSE, !.sent = <<>>, !.inner = 0,
                        !.kept = <<>>]

Failed(c, e) == [c EXCEPT !.pc = "failed", !.error = e, !.silent = FALSE,
                          !.burnt = @ \/ e = "fatal"]

\* callLLM takes completeStream off its client and calls it: an adapter, whose method
\* reads its fields, throws a TypeError, which is of no category that is retried.
LlmBegin ==
    /\ llm.pc = "start"
    /\ llm' = IF caller = "loop" /\ client \in Adapters THEN Failed(llm, "fatal")
                                                        ELSE Attempt(llm)
    /\ Same

\* The request is sent.
LlmAsk ==
    /\ llm.pc = "asking"
    /\ llm' = [llm EXCEPT !.pc = "streaming", !.requests = @ + 1, !.sent = <<>>]
    /\ Same

\* What an adapter hands over at once.  Anthropic joins the arguments of a call and drops
\* the call when there are none or they do not parse; Gemini keeps its calls for the end;
\* Vercel's stream and an object's hand over everything.
AnthropicPasses(k) == k.kind = "text" \/ k.args = "whole"
GeminiPasses(k) == k.kind = "text"
Passes(k) == CASE client = "anthropic" -> AnthropicPasses(k)
               [] client = "gemini" -> GeminiPasses(k)
               [] OTHER -> TRUE

\* Gemini keeps its calls by their place in the event that brought them, and hands them over
\* in the order in which the places came up: the next event's call takes its place.
This(i) == [request |-> llm.requests, at |-> i]
CallsAt(n) == {i \in DOMAIN llm.sent : llm.sent[i].kind = "call" /\ llm.sent[i].index = n}
Held(n) == IF CallsAt(n) = {} THEN <<>> ELSE <<This(Max(CallsAt(n)))>>
CameFirst(m, n) == \E i \in CallsAt(m) : \A j \in CallsAt(n) : i < j
HeldCalls ==
    IF client = "gemini" /\ Streams
    THEN IF CameFirst(1, 0) THEN Held(1) \o Held(0) ELSE Held(0) \o Held(1)
    ELSE <<>>

\* The next chunk of the stream, through the adapter and the watchdog to the accumulator.
LlmChunk ==
    /\ Streams
    /\ llm.pc = "streaming" /\ ~llm.silent
    /\ Len(llm.sent) < MaxChunks
    /\ \E k \in Chunk :
          llm' = [llm EXCEPT !.sent = Append(@, k),
                             !.yielded = @ \/ Passes(k),
                             !.kept = IF Passes(k) THEN Append(@, This(Len(llm.sent) + 1))
                                                   ELSE @]
    /\ Same

\* The stream is at its end, which may be where the connection was cut.  (complete()
\* reads a whole body, and takes the calls of it as they are.)
LlmDone ==
    /\ llm.pc = "streaming" /\ ~llm.silent
    /\ llm' = [llm EXCEPT !.pc = "over", !.answer = "response",
                          !.kept = @ \o HeldCalls]
    /\ Same

-----------------------------------------------------------------------------
\* Whether the adapter asks again by itself.  complete() of Anthropic and Gemini throws
\* fatal errors inside the try whose catch goes on to the next attempt, and their streams
\* are asked for once.  Vercel's stream is asked for again while nothing of it has been
\* handed over.
AnthropicRetries == client = "anthropic" /\ ~Streams
GeminiRetries == client = "gemini" /\ ~Streams
VercelRetries(e) == client = "vercel" /\ e = "transient" /\ (Streams => ~llm.yielded)
InnerRetry(e) ==
    /\ llm.inner < AdapterRetries
    /\ AnthropicRetries \/ GeminiRetries \/ VercelRetries(e)

Broken(e) == IF InnerRetry(e)
             THEN [llm EXCEPT !.pc = "asking", !.inner = @ + 1, !.silent = FALSE,
                              !.burnt = @ \/ e = "fatal"]
             ELSE Failed(llm, e)

\* The provider answers with an error status, or the connection breaks with an error.
LlmFails(e) ==
    /\ llm.pc = "streaming" /\ ~llm.silent
    /\ llm' = Broken(e)
    /\ Same

MayRetry(c) == caller = "loop" /\ c.attempt < LoopRetries /\ c.error = "transient"

\* callLLM's catch: backoff and another attempt, or save the session and throw.
LlmCatch ==
    /\ llm.pc = "failed"
    /\ llm' = IF MayRetry(llm) THEN Attempt([llm EXCEPT !.attempt = @ + 1, !.error = NoError])
                               ELSE [llm EXCEPT !.pc = "over", !.answer = "error"]
    /\ Same

\* The provider falls silent, and its connection stays open.
LlmSilence ==
    /\ llm.pc = "streaming" /\ ~llm.silent
    /\ llm' = [llm EXCEPT !.silent = TRUE]
    /\ Same

\* The watchdog's idle or overall timer: it leaves its loop, and awaits the source's
\* return() before it throws.
LlmDeadline ==
    /\ caller = "loop" /\ Streams
    /\ llm.pc = "streaming"
    /\ llm' = [llm EXCEPT !.pc = "returning"]
    /\ Same

\* Mutant of LlmReturned: the watchdog goes back to reading.
ReturnedReads ==
    /\ llm.pc = "returning"
    /\ ~llm.silent
    /\ llm' = [llm EXCEPT !.pc = "streaming"]
    /\ Same

\* return() of an async generator waits for the next() that is under way; when that
\* settles, the timeout is thrown.
LlmReturned ==
    /\ llm.pc = "returning"
    /\ ~llm.silent
    /\ llm' = Failed(llm, "transient")
    /\ Same

\* A silent connection breaks after all.
LlmSettles ==
    /\ llm.silent
    /\ llm' = IF llm.pc = "returning" THEN [llm EXCEPT !.silent = FALSE]
                                      ELSE Broken("transient")
    /\ Same

LlmNext ==
    \/ LlmBegin \/ LlmAsk \/ LlmChunk \/ LlmDone \/ LlmCatch
    \/ LlmSilence \/ LlmDeadline \/ LlmReturned \/ LlmSettles
    \/ \E e \in Errors : LlmFails(e)

LlmSpec == LlmInit /\ [][LlmNext]_llmVars

\* The loop and its timers run; a provider answers, fails or falls silent.
LlmFairness ==
    /\ WF_llmVars(LlmBegin) /\ WF_llmVars(LlmAsk) /\ WF_llmVars(LlmCatch)
    /\ WF_llmVars(LlmDeadline) /\ WF_llmVars(LlmReturned)
    /\ WF_llmVars(LlmDone \/ LlmSilence \/ \E e \in Errors : LlmFails(e))

LlmFairSpec == LlmSpec /\ LlmFairness

-----------------------------------------------------------------------------
LlmTypeInvariant == client \in LlmClients /\ caller \in LlmCallers /\ llm \in LlmType

\* A response is what the provider sent to the last request, each thing once, and nothing
\* that an attempt sent which failed half-way, however the two retry loops nest.  It lacks
\* only calls without whole arguments, and with Gemini those whose place in its event a
\* later call takes.
AnswerIsOfOneRequest ==
    llm.answer = "response" /\ Streams =>
        /\ IsInjective(llm.kept)
        /\ \A p \in Range(llm.kept) : p.request = llm.requests
        /\ \A i \in DOMAIN llm.sent :
              \/ This(i) \in Range(llm.kept)
              \/ llm.sent[i].kind = "call" /\ llm.sent[i].args # "whole"
              \/ client = "gemini" /\ \E n \in {0, 1} : \E j \in CallsAt(n) : i \in CallsAt(n) /\ i < j

\* A failure that is not transient is met once: no retry of the loop or of an adapter
\* follows it, except by complete() of Anthropic and Gemini.
FatalIsFinal ==
    [][llm.burnt /\ (Streams \/ client \notin {"anthropic", "gemini"})
       => llm'.requests = llm.requests]_llmVars

\* The two retry loops multiply, and no further.
RequestsBounded == llm.requests <= (LoopRetries + 1) * (AdapterRetries + 1)

\* Every call of the loop ends, unless the provider stays silent for ever.
CallReturns == (caller = "loop") ~> (llm.pc = "over" \/ [](llm.silent))

\* What loop.ts:1293 says of the watchdog: it stops this consumer from hanging for ever.
WatchdogReleases == (caller = "loop") ~> (llm.pc = "over")

\* What loop.ts:726 and types.ts:106 take for granted: a client with completeStream can be
\* streamed by the loop, so that its call reaches the provider.
StreamReachesProvider == llm.answer # "none" => llm.requests > 0
=============================================================================
