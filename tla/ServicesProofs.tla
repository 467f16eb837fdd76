--------------------------- MODULE ServicesProofs ---------------------------
(***************************************************************************)
(* What holds of the components that Services composes, for any numbers of *)
(* retries, chunks, calls, files and processes:                            *)
(*   - how often a provider is asked for one call of a model (the retry    *)
(*     loop of callLLM and that of the adapter nest), and of which request *)
(*     the answer is made;                                                 *)
(*   - what the lock of the file store does guarantee: while no live       *)
(*     holder has been robbed of its lock, it excludes and the stored      *)
(*     session is whole; and a call that meets nobody is never turned away *)
(*     by what a crash has left;                                           *)
(*   - that the language server is asked about open files only.            *)
(***************************************************************************)
EXTENDS LlmCall, FsLock, LspClient, WellFoundedInduction, TLAPS

\* Every set of natural numbers has a least one.
LEMMA Least ==
    ASSUME NEW T, T \subseteq Nat, T # {}
    PROVE  Min(T) \in T /\ \A y \in T : Min(T) <= y
<1> DEFINE R == {ss \in Nat \X Nat : ss[1] < ss[2]}
<1>1. IsWellFoundedOn(R, Nat)
  <2>1. R = OpToRel(<, Nat)
    BY Zenon DEF OpToRel
  <2> QED
    BY <2>1, NatLessThanWellFounded, Zenon
<1> HIDE DEF R
<1>2. PICK x \in T : \A y \in T : <<y, x>> \notin R
  BY <1>1, WFMin
<1>3. \A y \in T : x <= y
  <2> SUFFICES ASSUME NEW y \in T PROVE x <= y
    OBVIOUS
  <2>1. x \in Nat /\ y \in Nat
    OBVIOUS
  <2>2. ~ y < x
    BY <1>2, <2>1 DEF R
  <2> QED
    BY <2>1, <2>2
<1> QED
  BY <1>3 DEF Min

\* A bounded one has a greatest.
LEMMA Greatest ==
    ASSUME NEW n \in Nat, NEW T, T \subseteq 1 .. n, T # {}
    PROVE  Max(T) \in T /\ \A y \in T : y <= Max(T)
<1> DEFINE D == {n - t : t \in T}
<1>1. D \subseteq Nat /\ D # {}
  <2>1. PICK t \in T : TRUE
    OBVIOUS
  <2>2. n - t \in D
    OBVIOUS
  <2> QED
    BY <2>2
<1>2. PICK d \in D : \A y \in D : d <= y
  BY <1>1, Least
<1>3. PICK x \in T : d = n - x
  OBVIOUS
<1>4. ASSUME NEW y \in T PROVE y <= x
  <2>1. n - y \in D
    OBVIOUS
  <2>2. d <= n - y
    BY <1>2, <2>1
  <2> QED
    BY <1>3, <2>2
<1> QED
  BY <1>4 DEF Max

-----------------------------------------------------------------------------
\* The call of a model: how often it asks.

\* The call is a record with these fields (what it has received is left open).
Record ==
    llm = [pc |-> llm.pc, attempt |-> llm.attempt, inner |-> llm.inner,
           requests |-> llm.requests, sent |-> llm.sent, kept |-> llm.kept,
           yielded |-> llm.yielded, silent |-> llm.silent, error |-> llm.error,
           burnt |-> llm.burnt, answer |-> llm.answer]

Pcs == {"start", "asking", "streaming", "returning", "failed", "over"}

\* The two counters stay within their limits, and every request is counted by them: those
\* of the attempts before, and those of this one.
Counted ==
    /\ llm.pc \in Pcs
    /\ llm.requests \in Nat
    /\ llm.pc = "start" => llm.requests = 0
    /\ llm.attempt \in 0 .. LoopRetries
    /\ llm.inner \in 0 .. AdapterRetries
    /\ llm.requests <= llm.attempt * (AdapterRetries + 1) + llm.inner
                         + (IF llm.pc \in {"start", "asking"} THEN 0 ELSE 1)

\* An adapter that asks again after any failure.
Stubborn == ~Streams /\ client \in {"anthropic", "gemini"}

\* Where a fatal failure was met, the call is on its way out.
BurntIsOver ==
    /\ llm.burnt \in BOOLEAN
    /\ llm.burnt /\ ~Stubborn =>
          llm.pc = "over" \/ (llm.pc = "failed" /\ llm.error = "fatal")

\* Only an open stream falls silent.
SilentIsOpen == llm.silent => llm.pc \in {"streaming", "returning"}

LlmIInv == Record /\ Counted /\ BurntIsOver /\ SilentIsOpen

USE LlmCallAssumption DEF Pcs

LEMMA LlmInitInv == LlmInit => LlmIInv
BY DEF LlmInit, LlmIdle, LlmIInv, Record, Counted, BurntIsOver, SilentIsOpen

\* The next attempt of the loop has room for all requests of the one that failed.
LEMMA Room ==
    ASSUME NEW a \in Nat, NEW b \in Nat, NEW i \in 0 .. b, NEW r \in Nat,
           r <= a * (b + 1) + i + 1
    PROVE  r <= (a + 1) * (b + 1)
<1>1. (a + 1) * (b + 1) = a * (b + 1) + (b + 1)
  OBVIOUS
<1>2. a * (b + 1) \in Nat
  OBVIOUS
<1> QED
  BY <1>1, <1>2

\* A record whose counters stand as they do keeps the invariant.
LEMMA Step ==
    ASSUME LlmIInv, Record', Same, llm'.pc \in Pcs, llm'.burnt \in BOOLEAN,
           llm'.attempt = llm.attempt, llm'.inner = llm.inner, llm'.requests = llm.requests,
           llm'.pc \notin {"start", "asking"}, SilentIsOpen',
           llm'.burnt /\ ~Stubborn =>
              llm'.pc = "over" \/ (llm'.pc = "failed" /\ llm'.error = "fatal")
    PROVE  LlmIInv'
<1>1. Stubborn' = Stubborn
  BY DEF Stubborn, Streams, Same
<1> QED
  BY <1>1 DEF LlmIInv, Counted, BurntIsOver

LEMMA FailedStep ==
    ASSUME LlmIInv, NEW e \in Errors, llm' = Failed(llm, e), Same,
           llm.burnt => Stubborn
    PROVE  LlmIInv'
<1>1. /\ Record' /\ llm'.pc = "failed" /\ llm'.error = e
      /\ llm'.burnt = (llm.burnt \/ e = "fatal") /\ llm'.silent = FALSE
      /\ llm'.attempt = llm.attempt /\ llm'.inner = llm.inner /\ llm'.requests = llm.requests
  BY DEF Failed, LlmIInv, Record
<1> QED
  BY <1>1, Step DEF LlmIInv, BurntIsOver, SilentIsOpen

LEMMA BrokenStep ==
    ASSUME LlmIInv, NEW e \in Errors, llm' = Broken(e), Same,
           llm.pc = "streaming"
    PROVE  LlmIInv'
<1>1. llm.burnt => Stubborn
  BY DEF LlmIInv, BurntIsOver
<1>2. CASE ~InnerRetry(e)
  BY <1>1, <1>2, FailedStep DEF Broken
<1>3. CASE InnerRetry(e)
  <2>1. /\ Record' /\ llm'.pc = "asking" /\ llm'.burnt = (llm.burnt \/ e = "fatal")
        /\ llm'.silent = FALSE /\ llm'.attempt = llm.attempt /\ llm'.inner = llm.inner + 1
        /\ llm'.requests = llm.requests
    BY <1>3 DEF Broken, LlmIInv, Record
  <2>2. e = "fatal" => Stubborn
    BY <1>3 DEF InnerRetry, AnthropicRetries, GeminiRetries, VercelRetries, Stubborn
  <2>3. Counted'
    <3>1. llm.inner < AdapterRetries
      BY <1>3 DEF InnerRetry
    <3> QED
      BY <2>1, <3>1 DEF LlmIInv, Counted
  <2>4. Stubborn' = Stubborn
    BY DEF Stubborn, Streams, Same
  <2> QED
    BY <1>1, <2>1, <2>2, <2>3, <2>4 DEF LlmIInv, BurntIsOver, SilentIsOpen
<1> QED
  BY <1>2, <1>3

LEMMA LlmCatchStep ==
    ASSUME LlmIInv, LlmCatch
    PROVE  LlmIInv'
<1>1. llm.pc = "failed" /\ Same
  BY DEF LlmCatch
<1>2. CASE ~MayRetry(llm)
  <2>1. /\ Record' /\ llm'.pc = "over" /\ llm'.burnt = llm.burnt
        /\ llm'.silent = llm.silent
        /\ llm'.attempt = llm.attempt /\ llm'.inner = llm.inner /\ llm'.requests = llm.requests
    BY <1>2 DEF LlmCatch, LlmIInv, Record
  <2> QED
    BY <1>1, <2>1, Step DEF LlmIInv, BurntIsOver, SilentIsOpen
<1>3. CASE MayRetry(llm)
  <2>1. /\ Record' /\ llm'.pc = "asking" /\ llm'.burnt = llm.burnt
        /\ llm'.silent = llm.silent /\ llm'.attempt = llm.attempt + 1 /\ llm'.inner = 0 /\ llm'.requests = llm.requests
    BY <1>3 DEF LlmCatch, Attempt, LlmIInv, Record
  <2>2. llm.attempt < LoopRetries /\ llm.error = "transient" /\ caller = "loop"
    BY <1>3 DEF MayRetry
  <2>3. llm.requests <= (llm.attempt + 1) * (AdapterRetries + 1)
    BY <1>1, Room DEF LlmIInv, Counted
  <2>4. Counted'
    <3>1. llm'.attempt * (AdapterRetries + 1) = (llm.attempt + 1) * (AdapterRetries + 1)
      BY <2>1
    <3>2. (llm.attempt + 1) * (AdapterRetries + 1) \in Nat /\ llm.attempt \in Nat
      BY DEF LlmIInv, Counted
    <3> QED
      BY <2>1, <2>2, <2>3, <3>1, <3>2 DEF LlmIInv, Counted
  <2>5. Stubborn' = Stubborn
    BY <1>1 DEF Stubborn, Streams, Same
  <2> QED
    BY <1>1, <2>1, <2>2, <2>4, <2>5 DEF LlmIInv, BurntIsOver, SilentIsOpen
<1> QED
  BY <1>2, <1>3

LEMMA LlmStep ==
    ASSUME LlmIInv, [LlmNext]_llmVars
    PROVE  LlmIInv'
<1>1. CASE LlmBegin
  <2>1. CASE llm' = Failed(llm, "fatal")
    BY <1>1, <2>1, FailedStep DEF LlmBegin, Errors, LlmIInv, BurntIsOver
  <2>2. CASE llm' = Attempt(llm)
    <3>1. /\ Record' /\ llm'.pc = "asking" /\ llm'.burnt = llm.burnt
          /\ llm'.silent = llm.silent /\ llm'.attempt = llm.attempt /\ llm'.inner = 0 /\ llm'.requests = llm.requests
      BY <2>2 DEF Attempt, LlmIInv, Record
    <3>2. Stubborn' = Stubborn
      BY <1>1 DEF LlmBegin, Stubborn, Streams, Same
    <3>3. llm'.attempt * (AdapterRetries + 1) \in Nat /\ llm.requests = 0
      BY <1>1, <3>1 DEF LlmBegin, LlmIInv, Counted
    <3> QED
      BY <1>1, <3>1, <3>2, <3>3 DEF LlmBegin, LlmIInv, Counted, BurntIsOver, SilentIsOpen
  <2> QED
    BY <1>1, <2>1, <2>2 DEF LlmBegin
<1>2. CASE LlmAsk
  <2>1. /\ Record' /\ llm'.pc = "streaming" /\ llm'.burnt = llm.burnt
        /\ llm'.silent = llm.silent /\ llm'.attempt = llm.attempt /\ llm'.inner = llm.inner
        /\ llm'.requests = llm.requests + 1 /\ llm.pc = "asking"
    BY <1>2 DEF LlmAsk, LlmIInv, Record
  <2>2. Stubborn' = Stubborn
    BY <1>2 DEF LlmAsk, Stubborn, Streams, Same
  <2> QED
    BY <2>1, <2>2 DEF LlmIInv, Counted, BurntIsOver, SilentIsOpen
<1>3. CASE LlmChunk \/ LlmDone \/ LlmSilence \/ LlmDeadline
  <2>1. /\ Record' /\ llm.pc = "streaming" /\ llm'.pc \in {"streaming", "over", "returning"}
        /\ llm'.burnt = llm.burnt /\ llm'.attempt = llm.attempt /\ llm'.inner = llm.inner
        /\ llm'.requests = llm.requests /\ Same
        /\ llm'.pc = "over" => ~llm'.silent
    BY <1>3 DEF LlmChunk, LlmDone, LlmSilence, LlmDeadline, LlmIInv, Record
  <2> QED
    BY <2>1, Step DEF LlmIInv, BurntIsOver, SilentIsOpen
<1>4. CASE LlmCatch
  BY <1>4, LlmCatchStep
<1>5. CASE LlmReturned
  BY <1>5, FailedStep DEF LlmReturned, Errors, LlmIInv, BurntIsOver
<1>6. CASE \E e \in Errors : LlmFails(e)
  BY <1>6, BrokenStep DEF LlmFails
<1>7. CASE LlmSettles
  <2>1. CASE llm.pc = "returning"
    <3>1. /\ Record' /\ llm'.pc = llm.pc /\ llm'.silent = FALSE
          /\ llm'.burnt = llm.burnt /\ llm'.attempt = llm.attempt /\ llm'.inner = llm.inner
          /\ llm'.requests = llm.requests /\ Same
      BY <1>7, <2>1 DEF LlmSettles, LlmIInv, Record
    <3> QED
      BY <2>1, <3>1, Step DEF LlmIInv, BurntIsOver, SilentIsOpen
  <2>2. CASE llm.pc # "returning"
    BY <1>7, <2>2, BrokenStep DEF LlmSettles, LlmIInv, SilentIsOpen, Errors
  <2> QED
    BY <2>1, <2>2
<1>8. CASE UNCHANGED llmVars
  BY <1>8 DEF llmVars, LlmIInv, Record, Counted, BurntIsOver, SilentIsOpen, Stubborn, Streams
<1> QED
  BY <1>1, <1>2, <1>3, <1>4, <1>5, <1>6, <1>7, <1>8 DEF LlmNext

\* The invariant of the counters and of fatal failures holds (loop.ts:717, the adapters).
THEOREM LlmInvariant == LlmSpec => []LlmIInv
BY LlmInitInv, LlmStep, PTL DEF LlmSpec

\* The retry loops multiply, and no further: one call of a model asks its provider at most
\* (llmRetries + 1) * (maxRetries + 1) times (loop.ts:717, vercel-adapter.ts:210).
THEOREM LlmRequestsBounded == LlmSpec => []RequestsBounded
<1>1. LlmIInv => RequestsBounded
  <2> SUFFICES ASSUME LlmIInv PROVE RequestsBounded
    OBVIOUS
  <2>1. llm.requests <= (llm.attempt + 1) * (AdapterRetries + 1)
    BY Room DEF LlmIInv, Counted
  <2>2. ASSUME NEW a \in 0 .. LoopRetries
        PROVE  (a + 1) * (AdapterRetries + 1) <= (LoopRetries + 1) * (AdapterRetries + 1)
    OBVIOUS
  <2> QED
    BY <2>1, <2>2 DEF LlmIInv, Counted, RequestsBounded
<1> QED
  BY <1>1, LlmInvariant, PTL

\* A fatal failure is met once: nothing asks again after it, except complete() of Anthropic
\* and Gemini (anthropic-adapter.ts:136, gemini-adapter.ts:121).
THEOREM LlmFatalIsFinal == LlmSpec => FatalIsFinal
<1>1. ASSUME LlmIInv, [LlmNext]_llmVars
      PROVE  [llm.burnt /\ (Streams \/ client \notin {"anthropic", "gemini"})
              => llm'.requests = llm.requests]_llmVars
  <2> SUFFICES ASSUME LlmNext, llm.burnt, ~Stubborn PROVE llm'.requests = llm.requests
    BY <1>1 DEF Stubborn
  <2>1. llm.pc = "over" \/ (llm.pc = "failed" /\ llm.error = "fatal")
    BY <1>1 DEF LlmIInv, BurntIsOver
  <2>2. CASE LlmSettles
    BY <1>1, <2>1, <2>2 DEF LlmSettles, Broken, Failed, LlmIInv, Record
  <2>3. CASE ~LlmSettles
    BY <1>1, <2>1, <2>3
       DEF LlmNext, LlmBegin, LlmAsk, LlmChunk, LlmDone, LlmCatch, MayRetry, LlmSilence,
           LlmDeadline, LlmReturned, LlmFails, LlmIInv, Record
  <2> QED
    BY <2>2, <2>3
<1> QED
  BY <1>1, LlmInvariant, PTL DEF LlmSpec, FatalIsFinal

HIDE LlmCallAssumption DEF Pcs

-----------------------------------------------------------------------------
\* What an answer is made of.

\* What the accumulator has of the request that is streamed: chunks of this request, none of
\* them twice, and every one that the adapter hands over at once.
Received ==
    /\ llm.sent \in Seq(Chunk)
    /\ llm.kept \in Seq(Place)
    /\ \A j \in DOMAIN llm.kept :
          \E i \in DOMAIN llm.sent : llm.kept[j] = This(i) /\ Passes(llm.sent[i])
    /\ IsInjective(llm.kept)
    /\ \A i \in DOMAIN llm.sent : Passes(llm.sent[i]) => This(i) \in Range(llm.kept)
    /\ ~llm.yielded => llm.kept = <<>>

\* A request is sent with empty accumulators, by the loop and by an adapter that asks again.
Collects ==
    /\ llm.pc = "asking" /\ Streams => llm.kept = <<>>
    /\ llm.pc = "streaming" /\ Streams => Received
    /\ llm.answer = "response" => llm.pc = "over"
    /\ AnswerIsOfOneRequest

AnsInv == LlmIInv /\ Collects

\* Sequences without a repetition that share nothing have none when they are joined.
LEMMA JoinInjective ==
    ASSUME NEW S, NEW s \in Seq(S), NEW t \in Seq(S), IsInjective(s), IsInjective(t),
           Range(s) \cap Range(t) = {}
    PROVE  /\ s \o t \in Seq(S) /\ IsInjective(s \o t)
           /\ Range(s \o t) = Range(s) \cup Range(t)
<1> DEFINE u == s \o t
<1>1. /\ u \in Seq(S) /\ DOMAIN u = 1 .. Len(s) + Len(t)
      /\ \A i \in 1 .. Len(s) : u[i] = s[i]
      /\ \A i \in 1 .. Len(t) : u[Len(s) + i] = t[i]
  OBVIOUS
<1>2. \A i \in DOMAIN u : i \in 1 .. Len(s) \/ (i - Len(s) \in 1 .. Len(t) /\ u[i] = t[i - Len(s)])
  BY <1>1
<1> HIDE DEF u
<1>3. Range(u) = Range(s) \cup Range(t)
  <2>1. ASSUME NEW i \in DOMAIN u PROVE u[i] \in Range(s) \cup Range(t)
    BY <1>1, <1>2 DEF Range
  <2>2. ASSUME NEW i \in DOMAIN s PROVE s[i] \in Range(u)
    BY <1>1 DEF Range
  <2>3. ASSUME NEW i \in DOMAIN t PROVE t[i] \in Range(u)
    <3>1. Len(s) + i \in DOMAIN u /\ u[Len(s) + i] = t[i]
      BY <1>1
    <3> QED
      BY <3>1 DEF Range
  <2> QED
    BY <2>1, <2>2, <2>3 DEF Range
<1>4. ASSUME NEW i \in DOMAIN u, NEW j \in DOMAIN u, u[i] = u[j] PROVE i = j
  <2>1. \A k \in 1 .. Len(s) : s[k] \in Range(s)
    BY DEF Range
  <2>2. \A k \in 1 .. Len(t) : t[k] \in Range(t)
    BY DEF Range
  <2>3. CASE i \in 1 .. Len(s) /\ j \in 1 .. Len(s)
    BY <1>1, <1>4, <2>3 DEF IsInjective
  <2>4. CASE i \in 1 .. Len(s) /\ j \notin 1 .. Len(s)
    BY <1>1, <1>2, <1>4, <2>1, <2>2, <2>4
  <2>5. CASE i \notin 1 .. Len(s) /\ j \in 1 .. Len(s)
    BY <1>1, <1>2, <1>4, <2>1, <2>2, <2>5
  <2>6. CASE i \notin 1 .. Len(s) /\ j \notin 1 .. Len(s)
    <3>1. i - Len(s) \in DOMAIN t /\ j - Len(s) \in DOMAIN t /\ t[i - Len(s)] = t[j - Len(s)]
      BY <1>2, <1>4, <2>6
    <3>2. i - Len(s) = j - Len(s)
      BY <3>1 DEF IsInjective
    <3> QED
      BY <1>1, <3>2
  <2> QED
    BY <2>3, <2>4, <2>5, <2>6
<1> QED
  BY <1>1, <1>3, <1>4 DEF IsInjective, u

\* What Gemini holds back: the last call in each of the places, none of them twice.
LEMMA HeldIs ==
    ASSUME NEW n \in {0, 1}, llm.sent \in Seq(Chunk), llm.requests \in Nat
    PROVE  /\ Held(n) \in Seq(Place) /\ IsInjective(Held(n))
           /\ \A p \in Range(Held(n)) : \E i \in CallsAt(n) : p = This(i)
           /\ \A i \in CallsAt(n) :
                 This(i) \in Range(Held(n)) \/ \E j \in CallsAt(n) : i < j
<1>1. CallsAt(n) \subseteq 1 .. Len(llm.sent)
  BY DEF CallsAt
<1>2. CASE CallsAt(n) = {}
  BY <1>2 DEF Held, IsInjective, Range
<1>3. CASE CallsAt(n) # {}
  <2> DEFINE m == Max(CallsAt(n))
  <2>1. m \in CallsAt(n) /\ \A y \in CallsAt(n) : y <= m
    BY <1>1, <1>3, Greatest
  <2>2. Held(n) = <<This(m)>> /\ m \in Nat
    BY <1>1, <1>3, <2>1 DEF Held
  <2> HIDE DEF m
  <2>3. This(m) \in Place
    BY <2>2 DEF This, Place
  <2>4. \A i \in CallsAt(n) : i = m \/ i < m
    BY <1>1, <2>1
  <2>5. Range(Held(n)) = {This(m)}
    BY <2>2 DEF Range
  <2>6. Held(n) \in Seq(Place) /\ IsInjective(Held(n))
    BY <2>2, <2>3 DEF IsInjective
  <2> QED
    BY <2>1, <2>4, <2>5, <2>6
<1> QED
  BY <1>2, <1>3

\* An answer streamed with Gemini: the texts, then the calls that were held back.
LEMMA HeldCallsAre ==
    ASSUME llm.sent \in Seq(Chunk), llm.requests \in Nat, client = "gemini", Streams
    PROVE  /\ HeldCalls \in Seq(Place) /\ IsInjective(HeldCalls)
           /\ \A p \in Range(HeldCalls) :
                 \E i \in DOMAIN llm.sent : p = This(i) /\ llm.sent[i].kind = "call"
           /\ \A n \in {0, 1} : \A i \in CallsAt(n) :
                 This(i) \in Range(HeldCalls) \/ \E j \in CallsAt(n) : i < j
<1>1. CallsAt(0) \cap CallsAt(1) = {}
  BY DEF CallsAt
<1>2. \A i, j : This(i) = This(j) => i = j
  BY DEF This
<1>3. Range(Held(0)) \cap Range(Held(1)) = {}
  BY <1>1, <1>2, HeldIs
<1> DEFINE H == HeldCalls
<1>4. /\ H \in Seq(Place) /\ IsInjective(H)
      /\ Range(H) = Range(Held(0)) \cup Range(Held(1))
  <2>1. H = Held(0) \o Held(1) \/ H = Held(1) \o Held(0)
    BY DEF HeldCalls
  <2>2. /\ Held(0) \in Seq(Place) /\ IsInjective(Held(0))
        /\ Held(1) \in Seq(Place) /\ IsInjective(Held(1))
    BY HeldIs
  <2>3. CASE H = Held(0) \o Held(1)
    BY <1>3, <2>2, <2>3, JoinInjective
  <2>4. CASE H = Held(1) \o Held(0)
    BY <1>3, <2>2, <2>4, JoinInjective
  <2> QED
    BY <2>1, <2>3, <2>4
<1>5. ASSUME NEW p \in Range(H)
      PROVE  \E i \in DOMAIN llm.sent : p = This(i) /\ llm.sent[i].kind = "call"
  <2>1. PICK n \in {0, 1} : p \in Range(Held(n))
    BY <1>4, <1>5
  <2>2. PICK i \in CallsAt(n) : p = This(i)
    BY <2>1, HeldIs
  <2> QED
    BY <2>2 DEF CallsAt
<1>6. \A n \in {0, 1} : \A i \in CallsAt(n) :
         This(i) \in Range(H) \/ \E j \in CallsAt(n) : i < j
  BY <1>4, HeldIs
<1> QED
  BY <1>4, <1>5, <1>6

\* The call is what its type says, whatever a provider sends: what LlmIInv does not say yet.
LlmFields ==
    /\ client \in LlmClients /\ caller \in LlmCallers
    /\ llm.sent \in Seq(Chunk) /\ llm.kept \in Seq(Place)
    /\ llm.yielded \in BOOLEAN /\ llm.silent \in BOOLEAN /\ llm.burnt \in BOOLEAN
    /\ llm.error \in Errors \cup {NoError}
    /\ llm.answer \in {"none", "response", "error"}

LEMMA LlmFieldsStep ==
    ASSUME LlmIInv, LlmFields, [LlmNext]_llmVars
    PROVE  LlmFields'
<1>1. Record
  BY DEF LlmIInv
<1>2. ASSUME NEW e \in Errors, Same, llm' = Failed(llm, e) PROVE LlmFields'
  BY <1>1, <1>2 DEF Failed, Record, LlmFields, Same
<1>3. ASSUME NEW e \in Errors, Same, llm' = Broken(e) PROVE LlmFields'
  <2>1. CASE InnerRetry(e)
    BY <1>1, <1>3, <2>1 DEF Broken, Record, LlmFields, Same
  <2> QED
    BY <1>2, <1>3, <2>1 DEF Broken
<1>4. CASE LlmBegin
  <2>1. CASE llm' = Failed(llm, "fatal")
    BY <1>2, <1>4, <2>1 DEF LlmBegin, Errors
  <2>2. CASE llm' = Attempt(llm)
    <3>1. /\ llm'.sent = <<>> /\ llm'.kept = <<>> /\ llm'.yielded = FALSE
          /\ llm'.silent = llm.silent /\ llm'.burnt = llm.burnt
          /\ llm'.error = llm.error /\ llm'.answer = llm.answer
      BY <1>1, <2>2 DEF Attempt, Record
    <3>2. Same
      BY <1>4 DEF LlmBegin
    <3>3. llm'.sent \in Seq(Chunk) /\ llm'.kept \in Seq(Place)
      BY <3>1
    <3> HIDE <2>2
    <3> QED
      BY <3>1, <3>2, <3>3 DEF LlmFields, Same
  <2> QED
    BY <1>4, <2>1, <2>2 DEF LlmBegin
<1>5. CASE LlmAsk
  BY <1>1, <1>5 DEF LlmAsk, Record, LlmFields, Same
<1>6. CASE LlmChunk
  <2>1. PICK k \in Chunk :
          llm' = [llm EXCEPT !.sent = Append(@, k),
                             !.yielded = @ \/ Passes(k),
                             !.kept = IF Passes(k) THEN Append(@, This(Len(llm.sent) + 1))
                                                   ELSE @]
    BY <1>6 DEF LlmChunk
  <2>2. This(Len(llm.sent) + 1) \in Place
    BY DEF This, Place, LlmIInv, Counted, LlmFields
  <2>3. /\ llm'.sent = Append(llm.sent, k)
        /\ llm'.kept \in {llm.kept, Append(llm.kept, This(Len(llm.sent) + 1))}
        /\ llm'.yielded = (llm.yielded \/ Passes(k))
        /\ llm'.silent = llm.silent /\ llm'.burnt = llm.burnt
        /\ llm'.error = llm.error /\ llm'.answer = llm.answer
    BY <1>1, <2>1 DEF Record
  <2>4. llm'.sent \in Seq(Chunk)
    BY <2>3 DEF LlmFields
  <2>5. llm.kept \in Seq(Place)
    BY DEF LlmFields
  <2>6. Append(llm.kept, This(Len(llm.sent) + 1)) \in Seq(Place)
    BY <2>2, <2>5
  <2>7. llm'.kept \in Seq(Place)
    BY <2>3, <2>5, <2>6
  <2>8. llm'.yielded \in BOOLEAN
    BY <2>3 DEF LlmFields
  <2> QED
    BY <1>6, <2>3, <2>4, <2>7, <2>8 DEF LlmChunk, LlmFields, Same
<1>7. CASE LlmDone
  <2>1. HeldCalls \in Seq(Place)
    <3>1. CASE client = "gemini" /\ Streams
      BY <3>1, HeldCallsAre DEF LlmIInv, Counted, LlmFields
    <3>2. CASE ~(client = "gemini" /\ Streams)
      BY <3>2 DEF HeldCalls
    <3> QED
      BY <3>1, <3>2
  <2>2. llm.kept \o HeldCalls \in Seq(Place)
    BY <2>1 DEF LlmFields
  <2>3. /\ llm'.sent = llm.sent /\ llm'.kept = llm.kept \o HeldCalls
        /\ llm'.yielded = llm.yielded /\ llm'.silent = llm.silent /\ llm'.burnt = llm.burnt
        /\ llm'.error = llm.error /\ llm'.answer = "response"
    BY <1>1, <1>7 DEF LlmDone, Record
  <2>4. llm'.kept \in Seq(Place)
    BY <2>2, <2>3
  <2> QED
    BY <1>7, <2>3, <2>4 DEF LlmDone, LlmFields, Same
<1>8. CASE LlmCatch
  <2>1. CASE MayRetry(llm)
    BY <1>1, <1>8, <2>1 DEF LlmCatch, Attempt, Record, LlmFields, Same
  <2>2. CASE ~MayRetry(llm)
    BY <1>1, <1>8, <2>2 DEF LlmCatch, Record, LlmFields, Same
  <2> QED
    BY <2>1, <2>2
<1>9. CASE LlmSilence \/ LlmDeadline
  BY <1>1, <1>9 DEF LlmSilence, LlmDeadline, Record, LlmFields, Same
<1>10. CASE LlmReturned
  BY <1>2, <1>10 DEF LlmReturned, Errors
<1>11. CASE LlmSettles
  <2>1. CASE llm.pc = "returning"
    BY <1>1, <1>11, <2>1 DEF LlmSettles, Record, LlmFields, Same
  <2> QED
    BY <1>3, <1>11, <2>1 DEF LlmSettles, Errors
<1>12. ASSUME NEW e \in Errors, LlmFails(e) PROVE LlmFields'
  BY <1>3, <1>12 DEF LlmFails
<1>13. CASE UNCHANGED llmVars
  BY <1>13 DEF llmVars, LlmFields
<1> QED
  BY <1>4, <1>5, <1>6, <1>7, <1>8, <1>9, <1>10, <1>11, <1>12, <1>13 DEF LlmNext

\* A call of a model is of its type, whatever a provider sends: what is kept are places of
\* chunks, and an outcome has its failure (loop.ts and the adapters).
THEOREM LlmTypes == LlmSpec => []LlmTypeInvariant
<1>1. LlmInit => LlmIInv /\ LlmFields
  BY LlmInitInv DEF LlmInit, LlmIdle, LlmFields
<1>2. LlmIInv /\ LlmFields /\ [LlmNext]_llmVars => (LlmIInv /\ LlmFields)'
  BY LlmStep, LlmFieldsStep
<1>3. LlmIInv /\ LlmFields => LlmTypeInvariant
  <2> SUFFICES ASSUME LlmIInv, LlmFields PROVE llm \in LlmType
    BY DEF LlmTypeInvariant, LlmFields
  <2>1. /\ llm.pc \in Pcs /\ llm.attempt \in Nat /\ llm.inner \in Nat /\ llm.requests \in Nat
    BY DEF LlmIInv, Counted, LlmCallAssumption
  <2>2. [pc |-> llm.pc, attempt |-> llm.attempt, inner |-> llm.inner,
         requests |-> llm.requests, sent |-> llm.sent, kept |-> llm.kept,
         yielded |-> llm.yielded, silent |-> llm.silent, error |-> llm.error,
         burnt |-> llm.burnt, answer |-> llm.answer] \in LlmType
    BY <2>1 DEF LlmType, LlmFields, Pcs
  <2> QED
    BY <2>2 DEF LlmIInv, Record
<1> QED
  BY <1>1, <1>2, <1>3, PTL DEF LlmSpec

LEMMA AnsInit == LlmInit => AnsInv
<1> SUFFICES ASSUME LlmInit PROVE Collects
  BY LlmInitInv DEF AnsInv
<1> QED
  BY DEF LlmInit, LlmIdle, Collects, AnswerIsOfOneRequest

\* A step that neither streams nor answers.
LEMMA Between ==
    ASSUME llm'.pc \notin {"streaming", "over"}, llm'.answer = llm.answer,
           llm.answer # "response",
           llm'.pc = "asking" /\ Streams => llm'.kept = <<>>, Same
    PROVE  Collects'
<1>1. Streams' = Streams
  BY DEF Streams, Same
<1> QED
  BY <1>1 DEF Collects, AnswerIsOfOneRequest

LEMMA FailsBetween ==
    ASSUME LlmIInv, Collects, NEW e \in Errors, llm' = Failed(llm, e), Same,
           llm.pc # "over"
    PROVE  Collects'
<1>1. llm'.pc = "failed" /\ llm'.answer = llm.answer
  BY DEF Failed, LlmIInv, Record
<1> QED
  BY <1>1, Between DEF Collects

LEMMA BreaksBetween ==
    ASSUME LlmIInv, Collects, NEW e \in Errors, llm' = Broken(e), Same,
           llm.pc = "streaming"
    PROVE  Collects'
<1>1. CASE ~InnerRetry(e)
  BY <1>1, FailsBetween DEF Broken
<1>2. CASE InnerRetry(e)
  <2>1. llm'.pc = "asking" /\ llm'.answer = llm.answer /\ llm'.kept = llm.kept
    BY <1>2 DEF Broken, LlmIInv, Record
  <2>2. Streams => llm.kept = <<>>
    BY <1>2 DEF InnerRetry, AnthropicRetries, GeminiRetries, VercelRetries, Collects, Received
  <2> QED
    BY <2>1, <2>2, Between DEF Collects
<1> QED
  BY <1>1, <1>2

LEMMA AskStep ==
    ASSUME LlmIInv, Collects, LlmAsk
    PROVE  Collects'
<1>1. /\ llm.pc = "asking" /\ Same /\ llm'.pc = "streaming" /\ llm'.sent = <<>>
      /\ llm'.kept = llm.kept /\ llm'.answer = llm.answer
  BY DEF LlmAsk, LlmIInv, Record
<1>2. Streams' = Streams
  BY <1>1 DEF Streams, Same
<1>3. Streams => Received'
  <2> SUFFICES ASSUME Streams PROVE Received'
    OBVIOUS
  <2>1. llm'.sent = <<>> /\ llm'.kept = <<>>
    BY <1>1 DEF Collects
  <2>2. IsInjective(llm'.kept) /\ llm'.sent \in Seq(Chunk) /\ llm'.kept \in Seq(Place)
    BY <2>1 DEF IsInjective
  <2>3. DOMAIN llm'.sent = {} /\ DOMAIN llm'.kept = {}
    BY <2>1
  <2> QED
    BY <2>1, <2>2, <2>3 DEF Received
<1> QED
  BY <1>1, <1>2, <1>3 DEF Collects, AnswerIsOfOneRequest

LEMMA ChunkStep ==
    ASSUME LlmIInv, Collects, LlmChunk
    PROVE  Collects'
<1>1. Streams /\ llm.pc = "streaming" /\ Same /\ Received /\ llm.answer # "response"
  BY DEF LlmChunk, Collects
<1>2. PICK k \in Chunk :
         llm' = [llm EXCEPT !.sent = Append(@, k),
                            !.yielded = @ \/ Passes(k),
                            !.kept = IF Passes(k) THEN Append(@, This(Len(llm.sent) + 1))
                                                  ELSE @]
  BY DEF LlmChunk
<1> DEFINE n == Len(llm.sent) + 1
           more == IF Passes(k) THEN Append(llm.kept, This(n)) ELSE llm.kept
<1>3. /\ llm'.pc = "streaming" /\ llm'.sent = Append(llm.sent, k)
      /\ llm'.kept = more /\ llm'.answer = llm.answer
      /\ llm'.requests = llm.requests /\ llm'.yielded = (llm.yielded \/ Passes(k))
  BY <1>1, <1>2 DEF LlmIInv, Record
<1>4. (\A i : This(i)' = This(i)) /\ (\A x : Passes(x)' = Passes(x)) /\ Streams' = Streams
  BY <1>1, <1>3 DEF This, Passes, Streams, Same, AnthropicPasses, GeminiPasses
<1>5. /\ llm.sent \in Seq(Chunk) /\ llm.kept \in Seq(Place) /\ llm.requests \in Nat
      /\ n \in Nat /\ n >= 1
  BY <1>1 DEF Received, LlmIInv, Counted
<1>6. /\ llm'.sent \in Seq(Chunk) /\ DOMAIN llm'.sent = 1 .. n
      /\ DOMAIN llm.sent = 1 .. n - 1
      /\ llm'.sent[n] = k /\ \A i \in DOMAIN llm.sent : llm'.sent[i] = llm.sent[i]
  BY <1>3, <1>5
<1>7. This(n) \in Place /\ \A i, j : This(i) = This(j) => i = j
  BY <1>5 DEF This, Place
<1>8. This(n) \notin Range(llm.kept)
  <2>1. \A j \in DOMAIN llm.kept : \E i \in DOMAIN llm.sent : llm.kept[j] = This(i)
    BY <1>1 DEF Received
  <2>2. n \notin DOMAIN llm.sent
    BY <1>5
  <2> QED
    BY <1>7, <2>1, <2>2 DEF Range
<1> HIDE DEF n
<1>9. CASE Passes(k)
  <2>1. /\ llm'.kept \in Seq(Place) /\ DOMAIN llm'.kept = 1 .. Len(llm.kept) + 1
        /\ llm'.kept[Len(llm.kept) + 1] = This(n)
        /\ \A j \in DOMAIN llm.kept : llm'.kept[j] = llm.kept[j]
    BY <1>3, <1>5, <1>7, <1>9
  <2>2. \A j \in DOMAIN llm'.kept : j = Len(llm.kept) + 1 \/ j \in DOMAIN llm.kept
    BY <1>5, <2>1
  <2>3. ASSUME NEW j \in DOMAIN llm'.kept
        PROVE  \E i \in DOMAIN llm'.sent : llm'.kept[j] = This(i) /\ Passes(llm'.sent[i])
    <3>1. CASE j = Len(llm.kept) + 1
      <4>1. n \in DOMAIN llm'.sent
        BY <1>5, <1>6
      <4> QED
        BY <1>6, <1>9, <2>1, <3>1, <4>1
    <3>2. CASE j \in DOMAIN llm.kept
      <4>1. PICK i \in DOMAIN llm.sent : llm.kept[j] = This(i) /\ Passes(llm.sent[i])
        BY <1>1, <3>2 DEF Received
      <4>2. i \in DOMAIN llm'.sent /\ llm'.sent[i] = llm.sent[i]
        BY <1>5, <1>6
      <4> QED
        BY <2>1, <3>2, <4>1, <4>2
    <3> QED
      BY <2>2, <3>1, <3>2
  <2>4. IsInjective(llm'.kept)
    BY <1>1, <1>8, <2>1, <2>2 DEF Received, IsInjective, Range
  <2>5. ASSUME NEW i \in DOMAIN llm'.sent, Passes(llm'.sent[i])
        PROVE  This(i) \in Range(llm'.kept)
    <3>1. CASE i = n
      <4>1. Len(llm.kept) + 1 \in DOMAIN llm'.kept
        BY <1>5, <2>1
      <4> QED
        BY <2>1, <3>1, <4>1 DEF Range
    <3>2. CASE i # n
      <4>1. i \in DOMAIN llm.sent /\ Passes(llm.sent[i])
        BY <1>5, <1>6, <2>5, <3>2
      <4>2. PICK j \in DOMAIN llm.kept : llm.kept[j] = This(i)
        BY <1>1, <4>1 DEF Received, Range
      <4>3. j \in DOMAIN llm'.kept /\ llm'.kept[j] = This(i)
        BY <1>5, <2>1, <4>2
      <4> QED
        BY <4>3 DEF Range
    <3> QED
      BY <3>1, <3>2
  <2>6. Received'
    BY <1>3, <1>4, <1>6, <1>9, <2>1, <2>3, <2>4, <2>5 DEF Received
  <2> QED
    BY <1>1, <1>3, <1>4, <2>6 DEF Collects, AnswerIsOfOneRequest
<1>10. CASE ~Passes(k)
  <2>1. llm'.kept = llm.kept
    BY <1>3, <1>10
  <2>2. ASSUME NEW i \in DOMAIN llm'.sent, Passes(llm'.sent[i])
        PROVE  i \in DOMAIN llm.sent /\ Passes(llm.sent[i])
    BY <1>5, <1>6, <1>10, <2>2
  <2>3. \A i \in DOMAIN llm.sent : i \in DOMAIN llm'.sent
    BY <1>5, <1>6
  <2>4. Received'
    <3>1. ASSUME NEW j \in DOMAIN llm.kept
          PROVE  \E i \in DOMAIN llm'.sent : llm.kept[j] = This(i) /\ Passes(llm'.sent[i])
      BY <1>1, <1>6, <2>3 DEF Received
    <3>2. ASSUME NEW i \in DOMAIN llm'.sent, Passes(llm'.sent[i])
          PROVE  This(i) \in Range(llm.kept)
      BY <1>1, <2>2, <3>2 DEF Received
    <3>3. IsInjective(llm.kept) /\ (~llm'.yielded => llm.kept = <<>>)
      BY <1>1, <1>3, <1>10 DEF Received
    <3> QED
      BY <1>4, <1>5, <1>6, <2>1, <3>1, <3>2, <3>3 DEF Received
  <2> QED
    BY <1>1, <1>3, <1>4, <2>4 DEF Collects, AnswerIsOfOneRequest
<1> QED
  BY <1>9, <1>10

LEMMA DoneStep ==
    ASSUME LlmIInv, Collects, LlmDone
    PROVE  Collects'
<1>1. /\ llm.pc = "streaming" /\ Same /\ llm'.pc = "over" /\ llm'.sent = llm.sent
      /\ llm'.kept = llm.kept \o HeldCalls /\ llm'.requests = llm.requests
  BY DEF LlmDone, LlmIInv, Record
<1>2. (\A i : This(i)' = This(i)) /\ (\A n : CallsAt(n)' = CallsAt(n)) /\ Streams' = Streams
      /\ client' = client
  BY <1>1 DEF This, CallsAt, Streams, Same
<1> SUFFICES ASSUME Streams PROVE AnswerIsOfOneRequest'
  BY <1>1, <1>2 DEF Collects, AnswerIsOfOneRequest
<1>3. Received /\ llm.requests \in Nat
  BY <1>1 DEF Collects, LlmIInv, Counted
<1>4. \A j \in DOMAIN llm.kept :
         \E i \in DOMAIN llm.sent : llm.kept[j] = This(i) /\ Passes(llm.sent[i])
  BY <1>3 DEF Received
<1>5. \A i \in DOMAIN llm.sent :
         llm.sent[i] \in Chunk /\ (Passes(llm.sent[i]) => This(i) \in Range(llm.kept))
  BY <1>3 DEF Received
<1>6. \A i, j : This(i).request = llm.requests /\ (This(i) = This(j) => i = j)
  BY DEF This
<1>7. ASSUME NEW p \in Range(llm.kept)
      PROVE  /\ p.request = llm.requests
             /\ \E i \in DOMAIN llm.sent : p = This(i) /\ Passes(llm.sent[i])
  <2>1. PICK j \in DOMAIN llm.kept : p = llm.kept[j]
    BY DEF Range
  <2> QED
    BY <1>4, <1>6, <2>1
<1>8. CASE client # "gemini"
  <2>1. llm'.kept = llm.kept
    BY <1>1, <1>3, <1>8 DEF HeldCalls, Received
  <2>2. IsInjective(llm'.kept)
    BY <1>3, <2>1 DEF Received
  <2>3. \A p \in Range(llm'.kept) : p.request = llm'.requests
    BY <1>1, <1>7, <2>1
  <2>4. \A i \in DOMAIN llm.sent :
           Passes(llm.sent[i]) \/ (llm.sent[i].kind = "call" /\ llm.sent[i].args # "whole")
    BY <1>5, <1>8 DEF Passes, AnthropicPasses, Chunk
  <2> QED
    BY <1>1, <1>2, <1>5, <2>1, <2>2, <2>3, <2>4 DEF AnswerIsOfOneRequest
<1>9. CASE client = "gemini"
  <2> DEFINE H == HeldCalls
  <2>1. /\ H \in Seq(Place) /\ IsInjective(H)
        /\ \A p \in Range(H) :
              \E i \in DOMAIN llm.sent : p = This(i) /\ llm.sent[i].kind = "call"
        /\ \A n \in {0, 1} : \A i \in CallsAt(n) :
              This(i) \in Range(H) \/ \E j \in CallsAt(n) : i < j
    BY <1>3, <1>9, HeldCallsAre DEF Received
  <2> HIDE DEF H
  <2>2. \A x : Passes(x) <=> x.kind = "text"
    BY <1>9 DEF Passes, GeminiPasses
  <2>3. Range(llm.kept) \cap Range(H) = {}
    <3> SUFFICES ASSUME NEW p \in Range(llm.kept), p \in Range(H) PROVE FALSE
      OBVIOUS
    <3>1. PICK i \in DOMAIN llm.sent : p = This(i) /\ Passes(llm.sent[i])
      BY <1>7
    <3>2. PICK j \in DOMAIN llm.sent : p = This(j) /\ llm.sent[j].kind = "call"
      BY <2>1
    <3> QED
      BY <1>6, <2>2, <3>1, <3>2
  <2>4. /\ IsInjective(llm.kept \o H)
        /\ Range(llm.kept \o H) = Range(llm.kept) \cup Range(H)
    BY <1>3, <2>1, <2>3, JoinInjective DEF Received
  <2>5. llm'.kept = llm.kept \o H
    BY <1>1 DEF H
  <2>6. \A p \in Range(llm'.kept) : p.request = llm'.requests
    <3>1. ASSUME NEW p \in Range(H) PROVE p.request = llm.requests
      BY <1>6, <2>1
    <3> QED
      BY <1>1, <1>7, <2>4, <2>5, <3>1
  <2>7. ASSUME NEW i \in DOMAIN llm.sent
        PROVE  \/ This(i) \in Range(llm'.kept)
               \/ \E n \in {0, 1} : \E j \in CallsAt(n) : i \in CallsAt(n) /\ i < j
    <3>1. CASE Passes(llm.sent[i])
      BY <1>5, <2>4, <2>5, <3>1
    <3>2. CASE ~Passes(llm.sent[i])
      <4>1. \E n \in {0, 1} : i \in CallsAt(n)
        BY <1>5, <2>2, <3>2 DEF CallsAt, Chunk
      <4> QED
        BY <2>1, <2>4, <2>5, <4>1
    <3> QED
      BY <3>1, <3>2
  <2>8. IsInjective(llm'.kept)
    BY <2>4, <2>5
  <2> QED
    BY <1>1, <1>2, <1>9, <2>6, <2>7, <2>8 DEF AnswerIsOfOneRequest
<1> QED
  BY <1>8, <1>9

\* The accumulators stand still.
LEMMA HoldsStep ==
    ASSUME LlmIInv, Collects, Same, llm'.answer = llm.answer, llm'.kept = llm.kept,
           llm'.sent = llm.sent, llm'.requests = llm.requests, llm'.yielded = llm.yielded,
           llm'.pc = llm.pc \/ (llm.pc = "streaming" /\ llm'.pc = "returning")
    PROVE  Collects'
<1>1. /\ (\A i : This(i)' = This(i)) /\ (\A n : CallsAt(n)' = CallsAt(n))
      /\ (\A x : Passes(x)' = Passes(x)) /\ Streams' = Streams /\ client' = client
  BY DEF This, CallsAt, Streams, Same, Passes, AnthropicPasses, GeminiPasses
<1>2. llm'.pc = llm.pc => (llm'.pc = "streaming" /\ Streams => Received')
  BY <1>1 DEF Collects, Received
<1>3. AnswerIsOfOneRequest'
  BY <1>1 DEF Collects, AnswerIsOfOneRequest
<1> QED
  BY <1>1, <1>2, <1>3 DEF Collects

LEMMA CatchCollects ==
    ASSUME LlmIInv, Collects, LlmCatch
    PROVE  Collects'
<1>1. llm.pc = "failed" /\ Same /\ llm.answer # "response"
  BY DEF LlmCatch, Collects
<1>2. CASE MayRetry(llm)
  <2>1. llm'.pc = "asking" /\ llm'.answer = llm.answer /\ llm'.kept = <<>>
    BY <1>2 DEF LlmCatch, Attempt, LlmIInv, Record
  <2> QED
    BY <1>1, <2>1, Between
<1>3. CASE ~MayRetry(llm)
  <2>1. llm'.pc = "over" /\ llm'.answer = "error"
    BY <1>3 DEF LlmCatch, LlmIInv, Record
  <2> QED
    BY <2>1 DEF Collects, AnswerIsOfOneRequest
<1> QED
  BY <1>2, <1>3

LEMMA CollectsStep ==
    ASSUME LlmIInv, Collects, [LlmNext]_llmVars
    PROVE  Collects'
<1>1. CASE LlmBegin
  <2>1. llm.pc = "start" /\ Same /\ llm.answer # "response"
    BY <1>1 DEF LlmBegin, Collects
  <2>2. CASE llm' = Failed(llm, "fatal")
    BY <2>1, <2>2, FailsBetween DEF Errors
  <2>3. CASE llm' = Attempt(llm)
    <3>1. llm'.pc = "asking" /\ llm'.answer = llm.answer /\ llm'.kept = <<>>
      BY <2>3 DEF Attempt, LlmIInv, Record
    <3> QED
      BY <2>1, <3>1, Between
  <2> QED
    BY <1>1, <2>2, <2>3 DEF LlmBegin
<1>2. CASE LlmSilence
  BY <1>2, HoldsStep DEF LlmSilence, LlmIInv, Record
<1>3. CASE LlmDeadline
  BY <1>3, HoldsStep DEF LlmDeadline, LlmIInv, Record
<1>4. CASE LlmReturned
  BY <1>4, FailsBetween DEF LlmReturned, Errors
<1>5. CASE LlmSettles
  <2>1. CASE llm.pc = "returning"
    BY <1>5, <2>1, HoldsStep DEF LlmSettles, LlmIInv, Record
  <2>2. CASE llm.pc = "streaming"
    BY <1>5, <2>2, BreaksBetween DEF LlmSettles, Errors
  <2> QED
    BY <1>5, <2>1, <2>2 DEF LlmSettles, LlmIInv, SilentIsOpen
<1>6. ASSUME NEW e \in Errors, LlmFails(e) PROVE Collects'
  BY <1>6, BreaksBetween DEF LlmFails
<1>7. CASE UNCHANGED llmVars
  BY <1>7, HoldsStep DEF llmVars, Same
<1> QED
  BY <1>1, <1>2, <1>3, <1>4, <1>5, <1>6, <1>7, AskStep, ChunkStep, DoneStep, CatchCollects
  DEF LlmNext

\* What a streamed call answers is of one request, whole, and each thing of it once
\* (completeWithStream in loop.ts, withStreamWatchdog, the adapters' completeStream), for
\* any numbers of retries and whatever a provider sends.
THEOREM LlmAnswersWhole == LlmSpec => []AnswerIsOfOneRequest
<1>1. AnsInv /\ [LlmNext]_llmVars => AnsInv'
  BY LlmStep, CollectsStep DEF AnsInv
<1>2. AnsInv => AnswerIsOfOneRequest
  BY DEF AnsInv, Collects
<1> QED
  BY AnsInit, <1>1, <1>2, PTL DEF LlmSpec

-----------------------------------------------------------------------------
\* The lock of a session's file.

Ages == 0 .. LockTimeout + 1

LEMMA LockFields ==
    ASSUME NEW l \in Lock
    PROVE  l # NoFile /\ l.by \in Savers /\ l.stamped \in BOOLEAN /\ l.age \in Ages
BY FsLockAssumption DEF Lock, Ages

LEMMA AgedType ==
    ASSUME NEW l \in Lock \cup {NoFile}
    PROVE  /\ Aged(l) \in Lock \cup {NoFile}
           /\ (Aged(l) = NoFile) <=> (l = NoFile)
           /\ l # NoFile => Aged(l).by = l.by /\ Aged(l).stamped = l.stamped
<1>1. CASE l = NoFile \/ ~l.stamped
  BY <1>1 DEF Aged
<1>2. CASE l # NoFile /\ l.stamped
  <2>1. l \in Lock /\ l.age \in Ages
    BY <1>2, LockFields
  <2>2. Grow(l.age, LockTimeout) \in Ages
    BY <2>1, FsLockAssumption DEF Grow, Ages
  <2>3. Aged(l) = [l EXCEPT !.age = Grow(l.age, LockTimeout)]
    BY <1>2 DEF Aged
  <2>4. /\ Aged(l) \in Lock
        /\ Aged(l).by = l.by
        /\ Aged(l).stamped = l.stamped
    BY <2>1, <2>2, <2>3 DEF Lock, Ages
  <2> QED
    BY <2>4, <1>2, LockFields
<1> QED
  BY <1>1, <1>2

-----------------------------------------------------------------------------
LEMMA InitType == Init => TypeInvariant
BY FsLockAssumption DEF Init, TypeInvariant, Lock, WaitLimit, Waiting, Holding

\* Every step keeps the types.
LEMMA StepType ==
    ASSUME TypeInvariant, [Next]_vars
    PROVE  TypeInvariant'
<1> USE DEF TypeInvariant, callVars, fileVars, Goto, Ends, WaitOver, Closed, Waiting, Holding
<1>1. ASSUME NEW p \in Savers, Begin(p)
      PROVE  TypeInvariant'
  BY <1>1 DEF Begin, AtWork
<1>2. ASSUME NEW p \in Savers, OpenLock(p) \/ StampLock(p) \/ LockFails(p)
      PROVE  TypeInvariant'
  <2>1. [by |-> p, stamped |-> FALSE, age |-> 0] \in Lock
    BY FsLockAssumption DEF Lock
  <2>2. lock # NoFile => [lock EXCEPT !.stamped = TRUE] \in Lock
    BY DEF Lock
  <2>3. 0 \in 0 .. WaitLimit + 1
    BY FsLockAssumption DEF WaitLimit
  <2>4. CASE OpenLock(p)
    <3>1. lock' \in Lock \cup {NoFile}
      BY <2>1, <2>4 DEF OpenLock
    <3>2. waited' \in [Savers -> 0 .. WaitLimit + 1]
      BY <2>3, <2>4 DEF OpenLock
    <3>3. pc' \in [Savers -> Waiting \cup Holding \cup {"idle", "over", "dead"}]
      BY <2>4 DEF OpenLock
    <3> QED
      BY <2>4, <3>1, <3>2, <3>3 DEF OpenLock
  <2>5. CASE StampLock(p)
    <3>1. lock' \in Lock \cup {NoFile}
      BY <2>2, <2>5 DEF StampLock
    <3> QED
      BY <2>5, <3>1 DEF StampLock
  <2>6. CASE LockFails(p)
    BY <2>3, <2>6 DEF LockFails
  <2> QED
    BY <1>2, <2>4, <2>5, <2>6
<1>3. ASSUME NEW p \in Savers, ReadLock(p) \/ Judge(p) \/ BreakLock(p)
      PROVE  TypeInvariant'
  <2>1. 0 \in 0 .. WaitLimit + 1
    BY FsLockAssumption DEF WaitLimit
  <2>2. CASE ReadLock(p)
    BY <2>2 DEF ReadLock
  <2>3. CASE Judge(p)
    BY <2>1, <2>3 DEF Judge
  <2>4. CASE BreakLock(p)
    BY <2>4, LockFields DEF BreakLock, RemoveLock
  <2> QED
    BY <1>3, <2>2, <2>3, <2>4
<1>4. ASSUME NEW p \in Savers,
             ClearTmp(p) \/ OpenTmp(p) \/ WriteTmp(p) \/ Rename(p)
      PROVE  TypeInvariant'
  <2>1. CASE ClearTmp(p)
    BY <2>1 DEF ClearTmp
  <2>2. CASE OpenTmp(p)
    <3>1. (IF tmp = NoFile THEN p ELSE tmp) \in Savers
      OBVIOUS
    <3>2. PICK file \in Savers : /\ pc' = [pc EXCEPT ![p] = "writing"]
                                 /\ tmp' = file
                                 /\ fd' = [fd EXCEPT ![p] = file]
                                 /\ data' = [data EXCEPT ![file] = "empty"]
      BY <2>2, <3>1 DEF OpenTmp
    <3> QED
      BY <2>2, <3>2 DEF OpenTmp
  <2>3. CASE WriteTmp(p)
    <3>1. PICK d \in {p, "torn"} : data' = [data EXCEPT ![fd[p]] = d]
      BY <2>3 DEF WriteTmp
    <3>2. data' \in [Savers -> Savers \cup {"empty", "torn"}]
      BY <3>1
    <3> QED
      BY <2>3, <3>2 DEF WriteTmp
  <2>4. CASE Rename(p)
    BY <2>4 DEF Rename
  <2> QED
    BY <1>4, <2>1, <2>2, <2>3, <2>4
<1>5. ASSUME NEW p \in Savers, RemovePath(p) \/ RemoveTmp(p) \/ IoFails(p)
      PROVE  TypeInvariant'
  BY <1>5 DEF RemovePath, RemoveTmp, IoFails
<1>6. ASSUME NEW p \in Savers, Release(p)
      PROVE  TypeInvariant'
  BY <1>6, LockFields DEF Release, RemoveLock
<1>7. ASSUME NEW p \in Savers, Crash(p)
      PROVE  TypeInvariant'
  BY <1>7, FsLockAssumption DEF Crash, WaitLimit
<1>8. CASE Tick
  <2>1. \A p \in Savers : Grow(waited[p], WaitLimit) \in 0 .. WaitLimit + 1
    BY FsLockAssumption DEF Grow, WaitLimit
  <2>2. 0 \in 0 .. WaitLimit + 1
    BY FsLockAssumption DEF WaitLimit
  <2> QED
    BY <1>8, <2>1, <2>2, AgedType DEF Tick
<1>9. CASE UNCHANGED vars
  BY <1>9 DEF vars
<1> QED
  BY <1>1, <1>2, <1>3, <1>4, <1>5, <1>6, <1>7, <1>8, <1>9 DEF Next, Work

-----------------------------------------------------------------------------
\* A saver that has yet to stamp the lock it created finds it without a stamp.
StampedOnce ==
    \A p \in Savers :
        pc[p] = "stamping" /\ lock # NoFile /\ lock.by = p => ~lock.stamped

\* The stations of a writer that nobody disturbs: the temporary file is its own
\* from its creation to its renaming, and the session file never is before.
AtStation(p) ==
    /\ pc[p] = "cleared" => IF op[p] = "save" THEN tmp = NoFile ELSE path = NoFile
    /\ pc[p] = "writing" => op[p] = "save" /\ tmp = p /\ fd[p] = p /\ data[p] = "empty"
    /\ pc[p] = "written" => op[p] = "save" /\ tmp = p /\ data[p] = p
    /\ pc[p] = "releasing" /\ result[p] = "ok" =>
          IF op[p] = "save" THEN path \in Savers /\ data[path] = p ELSE path = NoFile
    /\ path = p => pc[p] \in {"releasing", "over", "dead"}

Undisturbed ==
    overtaken = {} =>
        /\ \A p \in Savers : pc[p] \in Holding => lock # NoFile /\ lock.by = p
        /\ \A p \in Savers : AtStation(p)
        /\ IsWhole

Inv == TypeInvariant /\ StampedOnce /\ LockHasKeeper /\ Undisturbed

\* The lock file and its creator, step by step.
LEMMA StepLock ==
    ASSUME Inv, TypeInvariant', [Next]_vars
    PROVE  StampedOnce' /\ LockHasKeeper'
<1> USE DEF Inv, TypeInvariant, StampedOnce, LockHasKeeper, callVars, fileVars, Goto,
            Ends, Waiting, Holding
<1>1. lock # NoFile => lock.by \in Savers /\ lock.stamped \in BOOLEAN
  BY LockFields
<1>2. ASSUME NEW p \in Savers, Begin(p) \/ ReadLock(p) \/ Judge(p)
      PROVE  StampedOnce' /\ LockHasKeeper'
  <2>1. /\ lock' = lock
        /\ pc[p] \in {"idle", "reading", "judging"}
        /\ \E to \in {"opening", "judging", "breaking", "over"} : pc' = [pc EXCEPT ![p] = to]
        /\ \A q \in Savers : q # p => result'[q] = result[q]
    BY <1>2 DEF Begin, ReadLock, Judge
  <2>2. lock # NoFile => lock.by # p
    BY <2>1
  <2> QED
    BY <1>1, <2>1, <2>2
<1>3. ASSUME NEW p \in Savers, OpenLock(p)
      PROVE  StampedOnce' /\ LockHasKeeper'
  <2>1. CASE lock = NoFile
    <3>1. /\ lock' = [by |-> p, stamped |-> FALSE, age |-> 0]
          /\ pc' = [pc EXCEPT ![p] = "stamping"]
      BY <1>3, <2>1 DEF OpenLock
    <3> QED
      BY <3>1
  <2>2. CASE lock # NoFile
    <3>1. lock' = lock /\ pc[p] = "opening" /\ pc' = [pc EXCEPT ![p] = "reading"]
          /\ result' = result
      BY <1>3, <2>2 DEF OpenLock
    <3> QED
      BY <1>1, <3>1
  <2> QED
    BY <2>1, <2>2
<1>4. ASSUME NEW p \in Savers, StampLock(p)
      PROVE  StampedOnce' /\ LockHasKeeper'
  <2>1. CASE lock # NoFile /\ lock.by = p
    <3>1. /\ lock' = [lock EXCEPT !.stamped = TRUE]
          /\ pc' = [pc EXCEPT ![p] = "holding"]
      BY <1>4, <2>1 DEF StampLock
    <3>2. lock'.by = p
      BY <2>1, <3>1 DEF Lock
    <3> QED
      BY <3>1, <3>2
  <2>2. CASE ~(lock # NoFile /\ lock.by = p)
    <3>1. lock' = lock /\ pc' = [pc EXCEPT ![p] = "holding"] /\ result' = result
      BY <1>4, <2>2 DEF StampLock
    <3> QED
      BY <1>1, <2>2, <3>1
  <2> QED
    BY <2>1, <2>2
<1>5. ASSUME NEW p \in Savers, LockFails(p)
      PROVE  StampedOnce' /\ LockHasKeeper'
  <2>1. /\ lock' = lock
        /\ pc[p] \in {"opening", "stamping"}
        /\ pc' = [pc EXCEPT ![p] = "over"]
        /\ result' = [result EXCEPT ![p] = "error"]
    BY <1>5 DEF LockFails
  <2> QED
    BY <1>1, <2>1
<1>6. ASSUME NEW p \in Savers, BreakLock(p) \/ Release(p)
      PROVE  StampedOnce' /\ LockHasKeeper'
  BY <1>6 DEF BreakLock, Release, RemoveLock
<1>7. ASSUME NEW p \in Savers,
             \/ ClearTmp(p) \/ OpenTmp(p) \/ WriteTmp(p) \/ Rename(p)
             \/ RemovePath(p) \/ RemoveTmp(p) \/ IoFails(p) \/ Crash(p)
      PROVE  StampedOnce' /\ LockHasKeeper'
  <2>1. /\ lock' = lock
        /\ pc[p] \in Waiting \cup Holding
        /\ \E to \in {"cleared", "writing", "written", "releasing", "dead"} :
              pc' = [pc EXCEPT ![p] = to]
        /\ \A q \in Savers : q # p => result'[q] = result[q]
    BY <1>7 DEF ClearTmp, OpenTmp, WriteTmp, Rename, RemovePath, RemoveTmp, IoFails, Crash,
                AtWork
  <2> QED
    BY <1>1, <2>1
<1>8. CASE Tick
  <2>1. /\ pc' = pc /\ result' = result
        /\ (lock' = NoFile) <=> (lock = NoFile)
        /\ lock # NoFile => lock'.by = lock.by /\ lock'.stamped = lock.stamped
    BY <1>8, AgedType DEF Tick
  <2> QED
    BY <1>1, <2>1
<1>9. CASE UNCHANGED vars
  BY <1>9 DEF vars
<1> QED
  BY <1>2, <1>3, <1>4, <1>5, <1>6, <1>7, <1>8, <1>9 DEF Next, Work
-----------------------------------------------------------------------------
\* overtaken only grows, so what it says of the next state it says of this one.
LEMMA OvertakenGrows ==
    ASSUME [Next]_vars, overtaken' = {}
    PROVE  overtaken = {}
BY DEF Next, Work, vars, callVars, fileVars, Begin, OpenLock, StampLock, LockFails, ReadLock,
       Judge, BreakLock, RemoveLock, ClearTmp, OpenTmp, WriteTmp, Rename, RemovePath,
       RemoveTmp, IoFails, Release, Tick, Crash

\* Whoever removes the lock without robbing a holder leaves no holder.
LEMMA RemovedFromNobody ==
    ASSUME Inv, NEW p \in Savers, RemoveLock(p), overtaken' = {}, overtaken = {}
    PROVE  \A q \in Savers \ {p} : pc[q] \notin Holding
<1> SUFFICES ASSUME NEW q \in Savers, q # p, pc[q] \in Holding
             PROVE  FALSE
  OBVIOUS
<1>1. lock # NoFile /\ lock.by = q
  BY DEF Inv, Undisturbed
<1>2. overtaken' = overtaken \cup {q}
  BY <1>1 DEF RemoveLock
<1> QED
  BY <1>2

\* A step of p that leaves the lock, the files and everybody else's place alone.
LEMMA ElsewhereUndisturbed ==
    ASSUME Inv, overtaken = {}, NEW p \in Savers,
           pc[p] \notin Holding, pc'[p] \notin Holding \cup {"idle"} \/ pc'[p] = pc[p],
           path = p => pc'[p] \in {"over", "dead"},
           \A q \in Savers : q # p => pc'[q] = pc[q] /\ result'[q] = result[q],
           UNCHANGED <<op, lock, tmp, path, fd, data>>
    PROVE  Undisturbed'
BY DEF Inv, Undisturbed, AtStation, IsWhole, Holding

LEMMA StepUndisturbed ==
    ASSUME Inv, TypeInvariant', [Next]_vars, overtaken' = {}
    PROVE  Undisturbed'
<1>1. /\ overtaken = {}
      /\ \A p \in Savers : pc[p] \in Holding => lock # NoFile /\ lock.by = p
      /\ \A p \in Savers : AtStation(p)
      /\ IsWhole
  BY OvertakenGrows DEF Inv, Undisturbed
<1>2. \A p, q \in Savers : pc[p] \in Holding /\ pc[q] \in Holding => p = q
  BY <1>1
<1>3. TypeInvariant
  BY DEF Inv
<1> USE DEF TypeInvariant, callVars, fileVars, Goto, Ends, WaitOver, Closed
<1>4. ASSUME NEW p \in Savers, Begin(p) \/ ReadLock(p) \/ Judge(p)
      PROVE  Undisturbed'
  <2>1. /\ UNCHANGED <<op, lock, tmp, path, fd, data>>
        /\ pc[p] \in {"idle", "reading", "judging"}
        /\ \E to \in {"opening", "judging", "breaking", "over"} : pc' = [pc EXCEPT ![p] = to]
        /\ \A q \in Savers : q # p => result'[q] = result[q]
    BY <1>4 DEF Begin, ReadLock, Judge
  <2>2. path # p
    BY <1>1, <2>1 DEF AtStation
  <2> QED
    BY <1>1, <1>3, <2>1, <2>2, ElsewhereUndisturbed DEF Holding
<1>5. ASSUME NEW p \in Savers, OpenLock(p)
      PROVE  Undisturbed'
  <2>1. path # p
    BY <1>1, <1>5 DEF AtStation, OpenLock
  <2>2. CASE lock = NoFile
    <3>1. /\ lock' = [by |-> p, stamped |-> FALSE, age |-> 0]
          /\ pc' = [pc EXCEPT ![p] = "stamping"]
          /\ UNCHANGED <<op, result, tmp, path, fd, data>>
      BY <1>5, <2>2 DEF OpenLock
    <3>2. \A q \in Savers : pc[q] \notin Holding
      BY <1>1, <2>2
    <3>3. lock' # NoFile /\ lock'.by = p
      <4>1. [by |-> p, stamped |-> FALSE, age |-> 0] \in Lock
        BY FsLockAssumption DEF Lock
      <4> QED
        BY <3>1, <4>1, LockFields
    <3>4. \A q \in Savers : pc'[q] \in Holding => q = p
      BY <1>3, <3>1, <3>2
    <3>5. \A q \in Savers : AtStation(q)'
      BY <1>1, <1>3, <2>1, <3>1 DEF AtStation
    <3>6. IsWhole'
      BY <1>1, <3>1 DEF IsWhole
    <3> QED
      BY <3>3, <3>5, <3>6, <3>4 DEF Undisturbed
  <2>3. CASE lock # NoFile
    <3>1. /\ pc[p] = "opening" /\ pc' = [pc EXCEPT ![p] = "reading"]
          /\ UNCHANGED <<op, result, lock, tmp, path, fd, data>>
      BY <1>5, <2>3 DEF OpenLock
    <3> QED
      BY <1>1, <1>3, <2>1, <3>1, ElsewhereUndisturbed DEF Holding
  <2> QED
    BY <2>2, <2>3
<1>6. ASSUME NEW p \in Savers, StampLock(p)
      PROVE  Undisturbed'
  <2>1. lock # NoFile /\ lock.by = p
    BY <1>1, <1>6 DEF StampLock, Holding
  <2>2. /\ pc[p] = "stamping" /\ pc' = [pc EXCEPT ![p] = "holding"]
        /\ lock' = [lock EXCEPT !.stamped = TRUE]
        /\ UNCHANGED <<op, result, tmp, path, fd, data>>
    BY <1>6, <2>1 DEF StampLock
  <2>3. lock' # NoFile /\ lock'.by = p
    <3>1. lock \in Lock /\ lock' = [lock EXCEPT !.stamped = TRUE]
      BY <1>3, <2>1, <2>2
    <3>2. lock' \in Lock /\ lock'.by = lock.by
      BY <3>1 DEF Lock
    <3> QED
      BY <2>1, <3>2, LockFields
  <2>4. \A q \in Savers : pc'[q] \in Holding => q = p
    BY <1>1, <1>3, <2>1, <2>2 DEF Holding
  <2>5. \A q \in Savers : AtStation(q)'
    BY <1>1, <1>3, <2>2 DEF AtStation
  <2>6. IsWhole'
    BY <1>1, <2>2 DEF IsWhole
  <2> QED
    BY <2>3, <2>4, <2>5, <2>6 DEF Undisturbed
<1>7. ASSUME NEW p \in Savers, LockFails(p)
      PROVE  Undisturbed'
  <2>1. /\ pc[p] \in {"opening", "stamping"} /\ pc' = [pc EXCEPT ![p] = "over"]
        /\ result' = [result EXCEPT ![p] = "error"]
        /\ UNCHANGED <<op, lock, tmp, path, fd, data>>
    BY <1>7 DEF LockFails
  <2>2. \A q \in Savers : pc'[q] \in Holding => lock' # NoFile /\ lock'.by = q
    BY <1>1, <1>3, <2>1 DEF Holding
  <2>3. \A q \in Savers : AtStation(q)'
    BY <1>1, <1>3, <2>1 DEF AtStation
  <2> QED
    BY <1>1, <2>1, <2>2, <2>3 DEF Undisturbed, IsWhole
<1>8. ASSUME NEW p \in Savers, BreakLock(p) \/ Release(p)
      PROVE  Undisturbed'
  <2>1. /\ pc[p] \in {"breaking", "releasing"}
        /\ pc' = [pc EXCEPT ![p] = IF pc[p] = "breaking" THEN "opening" ELSE "over"]
        /\ RemoveLock(p)
        /\ UNCHANGED <<op, result, tmp, path, fd, data>>
    BY <1>8 DEF BreakLock, Release
  <2>2. \A q \in Savers \ {p} : pc[q] \notin Holding
    BY <1>1, <2>1, RemovedFromNobody
  <2>3. \A q \in Savers : pc'[q] \notin Holding
    BY <1>3, <2>1, <2>2 DEF Holding
  <2>4. \A q \in Savers : AtStation(q)'
    BY <1>1, <1>3, <2>1 DEF AtStation
  <2>5. IsWhole'
    BY <1>1, <2>1 DEF IsWhole
  <2> QED
    BY <2>3, <2>4, <2>5 DEF Undisturbed
<1>9. ASSUME NEW p \in Savers,
             \/ ClearTmp(p) \/ OpenTmp(p) \/ WriteTmp(p) \/ Rename(p)
             \/ RemovePath(p) \/ RemoveTmp(p) \/ IoFails(p)
      PROVE  Undisturbed'
  <2>1. /\ pc[p] \in Holding
        /\ \E to \in {"cleared", "writing", "written", "releasing"} :
              pc' = [pc EXCEPT ![p] = to]
        /\ lock' = lock
    BY <1>9 DEF ClearTmp, OpenTmp, WriteTmp, Rename, RemovePath, RemoveTmp, IoFails, Holding
  <2>2. \A q \in Savers \ {p} : pc[q] \notin Holding /\ pc'[q] = pc[q]
    BY <1>2, <1>3, <2>1
  <2>3. \A q \in Savers : pc'[q] \in Holding => lock' # NoFile /\ lock'.by = q
    BY <1>1, <2>1, <2>2
  <2>4. (\A q \in Savers : AtStation(q)') /\ IsWhole'
    <3>1. CASE ClearTmp(p)
      <4>1. pc[p] = "holding" /\ pc' = [pc EXCEPT ![p] = "cleared"] /\ tmp' = NoFile
            /\ op[p] = "save" /\ UNCHANGED <<op, result, path, fd, data>>
        BY <3>1 DEF ClearTmp
      <4>2. path # p
        BY <1>1, <4>1 DEF AtStation
      <4> QED
        BY <1>1, <1>3, <2>2, <4>1, <4>2 DEF AtStation, IsWhole, Holding
    <3>2. CASE RemovePath(p)
      <4>1. /\ op[p] = "delete" /\ pc' = [pc EXCEPT ![p] = "cleared"] /\ path' = NoFile
            /\ UNCHANGED <<op, result, tmp, fd, data>>
        BY <3>2 DEF RemovePath
      <4> QED
        BY <1>1, <1>3, <2>2, <4>1, FsLockAssumption DEF AtStation, IsWhole, Holding
    <3>3. CASE RemoveTmp(p)
      <4>1. /\ op[p] = "delete" /\ pc[p] = "cleared"
            /\ pc' = [pc EXCEPT ![p] = "releasing"] /\ tmp' = NoFile
            /\ UNCHANGED <<op, path, fd, data>>
            /\ \A q \in Savers : q # p => result'[q] = result[q]
        BY <3>3 DEF RemoveTmp
      <4> QED
        BY <1>1, <1>3, <2>2, <4>1, FsLockAssumption DEF AtStation, IsWhole, Holding
    <3>4. CASE OpenTmp(p)
      <4>1. tmp = NoFile /\ path # p
        BY <1>1, <3>4 DEF OpenTmp, AtStation
      <4>2. /\ pc' = [pc EXCEPT ![p] = "writing"]
            /\ tmp' = p
            /\ fd' = [fd EXCEPT ![p] = p]
            /\ data' = [data EXCEPT ![p] = "empty"]
            /\ op[p] = "save"
            /\ UNCHANGED <<op, result, path>>
        BY <3>4, <4>1 DEF OpenTmp
      <4>3. IsWhole'
        BY <1>1, <1>3, <4>1, <4>2 DEF IsWhole
      <4>4. AtStation(p)'
        BY <1>3, <4>1, <4>2 DEF AtStation
      <4>5. \A q \in Savers \ {p} : AtStation(q)'
        BY <1>1, <1>3, <2>2, <4>1, <4>2 DEF AtStation, Holding
      <4> QED
        BY <4>3, <4>4, <4>5
    <3>5. CASE WriteTmp(p)
      <4>1. op[p] = "save" /\ fd[p] = p /\ tmp = p /\ data[p] = "empty" /\ path # p
        BY <1>1, <3>5 DEF WriteTmp, AtStation
      <4>2. /\ pc' = [pc EXCEPT ![p] = "written"]
            /\ data' = [data EXCEPT ![p] = p]
            /\ UNCHANGED <<op, result, tmp, path>>
        BY <3>5, <4>1 DEF WriteTmp
      <4>3. IsWhole'
        BY <1>1, <1>3, <4>1, <4>2 DEF IsWhole
      <4>4. AtStation(p)'
        BY <1>3, <4>1, <4>2 DEF AtStation
      <4>5. \A q \in Savers \ {p} : AtStation(q)'
        BY <1>1, <1>3, <2>2, <4>1, <4>2 DEF AtStation, Holding
      <4> QED
        BY <4>3, <4>4, <4>5
    <3>6. CASE Rename(p)
      <4>1. tmp = p /\ data[p] = p
        BY <1>1, <3>6 DEF Rename, AtStation
      <4>2. /\ pc' = [pc EXCEPT ![p] = "releasing"]
            /\ path' = p
            /\ UNCHANGED <<op, fd, data>>
        BY <1>3, <3>6, <4>1, FsLockAssumption DEF Rename
      <4>3. op[p] = "save"
        BY <1>1, <3>6 DEF Rename, AtStation
      <4> QED
        BY <1>1, <1>3, <2>2, <4>1, <4>2, <4>3 DEF AtStation, IsWhole, Holding
    <3>7. CASE IoFails(p)
      <4>1. pc[p] \notin {"releasing", "over", "dead"}
        BY <3>7 DEF IoFails
      <4> QED
        BY <1>1, <1>3, <2>2, <3>7, <4>1 DEF IoFails, AtStation, IsWhole, Holding
    <3> QED
      BY <1>9, <3>1, <3>4, <3>5, <3>6, <3>7, <3>2, <3>3
  <2> QED
    BY <2>3, <2>4 DEF Undisturbed
<1>10. ASSUME NEW p \in Savers, Crash(p)
      PROVE  Undisturbed'
  <2>1. /\ pc' = [pc EXCEPT ![p] = "dead"]
        /\ fd' = [fd EXCEPT ![p] = NoFile]
        /\ UNCHANGED <<op, result, lock, tmp, path, data>>
    BY <1>10 DEF Crash
  <2>2. \A q \in Savers : pc'[q] \in Holding => lock' # NoFile /\ lock'.by = q
    BY <1>1, <1>3, <2>1 DEF Holding
  <2>3. \A q \in Savers : AtStation(q)'
    BY <1>1, <1>3, <2>1 DEF AtStation
  <2> QED
    BY <1>1, <2>1, <2>2, <2>3 DEF Undisturbed, IsWhole
<1>11. CASE Tick
  <2>1. /\ UNCHANGED <<pc, op, result, tmp, path, fd, data>>
        /\ (lock' = NoFile) <=> (lock = NoFile)
        /\ lock # NoFile => lock'.by = lock.by
    BY <1>3, <1>11, AgedType DEF Tick
  <2>2. \A q \in Savers : AtStation(q)'
    BY <1>1, <2>1 DEF AtStation
  <2> QED
    BY <1>1, <2>1, <2>2 DEF Undisturbed, IsWhole
<1>12. CASE UNCHANGED vars
  BY <1>1, <1>12 DEF vars, Undisturbed, AtStation, IsWhole
<1> QED
  BY <1>4, <1>5, <1>6, <1>7, <1>8, <1>9, <1>10, <1>11, <1>12 DEF Next, Work

LEMMA InitInv == Init => Inv
BY InitType, FsLockAssumption DEF Init, Inv, StampedOnce, LockHasKeeper, Undisturbed, AtStation,
   IsWhole, Holding

LEMMA StepInv == Inv /\ [Next]_vars => Inv'
<1> SUFFICES ASSUME Inv, [Next]_vars
             PROVE  Inv'
  OBVIOUS
<1>1. TypeInvariant'
  BY StepType DEF Inv
<1>2. StampedOnce' /\ LockHasKeeper'
  BY <1>1, StepLock
<1>3. Undisturbed'
  <2>1. CASE overtaken' = {}
    BY <1>1, <2>1, StepUndisturbed
  <2>2. CASE overtaken' # {}
    BY <2>2 DEF Undisturbed
  <2> QED
    BY <2>1, <2>2
<1> QED
  BY <1>1, <1>2, <1>3 DEF Inv

\* Inv is an invariant of the file store: the inductive argument of what follows.
THEOREM FsLockInductive == Spec => []Inv
BY InitInv, StepInv, PTL DEF Spec

\* Every variable keeps its type, for any set of calls and any timeout.
THEOREM FsLockTypeCorrect == Spec => []TypeInvariant
<1>1. Inv => TypeInvariant
  BY DEF Inv
<1> QED
  BY <1>1, FsLockInductive, PTL

\* While no live holder is robbed, whoever is past acquireLock has the lock file.
THEOREM FsLockExcludes == Spec => []ExclusiveUnlessOvertaken
<1>1. Inv => ExclusiveUnlessOvertaken
  BY DEF Inv, Undisturbed, ExclusiveUnlessOvertaken
<1> QED
  BY <1>1, FsLockInductive, PTL

\* ... and the session file is whole, and holds what the last save() wrote.
THEOREM FsLockStoresWhole == Spec => []StoredUnlessOvertaken
<1>1. Inv => StoredUnlessOvertaken
  BY DEF Inv, Undisturbed, AtStation, StoredUnlessOvertaken
<1> QED
  BY <1>1, FsLockInductive, PTL

\* No ordinary end of save() or delete() leaves a lock file of its own behind.
THEOREM FsLockLeavesNone == Spec => []LockHasKeeper
<1>1. Inv => LockHasKeeper
  BY DEF Inv
<1> QED
  BY <1>1, FsLockInductive, PTL

-----------------------------------------------------------------------------
\* A waiting call knows everybody at work; what it has not yet waited for is zero,
\* and what it has read it holds only until it has judged it.
MetKnown ==
    \A p \in Savers : pc[p] \in Waiting =>
        \A q \in Savers : q # p /\ AtWork(q) => q \in met[p]

Tidy ==
    \A p \in Savers :
        /\ pc[p] \notin Waiting => waited[p] = 0
        /\ pc[p] # "judging" => seen[p] = NoFile
        /\ result[p] = "gaveUp" => pc[p] = "over"

\* The lock file l has been there for as long as p has waited, or is stale.
OlderThanWait(l, p) == l # NoFile => Stale(l) \/ l.age >= waited[p]

\* Nobody touches the lock file a lone call waits for: it does not vanish between
\* the calls that find it, read it and judge it, and it ages as the wait goes on.
Lone(p) == pc[p] \in Waiting /\ met[p] = {}

LoneWait ==
    \A p \in Savers : Lone(p) =>
        /\ OlderThanWait(lock, p)
        /\ OlderThanWait(seen[p], p)
        /\ pc[p] = "reading" => lock # NoFile
        /\ pc[p] = "judging" => seen[p] # NoFile

LoneInv == Inv /\ MetKnown /\ Tidy /\ LoneWait /\ LoneSaverSucceeds

Own(p) == Work(p) \/ LockFails(p) \/ IoFails(p) \/ Crash(p)

\* What p does while at work it does to itself, to the lock and to the files.
LEMMA OwnStep ==
    ASSUME TypeInvariant, NEW p \in Savers, Own(p)
    PROVE  /\ AtWork(p)
           /\ met' = met
           /\ pc'[p] # "idle"
           /\ pc'[p] \in Waiting => pc[p] \in Waiting
           /\ \A q \in Savers \ {p} :
                 /\ pc'[q] = pc[q]
                 /\ waited'[q] = waited[q]
                 /\ seen'[q] = seen[q]
                 /\ result'[q] = result[q]
<1> USE DEF TypeInvariant, callVars, fileVars, Goto, Ends, WaitOver, AtWork, Waiting, Holding
<1>1. CASE OpenLock(p) \/ StampLock(p) \/ LockFails(p)
  BY <1>1 DEF OpenLock, StampLock, LockFails
<1>2. CASE ReadLock(p) \/ Judge(p) \/ BreakLock(p)
  BY <1>2 DEF ReadLock, Judge, BreakLock
<1>3. CASE ClearTmp(p) \/ OpenTmp(p) \/ WriteTmp(p) \/ Rename(p)
  BY <1>3 DEF ClearTmp, OpenTmp, WriteTmp, Rename
<1>4. CASE RemovePath(p) \/ RemoveTmp(p) \/ IoFails(p) \/ Release(p) \/ Crash(p)
  BY <1>4 DEF RemovePath, RemoveTmp, IoFails, Release, Crash
<1> QED
  BY <1>1, <1>2, <1>3, <1>4 DEF Own, Work

LEMMA NextIsOwn ==
    ASSUME [Next]_vars
    PROVE  \/ \E p \in Savers : Begin(p) \/ Own(p)
           \/ Tick
           \/ UNCHANGED vars
BY DEF Next, Own

LEMMA StepMetKnown ==
    ASSUME TypeInvariant, MetKnown, [Next]_vars
    PROVE  MetKnown'
<1> USE DEF TypeInvariant, MetKnown, AtWork
<1>1. ASSUME NEW p \in Savers, Begin(p)
      PROVE  MetKnown'
  BY <1>1 DEF Begin, Goto, Waiting, Holding
<1>2. ASSUME NEW p \in Savers, Own(p)
      PROVE  MetKnown'
  <2>1. \A q \in Savers : pc'[q] \in Waiting => pc[q] \in Waiting
    BY <1>2, OwnStep
  <2>2. \A q \in Savers : AtWork(q)' => AtWork(q)
    BY <1>2, OwnStep
  <2> QED
    BY <1>2, <2>1, <2>2, OwnStep
<1>3. CASE Tick \/ UNCHANGED vars
  BY <1>3 DEF Tick, vars
<1> QED
  BY <1>1, <1>2, <1>3, NextIsOwn

\* The ages of the lock and of the wait grow together.
LEMMA TickOlder ==
    ASSUME NEW l \in Lock \cup {NoFile}, NEW w \in 0 .. WaitLimit + 1,
           l # NoFile => Stale(l) \/ l.age >= w
    PROVE  Aged(l) # NoFile => Stale(Aged(l)) \/ Aged(l).age >= Grow(w, WaitLimit)
<1> SUFFICES ASSUME l # NoFile
             PROVE  Stale(Aged(l)) \/ Aged(l).age >= Grow(w, WaitLimit)
  BY AgedType
<1>1. l \in Lock /\ l.age \in Ages /\ Aged(l).stamped = l.stamped
  BY LockFields, AgedType
<1>2. CASE ~l.stamped
  BY <1>1, <1>2 DEF Stale
<1>3. CASE l.stamped
  <2>1. Aged(l).age = Grow(l.age, LockTimeout)
    BY <1>1, <1>3 DEF Aged, Lock
  <2> QED
    BY <1>1, <1>3, <2>1, FsLockAssumption DEF Grow, Stale, WaitLimit, Ages
<1> QED
  BY <1>2, <1>3

LEMMA StepLone ==
    ASSUME LoneInv, TypeInvariant', MetKnown', [Next]_vars
    PROVE  Tidy' /\ LoneWait' /\ LoneSaverSucceeds'
<1>1. TypeInvariant /\ MetKnown /\ Tidy /\ LoneWait /\ LoneSaverSucceeds
  BY DEF LoneInv, Inv
<1> USE DEF TypeInvariant, Tidy, LoneWait, Lone, LoneSaverSucceeds, OlderThanWait
<1>2. ASSUME NEW p \in Savers, Begin(p)
      PROVE  Tidy' /\ LoneWait' /\ LoneSaverSucceeds'
  <2>1. /\ pc[p] = "idle" /\ pc' = [pc EXCEPT ![p] = "opening"]
        /\ \A q \in Savers : q # p => met[q] \subseteq met'[q]
        /\ \A q \in Savers : q # p /\ pc[q] \in Waiting => p \in met'[q]
        /\ UNCHANGED <<result, waited, seen, lock>>
    BY <1>1, <1>2 DEF Begin, Goto, callVars
  <2>2. Tidy'
    BY <1>1, <2>1 DEF Waiting
  <2>3. waited'[p] = 0 /\ seen'[p] = NoFile /\ pc'[p] = "opening"
    BY <1>1, <2>1 DEF Waiting
  <2>4. OlderThanWait(lock, p)' /\ OlderThanWait(seen[p], p)'
    BY <1>1, <2>1, <2>3, LockFields, FsLockAssumption DEF Ages
  <2>5. \A q \in Savers : Lone(q)' => q = p
    BY <1>1, <2>1
  <2>6. LoneWait'
    BY <2>3, <2>4, <2>5
  <2>7. LoneSaverSucceeds'
    BY <1>1, <2>1
  <2> QED
    BY <2>2, <2>6, <2>7
<1>3. ASSUME NEW p \in Savers, Own(p)
      PROVE  Tidy' /\ LoneWait' /\ LoneSaverSucceeds'
  <2>1. /\ AtWork(p)
        /\ met' = met
        /\ pc'[p] # "idle"
        /\ \A q \in Savers \ {p} :
              /\ pc'[q] = pc[q] /\ waited'[q] = waited[q]
              /\ seen'[q] = seen[q] /\ result'[q] = result[q]
    BY <1>1, <1>3, OwnStep
  <2>2. \A q \in Savers \ {p} : ~Lone(q) /\ ~Lone(q)'
    BY <1>1, <2>1 DEF MetKnown
  <2>3. CASE \/ StampLock(p) \/ ClearTmp(p) \/ OpenTmp(p) \/ WriteTmp(p) \/ Rename(p)
             \/ RemovePath(p) \/ RemoveTmp(p) \/ IoFails(p) \/ Release(p)
    <3>1. /\ pc[p] \in Holding /\ pc'[p] \notin Waiting
          /\ UNCHANGED <<waited, seen>>
          /\ result'[p] # "gaveUp"
      BY <1>1, <2>3 DEF StampLock, ClearTmp, OpenTmp, WriteTmp, Rename, RemovePath,
         RemoveTmp, IoFails, Release, Goto, Ends, callVars, Waiting, Holding
    <3> QED
      BY <1>1, <2>1, <2>2, <3>1 DEF Waiting, Holding
  <2>4. CASE LockFails(p) \/ Crash(p)
    <3>1. /\ pc'[p] \in {"over", "dead"}
          /\ waited'[p] = 0
          /\ seen'[p] = NoFile
          /\ result'[p] # "gaveUp"
      BY <1>1, <2>1, <2>4 DEF LockFails, Crash, Goto, Ends, WaitOver, AtWork, Waiting, Holding
    <3> QED
      BY <1>1, <2>1, <2>2, <3>1 DEF Waiting
  <2>5. CASE OpenLock(p)
    <3>1. /\ pc[p] = "opening" /\ pc'[p] \in {"stamping", "reading"}
          /\ pc'[p] = "stamping" => waited'[p] = 0
          /\ pc'[p] = "reading" => lock # NoFile /\ UNCHANGED <<lock, waited>>
          /\ UNCHANGED <<result, seen>>
      BY <1>1, <2>5 DEF OpenLock, Goto, WaitOver
    <3>2. Tidy'
      BY <1>1, <2>1, <3>1 DEF Waiting
    <3>3. LoneWait'
      BY <1>1, <2>1, <2>2, <3>1 DEF Waiting
    <3> QED
      BY <1>1, <2>1, <3>1, <3>2, <3>3
  <2>6. CASE ReadLock(p)
    <3>1. /\ pc[p] = "reading" /\ pc'[p] = "judging" /\ seen'[p] = lock
          /\ UNCHANGED <<result, waited, lock>>
      BY <1>1, <2>6 DEF ReadLock, Goto
    <3> QED
      BY <1>1, <2>1, <2>2, <3>1 DEF Waiting
  <2>7. CASE Judge(p)
    <3>1. /\ pc[p] = "judging" /\ pc'[p] \in {"breaking", "over", "opening"}
          /\ seen'[p] = NoFile
          /\ lock' = lock
          /\ pc'[p] # "over" => result'[p] = result[p] /\ waited'[p] = waited[p]
          /\ pc'[p] = "over" => waited'[p] = 0 /\ waited[p] > WaitLimit /\ ~Breakable(seen[p])
      BY <1>1, <2>7 DEF Judge, Goto, Ends, WaitOver
    <3>2. ASSUME pc'[p] = "over", met[p] = {}
          PROVE  FALSE
      <4>1. seen[p] # NoFile /\ ~Stale(seen[p])
        BY <1>1, <3>1, <3>2 DEF Breakable, Waiting
      <4>2. seen[p].age >= waited[p]
        BY <1>1, <3>1, <3>2, <4>1 DEF Waiting
      <4>3. seen[p].age \in Ages /\ seen[p].age <= LockTimeout
        BY <1>1, <4>1, LockFields, FsLockAssumption DEF Stale, Ages
      <4> QED
        BY <1>1, <3>1, <3>2, <4>2, <4>3, FsLockAssumption DEF WaitLimit, Ages
    <3>3. Tidy'
      BY <1>1, <2>1, <3>1 DEF Waiting
    <3>4. LoneWait'
      BY <1>1, <2>1, <2>2, <3>1 DEF Waiting
    <3>5. LoneSaverSucceeds'
      BY <1>1, <2>1, <3>1, <3>2
    <3> QED
      BY <3>3, <3>4, <3>5
  <2>8. CASE BreakLock(p)
    <3>1. /\ pc[p] = "breaking" /\ pc'[p] = "opening" /\ lock' = NoFile
          /\ UNCHANGED <<result, waited, seen>>
      BY <1>1, <2>8 DEF BreakLock, RemoveLock, Goto, callVars
    <3> QED
      BY <1>1, <2>1, <2>2, <3>1 DEF Waiting
  <2> QED
    BY <1>3, <2>3, <2>4, <2>5, <2>6, <2>7, <2>8 DEF Own, Work
<1>4. CASE Tick
  <2>1. /\ UNCHANGED <<pc, result, met>>
        /\ lock' = Aged(lock)
        /\ \A p \in Savers : seen'[p] = Aged(seen[p])
        /\ \A p \in Savers : waited'[p] = IF pc[p] \in Waiting
                                          THEN Grow(waited[p], WaitLimit) ELSE 0
    BY <1>1, <1>4 DEF Tick
  <2>2. Tidy'
    BY <1>1, <2>1, AgedType
  <2>3. ASSUME NEW p \in Savers, Lone(p)'
        PROVE  /\ OlderThanWait(lock, p)'
               /\ OlderThanWait(seen[p], p)'
               /\ pc'[p] = "reading" => lock' # NoFile
               /\ pc'[p] = "judging" => seen'[p] # NoFile
    <3>1. Lone(p) /\ waited'[p] = Grow(waited[p], WaitLimit)
      BY <2>1, <2>3
    <3>2. OlderThanWait(lock, p)' /\ OlderThanWait(seen[p], p)'
      BY <1>1, <2>1, <3>1, TickOlder
    <3> QED
      BY <1>1, <2>1, <3>1, <3>2, AgedType
  <2> QED
    BY <1>1, <2>1, <2>2, <2>3
<1>5. CASE UNCHANGED vars
  BY <1>1, <1>5 DEF vars, callVars
<1> QED
  BY <1>2, <1>3, <1>4, <1>5, NextIsOwn

\* What a crash or a failed write left never turns a later call away.
THEOREM FsLockLoneSaver == Spec => []LoneSaverSucceeds
<1>1. Init => LoneInv
  BY InitInv, FsLockAssumption DEF Init, LoneInv, MetKnown, Tidy, LoneWait, Lone,
     LoneSaverSucceeds, Waiting
<1>2. LoneInv /\ [Next]_vars => LoneInv'
  <2> SUFFICES ASSUME LoneInv, [Next]_vars
               PROVE  LoneInv'
    OBVIOUS
  <2>1. Inv'
    BY StepInv DEF LoneInv
  <2>2. MetKnown'
    BY StepMetKnown DEF LoneInv, Inv
  <2>3. Tidy' /\ LoneWait' /\ LoneSaverSucceeds'
    BY <2>1, <2>2, StepLone DEF Inv
  <2> QED
    BY <2>1, <2>2, <2>3 DEF LoneInv
<1>3. LoneInv => LoneSaverSucceeds
  BY DEF LoneInv
<1> QED
  BY <1>1, <1>2, <1>3, PTL DEF Spec

-----------------------------------------------------------------------------
\* The language server.

\* A live server has been told once, at most, that a file is open; the one that is in use, of
\* open files only; and no other server of any.
Told ==
    /\ \A s \in Spawned, f \in LspFiles : servers[s].told[f] <= 1
    /\ \A s \in Spawned, f \in LspFiles : servers[s].state # "alive" => servers[s].told[f] = 0
    /\ lsp.process # None =>
          /\ servers[lsp.process].state # "none"
          /\ \A f \in LspFiles : servers[lsp.process].told[f] # 0 => f \in lsp.openFiles

\* A file that is not open has one reader, if somebody is opening it.
Readers ==
    /\ \A c \in LspCalls : call[c].pc = "reading" =>
          call[c].file \in lsp.opening \ lsp.openFiles /\ call[c].file \in LspFiles
    /\ \A c, d \in LspCalls :
          call[c].pc = "reading" /\ call[d].pc = "reading" /\ call[c].file = call[d].file => c = d

\* Nothing is opened, and no call gets anywhere, before the first server is there.
Started ==
    /\ servers[1].state = "none" =>
          /\ ~lsp.initialized /\ lsp.openFiles = {}
          /\ \A c \in LspCalls : call[c].pc \in {"new", "failed", "done"}
    /\ call[Shutdown].about # "initialize"

\* As long as there was one server and no shutdown: it is the one in use, it knows of all open
\* files, and a request about a file is made for an open one.
OnlyServer == (\A s \in Spawned : s > 1 => servers[s].state = "none") /\ call[Shutdown].pc = "new"
AsksOpen(c) ==
    call[c].pc = "ask" \/ (call[c].pc \in {"draining", "pending"} /\ call[c].about = "file")
        => call[c].file \in lsp.openFiles
Knows ==
    OnlyServer =>
        /\ Alive(1) => /\ lsp.process = 1
                       /\ \A f \in lsp.openFiles : servers[1].told[f] = 1
        /\ \A c \in LspCalls : AsksOpen(c)

LspIInv == LspTypeInvariant /\ Told /\ Readers /\ Started /\ Knows

USE LspClientAssumption DEF LspClientAssumption, None

LspPcs == {"new", "spawned", "ready", "reading", "waiting", "ask", "draining", "pending",
           "exiting", "done", "failed"}
LspCallRecord == [pc : LspPcs, about : {"initialize", "file", "shutdown"},
                  file : LspFiles \cup {NoLspFile}, to : 0 .. MaxServers]
LspFields == [process : 0 .. MaxServers, initialized : BOOLEAN, startFailed : BOOLEAN,
              openFiles : SUBSET LspFiles, opening : SUBSET LspFiles]
ServerRecord == [state : {"none", "alive", "exited", "killed"}, told : [LspFiles -> 0 .. 2]]

LEMMA LspTypes ==
    LspTypeInvariant <=> /\ lsp \in LspFields
                         /\ servers \in [Spawned -> ServerRecord]
                         /\ call \in [LspActors -> LspCallRecord]
BY DEF LspTypeInvariant, LspFields, ServerRecord, LspCallRecord, LspPcs

LEMMA LspTypesPrime ==
    LspTypeInvariant' <=> /\ lsp' \in LspFields
                          /\ servers' \in [Spawned -> ServerRecord]
                          /\ call' \in [LspActors -> LspCallRecord]
BY DEF LspTypeInvariant, LspFields, ServerRecord, LspCallRecord, LspPcs

LEMMA LspActorsAre ==
    /\ Shutdown \in LspActors /\ LspCalls \subseteq LspActors
    /\ \A c \in LspCalls : c # Shutdown
    /\ \A c \in LspActors : c # Shutdown => c \in LspCalls
    /\ 1 \in Spawned /\ Spawned \subseteq Nat /\ (\A s \in Spawned : s # 0)
    /\ \A s \in 0 .. MaxServers : s # 0 => s \in Spawned
BY DEF LspActors, Spawned

\* A call that moves keeps its file.
LEMMA AtIs ==
    ASSUME LspTypeInvariant, NEW c \in LspActors, NEW at \in LspPcs
    PROVE  /\ At(c, at) \in LspCallRecord
           /\ At(c, at).pc = at /\ At(c, at).about = "file" /\ At(c, at).file = call[c].file
<1>1. call[c] \in LspCallRecord
  BY LspTypes
<1>2. /\ [call[c] EXCEPT !.pc = at] \in LspCallRecord
      /\ [call[c] EXCEPT !.pc = at].pc = at /\ [call[c] EXCEPT !.pc = at].file = call[c].file
  BY <1>1 DEF LspCallRecord
<1> DEFINE r == [call[c] EXCEPT !.pc = at]
<1>3. At(c, at) = [r EXCEPT !.about = "file", !.to = 0]
  BY DEF At
<1> HIDE DEF r
<1>4. r \in LspCallRecord /\ r.pc = at /\ r.file = call[c].file
  BY <1>2 DEF r
<1>5. 0 \in 0 .. MaxServers
  OBVIOUS
<1>6. ASSUME NEW v \in LspCallRecord
      PROVE  /\ [v EXCEPT !.about = "file"] \in LspCallRecord
             /\ [v EXCEPT !.about = "file"].about = "file"
             /\ [v EXCEPT !.about = "file"].pc = v.pc /\ [v EXCEPT !.about = "file"].file = v.file
  BY DEF LspCallRecord
<1>7. ASSUME NEW v \in LspCallRecord
      PROVE  /\ [v EXCEPT !.to = 0] \in LspCallRecord /\ [v EXCEPT !.to = 0].about = v.about
             /\ [v EXCEPT !.to = 0].pc = v.pc /\ [v EXCEPT !.to = 0].file = v.file
  BY <1>5 DEF LspCallRecord
<1> DEFINE q == [r EXCEPT !.about = "file"]
<1>8. At(c, at) = [q EXCEPT !.to = 0]
  BY <1>3
<1>9. q \in LspCallRecord /\ q.about = "file" /\ q.pc = at /\ q.file = call[c].file
  BY <1>4, <1>6
<1> HIDE DEF q
<1> QED
  BY <1>7, <1>8, <1>9

LEMMA GoesIs ==
    ASSUME LspTypeInvariant, NEW c \in LspActors, NEW at \in LspPcs, Goes(c, at)
    PROVE  /\ call' \in [LspActors -> LspCallRecord]
           /\ call'[c].pc = at /\ call'[c].about = "file" /\ call'[c].file = call[c].file
           /\ \A d \in LspActors : d # c => call'[d] = call[d]
<1>1. At(c, at) \in LspCallRecord /\ call \in [LspActors -> LspCallRecord]
  BY AtIs, LspTypes
<1>2. call' = [call EXCEPT ![c] = At(c, at)]
  BY DEF Goes
<1> HIDE DEF LspPcs
<1> QED
  BY <1>1, <1>2, AtIs

LEMMA SendsIs ==
    ASSUME LspTypeInvariant, NEW c \in LspActors,
           NEW about \in {"initialize", "file", "shutdown"}, Sends(c, about)
    PROVE  /\ call' \in [LspActors -> LspCallRecord]
           /\ call'[c].pc \in {"failed", "pending", "draining"} /\ call'[c].file = call[c].file
           /\ call'[c].pc # "failed" => call'[c].about = about /\ lsp.process # None
           /\ call'[c].about \in {about, "file"}
           /\ \A d \in LspActors : d # c => call'[d] = call[d]
<1>1. CASE lsp.process = None
  BY <1>1, GoesIs DEF Sends, LspPcs
<1>2. CASE lsp.process # None
  <2>1. PICK fits \in BOOLEAN :
           call' = [call EXCEPT ![c] = [@ EXCEPT !.pc = IF fits THEN "pending" ELSE "draining",
                                                 !.about = about, !.to = lsp.process]]
    BY <1>2 DEF Sends
  <2> DEFINE r == [call[c] EXCEPT !.pc = IF fits THEN "pending" ELSE "draining",
                                  !.about = about, !.to = lsp.process]
  <2>2. call \in [LspActors -> LspCallRecord] /\ call[c] \in LspCallRecord
        /\ lsp.process \in 0 .. MaxServers
    BY LspTypes DEF LspFields
  <2>3. r \in LspCallRecord /\ r.pc \in {"pending", "draining"} /\ r.file = call[c].file
        /\ r.about = about
    BY <2>2 DEF LspCallRecord, LspPcs
  <2>4. call' = [call EXCEPT ![c] = r]
    BY <2>1, <2>2
  <2> HIDE DEF r
  <2> QED
    BY <1>2, <2>2, <2>3, <2>4
<1> QED
  BY <1>1, <1>2

\* A call moves on by itself, and starts no reading.
LEMMA LspCallMoves ==
    ASSUME LspIInv, NEW c \in LspActors, UNCHANGED <<lsp, servers>>,
           call' \in [LspActors -> LspCallRecord],
           \A d \in LspActors : d # c => call'[d] = call[d],
           call'[c].file = call[c].file, call'[c].pc # "reading", call'[c].pc # "new",
           c \in LspCalls /\ call'[c].pc \notin {"failed", "done"} => servers[1].state # "none",
           c \in LspCalls /\ OnlyServer => AsksOpen(c)',
           c = Shutdown => call'[c].about # "initialize"
    PROVE  LspIInv'
<1>1. LspTypeInvariant'
  BY LspTypes, LspTypesPrime DEF LspIInv
<1>2. Told'
  BY DEF LspIInv, Told
<1>3. Readers'
  BY LspActorsAre DEF LspIInv, Readers
<1>4. Started'
  BY LspActorsAre DEF LspIInv, Started
<1>5. Knows'
  <2>1. OnlyServer' => OnlyServer
    BY LspActorsAre DEF OnlyServer
  <2>2. \A d \in LspCalls : d # c /\ AsksOpen(d) => AsksOpen(d)'
    BY LspActorsAre DEF AsksOpen
  <2>3. Alive(1)' <=> Alive(1)
    BY DEF Alive
  <2> QED
    BY <2>1, <2>2, <2>3 DEF LspIInv, Knows
<1> QED
  BY <1>1, <1>2, <1>3, <1>4, <1>5 DEF LspIInv

LEMMA LspInitInv == LspInit => LspIInv
<1> SUFFICES ASSUME LspInit PROVE LspIInv
  OBVIOUS
<1>1. /\ lsp = [process |-> 0, initialized |-> FALSE, startFailed |-> FALSE,
                openFiles |-> {}, opening |-> {}]
      /\ servers = [s \in Spawned |-> [state |-> "none", told |-> [f \in LspFiles |-> 0]]]
      /\ call \in [LspActors -> [pc : {"new"}, about : {"file"}, file : LspFiles \cup {NoLspFile},
                                 to : {0}]]
  BY DEF LspInit, LspIdle
<1>2. \A c \in LspActors : call[c] \in LspCallRecord /\ call[c].pc = "new"
  BY <1>1 DEF LspCallRecord, LspPcs
<1>3. LspTypeInvariant
  <2>1. lsp \in LspFields
    BY <1>1 DEF LspFields
  <2>2. servers \in [Spawned -> ServerRecord]
    BY <1>1 DEF ServerRecord
  <2>3. call \in [LspActors -> LspCallRecord]
    BY <1>1, <1>2
  <2> QED
    BY <2>1, <2>2, <2>3, LspTypes
<1>4. Told
  BY <1>1 DEF Told
<1>5. Readers /\ Started
  BY <1>1, <1>2, LspActorsAre DEF Readers, Started
<1>6. Knows
  BY <1>1, <1>2, LspActorsAre DEF Knows, Alive, AsksOpen
<1> QED
  BY <1>3, <1>4, <1>5, <1>6 DEF LspIInv

LEMMA LspBeginInv ==
    ASSUME LspIInv, NEW c \in LspCalls, LspBegin(c)
    PROVE  LspIInv'
<1>1. c \in LspActors /\ LspTypeInvariant /\ c # Shutdown
  BY LspActorsAre DEF LspIInv
<1>2. lsp \in LspFields /\ servers \in [Spawned -> ServerRecord]
      /\ call \in [LspActors -> LspCallRecord]
  BY <1>1, LspTypes
<1>3. CASE lsp.initialized /\ Goes(c, "ready") /\ UNCHANGED <<lsp, servers>>
  <2>1. servers[1].state # "none"
    BY <1>3 DEF LspIInv, Started
  <2> QED
    BY <1>1, <1>3, <2>1, GoesIs, LspCallMoves DEF AsksOpen, LspPcs
<1>4. CASE Goes(c, "failed") /\ UNCHANGED <<lsp, servers>>
  BY <1>1, <1>4, GoesIs, LspCallMoves DEF AsksOpen, LspPcs
<1>5. CASE /\ lsp' = [lsp EXCEPT !.startFailed = TRUE]
           /\ Goes(c, "failed") /\ UNCHANGED servers
  <2>1. /\ lsp' \in LspFields /\ lsp'.process = lsp.process /\ lsp'.openFiles = lsp.openFiles
        /\ lsp'.opening = lsp.opening /\ lsp'.initialized = lsp.initialized
    BY <1>2, <1>5 DEF LspFields
  <2>2. /\ call' \in [LspActors -> LspCallRecord] /\ call'[c].pc = "failed"
        /\ \A d \in LspActors : d # c => call'[d] = call[d]
    BY <1>1, <1>5, GoesIs DEF LspPcs
  <2>3. LspTypeInvariant'
    BY <1>2, <1>5, <2>1, <2>2, LspTypesPrime
  <2>4. Told' /\ Readers' /\ Started'
    BY <1>5, <2>1, <2>2, LspActorsAre DEF LspIInv, Told, Readers, Started
  <2>5. Knows'
    BY <1>1, <1>5, <2>1, <2>2, LspActorsAre DEF LspIInv, Knows, OnlyServer, AsksOpen, Alive
  <2> QED
    BY <2>3, <2>4, <2>5 DEF LspIInv
<1>6. ASSUME NEW s \in Spawned, \A t \in Spawned : servers[t].state = "none" <=> t >= s,
             lsp' = [lsp EXCEPT !.process = s], servers' = [servers EXCEPT ![s].state = "alive"],
             Goes(c, "spawned")
      PROVE  LspIInv'
  <2>1. /\ lsp' \in LspFields /\ lsp'.process = s /\ lsp'.openFiles = lsp.openFiles
        /\ lsp'.opening = lsp.opening /\ lsp'.initialized = lsp.initialized
    BY <1>2, <1>6 DEF LspFields, Spawned
  <2>2. /\ call' \in [LspActors -> LspCallRecord] /\ call'[c].pc = "spawned"
        /\ \A d \in LspActors : d # c => call'[d] = call[d]
    BY <1>1, <1>6, GoesIs DEF LspPcs
  <2>3. /\ servers' \in [Spawned -> ServerRecord]
        /\ servers'[s].state = "alive" /\ servers'[s].told = servers[s].told
        /\ \A t \in Spawned : t # s => servers'[t] = servers[t]
    <3> DEFINE r == [servers[s] EXCEPT !.state = "alive"]
    <3>1. servers' = [servers EXCEPT ![s] = r]
      BY <1>2, <1>6
    <3>2. servers[s] \in ServerRecord
      BY <1>2
    <3>3. r \in ServerRecord /\ r.state = "alive" /\ r.told = servers[s].told
      BY <3>2 DEF ServerRecord
    <3> HIDE DEF r
    <3> QED
      BY <1>2, <3>1, <3>3
  <2>4. LspTypeInvariant'
    BY <2>1, <2>2, <2>3, LspTypesPrime
  <2>5. servers[s].state = "none" /\ (s > 1 => servers[1].state # "none")
    <3>1. s \in Nat /\ s >= s
      BY LspActorsAre
    <3> QED
      BY <1>6, <3>1, LspActorsAre
  <2>6. \A f \in LspFiles : servers[s].told[f] = 0
    BY <2>5 DEF LspIInv, Told
  <2>7. Told'
    <3>1. \A t \in Spawned : servers'[t].told = servers[t].told
      BY <2>3
    <3>2. \A t \in Spawned : servers'[t].state # "alive" => servers[t].state # "alive"
      BY <2>3
    <3> QED
      BY <2>1, <2>3, <2>6, <3>1, <3>2 DEF LspIInv, Told
  <2>8. Readers'
    BY <2>1, <2>2, LspActorsAre DEF LspIInv, Readers
  <2>9. servers'[1].state # "none"
    <3>1. s = 1 \/ s > 1
      BY DEF Spawned
    <3> QED
      BY <2>3, <2>5, <3>1, LspActorsAre
  <2>10. Knows'
    <3> SUFFICES ASSUME OnlyServer' PROVE Knows'
      BY DEF Knows
    <3>1. s = 1
      BY <2>3 DEF OnlyServer, Spawned
    <3>2. lsp.openFiles = {} /\ \A d \in LspCalls : call[d].pc \in {"new", "failed", "done"}
      BY <2>5, <3>1 DEF LspIInv, Started
    <3>3. \A d \in LspCalls : AsksOpen(d)'
      BY <1>1, <2>2, <3>2, LspActorsAre DEF AsksOpen
    <3> QED
      BY <2>1, <3>1, <3>2, <3>3 DEF Knows
  <2>11. Started'
    BY <1>1, <2>2, <2>9, LspActorsAre DEF LspIInv, Started
  <2> QED
    BY <2>4, <2>7, <2>8, <2>10, <2>11 DEF LspIInv
<1> QED
  BY <1>3, <1>4, <1>5, <1>6 DEF LspBegin

\* What a call does that changes nothing but itself.
LEMMA LspOwnStepsInv ==
    ASSUME LspIInv, NEW c \in LspCalls,
           LspInitialize(c) \/ LspDiagnostics(c) \/ LspAsk(c)
    PROVE  LspIInv'
<1>1. c \in LspActors /\ LspTypeInvariant /\ UNCHANGED <<lsp, servers>>
  BY LspActorsAre DEF LspIInv, LspInitialize, LspDiagnostics, LspAsk
<1>2. call[c].pc \in {"spawned", "ready", "ask"}
  BY DEF LspInitialize, LspDiagnostics, LspAsk
<1>3. servers[1].state # "none"
  BY <1>2 DEF LspIInv, Started
<1>4. CASE Goes(c, "failed") \/ Goes(c, "done")
  BY <1>1, <1>3, <1>4, GoesIs, LspCallMoves DEF LspPcs, AsksOpen
<1>5. CASE LspInitialize(c) /\ Sends(c, "initialize")
  BY <1>1, <1>3, <1>5, SendsIs, LspCallMoves DEF AsksOpen
<1>6. CASE LspAsk(c) /\ Sends(c, "file")
  <2>1. call[c].pc = "ask"
    BY <1>6 DEF LspAsk
  <2>2. OnlyServer => call[c].file \in lsp.openFiles
    BY <2>1 DEF LspIInv, Knows, AsksOpen
  <2> QED
    BY <1>1, <1>3, <1>6, <2>2, SendsIs, LspCallMoves DEF AsksOpen
<1> QED
  BY <1>4, <1>5, <1>6 DEF LspInitialize, LspDiagnostics, LspAsk

LEMMA LspOpenInv ==
    ASSUME LspIInv, NEW c \in LspCalls, LspOpen(c)
    PROVE  LspIInv'
<1> DEFINE f == call[c].file
<1>1. /\ c \in LspActors /\ LspTypeInvariant /\ UNCHANGED servers
      /\ call[c].pc = "ready" /\ f # NoLspFile
  BY LspActorsAre DEF LspIInv, LspOpen
<1>2. lsp \in LspFields /\ servers \in [Spawned -> ServerRecord]
      /\ call \in [LspActors -> LspCallRecord]
  BY <1>1, LspTypes
<1>3. servers[1].state # "none" /\ f \in LspFiles
  BY <1>1, <1>2 DEF LspIInv, Started, LspCallRecord
<1>4. CASE f \in lsp.openFiles /\ Goes(c, "ask") /\ UNCHANGED lsp
  BY <1>1, <1>3, <1>4, GoesIs, LspCallMoves DEF LspPcs, AsksOpen
<1>5. CASE Goes(c, "waiting") /\ UNCHANGED lsp
  BY <1>1, <1>3, <1>5, GoesIs, LspCallMoves DEF LspPcs, AsksOpen
<1>6. CASE /\ f \notin lsp.openFiles \cup lsp.opening
           /\ lsp' = [lsp EXCEPT !.opening = @ \cup {f}]
           /\ Goes(c, "reading")
  <2>1. /\ lsp' \in LspFields /\ lsp'.process = lsp.process /\ lsp'.openFiles = lsp.openFiles
        /\ lsp'.opening = lsp.opening \cup {f} /\ lsp'.initialized = lsp.initialized
    BY <1>2, <1>3, <1>6 DEF LspFields
  <2>2. /\ call' \in [LspActors -> LspCallRecord] /\ call'[c].pc = "reading" /\ call'[c].file = f
        /\ \A d \in LspActors : d # c => call'[d] = call[d]
    BY <1>1, <1>6, GoesIs DEF LspPcs
  <2>3. LspTypeInvariant'
    BY <1>1, <1>2, <2>1, <2>2, LspTypesPrime
  <2>4. Told' /\ Started'
    BY <1>1, <1>3, <2>1, <2>2, LspActorsAre DEF LspIInv, Told, Started
  <2>5. \A d \in LspCalls : call[d].pc = "reading" => call[d].file # f
    BY <1>6 DEF LspIInv, Readers
  <2>6. Readers'
    BY <1>3, <1>6, <2>1, <2>2, <2>5, LspActorsAre DEF LspIInv, Readers
  <2>7. Knows'
    <3>1. OnlyServer' <=> OnlyServer
      BY <1>1, <2>2, LspActorsAre DEF OnlyServer
    <3>2. Alive(1)' <=> Alive(1)
      BY <1>1 DEF Alive
    <3>3. \A d \in LspCalls : AsksOpen(d) => AsksOpen(d)'
      BY <2>1, <2>2, LspActorsAre DEF AsksOpen
    <3> QED
      BY <1>1, <2>1, <3>1, <3>2, <3>3 DEF LspIInv, Knows
  <2> QED
    BY <2>3, <2>4, <2>6, <2>7 DEF LspIInv
<1> QED
  BY <1>1, <1>4, <1>5, <1>6 DEF LspOpen

LEMMA LspReadInv ==
    ASSUME LspIInv, NEW c \in LspCalls, LspRead(c)
    PROVE  LspIInv'
<1> DEFINE f == call[c].file
<1>1. /\ c \in LspActors /\ LspTypeInvariant /\ call[c].pc = "reading"
      /\ lsp' = [lsp EXCEPT !.openFiles = @ \cup {f}, !.opening = @ \ {f}]
      /\ call' = [d \in LspActors |-> IF d \in Awaken(f) \cup {c} THEN At(d, "ask") ELSE call[d]]
      /\ ToldOf(f)
  BY LspActorsAre DEF LspIInv, LspRead
<1>2. lsp \in LspFields /\ servers \in [Spawned -> ServerRecord]
      /\ call \in [LspActors -> LspCallRecord]
  BY <1>1, LspTypes
<1>3. f \in lsp.opening \ lsp.openFiles /\ f \in LspFiles
  BY <1>1 DEF LspIInv, Readers
<1>4. servers[1].state # "none"
  BY <1>1 DEF LspIInv, Started
<1>5. /\ lsp' \in LspFields /\ lsp'.process = lsp.process
      /\ lsp'.openFiles = lsp.openFiles \cup {f} /\ lsp'.opening = lsp.opening \ {f}
      /\ lsp'.initialized = lsp.initialized
  BY <1>1, <1>2, <1>3 DEF LspFields
<1>6. \A d \in LspActors :
         /\ call'[d] \in LspCallRecord /\ call'[d].file = call[d].file
         /\ \/ call'[d] = call[d] /\ d # c
            \/ d \in LspCalls /\ call'[d].pc = "ask" /\ call[d].file = f
  <2> SUFFICES ASSUME NEW d \in LspActors
               PROVE  /\ call'[d] \in LspCallRecord /\ call'[d].file = call[d].file
                      /\ \/ call'[d] = call[d] /\ d # c
                         \/ d \in LspCalls /\ call'[d].pc = "ask" /\ call[d].file = f
    OBVIOUS
  <2>1. "ask" \in LspPcs
    BY DEF LspPcs
  <2>2. CASE d \in Awaken(f) \cup {c}
    <3>1. call'[d] = At(d, "ask")
      BY <1>1, <2>2
    <3>2. d \in LspCalls /\ call[d].file = f
      BY <2>2 DEF Awaken
    <3> QED
      BY <1>1, <2>1, <3>1, <3>2, AtIs
  <2>3. CASE d \notin Awaken(f) \cup {c}
    BY <1>1, <1>2, <2>3
  <2> QED
    BY <2>2, <2>3
<1>7. call' \in [LspActors -> LspCallRecord]
  BY <1>1, <1>6
<1>8. /\ servers' \in [Spawned -> ServerRecord]
      /\ \A s \in Spawned : servers'[s].state = servers[s].state
      /\ \A s \in Spawned, g \in LspFiles :
            servers'[s].told[g] = IF s = lsp.process /\ Alive(s) /\ g = f
                                  THEN Twice(servers[s].told[g]) ELSE servers[s].told[g]
  <2>1. CASE ~Alive(lsp.process)
    BY <1>1, <1>2, <2>1 DEF ToldOf
  <2>2. CASE Alive(lsp.process)
    <3> DEFINE p == lsp.process
               t == [servers[p].told EXCEPT ![f] = Twice(@)]
               r == [servers[p] EXCEPT !.told = t]
    <3>1. p \in Spawned /\ servers[p] \in ServerRecord
      BY <1>2, <2>2, LspActorsAre DEF LspFields, Alive
    <3>2. servers[p].told \in [LspFiles -> 0 .. 2]
      BY <3>1 DEF ServerRecord
    <3>3. t \in [LspFiles -> 0 .. 2]
          /\ \A g \in LspFiles : t[g] = IF g = f THEN Twice(servers[p].told[g]) ELSE servers[p].told[g]
      BY <1>3, <3>2 DEF Twice
    <3>4. servers' = [servers EXCEPT ![p].told[f] = Twice(@)]
      BY <1>1, <2>2 DEF ToldOf
    <3>5. servers' = [servers EXCEPT ![p] = r]
      BY <1>2, <3>4
    <3> HIDE DEF t
    <3>6. r \in ServerRecord /\ r.state = servers[p].state /\ r.told = t
      BY <3>1, <3>3 DEF ServerRecord
    <3> HIDE DEF r
    <3> QED
      BY <1>2, <2>2, <3>1, <3>3, <3>5, <3>6
  <2> QED
    BY <2>1, <2>2
<1>9. LspTypeInvariant'
  BY <1>5, <1>7, <1>8, LspTypesPrime
<1>10. lsp.process # None => lsp.process \in Spawned /\ servers[lsp.process].told[f] = 0
  <2>1. lsp.process # None => lsp.process \in Spawned
    BY <1>2, LspActorsAre DEF LspFields
  <2> QED
    BY <1>3, <2>1 DEF LspIInv, Told
<1>11. ASSUME NEW s \in Spawned, NEW g \in LspFiles
       PROVE  /\ servers'[s].told[g] <= 1
              /\ servers'[s].told[g] # servers[s].told[g] =>
                    s = lsp.process /\ Alive(s) /\ g = f /\ servers'[s].told[g] = 1
  <2>1. s # None
    BY LspActorsAre
  <2>2. CASE s = lsp.process /\ Alive(s) /\ g = f
    BY <1>8, <1>10, <2>1, <2>2 DEF Twice
  <2>3. CASE ~(s = lsp.process /\ Alive(s) /\ g = f)
    BY <1>8, <2>3 DEF LspIInv, Told
  <2> QED
    BY <2>2, <2>3
<1>12. Told'
  <2>1. \A s \in Spawned, g \in LspFiles : servers'[s].told[g] <= 1
    BY <1>11
  <2>2. ASSUME NEW s \in Spawned, NEW g \in LspFiles, servers'[s].state # "alive"
        PROVE  servers'[s].told[g] = 0
    BY <1>8, <1>11, <2>2 DEF LspIInv, Told, Alive
  <2>3. ASSUME lsp'.process # None
        PROVE  /\ servers'[lsp'.process].state # "none"
               /\ \A g \in LspFiles : servers'[lsp'.process].told[g] # 0 => g \in lsp'.openFiles
    <3>1. lsp'.process = lsp.process /\ lsp.process \in Spawned
      BY <1>5, <1>10, <2>3
    <3> QED
      BY <1>5, <1>8, <1>11, <2>3, <3>1 DEF LspIInv, Told
  <2> QED
    BY <2>1, <2>2, <2>3 DEF Told
<1>13. Readers'
  <2>1. \A d \in LspCalls : call'[d].pc = "reading" =>
           d # c /\ call[d].pc = "reading" /\ call'[d].file = call[d].file
    BY <1>6, LspActorsAre
  <2>2. \A d \in LspCalls : call'[d].pc = "reading" => call[d].file # f
    BY <1>1, <2>1 DEF LspIInv, Readers
  <2> QED
    BY <1>5, <2>1, <2>2 DEF LspIInv, Readers
<1>14. Started'
  BY <1>4, <1>6, <1>8, LspActorsAre DEF LspIInv, Started
<1>15. Knows'
  <2> SUFFICES ASSUME OnlyServer'
               PROVE  /\ Alive(1)' => /\ lsp'.process = 1
                                      /\ \A g \in lsp'.openFiles : servers'[1].told[g] = 1
                      /\ \A d \in LspCalls : AsksOpen(d)'
    BY DEF Knows
  <2>1. OnlyServer
    <3>1. call'[Shutdown] = call[Shutdown]
      BY <1>6, LspActorsAre
    <3> QED
      BY <1>8, <3>1 DEF OnlyServer
  <2>2. Alive(1)' <=> Alive(1)
    BY <1>8, LspActorsAre DEF Alive
  <2>3. ASSUME Alive(1), NEW g \in lsp'.openFiles PROVE servers'[1].told[g] = 1
    <3>1. lsp.process = 1 /\ \A h \in lsp.openFiles : servers[1].told[h] = 1
      BY <2>1, <2>3 DEF LspIInv, Knows
    <3>2. g \in LspFiles
      BY <1>5 DEF LspFields
    <3>3. CASE g = f
      BY <1>8, <1>10, <2>3, <3>1, <3>2, <3>3, LspActorsAre DEF Twice
    <3>4. CASE g # f
      BY <1>5, <1>8, <3>1, <3>2, <3>4, LspActorsAre
    <3> QED
      BY <3>3, <3>4
  <2>4. ASSUME NEW d \in LspCalls PROVE AsksOpen(d)'
    <3>1. AsksOpen(d)
      BY <2>1 DEF LspIInv, Knows
    <3> QED
      BY <1>5, <1>6, <3>1, LspActorsAre DEF AsksOpen
  <2>5. Alive(1) => lsp'.process = 1
    BY <1>5, <2>1 DEF LspIInv, Knows
  <2> QED
    BY <2>2, <2>3, <2>4, <2>5
<1> QED
  BY <1>9, <1>12, <1>13, <1>14, <1>15 DEF LspIInv

LEMMA LspDrainInv ==
    ASSUME LspIInv, NEW c \in LspActors, LspDrain(c)
    PROVE  LspIInv'
<1>1. /\ call[c].pc = "draining" /\ call' = [call EXCEPT ![c].pc = "pending"]
      /\ UNCHANGED <<lsp, servers>>
  BY DEF LspDrain
<1>2. call \in [LspActors -> LspCallRecord] /\ call[c] \in LspCallRecord
  BY LspTypes DEF LspIInv
<1> DEFINE r == [call[c] EXCEPT !.pc = "pending"]
<1>3. r \in LspCallRecord /\ r.pc = "pending" /\ r.file = call[c].file /\ r.about = call[c].about
  BY <1>2 DEF LspCallRecord, LspPcs
<1>4. call' = [call EXCEPT ![c] = r]
  BY <1>1, <1>2
<1> HIDE DEF r
<1>5. /\ call' \in [LspActors -> LspCallRecord] /\ call'[c] = r
      /\ \A d \in LspActors : d # c => call'[d] = call[d]
  BY <1>2, <1>3, <1>4
<1>6. c \in LspCalls => servers[1].state # "none"
  BY <1>1 DEF LspIInv, Started
<1>7. c \in LspCalls /\ OnlyServer => AsksOpen(c)
  BY DEF LspIInv, Knows
<1>8. c \in LspCalls /\ OnlyServer => AsksOpen(c)'
  BY <1>1, <1>3, <1>5, <1>7 DEF AsksOpen
<1>9. c = Shutdown => call'[c].about # "initialize"
  BY <1>3, <1>5 DEF LspIInv, Started
<1> QED
  BY <1>1, <1>3, <1>5, <1>6, <1>8, <1>9, LspCallMoves

\* The fields of the client change one by one.
LEMMA LspWithoutProcess ==
    ASSUME NEW v \in LspFields
    PROVE  LET w == [v EXCEPT !.process = 0] IN
           /\ w \in LspFields /\ w.process = 0
           /\ w.initialized = v.initialized /\ w.startFailed = v.startFailed
           /\ w.openFiles = v.openFiles /\ w.opening = v.opening
<1>1. 0 \in 0 .. MaxServers
  OBVIOUS
<1> QED
  BY <1>1 DEF LspFields

LEMMA LspNotInitialized ==
    ASSUME NEW v \in LspFields
    PROVE  LET w == [v EXCEPT !.initialized = FALSE] IN
           /\ w \in LspFields /\ w.initialized = FALSE
           /\ w.process = v.process /\ w.startFailed = v.startFailed
           /\ w.openFiles = v.openFiles /\ w.opening = v.opening
BY DEF LspFields

LEMMA LspStartFailed ==
    ASSUME NEW v \in LspFields, NEW b \in BOOLEAN
    PROVE  LET w == [v EXCEPT !.startFailed = b] IN
           /\ w \in LspFields
           /\ w.process = v.process /\ w.initialized = v.initialized
           /\ w.openFiles = v.openFiles /\ w.opening = v.opening
BY DEF LspFields

LEMMA LspNoOpenFiles ==
    ASSUME NEW v \in LspFields
    PROVE  LET w == [v EXCEPT !.openFiles = {}] IN
           /\ w \in LspFields /\ w.openFiles = {}
           /\ w.process = v.process /\ w.initialized = v.initialized /\ w.opening = v.opening
BY DEF LspFields

\* At the end of a shutdown the client forgets its server and its open files, though files may
\* be being read.
LEMMA LspClearInv ==
    ASSUME LspIInv, LspClear, call[Shutdown].pc # "new"
    PROVE  LspIInv'
<1>1. /\ lsp' = [lsp EXCEPT !.process = None, !.initialized = FALSE, !.openFiles = {}]
      /\ call' = [d \in LspActors |->
                     IF d = Shutdown THEN At(d, "done")
                     ELSE IF call[d].pc = "pending" THEN At(d, "failed") ELSE call[d]]
      /\ UNCHANGED servers /\ LspTypeInvariant
  BY DEF LspClear, Cleared, LspIInv
<1>2. lsp \in LspFields /\ servers \in [Spawned -> ServerRecord]
      /\ call \in [LspActors -> LspCallRecord]
  BY <1>1, LspTypes
<1>3. /\ lsp' \in LspFields /\ lsp'.process = None /\ lsp'.openFiles = {}
      /\ lsp'.opening = lsp.opening /\ lsp'.initialized = FALSE
  <2> DEFINE u == [lsp EXCEPT !.process = 0]
             v == [u EXCEPT !.initialized = FALSE]
  <2>1. lsp' = [v EXCEPT !.openFiles = {}]
    BY <1>1
  <2>2. u \in LspFields /\ u.process = 0 /\ u.opening = lsp.opening
    BY <1>2, LspWithoutProcess
  <2> HIDE DEF u
  <2>3. v \in LspFields /\ v.process = 0 /\ v.opening = lsp.opening /\ v.initialized = FALSE
    BY <2>2, LspNotInitialized
  <2> HIDE DEF v
  <2>4. {} \in SUBSET LspFiles
    OBVIOUS
  <2> QED
    BY <2>1, <2>3, <2>4, LspNoOpenFiles
<1>4. {"done", "failed"} \subseteq LspPcs
  BY DEF LspPcs
<1>5. \A d \in LspActors :
         /\ call'[d] \in LspCallRecord
         /\ call'[d] = call[d] \/ call'[d].pc \in {"done", "failed"}
         /\ d = Shutdown => call'[d].pc = "done" /\ call'[d].about = "file"
  BY <1>1, <1>2, <1>4, AtIs
<1>6. LspTypeInvariant'
  <2>1. call' \in [LspActors -> LspCallRecord]
    BY <1>1, <1>5
  <2> QED
    BY <1>1, <1>2, <1>3, <2>1, LspTypesPrime
<1>7. Told'
  BY <1>1, <1>3 DEF LspIInv, Told
<1>8. Readers'
  <2>1. \A d \in LspCalls : call'[d].pc = "reading" => call'[d] = call[d]
    BY <1>5, LspActorsAre
  <2> QED
    BY <1>3, <2>1 DEF LspIInv, Readers
<1>9. Started'
  BY <1>1, <1>3, <1>5, LspActorsAre DEF LspIInv, Started
<1>10. ~OnlyServer'
  BY <1>5, LspActorsAre DEF OnlyServer
<1> QED
  BY <1>6, <1>7, <1>8, <1>9, <1>10 DEF LspIInv, Knows

LEMMA LspReplyInv ==
    ASSUME LspIInv, NEW c \in LspActors, LspReply(c)
    PROVE  LspIInv'
<1>1. /\ LspTypeInvariant /\ call[c].pc = "pending" /\ UNCHANGED servers
  BY DEF LspReply, LspIInv
<1>2. lsp \in LspFields /\ servers \in [Spawned -> ServerRecord]
      /\ call \in [LspActors -> LspCallRecord]
  BY <1>1, LspTypes
<1>3. c \in LspCalls => servers[1].state # "none"
  BY <1>1 DEF LspIInv, Started
<1>4. CASE (Goes(c, "done") \/ Goes(c, "exiting")) /\ UNCHANGED lsp
  <2>1. call'[c].pc \in {"done", "exiting"} /\ call'[c].file = call[c].file
        /\ call'[c].about = "file"
        /\ call' \in [LspActors -> LspCallRecord]
        /\ \A d \in LspActors : d # c => call'[d] = call[d]
    BY <1>1, <1>4, GoesIs DEF LspPcs
  <2>2. AsksOpen(c)'
    BY <2>1 DEF AsksOpen
  <2> QED
    BY <1>1, <1>3, <1>4, <2>1, <2>2, LspCallMoves
<1>5. CASE /\ lsp' = [lsp EXCEPT !.initialized = TRUE]
           /\ Goes(c, "ready") /\ call[c].about = "initialize"
  <2>1. /\ lsp' \in LspFields /\ lsp'.process = lsp.process /\ lsp'.openFiles = lsp.openFiles
        /\ lsp'.opening = lsp.opening
    BY <1>2, <1>5 DEF LspFields
  <2>2. /\ call' \in [LspActors -> LspCallRecord] /\ call'[c].pc = "ready"
        /\ call'[c].about = "file" /\ call'[c].file = call[c].file
        /\ \A d \in LspActors : d # c => call'[d] = call[d]
    BY <1>1, <1>5, GoesIs DEF LspPcs
  <2>3. LspTypeInvariant'
    BY <1>1, <1>2, <2>1, <2>2, LspTypesPrime
  <2>4. Told'
    BY <1>1, <2>1 DEF LspIInv, Told
  <2>5. Readers'
    BY <2>1, <2>2, LspActorsAre DEF LspIInv, Readers
  <2>6. servers[1].state # "none"
    BY <1>3, <1>5, LspActorsAre DEF LspIInv, Started
  <2>7. Started'
    BY <1>1, <2>2, <2>6, LspActorsAre DEF LspIInv, Started
  <2>8. Knows'
    <3>1. OnlyServer' => OnlyServer
      BY <1>1, <2>2, LspActorsAre DEF OnlyServer
    <3>2. Alive(1)' <=> Alive(1)
      BY <1>1 DEF Alive
    <3>3. \A d \in LspCalls : AsksOpen(d) => AsksOpen(d)'
      BY <2>1, <2>2, LspActorsAre DEF AsksOpen
    <3> QED
      BY <1>1, <2>1, <3>1, <3>2, <3>3 DEF LspIInv, Knows
  <2> QED
    BY <2>3, <2>4, <2>5, <2>7, <2>8 DEF LspIInv
<1> QED
  BY <1>4, <1>5 DEF LspReply

LEMMA LspRefusedInv ==
    ASSUME LspIInv, NEW c \in LspActors, LspRefused(c)
    PROVE  LspIInv'
<1>1. CASE c = Shutdown
  BY <1>1, LspClearInv DEF LspRefused
<1>2. CASE c # Shutdown
  <2>1. LspTypeInvariant /\ Goes(c, "failed") /\ UNCHANGED <<lsp, servers>>
    BY <1>2 DEF LspRefused, LspIInv
  <2>2. /\ call' \in [LspActors -> LspCallRecord] /\ call'[c].pc = "failed"
        /\ call'[c].file = call[c].file /\ call'[c].about = "file"
        /\ \A d \in LspActors : d # c => call'[d] = call[d]
    BY <2>1, GoesIs DEF LspPcs
  <2>3. AsksOpen(c)'
    BY <2>2 DEF AsksOpen
  <2> QED
    BY <2>1, <2>2, <2>3, LspCallMoves
<1> QED
  BY <1>1, <1>2

LEMMA LspExitsInv ==
    ASSUME LspIInv, NEW s \in Spawned, NEW how \in {"zero", "error", "signal"}, LspExits(s, how)
    PROVE  LspIInv'
<1> DEFINE gone == [state |-> IF how = "signal" THEN "killed" ELSE "exited",
                    told |-> [f \in LspFiles |-> 0]]
<1>1. /\ Alive(s) /\ servers' = [servers EXCEPT ![s] = gone] /\ UNCHANGED call
      /\ lsp' = IF how = "signal" THEN lsp
                ELSE [lsp EXCEPT !.initialized = FALSE, !.process = None,
                                 !.startFailed = @ \/ how = "error"]
  BY DEF LspExits
<1>2. lsp \in LspFields /\ servers \in [Spawned -> ServerRecord]
      /\ call \in [LspActors -> LspCallRecord]
  BY LspTypes DEF LspIInv
<1>3. gone \in ServerRecord /\ gone.state \notin {"none", "alive"} /\ \A f \in LspFiles : gone.told[f] = 0
  BY DEF ServerRecord
<1> HIDE DEF gone
<1>4. /\ servers' \in [Spawned -> ServerRecord] /\ servers'[s] = gone
      /\ \A t \in Spawned : t # s => servers'[t] = servers[t]
  BY <1>1, <1>2, <1>3
<1>5. /\ lsp' \in LspFields /\ lsp'.openFiles = lsp.openFiles /\ lsp'.opening = lsp.opening
      /\ lsp'.process = lsp.process \/ lsp'.process = None
      /\ lsp'.initialized => lsp.initialized
  <2>1. CASE how = "signal"
    BY <1>1, <1>2, <2>1
  <2>2. CASE how # "signal"
    <3> DEFINE b == lsp.startFailed \/ how = "error"
               u == [lsp EXCEPT !.initialized = FALSE]
               v == [u EXCEPT !.process = 0]
    <3>1. u \in LspFields /\ u.startFailed = lsp.startFailed /\ ~u.initialized
          /\ u.openFiles = lsp.openFiles /\ u.opening = lsp.opening
      BY <1>2, LspNotInitialized
    <3> HIDE DEF u
    <3>2. v \in LspFields /\ v.startFailed = lsp.startFailed /\ v.process = 0 /\ ~v.initialized
          /\ v.openFiles = lsp.openFiles /\ v.opening = lsp.opening
      BY <3>1, LspWithoutProcess
    <3>3. lsp' = [v EXCEPT !.startFailed = b]
      <4>1. lsp' = [v EXCEPT !.startFailed = @ \/ how = "error"]
        BY <1>1, <2>2 DEF u
      <4> QED
        BY <3>2, <4>1
    <3> HIDE DEF v
    <3>4. b \in BOOLEAN
      BY <1>2 DEF LspFields
    <3> HIDE DEF b
    <3> QED
      BY <3>2, <3>3, <3>4, LspStartFailed
  <2> QED
    BY <2>1, <2>2
<1>6. LspTypeInvariant'
  BY <1>1, <1>2, <1>4, <1>5, LspTypesPrime
<1>7. \A t \in Spawned : servers'[t].state = "none" <=> servers[t].state = "none"
  BY <1>1, <1>3, <1>4 DEF Alive
<1>8. Told'
  <2>1. lsp.process # None => lsp.process \in Spawned
    BY <1>2, LspActorsAre DEF LspFields
  <2> QED
    BY <1>3, <1>4, <1>5, <1>7, <2>1 DEF LspIInv, Told
<1>9. Readers'
  BY <1>1, <1>5 DEF LspIInv, Readers
<1>10. Started'
  BY <1>1, <1>5, <1>7, LspActorsAre DEF LspIInv, Started
<1>11. Knows'
  <2> SUFFICES ASSUME OnlyServer'
               PROVE  /\ Alive(1)' => /\ lsp'.process = 1
                                      /\ \A g \in lsp'.openFiles : servers'[1].told[g] = 1
                      /\ \A d \in LspCalls : AsksOpen(d)'
    BY DEF Knows
  <2>1. OnlyServer
    BY <1>1, <1>7 DEF OnlyServer
  <2>2. s = 1
    <3>1. s = 1 \/ s > 1
      BY DEF Spawned
    <3> QED
      BY <1>1, <2>1, <3>1 DEF OnlyServer, Alive
  <2>3. ~Alive(1)'
    BY <1>3, <1>4, <2>2 DEF Alive
  <2>4. \A d \in LspCalls : AsksOpen(d)'
    BY <1>1, <1>5, <2>1 DEF LspIInv, Knows, AsksOpen
  <2> QED
    BY <2>3, <2>4
<1> QED
  BY <1>6, <1>8, <1>9, <1>10, <1>11 DEF LspIInv

LEMMA LspShutdownInv ==
    ASSUME LspIInv, LspShutdown
    PROVE  LspIInv'
<1>1. Shutdown \in LspActors /\ LspTypeInvariant /\ Shutdown \notin LspCalls
  BY LspActorsAre DEF LspIInv
<1>2. lsp \in LspFields /\ servers \in [Spawned -> ServerRecord]
      /\ call \in [LspActors -> LspCallRecord]
  BY <1>1, LspTypes
<1>3. /\ call' \in [LspActors -> LspCallRecord] /\ call'[Shutdown].pc # "new"
      /\ call'[Shutdown].about # "initialize"
      /\ \A d \in LspCalls : call'[d] = call[d]
  <2>1. CASE Goes(Shutdown, "done")
    BY <1>1, <2>1, GoesIs, LspActorsAre DEF LspPcs
  <2>2. CASE Sends(Shutdown, "shutdown")
    BY <1>1, <2>2, SendsIs, LspActorsAre
  <2> QED
    BY <2>1, <2>2 DEF LspShutdown
<1>4. ~OnlyServer'
  BY <1>3 DEF OnlyServer
<1>5. CASE lsp.process = None
  <2>1. lsp' = [lsp EXCEPT !.initialized = FALSE] /\ UNCHANGED servers
    BY <1>5 DEF LspShutdown
  <2>2. /\ lsp' \in LspFields /\ lsp'.openFiles = lsp.openFiles /\ lsp'.opening = lsp.opening
        /\ lsp'.process = lsp.process /\ lsp'.initialized = FALSE
    BY <1>2, <2>1 DEF LspFields
  <2>3. LspTypeInvariant'
    BY <1>2, <1>3, <2>1, <2>2, LspTypesPrime
  <2>4. Told' /\ Readers' /\ Started'
    BY <1>3, <2>1, <2>2 DEF LspIInv, Told, Readers, Started
  <2> QED
    BY <1>4, <2>3, <2>4 DEF LspIInv, Knows
<1>6. CASE lsp.process # None
  <2> DEFINE p == lsp.process
             told == [f \in LspFiles |-> IF f \in lsp.openFiles THEN 0 ELSE servers[p].told[f]]
             r == [servers[p] EXCEPT !.told = told]
  <2>1. /\ servers' = [servers EXCEPT ![p].told =
                          [f \in LspFiles |-> IF f \in lsp.openFiles THEN 0 ELSE @[f]]]
        /\ UNCHANGED lsp
    BY <1>6 DEF LspShutdown
  <2>2. p \in Spawned /\ servers[p] \in ServerRecord
    BY <1>2, <1>6, LspActorsAre DEF LspFields
  <2>3. servers[p].told \in [LspFiles -> 0 .. 2]
    BY <2>2 DEF ServerRecord
  <2>4. told \in [LspFiles -> 0 .. 2] /\ \A f \in LspFiles : told[f] \in {0, servers[p].told[f]}
    BY <2>3
  <2>5. servers' = [servers EXCEPT ![p] = r]
    BY <1>2, <2>1, <2>2
  <2> HIDE DEF told
  <2>6. r \in ServerRecord /\ r.state = servers[p].state /\ r.told = told
    BY <2>2, <2>4 DEF ServerRecord
  <2> HIDE DEF r
  <2>7. /\ servers' \in [Spawned -> ServerRecord]
        /\ \A s \in Spawned : /\ servers'[s].state = servers[s].state
                              /\ \A f \in LspFiles : servers'[s].told[f] \in {0, servers[s].told[f]}
    BY <1>2, <2>2, <2>4, <2>5, <2>6
  <2>8. LspTypeInvariant'
    BY <1>2, <1>3, <2>1, <2>7, LspTypesPrime
  <2>9. Told'
    BY <2>1, <2>2, <2>7 DEF LspIInv, Told
  <2>10. Readers' /\ Started'
    BY <1>3, <2>1, <2>7, LspActorsAre DEF LspIInv, Readers, Started
  <2> QED
    BY <1>4, <2>8, <2>9, <2>10 DEF LspIInv, Knows
<1> QED
  BY <1>5, <1>6

\* Whoever comes while a file is opened, and whatever becomes of the server: no server is told
\* twice that a file is open, and the first one not asked about a file before it was told
\* (lsp-client.ts).
THEOREM LspAsksOpenFiles == LspSpec => []AskedIsOpen
<1>1. ASSUME LspIInv, [LspNext]_lspVars PROVE LspIInv'
  <2>1. CASE UNCHANGED lspVars
    BY <1>1, <2>1 DEF lspVars, LspIInv, LspTypeInvariant, Told, Readers, Started, Knows, OnlyServer,
                      AsksOpen, Alive
  <2>2. CASE LspShutDown
    BY <1>1, <2>2, LspClearInv DEF LspShutDown
  <2> QED
    BY <1>1, <2>1, <2>2, LspBeginInv, LspOwnStepsInv, LspOpenInv, LspReadInv, LspDrainInv,
       LspReplyInv, LspRefusedInv, LspExitsInv, LspShutdownInv DEF LspNext
<1>2. LspIInv => AskedIsOpen
  <2> SUFFICES ASSUME LspIInv, NEW c \in LspCalls, call[c].pc = "pending",
                      call[c].about = "file", Alive(call[c].to),
                      \A s \in Spawned : s > 1 => servers[s].state = "none",
                      call[Shutdown].pc = "new"
               PROVE  servers[call[c].to].told[call[c].file] = 1
    BY DEF AskedIsOpen, LspIInv, Told
  <2>1. call[c].to \in 0 .. MaxServers /\ call[c].to # 0
    BY LspTypes, LspActorsAre DEF LspIInv, LspCallRecord, Alive
  <2>2. call[c].to = 1 \/ (call[c].to > 1 /\ call[c].to \in Spawned)
    BY <2>1 DEF Spawned
  <2>3. call[c].to = 1
    BY <2>2 DEF Alive
  <2> QED
    BY <2>3 DEF LspIInv, Knows, OnlyServer, AsksOpen
<1> QED
  BY <1>1, <1>2, LspInitInv, PTL DEF LspSpec

HIDE LspClientAssumption DEF LspClientAssumption, None
=============================================================================
