----------------------------- MODULE Selection -----------------------------
(***************************************************************************)
(* SCE.select() of packages/context/src/sce.ts: the files that are put     *)
(* before the model, searched for or from a cache, for the iterations of   *)
(* the loop and for its search tool.                                       *)
(*                                                                         *)
(* A search takes its time and cannot fail: without ripgrep the files are  *)
(* walked, and a file that cannot be read is left out.  When it is done    *)
(* the calls that wait for it go on in one stretch.                        *)
(***************************************************************************)
EXTENDS Integers, FiniteSets, Sequences, SequencesExt

CONSTANTS SelCalls,
          SelQueries,     \* the queries, with the limits that are part of the key
          SelTTL,         \* CACHE_TTL_MS, in ticks
          MaxCached,      \* 20
          MaxSelTime,     \* bound on the clock
          NoSearch

ASSUME SelectionAssumption ==
    /\ SelTTL \in Nat \ {0} /\ MaxCached \in Nat \ {0} /\ MaxSelTime \in Nat
    /\ NoSearch \notin Nat

VARIABLES
    selClock,
    selCall,    \* the calls of select()
    selCache,   \* cache, in the order in which its keys were first set
    inflight    \* key -> when its search began, or NoSearch

selVars == <<selClock, selCall, selCache, inflight>>

SelTime == 0 .. MaxSelTime
SelKey == [query : SelQueries, skipCache : BOOLEAN]
Slice == [from : SelTime, at : SelTime]   \* a search, by its beginning and its end
Cached == [key : SelKey, slice : Slice]

SelCall == [pc : {"new"}] \cup
           [pc : {"searches", "joins"}, key : SelKey, began : SelTime] \cup
           [pc : {"done"}, key : SelKey, began : SelTime, slice : Slice]

SelTypeInvariant ==
    /\ selClock \in SelTime
    /\ selCall \in [SelCalls -> SelCall]
    /\ selCache \in Seq(Cached) /\ Len(selCache) <= MaxCached
    /\ inflight \in [SelKey -> SelTime \cup {NoSearch}]

SelIdle(now) ==
    /\ selClock = now
    /\ selCall = [c \in SelCalls |-> [pc |-> "new"]]
    /\ selCache = <<>>
    /\ inflight = [k \in SelKey |-> NoSearch]

SelInit == SelIdle(0)

Hits(k) == {i \in DOMAIN selCache : selCache[i].key = k}
FreshHits(k) == {i \in Hits(k) : selClock - selCache[i].slice.at < SelTTL}

-----------------------------------------------------------------------------
\* Mutant of SelHits: the key tells the calls that skip the cache, so nothing else does.
SelHitsSkipping(c, k) ==
    /\ selCall[c].pc = "new"
    /\ \E i \in FreshHits(k) :
          selCall' = [selCall EXCEPT ![c] = [pc |-> "done", key |-> k, began |-> selClock,
                                             slice |-> selCache[i].slice]]
    /\ UNCHANGED <<selClock, selCache, inflight>>

\* The cache answers, if it may.
SelHits(c, k) ==
    /\ selCall[c].pc = "new"
    /\ ~k.skipCache
    /\ \E i \in FreshHits(k) :
          selCall' = [selCall EXCEPT ![c] = [pc |-> "done", key |-> k, began |-> selClock,
                                             slice |-> selCache[i].slice]]
    /\ UNCHANGED <<selClock, selCache, inflight>>

\* Otherwise a search for the same key is under way, or a new one is begun.
SelMisses(c, k) ==
    /\ selCall[c].pc = "new"
    /\ k.skipCache \/ FreshHits(k) = {}
    /\ IF inflight[k] # NoSearch
       THEN /\ selCall' = [selCall EXCEPT ![c] = [pc |-> "joins", key |-> k, began |-> selClock]]
            /\ UNCHANGED inflight
       ELSE /\ selCall' = [selCall EXCEPT ![c] = [pc |-> "searches", key |-> k,
                                                  began |-> selClock]]
            /\ inflight' = [inflight EXCEPT ![k] = selClock]
    /\ UNCHANGED <<selClock, selCache>>

\* cache.set() leaves a key where it was first set, and the first one is evicted.
CachedAs(k, slice) ==
    LET entry == [key |-> k, slice |-> slice]
        set == IF Hits(k) = {} THEN Append(selCache, entry)
               ELSE [i \in DOMAIN selCache |-> IF selCache[i].key = k THEN entry ELSE selCache[i]]
    IN  IF Len(set) > MaxCached THEN Tail(set) ELSE set

\* Call d once a search for k has given `slice`.
Answered(d, k, slice) ==
    IF selCall[d].pc \in {"searches", "joins"} /\ selCall[d].key = k
    THEN [pc |-> "done", key |-> k, began |-> selCall[d].began, slice |-> slice]
    ELSE selCall[d]

\* The search ends: it is cached, under a key with skipCache too, and forgotten as in flight.
SelEnds(c) ==
    LET k == selCall[c].key
        slice == [from |-> inflight[k], at |-> selClock] IN
    /\ selCall[c].pc = "searches"
    /\ selCall' = [d \in SelCalls |-> Answered(d, k, slice)]
    /\ selCache' = CachedAs(k, slice)
    /\ inflight' = [inflight EXCEPT ![k] = NoSearch]
    /\ UNCHANGED selClock

SelTick ==
    /\ selClock < MaxSelTime
    /\ selClock' = selClock + 1
    /\ UNCHANGED <<selCall, selCache, inflight>>

SelNext ==
    \/ \E c \in SelCalls, k \in SelKey : SelHits(c, k) \/ SelMisses(c, k)
    \/ \E c \in SelCalls : SelEnds(c)
    \/ SelTick

SelSpec == SelInit /\ [][SelNext]_selVars

-----------------------------------------------------------------------------
\* Whether it hits, joins a search or makes one, and whatever was evicted: a call is answered
\* by a search that ended less than a lifetime before the call, and a call that skips the
\* cache by one that ended after it.
SelectionIsRecent ==
    \A c \in SelCalls :
        selCall[c].pc = "done" =>
            IF selCall[c].key.skipCache THEN selCall[c].slice.at >= selCall[c].began
            ELSE selCall[c].began - selCall[c].slice.at < SelTTL

\* Known not to hold: "so that a skipCache=true call never races with a cached entry"
\* (sce.ts:118-119); such calls join one another's searches, so that an answer need not show
\* what was changed before the call.
SkippingLooksNow ==
    \A c \in SelCalls :
        selCall[c].pc = "done" /\ selCall[c].key.skipCache =>
            selCall[c].slice.from >= selCall[c].began
=============================================================================
