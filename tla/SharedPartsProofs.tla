--------------------------- MODULE SharedPartsProofs ---------------------------
(***************************************************************************)
(* The safety of the parts that runs share: what the permission hook lets  *)
(* through, for any rules, sessions and calls; how recent a selection of   *)
(* files is, for any calls, searches and lifetime; the catalogue's cache,  *)
(* for any number of processes, calls and lifetimes; the snapshots of a    *)
(* workspace, for any files and any number of iterations; the connections  *)
(* to MCP servers, for any names and any number of operations and clients; *)
(* what a rollback gives back, for any files and any changes; the todos of *)
(* sessions whose runs have an agent to themselves, for any sessions, runs *)
(* and lists; the pages of the session list, for any sessions, clients and *)
(* size of a page; and the questions that runs ask, for any requests.      *)
(***************************************************************************)
EXTENDS PermissionRules, SharedAgent, Selection, Pages, Mcp, Workspace, Snapshots, Catalog,
        Permissions, RunStateProofs, WellFoundedInduction, FiniteSetTheorems, TLAPS

\* Every set of natural numbers has a least one.
LEMMA Least ==
    ASSUME NEW T, T \subseteq Nat, T # {}
    PROVE  Min(T) \in T /\ \A y \in T : Min(T) <= y
<1> DEFINE R == {ss \in Nat \X Nat : ss[1] < ss[2]}
<1>1. IsWellFoundedOn(R, Nat)
  <2>1. R = OpToRel(<, Nat)
    BY Zenon DEF OpToRel
  <2> QED
    BY <2>1, NatLessThanWellFounded, Zenon
<1> HIDE DEF R
<1>2. PICK x \in T : \A y \in T : <<y, x>> \notin R
  BY <1>1, WFMin
<1>3. \A y \in T : x <= y
  <2> SUFFICES ASSUME NEW y \in T PROVE x <= y
    OBVIOUS
  <2>1. x \in Nat /\ y \in Nat
    OBVIOUS
  <2>2. ~ y < x
    BY <1>2, <2>1 DEF R
  <2> QED
    BY <2>1, <2>2
<1> QED
  BY <1>3 DEF Min

-----------------------------------------------------------------------------
\* The permission rules.

\* What is approved was told this hook.
ApprovedWasSaid ==
    \A s \in RuleSessions, t \in RuleTools, p \in Patterns :
        <<s, t, p>> \in approved =>
            \E a \in saidAlways : a.here /\ a.session = s /\ a.tool = t /\ a.pattern = p

\* A question comes of a rule that asks, so no file tool was approved under one that denies.
AskedByRule ==
    hookCall.pc = "asked" => ByRule(Ruled(hookCall.tool, hookCall.object)) = "asked"
WritesWereAsked ==
    \A s \in RuleSessions, p \in Patterns :
        <<s, "write", p>> \in approved => ByRule(EditRule) = "asked"

RuleIInv ==
    /\ hookCall \in HookCall \cup {NoCall}
    /\ ApprovedWasSaid
    /\ AskedByRule
    /\ WritesWereAsked
    /\ GrantedKnowingly

\* The rules of a hook never change, so what they say does not either.
LEMMA RulesStay ==
    ASSUME UNCHANGED ruleConfig, NEW t, NEW o
    PROVE  /\ Ruled(t, o)' = Ruled(t, o)
           /\ ByRule(Ruled(t, o))' = ByRule(Ruled(t, o))
           /\ ByRule(EditRule)' = ByRule(EditRule)
<1>1. BashHits(o)' = BashHits(o) /\ EditRule' = EditRule
  BY DEF BashHits, EditRule
<1>2. BashRule(o)' = BashRule(o)
  BY <1>1 DEF BashRule
<1> QED
  BY <1>1, <1>2 DEF Ruled, ByRule

\* A rule that asks neither allows nor denies.
LEMMA AskingRule ==
    ASSUME NEW rule, ByRule(rule) = "asked"
    PROVE  rule # "allow" /\ rule # "deny"
BY DEF ByRule

LEMMA RuleInitInv == RuleInit => RuleIInv
BY DEF RuleInit, RuleIdle, RuleIInv, ApprovedWasSaid, AskedByRule, WritesWereAsked,
       GrantedKnowingly, NoCall

LEMMA HookMeetsInv ==
    ASSUME RuleIInv, NEW s \in RuleSessions, NEW t \in RuleTools, NEW o \in RuleObjects,
           HookMeets(s, t, o)
    PROVE  RuleIInv'
<1> DEFINE v == Verdict(s, t, o)
<1>1. /\ hookCall' = [pc |-> IF v = "asked" THEN "asked" ELSE "over", session |-> s,
                      tool |-> t, object |-> o, reply |-> "none", verdict |-> v]
      /\ UNCHANGED <<ruleConfig, approved, saidAlways>>
  BY DEF HookMeets
<1>2. v \in {"allowed", "denied", "asked"}
  BY DEF Verdict, ByRule
<1>3. hookCall' \in HookCall
  BY <1>1, <1>2 DEF HookCall
<1>4. ApprovedWasSaid' /\ WritesWereAsked'
  BY <1>1, RulesStay DEF RuleIInv, ApprovedWasSaid, WritesWereAsked
<1>5. v = "asked" => ByRule(Ruled(t, o)) = "asked"
  BY DEF Verdict
<1>6. AskedByRule'
  BY <1>1, <1>5, RulesStay DEF AskedByRule
<1>7. ASSUME v = "allowed", t # "spawn_subagent"
      PROVE  \/ Ruled(t, o) = "allow"
             \/ /\ Ruled(t, o) # "deny"
                /\ \E a \in saidAlways : /\ a.here
                                         /\ a.session = s
                                         /\ a.tool = t
                                         /\ <<a.pattern, o>> \in RuleMatches
  <2>1. CASE ByRule(Ruled(t, o)) = "allowed"
    BY <2>1 DEF ByRule
  <2>2. CASE ByRule(Ruled(t, o)) # "allowed"
    <3>1. IsApproved(s, t, o) /\ (t = "bash" => ByRule(Ruled(t, o)) = "asked")
      BY <1>7, <2>2 DEF Verdict
    <3>2. PICK p \in Patterns : <<s, t, p>> \in approved /\ <<p, o>> \in RuleMatches
      BY <3>1 DEF IsApproved
    <3>3. ByRule(Ruled(t, o)) = "asked"
      <4>1. CASE t = "bash"
        BY <3>1, <4>1
      <4>2. CASE t = "write"
        BY <3>2, <4>2 DEF RuleIInv, WritesWereAsked, Ruled
      <4> QED
        BY <1>7, <4>1, <4>2 DEF RuleTools
    <3>4. \E a \in saidAlways : a.here /\ a.session = s /\ a.tool = t /\ a.pattern = p
      BY <3>2 DEF RuleIInv, ApprovedWasSaid
    <3> QED
      BY <3>2, <3>3, <3>4, AskingRule
  <2> QED
    BY <2>1, <2>2
<1>8. GrantedKnowingly'
  <2>1. /\ hookCall'.tool = t /\ hookCall'.object = o /\ hookCall'.session = s
        /\ hookCall'.verdict = v
    BY <1>1
  <2> QED
    BY <1>1, <1>7, <2>1, RulesStay DEF GrantedKnowingly
<1> QED
  BY <1>3, <1>4, <1>6, <1>8 DEF RuleIInv

LEMMA HookAnsweredInv ==
    ASSUME RuleIInv, NEW a \in {"yes", "always", "no"}, HookAnswered(a)
    PROVE  RuleIInv'
<1> DEFINE s == hookCall.session
           t == hookCall.tool
           o == hookCall.object
           q == Remembered(t, o)
<1>1. hookCall.pc = "asked" /\ hookCall \in HookCall /\ UNCHANGED ruleConfig
  BY DEF HookAnswered, RuleIInv, NoCall
<1>2. /\ hookCall' \in HookCall
      /\ hookCall'.pc = "over" /\ hookCall'.reply = a
      /\ hookCall'.tool = t /\ hookCall'.object = o
      /\ hookCall'.verdict = "allowed" => a \in {"yes", "always"}
  <2> DEFINE verdict == IF a = "no" THEN "denied" ELSE "allowed"
  <2>1. hookCall' = [hookCall EXCEPT !.pc = "over", !.reply = a, !.verdict = verdict]
    BY DEF HookAnswered
  <2>2. verdict \in {"allowed", "denied"} /\ (verdict = "allowed" => a \in {"yes", "always"})
    OBVIOUS
  <2> HIDE DEF verdict
  <2>3. hookCall = [pc |-> hookCall.pc, session |-> s, tool |-> t, object |-> o,
                    reply |-> hookCall.reply, verdict |-> hookCall.verdict]
    BY <1>1 DEF HookCall
  <2>4. hookCall' = [pc |-> "over", session |-> s, tool |-> t, object |-> o, reply |-> a,
                     verdict |-> verdict]
    BY <2>1, <2>3
  <2>5. s \in RuleSessions /\ t \in RuleTools /\ o \in RuleObjects
    BY <1>1 DEF HookCall
  <2>6. a \in {"none", "yes", "always", "no"}
    OBVIOUS
  <2> HIDE DEF s, t, o
  <2>7. hookCall' \in HookCall
    BY <2>2, <2>4, <2>5, <2>6 DEF HookCall
  <2> QED
    BY <2>2, <2>4, <2>7
<1>3. ByRule(Ruled(t, o)) = "asked"
  BY <1>1 DEF RuleIInv, AskedByRule
<1>4. AskedByRule' /\ GrantedKnowingly'
  BY <1>1, <1>2, <1>3, AskingRule, RulesStay DEF AskedByRule, GrantedKnowingly
<1>5. CASE a # "always"
  <2>1. UNCHANGED <<approved, saidAlways>>
    BY <1>5 DEF HookAnswered
  <2>2. ApprovedWasSaid' /\ WritesWereAsked'
    BY <1>1, <2>1, RulesStay DEF RuleIInv, ApprovedWasSaid, WritesWereAsked
  <2> QED
    BY <1>2, <1>4, <2>2 DEF RuleIInv
<1>6. CASE a = "always"
  <2> DEFINE said == [session |-> s, tool |-> t, object |-> o, pattern |-> q, here |-> TRUE]
  <2>1. approved' = approved \cup {<<s, t, q>>} /\ saidAlways' = saidAlways \cup {said}
    BY <1>6 DEF HookAnswered
  <2>2. ApprovedWasSaid'
    <3>1. /\ said \in saidAlways' /\ said.here
          /\ said.session = s /\ said.tool = t /\ said.pattern = q
      BY <2>1
    <3> HIDE DEF said
    <3> SUFFICES ASSUME NEW s2 \in RuleSessions, NEW t2 \in RuleTools, NEW p2 \in Patterns,
                        <<s2, t2, p2>> \in approved'
                 PROVE  \E b \in saidAlways' : /\ b.here
                                               /\ b.session = s2
                                               /\ b.tool = t2
                                               /\ b.pattern = p2
      BY DEF ApprovedWasSaid
    <3>2. CASE <<s2, t2, p2>> \in approved
      BY <2>1, <3>2 DEF RuleIInv, ApprovedWasSaid
    <3>3. CASE <<s2, t2, p2>> = <<s, t, q>>
      <4>1. s2 = s /\ t2 = t /\ p2 = q
        BY <3>3
      <4> QED
        BY <3>1, <4>1
    <3> QED
      BY <2>1, <3>2, <3>3
  <2>3. t = "write" => ByRule(EditRule) = "asked"
    BY <1>3 DEF Ruled
  <2>4. WritesWereAsked'
    BY <1>1, <2>1, <2>3, RulesStay DEF RuleIInv, WritesWereAsked
  <2> QED
    BY <1>2, <1>4, <2>2, <2>4 DEF RuleIInv
<1> QED
  BY <1>5, <1>6

LEMMA RuleStepInv == RuleIInv /\ [RuleNext]_ruleVars => RuleIInv'
<1>1. ASSUME RuleIInv, HookRebuilt PROVE RuleIInv'
  BY <1>1 DEF RuleIInv, HookRebuilt, ApprovedWasSaid, AskedByRule, WritesWereAsked,
              GrantedKnowingly, NoCall
<1>2. RuleIInv /\ UNCHANGED ruleVars => RuleIInv'
  BY RulesStay DEF RuleIInv, ruleVars, ApprovedWasSaid, AskedByRule, WritesWereAsked,
              GrantedKnowingly
<1> QED
  BY <1>1, <1>2, HookMeetsInv, HookAnsweredInv DEF RuleNext

\* Whatever the rules and the answers, nothing is let through that the rules deny, and what
\* they ask about only after an answer that covers it (permission.ts).
THEOREM RulesGrantKnowingly == RuleSpec => []GrantedKnowingly
<1>1. RuleIInv => GrantedKnowingly
  BY DEF RuleIInv
<1> QED
  BY <1>1, RuleInitInv, RuleStepInv, PTL DEF RuleSpec

\* What an answer "always" is remembered by is a pattern.
LEMMA RememberedIsPattern ==
    ASSUME PermissionRulesAssumption, ruleConfig.rules \in RuleConfigs,
           NEW t \in RuleTools, NEW o \in RuleObjects
    PROVE  Remembered(t, o) \in Patterns
<1>1. CASE t = "bash" /\ BashHits(o) # {}
  <2> DEFINE bash == ruleConfig.rules.bash
  <2>1. bash \in Seq([pattern : BashPatterns, rule : Rules])
    BY DEF PermissionRulesAssumption
  <2>2. BashHits(o) \subseteq DOMAIN bash /\ DOMAIN bash \subseteq Nat
    BY <2>1 DEF BashHits
  <2> HIDE DEF bash
  <2>3. BashHits(o) \subseteq Nat
    BY <2>2
  <2>4. Min(BashHits(o)) \in DOMAIN bash
    BY <1>1, <2>2, <2>3, Least
  <2>5. bash[Min(BashHits(o))] \in [pattern : BashPatterns, rule : Rules]
    <3>1. ASSUME NEW R, bash \in Seq(R), NEW i \in DOMAIN bash PROVE bash[i] \in R
      BY <3>1
    <3> QED
      BY <2>1, <2>4, <3>1
  <2>6. BashRule(o) = bash[Min(BashHits(o))]
    BY DEF BashRule, bash
  <2>7. BashRule(o).pattern \in BashPatterns
    BY <2>5, <2>6
  <2> QED
    BY <1>1, <2>7 DEF Remembered, Patterns
<1>2. CASE ~(t = "bash" /\ BashHits(o) # {})
  BY <1>2 DEF Remembered, Patterns
<1> QED
  BY <1>1, <1>2

RuleTyped ==
    /\ ruleConfig \in [rules : RuleConfigs, hasUser : BOOLEAN]
    /\ approved \subseteq RuleSessions \X RuleTools \X Patterns
    /\ saidAlways \subseteq Said

LEMMA RuleTypedStep ==
    ASSUME PermissionRulesAssumption, RuleIInv, RuleTyped, [RuleNext]_ruleVars
    PROVE  RuleTyped'
<1>1. ASSUME NEW a \in {"yes", "always", "no"}, HookAnswered(a) PROVE RuleTyped'
  <2> DEFINE s == hookCall.session
             t == hookCall.tool
             o == hookCall.object
             p == Remembered(t, o)
  <2>1. s \in RuleSessions /\ t \in RuleTools /\ o \in RuleObjects
    BY <1>1 DEF HookAnswered, RuleIInv, HookCall, NoCall
  <2>2. p \in Patterns
    BY <2>1, RememberedIsPattern DEF RuleTyped
  <2>3. CASE a # "always"
    BY <1>1, <2>3 DEF HookAnswered, RuleTyped
  <2>4. CASE a = "always"
    <3> DEFINE said == [session |-> s, tool |-> t, object |-> o, pattern |-> p, here |-> TRUE]
    <3>1. /\ approved' = approved \cup {<<s, t, p>>}
          /\ saidAlways' = saidAlways \cup {said}
          /\ ruleConfig' = ruleConfig
      BY <1>1, <2>4 DEF HookAnswered
    <3> HIDE DEF s, t, o, p
    <3>2. said \in Said /\ <<s, t, p>> \in RuleSessions \X RuleTools \X Patterns
      BY <2>1, <2>2 DEF Said
    <3> QED
      BY <3>1, <3>2 DEF RuleTyped
  <2> QED
    BY <2>3, <2>4
<1>2. CASE HookRebuilt
  <2>1. ASSUME NEW a \in Said PROVE [a EXCEPT !.here = FALSE] \in Said
    BY DEF Said
  <2> QED
    BY <1>2, <2>1 DEF HookRebuilt, RuleTyped
<1>3. ASSUME NEW s \in RuleSessions, NEW t \in RuleTools, NEW o \in RuleObjects,
             HookMeets(s, t, o)
      PROVE  RuleTyped'
  BY <1>3 DEF HookMeets, RuleTyped
<1>4. CASE UNCHANGED ruleVars
  BY <1>4 DEF ruleVars, RuleTyped
<1> QED
  BY <1>1, <1>2, <1>3, <1>4 DEF RuleNext

\* For any rules and any calls: what the hook remembers are patterns of its sessions and tools.
THEOREM RuleTypes == RuleSpec => []RuleTypeInvariant
<1> USE PermissionRulesAssumption
<1>1. RuleInit => RuleIInv /\ RuleTyped
  BY RuleInitInv DEF RuleInit, RuleIdle, RuleTyped
<1>2. RuleIInv /\ RuleTyped /\ [RuleNext]_ruleVars => (RuleIInv /\ RuleTyped)'
  BY RuleTypedStep, RuleStepInv
<1>3. RuleIInv /\ RuleTyped => RuleTypeInvariant
  BY DEF RuleIInv, RuleTyped, RuleTypeInvariant
<1> QED
  BY <1>1, <1>2, <1>3, PTL DEF RuleSpec

-----------------------------------------------------------------------------
\* The cache of selections.

USE SelectionAssumption

\* A search that is under way has begun, and no call in the future.
SearchHasBegun ==
    \A c \in SelCalls :
        /\ selCall[c].pc = "searches" => inflight[selCall[c].key] # NoSearch
        /\ selCall[c].pc # "new" => selCall[c].began <= selClock

SelIInv == SelTypeInvariant /\ SearchHasBegun /\ SelectionIsRecent

LEMMA SelInitInv == SelInit => SelIInv
BY DEF SelInit, SelIdle, SelIInv, SelTypeInvariant, SearchHasBegun, SelectionIsRecent,
       SelTime, SelCall

LEMMA SelHitsInv ==
    ASSUME SelIInv, NEW c \in SelCalls, NEW k \in SelKey, SelHits(c, k)
    PROVE  SelIInv'
<1>1. PICK i \in FreshHits(k) :
          selCall' = [selCall EXCEPT ![c] = [pc |-> "done", key |-> k, began |-> selClock,
                                             slice |-> selCache[i].slice]]
  BY DEF SelHits
<1>2. ~k.skipCache /\ UNCHANGED <<selClock, selCache, inflight>>
  BY DEF SelHits
<1>3. /\ selCache[i] \in Cached /\ selClock \in SelTime
      /\ selClock - selCache[i].slice.at < SelTTL
  BY <1>1 DEF FreshHits, Hits, SelIInv, SelTypeInvariant
<1>4. [pc |-> "done", key |-> k, began |-> selClock, slice |-> selCache[i].slice] \in SelCall
  BY <1>3 DEF Cached, SelCall
<1>5. SelTypeInvariant'
  BY <1>1, <1>2, <1>4 DEF SelIInv, SelTypeInvariant
<1>6. SearchHasBegun' /\ SelectionIsRecent'
  BY <1>1, <1>2, <1>3 DEF SelIInv, SelTypeInvariant, SearchHasBegun, SelectionIsRecent, SelTime
<1> QED
  BY <1>5, <1>6 DEF SelIInv

LEMMA SelMissesInv ==
    ASSUME SelIInv, NEW c \in SelCalls, NEW k \in SelKey, SelMisses(c, k)
    PROVE  SelIInv'
<1>1. UNCHANGED <<selClock, selCache>> /\ selClock \in SelTime /\ SelTime \subseteq Nat
  BY DEF SelMisses, SelIInv, SelTypeInvariant, SelTime
<1>2. CASE inflight[k] # NoSearch
  <2>1. /\ selCall' = [selCall EXCEPT ![c] = [pc |-> "joins", key |-> k, began |-> selClock]]
        /\ UNCHANGED inflight
    BY <1>2 DEF SelMisses
  <2>2. [pc |-> "joins", key |-> k, began |-> selClock] \in SelCall
    BY <1>1 DEF SelCall
  <2>3. SelTypeInvariant'
    BY <1>1, <2>1, <2>2 DEF SelIInv, SelTypeInvariant
  <2>4. SearchHasBegun' /\ SelectionIsRecent'
    BY <1>1, <2>1 DEF SelIInv, SelTypeInvariant, SearchHasBegun, SelectionIsRecent
  <2> QED
    BY <2>3, <2>4 DEF SelIInv
<1>3. CASE inflight[k] = NoSearch
  <2>1. /\ selCall' = [selCall EXCEPT ![c] = [pc |-> "searches", key |-> k,
                                              began |-> selClock]]
        /\ inflight' = [inflight EXCEPT ![k] = selClock]
    BY <1>3 DEF SelMisses
  <2>2. [pc |-> "searches", key |-> k, began |-> selClock] \in SelCall
    BY <1>1 DEF SelCall
  <2>3. SelTypeInvariant'
    BY <1>1, <2>1, <2>2 DEF SelIInv, SelTypeInvariant
  <2>4. selClock # NoSearch
    BY <1>1
  <2>5. SearchHasBegun'
    BY <1>1, <2>1, <2>4 DEF SelIInv, SelTypeInvariant, SearchHasBegun
  <2>6. SelectionIsRecent'
    BY <1>1, <2>1 DEF SelIInv, SelTypeInvariant, SelectionIsRecent
  <2> QED
    BY <2>3, <2>5, <2>6 DEF SelIInv
<1> QED
  BY <1>2, <1>3

\* The cache never holds more than it may.
LEMMA CachedAsType ==
    ASSUME selCache \in Seq(Cached), Len(selCache) <= MaxCached,
           NEW k \in SelKey, NEW slice \in Slice
    PROVE  CachedAs(k, slice) \in Seq(Cached) /\ Len(CachedAs(k, slice)) <= MaxCached
<1> DEFINE entry == [key |-> k, slice |-> slice]
           replaced == [i \in DOMAIN selCache |-> IF selCache[i].key = k THEN entry
                                                  ELSE selCache[i]]
           set == IF Hits(k) = {} THEN Append(selCache, entry) ELSE replaced
<1>1. entry \in Cached
  BY DEF Cached
<1>2. replaced \in Seq(Cached) /\ Len(replaced) = Len(selCache)
  BY <1>1
<1>3. Append(selCache, entry) \in Seq(Cached) /\ Len(Append(selCache, entry)) = Len(selCache) + 1
  BY <1>1
<1>4. set \in Seq(Cached) /\ Len(set) <= MaxCached + 1
  BY <1>2, <1>3
<1>5. CachedAs(k, slice) = IF Len(set) > MaxCached THEN Tail(set) ELSE set
  BY DEF CachedAs
<1> HIDE DEF set
<1>6. CASE Len(set) > MaxCached
  BY <1>4, <1>5, <1>6
<1>7. CASE ~(Len(set) > MaxCached)
  BY <1>4, <1>5, <1>7
<1> QED
  BY <1>6, <1>7

LEMMA SelEndsInv ==
    ASSUME SelIInv, NEW c \in SelCalls, SelEnds(c)
    PROVE  SelIInv'
<1> DEFINE k == selCall[c].key
           slice == [from |-> inflight[k], at |-> selClock]
<1>1. selCall[c].pc = "searches" /\ selCall[c] \in SelCall
  BY DEF SelEnds, SelIInv, SelTypeInvariant
<1>2. k \in SelKey /\ inflight[k] \in SelTime /\ selClock \in SelTime
  <2>1. k \in SelKey
    BY <1>1 DEF SelCall
  <2> QED
    BY <1>1, <2>1 DEF SelIInv, SelTypeInvariant, SearchHasBegun
<1>3. slice \in Slice
  BY <1>2 DEF Slice
<1>4. /\ selCall' = [d \in SelCalls |-> Answered(d, k, slice)]
      /\ selCache' = CachedAs(k, slice)
      /\ inflight' = [inflight EXCEPT ![k] = NoSearch]
      /\ UNCHANGED selClock
  BY DEF SelEnds
<1>5. ASSUME NEW d \in SelCalls, selCall[d].pc \in {"searches", "joins"}, selCall[d].key = k
      PROVE  /\ selCall'[d] \in SelCall
             /\ selCall'[d].pc = "done" /\ selCall'[d].began = selCall[d].began
             /\ selCall'[d].slice.at = selClock
             /\ selCall[d].began <= selClock /\ selCall[d].began \in SelTime
  <2>1. selCall'[d] = [pc |-> "done", key |-> k, began |-> selCall[d].began, slice |-> slice]
    BY <1>4, <1>5 DEF Answered
  <2>2. selCall[d].began \in SelTime /\ selCall[d].began <= selClock
    BY <1>5 DEF SelIInv, SelTypeInvariant, SelCall, SearchHasBegun
  <2> QED
    BY <1>2, <1>3, <2>1, <2>2 DEF SelCall
<1>6. ASSUME NEW d \in SelCalls, ~(selCall[d].pc \in {"searches", "joins"} /\ selCall[d].key = k)
      PROVE  selCall'[d] = selCall[d]
  BY <1>4, <1>6 DEF Answered
<1>7. SelTypeInvariant'
  <2>1. selCall' \in [SelCalls -> SelCall]
    <3>1. \A d \in SelCalls : selCall'[d] \in SelCall
      BY <1>5, <1>6 DEF SelIInv, SelTypeInvariant
    <3> QED
      BY <1>4, <3>1
  <2>2. selCache' \in Seq(Cached) /\ Len(selCache') <= MaxCached
    BY <1>2, <1>3, <1>4, CachedAsType DEF SelIInv, SelTypeInvariant
  <2> QED
    BY <1>2, <1>4, <2>1, <2>2 DEF SelIInv, SelTypeInvariant
<1>8. SearchHasBegun'
  <2> SUFFICES ASSUME NEW d \in SelCalls
               PROVE  /\ selCall'[d].pc = "searches" => inflight'[selCall'[d].key] # NoSearch
                      /\ selCall'[d].pc # "new" => selCall'[d].began <= selClock
    BY <1>4 DEF SearchHasBegun
  <2>1. CASE selCall[d].pc \in {"searches", "joins"} /\ selCall[d].key = k
    BY <1>5, <2>1
  <2>2. CASE ~(selCall[d].pc \in {"searches", "joins"} /\ selCall[d].key = k)
    <3>1. selCall'[d] = selCall[d]
      BY <1>6, <2>2
    <3>2. selCall[d].pc = "searches" => selCall[d].key \in SelKey /\ selCall[d].key # k
      BY <2>2 DEF SelIInv, SelTypeInvariant, SelCall
    <3> QED
      BY <1>4, <3>1, <3>2 DEF SelIInv, SelTypeInvariant, SearchHasBegun
  <2> QED
    BY <2>1, <2>2
<1>9. SelectionIsRecent'
  <2> SUFFICES ASSUME NEW d \in SelCalls, selCall'[d].pc = "done"
               PROVE  IF selCall'[d].key.skipCache
                      THEN selCall'[d].slice.at >= selCall'[d].began
                      ELSE selCall'[d].began - selCall'[d].slice.at < SelTTL
    BY DEF SelectionIsRecent
  <2>1. CASE selCall[d].pc \in {"searches", "joins"} /\ selCall[d].key = k
    BY <1>2, <1>5, <2>1 DEF SelTime
  <2>2. CASE ~(selCall[d].pc \in {"searches", "joins"} /\ selCall[d].key = k)
    BY <1>6, <2>2 DEF SelIInv, SelectionIsRecent
  <2> QED
    BY <2>1, <2>2
<1> QED
  BY <1>7, <1>8, <1>9 DEF SelIInv

\* However calls, searches, expiry and eviction interleave, an answer of select() is as recent
\* as its call may expect (sce.ts).
THEOREM SelectionsAreRecent == SelSpec => []SelectionIsRecent
<1>1. ASSUME SelIInv, SelTick PROVE SelIInv'
  <2>1. /\ selClock' = selClock + 1 /\ UNCHANGED <<selCall, selCache, inflight>>
        /\ selClock \in SelTime /\ selClock' \in SelTime /\ SelTime \subseteq Nat
    BY <1>1 DEF SelTick, SelIInv, SelTypeInvariant, SelTime
  <2>2. SelTypeInvariant' /\ SelectionIsRecent'
    BY <1>1, <2>1 DEF SelIInv, SelTypeInvariant, SelectionIsRecent
  <2>3. ASSUME NEW c \in SelCalls, selCall[c].pc # "new"
        PROVE  selCall[c].began \in Nat /\ selCall[c].began <= selClock
    BY <1>1, <2>1, <2>3 DEF SelIInv, SelTypeInvariant, SearchHasBegun, SelCall
  <2>4. SearchHasBegun'
    BY <1>1, <2>1, <2>3 DEF SelIInv, SearchHasBegun
  <2> QED
    BY <2>2, <2>4 DEF SelIInv
<1>2. SelIInv /\ UNCHANGED selVars => SelIInv'
  BY DEF SelIInv, selVars, SelTypeInvariant, SearchHasBegun, SelectionIsRecent
<1>3. SelIInv /\ [SelNext]_selVars => SelIInv'
  BY <1>1, <1>2, SelHitsInv, SelMissesInv, SelEndsInv DEF SelNext
<1>4. SelIInv => SelectionIsRecent
  BY DEF SelIInv
<1> QED
  BY <1>3, <1>4, SelInitInv, PTL DEF SelSpec

HIDE SelectionAssumption

-----------------------------------------------------------------------------
\* The catalogue.

\* A snapshot that is remembered is in the cache file.
RememberedIsOnDisk == remembered => disk \in Snapshot

\* A call that owes its caller an answer holds one for the case that its fetch fails, and
\* what is saved is a snapshot.
GoodLookup(l) ==
    /\ l \in Lookup
    /\ l.known /\ l.pc = "fetching" => l.disk # Missing
    /\ l.known /\ l.pc = "done" => l.answer # Missing
    /\ l.pc = "saving" => l.answer \in Snapshot

GoodLookups == \A c \in CatCalls : GoodLookup(lookup[c])

CatIInv ==
    /\ CatTypeInvariant
    /\ RememberedIsOnDisk
    /\ GoodLookups

USE CatalogAssumption DEF Snapshot, Missing, Corrupt, Pending

\* The types of everything but the calls.
CatRest ==
    /\ clock \in Snapshot /\ disk \in Snapshot \cup {Missing, Corrupt}
    /\ memory \in [CatProcesses -> Snapshot \cup {Missing}]
    /\ remembered \in BOOLEAN
    /\ RememberedIsOnDisk

\* Where one call changes, into a good one, all stay good.
LEMMA LookupUpdate ==
    ASSUME CatIInv, NEW c \in CatCalls, NEW l, GoodLookup(l),
           lookup' = [lookup EXCEPT ![c] = l], CatRest'
    PROVE  CatIInv'
BY DEF CatIInv, CatTypeInvariant, GoodLookups, GoodLookup, CatRest

LEMMA CatInitInv == CatInit => CatIInv
<1>1. (CHOOSE p \in CatProcesses : TRUE) \in CatProcesses
  OBVIOUS
<1>2. GoodLookup(NewLookup)
  BY <1>1 DEF GoodLookup, NewLookup, Lookup
<1> SUFFICES ASSUME CatInit PROVE CatIInv
  OBVIOUS
<1>3. CatRest
  <2>1. /\ clock = 1 /\ remembered = FALSE
        /\ disk \in {Missing, Corrupt, 0, 1}
        /\ memory = [p \in CatProcesses |-> Missing]
    BY DEF CatInit, CatIdle
  <2>2. {0, 1} \subseteq Snapshot
    OBVIOUS
  <2>3. memory \in [CatProcesses -> Snapshot \cup {Missing}]
    BY <2>1
  <2>4. disk \in Snapshot \cup {Missing, Corrupt} /\ clock \in Snapshot
    BY <2>1, <2>2
  <2> QED
    BY <2>1, <2>3, <2>4 DEF CatRest, RememberedIsOnDisk
<1>4. GoodLookups /\ lookup \in [CatCalls -> Lookup]
  BY <1>2 DEF CatInit, CatIdle, GoodLookups, GoodLookup
<1> QED
  BY <1>3, <1>4 DEF CatIInv, CatTypeInvariant, CatRest

LEMMA CatGetInv ==
    ASSUME CatIInv, NEW c \in CatCalls, NEW p \in CatProcesses,
           NEW kind \in {"waits", "bounded"}, CatGet(c, p, kind)
    PROVE  CatIInv'
<1> DEFINE call == [lookup[c] EXCEPT !.by = p, !.kind = kind, !.known = remembered]
           read == IF disk = Corrupt THEN Missing ELSE disk
           Ends(s) == [call EXCEPT !.pc = "done", !.answer = s]
           Fetches == [call EXCEPT !.pc = "fetching", !.disk = read]
<1>1. call \in Lookup /\ call.by = p /\ call.known = remembered
  BY DEF CatIInv, CatTypeInvariant, Lookup
<1> HIDE DEF call
<1>2. read \in Snapshot \cup {Missing} /\ (remembered => read # Missing)
  BY DEF CatIInv, CatTypeInvariant, RememberedIsOnDisk
<1>3. ASSUME NEW s \in Snapshot PROVE GoodLookup(Ends(s))
  <2>1. s # Missing /\ s \in Snapshot \cup {Missing}
    OBVIOUS
  <2>2. Ends(s).pc = "done" /\ Ends(s).answer = s
    BY <1>1 DEF Lookup
  <2>3. Ends(s) \in Lookup
    BY <1>1, <2>1 DEF Lookup
  <2> QED
    BY <2>1, <2>2, <2>3 DEF GoodLookup
<1>4. GoodLookup(Fetches)
  BY <1>1, <1>2 DEF GoodLookup, Lookup
<1>5. \A s \in Snapshot \cup {Missing} : Fresh(s) => s \in Snapshot
  BY DEF Fresh, CatIInv, CatTypeInvariant
<1>6. CASE /\ Fresh(memory[p])
           /\ lookup' = [lookup EXCEPT ![c] = Ends(memory[p])]
           /\ UNCHANGED <<memory, disk, remembered, clock>>
  <2>1. memory[p] \in Snapshot
    BY <1>5, <1>6 DEF CatIInv, CatTypeInvariant
  <2>2. CatRest'
    BY <1>6 DEF CatRest, CatIInv, CatTypeInvariant, RememberedIsOnDisk
  <2>3. GoodLookup(Ends(memory[p]))
    BY <1>3, <2>1
  <2> HIDE DEF Ends
  <2> QED
    BY <1>6, <2>2, <2>3, LookupUpdate
<1>7. CASE /\ disk' = read
           /\ remembered' = (remembered \/ read # Missing)
           /\ Fresh(read)
           /\ lookup' = [lookup EXCEPT ![c] = Ends(read)]
           /\ memory' = [memory EXCEPT ![p] = read]
           /\ UNCHANGED clock
  <2>1. read \in Snapshot
    BY <1>2, <1>5, <1>7
  <2>2. CatRest'
    BY <1>2, <1>7, <2>1 DEF CatRest, CatIInv, CatTypeInvariant, RememberedIsOnDisk
  <2>3. GoodLookup(Ends(read))
    BY <1>3, <2>1
  <2> HIDE DEF Ends
  <2> QED
    BY <1>7, <2>2, <2>3, LookupUpdate
<1>8. CASE /\ disk' = read
           /\ remembered' = (remembered \/ read # Missing)
           /\ lookup' = [lookup EXCEPT ![c] = Fetches]
           /\ UNCHANGED <<memory, clock>>
  <2>1. CatRest'
    BY <1>2, <1>8 DEF CatRest, CatIInv, CatTypeInvariant, RememberedIsOnDisk
  <2> HIDE DEF Fetches
  <2> QED
    BY <1>4, <1>8, <2>1, LookupUpdate
<1> QED
  BY <1>1, <1>6, <1>7, <1>8 DEF CatGet, Looks, call

\* A removal takes the promise from the calls that are under way.
LEMMA ForgottenGood ==
    ASSUME CatIInv, NEW c \in CatCalls
    PROVE  /\ Forgotten(lookup)[c] \in Lookup
           /\ GoodLookup(Forgotten(lookup)[c])
           /\ Forgotten(lookup)[c].pc = lookup[c].pc
           /\ lookup[c].pc # "done" => ~Forgotten(lookup)[c].known
BY DEF CatIInv, CatTypeInvariant, GoodLookups, GoodLookup, Forgotten, Lookup

LEMMA CatRefreshInv ==
    ASSUME CatIInv, NEW c \in CatCalls, NEW p \in CatProcesses, CatRefresh(c, p)
    PROVE  CatIInv'
<1> DEFINE fs == Forgotten(lookup)
           l == [fs[c] EXCEPT !.pc = "fetching", !.by = p]
           F(d) == IF d = c THEN l ELSE fs[d]
<1>1. fs[c] \in Lookup /\ ~fs[c].known
  BY ForgottenGood DEF CatRefresh
<1>2. GoodLookup(l)
  <2> HIDE DEF fs
  <2> QED
    BY <1>1 DEF GoodLookup, Lookup
<1>3. \A d \in CatCalls : GoodLookup(fs[d])
  BY ForgottenGood
<1>4. lookup' = [fs EXCEPT ![c] = l]
  BY DEF CatRefresh
<1>5. fs = [d \in CatCalls |-> fs[d]]
  BY DEF Forgotten
<1> HIDE DEF fs, l
<1>6. lookup' = [d \in CatCalls |-> F(d)]
  BY <1>4, <1>5
<1>7. \A d \in CatCalls : GoodLookup(F(d))
  BY <1>2, <1>3
<1>8. CatRest'
  BY DEF CatRest, CatRefresh, CatIInv, CatTypeInvariant, RememberedIsOnDisk
<1> QED
  BY <1>6, <1>7, <1>8 DEF CatIInv, CatTypeInvariant, GoodLookups, GoodLookup, CatRest

LEMMA CatClearInv ==
    ASSUME CatIInv, NEW p \in CatProcesses, CatClear(p)
    PROVE  CatIInv'
<1>1. \A d \in CatCalls : GoodLookup(Forgotten(lookup)[d])
  BY ForgottenGood
<1>2. Forgotten(lookup) = [d \in CatCalls |-> Forgotten(lookup)[d]]
  BY DEF Forgotten
<1>3. CatRest'
  BY DEF CatRest, CatClear, CatIInv, CatTypeInvariant, RememberedIsOnDisk
<1>4. lookup' = Forgotten(lookup)
  BY DEF CatClear
<1> QED
  BY <1>1, <1>2, <1>3, <1>4 DEF CatIInv, CatTypeInvariant, GoodLookups, GoodLookup, CatRest

LEMMA CatCallInv ==
    ASSUME CatIInv, NEW c \in CatCalls,
           CatFetched(c) \/ CatSaves(c) \/ CatFetchFails(c) \/ CatTimesOut(c)
    PROVE  CatIInv'
<1>1. GoodLookup(lookup[c]) /\ lookup[c] \in Lookup /\ CatRest
  BY DEF CatIInv, CatTypeInvariant, GoodLookups, CatRest
<1>2. CASE CatFetched(c)
  <2> DEFINE l == [lookup[c] EXCEPT !.pc = "saving", !.answer = clock]
  <2>1. GoodLookup(l)
    BY <1>1 DEF GoodLookup, Lookup, CatRest
  <2>2. CatRest'
    BY <1>1, <1>2 DEF CatFetched, Meanwhile, CatRest, RememberedIsOnDisk, Lookup
  <2>3. lookup' = [lookup EXCEPT ![c] = l]
    BY <1>2 DEF CatFetched
  <2> QED
    BY <2>1, <2>2, <2>3, LookupUpdate
<1>3. CASE CatSaves(c)
  <2> DEFINE l == [lookup[c] EXCEPT !.pc = "done"]
  <2>1. GoodLookup(l) /\ lookup[c].answer \in Snapshot
    BY <1>1, <1>3 DEF GoodLookup, Lookup, CatSaves
  <2>2. CatRest'
    <3>1. CASE disk' = lookup[c].answer /\ remembered' = TRUE
      BY <1>1, <1>3, <2>1, <3>1 DEF CatSaves, CatRest, RememberedIsOnDisk
    <3>2. CASE UNCHANGED <<disk, remembered>>
      BY <1>1, <1>3, <3>2 DEF CatSaves, CatRest, RememberedIsOnDisk
    <3> QED
      BY <1>3, <3>1, <3>2 DEF CatSaves
  <2>3. lookup' = [lookup EXCEPT ![c] = l]
    BY <1>3 DEF CatSaves
  <2> QED
    BY <2>1, <2>2, <2>3, LookupUpdate
<1>4. CASE CatFetchFails(c)
  <2> DEFINE l == [lookup[c] EXCEPT !.pc = "done", !.answer = lookup[c].disk]
  <2>1. GoodLookup(l)
    BY <1>1, <1>4 DEF GoodLookup, Lookup, CatFetchFails
  <2>2. CatRest'
    BY <1>1, <1>4 DEF CatFetchFails, CatRest, RememberedIsOnDisk, Lookup
  <2>3. lookup' = [lookup EXCEPT ![c] = l]
    BY <1>4 DEF CatFetchFails
  <2> QED
    BY <2>1, <2>2, <2>3, LookupUpdate
<1>5. CASE CatTimesOut(c)
  <2> DEFINE l == [lookup[c] EXCEPT !.late = TRUE]
  <2>1. GoodLookup(l)
    BY <1>1, <1>5 DEF GoodLookup, Lookup
  <2>2. CatRest'
    BY <1>1, <1>5 DEF CatTimesOut, CatRest, RememberedIsOnDisk
  <2>3. lookup' = [lookup EXCEPT ![c] = l]
    BY <1>5 DEF CatTimesOut
  <2> QED
    BY <2>1, <2>2, <2>3, LookupUpdate
<1> QED
  BY <1>2, <1>3, <1>4, <1>5

LEMMA CatExitsInv ==
    ASSUME CatIInv, NEW p \in CatProcesses, CatExits(p)
    PROVE  CatIInv'
<1> DEFINE F(c) == IF lookup[c].by = p /\ lookup[c].pc \in Pending
                   THEN [lookup[c] EXCEPT !.pc = "done", !.answer = Missing, !.known = FALSE]
                   ELSE lookup[c]
<1>1. ASSUME NEW c \in CatCalls PROVE GoodLookup(F(c))
  <2>1. GoodLookup(lookup[c]) /\ lookup[c] \in Lookup
    BY DEF CatIInv, CatTypeInvariant, GoodLookups
  <2> QED
    BY <2>1 DEF GoodLookup, Lookup
<1>2. CatRest'
  BY DEF CatRest, CatExits, CatIInv, CatTypeInvariant, RememberedIsOnDisk
<1>3. lookup' = [c \in CatCalls |-> F(c)]
  BY DEF CatExits
<1> HIDE DEF F
<1> QED
  BY <1>1, <1>2, <1>3 DEF CatIInv, CatTypeInvariant, GoodLookups, GoodLookup, CatRest

LEMMA CatRestInv ==
    ASSUME CatIInv, CatTick \/ UNCHANGED catVars
    PROVE  CatIInv'
BY DEF CatIInv, CatTypeInvariant, RememberedIsOnDisk, GoodLookups, GoodLookup, CatTick, catVars

\* The catalogue's invariant holds, whatever its processes do (models-dev.ts).
THEOREM CatalogInvariant == CatSpec => []CatIInv
<1>1. CatIInv /\ [CatNext]_catVars => CatIInv'
  BY CatGetInv, CatRefreshInv, CatClearInv, CatCallInv, CatExitsInv, CatRestInv DEF CatNext
<1> QED
  BY <1>1, CatInitInv, PTL DEF CatSpec

\* Once a snapshot has been read or saved, no later call is left without one, however the
\* fetches fail, until a refresh or a clear (models-dev.ts:269).
THEOREM CatalogRemembers == CatSpec => []CatalogIsRemembered
<1>1. CatIInv => CatalogIsRemembered
  BY DEF CatIInv, GoodLookups, GoodLookup, CatalogIsRemembered
<1> QED
  BY <1>1, CatalogInvariant, PTL

-----------------------------------------------------------------------------
\* The snapshots.

\* An undisturbed track() hands on the tree of its iteration: through the working tree, the
\* index and the hash.
GoodTracker(t) ==
    /\ t \in Tracker
    /\ t.undisturbed =>
          /\ t.pc \in {"add", "adding"} => tree = t.began
          /\ t.pc = "write" => index = t.began
          /\ t.pc = "done" => t.hash = t.began

GoodTrackers == \A i \in Iterations : GoodTracker(tracker[i])

\* Iterations that have not ended have no track(), and a kept hash is that of one that ran.
TrackersOfEnded == \A i \in Iterations : i > iteration => tracker[i].pc = "new"
KeptIsDone == \A i \in kept : tracker[i].pc = "done"

\* An undisturbed restore hands on the hash it was given: through the index and the files.
GoodRestorer ==
    /\ restorer.pc \in {"read", "reading", "checkout"} \/ restorer.undisturbed =>
          restorer.of \in Iterations /\ tracker[restorer.of].pc = "done"
    /\ restorer.undisturbed =>
          LET hash == tracker[restorer.of].hash IN
          /\ restorer.pc = "checkout" => index = hash
          /\ restorer.pc = "idle" => \A f \in SnapFiles : hash[f] # Absent => tree[f] = hash[f]

SnapIInv ==
    /\ SnapTypeInvariant
    /\ GoodTrackers
    /\ TrackersOfEnded
    /\ KeptIsDone
    /\ GoodRestorer

USE SnapshotsAssumption DEF Iterations, Rests

LEMMA NoTreeType == NoTree \in Trees
BY DEF NoTree, Trees, Absent

LEMMA SnapInitInv == SnapInit => SnapIInv
<1> SUFFICES ASSUME SnapInit PROVE SnapIInv
  OBVIOUS
<1>1. GoodTracker(NoTracker) /\ NoTracker.pc = "new"
  BY NoTreeType DEF GoodTracker, NoTracker, Tracker
<1>2. tree \in Trees
  BY DEF SnapInit, SnapIdle, Trees, Absent
<1>3. restorer \in Restorer /\ restorer.pc = "idle" /\ ~restorer.undisturbed
  BY DEF SnapInit, SnapIdle, Restorer
<1>4. /\ index = NoTree /\ iteration = 0 /\ kept = {}
      /\ tracker = [i \in Iterations |-> NoTracker]
  BY DEF SnapInit, SnapIdle
<1>5. \A i \in Iterations : GoodTracker(tracker[i]) /\ tracker[i].pc = "new"
  BY <1>1, <1>4
<1>6. tracker \in [Iterations -> Tracker]
  BY <1>4, <1>1 DEF GoodTracker
<1>7. SnapTypeInvariant
  BY <1>2, <1>3, <1>4, <1>6, NoTreeType DEF SnapTypeInvariant
<1> QED
  BY <1>3, <1>4, <1>5, <1>7
     DEF SnapIInv, GoodTrackers, TrackersOfEnded, KeptIsDone, GoodRestorer

\* A disturbed tracker keeps its record, and its own promise only where it rests.
LEMMA DisturbedTracker ==
    ASSUME NEW ts \in [Iterations -> Tracker], NEW i \in Iterations
    PROVE  LET t == Disturbed(ts)[i] IN
           /\ Disturbed(ts) \in [Iterations -> Tracker]
           /\ t.pc = ts[i].pc /\ t.began = ts[i].began /\ t.hash = ts[i].hash
           /\ t.undisturbed => ts[i].undisturbed /\ ts[i].pc \in Rests
<1>1. ASSUME NEW j \in Iterations
      PROVE  [ts[j] EXCEPT !.undisturbed = @ /\ ts[j].pc \in Rests] \in Tracker
  <2>1. ts[j] \in Tracker
    OBVIOUS
  <2> QED
    BY <2>1 DEF Tracker
<1>2. Disturbed(ts) \in [Iterations -> Tracker]
  BY <1>1 DEF Disturbed
<1>3. ts[i] \in Tracker
  OBVIOUS
<1>4. Disturbed(ts)[i] = [ts[i] EXCEPT !.undisturbed = @ /\ ts[i].pc \in Rests]
  BY DEF Disturbed
<1> QED
  BY <1>2, <1>3, <1>4 DEF Tracker

\* Where every tracker is disturbed, all stay good, whatever becomes of tree and index.
LEMMA AllDisturbed ==
    ASSUME SnapIInv, tracker' = Disturbed(tracker), UNCHANGED <<iteration, kept>>
    PROVE  /\ tracker' \in [Iterations -> Tracker]
           /\ GoodTrackers' /\ TrackersOfEnded' /\ KeptIsDone'
           /\ \A i \in Iterations : /\ tracker'[i].pc = tracker[i].pc
                                     /\ tracker'[i].hash = tracker[i].hash
<1>1. tracker \in [Iterations -> Tracker] /\ kept \subseteq Iterations
  BY DEF SnapIInv, SnapTypeInvariant
<1>2. \A i \in Iterations : GoodTracker(tracker[i])
  BY DEF SnapIInv, GoodTrackers
<1>3. ASSUME NEW i \in Iterations
      PROVE  /\ tracker' \in [Iterations -> Tracker]
             /\ tracker'[i].pc = tracker[i].pc
             /\ tracker'[i].hash = tracker[i].hash
             /\ GoodTracker(tracker[i])'
  <2>1. /\ tracker' \in [Iterations -> Tracker]
        /\ tracker'[i].pc = tracker[i].pc /\ tracker'[i].began = tracker[i].began
        /\ tracker'[i].hash = tracker[i].hash
        /\ tracker'[i].undisturbed => tracker[i].undisturbed /\ tracker[i].pc \in Rests
    BY <1>1, DisturbedTracker
  <2> QED
    BY <1>2, <2>1 DEF GoodTracker
<1>4. tracker' \in [Iterations -> Tracker]
  <2>1. CASE Iterations = {}
    BY <1>1, <2>1 DEF Disturbed
  <2>2. CASE Iterations # {}
    BY <1>3, <2>2
  <2> QED
    BY <2>1, <2>2
<1> QED
  BY <1>1, <1>3, <1>4 DEF SnapIInv, GoodTrackers, TrackersOfEnded, KeptIsDone

\* Where one tracker changes, into a good one, and tree and index stay.
LEMMA TrackerUpdate ==
    ASSUME SnapIInv, NEW i \in Iterations, NEW t, GoodTracker(t),
           tracker' = [tracker EXCEPT ![i] = t], UNCHANGED <<tree, index>>
    PROVE  /\ tracker' \in [Iterations -> Tracker]
           /\ GoodTrackers'
BY DEF SnapIInv, SnapTypeInvariant, GoodTrackers, GoodTracker

LEMMA SnapToolInv ==
    ASSUME SnapIInv, NEW f \in SnapFiles, SnapTool(f)
    PROVE  SnapIInv'
<1>1. tracker' = Disturbed(tracker) /\ UNCHANGED <<index, iteration, kept>>
  BY DEF SnapTool
<1>2. tree' \in Trees
  BY DEF SnapTool, SnapIInv, SnapTypeInvariant, Trees, Absent
<1>3. restorer' \in Restorer /\ ~restorer'.undisturbed /\ restorer'.pc = restorer.pc
      /\ restorer'.of = restorer.of
  BY DEF SnapTool, SnapIInv, SnapTypeInvariant, Restorer, RestoreDisturbed
<1> QED
  BY <1>1, <1>2, <1>3, AllDisturbed DEF SnapIInv, SnapTypeInvariant, GoodRestorer

LEMMA SnapIterationInv ==
    ASSUME SnapIInv, SnapIteration
    PROVE  SnapIInv'
<1> DEFINE i == iteration + 1
           t == [NoTracker EXCEPT !.pc = "add", !.began = tree]
<1>1. i \in Iterations /\ tracker[i].pc = "new"
  BY DEF SnapIteration, SnapIInv, SnapTypeInvariant, TrackersOfEnded
<1>2. GoodTracker(t) /\ t.pc = "add"
  BY NoTreeType DEF GoodTracker, NoTracker, Tracker, SnapIInv, SnapTypeInvariant
<1>3. /\ tracker' = [tracker EXCEPT ![i] = t] /\ iteration' = i
      /\ UNCHANGED <<tree, index, restorer, kept>>
  BY DEF SnapIteration
<1> HIDE DEF t
<1>4. tracker' \in [Iterations -> Tracker] /\ GoodTrackers'
  BY <1>1, <1>2, <1>3, TrackerUpdate
<1>5. \A j \in Iterations : j # i => tracker'[j] = tracker[j]
  BY <1>3 DEF SnapIInv, SnapTypeInvariant
<1>6. TrackersOfEnded'
  BY <1>3, <1>5 DEF SnapIInv, SnapTypeInvariant, TrackersOfEnded
<1>7. KeptIsDone' /\ GoodRestorer'
  BY <1>1, <1>3, <1>5 DEF SnapIInv, SnapTypeInvariant, KeptIsDone, GoodRestorer
<1> QED
  BY <1>1, <1>3, <1>4, <1>6, <1>7 DEF SnapIInv, SnapTypeInvariant

LEMMA TrackAddInv ==
    ASSUME SnapIInv, NEW i \in Iterations, TrackAdd(i)
    PROVE  SnapIInv'
<1>1. PICK pc \in {"lost", "adding"} : tracker' = [tracker EXCEPT ![i].pc = pc]
  BY DEF TrackAdd
<1> DEFINE t == [tracker[i] EXCEPT !.pc = pc]
<1>2. tracker[i].pc = "add" /\ UNCHANGED <<tree, index, iteration, restorer, kept>>
  BY DEF TrackAdd
<1>3. GoodTracker(t) /\ t.pc = pc
  BY <1>1, <1>2 DEF SnapIInv, GoodTrackers, GoodTracker, Tracker
<1>4. tracker' = [tracker EXCEPT ![i] = t]
  BY <1>1
<1> HIDE DEF t
<1>5. tracker' \in [Iterations -> Tracker] /\ GoodTrackers'
  BY <1>2, <1>3, <1>4, TrackerUpdate
<1>6. \A j \in Iterations : j # i => tracker'[j] = tracker[j]
  BY <1>4 DEF SnapIInv, SnapTypeInvariant
<1>7. ~(i > iteration)
  BY <1>2 DEF SnapIInv, TrackersOfEnded
<1>8. TrackersOfEnded'
  BY <1>2, <1>6, <1>7 DEF SnapIInv, TrackersOfEnded
<1>9. KeptIsDone' /\ GoodRestorer'
  BY <1>2, <1>6 DEF SnapIInv, SnapTypeInvariant, KeptIsDone, GoodRestorer
<1> QED
  BY <1>2, <1>5, <1>8, <1>9 DEF SnapIInv, SnapTypeInvariant

LEMMA TrackAddedInv ==
    ASSUME SnapIInv, NEW i \in Iterations, TrackAdded(i)
    PROVE  SnapIInv'
<1> DEFINE ts == [tracker EXCEPT ![i].pc = "write"]
           ds == Disturbed(ts)
<1>1. /\ tracker[i].pc = "adding" /\ index' = tree /\ UNCHANGED <<tree, iteration, kept>>
      /\ tracker' = [ds EXCEPT ![i] = ts[i]] /\ restorer' = RestoreDisturbed
  BY DEF TrackAdded, OthersDisturbed
<1>2. /\ ts \in [Iterations -> Tracker] /\ ts[i] = [tracker[i] EXCEPT !.pc = "write"]
      /\ \A j \in Iterations : j # i => ts[j] = tracker[j]
  BY DEF SnapIInv, SnapTypeInvariant, Tracker
<1>3. ASSUME NEW j \in Iterations
      PROVE  /\ ds \in [Iterations -> Tracker]
             /\ ds[j].pc = ts[j].pc /\ ds[j].began = ts[j].began /\ ds[j].hash = ts[j].hash
             /\ ds[j].undisturbed => ts[j].undisturbed /\ ts[j].pc \in Rests
  BY <1>2, DisturbedTracker
<1> HIDE DEF ts, ds
<1>4. /\ tracker' \in [Iterations -> Tracker] /\ tracker'[i] = ts[i]
      /\ \A j \in Iterations : j # i => tracker'[j] = ds[j]
  BY <1>1, <1>2, <1>3
<1>5. GoodTracker(tracker[i])'
  BY <1>1, <1>2, <1>4 DEF SnapIInv, GoodTrackers, GoodTracker, Tracker
<1>6. ASSUME NEW j \in Iterations, j # i PROVE GoodTracker(tracker[j])'
  <2>1. GoodTracker(tracker[j]) /\ tracker'[j] = ds[j]
    BY <1>4, <1>6 DEF SnapIInv, GoodTrackers
  <2> QED
    BY <1>2, <1>3, <1>4, <1>6, <2>1 DEF GoodTracker
<1>7. \A j \in Iterations : /\ tracker'[j].pc = IF j = i THEN "write" ELSE tracker[j].pc
                           /\ tracker'[j].hash = tracker[j].hash
  BY <1>2, <1>3, <1>4 DEF Tracker
<1>8. /\ restorer' \in Restorer /\ restorer'.pc = restorer.pc /\ restorer'.of = restorer.of
      /\ restorer'.undisturbed => restorer.undisturbed /\ restorer.pc = "idle"
  BY <1>1 DEF RestoreDisturbed, Restorer, SnapIInv, SnapTypeInvariant
<1>9. GoodRestorer'
  BY <1>1, <1>7, <1>8 DEF SnapIInv, GoodRestorer
<1>10. TrackersOfEnded' /\ KeptIsDone'
  BY <1>1, <1>7 DEF SnapIInv, SnapTypeInvariant, TrackersOfEnded, KeptIsDone
<1> QED
  BY <1>1, <1>4, <1>5, <1>6, <1>8, <1>9, <1>10 DEF SnapIInv, SnapTypeInvariant, GoodTrackers

LEMMA TrackWrittenInv ==
    ASSUME SnapIInv, NEW i \in Iterations, TrackWritten(i)
    PROVE  SnapIInv'
<1> DEFINE t == [tracker[i] EXCEPT !.pc = "done", !.hash = index]
<1>1. /\ tracker[i].pc = "write" /\ UNCHANGED <<tree, index, iteration, restorer>>
      /\ kept' \in SUBSET (kept \cup {i}) /\ tracker' = [tracker EXCEPT ![i] = t]
  BY DEF TrackWritten
<1>2. GoodTracker(t) /\ t.pc = "done"
  BY <1>1 DEF SnapIInv, SnapTypeInvariant, GoodTrackers, GoodTracker, Tracker
<1> HIDE DEF t
<1>3. tracker' \in [Iterations -> Tracker] /\ GoodTrackers'
  BY <1>1, <1>2, TrackerUpdate
<1>4. tracker'[i] = t /\ \A j \in Iterations : j # i => tracker'[j] = tracker[j]
  BY <1>1 DEF SnapIInv, SnapTypeInvariant
<1>5. ~(i > iteration)
  BY <1>1 DEF SnapIInv, TrackersOfEnded
<1>6. TrackersOfEnded'
  BY <1>1, <1>4, <1>5 DEF SnapIInv, TrackersOfEnded
<1>7. KeptIsDone' /\ GoodRestorer'
  BY <1>1, <1>2, <1>4 DEF SnapIInv, SnapTypeInvariant, KeptIsDone, GoodRestorer
<1> QED
  BY <1>1, <1>3, <1>6, <1>7 DEF SnapIInv, SnapTypeInvariant

LEMMA RestoreInv ==
    ASSUME SnapIInv, RestoreRead \/ \E i \in Iterations : SnapRestore(i)
    PROVE  SnapIInv'
<1>1. UNCHANGED <<tree, index, iteration, tracker, kept>>
  BY DEF RestoreRead, SnapRestore
<1>2. /\ restorer' \in Restorer
      /\ restorer'.pc \in {"read", "reading", "checkout"}
      /\ restorer'.of \in Iterations /\ tracker[restorer'.of].pc = "done"
      /\ restorer'.undisturbed => restorer'.pc \in {"read", "reading"}
  <2>1. CASE RestoreRead
    BY <2>1 DEF RestoreRead, SnapIInv, SnapTypeInvariant, GoodRestorer, Restorer
  <2>2. ASSUME NEW i \in Iterations, SnapRestore(i)
        PROVE  /\ restorer' \in Restorer
               /\ restorer'.pc = "read" /\ restorer'.of = i
               /\ tracker[i].pc = "done"
    <3>1. restorer' = [pc |-> "read", of |-> i, undisturbed |-> ~Locked] /\ i \in kept
      BY <2>2 DEF SnapRestore
    <3>2. (~Locked) \in BOOLEAN /\ i \in 0 .. MaxIterations
      OBVIOUS
    <3> QED
      BY <3>1, <3>2 DEF Restorer, SnapIInv, KeptIsDone
  <2> QED
    BY <2>1, <2>2
<1>3. GoodRestorer'
  BY <1>1, <1>2 DEF GoodRestorer
<1> QED
  BY <1>1, <1>2, <1>3 DEF SnapIInv, SnapTypeInvariant, GoodTrackers, GoodTracker,
                          TrackersOfEnded, KeptIsDone

LEMMA RestoreHasReadInv ==
    ASSUME SnapIInv, RestoreHasRead
    PROVE  SnapIInv'
<1>1. /\ restorer.pc = "reading" /\ tracker' = Disturbed(tracker)
      /\ index' = tracker[restorer.of].hash /\ UNCHANGED <<tree, iteration, kept>>
      /\ restorer' = [restorer EXCEPT !.pc = "checkout"]
  BY DEF RestoreHasRead
<1>2. restorer.of \in Iterations /\ tracker[restorer.of].pc = "done"
  BY <1>1 DEF SnapIInv, GoodRestorer
<1>3. index' \in Trees
  BY <1>1, <1>2 DEF SnapIInv, SnapTypeInvariant, Tracker
<1>4. restorer' \in Restorer /\ restorer'.pc = "checkout" /\ restorer'.of = restorer.of
  BY <1>1 DEF SnapIInv, SnapTypeInvariant, Restorer
<1>5. \A i \in Iterations : tracker'[i].pc = tracker[i].pc /\ tracker'[i].hash = tracker[i].hash
  BY <1>1, AllDisturbed
<1>6. GoodRestorer'
  BY <1>1, <1>2, <1>4, <1>5 DEF GoodRestorer
<1> QED
  BY <1>1, <1>3, <1>4, <1>6, AllDisturbed DEF SnapIInv, SnapTypeInvariant

LEMMA RestoreCheckoutInv ==
    ASSUME SnapIInv, RestoreCheckout
    PROVE  SnapIInv'
<1>1. /\ restorer.pc = "checkout" /\ tracker' = Disturbed(tracker) /\ tree' = CheckedOut
      /\ restorer' = [restorer EXCEPT !.pc = "idle"] /\ UNCHANGED <<index, iteration, kept>>
  BY DEF RestoreCheckout
<1>2. restorer.of \in Iterations /\ tracker[restorer.of].pc = "done"
  BY <1>1 DEF SnapIInv, GoodRestorer
<1>3. tree \in Trees /\ index \in Trees
  BY DEF SnapIInv, SnapTypeInvariant
<1>4. tree' \in Trees
  BY <1>1, <1>3 DEF CheckedOut, Trees
<1>5. \A f \in SnapFiles : index[f] # Absent => tree'[f] = index[f]
  BY <1>1 DEF CheckedOut
<1>6. /\ restorer' \in Restorer /\ restorer'.pc = "idle" /\ restorer'.of = restorer.of
      /\ restorer'.undisturbed = restorer.undisturbed
  BY <1>1 DEF SnapIInv, SnapTypeInvariant, Restorer
<1>7. \A i \in Iterations : tracker'[i].pc = tracker[i].pc /\ tracker'[i].hash = tracker[i].hash
  BY <1>1, AllDisturbed
<1>8. GoodRestorer'
  BY <1>1, <1>2, <1>5, <1>6, <1>7 DEF SnapIInv, GoodRestorer
<1> QED
  BY <1>1, <1>3, <1>4, <1>6, <1>8, AllDisturbed DEF SnapIInv, SnapTypeInvariant

\* The invariant of the snapshots holds, whatever tools, tracks and restores do
\* (snapshot.ts, factory.ts:280).
THEOREM SnapshotsInvariant == SnapSpec => []SnapIInv
<1>1. SnapIInv /\ UNCHANGED snapVars => SnapIInv'
  BY DEF SnapIInv, SnapTypeInvariant, GoodTrackers, GoodTracker, TrackersOfEnded, KeptIsDone,
         GoodRestorer, snapVars
<1>2. SnapIInv /\ [SnapNext]_snapVars => SnapIInv'
  BY <1>1, SnapToolInv, SnapIterationInv, TrackAddInv, TrackAddedInv, TrackWrittenInv,
     RestoreInv, RestoreHasReadInv, RestoreCheckoutInv DEF SnapNext
<1> QED
  BY <1>2, SnapInitInv, PTL DEF SnapSpec

\* An undisturbed restore of an undisturbed snapshot brings back every file that was there
\* when the iteration ended (snapshot.ts:123).
THEOREM SnapshotsRestore == SnapSpec => []RestoreBringsBack
<1>1. SnapIInv => RestoreBringsBack
  BY DEF SnapIInv, GoodRestorer, GoodTrackers, GoodTracker, RestoreBringsBack
<1> QED
  BY <1>1, SnapshotsInvariant, PTL

-----------------------------------------------------------------------------
\* The connections to MCP servers.

\* Where an operation stands, what it is about and what it has in hand agree, and an entry
\* leads to a client that was made for its name.
McpNamed ==
    /\ \A n \in McpNames : connections[n] # NoClient =>
          clients[connections[n]].name = n /\ clients[connections[n]].state # "none"
    /\ \A k \in McpClients : clients[k].state = "none" => clients[k].name = McpNobody
    /\ \A o \in McpOps :
          /\ mcpOp[o].pc \in {"idle", "next"} => mcpOp[o].name = McpNobody
          /\ mcpOp[o].pc \in {"connecting", "failing", "closing"} => mcpOp[o].name \in McpNames
          /\ mcpOp[o].pc = "connecting" =>
                /\ mcpOp[o].client # NoClient
                /\ clients[mcpOp[o].client].name = mcpOp[o].name
                /\ clients[mcpOp[o].client].state # "none"

Shut(n) == connections[n] # NoClient => clients[connections[n]].state = "closed"

\* What an operation that has a name for itself leaves of it on its way.
OnTheWay(n, o) ==
    /\ mcpOp[o].pc = "connecting" /\ mcpOp[o].name = n =>
          connections[n] = NoClient /\ clients[mcpOp[o].client].state = "open"
    /\ mcpOp[o].pc = "failing" /\ mcpOp[o].name = n => connections[n] = NoClient
    /\ mcpOp[o].pc = "closing" /\ mcpOp[o].name = n => Shut(n)
    /\ mcpOp[o].pc = "disposing" /\ n \notin mcpOp[o].left => Shut(n)

OpenIsHeld(n) ==
    \A k \in McpClients :
        clients[k].state = "open" /\ clients[k].name = n =>
            \/ connections[n] = k
            \/ \E o \in McpOps : mcpOp[o].client = k /\ mcpOp[o].pc = "connecting"

AtRest(n) ==
    (\A o \in McpOps : n \notin Works(o)) =>
        /\ connections[n] # NoClient => clients[connections[n]].state = "open"
        /\ mcpAnnounced[n] = "connected" <=> connections[n] # NoClient

AloneAt(n) == \A o, p \in McpOps : n \in Works(o) /\ n \in Works(p) => o = p

Sound(n) ==
    /\ AloneAt(n)
    /\ \A o \in McpOps : OnTheWay(n, o)
    /\ OpenIsHeld(n)
    /\ AtRest(n)

McpIInv == McpTypeInvariant /\ McpNamed /\ \A n \in McpNames \ raced : Sound(n)

\* The operations, as McpTypeInvariant has them.
McpOpType == [pc : {"idle", "next", "connecting", "failing", "closing", "disposing", "off"},
              kind : McpKinds, name : McpNames \cup {McpNobody},
              client : 0 .. MaxClients, left : SUBSET McpNames]

HIDE DEF Snapshot, Missing, Corrupt, Pending, Iterations, Rests
USE McpAssumption DEF NoClient, McpClients, McpKinds

LEMMA McpInitInv == McpInit => McpIInv
BY DEF McpInit, McpIdle, Resting, McpIInv, McpTypeInvariant, McpNamed, Sound, AloneAt,
       OnTheWay, Shut, OpenIsHeld, AtRest, Works

\* An operation works on the name it has, or on all of them.
LEMMA WorksOn ==
    ASSUME McpTypeInvariant, McpNamed, NEW n \in McpNames, NEW o \in McpOps
    PROVE  n \in Works(o) <=> \/ mcpOp[o].pc = "disposing"
                              \/ mcpOp[o].pc \notin {"idle", "next"} /\ mcpOp[o].name = n
BY DEF Works, McpTypeInvariant, McpNamed

\* A step of one operation keeps what it leaves of the others' work.
LEMMA McpStep ==
    ASSUME McpIInv, McpTypeInvariant', McpNamed', NEW o \in McpOps,
           \A p \in McpOps \ {o} : mcpOp'[p] = mcpOp[p],
           raced \subseteq raced',
           \A n \in McpNames \ raced' :
               /\ n \in Works(o)' => n \in Works(o) \/ \A p \in McpOps \ {o} : n \notin Works(p)
               /\ OnTheWay(n, o)'
               /\ n \notin Works(o) /\ n \notin Works(o)' =>
                     /\ connections'[n] = connections[n]
                     /\ \/ mcpAnnounced'[n] = mcpAnnounced[n]
                        \/ mcpAnnounced'[n] # "connected" /\ connections[n] = NoClient
                     /\ \A k \in McpClients : clients[k].name = n \/ clients'[k].name = n =>
                           clients'[k] = clients[k]
               /\ n \in Works(o) \/ n \in Works(o)' => OpenIsHeld(n)'
               /\ n \in Works(o) /\ n \notin Works(o)' =>
                     /\ connections'[n] # NoClient => clients'[connections'[n]].state = "open"
                     /\ mcpAnnounced'[n] = "connected" <=> connections'[n] # NoClient
    PROVE  McpIInv'
<1> SUFFICES ASSUME NEW n \in McpNames \ raced' PROVE Sound(n)'
  BY DEF McpIInv
<1>1. Sound(n) /\ n \notin raced
  BY DEF McpIInv
<1>2. \A p \in McpOps \ {o} : Works(p)' = Works(p)
  BY DEF Works
<1>3. AloneAt(n)'
  BY <1>1, <1>2 DEF Sound, AloneAt
<1>4. \A q \in McpOps : n \in Works(q) <=>
          \/ mcpOp[q].pc = "disposing"
          \/ mcpOp[q].pc \notin {"idle", "next"} /\ mcpOp[q].name = n
  BY WorksOn DEF McpIInv
<1>5. CASE n \in Works(o) \/ n \in Works(o)'
  <2>1. ASSUME NEW p \in McpOps \ {o} PROVE n \notin Works(p)
    BY <1>1, <1>2, <1>3, <1>5, <2>1 DEF Sound, AloneAt
  <2>2. ASSUME NEW p \in McpOps PROVE OnTheWay(n, p)'
    <3>1. CASE p = o
      BY <3>1
    <3>2. CASE p # o
      BY <1>4, <2>1, <3>2 DEF OnTheWay
    <3> QED
      BY <3>1, <3>2
  <2>3. AtRest(n)'
    BY <1>2, <1>5, <2>1 DEF AtRest
  <2> QED
    BY <1>3, <1>5, <2>2, <2>3 DEF Sound
<1>6. CASE n \notin Works(o) /\ n \notin Works(o)'
  <2>1. /\ connections'[n] = connections[n]
        /\ \/ mcpAnnounced'[n] = mcpAnnounced[n]
           \/ mcpAnnounced'[n] # "connected" /\ connections[n] = NoClient
        /\ \A k \in McpClients : clients[k].name = n \/ clients'[k].name = n =>
              clients'[k] = clients[k]
    BY <1>6
  <2>2. connections[n] # NoClient =>
           connections[n] \in McpClients /\ clients[connections[n]].name = n
    BY DEF McpIInv, McpTypeInvariant, McpNamed
  <2>3. ASSUME NEW p \in McpOps PROVE OnTheWay(n, p)'
    <3>1. CASE p = o
      BY <3>1
    <3>2. CASE p # o
      <4>1. mcpOp'[p] = mcpOp[p] /\ OnTheWay(n, p)
        BY <1>1, <3>2 DEF Sound
      <4>2. mcpOp[p].pc = "connecting" /\ mcpOp[p].name = n =>
               mcpOp[p].client \in McpClients /\ clients[mcpOp[p].client].name = n
        BY DEF McpIInv, McpTypeInvariant, McpNamed
      <4> QED
        BY <2>1, <2>2, <4>1, <4>2 DEF OnTheWay, Shut
    <3> QED
      BY <3>1, <3>2
  <2>4. OpenIsHeld(n)'
    <3> SUFFICES ASSUME NEW k \in McpClients, clients'[k].state = "open", clients'[k].name = n
                 PROVE  \/ connections'[n] = k
                        \/ \E q \in McpOps : mcpOp'[q].client = k /\ mcpOp'[q].pc = "connecting"
      BY DEF OpenIsHeld
    <3>1. CASE connections[n] = k
      BY <2>1, <3>1
    <3>2. CASE connections[n] # k
      <4>1. PICK q \in McpOps : mcpOp[q].client = k /\ mcpOp[q].pc = "connecting"
        BY <1>1, <2>1, <3>2 DEF Sound, OpenIsHeld
      <4>2. mcpOp[q].name = n
        BY <2>1, <4>1 DEF McpIInv, McpNamed
      <4>3. q # o
        BY <1>4, <1>6, <4>1, <4>2
      <4> QED
        BY <4>1, <4>3
    <3> QED
      BY <3>1, <3>2
  <2>5. AtRest(n)'
    BY <1>1, <1>2, <1>6, <2>1, <2>2 DEF Sound, AtRest
  <2> QED
    BY <1>3, <2>3, <2>4, <2>5 DEF Sound
<1> QED
  BY <1>5, <1>6

\* What an operation that waits for its client, or for one to be closed, works on.
LEMMA McpAtWork ==
    ASSUME McpIInv, NEW o \in McpOps, mcpOp[o].pc \in {"connecting", "failing", "closing"}
    PROVE  mcpOp[o].name \in McpNames /\ Works(o) = {mcpOp[o].name}
BY DEF McpIInv, McpNamed, Works

LEMMA OpUpdate ==
    ASSUME NEW x \in McpOpType, NEW n \in McpNames, NEW k \in McpClients
    PROVE  [x EXCEPT !.pc = "connecting", !.name = n, !.client = k] \in McpOpType
<1>1. [x EXCEPT !.pc = "connecting"] \in McpOpType
  BY DEF McpOpType
<1>2. ASSUME NEW y \in McpOpType PROVE [y EXCEPT !.name = n] \in McpOpType
  BY DEF McpOpType
<1>3. ASSUME NEW y \in McpOpType PROVE [y EXCEPT !.client = k] \in McpOpType
  BY DEF McpOpType
<1>4. [[[x EXCEPT !.pc = "connecting"] EXCEPT !.name = n] EXCEPT !.client = k] \in McpOpType
  BY <1>1, <1>2, <1>3
<1> QED
  BY <1>4

LEMMA McpOpensInv ==
    ASSUME McpIInv, NEW o \in McpOps, NEW n \in McpNames, NEW l \in SUBSET McpNames,
           mcpOp[o].pc \in {"idle", "next"}, connections[n] = NoClient,
           Opens(o, n, [mcpOp[o] EXCEPT !.left = l])
    PROVE  McpIInv'
<1> DEFINE op == [mcpOp[o] EXCEPT !.left = l]
<1>1. op \in McpOpType /\ op.pc \in {"idle", "next"} /\ op.name = McpNobody
  <2>1. mcpOp[o] \in McpOpType /\ mcpOp[o].name = McpNobody
    BY DEF McpIInv, McpTypeInvariant, McpNamed, McpOpType
  <2>2. op.pc = mcpOp[o].pc /\ op.name = mcpOp[o].name
    BY <2>1 DEF McpOpType
  <2>3. op \in McpOpType
    BY <2>1 DEF McpOpType
  <2> QED
    BY <2>1, <2>2, <2>3
<1>2. Works(o) = {}
  BY DEF McpIInv, McpNamed, Works
<1>3. \A m \in McpNames \ raced' : m = n => \A p \in McpOps \ {o} : m \notin Works(p)
  BY DEF Opens, Races
<1>4. raced \subseteq raced' /\ raced' \in SUBSET McpNames
  BY DEF Opens, Races, McpIInv, McpTypeInvariant
<1> HIDE DEF op
<1>5. CASE \E k \in McpClients :
              /\ clients[k].state = "none"
              /\ clients' = [clients EXCEPT ![k] = [state |-> "open", name |-> n]]
              /\ mcpOp' = [mcpOp EXCEPT ![o] = [op EXCEPT !.pc = "connecting", !.name = n,
                                                          !.client = k]]
              /\ UNCHANGED <<connections, mcpAnnounced>>
  <2>1. PICK k \in McpClients :
              /\ clients[k].state = "none"
              /\ clients' = [clients EXCEPT ![k] = [state |-> "open", name |-> n]]
              /\ mcpOp' = [mcpOp EXCEPT ![o] = [op EXCEPT !.pc = "connecting", !.name = n,
                                                          !.client = k]]
              /\ UNCHANGED <<connections, mcpAnnounced>>
    BY <1>5
  <2>2. /\ mcpOp'[o].pc = "connecting" /\ mcpOp'[o].name = n /\ mcpOp'[o].client = k
        /\ \A p \in McpOps \ {o} : mcpOp'[p] = mcpOp[p]
        /\ clients'[k] = [state |-> "open", name |-> n]
        /\ \A j \in McpClients \ {k} : clients'[j] = clients[j]
    BY <1>1, <2>1 DEF McpIInv, McpTypeInvariant
  <2>3. McpTypeInvariant'
    <3>1. [op EXCEPT !.pc = "connecting", !.name = n, !.client = k] \in McpOpType
      BY <1>1, OpUpdate
    <3> QED
      BY <1>4, <2>1, <3>1 DEF McpIInv, McpTypeInvariant, McpOpType, Says
  <2>4. McpNamed'
    BY <2>1, <2>2 DEF McpIInv, McpTypeInvariant, McpNamed
  <2>5. Works(o)' = {n}
    BY <2>2 DEF Works
  <2>6. ASSUME NEW m \in McpNames \ raced', m # n
        PROVE  \A j \in McpClients : clients[j].name = m \/ clients'[j].name = m =>
                   clients'[j] = clients[j]
    BY <2>1, <2>2, <2>6 DEF McpIInv, McpNamed
  <2> QED
    <3> SUFFICES ASSUME NEW m \in McpNames \ raced'
                 PROVE  /\ OnTheWay(m, o)'
                        /\ m = n => OpenIsHeld(m)'
      BY <1>2, <1>3, <1>4, <2>1, <2>2, <2>3, <2>4, <2>5, <2>6, McpStep
    <3>1. OnTheWay(m, o)'
      BY <2>1, <2>2 DEF OnTheWay
    <3>2. ASSUME m = n PROVE OpenIsHeld(m)'
      <4>1. OpenIsHeld(n)
        BY <1>4, <3>2 DEF McpIInv, Sound
      <4>2. ASSUME NEW j \in McpClients, j # k, clients'[j].state = "open",
                   clients'[j].name = n
            PROVE  \E q \in McpOps : mcpOp'[q].client = j /\ mcpOp'[q].pc = "connecting"
        <5>1. PICK q \in McpOps : mcpOp[q].client = j /\ mcpOp[q].pc = "connecting"
          BY <2>2, <4>1, <4>2 DEF OpenIsHeld
        <5> QED
          BY <2>2, <5>1
      <4> QED
        <5>1. mcpOp'[o].client = k /\ mcpOp'[o].pc = "connecting"
          BY <2>2
        <5> SUFFICES ASSUME NEW j \in McpClients, clients'[j].state = "open",
                            clients'[j].name = n
                     PROVE  \E q \in McpOps : mcpOp'[q].client = j
                                               /\ mcpOp'[q].pc = "connecting"
          BY <3>2 DEF OpenIsHeld
        <5> QED
          BY <4>2, <5>1
    <3> QED
      BY <3>1, <3>2
<1>6. CASE /\ connections' = [connections EXCEPT ![n] = NoClient]
           /\ Says(n, "error")
           /\ mcpOp' = [mcpOp EXCEPT ![o] = op]
           /\ UNCHANGED clients
  <2>1. connections' = connections
    BY <1>6 DEF McpIInv, McpTypeInvariant
  <2>2. /\ mcpOp'[o] = op
        /\ \A p \in McpOps \ {o} : mcpOp'[p] = mcpOp[p]
        /\ mcpAnnounced'[n] = "error"
        /\ \A m \in McpNames \ {n} : mcpAnnounced'[m] = mcpAnnounced[m]
    BY <1>6 DEF McpIInv, McpTypeInvariant, Says
  <2>3. McpTypeInvariant'
    BY <1>1, <1>4, <1>6, <2>1 DEF McpIInv, McpTypeInvariant, McpOpType, Says
  <2>4. McpNamed'
    BY <1>1, <1>6, <2>1, <2>2 DEF McpIInv, McpNamed
  <2>5. Works(o)' = {}
    BY <1>1, <2>2 DEF Works
  <2>6. \A m \in McpNames : OnTheWay(m, o)'
    BY <1>1, <2>2 DEF OnTheWay
  <2> QED
    BY <1>2, <1>4, <1>6, <2>1, <2>2, <2>3, <2>4, <2>5, <2>6, McpStep
<1> QED
  <2>1. \A k \in McpClients : (\A j \in McpClients : clients[j].state = "none" <=> j >= k)
                                  => clients[k].state = "none"
    OBVIOUS
  <2> QED
    BY <1>5, <1>6, <2>1 DEF Opens, op

\* What ends an operation's work, or its work on one name.
LEMMA McpOnward ==
    ASSUME McpIInv, NEW o \in McpOps, mcpOp' = Onward(o) \/ mcpOp' = Over(o)
    PROVE  /\ mcpOp' \in [McpOps -> McpOpType]
           /\ mcpOp'[o].pc \in {"idle", "next"} /\ mcpOp'[o].name = McpNobody
           /\ \A p \in McpOps \ {o} : mcpOp'[p] = mcpOp[p]
<1>1. mcpOp \in [McpOps -> McpOpType]
  BY DEF McpIInv, McpTypeInvariant, McpOpType
<1>2. Resting("idle") \in McpOpType
  BY DEF Resting, McpOpType
<1>3. CASE mcpOp' = Over(o)
  BY <1>1, <1>2, <1>3 DEF Over, Resting
<1>4. CASE mcpOp' = Onward(o) /\ mcpOp' # Over(o)
  <2> DEFINE op == [mcpOp[o] EXCEPT !.pc = "next", !.name = McpNobody, !.client = NoClient]
  <2>1. mcpOp' = [mcpOp EXCEPT ![o] = op]
    BY <1>4 DEF Onward
  <2>2. \A x \in McpOpType :
           /\ [x EXCEPT !.pc = "next"] \in McpOpType
           /\ [x EXCEPT !.name = McpNobody] \in McpOpType
           /\ [x EXCEPT !.client = NoClient] \in McpOpType
    BY DEF McpOpType
  <2>3. op = [[[mcpOp[o] EXCEPT !.pc = "next"] EXCEPT !.name = McpNobody]
                         EXCEPT !.client = NoClient]
    OBVIOUS
  <2>4. op \in McpOpType
    BY <1>1, <2>2, <2>3
  <2>5. op.pc = "next" /\ op.name = McpNobody
    BY <1>1 DEF McpOpType
  <2> HIDE DEF op
  <2> QED
    BY <1>1, <2>1, <2>4, <2>5
<1> QED
  BY <1>3, <1>4

\* An operation at work moves on within its work.
LEMMA McpMoves ==
    ASSUME McpIInv, NEW o \in McpOps, NEW p \in {"failing", "disposing"},
           mcpOp' = Moves(o, p)
    PROVE  /\ mcpOp' \in [McpOps -> McpOpType]
           /\ mcpOp'[o].pc = p /\ mcpOp'[o].name = mcpOp[o].name
           /\ \A q \in McpOps \ {o} : mcpOp'[q] = mcpOp[q]
<1>1. mcpOp \in [McpOps -> McpOpType]
  BY DEF McpIInv, McpTypeInvariant, McpOpType
<1>2. [mcpOp[o] EXCEPT !.pc = p] \in McpOpType
  BY <1>1 DEF McpOpType
<1>3. mcpOp' = [mcpOp EXCEPT ![o] = [mcpOp[o] EXCEPT !.pc = p]]
  BY <1>1 DEF Moves, McpOpType
<1> QED
  BY <1>1, <1>2, <1>3 DEF McpOpType

LEMMA McpConnectedInv ==
    ASSUME McpIInv, NEW o \in McpOps, McpConnected(o)
    PROVE  McpIInv'
<1> DEFINE n == mcpOp[o].name
           k == mcpOp[o].client
<1>1. /\ n \in McpNames /\ Works(o) = {n}
      /\ k \in McpClients /\ clients[k].name = n /\ clients[k].state # "none"
  BY McpAtWork DEF McpConnected, McpIInv, McpTypeInvariant, McpNamed
<1>2. /\ mcpOp[o].pc = "connecting" /\ mcpOp' = Onward(o) /\ UNCHANGED <<clients, raced>>
      /\ connections' = [connections EXCEPT ![n] = k]
      /\ mcpAnnounced' = [mcpAnnounced EXCEPT ![n] = "connected"]
  BY DEF McpConnected, Says
<1> HIDE DEF n, k
<1>3. /\ mcpOp' \in [McpOps -> McpOpType]
      /\ mcpOp'[o].pc \in {"idle", "next"} /\ mcpOp'[o].name = McpNobody
      /\ \A p \in McpOps \ {o} : mcpOp'[p] = mcpOp[p]
  BY <1>2, McpOnward
<1>4. McpTypeInvariant'
  BY <1>1, <1>2, <1>3 DEF McpIInv, McpTypeInvariant, McpOpType
<1>5. McpNamed'
  <2>1. /\ connections'[n] = k
        /\ \A m \in McpNames \ {n} : connections'[m] = connections[m]
    BY <1>1, <1>2 DEF McpIInv, McpTypeInvariant
  <2> QED
    BY <1>1, <1>2, <1>3, <2>1 DEF McpIInv, McpNamed
<1>6. Works(o)' = {}
  BY <1>3 DEF Works
<1>7. ASSUME NEW m \in McpNames \ raced'
      PROVE  /\ OnTheWay(m, o)'
             /\ m = n => OpenIsHeld(m)' /\ clients'[connections'[m]].state = "open"
  <2>1. OnTheWay(m, o)'
    BY <1>3 DEF OnTheWay
  <2>2. ASSUME m = n PROVE OpenIsHeld(m)' /\ clients'[connections'[m]].state = "open"
    <3>1. Sound(n)
      BY <1>1, <1>2, <1>7, <2>2 DEF McpIInv
    <3>2. clients[k].state = "open" /\ connections[n] = NoClient
      BY <1>2, <3>1 DEF Sound, OnTheWay, n, k
    <3>3. connections'[n] = k
      BY <1>1, <1>2 DEF McpIInv, McpTypeInvariant
    <3>4. ASSUME NEW j \in McpClients, j # k, clients[j].state = "open", clients[j].name = n
          PROVE  FALSE
      <4>1. PICK q \in McpOps : mcpOp[q].client = j /\ mcpOp[q].pc = "connecting"
        BY <3>1, <3>2, <3>4 DEF Sound, OpenIsHeld
      <4>2. mcpOp[q].name = n
        BY <3>4, <4>1 DEF McpIInv, McpNamed
      <4>3. n \in Works(q)
        BY <4>1, <4>2, McpAtWork
      <4> QED
        BY <1>1, <3>1, <3>4, <4>1, <4>3 DEF Sound, AloneAt, k
    <3> QED
      BY <1>2, <2>2, <3>2, <3>3, <3>4 DEF OpenIsHeld
  <2> QED
    BY <2>1, <2>2
<1>8. /\ connections'[n] = k /\ mcpAnnounced'[n] = "connected" /\ k # NoClient
      /\ \A m \in McpNames \ {n} :
            connections'[m] = connections[m] /\ mcpAnnounced'[m] = mcpAnnounced[m]
  BY <1>1, <1>2 DEF McpIInv, McpTypeInvariant
<1> QED
  BY <1>1, <1>2, <1>3, <1>4, <1>5, <1>6, <1>7, <1>8, McpStep

\* Nobody connects a name that an operation works on alone, unless it does so itself.
LEMMA OnlyEntryIsOpen ==
    ASSUME McpIInv, NEW o \in McpOps, NEW n \in McpNames \ raced, n \in Works(o),
           NEW k \in McpClients, clients[k].state = "open", clients[k].name = n
    PROVE  connections[n] = k \/ (mcpOp[o].client = k /\ mcpOp[o].pc = "connecting")
<1>1. SUFFICES ASSUME connections[n] # k PROVE mcpOp[o].client = k /\ mcpOp[o].pc = "connecting"
  OBVIOUS
<1>2. PICK q \in McpOps : mcpOp[q].client = k /\ mcpOp[q].pc = "connecting"
  BY <1>1 DEF McpIInv, Sound, OpenIsHeld
<1>3. n \in Works(q)
  BY <1>2, McpAtWork DEF McpIInv, McpNamed
<1> QED
  BY <1>2, <1>3 DEF McpIInv, Sound, AloneAt

LEMMA McpConnectFailsInv ==
    ASSUME McpIInv, NEW o \in McpOps, McpConnectFails(o)
    PROVE  McpIInv'
<1> DEFINE n == mcpOp[o].name
           k == mcpOp[o].client
<1>1. /\ n \in McpNames /\ Works(o) = {n}
      /\ k \in McpClients /\ clients[k].name = n /\ clients[k].state # "none"
  BY McpAtWork DEF McpConnectFails, McpIInv, McpTypeInvariant, McpNamed
<1>2. /\ mcpOp[o].pc = "connecting" /\ mcpOp' = Moves(o, "failing")
      /\ UNCHANGED <<connections, mcpAnnounced, raced>>
      /\ clients' = [clients EXCEPT ![k].state = "closed"]
  BY DEF McpConnectFails, Closes
<1>3. /\ mcpOp' \in [McpOps -> McpOpType]
      /\ mcpOp'[o].pc = "failing" /\ mcpOp'[o].name = n
      /\ \A p \in McpOps \ {o} : mcpOp'[p] = mcpOp[p]
  BY <1>2, McpMoves
<1> HIDE DEF n, k
<1>4. /\ clients'[k].state = "closed" /\ clients'[k].name = n
      /\ \A j \in McpClients \ {k} : clients'[j] = clients[j]
      /\ clients' \in [McpClients -> [state : {"none", "open", "closed"},
                                      name : McpNames \cup {McpNobody}]]
  BY <1>1, <1>2 DEF McpIInv, McpTypeInvariant
<1>5. McpTypeInvariant'
  BY <1>2, <1>3, <1>4 DEF McpIInv, McpTypeInvariant, McpOpType
<1>6. McpNamed'
  <2>1. \A j \in McpClients :
           /\ clients'[j].name = clients[j].name
           /\ clients'[j].state = "none" <=> clients[j].state = "none"
    BY <1>1, <1>4
  <2>2. /\ \A m \in McpNames : connections[m] # NoClient => connections[m] \in McpClients
        /\ \A p \in McpOps : mcpOp[p].client # NoClient => mcpOp[p].client \in McpClients
    BY DEF McpIInv, McpTypeInvariant
  <2> QED
    BY <1>1, <1>2, <1>3, <2>1, <2>2 DEF McpIInv, McpNamed
<1>7. Works(o)' = {n}
  BY <1>1, <1>3 DEF Works
<1>8. ASSUME NEW m \in McpNames \ raced'
      PROVE  /\ OnTheWay(m, o)'
             /\ m = n => OpenIsHeld(m)'
             /\ m # n => \A j \in McpClients : clients[j].name = m \/ clients'[j].name = m =>
                             clients'[j] = clients[j]
  <2>1. CASE m # n
    BY <1>1, <1>3, <1>4, <2>1 DEF OnTheWay
  <2>2. CASE m = n
    <3>1. connections[n] = NoClient
      BY <1>1, <1>2, <1>8, <2>2 DEF McpIInv, Sound, OnTheWay, n
    <3>2. \A j \in McpClients \ {k} : ~(clients[j].state = "open" /\ clients[j].name = n)
      BY <1>1, <1>2, <1>8, <2>2, <3>1, OnlyEntryIsOpen DEF k
    <3>3. OpenIsHeld(m)'
      BY <1>4, <2>2, <3>2 DEF OpenIsHeld
    <3> QED
      BY <1>2, <1>3, <2>2, <3>1, <3>3 DEF OnTheWay
  <2> QED
    BY <2>1, <2>2
<1> QED
  BY <1>1, <1>2, <1>3, <1>5, <1>6, <1>7, <1>8, McpStep

\* An operation that takes the entry of its name away when the name's client is closed.
LEMMA McpDropsInv ==
    ASSUME McpIInv, NEW o \in McpOps, McpGivesUp(o) \/ McpDisconnected(o)
    PROVE  McpIInv'
<1> DEFINE n == mcpOp[o].name
<1>1. n \in McpNames /\ Works(o) = {n}
  BY McpAtWork DEF McpGivesUp, McpDisconnected
<1>2. /\ mcpOp[o].pc \in {"failing", "closing"} /\ UNCHANGED <<clients, raced>>
      /\ mcpOp' = Onward(o) \/ mcpOp' = Over(o)
      /\ connections' = [connections EXCEPT ![n] = NoClient]
      /\ \E what \in {"error", "disconnected"} : mcpAnnounced' = [mcpAnnounced EXCEPT ![n] = what]
  BY DEF McpGivesUp, McpDisconnected, Says
<1>3. /\ mcpOp' \in [McpOps -> McpOpType]
      /\ mcpOp'[o].pc \in {"idle", "next"} /\ mcpOp'[o].name = McpNobody
      /\ \A p \in McpOps \ {o} : mcpOp'[p] = mcpOp[p]
  BY <1>2, McpOnward
<1> HIDE DEF n
<1>4. McpTypeInvariant'
  BY <1>1, <1>2, <1>3 DEF McpIInv, McpTypeInvariant, McpOpType
<1>5. Works(o)' = {}
  BY <1>3 DEF Works
<1>6. /\ connections'[n] = NoClient /\ mcpAnnounced'[n] # "connected"
      /\ \A m \in McpNames \ {n} :
            connections'[m] = connections[m] /\ mcpAnnounced'[m] = mcpAnnounced[m]
  BY <1>1, <1>2 DEF McpIInv, McpTypeInvariant
<1>7. McpNamed'
  BY <1>2, <1>3, <1>6 DEF McpIInv, McpNamed
<1>8. ASSUME NEW m \in McpNames \ raced'
      PROVE  OnTheWay(m, o)' /\ (m = n => OpenIsHeld(m)')
  <2>1. OnTheWay(m, o)'
    BY <1>3 DEF OnTheWay
  <2>2. ASSUME m = n PROVE OpenIsHeld(m)'
    <3>1. Shut(n)
      BY <1>1, <1>2, <1>8, <2>2 DEF McpIInv, Sound, OnTheWay, Shut, n
    <3>2. \A j \in McpClients : ~(clients[j].state = "open" /\ clients[j].name = n)
      BY <1>1, <1>2, <1>8, <2>2, <3>1, OnlyEntryIsOpen DEF Shut
    <3> QED
      BY <1>2, <2>2, <3>2 DEF OpenIsHeld
  <2> QED
    BY <2>1, <2>2
<1> QED
  BY <1>1, <1>2, <1>3, <1>4, <1>7, <1>5, <1>6, <1>8, McpStep

\* An operation that is at no name, before and after.
LEMMA McpBetween ==
    ASSUME McpIInv, NEW o \in McpOps, mcpOp' \in [McpOps -> McpOpType],
           mcpOp[o].pc \in {"idle", "next"}, mcpOp'[o].pc \in {"idle", "next"},
           mcpOp'[o].name = McpNobody,
           \A p \in McpOps \ {o} : mcpOp'[p] = mcpOp[p],
           UNCHANGED <<connections, clients, mcpAnnounced, raced>>
    PROVE  McpIInv'
<1>1. McpTypeInvariant'
  BY DEF McpIInv, McpTypeInvariant, McpOpType
<1>2. McpNamed'
  BY DEF McpIInv, McpNamed
<1>3. Works(o) = {} /\ Works(o)' = {}
  BY DEF McpIInv, McpNamed, Works
<1>4. \A n \in McpNames : OnTheWay(n, o)'
  BY DEF OnTheWay
<1> QED
  BY <1>1, <1>2, <1>3, <1>4, McpStep

LEMMA McpConnectAllInv ==
    ASSUME McpIInv, NEW o \in McpOps, McpConnectAll(o)
    PROVE  McpIInv'
<1>1. mcpOp \in [McpOps -> McpOpType] /\ mcpOp[o].pc = "idle" /\ mcpOp[o].name = McpNobody
  BY DEF McpConnectAll, McpIInv, McpTypeInvariant, McpOpType, McpNamed
<1> DEFINE op == [mcpOp[o] EXCEPT !.pc = "next", !.kind = "connectAll", !.left = McpNames]
<1>2. mcpOp' = [mcpOp EXCEPT ![o] = op] /\ UNCHANGED <<connections, clients, mcpAnnounced, raced>>
  BY DEF McpConnectAll
<1>3. \A x \in McpOpType :
         /\ [x EXCEPT !.pc = "next"] \in McpOpType
         /\ [x EXCEPT !.kind = "connectAll"] \in McpOpType
         /\ [x EXCEPT !.left = McpNames] \in McpOpType
  BY DEF McpOpType
<1>4. op = [[[mcpOp[o] EXCEPT !.pc = "next"] EXCEPT !.kind = "connectAll"]
                       EXCEPT !.left = McpNames]
  OBVIOUS
<1>5. op \in McpOpType
  BY <1>1, <1>3, <1>4
<1>6. op.pc = "next" /\ op.name = McpNobody
  BY <1>1 DEF McpOpType
<1> HIDE DEF op
<1> QED
  BY <1>1, <1>2, <1>5, <1>6, McpBetween

LEMMA McpConnectNextInv ==
    ASSUME McpIInv, NEW o \in McpOps, McpConnectNext(o)
    PROVE  McpIInv'
<1>1. mcpOp \in [McpOps -> McpOpType] /\ mcpOp[o].pc = "next" /\ mcpOp[o].name = McpNobody
  BY DEF McpConnectNext, McpIInv, McpTypeInvariant, McpOpType, McpNamed
<1>2. CASE mcpOp' = Over(o) /\ UNCHANGED <<connections, clients, mcpAnnounced, raced>>
  BY <1>1, <1>2, McpOnward, McpBetween
<1>3. CASE \E n \in mcpOp[o].left :
              /\ mcpOp' = [mcpOp EXCEPT ![o].left = @ \ {n}]
              /\ UNCHANGED <<connections, clients, mcpAnnounced, raced>>
  <2>1. PICK n \in mcpOp[o].left : mcpOp' = [mcpOp EXCEPT ![o].left = @ \ {n}]
    BY <1>3
  <2>2. /\ mcpOp'[o].pc = "next" /\ mcpOp'[o].name = McpNobody
        /\ \A p \in McpOps \ {o} : mcpOp'[p] = mcpOp[p]
    BY <1>1, <2>1 DEF McpOpType
  <2>3. mcpOp' \in [McpOps -> McpOpType]
    BY <1>1, <2>1 DEF McpOpType
  <2> QED
    BY <1>1, <1>3, <2>2, <2>3, McpBetween
<1>4. CASE \E n \in mcpOp[o].left :
              /\ connections[n] = NoClient
              /\ Opens(o, n, [mcpOp[o] EXCEPT !.left = @ \ {n}])
  <2>1. PICK n \in mcpOp[o].left : /\ connections[n] = NoClient
                                   /\ Opens(o, n, [mcpOp[o] EXCEPT !.left = @ \ {n}])
    BY <1>4
  <2>2. n \in McpNames /\ mcpOp[o].left \ {n} \in SUBSET McpNames
    BY <1>1 DEF McpOpType
  <2> QED
    BY <1>1, <2>1, <2>2, McpOpensInv
<1> QED
  BY <1>2, <1>3, <1>4 DEF McpConnectNext

LEMMA McpConnectInv ==
    ASSUME McpIInv, NEW o \in McpOps, NEW n \in McpNames, McpConnect(o, n)
    PROVE  McpIInv'
<1>1. mcpOp \in [McpOps -> McpOpType]
  BY DEF McpIInv, McpTypeInvariant, McpOpType
<1>2. mcpOp[o] = [mcpOp[o] EXCEPT !.left = mcpOp[o].left] /\ mcpOp[o].left \in SUBSET McpNames
  BY <1>1 DEF McpOpType
<1> QED
  BY <1>2, McpOpensInv DEF McpConnect

\* Clients are closed and nothing else happens to them.
LEMMA McpClosed ==
    ASSUME McpIInv, NEW k \in McpClients, Closes(k), clients[k].state # "none"
    PROVE  /\ clients' \in [McpClients -> [state : {"none", "open", "closed"},
                                           name : McpNames \cup {McpNobody}]]
           /\ clients'[k].state = "closed"
           /\ \A j \in McpClients : /\ clients'[j].name = clients[j].name
                                    /\ clients'[j].state = "none" <=> clients[j].state = "none"
           /\ \A j \in McpClients \ {k} : clients'[j] = clients[j]
<1>1. clients' = [clients EXCEPT ![k].state = "closed"]
  BY DEF Closes
<1>2. clients[k] \in [state : {"none", "open", "closed"}, name : McpNames \cup {McpNobody}]
  BY DEF McpIInv, McpTypeInvariant
<1>3. /\ clients'[k].state = "closed" /\ clients'[k].name = clients[k].name
      /\ \A j \in McpClients \ {k} : clients'[j] = clients[j]
  BY <1>1, <1>2 DEF McpIInv, McpTypeInvariant
<1>4. clients' \in [McpClients -> [state : {"none", "open", "closed"},
                                  name : McpNames \cup {McpNobody}]]
  BY <1>1, <1>2 DEF McpIInv, McpTypeInvariant
<1> QED
  BY <1>3, <1>4

LEMMA McpDisconnectInv ==
    ASSUME McpIInv, NEW o \in McpOps, NEW n \in McpNames, McpDisconnect(o, n)
    PROVE  McpIInv'
<1> DEFINE k == connections[n]
<1>1. mcpOp \in [McpOps -> McpOpType] /\ mcpOp[o].pc = "idle" /\ Works(o) = {}
  BY DEF McpDisconnect, McpIInv, McpTypeInvariant, McpOpType, Works
<1>2. k \in McpClients /\ clients[k].name = n /\ clients[k].state # "none"
  BY DEF McpDisconnect, McpIInv, McpTypeInvariant, McpNamed
<1>3. /\ Closes(k) /\ Races(o, {n}) /\ UNCHANGED <<connections, mcpAnnounced>>
      /\ mcpOp' = [mcpOp EXCEPT ![o] = [mcpOp[o] EXCEPT !.pc = "closing",
                                                        !.kind = "disconnect", !.name = n]]
  BY <1>1 DEF McpDisconnect
<1>4. [[[mcpOp[o] EXCEPT !.pc = "closing"] EXCEPT !.kind = "disconnect"] EXCEPT !.name = n]
          \in McpOpType
  <2>1. \A x \in McpOpType :
           /\ [x EXCEPT !.pc = "closing"] \in McpOpType
           /\ [x EXCEPT !.kind = "disconnect"] \in McpOpType
           /\ [x EXCEPT !.name = n] \in McpOpType
    BY DEF McpOpType
  <2> QED
    BY <1>1, <2>1
<1>5. /\ mcpOp'[o].pc = "closing" /\ mcpOp'[o].name = n
      /\ \A p \in McpOps \ {o} : mcpOp'[p] = mcpOp[p]
  BY <1>1, <1>3 DEF McpOpType
<1>6. mcpOp' \in [McpOps -> McpOpType]
  BY <1>1, <1>3, <1>4
<1>7. /\ raced \subseteq raced' /\ raced' \in SUBSET McpNames
      /\ \A m \in McpNames \ raced' : m = n => \A p \in McpOps \ {o} : m \notin Works(p)
  BY <1>3 DEF Races, McpIInv, McpTypeInvariant
<1>8. McpTypeInvariant'
  BY <1>2, <1>3, <1>6, <1>7, McpClosed DEF McpIInv, McpTypeInvariant, McpOpType
<1> HIDE DEF k
<1>9. McpNamed'
  <2>1. /\ \A m \in McpNames : connections[m] # NoClient => connections[m] \in McpClients
        /\ \A p \in McpOps : mcpOp[p].client # NoClient => mcpOp[p].client \in McpClients
    BY DEF McpIInv, McpTypeInvariant
  <2>2. \A j \in McpClients : /\ clients'[j].name = clients[j].name
                              /\ clients'[j].state = "none" <=> clients[j].state = "none"
    BY <1>2, <1>3, McpClosed
  <2>3. \A p \in McpOps \ {o} : mcpOp'[p] = mcpOp[p]
    BY <1>5
  <2> QED
    BY <1>3, <1>5, <2>1, <2>2, <2>3 DEF McpIInv, McpNamed
<1>10. Works(o)' = {n}
  BY <1>5 DEF Works
<1>11. ASSUME NEW m \in McpNames \ raced'
       PROVE  /\ OnTheWay(m, o)'
              /\ m = n => OpenIsHeld(m)'
              /\ m # n => \A j \in McpClients : clients[j].name = m \/ clients'[j].name = m =>
                              clients'[j] = clients[j]
  <2>1. CASE m # n
    BY <1>2, <1>3, <1>5, <2>1, McpClosed DEF OnTheWay
  <2>2. CASE m = n
    <3>1. Shut(n)'
      BY <1>2, <1>3, McpClosed DEF Shut, k
    <3>2. OpenIsHeld(n)
      BY <1>7, <1>11, <2>2 DEF McpIInv, Sound
    <3>3. OpenIsHeld(m)'
      <4> SUFFICES ASSUME NEW j \in McpClients, clients'[j].state = "open", clients'[j].name = n
                   PROVE  \/ connections'[n] = j
                          \/ \E q \in McpOps : mcpOp'[q].client = j
                                               /\ mcpOp'[q].pc = "connecting"
        BY <2>2 DEF OpenIsHeld
      <4>1. j # k /\ clients[j].state = "open" /\ clients[j].name = n
        BY <1>2, <1>3, McpClosed
      <4>2. PICK q \in McpOps : mcpOp[q].client = j /\ mcpOp[q].pc = "connecting"
        BY <3>2, <4>1 DEF OpenIsHeld, k
      <4> QED
        BY <1>1, <1>5, <4>2
    <3> QED
      BY <1>5, <2>2, <3>1, <3>3 DEF OnTheWay
  <2> QED
    BY <2>1, <2>2
<1> QED
  BY <1>1, <1>3, <1>5, <1>7, <1>8, <1>9, <1>10, <1>11, McpStep

LEMMA McpDisposeInv ==
    ASSUME McpIInv, NEW o \in McpOps, McpDispose(o)
    PROVE  McpIInv'
<1>1. /\ mcpOp \in [McpOps -> McpOpType] /\ mcpOp[o].pc = "idle"
      /\ mcpOp[o].name = McpNobody /\ Works(o) = {}
  BY DEF McpDispose, McpIInv, McpTypeInvariant, McpNamed, McpOpType, Works
<1>2. /\ Races(o, McpNames) /\ UNCHANGED <<connections, clients, mcpAnnounced>>
      /\ mcpOp' = [mcpOp EXCEPT ![o] = [mcpOp[o] EXCEPT !.pc = "disposing",
                                                        !.kind = "dispose", !.left = McpNames]]
  BY <1>1 DEF McpDispose
<1>3. [[[mcpOp[o] EXCEPT !.pc = "disposing"] EXCEPT !.kind = "dispose"]
                  EXCEPT !.left = McpNames] \in McpOpType
  <2>1. \A x \in McpOpType :
           /\ [x EXCEPT !.pc = "disposing"] \in McpOpType
           /\ [x EXCEPT !.kind = "dispose"] \in McpOpType
           /\ [x EXCEPT !.left = McpNames] \in McpOpType
    BY DEF McpOpType
  <2> QED
    BY <1>1, <2>1
<1>4. /\ mcpOp'[o].pc = "disposing" /\ mcpOp'[o].left = McpNames
      /\ \A p \in McpOps \ {o} : mcpOp'[p] = mcpOp[p]
  BY <1>1, <1>2 DEF McpOpType
<1>5. mcpOp' \in [McpOps -> McpOpType]
  BY <1>1, <1>2, <1>3
<1>6. /\ raced \subseteq raced' /\ raced' \in SUBSET McpNames
      /\ \A n \in McpNames \ raced' : \A p \in McpOps \ {o} : n \notin Works(p)
  BY <1>2 DEF Races, McpIInv, McpTypeInvariant
<1>7. McpTypeInvariant'
  BY <1>2, <1>5, <1>6 DEF McpIInv, McpTypeInvariant, McpOpType
<1>8. McpNamed'
  BY <1>2, <1>4 DEF McpIInv, McpNamed
<1>9. Works(o)' = McpNames
  BY <1>4 DEF Works
<1>10. ASSUME NEW n \in McpNames \ raced' PROVE OnTheWay(n, o)' /\ OpenIsHeld(n)'
  <2>1. OpenIsHeld(n)
    BY <1>6, <1>10 DEF McpIInv, Sound
  <2>2. \A q \in McpOps : mcpOp[q].pc = "connecting" => mcpOp'[q] = mcpOp[q]
    BY <1>1, <1>4
  <2>3. OpenIsHeld(n)'
    <3> SUFFICES ASSUME NEW k \in McpClients, clients[k].state = "open", clients[k].name = n,
                        connections[n] # k
                 PROVE  \E q \in McpOps : mcpOp'[q].client = k /\ mcpOp'[q].pc = "connecting"
      BY <1>2 DEF OpenIsHeld
    <3>1. PICK q \in McpOps : mcpOp[q].client = k /\ mcpOp[q].pc = "connecting"
      BY <2>1 DEF OpenIsHeld
    <3> QED
      BY <2>2, <3>1
  <2>4. OnTheWay(n, o)'
    BY <1>4 DEF OnTheWay
  <2> QED
    BY <2>3, <2>4
<1> QED
  BY <1>1, <1>4, <1>6, <1>7, <1>8, <1>9, <1>10, McpStep

LEMMA McpDisposesInv ==
    ASSUME McpIInv, NEW o \in McpOps, McpDisposes(o)
    PROVE  McpIInv'
<1>1. /\ mcpOp \in [McpOps -> McpOpType] /\ mcpOp[o].pc = "disposing"
      /\ raced' = raced /\ raced \in SUBSET McpNames
  BY DEF McpDisposes, McpIInv, McpTypeInvariant, McpOpType
<1>2. Works(o) = McpNames
  BY <1>1 DEF Works
<1>3. \A n \in McpNames : connections[n] # NoClient =>
          /\ connections[n] \in McpClients /\ clients[connections[n]].name = n
          /\ clients[connections[n]].state # "none"
  BY DEF McpIInv, McpTypeInvariant, McpNamed
<1>4. ASSUME NEW n \in mcpOp[o].left, connections[n] # NoClient, Closes(connections[n]),
             mcpOp' = [mcpOp EXCEPT ![o].left = @ \ {n}], UNCHANGED <<connections, mcpAnnounced>>
      PROVE  McpIInv'
  <2> DEFINE k == connections[n]
  <2>1. n \in McpNames
    BY <1>1 DEF McpOpType
  <2>2. k \in McpClients /\ clients[k].name = n /\ clients[k].state # "none"
    BY <1>3, <1>4, <2>1
  <2>3. /\ mcpOp'[o].pc = "disposing" /\ mcpOp'[o].left = mcpOp[o].left \ {n}
        /\ \A p \in McpOps \ {o} : mcpOp'[p] = mcpOp[p]
    BY <1>1, <1>4 DEF McpOpType
  <2>4. mcpOp' \in [McpOps -> McpOpType]
    BY <1>1, <1>4 DEF McpOpType
  <2>5. McpTypeInvariant'
    BY <1>1, <1>4, <2>2, <2>4, McpClosed DEF McpIInv, McpTypeInvariant, McpOpType
  <2> HIDE DEF k
  <2>6. McpNamed'
    <3>1. \A p \in McpOps : mcpOp[p].client # NoClient => mcpOp[p].client \in McpClients
      BY DEF McpIInv, McpTypeInvariant
    <3>2. \A j \in McpClients :
             /\ clients'[j].name = clients[j].name
             /\ clients'[j].state = "none" <=> clients[j].state = "none"
      BY <1>4, <2>2, McpClosed DEF k
    <3> QED
      BY <1>1, <1>3, <1>4, <2>3, <3>1, <3>2 DEF McpIInv, McpNamed
  <2>7. Works(o)' = McpNames
    BY <2>3 DEF Works
  <2>8. ASSUME NEW m \in McpNames \ raced' PROVE OnTheWay(m, o)' /\ OpenIsHeld(m)'
    <3>1. Sound(m)
      BY <1>1, <2>8 DEF McpIInv
    <3>2. m \notin mcpOp'[o].left => Shut(m)'
      <4>1. CASE m = n
        BY <1>4, <2>2, <4>1, McpClosed DEF Shut, k
      <4>2. CASE m # n
        BY <1>1, <1>3, <1>4, <2>2, <2>3, <3>1, <4>2, McpClosed DEF Sound, OnTheWay, Shut, k
      <4> QED
        BY <4>1, <4>2
    <3>3. OpenIsHeld(m)'
      <4> SUFFICES ASSUME NEW j \in McpClients, clients'[j].state = "open", clients'[j].name = m
                   PROVE  \/ connections'[m] = j
                          \/ \E q \in McpOps : mcpOp'[q].client = j
                                               /\ mcpOp'[q].pc = "connecting"
        BY DEF OpenIsHeld
      <4>1. clients[j].state = "open" /\ clients[j].name = m
        BY <1>4, <2>2, McpClosed DEF k
      <4> QED
        BY <1>1, <1>2, <1>4, <2>8, <4>1, OnlyEntryIsOpen
    <3> QED
      BY <2>3, <3>2, <3>3 DEF OnTheWay
  <2> QED
    BY <1>1, <1>2, <2>3, <2>5, <2>6, <2>7, <2>8, McpStep
<1>5. ASSUME \A n \in mcpOp[o].left : connections[n] = NoClient,
             connections' = [n \in McpNames |-> NoClient],
             mcpAnnounced' = [n \in McpNames |-> "nothing"],
             mcpOp' = Over(o), UNCHANGED clients
      PROVE  McpIInv'
  <2>1. /\ mcpOp' \in [McpOps -> McpOpType]
        /\ mcpOp'[o].pc \in {"idle", "next"} /\ mcpOp'[o].name = McpNobody
        /\ \A p \in McpOps \ {o} : mcpOp'[p] = mcpOp[p]
    BY <1>5, McpOnward
  <2>2. McpTypeInvariant'
    BY <1>1, <1>5, <2>1 DEF McpIInv, McpTypeInvariant, McpOpType
  <2>3. McpNamed'
    BY <1>5, <2>1 DEF McpIInv, McpNamed
  <2>4. Works(o)' = {}
    BY <2>1 DEF Works
  <2>5. ASSUME NEW m \in McpNames \ raced' PROVE OnTheWay(m, o)' /\ OpenIsHeld(m)'
    <3>1. Shut(m)
      BY <1>1, <1>5, <2>5 DEF McpIInv, Sound, OnTheWay, Shut
    <3>2. \A j \in McpClients : ~(clients[j].state = "open" /\ clients[j].name = m)
      BY <1>1, <1>2, <2>5, <3>1, OnlyEntryIsOpen DEF Shut
    <3> QED
      BY <1>5, <2>1, <3>2 DEF OpenIsHeld, OnTheWay
  <2> QED
    BY <1>1, <1>2, <1>5, <2>1, <2>2, <2>3, <2>4, <2>5, McpStep
<1>6. \/ \E n \in mcpOp[o].left :
            /\ connections[n] # NoClient /\ Closes(connections[n])
            /\ mcpOp' = [mcpOp EXCEPT ![o].left = @ \ {n}]
            /\ UNCHANGED <<connections, mcpAnnounced>>
      \/ /\ \A n \in mcpOp[o].left : connections[n] = NoClient
         /\ connections' = [n \in McpNames |-> NoClient]
         /\ mcpAnnounced' = [n \in McpNames |-> "nothing"]
         /\ mcpOp' = Over(o) /\ UNCHANGED clients
  BY DEF McpDisposes
<1> QED
  BY <1>4, <1>5, <1>6

\* The invariant of the connections holds, however connects, disconnects and disposals
\* interleave (mcp.ts, integrations/mcp.ts).
THEOREM McpInvariant == McpSpec => []McpIInv
<1>1. McpIInv /\ UNCHANGED mcpVars => McpIInv'
  BY DEF mcpVars, McpIInv, McpTypeInvariant, McpNamed, Sound, AloneAt, OnTheWay, Shut,
         OpenIsHeld, AtRest, Works
<1>2. McpIInv /\ [McpNext]_mcpVars => McpIInv'
  BY <1>1, McpConnectAllInv, McpConnectNextInv, McpConnectedInv, McpConnectFailsInv,
     McpDropsInv, McpDisposeInv, McpDisposesInv, McpConnectInv, McpDisconnectInv DEF McpNext
<1> QED
  BY <1>2, McpInitInv, PTL DEF McpSpec

\* A client that is open can be found under its name or is being connected, and the map and
\* the events agree with it, for every name that no two operations worked on at once
\* (mcp.ts, integrations/mcp.ts).
THEOREM McpConnectionsAccounted == McpSpec => []ConnectionsAccounted
<1>1. McpIInv => ConnectionsAccounted
  BY DEF McpIInv, Sound, OpenIsHeld, AtRest, ConnectionsAccounted
<1> QED
  BY <1>1, McpInvariant, PTL

HIDE McpAssumption DEF NoClient, McpClients, McpKinds
-----------------------------------------------------------------------------
\* The workspace and its record of changes.

\* The first change to a file that only recorded changes have touched knows what was there
\* when the run began, and a file without one is as it was.
FirstKnows(f) ==
    /\ f \notin ChangedIn(changes) => files[f] = origin[f]
    /\ \A i \in DOMAIN changes :
          /\ changes[i].path = f
          /\ \A j \in 1 .. i - 1 : changes[j].path # f
          => changes[i].before = origin[f]

WsIInv ==
    /\ WsTypeInvariant
    /\ \A f \in WsFiles \ foreign : FirstKnows(f)
    /\ RollbackUndoes

USE WorkspaceAssumption

LEMMA WsInitInv == WsInit => WsIInv
<1> SUFFICES ASSUME WsInit PROVE WsIInv
  OBVIOUS
<1>1. /\ files \in [WsFiles -> Content] /\ origin = files /\ changes = <<>> /\ undone = FALSE
      /\ readFiles = {} /\ reported = 0 /\ foreign = {}
  BY DEF WsInit, WsIdle
<1>2. DOMAIN changes = {} /\ changes \in Seq(Change) /\ Len(changes) = 0
  BY <1>1
<1>3. WsTypeInvariant
  <2>1. MaxChanges \in Nat
    BY DEF WorkspaceAssumption
  <2>2. Len(changes) <= MaxChanges /\ reported \in 0 .. Len(changes)
    BY <1>1, <1>2, <2>1
  <2>3. readFiles \in SUBSET WsFiles /\ foreign \in SUBSET WsFiles /\ undone \in BOOLEAN
    BY <1>1
  <2> QED
    BY <1>1, <1>2, <2>2, <2>3 DEF WsTypeInvariant
<1>4. \A f \in WsFiles : FirstKnows(f)
  BY <1>1, <1>2 DEF FirstKnows
<1> QED
  BY <1>1, <1>3, <1>4 DEF WsIInv, RollbackUndoes

\* What leaves the files and their history alone keeps what is known of them.
LEMMA KnownStays ==
    ASSUME WsIInv, UNCHANGED <<files, changes, origin, foreign>>,
           readFiles' \in SUBSET WsFiles, reported' \in 0 .. Len(changes),
           undone' = FALSE \/ UNCHANGED <<undone, reported>>
    PROVE  WsIInv'
<1>1. WsTypeInvariant'
  BY DEF WsIInv, WsTypeInvariant
<1>2. \A f \in WsFiles \ foreign : FirstKnows(f)'
  BY DEF WsIInv, FirstKnows, ChangedIn
<1>3. RollbackUndoes'
  BY DEF WsIInv, RollbackUndoes, ChangedIn
<1> QED
  BY <1>1, <1>2, <1>3 DEF WsIInv

\* What a tool changes is added to the record, or known to be foreign.
LEMMA WsRecordedInv ==
    ASSUME WsIInv, NEW f \in WsFiles, NEW c \in Content, Mutates(f, c)
    PROVE  WsIInv'
<1> DEFINE ch == [path |-> f, before |-> files[f]]
<1>1. /\ files' = [files EXCEPT ![f] = c]
      /\ changes' = Append(changes, ch)
      /\ undone' = FALSE /\ Len(changes) < MaxChanges
      /\ UNCHANGED <<readFiles, reported, origin, foreign>>
  BY DEF Mutates
<1>2. ch \in Change /\ ch.path = f /\ ch.before = files[f]
  BY DEF WsIInv, WsTypeInvariant, Change
<1> HIDE DEF ch
<1>3. /\ changes' \in Seq(Change) /\ Len(changes') = Len(changes) + 1
      /\ changes'[Len(changes) + 1] = ch
      /\ \A i \in DOMAIN changes : changes'[i] = changes[i]
      /\ DOMAIN changes = 1 .. Len(changes) /\ DOMAIN changes' = 1 .. Len(changes) + 1
      /\ Len(changes) \in Nat
  BY <1>1, <1>2 DEF WsIInv, WsTypeInvariant
<1>4. WsTypeInvariant'
  <2>1. files' \in [WsFiles -> Content] /\ reported' \in 0 .. Len(changes')
    BY <1>1, <1>3 DEF WsIInv, WsTypeInvariant
  <2>2. Len(changes') <= MaxChanges
    BY <1>1, <1>3
  <2> QED
    BY <1>1, <1>3, <2>1, <2>2 DEF WsIInv, WsTypeInvariant
<1>5. ASSUME NEW g \in WsFiles \ foreign
      PROVE  FirstKnows(g)'
  <2>1. FirstKnows(g)
    BY DEF WsIInv
  <2>2. g \notin ChangedIn(changes)' => g \notin ChangedIn(changes) /\ g # f
    BY <1>2, <1>3 DEF ChangedIn
  <2>3. files'[g] = IF g = f THEN c ELSE files[g]
    BY <1>1 DEF WsIInv, WsTypeInvariant
  <2>4. ASSUME NEW i \in DOMAIN changes', changes'[i].path = g,
               \A j \in 1 .. i - 1 : changes'[j].path # g
        PROVE  changes'[i].before = origin[g]
    <3>1. CASE i \in DOMAIN changes
      BY <1>3, <2>1, <2>4, <3>1 DEF FirstKnows
    <3>2. CASE i = Len(changes) + 1
      <4>1. g \notin ChangedIn(changes) /\ g = f
        BY <1>2, <1>3, <2>4, <3>2 DEF ChangedIn
      <4> QED
        BY <1>2, <1>3, <2>1, <3>2, <4>1 DEF FirstKnows
    <3> QED
      BY <1>3, <3>1, <3>2
  <2> QED
    BY <1>1, <2>1, <2>2, <2>3, <2>4 DEF FirstKnows
<1> QED
  BY <1>1, <1>4, <1>5 DEF WsIInv, RollbackUndoes

LEMMA WsBashInv ==
    ASSUME WsIInv, WsBash
    PROVE  WsIInv'
<1> DEFINE ch == [path |-> NoPath, before |-> NoContent]
<1>1. PICK f \in WsFiles, c \in Content : files' = [files EXCEPT ![f] = c] /\ Unrecorded({f})
  BY DEF WsBash
<1>2. /\ changes' = Append(changes, ch)
      /\ undone' = FALSE /\ Len(changes) < MaxChanges
      /\ UNCHANGED <<readFiles, reported, origin>>
      /\ foreign' = foreign \cup {f}
  BY <1>1 DEF WsBash, Unrecorded
<1>3. ch \in Change /\ ch.path = NoPath
  BY DEF Change, Content
<1> HIDE DEF ch
<1>4. /\ changes' \in Seq(Change) /\ Len(changes') = Len(changes) + 1
      /\ changes'[Len(changes) + 1] = ch
      /\ \A i \in DOMAIN changes : changes'[i] = changes[i]
      /\ DOMAIN changes = 1 .. Len(changes) /\ DOMAIN changes' = 1 .. Len(changes) + 1
      /\ Len(changes) \in Nat
  BY <1>2, <1>3 DEF WsIInv, WsTypeInvariant
<1>5. WsTypeInvariant'
  <2>1. files' \in [WsFiles -> Content] /\ reported' \in 0 .. Len(changes')
    BY <1>1, <1>2, <1>4 DEF WsIInv, WsTypeInvariant
  <2>2. Len(changes') <= MaxChanges
    BY <1>2, <1>4
  <2> QED
    BY <1>2, <1>4, <2>1, <2>2 DEF WsIInv, WsTypeInvariant
<1>6. ASSUME NEW g \in WsFiles \ foreign'
      PROVE  FirstKnows(g)'
  <2>1. FirstKnows(g) /\ g # f
    BY <1>2 DEF WsIInv
  <2>2. g \notin ChangedIn(changes)' => g \notin ChangedIn(changes)
    BY <1>4 DEF ChangedIn
  <2>3. files'[g] = files[g]
    BY <1>1, <2>1 DEF WsIInv, WsTypeInvariant
  <2>4. ASSUME NEW i \in DOMAIN changes', changes'[i].path = g,
               \A j \in 1 .. i - 1 : changes'[j].path # g
        PROVE  changes'[i].before = origin[g]
    <3>1. i \in DOMAIN changes
      BY <1>3, <1>4, <2>4
    <3> QED
      BY <1>4, <2>1, <2>4, <3>1 DEF FirstKnows
  <2> QED
    BY <1>2, <2>1, <2>2, <2>3, <2>4 DEF FirstKnows
<1> QED
  BY <1>2, <1>5, <1>6 DEF WsIInv, RollbackUndoes

LEMMA WsApplyPatchInv ==
    ASSUME WsIInv, WsApplyPatch
    PROVE  WsIInv'
<1>1. /\ undone' = FALSE
      /\ UNCHANGED <<readFiles, changes, reported, origin>>
  BY DEF WsApplyPatch
<1>2. /\ files' \in [WsFiles -> Content] /\ foreign' \in SUBSET WsFiles /\ foreign \subseteq foreign'
      /\ \A g \in WsFiles \ foreign' : files'[g] = files[g]
  BY DEF WsApplyPatch, WsIInv, WsTypeInvariant, Unrecorded, Content
<1> QED
  BY <1>1, <1>2 DEF WsIInv, WsTypeInvariant, FirstKnows, RollbackUndoes

\* Writing back gives a file what was there before its earliest change among `is`.
LEMMA WrittenBackIs ==
    ASSUME WsTypeInvariant, NEW is \in SUBSET DOMAIN changes
    PROVE  /\ WrittenBack(is) \in [WsFiles -> Content]
           /\ \A f \in WsFiles :
                \/ /\ \A i \in is : changes[i].path # f
                   /\ WrittenBack(is)[f] = files[f]
                \/ \E i \in is : /\ changes[i].path = f
                                 /\ \A j \in is : changes[j].path = f => i <= j
                                 /\ WrittenBack(is)[f] = changes[i].before
<1>1. DOMAIN changes = 1 .. Len(changes) /\ Len(changes) \in Nat
      /\ \A i \in DOMAIN changes : changes[i] \in Change
  BY DEF WsTypeInvariant
<1>2. WrittenBack(is) = [f \in WsFiles |-> WrittenBack(is)[f]]
  BY DEF WrittenBack
<1>3. ASSUME NEW f \in WsFiles
      PROVE  /\ WrittenBack(is)[f] \in Content
             /\ \/ /\ \A i \in is : changes[i].path # f
                   /\ WrittenBack(is)[f] = files[f]
                \/ \E i \in is : /\ changes[i].path = f
                                 /\ \A j \in is : changes[j].path = f => i <= j
                                 /\ WrittenBack(is)[f] = changes[i].before
  <2> DEFINE hits == {i \in is : changes[i].path = f}
  <2>1. WrittenBack(is)[f] = IF hits = {} THEN files[f] ELSE changes[Min(hits)].before
    BY DEF WrittenBack
  <2>2. hits \subseteq Nat /\ \A i \in hits : i \in is /\ changes[i].path = f
    BY <1>1
  <2>3. \A i \in is : changes[i].path = f => i \in hits
    OBVIOUS
  <2>4. files[f] \in Content
    BY DEF WsTypeInvariant
  <2> HIDE DEF hits
  <2>5. CASE hits = {}
    BY <2>1, <2>3, <2>4, <2>5
  <2>6. CASE hits # {}
    <3>1. Min(hits) \in hits /\ \A j \in hits : Min(hits) <= j
      BY <2>2, <2>6, Least
    <3>2. changes[Min(hits)].before \in Content
      BY <1>1, <2>2, <3>1 DEF Change
    <3> QED
      BY <2>1, <2>2, <2>3, <2>6, <3>1, <3>2
  <2> QED
    BY <2>5, <2>6
<1> QED
  BY <1>2, <1>3

\* Nothing that is written back makes a change that is not recorded.
LEMMA WrittenBackKeeps ==
    ASSUME WsIInv, NEW is \in SUBSET (1 .. reported), files' = WrittenBack(is),
           UNCHANGED <<readFiles, changes, reported, origin, foreign>>, undone' \in BOOLEAN
    PROVE  WsTypeInvariant' /\ \A f \in WsFiles \ foreign : FirstKnows(f)'
<1>1. is \in SUBSET DOMAIN changes
  BY DEF WsIInv, WsTypeInvariant
<1>2. WsTypeInvariant'
  BY <1>1, WrittenBackIs DEF WsIInv, WsTypeInvariant
<1>3. ASSUME NEW f \in WsFiles \ foreign PROVE FirstKnows(f)'
  <2>1. \A i \in is : i \in DOMAIN changes
    BY <1>1
  <2>2. \/ /\ \A i \in is : changes[i].path # f
           /\ files'[f] = files[f]
        \/ \E i \in is : changes[i].path = f
    <3>1. WsTypeInvariant /\ f \in WsFiles
      BY DEF WsIInv
    <3>2. files'[f] = WrittenBack(is)[f]
      OBVIOUS
    <3>3. \A g \in WsFiles :
             \/ /\ \A i \in is : changes[i].path # g
                /\ WrittenBack(is)[g] = files[g]
             \/ \E i \in is : /\ changes[i].path = g
                              /\ \A j \in is : changes[j].path = g => i <= j
                              /\ WrittenBack(is)[g] = changes[i].before
      BY <1>1, <3>1, WrittenBackIs
    <3> QED
      BY <3>1, <3>2, <3>3
  <2>3. f \notin ChangedIn(changes) => files'[f] = files[f]
    BY <2>1, <2>2 DEF ChangedIn
  <2> QED
    BY <2>3 DEF WsIInv, FirstKnows
<1> QED
  BY <1>2, <1>3

LEMMA WsRollbackInv ==
    ASSUME WsIInv, WsRollback
    PROVE  WsIInv'
<1>1. PICK paths \in {WsFiles} \cup {{f} : f \in readFiles}, k \in 1 .. reported + 1 :
          /\ files' = WrittenBack({i \in k .. reported : changes[i].path \in paths})
          /\ undone' = (paths = WsFiles /\ \A i \in 1 .. k - 1 : changes[i].path \notin paths)
  BY DEF WsRollback
<1> DEFINE is == {i \in k .. reported : changes[i].path \in paths}
<1>2. UNCHANGED <<readFiles, changes, reported, origin, foreign>>
  BY DEF WsRollback
<1>3. reported \in 0 .. Len(changes) /\ Len(changes) \in Nat /\ DOMAIN changes = 1 .. Len(changes)
  BY DEF WsIInv, WsTypeInvariant
<1>4. is \in SUBSET (1 .. reported) /\ is \in SUBSET DOMAIN changes
  BY <1>3
<1>5. undone' \in BOOLEAN
  BY <1>1
<1>6. WsTypeInvariant' /\ \A f \in WsFiles \ foreign : FirstKnows(f)'
  BY <1>1, <1>2, <1>4, <1>5, WrittenBackKeeps
<1>7. ASSUME undone', NEW f \in WsFiles \ foreign, f \in ChangedIn(SubSeq(changes, 1, reported))
      PROVE  files'[f] = origin[f]
  <2>1. PICK i0 \in 1 .. reported : changes[i0].path = f
    <3> DEFINE told == SubSeq(changes, 1, reported)
    <3>1. DOMAIN told = 1 .. reported /\ \A i \in 1 .. reported : told[i] = changes[i]
      BY <1>3 DEF WsIInv, WsTypeInvariant
    <3>2. \E i \in DOMAIN told : told[i].path = f
      BY <1>7 DEF ChangedIn
    <3> QED
      BY <3>1, <3>2
  <2>2. \A i \in 1 .. reported : changes[i].path = f => i \in is
    <3>1. paths = WsFiles /\ \A i \in 1 .. k - 1 : changes[i].path # f
      BY <1>1, <1>7
    <3>2. \A i \in 1 .. reported : i \in 1 .. k - 1 \/ i \in k .. reported
      BY <1>3
    <3> QED
      BY <1>7, <3>1, <3>2
  <2> HIDE DEF is
  <2>3. PICK i \in is : /\ changes[i].path = f
                        /\ \A j \in is : changes[j].path = f => i <= j
                        /\ files'[f] = changes[i].before
    <3>1. files' = WrittenBack(is)
      BY <1>1 DEF is
    <3>2. WsTypeInvariant /\ f \in WsFiles
      BY DEF WsIInv
    <3>3. ~ \A i \in is : changes[i].path # f
      BY <2>1, <2>2
    <3>4. files'[f] = WrittenBack(is)[f]
      BY <3>1
    <3>5. \A g \in WsFiles :
             \/ /\ \A i \in is : changes[i].path # g
                /\ WrittenBack(is)[g] = files[g]
             \/ \E i \in is : /\ changes[i].path = g
                              /\ \A j \in is : changes[j].path = g => i <= j
                              /\ WrittenBack(is)[g] = changes[i].before
      BY <1>4, <3>2, WrittenBackIs
    <3> QED
      BY <3>2, <3>3, <3>4, <3>5
  <2>4. \A j \in 1 .. i - 1 : changes[j].path # f
    BY <1>3, <1>4, <2>2, <2>3
  <2> QED
    BY <1>4, <2>3, <2>4 DEF WsIInv, FirstKnows
<1>8. RollbackUndoes'
  <2> SUFFICES ASSUME undone', NEW f \in WsFiles \ foreign,
                      f \in ChangedIn(changes) => f \in ChangedIn(SubSeq(changes, 1, reported))
               PROVE  files'[f] = origin[f]
    BY <1>2 DEF RollbackUndoes
  <2>1. CASE f \in ChangedIn(changes)
    BY <1>7, <2>1
  <2>2. CASE f \notin ChangedIn(changes)
    BY <1>2, <1>6, <2>2 DEF FirstKnows
  <2> QED
    BY <2>1, <2>2
<1> QED
  BY <1>2, <1>6, <1>8 DEF WsIInv

LEMMA WsRevertInv ==
    ASSUME WsIInv, WsRevert
    PROVE  WsIInv'
<1>1. PICK paths \in SUBSET WsFiles, k \in 1 .. reported + 1 :
          files' = WrittenBack({i \in k .. reported : /\ changes[i].path \in paths
                                                      /\ changes[i].before # NoContent})
  BY DEF WsRevert
<1> DEFINE is == {i \in k .. reported : changes[i].path \in paths /\ changes[i].before # NoContent}
<1>2. undone' = FALSE /\ UNCHANGED <<readFiles, changes, reported, origin, foreign>>
  BY DEF WsRevert
<1>3. reported \in Nat
  BY DEF WsIInv, WsTypeInvariant
<1>4. is \in SUBSET (1 .. reported)
  BY <1>3
<1> QED
  BY <1>1, <1>2, <1>4, WrittenBackKeeps DEF WsIInv, RollbackUndoes

\* However a run's files were written, patched, deleted, rolled back and reverted before: a
\* rollback of everything brings them back as the run found them, but for those that a shell
\* command or apply_patch has changed, or that changed since the last iteration (rollback.ts).
THEOREM WorkspaceRollbackUndoes == WsSpec => []RollbackUndoes
<1>1. ASSUME WsIInv, NEW f \in WsFiles, WsRead(f) PROVE WsIInv'
  BY <1>1, KnownStays DEF WsRead, WsIInv, WsTypeInvariant
<1>2. ASSUME WsIInv, WsIteration PROVE WsIInv'
  <2>1. /\ reported' = Len(changes) /\ undone' = FALSE
        /\ UNCHANGED <<files, readFiles, changes, origin, foreign>>
    BY <1>2 DEF WsIteration
  <2>2. Len(changes) \in Nat /\ readFiles \in SUBSET WsFiles
    BY <1>2 DEF WsIInv, WsTypeInvariant
  <2>3. reported' \in 0 .. Len(changes) /\ readFiles' \in SUBSET WsFiles
    BY <2>1, <2>2
  <2>4. UNCHANGED <<files, changes, origin, foreign>>
    BY <2>1
  <2> QED
    BY <1>2, <2>1, <2>3, <2>4, KnownStays
<1>3. WsIInv /\ UNCHANGED wsVars => WsIInv'
  BY KnownStays DEF wsVars, WsIInv, WsTypeInvariant
<1>4. ASSUME WsIInv, NEW f \in WsFiles, WsDelete(f) PROVE WsIInv'
  BY <1>4, WsRecordedInv DEF WsDelete, Content
<1>5. ASSUME WsIInv, NEW f \in WsFiles, NEW c \in Content, WsWrite(f, c) \/ WsPatch(f, c)
      PROVE  WsIInv'
  BY <1>5, WsRecordedInv DEF WsWrite, WsPatch
<1>6. WsIInv /\ [WsNext]_wsVars => WsIInv'
  BY <1>1, <1>2, <1>3, <1>4, <1>5, WsBashInv, WsApplyPatchInv, WsRollbackInv, WsRevertInv
     DEF WsNext
<1>7. WsIInv => RollbackUndoes
  BY DEF WsIInv
<1> QED
  BY <1>6, <1>7, WsInitInv, PTL DEF WsSpec

HIDE WorkspaceAssumption
-----------------------------------------------------------------------------
\* The agent that runs share.

\* A run that has not begun has no list and no parent, and neither has a prompt's run; the
\* parent of a subagent is at its tools until that is over.
Family(r) ==
    /\ agRun[r].pc = "new" => agRun[r].todos = NoTodos /\ ~IsSub(r)
    /\ Active(r) /\ IsSub(r) =>
          LET p == agRun[agRun[r].parent] IN
          p.pc = "tooling" /\ p.session = agRun[r].session /\ p.agent = agRun[r].agent

\* Of a session that is not mingled, one active run at most waits for no other; one at most is
\* no subagent; and no run of another session has their agent.
OwnAgent(q, r) ==
    Active(q) /\ Active(r) /\ agRun[q].session \notin mingled =>
        /\ agRun[q].agent = agRun[r].agent <=> agRun[q].session = agRun[r].session
        /\ agRun[q].session = agRun[r].session =>
              /\ Waits(q) \/ Waits(r) \/ q = r
              /\ IsSub(q) \/ IsSub(r) \/ q = r

\* What the agent has, and what a run is about to store, is what was written last.
ListsAgree(r) ==
    Active(r) /\ agRun[r].session \notin mingled =>
        LET wrote == wroteTodos[agRun[r].session] IN
        /\ agRun[r].pc # "primed" \/ IsSub(r) => SameList(todosRef[agRun[r].agent], wrote)
        /\ agRun[r].pc = "saving" => SameList(agRun[r].todos, wrote)
        /\ agRun[r].pc \in {"primed", "thinking"} /\ ~IsSub(r) => SameList(agRun[r].todos, wrote)
        /\ agRun[r].pc = "primed" /\ IsSub(r) => agRun[r].todos = NoTodos

\* Between its runs a session has what was written last.
RestsInStore(s) ==
    s \notin mingled /\ (\A r \in AgRuns : Active(r) => agRun[r].session # s) =>
        /\ SameList(storedTodos[s], wroteTodos[s])
        /\ perRun \/ SameList(heldTodos[s], wroteTodos[s])

AgIInv ==
    /\ AgTypeInvariant
    /\ \A r \in AgRuns : Family(r) /\ ListsAgree(r)
    /\ \A q, r \in AgRuns : OwnAgent(q, r)
    /\ \A s \in AgSessions : RestsInStore(s)

USE SharedAgentAssumption

LEMMA SameListTrans ==
    /\ \A x : SameList(x, x)
    /\ \A x, y, z : SameList(x, y) /\ SameList(y, z) => SameList(x, z)
    /\ \A x, y : SameList(x, y) => SameList(y, x)
BY DEF SameList

LEMMA AgInitInv == AgInit => AgIInv
<1> SUFFICES ASSUME AgInit PROVE AgIInv
  OBVIOUS
<1> DEFINE s0 == CHOOSE s \in AgSessions : TRUE
           run(r) == [pc |-> "new", agent |-> r, session |-> s0, parent |-> Nobody,
                      todos |-> NoTodos]
<1>1. s0 \in AgSessions
  OBVIOUS
<1>2. agRun = [r \in AgRuns |-> run(r)]
  BY DEF AgInit, AgIdle
<1> HIDE DEF s0
<1>3. \A r \in AgRuns : run(r) \in AgRun
  BY <1>1 DEF AgRun, Todos
<1>4. \A r \in AgRuns : /\ agRun[r].pc = "new" /\ agRun[r].parent = Nobody
                        /\ agRun[r].todos = NoTodos
  BY <1>2
<1>5. AgTypeInvariant
  <2>1. agRun \in [AgRuns -> AgRun]
    BY <1>2, <1>3
  <2>2. /\ todosRef \in [AgRuns -> Todos]
        /\ loopDetector \in [AgRuns -> AgRuns \cup {Nobody}]
        /\ perRun \in BOOLEAN /\ mingled \subseteq AgSessions
    BY DEF AgInit, AgIdle, Todos
  <2>3. storedTodos \in [AgSessions -> Todos]
    BY DEF AgInit, AgIdle, Todos
  <2>4. heldTodos = storedTodos /\ wroteTodos = storedTodos
    BY DEF AgInit, AgIdle
  <2> QED
    BY <2>1, <2>2, <2>3, <2>4 DEF AgTypeInvariant
<1>6. \A r \in AgRuns : ~Active(r) /\ ~IsSub(r)
  BY <1>4 DEF Active, IsSub
<1>7. \A s \in AgSessions : RestsInStore(s)
  BY SameListTrans DEF AgInit, AgIdle, RestsInStore
<1> QED
  BY <1>4, <1>5, <1>6, <1>7 DEF AgIInv, Family, ListsAgree, OwnAgent

LEMMA RunIsSet ==
    ASSUME NEW v \in AgRun, NEW pc \in {"new", "primed", "thinking", "tooling", "saving", "over"},
           NEW todos \in Todos, NEW a \in AgRuns, NEW s \in AgSessions, NEW p \in AgRuns \cup {Nobody}
    PROVE  /\ [v EXCEPT !.pc = pc] \in AgRun
           /\ [v EXCEPT !.pc = pc, !.todos = todos] \in AgRun
           /\ [v EXCEPT !.pc = pc, !.agent = a, !.session = s, !.todos = todos] \in AgRun
           /\ [v EXCEPT !.pc = pc, !.agent = a, !.session = s, !.parent = p] \in AgRun
<1>1. /\ [v EXCEPT !.pc = pc] \in AgRun
      /\ \A u \in AgRun : [u EXCEPT !.todos = todos] \in AgRun
      /\ \A u \in AgRun : [u EXCEPT !.agent = a] \in AgRun
      /\ \A u \in AgRun : [u EXCEPT !.session = s] \in AgRun
      /\ \A u \in AgRun : [u EXCEPT !.parent = p] \in AgRun
  BY DEF AgRun
<1> QED
  BY <1>1

LEMMA AgTypeInv ==
    ASSUME AgTypeInvariant, [AgNext]_agVars
    PROVE  AgTypeInvariant'
<1> USE DEF AgTypeInvariant
<1>1. /\ NoTodos \in Todos /\ EmptyTodos \in Todos
      /\ \A r \in AgRuns : TodosOf(r) \in Todos
  BY DEF Todos
<1>2. \A r \in AgRuns : /\ agRun[r].agent \in AgRuns /\ agRun[r].session \in AgSessions
                        /\ agRun[r].todos \in Todos /\ todosRef[r] \in Todos
  BY DEF AgRun
<1>3. \A s \in AgSessions : storedTodos[s] \in Todos /\ heldTodos[s] \in Todos
  OBVIOUS
<1> HIDE DEF AgTypeInvariant
<1>4. ASSUME NEW r \in AgRuns, NEW s \in AgSessions, AgStarts(r, s) PROVE AgTypeInvariant'
  <2> DEFINE agent == IF perRun THEN r ELSE TheAgent
             todos == IF perRun THEN storedTodos[s] ELSE heldTodos[s]
             met == {q \in AgRuns : Active(q) /\ (agRun[q].agent = agent \/ agRun[q].session = s)}
  <2>1. agent \in AgRuns
    BY DEF TheAgent
  <2>2. todos \in Todos
    BY <1>3
  <2>3. {agRun[q].session : q \in met} \subseteq AgSessions
    BY <1>2
  <2>4. /\ agRun' = [agRun EXCEPT ![r].pc = "primed", ![r].agent = agent, ![r].session = s,
                                  ![r].todos = todos]
        /\ mingled' = mingled \cup {agRun[q].session : q \in met} \cup (IF met # {} THEN {s} ELSE {})
        /\ UNCHANGED <<perRun, todosRef, loopDetector, storedTodos, heldTodos, wroteTodos>>
    BY <1>4 DEF AgStarts
  <2> HIDE DEF agent, todos, met
  <2> DEFINE v == [agRun[r] EXCEPT !.pc = "primed", !.agent = agent, !.session = s, !.todos = todos]
  <2>5. agRun' = [agRun EXCEPT ![r] = v]
    BY <2>4 DEF AgTypeInvariant, AgRun
  <2>6. v \in AgRun
    BY <2>1, <2>2, RunIsSet DEF AgTypeInvariant
  <2>7. agRun' \in [AgRuns -> AgRun]
    BY <2>5, <2>6 DEF AgTypeInvariant
  <2> QED
    BY <2>3, <2>4, <2>7 DEF AgTypeInvariant
<1>5. ASSUME NEW r \in AgRuns, AgRestores(r) PROVE AgTypeInvariant'
  <2>1. agRun' \in [AgRuns -> AgRun]
    BY <1>5 DEF AgRestores, Goes, AgTypeInvariant, AgRun
  <2>2. todosRef' \in [AgRuns -> Todos] /\ loopDetector' \in [AgRuns -> AgRuns \cup {Nobody}]
    BY <1>2, <1>5 DEF AgRestores, RestoredTodos, AgTypeInvariant
  <2>3. mingled' \subseteq AgSessions
    BY <1>2, <1>5 DEF AgRestores, AgTypeInvariant
  <2>4. UNCHANGED <<perRun, storedTodos, heldTodos, wroteTodos>>
    BY <1>5 DEF AgRestores
  <2> QED
    BY <2>1, <2>2, <2>3, <2>4 DEF AgTypeInvariant
<1>6. ASSUME NEW r \in AgRuns, AgWrites(r) PROVE AgTypeInvariant'
  <2>1. agRun' \in [AgRuns -> AgRun]
    BY <1>6 DEF AgWrites, Goes, AgTypeInvariant, AgRun
  <2>2. todosRef' \in [AgRuns -> Todos] /\ wroteTodos' \in [AgSessions -> Todos]
    BY <1>1, <1>2, <1>6 DEF AgWrites, AgTypeInvariant
  <2>3. mingled' \subseteq AgSessions
    BY <1>2, <1>6 DEF AgWrites, AgTypeInvariant
  <2>4. UNCHANGED <<perRun, loopDetector, storedTodos, heldTodos>>
    BY <1>6 DEF AgWrites
  <2> QED
    BY <2>1, <2>2, <2>3, <2>4 DEF AgTypeInvariant
<1>7. ASSUME NEW r \in AgRuns, NEW c \in AgRuns, AgSpawns(r, c) PROVE AgTypeInvariant'
  <2>1. agRun' = [agRun EXCEPT ![r].pc = "tooling", ![c].pc = "primed",
                               ![c].agent = agRun[r].agent, ![c].session = agRun[r].session,
                               ![c].parent = r]
    BY <1>7 DEF AgSpawns
  <2> DEFINE v == [agRun[r] EXCEPT !.pc = "tooling"]
             w == [agRun[c] EXCEPT !.pc = "primed", !.agent = agRun[r].agent,
                                   !.session = agRun[r].session, !.parent = r]
  <2>2. r # c
    BY <1>7 DEF AgSpawns
  <2>3. agRun' = [agRun EXCEPT ![r] = v, ![c] = w]
    BY <2>1, <2>2 DEF AgTypeInvariant, AgRun
  <2>4. v \in AgRun /\ w \in AgRun
    BY <1>2, RunIsSet DEF AgTypeInvariant
  <2>5. agRun' \in [AgRuns -> AgRun]
    BY <2>3, <2>4 DEF AgTypeInvariant
  <2> QED
    BY <1>7, <2>5 DEF AgSpawns, AgTypeInvariant
<1>8. ASSUME NEW r \in AgRuns, AgSyncs(r) PROVE AgTypeInvariant'
  <2>1. agRun' = [agRun EXCEPT ![r].pc = "saving", ![r].todos = todosRef[agRun[r].agent]]
    BY <1>8 DEF AgSyncs
  <2> DEFINE v == [agRun[r] EXCEPT !.pc = "saving", !.todos = todosRef[agRun[r].agent]]
  <2>2. agRun' = [agRun EXCEPT ![r] = v]
    BY <2>1 DEF AgTypeInvariant, AgRun
  <2>3. v \in AgRun
    BY <1>2, RunIsSet DEF AgTypeInvariant
  <2>4. agRun' \in [AgRuns -> AgRun]
    BY <2>2, <2>3 DEF AgTypeInvariant
  <2> QED
    BY <1>8, <2>4 DEF AgSyncs, AgTypeInvariant
<1>9. ASSUME NEW r \in AgRuns, NEW ok \in BOOLEAN, AgSaves(r, ok) PROVE AgTypeInvariant'
  <2>1. agRun' \in [AgRuns -> AgRun]
    BY <1>9 DEF AgSaves, Goes, AgTypeInvariant, AgRun
  <2>2. storedTodos' \in [AgSessions -> Todos] /\ todosRef' \in [AgRuns -> Todos]
    BY <1>2, <1>9 DEF AgSaves, Stores, AgTypeInvariant
  <2> QED
    BY <1>9, <2>1, <2>2 DEF AgSaves, AgTypeInvariant
<1>10. ASSUME NEW r \in AgRuns, NEW ok \in BOOLEAN, AgEnds(r, ok) \/ AgThrows(r, ok)
       PROVE  AgTypeInvariant'
  <2>1. agRun' = [agRun EXCEPT ![r].pc = "over", ![r].todos = NoTodos]
    BY <1>10 DEF AgEnds, AgThrows, AgOver
  <2> DEFINE v == [agRun[r] EXCEPT !.pc = "over", !.todos = NoTodos]
  <2>2. agRun' = [agRun EXCEPT ![r] = v]
    BY <2>1 DEF AgTypeInvariant, AgRun
  <2>3. v \in AgRun
    BY <1>1, RunIsSet DEF AgTypeInvariant
  <2>4. agRun' \in [AgRuns -> AgRun]
    BY <2>2, <2>3 DEF AgTypeInvariant
  <2>5. /\ storedTodos' \in [AgSessions -> Todos] /\ heldTodos' \in [AgSessions -> Todos]
        /\ mingled' \subseteq AgSessions
    BY <1>2, <1>10 DEF AgEnds, AgThrows, Stores, AgTypeInvariant
  <2>6. UNCHANGED <<perRun, todosRef, loopDetector, wroteTodos>>
    BY <1>10 DEF AgEnds, AgThrows
  <2> QED
    BY <2>4, <2>5, <2>6 DEF AgTypeInvariant
<1>11. CASE UNCHANGED agVars
  BY <1>11 DEF agVars, AgTypeInvariant
<1> QED
  BY <1>4, <1>5, <1>6, <1>7, <1>8, <1>9, <1>10, <1>11 DEF AgNext

\* The parent of an active subagent is at its tools.
LEMMA WaitsAtTools ==
    ASSUME AgIInv, NEW r \in AgRuns, Waits(r)
    PROVE  agRun[r].pc = "tooling"
<1>1. PICK c \in AgRuns : agRun[c].parent = r /\ Active(c)
  BY DEF Waits
<1>2. IsSub(c) /\ Family(c)
  BY <1>1 DEF IsSub, AgIInv
<1> QED
  BY <1>1, <1>2 DEF Family

\* A step of an active run that stays so: it waits for no other, and changes nothing that
\* belongs to other agents and sessions.
LEMMA AgWithin ==
    ASSUME AgIInv, AgTypeInvariant', NEW r \in AgRuns, Active(r), ~Waits(r),
           agRun'[r].pc \in {"thinking", "tooling", "saving"},
           agRun'[r].agent = agRun[r].agent, agRun'[r].session = agRun[r].session,
           agRun'[r].parent = agRun[r].parent,
           \A q \in AgRuns : q # r => agRun'[q] = agRun[q],
           \A a \in AgRuns : a # agRun[r].agent => todosRef'[a] = todosRef[a],
           \A s \in AgSessions : s # agRun[r].session =>
               /\ storedTodos'[s] = storedTodos[s] /\ wroteTodos'[s] = wroteTodos[s]
               /\ heldTodos'[s] = heldTodos[s],
           perRun' = perRun, mingled \subseteq mingled',
           ListsAgree(r)'
    PROVE  AgIInv'
<1>1. \A q \in AgRuns : /\ Active(q)' <=> Active(q)
                        /\ IsSub(q)' <=> IsSub(q)
                        /\ agRun'[q].agent = agRun[q].agent /\ agRun'[q].session = agRun[q].session
                        /\ agRun'[q].parent = agRun[q].parent
  BY DEF Active, IsSub
<1>2. \A q \in AgRuns : Waits(q)' <=> Waits(q)
  BY <1>1 DEF Waits
<1>3. ASSUME NEW q \in AgRuns PROVE Family(q)'
  <2>1. Family(q)
    BY DEF AgIInv
  <2>2. ASSUME Active(q)', IsSub(q)' PROVE agRun'[agRun[q].parent] = agRun[agRun[q].parent]
    <3>1. agRun[q].parent \in AgRuns
      BY <1>1, <2>2 DEF AgIInv, AgTypeInvariant, AgRun, IsSub
    <3>2. Waits(agRun[q].parent)
      BY <1>1, <2>2 DEF Waits
    <3> QED
      BY <3>1, <3>2
  <2>3. agRun'[q].pc = "new" => agRun[q].pc = "new" /\ agRun'[q] = agRun[q]
    OBVIOUS
  <2> QED
    BY <1>1, <2>1, <2>2, <2>3 DEF Family
<1>4. ASSUME NEW p \in AgRuns, NEW q \in AgRuns PROVE OwnAgent(p, q)'
  <2>1. OwnAgent(p, q)
    BY DEF AgIInv
  <2> QED
    BY <1>1, <1>2, <2>1 DEF OwnAgent
<1>5. ASSUME NEW q \in AgRuns PROVE ListsAgree(q)'
  <2>1. ListsAgree(q) /\ OwnAgent(q, r)
    BY DEF AgIInv
  <2>2. /\ agRun[q].agent \in AgRuns /\ agRun[q].session \in AgSessions
        /\ agRun[r].agent \in AgRuns /\ agRun[r].session \in AgSessions
    BY DEF AgIInv, AgTypeInvariant, AgRun
  <2>3. CASE q = r
    BY <2>3
  <2> SUFFICES ASSUME q # r, Active(q), agRun[q].session \notin mingled' PROVE ListsAgree(q)'
    BY <1>1, <2>3 DEF ListsAgree
  <2>4. agRun'[q] = agRun[q] /\ agRun[q].session \notin mingled
    OBVIOUS
  <2>5. CASE agRun[q].session = agRun[r].session
    <3>1. agRun[q].agent = agRun[r].agent /\ Waits(q)
      BY <2>1, <2>4, <2>5 DEF OwnAgent
    <3>2. agRun'[q].pc = "tooling"
      BY <2>4, <3>1, WaitsAtTools
    <3>3. SameList(todosRef'[agRun[r].agent], wroteTodos'[agRun[r].session])
      BY <1>1, <2>5 DEF ListsAgree
    <3> QED
      BY <2>4, <2>5, <3>1, <3>2, <3>3 DEF ListsAgree
  <2>6. CASE agRun[q].session # agRun[r].session
    <3>1. agRun[q].agent # agRun[r].agent
      BY <2>1, <2>4, <2>6 DEF OwnAgent
    <3>2. /\ todosRef'[agRun[q].agent] = todosRef[agRun[q].agent]
          /\ wroteTodos'[agRun[q].session] = wroteTodos[agRun[q].session]
      BY <2>2, <2>6, <3>1
    <3> QED
      BY <1>1, <2>1, <2>4, <3>2 DEF ListsAgree
  <2> QED
    BY <2>5, <2>6
<1>6. ASSUME NEW s \in AgSessions PROVE RestsInStore(s)'
  <2>1. RestsInStore(s)
    BY DEF AgIInv
  <2>2. CASE s = agRun[r].session
    BY <1>1, <2>2 DEF RestsInStore
  <2>3. CASE s # agRun[r].session
    BY <1>1, <2>1, <2>3 DEF RestsInStore
  <2> QED
    BY <2>2, <2>3
<1> QED
  BY <1>3, <1>4, <1>5, <1>6 DEF AgIInv

\* What a step of the run itself leaves alone.
LEMMA AgActs ==
    ASSUME AgIInv, NEW r \in AgRuns, NEW pc, Goes(r, pc)
    PROVE  /\ agRun'[r].pc = pc
           /\ agRun'[r].agent = agRun[r].agent /\ agRun'[r].session = agRun[r].session
           /\ agRun'[r].parent = agRun[r].parent /\ agRun'[r].todos = agRun[r].todos
           /\ \A q \in AgRuns : q # r => agRun'[q] = agRun[q]
BY DEF AgIInv, AgTypeInvariant, AgRun, Goes

LEMMA AgRestoresInv ==
    ASSUME AgIInv, AgTypeInvariant', NEW r \in AgRuns, AgRestores(r)
    PROVE  AgIInv'
<1> DEFINE a == agRun[r].agent
           s == agRun[r].session
<1>1. /\ agRun[r].pc = "primed" /\ Goes(r, "thinking")
      /\ todosRef' = [todosRef EXCEPT ![a] = RestoredTodos(a, agRun[r].todos)]
      /\ mingled' = IF agRun[r].todos = NoTodos /\ todosRef[a] # EmptyTodos /\ ~IsSub(r)
                    THEN mingled \cup {s} ELSE mingled
      /\ UNCHANGED <<perRun, storedTodos, heldTodos, wroteTodos>>
  BY DEF AgRestores
<1>2. Active(r) /\ ~Waits(r) /\ ListsAgree(r)
  BY <1>1, WaitsAtTools DEF Active, AgIInv
<1>3. a \in AgRuns /\ todosRef \in [AgRuns -> Todos]
  BY DEF AgIInv, AgTypeInvariant, AgRun
<1>4. /\ agRun'[r].pc = "thinking" /\ agRun'[r].agent = a /\ agRun'[r].session = s
      /\ agRun'[r].parent = agRun[r].parent /\ agRun'[r].todos = agRun[r].todos
      /\ \A q \in AgRuns : q # r => agRun'[q] = agRun[q]
  BY <1>1, AgActs
<1>5. ListsAgree(r)'
  <2> SUFFICES ASSUME s \notin mingled' PROVE ListsAgree(r)'
    BY <1>4 DEF ListsAgree
  <2>1. s \notin mingled
    BY <1>1
  <2>2. todosRef'[a] = IF agRun[r].todos # NoTodos THEN agRun[r].todos ELSE todosRef[a]
    BY <1>1, <1>3 DEF RestoredTodos
  <2>3. IsSub(r)' <=> IsSub(r)
    BY <1>4 DEF IsSub
  <2>4. CASE IsSub(r)
    <3>1. todosRef'[a] = todosRef[a] /\ SameList(todosRef[a], wroteTodos[s])
      BY <1>1, <1>2, <2>1, <2>2, <2>4 DEF ListsAgree
    <3> QED
      BY <1>1, <1>4, <2>3, <2>4, <3>1 DEF ListsAgree
  <2>5. CASE ~IsSub(r)
    <3>1. SameList(agRun[r].todos, wroteTodos[s])
      BY <1>1, <1>2, <2>1, <2>5 DEF ListsAgree
    <3>2. agRun[r].todos = NoTodos => todosRef[a] = EmptyTodos
      BY <1>1, <2>5
    <3>3. SameList(todosRef'[a], wroteTodos[s])
      BY <2>2, <3>1, <3>2 DEF SameList
    <3> QED
      BY <1>1, <1>4, <2>3, <3>1, <3>3 DEF ListsAgree
  <2> QED
    BY <2>4, <2>5
<1>6. \A b \in AgRuns : b # a => todosRef'[b] = todosRef[b]
  BY <1>1, <1>3
<1>7. mingled \subseteq mingled'
  BY <1>1
<1> QED
  BY <1>1, <1>2, <1>4, <1>5, <1>6, <1>7, AgWithin

LEMMA AgWritesInv ==
    ASSUME AgIInv, AgTypeInvariant', NEW r \in AgRuns, AgWrites(r)
    PROVE  AgIInv'
<1> DEFINE a == agRun[r].agent
           s == agRun[r].session
<1>1. PICK todos \in {EmptyTodos, TodosOf(r)} :
          /\ todosRef' = [todosRef EXCEPT ![a] = todos]
          /\ wroteTodos' = [wroteTodos EXCEPT ![s] = todos]
  BY DEF AgWrites
<1>2. /\ agRun[r].pc \in {"thinking", "tooling"} /\ ~Waits(r) /\ Goes(r, "tooling")
      /\ mingled' = IF IsSub(r) THEN mingled \cup {s} ELSE mingled
      /\ UNCHANGED <<perRun, storedTodos, heldTodos>>
  BY DEF AgWrites
<1>3. /\ a \in AgRuns /\ todosRef \in [AgRuns -> Todos]
      /\ s \in AgSessions /\ wroteTodos \in [AgSessions -> Todos]
  BY DEF AgIInv, AgTypeInvariant, AgRun
<1>4. /\ agRun'[r].pc = "tooling" /\ agRun'[r].agent = a /\ agRun'[r].session = s
      /\ agRun'[r].parent = agRun[r].parent /\ agRun'[r].todos = agRun[r].todos
      /\ \A q \in AgRuns : q # r => agRun'[q] = agRun[q]
  BY <1>2, AgActs
<1>5. Active(r)
  BY <1>2 DEF Active
<1>6. /\ \A b \in AgRuns : b # a => todosRef'[b] = todosRef[b]
      /\ \A t \in AgSessions : t # s => wroteTodos'[t] = wroteTodos[t]
      /\ todosRef'[a] = todos /\ wroteTodos'[s] = todos
  BY <1>1, <1>3
<1>7. ListsAgree(r)'
  BY <1>4, <1>6 DEF ListsAgree, SameList
<1>8. mingled \subseteq mingled'
  BY <1>2
<1> QED
  BY <1>2, <1>4, <1>5, <1>6, <1>7, <1>8, AgWithin

LEMMA AgSyncsInv ==
    ASSUME AgIInv, AgTypeInvariant', NEW r \in AgRuns, AgSyncs(r)
    PROVE  AgIInv'
<1> DEFINE a == agRun[r].agent
           s == agRun[r].session
<1>1. /\ agRun[r].pc \in {"thinking", "tooling"} /\ ~Waits(r)
      /\ agRun' = [agRun EXCEPT ![r].pc = "saving", ![r].todos = todosRef[a]]
      /\ UNCHANGED <<perRun, todosRef, storedTodos, heldTodos, wroteTodos, mingled>>
  BY DEF AgSyncs
<1>2. /\ agRun'[r].pc = "saving" /\ agRun'[r].agent = a /\ agRun'[r].session = s
      /\ agRun'[r].parent = agRun[r].parent /\ agRun'[r].todos = todosRef[a]
      /\ \A q \in AgRuns : q # r => agRun'[q] = agRun[q]
  BY <1>1 DEF AgIInv, AgTypeInvariant, AgRun
<1>3. Active(r) /\ ListsAgree(r)
  BY <1>1 DEF Active, AgIInv
<1>4. ListsAgree(r)'
  BY <1>1, <1>2, <1>3 DEF ListsAgree
<1> QED
  BY <1>1, <1>2, <1>3, <1>4, AgWithin

LEMMA AgSavesInv ==
    ASSUME AgIInv, AgTypeInvariant', NEW r \in AgRuns, NEW ok \in BOOLEAN, AgSaves(r, ok)
    PROVE  AgIInv'
<1> DEFINE a == agRun[r].agent
           s == agRun[r].session
<1>1. /\ agRun[r].pc = "saving" /\ Goes(r, "thinking") /\ Stores(r, ok)
      /\ todosRef' = [todosRef EXCEPT ![a] = IF @ = EmptyTodos THEN agRun[r].todos ELSE @]
      /\ UNCHANGED <<perRun, heldTodos, wroteTodos, mingled>>
  BY DEF AgSaves
<1>2. /\ a \in AgRuns /\ todosRef \in [AgRuns -> Todos]
      /\ s \in AgSessions /\ storedTodos \in [AgSessions -> Todos]
  BY DEF AgIInv, AgTypeInvariant, AgRun
<1>3. Active(r) /\ ~Waits(r) /\ ListsAgree(r)
  BY <1>1, WaitsAtTools DEF Active, AgIInv
<1>4. /\ agRun'[r].pc = "thinking" /\ agRun'[r].agent = a /\ agRun'[r].session = s
      /\ agRun'[r].parent = agRun[r].parent /\ agRun'[r].todos = agRun[r].todos
      /\ \A q \in AgRuns : q # r => agRun'[q] = agRun[q]
  BY <1>1, AgActs
<1>5. /\ todosRef'[a] \in {todosRef[a], agRun[r].todos}
      /\ \A b \in AgRuns : b # a => todosRef'[b] = todosRef[b]
  BY <1>1, <1>2
<1>6. \A t \in AgSessions : t # s => storedTodos'[t] = storedTodos[t]
  BY <1>1, <1>2 DEF Stores
<1>7. ListsAgree(r)'
  BY <1>1, <1>3, <1>4, <1>5 DEF ListsAgree
<1> QED
  BY <1>1, <1>3, <1>4, <1>5, <1>6, <1>7, AgWithin

LEMMA AgStartsInv ==
    ASSUME AgIInv, AgTypeInvariant', NEW r \in AgRuns, NEW s \in AgSessions, AgStarts(r, s)
    PROVE  AgIInv'
<1> DEFINE agent == IF perRun THEN r ELSE TheAgent
           todos == IF perRun THEN storedTodos[s] ELSE heldTodos[s]
           met == {q \in AgRuns : Active(q) /\ (agRun[q].agent = agent \/ agRun[q].session = s)}
<1>1. /\ agRun[r].pc = "new"
      /\ agRun' = [agRun EXCEPT ![r].pc = "primed", ![r].agent = agent, ![r].session = s,
                                ![r].todos = todos]
      /\ mingled' = mingled \cup {agRun[q].session : q \in met} \cup (IF met # {} THEN {s} ELSE {})
      /\ UNCHANGED <<perRun, todosRef, storedTodos, heldTodos, wroteTodos>>
  BY DEF AgStarts
<1>2. /\ \A q \in met : agRun[q].session \in mingled' /\ s \in mingled'
      /\ mingled \subseteq mingled'
  BY <1>1
<1>3. \A q \in AgRuns : Active(q) /\ (agRun[q].agent = agent \/ agRun[q].session = s) => q \in met
  OBVIOUS
<1>4. \A q \in met : q \in AgRuns /\ Active(q)
  OBVIOUS
<1> HIDE DEF met
<1>5. /\ agRun'[r].pc = "primed" /\ agRun'[r].agent = agent /\ agRun'[r].session = s
      /\ agRun'[r].parent = agRun[r].parent /\ agRun'[r].todos = todos
      /\ \A q \in AgRuns : q # r => agRun'[q] = agRun[q]
  BY <1>1 DEF AgIInv, AgTypeInvariant, AgRun
<1> HIDE DEF agent
<1>6. ~Active(r) /\ ~IsSub(r) /\ Active(r)' /\ ~IsSub(r)'
  BY <1>1, <1>5 DEF Active, IsSub, AgIInv, Family
<1>7. \A q \in AgRuns : q # r => (Active(q)' <=> Active(q)) /\ (IsSub(q)' <=> IsSub(q))
  BY <1>5 DEF Active, IsSub
<1>8. \A q \in AgRuns : Waits(q)' <=> Waits(q)
  BY <1>5, <1>6, <1>7 DEF Waits, IsSub
<1>9. ASSUME NEW q \in AgRuns PROVE Family(q)'
  <2>1. Family(q)
    BY DEF AgIInv
  <2>2. CASE q = r
    BY <1>5, <1>6, <2>2 DEF Family
  <2>3. CASE q # r
    <3>1. ASSUME Active(q), IsSub(q) PROVE agRun'[agRun[q].parent] = agRun[agRun[q].parent]
      <4>1. agRun[q].parent \in AgRuns
        BY <3>1 DEF AgIInv, AgTypeInvariant, AgRun, IsSub
      <4>2. agRun[q].parent # r
        BY <1>1, <2>1, <3>1 DEF Family
      <4> QED
        BY <1>5, <4>1, <4>2
    <3> QED
      BY <1>5, <1>7, <2>1, <2>3, <3>1 DEF Family
  <2> QED
    BY <2>2, <2>3
<1>10. ASSUME NEW p \in AgRuns, NEW q \in AgRuns PROVE OwnAgent(p, q)'
  <2> SUFFICES ASSUME Active(p)', Active(q)', agRun'[p].session \notin mingled' PROVE OwnAgent(p, q)'
    BY DEF OwnAgent
  <2>1. CASE p # r /\ q # r
    <3>1. OwnAgent(p, q)
      BY DEF AgIInv
    <3> QED
      BY <1>2, <1>5, <1>7, <1>8, <2>1, <3>1 DEF OwnAgent
  <2>2. CASE p = r /\ q # r
    <3>1. q \notin met
      BY <1>2, <1>5, <2>2
    <3> QED
      BY <1>3, <1>5, <1>7, <2>2, <3>1 DEF OwnAgent
  <2>3. CASE p # r /\ q = r
    <3>1. p \notin met
      BY <1>2, <1>5, <2>3
    <3> QED
      BY <1>3, <1>5, <1>7, <2>3, <3>1 DEF OwnAgent
  <2>4. CASE p = r /\ q = r
    BY <2>4 DEF OwnAgent
  <2> QED
    BY <2>1, <2>2, <2>3, <2>4
<1>11. ASSUME NEW q \in AgRuns PROVE ListsAgree(q)'
  <2>1. CASE q # r
    <3>1. ListsAgree(q)
      BY DEF AgIInv
    <3> QED
      BY <1>1, <1>2, <1>5, <1>7, <2>1, <3>1 DEF ListsAgree
  <2>2. CASE q = r
    <3> SUFFICES ASSUME s \notin mingled' PROVE SameList(todos, wroteTodos[s])
      BY <1>1, <1>5, <1>6, <2>2 DEF ListsAgree
    <3>1. \A p \in AgRuns : Active(p) => agRun[p].session # s
      BY <1>2, <1>3
    <3>2. RestsInStore(s)
      BY DEF AgIInv
    <3> QED
      BY <1>2, <3>1, <3>2 DEF RestsInStore
  <2> QED
    BY <2>1, <2>2
<1>12. ASSUME NEW t \in AgSessions PROVE RestsInStore(t)'
  <2>1. CASE t = s
    BY <1>5, <1>6, <2>1 DEF RestsInStore
  <2>2. CASE t # s
    <3>1. RestsInStore(t)
      BY DEF AgIInv
    <3> QED
      BY <1>1, <1>2, <1>5, <1>6, <1>7, <2>2, <3>1 DEF RestsInStore
  <2> QED
    BY <2>1, <2>2
<1> QED
  BY <1>9, <1>10, <1>11, <1>12 DEF AgIInv

LEMMA AgSpawnsInv ==
    ASSUME AgIInv, AgTypeInvariant', NEW r \in AgRuns, NEW c \in AgRuns, AgSpawns(r, c)
    PROVE  AgIInv'
<1>1. /\ agRun[r].pc \in {"thinking", "tooling"} /\ ~Waits(r)
      /\ agRun[c].pc = "new" /\ c # r
      /\ agRun' = [agRun EXCEPT ![r].pc = "tooling", ![c].pc = "primed",
                                ![c].agent = agRun[r].agent, ![c].session = agRun[r].session,
                                ![c].parent = r]
      /\ UNCHANGED <<perRun, todosRef, storedTodos, heldTodos, wroteTodos, mingled>>
  BY DEF AgSpawns
<1>2. /\ agRun'[r].pc = "tooling" /\ agRun'[r].agent = agRun[r].agent
      /\ agRun'[r].session = agRun[r].session /\ agRun'[r].parent = agRun[r].parent
      /\ agRun'[r].todos = agRun[r].todos
      /\ agRun'[c].pc = "primed" /\ agRun'[c].agent = agRun[r].agent
      /\ agRun'[c].session = agRun[r].session /\ agRun'[c].parent = r
      /\ agRun'[c].todos = agRun[c].todos
      /\ \A q \in AgRuns : q # r /\ q # c => agRun'[q] = agRun[q]
  BY <1>1 DEF AgIInv, AgTypeInvariant, AgRun
<1>3. agRun[c].todos = NoTodos /\ ~IsSub(c) /\ ~Active(c) /\ Active(r)
  BY <1>1 DEF AgIInv, Family, Active
<1>4. Active(c)' /\ Active(r)' /\ IsSub(c)' /\ (IsSub(r)' <=> IsSub(r)) /\ Waits(r)'
  BY <1>2, SharedAgentAssumption DEF Active, IsSub, Waits
<1>5. \A q \in AgRuns : q # c => (Active(q)' <=> Active(q)) /\ (IsSub(q)' <=> IsSub(q))
  BY <1>2, <1>3, <1>4 DEF Active, IsSub
<1>6. \A q \in AgRuns : Waits(q) => Waits(q)'
  BY <1>2, <1>3, <1>5 DEF Waits
<1>7. ASSUME NEW q \in AgRuns PROVE Family(q)'
  <2>1. Family(q)
    BY DEF AgIInv
  <2>2. CASE q = c
    BY <1>2, <2>2 DEF Family
  <2>3. CASE q # c
    <3>1. ASSUME Active(q), IsSub(q) PROVE agRun'[agRun[q].parent] = agRun[agRun[q].parent]
      <4>1. agRun[q].parent \in AgRuns
        BY <3>1 DEF AgIInv, AgTypeInvariant, AgRun, IsSub
      <4>2. agRun[q].parent # c
        BY <1>1, <2>1, <3>1 DEF Family
      <4>3. agRun[q].parent # r
        BY <1>1, <3>1 DEF Waits
      <4> QED
        BY <1>2, <4>1, <4>2, <4>3
    <3>2. /\ agRun'[q].pc = "new" => agRun[q].pc = "new" /\ agRun'[q].todos = agRun[q].todos
          /\ agRun'[q].parent = agRun[q].parent /\ agRun'[q].session = agRun[q].session
          /\ agRun'[q].agent = agRun[q].agent
      BY <1>2, <2>3
    <3> QED
      BY <1>5, <2>1, <2>3, <3>1, <3>2 DEF Family
  <2> QED
    BY <2>2, <2>3
<1>8. ASSUME NEW p \in AgRuns, NEW q \in AgRuns PROVE OwnAgent(p, q)'
  <2> SUFFICES ASSUME Active(p)', Active(q)', agRun'[p].session \notin mingled' PROVE OwnAgent(p, q)'
    BY DEF OwnAgent
  <2>1. OwnAgent(p, q) /\ OwnAgent(r, q) /\ OwnAgent(p, r)
    BY DEF AgIInv
  <2>2. \A o \in AgRuns : o # c => /\ agRun'[o].agent = agRun[o].agent
                                   /\ agRun'[o].session = agRun[o].session
    BY <1>2
  <2>3. mingled' = mingled
    BY <1>1
  <2>4. CASE p # c /\ q # c
    <3>1. /\ agRun'[p].agent = agRun[p].agent /\ agRun'[p].session = agRun[p].session
          /\ agRun'[q].agent = agRun[q].agent /\ agRun'[q].session = agRun[q].session
      BY <2>2, <2>4
    <3>2. Active(p) /\ Active(q) /\ agRun[p].session \notin mingled
      BY <1>5, <2>4, <2>3, <3>1
    <3> QED
      BY <1>5, <1>6, <2>1, <2>4, <3>1, <3>2 DEF OwnAgent
  <2>5. CASE p = c /\ q # c
    <3>1. Active(r) /\ Active(q) /\ agRun[r].session \notin mingled
      BY <1>1, <1>2, <1>3, <1>5, <2>5
    <3>2. /\ agRun[r].agent = agRun[q].agent <=> agRun[r].session = agRun[q].session
          /\ agRun[r].session = agRun[q].session => Waits(q) \/ q = r
      BY <1>1, <2>1, <3>1 DEF OwnAgent
    <3> QED
      BY <1>2, <1>4, <1>6, <2>2, <2>5, <3>2 DEF OwnAgent
  <2>6. CASE p # c /\ q = c
    <3>1. Active(r) /\ Active(p) /\ agRun[p].session \notin mingled
      <4>1. agRun'[p].session = agRun[p].session
        BY <2>2, <2>6
      <4> QED
        BY <1>3, <1>5, <2>6, <2>3, <4>1
    <3>2. /\ agRun[p].agent = agRun[r].agent <=> agRun[p].session = agRun[r].session
          /\ agRun[p].session = agRun[r].session => Waits(p) \/ p = r
      BY <1>1, <2>1, <3>1 DEF OwnAgent
    <3> QED
      BY <1>2, <1>4, <1>6, <2>2, <2>6, <3>2 DEF OwnAgent
  <2>7. CASE p = c /\ q = c
    BY <2>7 DEF OwnAgent
  <2> QED
    BY <2>4, <2>5, <2>6, <2>7
<1>9. ASSUME NEW q \in AgRuns PROVE ListsAgree(q)'
  <2>1. ListsAgree(q) /\ ListsAgree(r)
    BY DEF AgIInv
  <2>2. CASE q = c
    BY <1>1, <1>2, <1>3, <1>4, <2>1, <2>2 DEF ListsAgree
  <2>3. CASE q = r
    BY <1>1, <1>2, <1>3, <2>1, <2>3 DEF ListsAgree
  <2>4. CASE q # c /\ q # r
    <3>1. agRun'[q] = agRun[q] /\ (Active(q)' <=> Active(q)) /\ (IsSub(q)' <=> IsSub(q))
      BY <1>2, <1>5, <2>4
    <3>2. UNCHANGED <<todosRef, wroteTodos, mingled>>
      BY <1>1
    <3> QED
      BY <2>1, <3>1, <3>2 DEF ListsAgree
  <2> QED
    BY <2>2, <2>3, <2>4
<1>10. ASSUME NEW t \in AgSessions PROVE RestsInStore(t)'
  <2>1. CASE t = agRun[r].session
    BY <1>2, <1>4, <2>1 DEF RestsInStore
  <2>2. CASE t # agRun[r].session
    <3>1. RestsInStore(t)
      BY DEF AgIInv
    <3> QED
      BY <1>1, <1>2, <1>3, <1>5, <2>2, <3>1 DEF RestsInStore
  <2> QED
    BY <2>1, <2>2
<1> QED
  BY <1>7, <1>8, <1>9, <1>10 DEF AgIInv

LEMMA AgOverInv ==
    ASSUME AgIInv, AgTypeInvariant', NEW r \in AgRuns, NEW ok \in BOOLEAN,
           AgEnds(r, ok) \/ AgThrows(r, ok)
    PROVE  AgIInv'
<1> DEFINE s == agRun[r].session
<1>1. /\ agRun[r].pc = "thinking" /\ Stores(r, ok)
      /\ agRun' = [agRun EXCEPT ![r].pc = "over", ![r].todos = NoTodos]
      /\ UNCHANGED <<perRun, todosRef, wroteTodos>> /\ mingled \subseteq mingled'
  BY DEF AgEnds, AgThrows, AgOver
<1>2. /\ agRun'[r].pc = "over"
      /\ \A q \in AgRuns : q # r => agRun'[q] = agRun[q]
      /\ \A q \in AgRuns : agRun'[q].parent = agRun[q].parent
  BY <1>1 DEF AgIInv, AgTypeInvariant, AgRun
<1>3. Active(r) /\ ~Active(r)' /\ ~Waits(r) /\ ListsAgree(r) /\ Family(r)
  BY <1>1, <1>2, WaitsAtTools DEF Active, AgIInv
<1>4. \A q \in AgRuns : q # r => (Active(q)' <=> Active(q)) /\ (IsSub(q)' <=> IsSub(q))
  BY <1>2 DEF Active, IsSub
<1>5. \A q \in AgRuns : Waits(q) /\ q # agRun[r].parent => Waits(q)'
  BY <1>2, <1>4 DEF Waits
<1>6. s \in AgSessions /\ storedTodos \in [AgSessions -> Todos] /\ heldTodos \in [AgSessions -> Todos]
  BY DEF AgIInv, AgTypeInvariant, AgRun
<1>7. ASSUME NEW q \in AgRuns PROVE Family(q)'
  <2>1. Family(q)
    BY DEF AgIInv
  <2>2. CASE q = r
    BY <1>2, <1>3, <2>2 DEF Family
  <2>3. CASE q # r
    <3>1. ASSUME Active(q), IsSub(q) PROVE agRun'[agRun[q].parent] = agRun[agRun[q].parent]
      <4>1. agRun[q].parent \in AgRuns
        BY <3>1 DEF AgIInv, AgTypeInvariant, AgRun, IsSub
      <4>2. agRun[q].parent # r
        BY <1>3, <3>1 DEF Waits
      <4> QED
        BY <1>2, <4>1, <4>2
    <3> QED
      BY <1>2, <1>4, <2>1, <2>3, <3>1 DEF Family
  <2> QED
    BY <2>2, <2>3
<1>8. ASSUME NEW p \in AgRuns, NEW q \in AgRuns PROVE OwnAgent(p, q)'
  <2> SUFFICES ASSUME Active(p)', Active(q)', agRun'[p].session \notin mingled' PROVE OwnAgent(p, q)'
    BY DEF OwnAgent
  <2>1. OwnAgent(p, q) /\ OwnAgent(p, r) /\ OwnAgent(q, r)
    BY DEF AgIInv
  <2>2. p # r /\ q # r
    BY <1>3
  <2>3. /\ agRun'[p] = agRun[p] /\ agRun'[q] = agRun[q] /\ Active(p) /\ Active(q)
        /\ agRun[p].session \notin mingled
    BY <1>1, <1>2, <1>4, <2>2
  <2>4. ASSUME agRun[p].session = agRun[q].session PROVE Waits(p)' \/ Waits(q)' \/ p = q
    <3>1. CASE agRun[r].session = agRun[p].session
      <4>1. Waits(p) /\ Waits(q)
        BY <1>3, <2>1, <2>2, <2>3, <2>4, <3>1 DEF OwnAgent
      <4> QED
        BY <1>5, <4>1
    <3>2. CASE agRun[r].session # agRun[p].session
      <4>1. agRun[r].parent # p /\ agRun[r].parent # q
        BY <1>3, <2>4, <3>2, SharedAgentAssumption DEF Family, IsSub
      <4> QED
        BY <1>5, <2>1, <2>3, <2>4, <4>1 DEF OwnAgent
    <3> QED
      BY <3>1, <3>2
  <2> QED
    BY <1>4, <2>1, <2>2, <2>3, <2>4 DEF OwnAgent
<1>9. ASSUME NEW q \in AgRuns PROVE ListsAgree(q)'
  <2>1. CASE q = r
    BY <1>3, <2>1 DEF ListsAgree
  <2>2. CASE q # r
    <3>1. ListsAgree(q)
      BY DEF AgIInv
    <3> QED
      BY <1>1, <1>2, <1>4, <2>2, <3>1 DEF ListsAgree
  <2> QED
    BY <2>1, <2>2
<1>10. ASSUME NEW t \in AgSessions PROVE RestsInStore(t)'
  <2>1. RestsInStore(t)
    BY DEF AgIInv
  <2>2. CASE t # s
    <3>1. storedTodos'[t] = storedTodos[t] /\ heldTodos'[t] = heldTodos[t]
      BY <1>6, <2>2 DEF AgEnds, AgThrows, Stores
    <3> QED
      BY <1>1, <1>2, <1>3, <1>4, <2>1, <2>2, <3>1 DEF RestsInStore
  <2>3. CASE t = s
    <3> SUFFICES ASSUME s \notin mingled', \A q \in AgRuns : Active(q)' => agRun'[q].session # s
                 PROVE  /\ SameList(storedTodos'[s], wroteTodos'[s])
                        /\ perRun' \/ SameList(heldTodos'[s], wroteTodos'[s])
      BY <2>3 DEF RestsInStore
    <3>1. ~IsSub(r)
      <4> SUFFICES ASSUME IsSub(r) PROVE FALSE
        OBVIOUS
      <4> DEFINE p == agRun[r].parent
      <4>1. p \in AgRuns
        BY DEF AgIInv, AgTypeInvariant, AgRun, IsSub
      <4>2. agRun[p].pc = "tooling" /\ agRun[p].session = s
        BY <1>3 DEF Family
      <4>3. p # r /\ Active(p)
        BY <1>1, <4>2 DEF Active
      <4> QED
        BY <1>2, <1>4, <4>1, <4>2, <4>3
    <3>2. SameList(agRun[r].todos, wroteTodos[s])
      BY <1>1, <1>3, <3>1 DEF ListsAgree
    <3>3. ok /\ storedTodos'[s] = agRun[r].todos
      BY <1>6, <3>1 DEF AgEnds, AgThrows, Stores
    <3>4. perRun \/ heldTodos'[s] = agRun[r].todos
      BY <1>6, <3>1, <3>3 DEF AgEnds, AgThrows
    <3> QED
      BY <1>1, <3>2, <3>3, <3>4
  <2> QED
    BY <2>2, <2>3
<1> QED
  BY <1>7, <1>8, <1>9, <1>10 DEF AgIInv

\* The todo list of a session is not lost, however many runs, agents and subagents use it one
\* after the other: between its runs the store has the list that a run wrote last, unless two
\* of them shared an agent or a save has failed (factory.ts, loop.ts).
THEOREM SharedAgentKeepsTodos == AgSpec => []TodosAreKept
<1>1. ASSUME AgIInv, [AgNext]_agVars PROVE AgIInv'
  <2>1. AgTypeInvariant'
    BY <1>1, AgTypeInv DEF AgIInv
  <2>2. CASE UNCHANGED agVars
    BY <1>1, <2>1, <2>2 DEF agVars, AgIInv, Family, OwnAgent, ListsAgree, RestsInStore, Active, IsSub, Waits
  <2> QED
    BY <1>1, <2>1, <2>2, AgStartsInv, AgRestoresInv, AgWritesInv, AgSpawnsInv, AgSyncsInv,
       AgSavesInv, AgOverInv DEF AgNext
<1>2. AgIInv => TodosAreKept
  BY DEF AgIInv, RestsInStore, TodosAreKept
<1> QED
  BY <1>1, <1>2, AgInitInv, PTL DEF AgSpec

HIDE SharedAgentAssumption
-----------------------------------------------------------------------------
\* The pages of the session list.

\* The entry that a list has of a session.
EntryOf(s) == [id |-> s, time |-> updatedAt[s]]

\* A time is not ahead of the clock, and a session is not moved back; the sessions that were
\* left alone are listed as they are, and were not archived.
TimesArePast ==
    /\ \A s \in PgSessions : updatedAt[s] <= pgClock
    /\ \A e \in listing : e.time <= pgClock /\ (Stored(e.id) => e.time <= updatedAt[e.id])
    /\ \A e \in listing : e.id \notin touched => e = EntryOf(e.id)
    /\ archived \subseteq touched

\* One entry for each session, which the cursor has not passed and the page does not have yet;
\* between two requests there is neither a list nor a page.
OneEntryEach ==
    /\ \A e, f \in listing : e.id = f.id => e = f
    /\ \A e \in listing : IsAfterCursorDesc(e, cursor) /\ e.id \notin page.entries
    /\ walk # "waits" => listing = {} /\ page = NoPage
    /\ page.entries = {} => page = NoPage
    /\ page.entries # {} => page.last \in PgEntry /\ (skewed \/ IsAfterCursorDesc(page.last, cursor))

\* A session that was left alone and shares its time with no other.
Quiet(s) == s \notin touched \cup tied

\* Its entry is the only one of its time; behind it the list goes on with older ones.
Apart(s) ==
    /\ EntryOf(s) \in listing => \A f \in listing : f.id # s => f.time # updatedAt[s]
    /\ EntryOf(s) \in listing => page.last.time > updatedAt[s]
    /\ s \in page.entries => \A f \in listing : f.time < updatedAt[s]

\* It was shown, is about to be, or the cursor has yet to pass it.
Ahead(s) ==
    Stored(s) => \/ shown[s] > 0
                 \/ walk = "asks" /\ IsAfterCursorDesc(EntryOf(s), cursor)
                 \/ walk = "waits" /\ (s \in page.entries \/ EntryOf(s) \in listing)

\* Once it was shown the cursor has passed it.
Behind(s) ==
    \/ skewed
    \/ /\ shown[s] <= 1
       /\ shown[s] = 1 => s \notin page.entries
       /\ shown[s] = 1 /\ walk # "over" => ~IsAfterCursorDesc(EntryOf(s), cursor)
       /\ s \in page.entries => ~IsAfterCursorDesc(EntryOf(s), page.last)

PgIInv ==
    /\ PgTypeInvariant
    /\ TimesArePast
    /\ OneEntryEach
    /\ \A s \in PgSessions : Quiet(s) => Apart(s) /\ Ahead(s) /\ Behind(s)

USE PagesAssumption DEF PagesAssumption, PgAbsent, PgTime

LEMMA Numbers == /\ \A s \in PgSessions : s \in Nat /\ s \in Int
                 /\ \A t \in 0 .. MaxPgTime : t \in Nat /\ t \in Int
<1>1. PgSessions \subseteq Nat
  OBVIOUS
<1>2. \A t \in 0 .. MaxPgTime : t \in Nat /\ t \in Int
  OBVIOUS
<1> QED
  BY <1>1, <1>2

LEMMA PgInitInv == PgInit => PgIInv
<1> SUFFICES ASSUME PgInit PROVE PgIInv
  OBVIOUS
<1>1. /\ pgClock = 1 /\ updatedAt \in [PgSessions -> {-1, 0, 1}]
      /\ archived = {} /\ listing = {} /\ page = NoPage /\ cursor = NoCursor /\ walk = "asks"
      /\ shown = [s \in PgSessions |-> 0] /\ touched = {} /\ tied = {} /\ skewed = FALSE
  BY DEF PgInit, PgIdle
<1>2. NoPage \in [entries : SUBSET PgSessions, last : PgEntry \cup {NoCursor}]
  BY DEF NoPage
<1>3. PgTypeInvariant
  <2>1. pgClock \in PgTime /\ updatedAt \in [PgSessions -> PgTime \cup {-1}]
    BY <1>1
  <2>2. shown \in [PgSessions -> 0 .. 2]
    BY <1>1
  <2> QED
    BY <1>1, <1>2, <2>1, <2>2 DEF PgTypeInvariant
<1>4. TimesArePast
  BY <1>1 DEF TimesArePast
<1>5. page.entries = {}
  BY <1>1 DEF NoPage
<1>6. OneEntryEach
  BY <1>1, <1>5 DEF OneEntryEach
<1>7. ASSUME NEW s \in PgSessions PROVE Apart(s) /\ Ahead(s) /\ Behind(s)
  <2>1. IsAfterCursorDesc(EntryOf(s), cursor)
    BY <1>1 DEF IsAfterCursorDesc, EntryOf, NoCursor
  <2>2. shown[s] = 0
    BY <1>1
  <2> QED
    BY <1>1, <1>5, <2>1, <2>2 DEF Apart, Ahead, Behind
<1> QED
  BY <1>3, <1>4, <1>6, <1>7 DEF PgIInv

\* A session that is saved, archived or deleted is no longer one that was left alone, and
\* nothing changes for the others.
LEMMA PgTouchesInv ==
    ASSUME PgIInv, NEW s \in PgSessions, NEW t \in {pgClock, PgAbsent},
           updatedAt' = [updatedAt EXCEPT ![s] = t], Touched(s),
           archived' \subseteq archived \cup {s},
           UNCHANGED <<pgClock, listing, page, cursor, walk, skewed>>
    PROVE  PgIInv'
<1>1. /\ touched' = touched \cup {s} /\ shown' = [shown EXCEPT ![s] = 0] /\ tied' = tied \ {s}
  BY DEF Touched
<1> USE DEF PgIInv
<1>2. PgTypeInvariant'
  <2>1. updatedAt' \in [PgSessions -> PgTime \cup {PgAbsent}]
    BY DEF PgTypeInvariant
  <2>2. shown' \in [PgSessions -> 0 .. 2]
    BY <1>1 DEF PgTypeInvariant
  <2>3. archived' \subseteq PgSessions /\ touched' \subseteq PgSessions /\ tied' \subseteq PgSessions
    BY <1>1 DEF PgTypeInvariant
  <2>4. PgEntry' = PgEntry
    BY DEF PgEntry
  <2> QED
    BY <2>1, <2>2, <2>3, <2>4 DEF PgTypeInvariant
<1>3. /\ \A u \in PgSessions : u # s => updatedAt'[u] = updatedAt[u] /\ shown'[u] = shown[u]
      /\ updatedAt'[s] = t
  BY <1>1 DEF PgTypeInvariant
<1>4. pgClock \in Nat /\ \A e \in listing : e \in PgEntry /\ e.id \in PgSessions
  BY DEF PgTypeInvariant, PgEntry
<1>5. TimesArePast'
  <2>1. \A u \in PgSessions : updatedAt'[u] <= pgClock
    BY <1>3, <1>4 DEF TimesArePast
  <2>2. ASSUME NEW e \in listing PROVE e.time <= pgClock /\ (Stored(e.id)' => e.time <= updatedAt'[e.id])
    BY <1>3, <1>4 DEF TimesArePast, Stored
  <2>3. ASSUME NEW e \in listing, e.id \notin touched' PROVE e = EntryOf(e.id)'
    BY <1>1, <1>3, <1>4, <2>3 DEF TimesArePast, EntryOf
  <2> QED
    BY <1>1, <2>1, <2>2, <2>3 DEF TimesArePast
<1>6. OneEntryEach'
  BY DEF OneEntryEach, IsAfterCursorDesc, PgEntry
<1>7. ASSUME NEW u \in PgSessions, Quiet(u)' PROVE Apart(u)' /\ Ahead(u)' /\ Behind(u)'
  <2>1. u # s /\ Quiet(u)
    BY <1>1, <1>7 DEF Quiet
  <2>2. Apart(u) /\ Ahead(u) /\ Behind(u)
    BY <2>1
  <2>3. EntryOf(u)' = EntryOf(u) /\ (Stored(u)' <=> Stored(u)) /\ shown'[u] = shown[u]
        /\ updatedAt'[u] = updatedAt[u]
    BY <1>3, <2>1 DEF EntryOf, Stored
  <2> QED
    BY <2>2, <2>3 DEF Apart, Ahead, Behind, IsAfterCursorDesc
<1> QED
  BY <1>2, <1>5, <1>6, <1>7

LEMMA PgTickInv ==
    ASSUME PgIInv, PgTick
    PROVE  PgIInv'
<1>1. /\ pgClock' = pgClock + 1 /\ pgClock < MaxPgTime
      /\ UNCHANGED <<updatedAt, archived, listing, page, cursor, walk, shown, touched, tied, skewed>>
  BY DEF PgTick
<1>2. PgTypeInvariant'
  <2>1. pgClock' \in PgTime
    BY <1>1 DEF PgIInv, PgTypeInvariant
  <2> QED
    BY <1>1, <2>1 DEF PgIInv, PgTypeInvariant, PgEntry, NoCursor
<1>3. TimesArePast'
  <2>1. /\ pgClock \in Nat /\ \A s \in PgSessions : updatedAt[s] \in Int
        /\ \A e \in listing : e.time \in Int
    BY DEF PgIInv, PgTypeInvariant, PgEntry
  <2> QED
    BY <1>1, <2>1 DEF PgIInv, TimesArePast, Stored, EntryOf
<1>4. OneEntryEach'
  BY <1>1 DEF PgIInv, OneEntryEach, IsAfterCursorDesc, PgEntry
<1>5. \A s \in PgSessions : (Quiet(s) => Apart(s) /\ Ahead(s) /\ Behind(s))'
  BY <1>1 DEF PgIInv, Quiet, Apart, Ahead, Behind, EntryOf, Stored, IsAfterCursorDesc
<1> QED
  BY <1>2, <1>3, <1>4, <1>5 DEF PgIInv

LEMMA PgListedInv ==
    ASSUME PgIInv, PgListed
    PROVE  PgIInv'
<1> DEFINE there == {s \in PgSessions : Stored(s) /\ s \notin archived}
           entries == {[id |-> s, time |-> updatedAt[s]] : s \in there}
<1>1. /\ walk = "asks" /\ walk' = "waits"
      /\ listing' = {e \in entries : IsAfterCursorDesc(e, cursor)}
      /\ tied' = tied \cup {s \in PgSessions \ touched :
                            \E e, f \in entries : e.id = s /\ f.id # s /\ f.time = e.time}
      /\ UNCHANGED <<pgClock, updatedAt, archived, page, cursor, shown, touched, skewed>>
  BY DEF PgListed
<1>2. /\ \A e \in entries : e.id \in there /\ e = EntryOf(e.id)
      /\ \A s \in there : EntryOf(s) \in entries
  BY DEF EntryOf
<1>3. \A s \in there : s \in PgSessions /\ Stored(s) /\ s \notin archived
  OBVIOUS
<1>4. \A s \in PgSessions : Stored(s) /\ s \notin archived => s \in there
  OBVIOUS
<1> HIDE DEF there, entries
<1>5. \A s \in PgSessions : EntryOf(s).id = s /\ EntryOf(s).time = updatedAt[s] /\ EntryOf(s)' = EntryOf(s)
  BY <1>1 DEF EntryOf
<1>6. \A s \in PgSessions : Stored(s) => updatedAt[s] \in PgTime /\ EntryOf(s) \in PgEntry
  BY DEF PgIInv, PgTypeInvariant, Stored, EntryOf, PgEntry
<1>7. page = NoPage /\ page.entries = {} /\ page.last = NoCursor
  BY <1>1 DEF PgIInv, OneEntryEach, NoPage
<1>8. PgTypeInvariant'
  <2>1. listing' \subseteq PgEntry
    BY <1>1, <1>2, <1>3, <1>6
  <2>2. tied' \subseteq PgSessions
    BY <1>1 DEF PgIInv, PgTypeInvariant
  <2>3. PgEntry' = PgEntry
    BY DEF PgEntry
  <2> QED
    BY <1>1, <2>1, <2>2, <2>3 DEF PgIInv, PgTypeInvariant
<1>9. TimesArePast'
  <2>1. \A s \in PgSessions : (Stored(s)' <=> Stored(s)) /\ updatedAt'[s] = updatedAt[s]
    BY <1>1 DEF Stored
  <2>2. ASSUME NEW e \in listing'
        PROVE  e = EntryOf(e.id)' /\ e.time <= pgClock /\ e.time <= updatedAt[e.id]
    <3>1. e.id \in PgSessions /\ Stored(e.id) /\ e = EntryOf(e.id)
      BY <1>1, <1>2, <1>3
    <3>2. e.time = updatedAt[e.id] /\ updatedAt[e.id] <= pgClock /\ updatedAt[e.id] \in PgTime
      BY <1>5, <1>6, <3>1 DEF PgIInv, TimesArePast
    <3>3. e.time <= updatedAt[e.id]
      BY <3>2
    <3>4. EntryOf(e.id)' = EntryOf(e.id)
      BY <1>5, <3>1
    <3> QED
      BY <3>1, <3>2, <3>3, <3>4
  <2> QED
    BY <1>1, <2>2 DEF PgIInv, TimesArePast
<1>10. OneEntryEach'
  <2>1. \A e, f \in listing' : e.id = f.id => e = f
    BY <1>1, <1>2
  <2>2. \A e \in listing' : IsAfterCursorDesc(e, cursor)' /\ e.id \notin page'.entries
    BY <1>1, <1>7 DEF IsAfterCursorDesc
  <2> QED
    BY <1>1, <1>7, <2>1, <2>2 DEF OneEntryEach
<1>11. ASSUME NEW s \in PgSessions, Quiet(s)' PROVE Apart(s)' /\ Ahead(s)' /\ Behind(s)'
  <2>1. Quiet(s) /\ s \notin touched
    BY <1>1, <1>11 DEF Quiet
  <2>2. Apart(s) /\ Ahead(s) /\ Behind(s)
    BY <2>1 DEF PgIInv
  <2>3. s \notin archived
    BY <2>1 DEF PgIInv, TimesArePast
  <2>4. Apart(s)'
    <3>1. ASSUME EntryOf(s) \in listing', NEW f \in listing', f.id # s PROVE f.time # updatedAt[s]
      <4>1. EntryOf(s) \in entries /\ f \in entries
        BY <1>1, <3>1
      <4>2. s \notin tied'
        BY <1>11 DEF Quiet
      <4> QED
        BY <1>1, <1>5, <2>1, <3>1, <4>1, <4>2
    <3>2. EntryOf(s) \in listing' => page.last.time > updatedAt[s]
      <4>1. EntryOf(s) \in listing' => updatedAt[s] \in PgTime
        BY <1>1, <1>2, <1>3, <1>5, <1>6
      <4> QED
        BY <1>7, <4>1 DEF NoCursor
    <3> QED
      BY <1>1, <1>5, <1>7, <3>1, <3>2 DEF Apart
  <2>5. Ahead(s)'
    <3>1. Stored(s)' <=> Stored(s)
      BY <1>1 DEF Stored
    <3>2. CASE Stored(s) /\ ~(shown[s] > 0)
      <4>1. IsAfterCursorDesc(EntryOf(s), cursor)
        BY <1>1, <2>2, <3>2 DEF Ahead
      <4>2. EntryOf(s) \in entries
        BY <1>2, <1>4, <2>3, <3>2
      <4> QED
        BY <1>1, <1>5, <4>1, <4>2 DEF Ahead
    <3>3. CASE ~Stored(s) \/ shown[s] > 0
      BY <1>1, <3>1, <3>3 DEF Ahead
    <3> QED
      BY <3>2, <3>3
  <2>6. Behind(s)'
    BY <1>1, <1>5, <1>7, <2>2 DEF Behind, IsAfterCursorDesc
  <2> QED
    BY <2>4, <2>5, <2>6
<1> QED
  BY <1>8, <1>9, <1>10, <1>11 DEF PgIInv

LEMMA PgLoadsInv ==
    ASSUME PgIInv, NEW e \in listing, PgLoads(e)
    PROVE  PgIInv'
<1> DEFINE loaded == [id |-> e.id, time |-> updatedAt[e.id]]
<1>1. /\ walk = "waits" /\ \A f \in listing : f.time <= e.time
      /\ listing' = listing \ {e}
      /\ IF Stored(e.id)
         THEN /\ page' = [entries |-> page.entries \cup {e.id}, last |-> loaded]
              /\ skewed' = (skewed \/ loaded # e)
         ELSE UNCHANGED <<page, skewed>>
      /\ UNCHANGED <<pgClock, updatedAt, archived, cursor, walk, shown, touched, tied>>
  BY DEF PgLoads
<1>2. /\ e \in PgEntry /\ e.id \in PgSessions /\ e.time \in PgTime
      /\ \A f \in listing : f \in PgEntry /\ f.id \in PgSessions /\ f.time \in PgTime
      /\ loaded = EntryOf(e.id) /\ loaded.id = e.id /\ loaded.time = updatedAt[e.id]
  BY DEF PgIInv, PgTypeInvariant, PgEntry, EntryOf
<1>3. Stored(e.id) => loaded \in PgEntry /\ updatedAt[e.id] \in PgTime /\ e.time <= updatedAt[e.id]
  BY <1>2 DEF PgIInv, PgTypeInvariant, Stored, PgEntry, TimesArePast
<1> HIDE DEF loaded
<1>4. /\ IsAfterCursorDesc(e, cursor) /\ e.id \notin page.entries
      /\ \A f \in listing : f.id = e.id => f = e
  BY DEF PgIInv, OneEntryEach
<1>5. \A s \in PgSessions : EntryOf(s).id = s /\ EntryOf(s).time = updatedAt[s]
                            /\ EntryOf(s)' = EntryOf(s) /\ (Stored(s)' <=> Stored(s))
  BY <1>1 DEF EntryOf, Stored
<1>6. CASE ~Stored(e.id)
  <2>1. page' = page /\ skewed' = skewed /\ listing' \subseteq listing
    BY <1>1, <1>6
  <2>2. PgTypeInvariant'
    BY <1>1, <2>1 DEF PgIInv, PgTypeInvariant, PgEntry
  <2>3. TimesArePast'
    BY <1>1, <2>1 DEF PgIInv, TimesArePast, EntryOf, Stored
  <2>4. OneEntryEach'
    BY <1>1, <2>1 DEF PgIInv, OneEntryEach, IsAfterCursorDesc, PgEntry
  <2>5. ASSUME NEW s \in PgSessions, Quiet(s)' PROVE Apart(s)' /\ Ahead(s)' /\ Behind(s)'
    <3>1. Quiet(s)
      BY <1>1, <2>5 DEF Quiet
    <3>2. Apart(s) /\ Ahead(s) /\ Behind(s)
      BY <3>1 DEF PgIInv
    <3>3. Apart(s)'
      BY <1>1, <1>5, <2>1, <3>2 DEF Apart
    <3>4. Stored(s) /\ EntryOf(s) \in listing => EntryOf(s) \in listing'
      BY <1>1, <1>5, <1>6
    <3>5. Ahead(s)'
      BY <1>1, <1>5, <2>1, <3>2, <3>4 DEF Ahead
    <3>6. Behind(s)'
      BY <1>1, <1>5, <2>1, <3>2 DEF Behind, IsAfterCursorDesc
    <3> QED
      BY <3>3, <3>5, <3>6
  <2> QED
    BY <2>2, <2>3, <2>4, <2>5 DEF PgIInv
<1>7. CASE Stored(e.id)
  <2>1. /\ page'.entries = page.entries \cup {e.id} /\ page'.last = loaded
        /\ page' = [entries |-> page.entries \cup {e.id}, last |-> loaded]
        /\ skewed' = (skewed \/ loaded # e) /\ listing' \subseteq listing
    BY <1>1, <1>7
  <2>2. PgTypeInvariant'
    <3>1. page' \in [entries : SUBSET PgSessions, last : PgEntry \cup {NoCursor}]
      BY <1>2, <1>3, <1>7, <2>1 DEF PgIInv, PgTypeInvariant
    <3>2. skewed' \in BOOLEAN
      BY <2>1 DEF PgIInv, PgTypeInvariant
    <3>3. PgEntry' = PgEntry /\ NoCursor' = NoCursor
      BY DEF PgEntry, NoCursor
    <3> QED
      BY <1>1, <2>1, <3>1, <3>2, <3>3 DEF PgIInv, PgTypeInvariant
  <2>3. TimesArePast'
    BY <1>1, <2>1 DEF PgIInv, TimesArePast, EntryOf, Stored
  <2>4. OneEntryEach'
    <3>1. \A f \in listing' : /\ IsAfterCursorDesc(f, cursor)' /\ f.id \notin page'.entries
                              /\ \A g \in listing' : f.id = g.id => f = g
      BY <1>1, <1>4, <2>1 DEF PgIInv, OneEntryEach, IsAfterCursorDesc
    <3>2. skewed' \/ IsAfterCursorDesc(page'.last, cursor')
      <4>1. CASE loaded # e
        BY <2>1, <4>1
      <4>2. CASE loaded = e
        BY <1>1, <1>4, <2>1, <4>2
      <4> QED
        BY <4>1, <4>2
    <3>3. page'.entries # {} /\ page'.last \in PgEntry'
      BY <1>3, <1>7, <2>1 DEF PgEntry
    <3> QED
      BY <1>1, <3>1, <3>2, <3>3 DEF OneEntryEach, IsAfterCursorDesc
  <2>5. ASSUME NEW s \in PgSessions, Quiet(s)' PROVE Apart(s)' /\ Ahead(s)' /\ Behind(s)'
    <3>1. Quiet(s) /\ s \notin touched
      BY <1>1, <2>5 DEF Quiet
    <3>2. Apart(s) /\ Ahead(s) /\ Behind(s)
      BY <3>1 DEF PgIInv
    <3>3. updatedAt[s] \in Int /\ updatedAt'[s] = updatedAt[s]
      BY <1>1 DEF PgIInv, PgTypeInvariant
    <3>4. s = e.id => e = EntryOf(s) /\ loaded = e
      BY <1>2, <3>1 DEF PgIInv, TimesArePast
    <3>5. Apart(s)'
      <4>1. ASSUME EntryOf(s) \in listing' PROVE loaded.time > updatedAt[s]
        <5>1. e # EntryOf(s) /\ EntryOf(s) \in listing
          BY <1>1, <4>1
        <5>2. e.id # s
          BY <3>4, <5>1
        <5>3. e.time # updatedAt[s] /\ updatedAt[s] <= e.time
          BY <1>1, <1>5, <3>2, <5>1, <5>2 DEF Apart
        <5> QED
          BY <1>2, <1>3, <1>7, <3>3, <5>3
      <4>2. ASSUME s \in page'.entries, NEW f \in listing' PROVE f.time < updatedAt[s]
        <5>1. CASE s \in page.entries
          BY <2>1, <3>2, <5>1 DEF Apart
        <5>2. CASE s = e.id
          <6>1. f \in listing /\ f.id # s
            BY <1>1, <1>4, <5>2
          <6>2. f.time # updatedAt[s] /\ f.time <= e.time /\ e.time = updatedAt[s]
            BY <1>1, <1>5, <3>2, <3>4, <5>2, <6>1 DEF Apart
          <6> QED
            BY <1>2, <6>1, <6>2
        <5> QED
          BY <2>1, <4>2, <5>1, <5>2
      <4>3. EntryOf(s) \in listing' => \A f \in listing' : f.id # s => f.time # updatedAt[s]
        BY <2>1, <3>2 DEF Apart
      <4> QED
        BY <1>5, <2>1, <3>3, <4>1, <4>2, <4>3 DEF Apart
    <3>6. Ahead(s)'
      <4>1. EntryOf(s) \in listing => EntryOf(s) \in listing' \/ s = e.id
        BY <1>1, <1>5
      <4> QED
        BY <1>1, <1>5, <2>1, <3>2, <4>1 DEF Ahead
    <3>7. Behind(s)'
      <4> SUFFICES ASSUME ~skewed' PROVE Behind(s)'
        BY DEF Behind
      <4>1. ~skewed /\ loaded = e
        BY <2>1
      <4>2. /\ shown[s] <= 1
            /\ shown[s] = 1 => s \notin page.entries /\ ~IsAfterCursorDesc(EntryOf(s), cursor)
        BY <1>1, <3>2, <4>1 DEF Behind
      <4>3. shown[s] = 1 => s # e.id
        BY <1>4, <3>4, <4>2
      <4>4. ASSUME s \in page'.entries PROVE ~IsAfterCursorDesc(EntryOf(s), loaded)
        <5>1. CASE s \in page.entries
          <6>1. e.time < updatedAt[s]
            BY <3>2, <5>1 DEF Apart
          <6> QED
            BY <1>2, <1>5, <3>3, <4>1, <6>1 DEF IsAfterCursorDesc
        <5>2. CASE s = e.id
          <6>1. EntryOf(s) = loaded /\ loaded.time \in Int /\ loaded.id \in Int
            <7>1. EntryOf(s) = loaded
              BY <1>2, <5>2
            <7>2. loaded.time = updatedAt[s] /\ loaded.id = s /\ s \in Int
              BY <1>2, <5>2, Numbers
            <7> QED
              BY <3>3, <7>1, <7>2
          <6> QED
            BY <6>1 DEF IsAfterCursorDesc
        <5> QED
          BY <2>1, <4>4, <5>1, <5>2
      <4> QED
        BY <1>1, <1>5, <2>1, <4>2, <4>3, <4>4 DEF Behind, IsAfterCursorDesc
    <3> QED
      BY <3>5, <3>6, <3>7
  <2> QED
    BY <2>2, <2>3, <2>4, <2>5 DEF PgIInv
<1> QED
  BY <1>6, <1>7

LEMMA PgRepliesInv ==
    ASSUME PgIInv, PgReplies
    PROVE  PgIInv'
<1>1. /\ walk = "waits" /\ (Cardinality(page.entries) = PageLimit \/ listing = {})
      /\ walk' = IF page.entries = {} THEN "over" ELSE "asks"
      /\ cursor' = page.last
      /\ shown' = [s \in PgSessions |-> IF s \in page.entries \ touched /\ shown[s] < 2
                                        THEN shown[s] + 1 ELSE shown[s]]
      /\ listing' = {} /\ page' = NoPage
      /\ UNCHANGED <<pgClock, updatedAt, archived, touched, tied, skewed>>
  BY DEF PgReplies
<1>2. page.entries = {} => listing = {}
  BY <1>1, FS_EmptySet
<1>3. page'.entries = {} /\ page'.last = NoCursor
  BY <1>1 DEF NoPage
<1>4. PgTypeInvariant'
  <2>1. shown' \in [PgSessions -> 0 .. 2]
    BY <1>1 DEF PgIInv, PgTypeInvariant
  <2>2. NoPage \in [entries : SUBSET PgSessions, last : PgEntry \cup {NoCursor}]
    BY DEF NoPage
  <2>3. cursor' \in PgEntry \cup {NoCursor} /\ walk' \in {"asks", "waits", "over"}
    BY <1>1 DEF PgIInv, PgTypeInvariant
  <2>4. PgEntry' = PgEntry /\ NoCursor' = NoCursor
    BY DEF PgEntry, NoCursor
  <2> QED
    BY <1>1, <2>1, <2>2, <2>3, <2>4 DEF PgIInv, PgTypeInvariant
<1>5. TimesArePast'
  BY <1>1 DEF PgIInv, TimesArePast
<1>6. OneEntryEach'
  BY <1>1, <1>3 DEF OneEntryEach
<1>7. ASSUME NEW s \in PgSessions, Quiet(s)' PROVE Apart(s)' /\ Ahead(s)' /\ Behind(s)'
  <2>1. Quiet(s) /\ s \notin touched
    BY <1>1, <1>7 DEF Quiet
  <2>2. Apart(s) /\ Ahead(s) /\ Behind(s)
    BY <2>1 DEF PgIInv
  <2>3. /\ EntryOf(s)' = EntryOf(s) /\ (Stored(s)' <=> Stored(s))
        /\ EntryOf(s).id = s /\ EntryOf(s).time = updatedAt[s]
    BY <1>1 DEF EntryOf, Stored
  <2>4. /\ shown[s] \in 0 .. 2 /\ shown'[s] >= shown[s] /\ (s \in page.entries => shown'[s] > 0)
        /\ (s \notin page.entries => shown'[s] = shown[s])
        /\ (s \in page.entries /\ shown[s] = 0 => shown'[s] = 1)
    BY <1>1, <2>1 DEF PgIInv, PgTypeInvariant
  <2>5. updatedAt[s] \in Int /\ s \in Nat
    BY DEF PgIInv, PgTypeInvariant
  <2>6. Apart(s)'
    BY <1>1, <1>3 DEF Apart
  <2>7. Ahead(s)'
    <3>1. CASE Stored(s) /\ ~(shown'[s] > 0)
      <4>1. EntryOf(s) \in listing
        BY <1>1, <2>2, <2>4, <3>1 DEF Ahead
      <4>2. page.last.time > updatedAt[s]
        BY <2>2, <4>1 DEF Apart
      <4>3. IsAfterCursorDesc(EntryOf(s), page.last) /\ page.entries # {}
        BY <1>2, <2>3, <4>1, <4>2 DEF IsAfterCursorDesc
      <4> QED
        BY <1>1, <2>3, <4>3 DEF Ahead, IsAfterCursorDesc
    <3>2. CASE ~Stored(s) \/ shown'[s] > 0
      BY <2>3, <3>2 DEF Ahead
    <3> QED
      BY <3>1, <3>2
  <2>8. Behind(s)'
    <3> SUFFICES ASSUME ~skewed PROVE Behind(s)'
      BY <1>1 DEF Behind
    <3>1. /\ shown[s] <= 1
          /\ shown[s] = 1 => s \notin page.entries /\ ~IsAfterCursorDesc(EntryOf(s), cursor)
          /\ s \in page.entries => ~IsAfterCursorDesc(EntryOf(s), page.last)
      BY <1>1, <2>2 DEF Behind
    <3>2. shown'[s] <= 1
      BY <2>4, <3>1
    <3>3. ASSUME shown'[s] = 1, walk' # "over" PROVE ~IsAfterCursorDesc(EntryOf(s), page.last)
      <4>1. CASE s \in page.entries
        BY <3>1, <4>1
      <4>2. CASE s \notin page.entries
        <5>1. ~IsAfterCursorDesc(EntryOf(s), cursor)
          BY <2>4, <3>1, <3>3, <4>2
        <5>2. page.last \in PgEntry /\ IsAfterCursorDesc(page.last, cursor)
          BY <1>1, <3>3 DEF PgIInv, OneEntryEach
        <5>3. /\ cursor.time \in Int /\ cursor.id \in Int
              /\ page.last.time \in Int /\ page.last.id \in Int
          <6>1. cursor \in PgEntry \cup {NoCursor}
            BY DEF PgIInv, PgTypeInvariant
          <6>2. \A e \in PgEntry \cup {NoCursor} : e.time \in Int /\ e.id \in Int
            <7>1. NoCursor.time \in Int /\ NoCursor.id \in Int
              BY DEF NoCursor
            <7>2. \A e \in PgEntry : e.time \in Int /\ e.id \in Int
              <8> SUFFICES ASSUME NEW e \in PgEntry PROVE e.time \in Int /\ e.id \in Int
                OBVIOUS
              <8>1. e.id \in PgSessions /\ e.time \in 0 .. MaxPgTime
                BY DEF PgEntry
              <8> QED
                BY <8>1, Numbers, Zenon
            <7> QED
              BY <7>1, <7>2
          <6> QED
            BY <5>2, <6>1, <6>2
        <5> QED
          BY <2>3, <2>5, <5>1, <5>2, <5>3 DEF IsAfterCursorDesc
      <4> QED
        BY <4>1, <4>2
    <3> QED
      BY <1>1, <1>3, <2>3, <3>2, <3>3 DEF Behind, IsAfterCursorDesc
  <2> QED
    BY <2>6, <2>7, <2>8
<1> QED
  BY <1>4, <1>5, <1>6, <1>7 DEF PgIInv

\* Whatever happens to the other sessions meanwhile, a walk through the pages shows a session
\* that is left alone, and shares its time with no other, once: not twice, if no session moved
\* between being listed and being shown, and never not at all (session.ts, cursor.ts).
THEOREM PagesShowOnce == PgSpec => []PagedOnce
<1>1. ASSUME PgIInv, [PgNext]_pgVars PROVE PgIInv'
  <2>1. ASSUME NEW s \in PgSessions, NEW archive \in BOOLEAN, PgSaves(s, archive) PROVE PgIInv'
    BY <1>1, <2>1, PgTouchesInv DEF PgSaves
  <2>2. ASSUME NEW s \in PgSessions, PgDeletes(s) PROVE PgIInv'
    BY <1>1, <2>2, PgTouchesInv DEF PgDeletes
  <2>3. CASE UNCHANGED pgVars
    BY <1>1, <2>3 DEF pgVars, PgIInv, PgTypeInvariant, TimesArePast, OneEntryEach, Quiet, Apart, Ahead, Behind,
                      EntryOf, Stored, IsAfterCursorDesc, PgEntry
  <2> QED
    BY <1>1, <2>1, <2>2, <2>3, PgLoadsInv, PgTickInv, PgListedInv, PgRepliesInv DEF PgNext
<1>2. PgIInv => PagedOnce
  <2> SUFFICES ASSUME PgIInv, NEW s \in PgSessions \ (touched \cup tied)
               PROVE  (shown[s] > 1 => skewed) /\ (walk = "over" /\ Stored(s) => shown[s] > 0)
    BY DEF PagedOnce
  <2>1. Ahead(s) /\ Behind(s) /\ shown[s] \in 0 .. 2
    BY DEF PgIInv, Quiet, PgTypeInvariant
  <2> QED
    BY <2>1 DEF Ahead, Behind
<1> QED
  BY <1>1, <1>2, PgInitInv, PTL DEF PgSpec

-----------------------------------------------------------------------------
(***************************************************************************)
(* The questions that runs ask, for any sessions, runs and requests.  They *)
(* use of RunState only who owns a session's run and which tasks are at    *)
(* work, so this invariant stands beside that of RunState.                 *)
(***************************************************************************)
\* The types of the permission state.
PermTypes ==
    /\ pending \subseteq Requests
    /\ timers \subseteq Requests
    /\ asker \in [Requests -> Runs \cup {NoRun}]
    /\ awaiting \in [Runs -> Requests \cup {NoRequest}]
    /\ answer \in [Requests -> Replies \cup {"none", Cancelled}]
    /\ announced \in [Requests -> Seq({"allowed", "denied"})]
    /\ acked \subseteq Requests \X Replies
    /\ granted \subseteq Requests
    /\ cleaning \subseteq Runs
    /\ stopping \in BOOLEAN

\* Who waits for a question is who asked it, and is at work.
AwaiterAsked ==
    \A r \in Runs : awaiting[r] # NoRequest =>
        asker[awaiting[r]] = r /\ task[r] = "running"

\* What nobody has asked is unsettled, and in neither the store nor a timer.
UnaskedIsOpen ==
    \A q \in Requests : asker[q] = NoRun => Open(q) /\ q \notin pending

\* Only questions in the store are timed.
TimedIsPending == timers \subseteq pending

PInv ==
    /\ PermTypes
    /\ AwaiterAsked
    /\ UnaskedIsOpen
    /\ TimedIsPending
    /\ OpenIsAnswerable
    /\ PendingIsAwaited
    /\ SettledOnce
    /\ GrantedByReply

Inv == IInv /\ PInv

-----------------------------------------------------------------------------
LEMMA PermInit == Init => PInv
<1> SUFFICES ASSUME Init PROVE PInv
  OBVIOUS
<1>1. PermTypes
  <2>1. <<>> \in Seq({"allowed", "denied"})
    OBVIOUS
  <2>2. announced \in [Requests -> Seq({"allowed", "denied"})]
    BY <2>1 DEF Init
  <2> QED
    BY <2>2 DEF Init, PermTypes, Replies, Cancelled
<1>2. AwaiterAsked /\ UnaskedIsOpen /\ TimedIsPending
  BY DEF Init, AwaiterAsked, UnaskedIsOpen, TimedIsPending, Open
<1>3. OpenIsAnswerable /\ PendingIsAwaited /\ GrantedByReply
  BY DEF Init, OpenIsAnswerable, PendingIsAwaited, GrantedByReply
<1>4. SettledOnce
  BY DEF Init, SettledOnce, Open, Replies
<1> QED
  BY <1>1, <1>2, <1>3, <1>4 DEF PInv

\* Every step of Permissions makes at most one call on the run table.
LEMMA PermRefines ==
    ASSUME [Next]_vars, IInv
    PROVE  [RunNext]_runVars
<1>1. CASE \E s \in Sessions, r \in Runs : StartRun(s, r)
  BY <1>1 DEF StartRun, RunNext
<1>2. CASE \E r \in Runs, q \in Requests : Ask(r, q)
  BY <1>2 DEF Ask
<1>3. CASE \E q \in Requests : TimesOut(q) \/ \E a \in Replies : Reply(q, a)
  BY <1>3 DEF Reply, TimesOut
<1>4. CASE \E r \in Runs : Resume(r) \/ RunCleansUp(r)
  BY <1>4 DEF Resume, RunCleansUp
<1>5. CASE \E r \in Runs : RunReturns(r) \/ RunThrows(r)
  BY <1>5 DEF RunReturns, RunThrows, RunNext
<1>6. CASE \E s \in Sessions : AbortRun(s)
  BY <1>6 DEF AbortRun, RunNext
<1>7. CASE DisposeAborts \/ DisposeClears \/ Reboot
  BY <1>7 DEF DisposeAborts, DisposeClears, Reboot, RunNext
<1>8. CASE UNCHANGED vars
  BY <1>8 DEF vars
<1> QED
  BY <1>1, <1>2, <1>3, <1>4, <1>5, <1>6, <1>7, <1>8 DEF Next

-----------------------------------------------------------------------------
\* What is in the store is open, so settling part of the store settles all of it.
LEMMA SettleEffects ==
    ASSUME PInv, NEW Q \in SUBSET pending, NEW a, Settle(Q, a)
    PROVE  /\ answer' = [q \in Requests |-> IF q \in Q THEN a ELSE answer[q]]
           /\ announced' = [q \in Requests |-> IF q \in Q THEN <<Allowed(a)>>
                                                          ELSE announced[q]]
           /\ timers' = timers \ Q
           /\ pending' = pending \ Q
<1>1. \A q \in Requests : q \in Q => Open(q) /\ announced[q] = <<>>
  BY DEF PInv, PendingIsAwaited, SettledOnce, PermTypes
<1>2. Append(<<>>, Allowed(a)) = <<Allowed(a)>>
  BY DEF Allowed
<1> QED
  BY <1>1, <1>2 DEF Settle

LEMMA SettleStep ==
    ASSUME PInv, NEW Q \in SUBSET pending, NEW a \in Replies \cup {Cancelled},
           Settle(Q, a),
           UNCHANGED <<asker, awaiting, granted, stopping>>,
           cleaning' \subseteq Runs,
           acked' \subseteq Requests \X Replies,
           \A q \in Requests, b \in Replies :
               <<q, b>> \in acked' <=> <<q, b>> \in acked \/ (q \in Q /\ b = a),
           \A r \in Runs : awaiting[r] # NoRequest => task'[r] = task[r]
    PROVE  PInv'
<1>1. /\ answer' = [q \in Requests |-> IF q \in Q THEN a ELSE answer[q]]
      /\ announced' = [q \in Requests |-> IF q \in Q THEN <<Allowed(a)>>
                                                     ELSE announced[q]]
      /\ timers' = timers \ Q
      /\ pending' = pending \ Q
  BY SettleEffects
<1>2. PermTypes'
  <2>1. announced' \in [Requests -> Seq({"allowed", "denied"})]
    <3>1. <<Allowed(a)>> \in Seq({"allowed", "denied"})
      BY DEF Allowed
    <3> QED
      BY <1>1, <3>1 DEF PInv, PermTypes
  <2> QED
    BY <1>1, <2>1 DEF PInv, PermTypes
<1>3. AwaiterAsked' /\ TimedIsPending'
  BY <1>1 DEF PInv, AwaiterAsked, TimedIsPending
<1>4. UnaskedIsOpen'
  BY <1>1 DEF PInv, UnaskedIsOpen, Open
<1>5. OpenIsAnswerable'
  BY <1>1 DEF PInv, PermTypes, OpenIsAnswerable, Open, Replies, Cancelled
<1>6. PendingIsAwaited'
  <2> SUFFICES ASSUME NEW q \in pending'
               PROVE  (Open(q) /\ awaiting[asker[q]] = q /\ task[asker[q]] = "running")'
    BY DEF PendingIsAwaited
  <2>1. /\ q \in Requests /\ q \in pending /\ q \notin Q
        /\ Open(q) /\ awaiting[asker[q]] = q /\ task[asker[q]] = "running"
    BY <1>1 DEF PInv, PermTypes, PendingIsAwaited
  <2>2. asker[q] \in Runs /\ q # NoRequest
    BY <2>1, NoRequestAssumption DEF PInv, PermTypes, UnaskedIsOpen
  <2> QED
    BY <1>1, <2>1, <2>2 DEF Open
<1>7. SettledOnce'
  <2> SUFFICES ASSUME NEW q \in Requests
               PROVE  (/\ announced[q] = IF Open(q) THEN <<>> ELSE <<Allowed(answer[q])>>
                       /\ \A b \in Replies : <<q, b>> \in acked <=> answer[q] = b)'
    BY DEF SettledOnce
  <2>1. CASE q \in Q
    BY <1>1, <2>1 DEF PInv, PendingIsAwaited, SettledOnce, Open, Replies, Cancelled
  <2>2. CASE q \notin Q
    BY <1>1, <2>2 DEF PInv, SettledOnce, Open
  <2> QED
    BY <2>1, <2>2
<1>8. GrantedByReply'
  BY DEF PInv, GrantedByReply, PermTypes, Replies
<1> QED
  BY <1>2, <1>3, <1>4, <1>5, <1>6, <1>7, <1>8 DEF PInv

\* A step that leaves the questions alone, and the tasks of those who wait.
LEMMA ElsewhereStep ==
    ASSUME PInv,
           UNCHANGED <<pending, timers, asker, awaiting, answer, announced, acked, granted>>,
           cleaning' \subseteq Runs, stopping' \in {stopping, TRUE},
           \A r \in Runs : awaiting[r] # NoRequest => task'[r] = task[r]
    PROVE  PInv'
<1>1. PermTypes' /\ UnaskedIsOpen' /\ TimedIsPending' /\ SettledOnce' /\ GrantedByReply'
  BY DEF PInv, PermTypes, UnaskedIsOpen, TimedIsPending, SettledOnce, GrantedByReply, Open
<1>2. AwaiterAsked' /\ OpenIsAnswerable'
  BY DEF PInv, PermTypes, AwaiterAsked, OpenIsAnswerable, Open
<1>3. PendingIsAwaited'
  <2>1. \A q \in pending : asker[q] \in Runs /\ q # NoRequest
    BY NoRequestAssumption DEF PInv, PermTypes, UnaskedIsOpen
  <2> QED
    BY <2>1 DEF PInv, PendingIsAwaited, Open
<1> QED
  BY <1>1, <1>2, <1>3 DEF PInv

-----------------------------------------------------------------------------
LEMMA AskStep ==
    ASSUME PInv, NEW r \in Runs, NEW q \in Requests, Ask(r, q)
    PROVE  PInv'
<1> USE DEF Ask, runVars
<1>1. PermTypes'
  BY DEF PInv, PermTypes
<1>2. AwaiterAsked' /\ UnaskedIsOpen' /\ TimedIsPending'
  BY NoRunAssumption, NoRequestAssumption
  DEF PInv, PermTypes, AwaiterAsked, UnaskedIsOpen, TimedIsPending, Open
<1>3. OpenIsAnswerable'
  BY DEF PInv, PermTypes, OpenIsAnswerable, Open
<1>4. PendingIsAwaited'
  BY NoRequestAssumption DEF PInv, PermTypes, PendingIsAwaited, UnaskedIsOpen, Open
<1>5. SettledOnce' /\ GrantedByReply'
  BY DEF PInv, SettledOnce, GrantedByReply, Open
<1> QED
  BY <1>1, <1>2, <1>3, <1>4, <1>5 DEF PInv

LEMMA ResumeStep ==
    ASSUME PInv, NEW r \in Runs, Resume(r)
    PROVE  PInv'
<1> USE DEF Resume, runVars
<1>1. awaiting[r] \in Requests /\ ~Open(awaiting[r])
  BY DEF PInv, PermTypes
<1>2. PermTypes'
  BY <1>1 DEF PInv, PermTypes
<1>3. AwaiterAsked' /\ UnaskedIsOpen' /\ TimedIsPending'
  BY DEF PInv, PermTypes, AwaiterAsked, UnaskedIsOpen, TimedIsPending, Open
<1>4. OpenIsAnswerable'
  BY DEF PInv, PermTypes, OpenIsAnswerable, Open
<1>5. PendingIsAwaited'
  <2>1. \A q \in pending : asker[q] \in Runs /\ asker[q] # r
    BY <1>1 DEF PInv, PermTypes, PendingIsAwaited, UnaskedIsOpen
  <2> QED
    BY <2>1 DEF PInv, PermTypes, PendingIsAwaited, Open
<1>6. SettledOnce'
  BY DEF PInv, SettledOnce, Open
<1>7. GrantedByReply'
  BY <1>1 DEF PInv, GrantedByReply, SettledOnce, Replies
<1> QED
  BY <1>2, <1>3, <1>4, <1>5, <1>6, <1>7 DEF PInv

\* The end of the process empties the store, which nobody waits for any more.
LEMMA RebootStep ==
    ASSUME PInv, Reboot
    PROVE  PInv'
<1>1. PermTypes' /\ TimedIsPending' /\ PendingIsAwaited'
  BY DEF Reboot, PInv, PermTypes, TimedIsPending, PendingIsAwaited
<1>2. AwaiterAsked' /\ OpenIsAnswerable' /\ UnaskedIsOpen'
  BY DEF Reboot, PInv, AwaiterAsked, OpenIsAnswerable, UnaskedIsOpen, Open
<1>3. SettledOnce' /\ GrantedByReply'
  BY DEF Reboot, PInv, SettledOnce, GrantedByReply, Open
<1> QED
  BY <1>1, <1>2, <1>3 DEF PInv

LEMMA PermNext ==
    ASSUME IInv, PInv, [Next]_vars
    PROVE  PInv'
<1>1. CASE \E s \in Sessions, r \in Runs : StartRun(s, r)
  <2>1. PICK s \in Sessions, r \in Runs : StartRun(s, r)
    BY <1>1
  <2>2. task[r] = "none"
    BY <2>1 DEF StartRun, Start, IInv, Bookkeeping, TaskOfStarted
  <2>3. awaiting[r] = NoRequest
    BY <2>2 DEF PInv, AwaiterAsked
  <2>4. \A q \in Runs : awaiting[q] # NoRequest => task'[q] = task[q]
    BY <2>1, <2>3 DEF StartRun, Start, IInv, Bookkeeping, TypeOK
  <2> QED
    BY <2>1, <2>4, ElsewhereStep DEF StartRun, permVars, PInv, PermTypes
<1>2. CASE \E r \in Runs, q \in Requests : Ask(r, q)
  BY <1>2, AskStep
<1>3. CASE \E q \in Requests, a \in Replies : Reply(q, a)
  <2>1. PICK q \in Requests, a \in Replies : Reply(q, a)
    BY <1>3
  <2>2. {q} \in SUBSET pending
    BY <2>1 DEF Reply
  <2>3. acked' \subseteq Requests \X Replies
    BY <2>1 DEF Reply, PInv, PermTypes
  <2>4. \A p \in Requests, b \in Replies :
            <<p, b>> \in acked' <=> <<p, b>> \in acked \/ (p \in {q} /\ b = a)
    BY <2>1 DEF Reply
  <2>5. /\ Settle({q}, a)
        /\ UNCHANGED <<task, asker, awaiting, granted, stopping>>
        /\ cleaning' \subseteq Runs
    BY <2>1 DEF Reply, runVars, PInv, PermTypes
  <2> QED
    BY <2>2, <2>3, <2>4, <2>5, SettleStep
<1>4. CASE \E q \in Requests : TimesOut(q)
  <2>1. PICK q \in Requests : TimesOut(q)
    BY <1>4
  <2>2. {q} \in SUBSET pending
    BY <2>1 DEF TimesOut, PInv, TimedIsPending
  <2>3. \A b \in Replies : b # Cancelled
    BY DEF Replies, Cancelled
  <2>4. /\ Settle({q}, Cancelled)
        /\ UNCHANGED <<task, asker, awaiting, granted, stopping, acked>>
        /\ cleaning' \subseteq Runs /\ acked \subseteq Requests \X Replies
    BY <2>1 DEF TimesOut, runVars, PInv, PermTypes
  <2> QED
    BY <2>2, <2>3, <2>4, SettleStep
<1>5. CASE \E r \in Runs : Resume(r)
  BY <1>5, ResumeStep
<1>6. CASE \E r \in Runs : RunReturns(r)
  <2>1. PICK r \in Runs : RunReturns(r)
    BY <1>6
  <2>2. QuestionsOf(owner[r]) \in SUBSET pending
    BY DEF QuestionsOf
  <2>3. \A b \in Replies : b # Cancelled
    BY DEF Replies, Cancelled
  <2>4. \A q \in Runs : awaiting[q] # NoRequest => task'[q] = task[q]
    BY <2>1 DEF RunReturns, TaskReturned, IInv, Bookkeeping, TypeOK
  <2>5. /\ Settle(QuestionsOf(owner[r]), Cancelled)
        /\ UNCHANGED <<asker, awaiting, granted, stopping, acked>>
        /\ cleaning' \subseteq Runs /\ acked \subseteq Requests \X Replies
    BY <2>1 DEF RunReturns, ClearForSession, PInv, PermTypes
  <2> QED
    BY <2>2, <2>3, <2>4, <2>5, SettleStep
<1>7. CASE \E r \in Runs : RunThrows(r)
  <2>1. PICK r \in Runs : RunThrows(r)
    BY <1>7
  <2>2. \A q \in Runs : awaiting[q] # NoRequest => task'[q] = task[q]
    BY <2>1 DEF RunThrows, TaskThrew, IInv, Bookkeeping, TypeOK
  <2> QED
    BY <2>1, <2>2, ElsewhereStep DEF RunThrows, PInv, PermTypes
<1>8. CASE \E r \in Runs : RunCleansUp(r)
  <2>1. PICK r \in Runs : RunCleansUp(r)
    BY <1>8
  <2>2. QuestionsOf(owner[r]) \in SUBSET pending
    BY DEF QuestionsOf
  <2>3. \A b \in Replies : b # Cancelled
    BY DEF Replies, Cancelled
  <2>4. /\ Settle(QuestionsOf(owner[r]), Cancelled)
        /\ UNCHANGED <<task, asker, awaiting, granted, stopping, acked>>
        /\ cleaning' \subseteq Runs /\ acked \subseteq Requests \X Replies
    BY <2>1 DEF RunCleansUp, ClearForSession, runVars, PInv, PermTypes
  <2> QED
    BY <2>2, <2>3, <2>4, SettleStep
<1>9. CASE \E s \in Sessions : AbortRun(s)
  BY <1>9, ElsewhereStep DEF AbortRun, AbortSession, permVars, PInv, PermTypes
<1>10. CASE DisposeAborts
  BY <1>10, ElsewhereStep DEF DisposeAborts, AbortAll, PInv, PermTypes
<1>11. CASE DisposeClears
  <2>1. PermTypes' /\ AwaiterAsked' /\ UnaskedIsOpen' /\ TimedIsPending'
    BY <1>11 DEF DisposeClears, PInv, PermTypes, AwaiterAsked, UnaskedIsOpen,
                 TimedIsPending, Open, runVars
  <2>2. OpenIsAnswerable' /\ PendingIsAwaited' /\ SettledOnce' /\ GrantedByReply'
    BY <1>11 DEF DisposeClears, PInv, OpenIsAnswerable, PendingIsAwaited, SettledOnce,
                 GrantedByReply, Open
  <2> QED
    BY <2>1, <2>2 DEF PInv
<1>12. CASE Reboot
  BY <1>12, RebootStep
<1>13. CASE UNCHANGED vars
  BY <1>13, ElsewhereStep DEF vars, permVars, runVars, PInv, PermTypes
<1> QED
  BY <1>1, <1>2, <1>3, <1>4, <1>5, <1>6, <1>7, <1>8, <1>9, <1>10, <1>11, <1>12, <1>13
  DEF Next

-----------------------------------------------------------------------------
THEOREM PermissionsInductive == Spec => []Inv
<1>1. Init => Inv
  BY InitIInv, PermInit DEF Init, Inv
<1>2. Inv /\ [Next]_vars => Inv'
  BY PermRefines, NextIInv, PermNext DEF Inv
<1> QED
  BY <1>1, <1>2, PTL DEF Spec

\* Types of the run table and of the questions.
THEOREM PermissionsTypeCorrect == Spec => []TypeInvariant
<1>1. Inv => TypeInvariant
  BY DEF Inv, IInv, Bookkeeping, PInv, PermTypes, TypeInvariant
<1> QED
  BY <1>1, PermissionsInductive, PTL

\* No run is suspended on a question that neither a user nor a timer can settle, and
\* no question is listed that nobody waits for.
THEOREM PermissionsNoDeadQuestion == Spec => []QuestionIsAnswerable
<1>1. Inv => QuestionIsAnswerable
  BY DEF Inv, PInv, QuestionIsAnswerable
<1> QED
  BY <1>1, PermissionsInductive, PTL

\* Reply, timeout and clean-up race for a question and exactly one of them wins.
THEOREM PermissionsSettledOnce == Spec => []SettledOnce
<1>1. Inv => SettledOnce
  BY DEF Inv, PInv
<1> QED
  BY <1>1, PermissionsInductive, PTL

\* What the hook allows was allowed by a user's acknowledged reply.
THEOREM PermissionsGrantedByReply == Spec => []GrantedByReply
<1>1. Inv => GrantedByReply
  BY DEF Inv, PInv
<1> QED
  BY <1>1, PermissionsInductive, PTL

=============================================================================
