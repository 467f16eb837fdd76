-------------------------- MODULE PermissionRules --------------------------
(***************************************************************************)
(* packages/agent/src/permission.ts: the hook that buildPermissionHook()   *)
(* makes of the configured rules, and what executeOneTool() of loop.ts     *)
(* lets through it.                                                        *)
(*                                                                         *)
(* A hook belongs to one agent.  The tool calls that meet it are executed  *)
(* one after the other, those of a run and those of its subagents, whose   *)
(* sessions are their own, so there is one question at a time.             *)
(***************************************************************************)
EXTENDS Integers, FiniteSets, SequencesExt

CONSTANTS RuleSessions,
          RuleObjects,   \* the paths and the commands that tools are asked to touch or run
          Unnamed,       \* among them, that of a call without a path or a command
          BashPatterns,  \* the keys of permission.bash
          Everything,    \* the pattern "*"
          RuleMatches,   \* <<p, o>>: p, as a glob, matches o
          RuleConfigs,   \* the configurations [edit, bash] that are considered
          MaxAlways      \* bound on the answers "always"

\* A path or a command is remembered as it is, and is a pattern then.
Patterns == BashPatterns \cup RuleObjects \cup {Everything}
Rules == {"allow", "deny", "ask"}

ASSUME PermissionRulesAssumption ==
    /\ RuleSessions # {}
    /\ Unnamed \in RuleObjects
    /\ MaxAlways \in Nat
    /\ RuleMatches \subseteq Patterns \X RuleObjects
    /\ \A o \in RuleObjects : <<o, o>> \in RuleMatches /\ <<Everything, o>> \in RuleMatches
    /\ \A c \in RuleConfigs :
          /\ c.edit \in Rules \cup {"unset"}
          /\ c.bash \in Seq([pattern : BashPatterns, rule : Rules])

VARIABLES
    ruleConfig,   \* the configured rules, and whether there is a user to ask
    approved,     \* approved: <<session, tool, pattern>>
    hookCall,     \* the tool call that met the hook last
    saidAlways    \* history: the calls that were answered "always"; here: this hook's

ruleVars == <<ruleConfig, approved, hookCall, saidAlways>>

\* One of the tools that change files, the shell, and one of the others.
RuleTools == {"write", "bash", "spawn_subagent"}

HookCall == [pc : {"asked", "over"}, session : RuleSessions, tool : RuleTools,
             object : RuleObjects, reply : {"none", "yes", "always", "no"},
             verdict : {"allowed", "denied", "asked"}]
NoCall == [pc |-> "none"]
Said == [session : RuleSessions, tool : RuleTools, object : RuleObjects,
         pattern : Patterns, here : BOOLEAN]

RuleTypeInvariant ==
    /\ ruleConfig \in [rules : RuleConfigs, hasUser : BOOLEAN]
    /\ approved \subseteq RuleSessions \X RuleTools \X Patterns
    /\ hookCall \in HookCall \cup {NoCall}
    /\ saidAlways \subseteq Said

RuleIdle(configs, users) ==
    /\ ruleConfig \in [rules : configs, hasUser : users]
    /\ approved = {}
    /\ hookCall = NoCall
    /\ saidAlways = {}

RuleInit == RuleIdle(RuleConfigs, BOOLEAN)

-----------------------------------------------------------------------------
EditRule == IF ruleConfig.rules.edit = "unset" THEN "allow" ELSE ruleConfig.rules.edit

\* The places of the bash rules whose pattern matches o; the first of them decides.
BashHits(o) ==
    {i \in DOMAIN ruleConfig.rules.bash : <<ruleConfig.rules.bash[i].pattern, o>> \in RuleMatches}
BashRule(o) == ruleConfig.rules.bash[Min(BashHits(o))]

IsApproved(s, t, o) == \E p \in Patterns : <<s, t, p>> \in approved /\ <<p, o>> \in RuleMatches

\* What a rule says before anybody is asked; without a user nobody can be.
ByRule(rule) ==
    CASE rule = "allow" -> "allowed"
      [] rule = "deny"  -> "denied"
      [] OTHER          -> IF ruleConfig.hasUser THEN "asked" ELSE "denied"

\* The rule about a call.
Ruled(t, o) == IF t = "bash" /\ BashHits(o) # {} THEN BashRule(o).rule ELSE EditRule

\* Mutant of Verdict: what was approved is let through before the bash rules are read.
VerdictApprovedFirst(s, t, o) ==
    IF t = "spawn_subagent" \/ IsApproved(s, t, o) THEN "allowed" ELSE ByRule(Ruled(t, o))

\* The verdict of the hook on a call, or "asked".  A bash command that no rule matches falls
\* back on the edit rule, and there the memory is not consulted.
Verdict(s, t, o) ==
    LET ruled == ByRule(Ruled(t, o))
        recalled == /\ IsApproved(s, t, o)
                    /\ t = "bash" => BashHits(o) # {} /\ ruled = "asked" IN
    IF t = "spawn_subagent" \/ recalled THEN "allowed" ELSE ruled

\* The pattern that an "always" is remembered by.
Remembered(t, o) ==
    CASE t = "bash" /\ BashHits(o) # {} -> BashRule(o).pattern
      [] o = Unnamed -> Everything
      [] OTHER -> o

\* A tool of a run, or of its subagent, is about to be executed.
HookMeets(s, t, o) ==
    LET v == Verdict(s, t, o) IN
    /\ hookCall.pc # "asked"
    /\ hookCall' = [pc |-> IF v = "asked" THEN "asked" ELSE "over", session |-> s, tool |-> t,
                    object |-> o, reply |-> "none", verdict |-> v]
    /\ UNCHANGED <<ruleConfig, approved, saidAlways>>

\* onAskUser resolves; an answer that is neither yes nor always, or none, denies.
HookAnswered(a) ==
    LET s == hookCall.session
        t == hookCall.tool
        p == Remembered(t, hookCall.object) IN
    /\ hookCall.pc = "asked"
    /\ a = "always" => Cardinality(saidAlways) < MaxAlways
    /\ hookCall' = [hookCall EXCEPT !.pc = "over", !.reply = a,
                                    !.verdict = IF a = "no" THEN "denied" ELSE "allowed"]
    /\ IF a = "always"
       THEN /\ approved' = approved \cup {<<s, t, p>>}
            /\ saidAlways' = saidAlways \cup
                  {[session |-> s, tool |-> t, object |-> hookCall.object, pattern |-> p,
                    here |-> TRUE]}
       ELSE UNCHANGED <<approved, saidAlways>>
    /\ UNCHANGED ruleConfig

\* The next run of the session has an agent, and so a hook, of its own.
HookRebuilt ==
    /\ hookCall.pc = "over"
    /\ approved' = {}
    /\ hookCall' = NoCall
    /\ saidAlways' = {[a EXCEPT !.here = FALSE] : a \in saidAlways}
    /\ UNCHANGED ruleConfig

RuleNext ==
    \/ \E s \in RuleSessions, t \in RuleTools, o \in RuleObjects : HookMeets(s, t, o)
    \/ \E a \in {"yes", "always", "no"} : HookAnswered(a)
    \/ HookRebuilt

RuleSpec == RuleInit /\ [][RuleNext]_ruleVars

-----------------------------------------------------------------------------
\* Whatever was answered "always" before: a call that the first rule about it denies is never
\* let through, and one that it asks about only if the user allowed it, or told this hook
\* "always" for a call of the same session and tool by a pattern that covers it.
GrantedKnowingly ==
    hookCall.pc = "over" /\ hookCall.verdict = "allowed" /\ hookCall.tool # "spawn_subagent" =>
        LET rule == Ruled(hookCall.tool, hookCall.object) IN
        \/ rule = "allow"
        \/ /\ rule # "deny"
           /\ \/ hookCall.reply \in {"yes", "always"}
              \/ \E a \in saidAlways : /\ a.here
                                       /\ a.session = hookCall.session
                                       /\ a.tool = hookCall.tool
                                       /\ <<a.pattern, hookCall.object>> \in RuleMatches

\* What permission.ts:11-13 says: "when a user answers the HITL prompt with "always", the
\* rule is remembered for the rest of that session so the loop stops asking for identical
\* operations".
StopsAsking ==
    hookCall.pc = "asked" =>
        ~ \E a \in saidAlways : /\ a.session = hookCall.session
                                /\ a.tool = hookCall.tool
                                /\ a.object = hookCall.object
=============================================================================
