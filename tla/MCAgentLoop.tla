---------------------------- MODULE MCAgentLoop -----------------------------
(* TLC instances of AgentLoop.  The long run has three steps; the short one *)
(* only answers, at any moment of the long one, as the run of a subagent or *)
(* of another session on the same loop may.                                 *)
EXTENDS AgentLoop

CONSTANTS long, short, bash, grep, ghost, a, b

StepsOfRuns == [r \in Runs |-> IF r = long THEN 3 ELSE 1]
SomeCalls == [tool : {grep}, args : {a, b}] \cup [tool : {bash, ghost}, args : {a}]
CallsOfRuns == [r \in Runs |-> IF r = long THEN SomeCalls ELSE {}]
=============================================================================
