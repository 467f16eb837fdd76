------------------------------ MODULE Services ------------------------------
(***************************************************************************)
(* The components whose calls must come back whatever the outside does:    *)
(* the call of the model, the language server, and the file of a session   *)
(* with its lock.  They share no state with one another.  Whichever of     *)
(* them `service` names runs, and the others rest: as they do not          *)
(* interact, their behaviours need not be interleaved, and their states    *)
(* add up.                                                                 *)
(***************************************************************************)
EXTENDS LlmCall, LspClient, FsLock

VARIABLE service

servicesVars == <<service, llmVars, lspVars, vars>>

\* A component at rest has one state.
LlmRests == LlmIdle("over") /\ client = "whole" /\ caller = "loop"
FileRests == path = NoFile /\ op = [p \in Savers |-> "save"]

ServicesInit ==
    /\ service \in {"llm", "lsp", "file"}
    /\ IF service = "llm" THEN LlmInit ELSE LlmRests
    /\ IF service = "lsp" THEN LspInit ELSE LspIdle("done", {NoLspFile})
    /\ Init
    /\ service # "file" => FileRests

ServicesNext ==
    /\ UNCHANGED service
    /\ \/ service = "llm" /\ LlmNext /\ UNCHANGED <<lspVars, vars>>
       \/ service = "lsp" /\ LspNext /\ UNCHANGED <<llmVars, vars>>
       \/ service = "file" /\ Next /\ UNCHANGED <<llmVars, lspVars>>

\* Of a component at rest it asks nothing: its fair steps are not enabled, or, as the passing
\* of time, change nothing.
ServicesFairness == LlmFairness /\ LspFairness /\ Fairness

ServicesSpec == ServicesInit /\ [][ServicesNext]_servicesVars /\ ServicesFairness
=============================================================================
