---------------------------- MODULE SharedParts ----------------------------
(***************************************************************************)
(* The components that several runs, clients or processes share, and that  *)
(* share no state with one another: the questions to the user, the memory  *)
(* of a permission hook, the references of an agent, the cache of context  *)
(* selections, the list of sessions, the MCP servers, the sessions of the  *)
(* ACP agent, the workspace and its record of changes, the snapshots, and  *)
(* the catalogue of models.  As in Services one of them runs, the one that *)
(* `part` names, and the others rest.                                      *)
(***************************************************************************)
EXTENDS Permissions, PermissionRules, SharedAgent, Selection, Pages,
        Mcp, Acp, Workspace, Snapshots, Catalog

VARIABLE part

partsVars == <<part, vars, ruleVars, agVars, selVars, pgVars, mcpVars, acpVars, wsVars,
               snapVars, catVars>>

\* A component at rest has one state.
RulesRest == RuleIdle({CHOOSE c \in RuleConfigs : TRUE}, {TRUE})
AcpRests == AcpIdle("done", {CHOOSE s \in AcpSessions : TRUE})

PartsInit ==
    /\ part \in {"questions", "rules", "agent", "selection", "pages", "mcp", "acp",
                "workspace", "snapshots", "catalog"}
    /\ Init
    /\ IF part = "rules" THEN RuleInit ELSE RulesRest
    /\ IF part = "agent" THEN AgInit ELSE AgIdle({TRUE}, {NoTodos})
    /\ IF part = "selection" THEN SelInit ELSE SelIdle(MaxSelTime)
    /\ IF part = "pages" THEN PgInit ELSE PgIdle({PgAbsent}, 0, "over")
    /\ IF part = "mcp" THEN McpInit ELSE McpIdle("off")
    /\ IF part = "acp" THEN AcpInit ELSE AcpRests
    /\ IF part = "workspace" THEN WsInit ELSE WsIdle({NoContent})
    /\ IF part = "snapshots" THEN SnapInit ELSE SnapIdle("off", MaxIterations)
    /\ IF part = "catalog" THEN CatInit ELSE CatIdle({Missing})

PartsNext ==
    /\ UNCHANGED part
    /\ \/ /\ part = "questions" /\ Next
          /\ UNCHANGED <<ruleVars, agVars, selVars, pgVars, mcpVars, acpVars,
                         wsVars, snapVars, catVars>>
       \/ /\ part = "rules" /\ RuleNext
          /\ UNCHANGED <<vars, agVars, selVars, pgVars, mcpVars, acpVars,
                         wsVars, snapVars, catVars>>
       \/ /\ part = "agent" /\ AgNext
          /\ UNCHANGED <<vars, ruleVars, selVars, pgVars, mcpVars, acpVars,
                         wsVars, snapVars, catVars>>
       \/ /\ part = "selection" /\ SelNext
          /\ UNCHANGED <<vars, ruleVars, agVars, pgVars, mcpVars, acpVars,
                         wsVars, snapVars, catVars>>
       \/ /\ part = "pages" /\ PgNext
          /\ UNCHANGED <<vars, ruleVars, agVars, selVars, mcpVars, acpVars,
                         wsVars, snapVars, catVars>>
       \/ /\ part = "mcp" /\ McpNext
          /\ UNCHANGED <<vars, ruleVars, agVars, selVars, pgVars, acpVars,
                         wsVars, snapVars, catVars>>
       \/ /\ part = "acp" /\ AcpNext
          /\ UNCHANGED <<vars, ruleVars, agVars, selVars, pgVars, mcpVars,
                         wsVars, snapVars, catVars>>
       \/ /\ part = "workspace" /\ WsNext
          /\ UNCHANGED <<vars, ruleVars, agVars, selVars, pgVars, mcpVars,
                         acpVars, snapVars, catVars>>
       \/ /\ part = "snapshots" /\ SnapNext
          /\ UNCHANGED <<vars, ruleVars, agVars, selVars, pgVars, mcpVars,
                         acpVars, wsVars, catVars>>
       \/ /\ part = "catalog" /\ CatNext
          /\ UNCHANGED <<vars, ruleVars, agVars, selVars, pgVars, mcpVars,
                         acpVars, wsVars, snapVars>>

PartsSpec == PartsInit /\ [][PartsNext]_partsVars /\ Fairness
=============================================================================
