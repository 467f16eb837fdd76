-------------------------------- MODULE Mcp ---------------------------------
(***************************************************************************)
(* The connections to MCP servers: the module-wide map of                  *)
(* packages/tools/src/mcp.ts, and the operations that the integration      *)
(* (packages/server/src/integrations/mcp.ts) and the routes                *)
(* (packages/server/src/routes/mcp.ts) offer on it, several at a time.     *)
(*                                                                         *)
(* An operation is "connect" or "disconnect" of one name, "connectAll" of  *)
(* the configured names (at startup, and again by the first route that     *)
(* finds no integration), or "dispose".  A client is numbered by its       *)
(* creation; opening one starts its transport, a process or a connection.  *)
(***************************************************************************)
EXTENDS Integers, FiniteSets

CONSTANTS McpNames,
          McpOps,           \* operations that may be under way at a time
          MaxClients,       \* bound on the clients created
          McpNobody         \* not a name

ASSUME McpAssumption == MaxClients \in Nat /\ McpNobody \notin McpNames

VARIABLES
    connections,    \* the map: name -> client, 0 for none
    clients,        \* client -> its state and the name it was made for
    mcpOp,          \* the operations
    mcpAnnounced,      \* name -> the last mcp event about it since the last dispose()
    raced           \* history: names that two operations worked on at once

mcpVars == <<connections, clients, mcpOp, mcpAnnounced, raced>>

McpClients == 1 .. MaxClients
NoClient == 0
McpKinds == {"connect", "disconnect", "connectAll", "dispose"}

McpTypeInvariant ==
    /\ connections \in [McpNames -> 0 .. MaxClients]
    /\ clients \in [McpClients -> [state : {"none", "open", "closed"},
                                   name : McpNames \cup {McpNobody}]]
    /\ mcpOp \in [McpOps -> [pc : {"idle", "next", "connecting", "failing", "closing",
                                   "disposing", "off"},
                             kind : McpKinds, name : McpNames \cup {McpNobody},
                             client : 0 .. MaxClients, left : SUBSET McpNames]]
    /\ mcpAnnounced \in [McpNames -> {"nothing", "connected", "disconnected", "error"}]
    /\ raced \in SUBSET McpNames

Resting(pc) == [pc |-> pc, kind |-> "connect", name |-> McpNobody, client |-> NoClient,
                left |-> {}]

McpIdle(pc) ==
    /\ connections = [n \in McpNames |-> NoClient]
    /\ clients = [k \in McpClients |-> [state |-> "none", name |-> McpNobody]]
    /\ mcpOp = [o \in McpOps |-> Resting(pc)]
    /\ mcpAnnounced = [n \in McpNames |-> "nothing"]
    /\ raced = {}

McpInit == McpIdle("idle")

Moves(o, pc) == [mcpOp EXCEPT ![o].pc = pc]
Over(o) == [mcpOp EXCEPT ![o] = Resting("idle")]
\* connectAll goes on to its next name.
Onward(o) == IF mcpOp[o].kind = "connectAll"
             THEN [mcpOp EXCEPT ![o] = [@ EXCEPT !.pc = "next", !.name = McpNobody,
                                                 !.client = NoClient]]
             ELSE Over(o)
Says(n, what) == mcpAnnounced' = [mcpAnnounced EXCEPT ![n] = what]

\* The names an operation is at work on.
Works(o) == CASE mcpOp[o].pc = "disposing" -> McpNames
              [] mcpOp[o].pc = "idle" -> {}
              [] OTHER -> McpNames \cap {mcpOp[o].name}
Races(o, ns) == raced' = raced \cup (ns \cap UNION {Works(p) : p \in McpOps \ {o}})

\* connectMCPServer(): the transport is made, which may fail, and the client opens it.
Opens(o, n, op) ==
    /\ Races(o, {n})
    /\ \/ \E k \in McpClients :
             /\ \A j \in McpClients : clients[j].state = "none" <=> j >= k
             /\ clients' = [clients EXCEPT ![k] = [state |-> "open", name |-> n]]
             /\ mcpOp' = [mcpOp EXCEPT ![o] = [op EXCEPT !.pc = "connecting", !.name = n,
                                                         !.client = k]]
             /\ UNCHANGED <<connections, mcpAnnounced>>
       \/ /\ connections' = [connections EXCEPT ![n] = NoClient]
          /\ Says(n, "error")
          /\ mcpOp' = [mcpOp EXCEPT ![o] = op]
          /\ UNCHANGED clients

-----------------------------------------------------------------------------
\* POST connect: a connected name is left as it is.
McpConnect(o, n) ==
    /\ mcpOp[o].pc = "idle"
    /\ connections[n] = NoClient
    /\ Opens(o, n, mcpOp[o])

\* connectAllMCPServers(), one name after the other.
McpConnectAll(o) ==
    /\ mcpOp[o].pc = "idle"
    /\ mcpOp' = [mcpOp EXCEPT ![o] = [@ EXCEPT !.pc = "next", !.kind = "connectAll",
                                               !.left = McpNames]]
    /\ UNCHANGED <<connections, clients, mcpAnnounced, raced>>

McpConnectNext(o) ==
    /\ mcpOp[o].pc = "next"
    /\ \/ \E n \in mcpOp[o].left :
             IF connections[n] # NoClient
             THEN /\ mcpOp' = [mcpOp EXCEPT ![o].left = @ \ {n}]
                  /\ UNCHANGED <<connections, clients, mcpAnnounced, raced>>
             ELSE Opens(o, n, [mcpOp[o] EXCEPT !.left = @ \ {n}])
       \/ /\ mcpOp[o].left = {}
          /\ mcpOp' = Over(o)
          /\ UNCHANGED <<connections, clients, mcpAnnounced, raced>>

\* client.connect() and listTools() have answered: the connection is entered, over
\* whatever the name has by now.
McpConnected(o) ==
    /\ mcpOp[o].pc = "connecting"
    /\ connections' = [connections EXCEPT ![mcpOp[o].name] = mcpOp[o].client]
    /\ Says(mcpOp[o].name, "connected")
    /\ mcpOp' = Onward(o)
    /\ UNCHANGED <<clients, raced>>

Closes(k) == clients' = [clients EXCEPT ![k].state = "closed"]

\* Mutant of McpConnectFails: the transport is left as it is.
McpConnectFailsOpen(o) ==
    /\ mcpOp[o].pc = "connecting"
    /\ mcpOp' = Moves(o, "failing")
    /\ UNCHANGED <<connections, clients, mcpAnnounced, raced>>

\* Either of them throws: the transport is closed ...
McpConnectFails(o) ==
    /\ mcpOp[o].pc = "connecting"
    /\ Closes(mcpOp[o].client)
    /\ mcpOp' = Moves(o, "failing")
    /\ UNCHANGED <<connections, mcpAnnounced, raced>>

\* ... and the name's entry deleted, whoever's it is.
McpGivesUp(o) ==
    /\ mcpOp[o].pc = "failing"
    /\ connections' = [connections EXCEPT ![mcpOp[o].name] = NoClient]
    /\ Says(mcpOp[o].name, "error")
    /\ mcpOp' = Onward(o)
    /\ UNCHANGED <<clients, raced>>

-----------------------------------------------------------------------------
\* POST disconnect of a name that is connected: its client is closed first.
McpDisconnect(o, n) ==
    /\ mcpOp[o].pc = "idle"
    /\ connections[n] # NoClient
    /\ Closes(connections[n])
    /\ mcpOp' = [mcpOp EXCEPT ![o] = [@ EXCEPT !.pc = "closing", !.kind = "disconnect",
                                               !.name = n]]
    /\ Races(o, {n})
    /\ UNCHANGED <<connections, mcpAnnounced>>

McpDisconnected(o) ==
    /\ mcpOp[o].pc = "closing"
    /\ connections' = [connections EXCEPT ![mcpOp[o].name] = NoClient]
    /\ Says(mcpOp[o].name, "disconnected")
    /\ mcpOp' = Over(o)
    /\ UNCHANGED <<clients, raced>>

McpDispose(o) ==
    /\ mcpOp[o].pc = "idle"
    /\ mcpOp' = [mcpOp EXCEPT ![o] = [@ EXCEPT !.pc = "disposing", !.kind = "dispose",
                                               !.left = McpNames]]
    /\ Races(o, McpNames)
    /\ UNCHANGED <<connections, clients, mcpAnnounced>>

\* disconnectAllMCPServers() closes one client after the other and clears the map at the
\* end, without a word on the bus.
McpDisposes(o) ==
    /\ mcpOp[o].pc = "disposing"
    /\ LET live == {n \in mcpOp[o].left : connections[n] # NoClient} IN
       \/ \E n \in live :
             /\ Closes(connections[n])
             /\ mcpOp' = [mcpOp EXCEPT ![o].left = @ \ {n}]
             /\ UNCHANGED <<connections, mcpAnnounced>>
       \/ /\ live = {}
          /\ connections' = [n \in McpNames |-> NoClient]
          /\ mcpAnnounced' = [n \in McpNames |-> "nothing"]
          /\ mcpOp' = Over(o)
          /\ UNCHANGED clients
    /\ UNCHANGED raced

McpNext ==
    \E o \in McpOps :
        \/ McpConnectAll(o) \/ McpConnectNext(o) \/ McpConnected(o) \/ McpConnectFails(o)
        \/ McpGivesUp(o) \/ McpDisconnected(o) \/ McpDispose(o) \/ McpDisposes(o)
        \/ \E n \in McpNames : McpConnect(o, n) \/ McpDisconnect(o, n)

McpSpec == McpInit /\ [][McpNext]_mcpVars

-----------------------------------------------------------------------------
\* Where no two operations worked on a name at once: a client that is open is the one its
\* name is connected to, or is being connected; a connected name's client is open, or
\* being closed; and the last event about the name says which.
ConnectionsAccounted ==
    \A n \in McpNames \ raced :
        /\ \A k \in McpClients :
              clients[k].state = "open" /\ clients[k].name = n =>
                  \/ connections[n] = k
                  \/ \E o \in McpOps : mcpOp[o].client = k /\ mcpOp[o].pc = "connecting"
        /\ (\A o \in McpOps : n \notin Works(o)) =>
              /\ connections[n] # NoClient => clients[connections[n]].state = "open"
              /\ mcpAnnounced[n] = "connected" <=> connections[n] # NoClient

\* Without the exception it does not hold: of two connects of one name the slower one takes
\* the entry, and nobody can close the client of the other any more.
NoneLeaked ==
    \A k \in McpClients : clients[k].state = "open" =>
        \/ connections[clients[k].name] = k
        \/ \E o \in McpOps : mcpOp[o].client = k
=============================================================================
