----------------------------- MODULE LspClient ------------------------------
(***************************************************************************)
(* The language-server client, StdioLSPClient of                           *)
(* packages/context/src/lsp-client.ts, as the lsp tool calls it            *)
(* (packages/tools/src/tools/lsp.ts) and as the server's integrations      *)
(* shut it down (packages/server/src/integrations).  Tool calls run        *)
(* concurrently; the client starts a server when it first needs one, and   *)
(* the server may exit, be killed, answer late or not at all.              *)
(*                                                                         *)
(* A server is numbered by its spawn.  A request that does not fit into    *)
(* the pipe waits for "drain" before it is entered among the pending ones. *)
(***************************************************************************)
EXTENDS Integers, FiniteSets

CONSTANTS LspCalls,     \* tool calls
          LspFiles,     \* the files they are about
          MaxServers,   \* bound on the spawns
          NoLspFile        \* of a call that asks for the cached diagnostics

VARIABLES
    lsp,        \* the fields of the client
    servers,    \* the processes it has spawned
    call        \* the tool calls, and "shutdown", of Integrations.dispose

lspVars == <<lsp, servers, call>>

None == 0
Spawned == 1 .. MaxServers
Shutdown == "shutdown"
LspActors == LspCalls \cup {Shutdown}

ASSUME LspClientAssumption ==
    MaxServers \in Nat \ {0} /\ NoLspFile \notin LspFiles /\ Shutdown \notin LspCalls

LspTypeInvariant ==
    /\ lsp \in [process : 0 .. MaxServers, initialized : BOOLEAN, startFailed : BOOLEAN,
                openFiles : SUBSET LspFiles, opening : SUBSET LspFiles]
    /\ servers \in [Spawned -> [state : {"none", "alive", "exited", "killed"},
                                told : [LspFiles -> 0 .. 2]]]
    /\ call \in [LspActors -> [pc : {"new", "spawned", "ready", "reading", "waiting", "ask",
                                     "draining", "pending", "exiting", "done", "failed"},
                               about : {"initialize", "file", "shutdown"},
                               file : LspFiles \cup {NoLspFile}, to : 0 .. MaxServers]]

LspIdle(pc, fs) ==
    /\ lsp = [process |-> None, initialized |-> FALSE, startFailed |-> FALSE,
              openFiles |-> {}, opening |-> {}]
    /\ servers = [s \in Spawned |-> [state |-> "none", told |-> [f \in LspFiles |-> 0]]]
    /\ call \in [LspActors -> [pc : {pc}, about : {"file"}, file : fs, to : {None}]]
    /\ call[Shutdown].file = NoLspFile

LspInit == LspIdle("new", LspFiles \cup {NoLspFile})

At(c, pc) == [call[c] EXCEPT !.pc = pc, !.about = "file", !.to = None]
Goes(c, pc) == call' = [call EXCEPT ![c] = At(c, pc)]
Alive(s) == s # None /\ servers[s].state = "alive"

\* The request is written to the client's process.  To one that was killed, whose pipe is
\* closed, write() answers false; "drain" will never come.
Sends(c, about) ==
    IF lsp.process = None
    THEN Goes(c, "failed")
    ELSE \E fits \in BOOLEAN :
            /\ fits => Alive(lsp.process)
            /\ call' = [call EXCEPT ![c] = [@ EXCEPT !.pc = IF fits THEN "pending" ELSE "draining",
                                            !.about = about, !.to = lsp.process]]

-----------------------------------------------------------------------------
\* ensureInitialized(): nothing keeps two first calls from both starting a server.
LspBegin(c) ==
    /\ call[c].pc = "new"
    /\ \/ /\ lsp.initialized
          /\ Goes(c, "ready")
          /\ UNCHANGED <<lsp, servers>>
       \/ /\ ~lsp.initialized /\ lsp.startFailed
          /\ Goes(c, "failed")
          /\ UNCHANGED <<lsp, servers>>
       \/ /\ ~lsp.initialized /\ ~lsp.startFailed
          /\ \E s \in Spawned :
                /\ \A t \in Spawned : servers[t].state = "none" <=> t >= s
                /\ lsp' = [lsp EXCEPT !.process = s]
                /\ servers' = [servers EXCEPT ![s].state = "alive"]
          /\ Goes(c, "spawned")
       \/ /\ ~lsp.initialized /\ ~lsp.startFailed            \* spawn() throws
          /\ lsp' = [lsp EXCEPT !.startFailed = TRUE]
          /\ Goes(c, "failed")
          /\ UNCHANGED servers

LspInitialize(c) ==
    /\ call[c].pc = "spawned"
    /\ IF lsp.startFailed THEN Goes(c, "failed") ELSE Sends(c, "initialize")
    /\ UNCHANGED <<lsp, servers>>

\* getDiagnostics() answers from its cache.
LspDiagnostics(c) ==
    /\ call[c].pc = "ready" /\ call[c].file = NoLspFile
    /\ Goes(c, "done")
    /\ UNCHANGED <<lsp, servers>>

\* Mutant of LspOpen: the file counts as open from here on.
LspOpenAtOnce(c) ==
    /\ call[c].pc = "ready" /\ call[c].file # NoLspFile
    /\ lsp' = [lsp EXCEPT !.openFiles = @ \cup {call[c].file}]
    /\ Goes(c, IF call[c].file \in lsp.openFiles THEN "ask" ELSE "reading")
    /\ UNCHANGED servers

\* ensureOpen(): one caller opens a file, others wait for it.
LspOpen(c) ==
    /\ call[c].pc = "ready" /\ call[c].file # NoLspFile
    /\ \/ call[c].file \in lsp.openFiles /\ Goes(c, "ask") /\ UNCHANGED lsp
       \/ /\ call[c].file \in lsp.opening \ lsp.openFiles
          /\ Goes(c, "waiting")
          /\ UNCHANGED lsp
       \/ /\ call[c].file \notin lsp.openFiles \cup lsp.opening
          /\ lsp' = [lsp EXCEPT !.opening = @ \cup {call[c].file}]
          /\ Goes(c, "reading")
    /\ UNCHANGED servers

Twice(n) == IF n = 2 THEN 2 ELSE n + 1
ToldOf(f) == IF Alive(lsp.process)
             THEN servers' = [servers EXCEPT ![lsp.process].told[f] = Twice(@)]
             ELSE UNCHANGED servers

\* Mutant of Awaken: the waiters are forgotten.
AwakenNone(f) == {}

Awaken(f) == {d \in LspCalls : call[d].pc = "waiting" /\ call[d].file = f}

\* The text is read, the waiters resume, and the server is told.
LspRead(c) ==
    /\ call[c].pc = "reading"
    /\ LET f == call[c].file IN
       /\ lsp' = [lsp EXCEPT !.openFiles = @ \cup {f}, !.opening = @ \ {f}]
       /\ call' = [d \in LspActors |-> IF d \in Awaken(f) \cup {c} THEN At(d, "ask")
                                                                     ELSE call[d]]
       /\ ToldOf(f)

LspAsk(c) ==
    /\ call[c].pc = "ask"
    /\ Sends(c, "file")
    /\ UNCHANGED <<lsp, servers>>

-----------------------------------------------------------------------------
\* The pipe takes the rest.  (An answer that came before is dropped, since the request had
\* no entry yet; the request then runs into its timer, as if nothing had come.)
LspDrain(c) ==
    /\ call[c].pc = "draining" /\ Alive(call[c].to)
    /\ call' = [call EXCEPT ![c].pc = "pending"]
    /\ UNCHANGED <<lsp, servers>>

\* handleData() with an answer, from whichever process.
LspReply(c) ==
    /\ call[c].pc = "pending" /\ Alive(call[c].to)
    /\ \/ call[c].about = "file" /\ Goes(c, "done") /\ UNCHANGED lsp
       \/ call[c].about = "shutdown" /\ Goes(c, "exiting") /\ UNCHANGED lsp
       \/ /\ call[c].about = "initialize"
          /\ lsp' = [lsp EXCEPT !.initialized = TRUE]
          /\ Goes(c, "ready")
    /\ UNCHANGED servers

Cleared == [lsp EXCEPT !.process = None, !.initialized = FALSE, !.openFiles = {}]

\* shutdown() at its end: whoever has a pending request is refused.
LspClear ==
    /\ lsp' = Cleared
    /\ call' = [d \in LspActors |->
                   IF d = Shutdown THEN At(d, "done")
                   ELSE IF call[d].pc = "pending" THEN At(d, "failed") ELSE call[d]]
    /\ UNCHANGED servers

\* An error answer or the timer of the request, which a request that drains does not have.
LspRefused(c) ==
    /\ call[c].pc = "pending"
    /\ IF c = Shutdown THEN LspClear
       ELSE Goes(c, "failed") /\ UNCHANGED <<lsp, servers>>

\* The exit handler of any process it ever spawned speaks of the current one; it overlooks
\* a process that was killed by a signal, as spawn()'s own timeout does.
LspExits(s, how) ==
    /\ Alive(s)
    /\ servers' = [servers EXCEPT ![s] = [state |-> IF how = "signal" THEN "killed" ELSE "exited",
                                          told |-> [f \in LspFiles |-> 0]]]
    /\ lsp' = IF how = "signal" THEN lsp
              ELSE [lsp EXCEPT !.initialized = FALSE, !.process = None,
                               !.startFailed = @ \/ how = "error"]
    /\ UNCHANGED call

-----------------------------------------------------------------------------
\* shutdown(): a process with an exit code is forgotten (one killed by a signal has none);
\* else the files are closed and the server is asked to shut down.
LspShutdown ==
    /\ call[Shutdown].pc = "new"
    /\ IF lsp.process = None
       THEN /\ lsp' = [lsp EXCEPT !.initialized = FALSE]
            /\ Goes(Shutdown, "done")
            /\ UNCHANGED servers
       ELSE /\ servers' = [servers EXCEPT ![lsp.process].told =
                  [f \in LspFiles |-> IF f \in lsp.openFiles THEN 0 ELSE @[f]]]
            /\ Sends(Shutdown, "shutdown")
            /\ UNCHANGED lsp

\* It waits for the exit, or two seconds, and clears; the kill comes later.
LspShutDown ==
    /\ call[Shutdown].pc = "exiting"
    /\ LspClear

LspNext ==
    \/ \E c \in LspCalls : LspBegin(c) \/ LspInitialize(c) \/ LspDiagnostics(c) \/ LspOpen(c)
                           \/ LspRead(c) \/ LspAsk(c)
    \/ \E c \in LspActors : LspDrain(c) \/ LspReply(c) \/ LspRefused(c)
    \/ \E s \in Spawned : \E how \in {"zero", "error", "signal"} : LspExits(s, how)
    \/ LspShutdown \/ LspShutDown

LspSpec == LspInit /\ [][LspNext]_lspVars

\* The client's own steps and its timers; a pipe to a live server drains or breaks.
\* Nothing is assumed of a server's answers.
LspFairness ==
    /\ \A c \in LspCalls :
          WF_lspVars(LspBegin(c) \/ LspInitialize(c) \/ LspDiagnostics(c) \/ LspOpen(c)
                     \/ LspRead(c) \/ LspAsk(c) \/ LspDrain(c) \/ LspRefused(c))

-----------------------------------------------------------------------------
\* No server is told twice that a file was opened, whoever comes while the file is read;
\* and as long as one server was started and nothing shuts it down, a request about a file
\* comes after the notification that it is open.  (openFiles outlives a server, so the next
\* one is asked about files it was never told of.)
AskedIsOpen ==
    /\ \A s \in Spawned, f \in LspFiles : servers[s].told[f] <= 1
    /\ \A c \in LspCalls :
          call[c].pc = "pending" /\ call[c].about = "file" /\ Alive(call[c].to)
            /\ (\A s \in Spawned : s > 1 => servers[s].state = "none")
            /\ call[Shutdown].pc = "new" =>
              servers[call[c].to].told[call[c].file] = 1

\* Every call of the tool ends, except one whose request was written to a process that is
\* dead, which no timer watches and no exit handler releases.
LspCallEnds ==
    \A c \in LspCalls :
        (call[c].pc # "new") ~>
            \/ call[c].pc \in {"done", "failed"}
            \/ call[c].pc = "draining" /\ ~Alive(call[c].to)

\* What lsp-client.ts:243 says of shutdown ("so callers don't hang"), and what
\* Integrations.dispose() waits for.
ShutdownReleases == \A c \in LspActors :
    (call[c].pc # "new") ~> (call[c].pc \in {"done", "failed"})
=============================================================================
