----------------------------- MODULE Workspace ------------------------------
(***************************************************************************)
(* What the tools of a run do to the files of the workspace, and the two   *)
(* ways to take it back: the record of changes that the agent loop keeps   *)
(* (packages/agent/src/loop.ts) with the rollback tool                     *)
(* (packages/tools/src/tools/rollback.ts) and the revert route             *)
(* (packages/server/src/routes/session.ts).                                *)
(*                                                                         *)
(* The content of a file is a value, or None if there is no such file.     *)
(* The calls of one response run one after the other: the tools that       *)
(* write are not in the parallel batch.                                    *)
(***************************************************************************)
EXTENDS Integers, Sequences, FiniteSetsExt, Functions

CONSTANTS WsFiles,
          WsContents,
          NoContent,        \* what a path without a file has
          NoPath,           \* the path "?" of a change that names no file
          MaxChanges        \* bound on the changes of a run

ASSUME WorkspaceAssumption ==
    NoContent \notin WsContents /\ NoPath \notin WsFiles /\ MaxChanges \in Nat

VARIABLES
    files,      \* the workspace
    readFiles,  \* iterState.readFiles: what the session may overwrite
    changes,    \* fileChanges, oldest first: the path and what was there before
    reported,   \* how many of them the last onIteration handed to the rollback tool
    origin,     \* history: the files when the run began
    foreign,    \* history: files changed by what leaves no record of them
    undone      \* history: the step before was a rollback of everything, to its end

wsVars == <<files, readFiles, changes, reported, origin, foreign, undone>>

Content == WsContents \cup {NoContent}
Change == [path : WsFiles \cup {NoPath}, before : Content]
Exists(f) == files[f] # NoContent

WsTypeInvariant ==
    /\ files \in [WsFiles -> Content] /\ origin \in [WsFiles -> Content]
    /\ readFiles \in SUBSET WsFiles /\ foreign \in SUBSET WsFiles
    /\ changes \in Seq(Change) /\ Len(changes) <= MaxChanges
    /\ reported \in 0 .. Len(changes)
    /\ undone \in BOOLEAN

WsIdle(contents) ==
    /\ files \in [WsFiles -> contents]
    /\ origin = files
    /\ readFiles = {} /\ changes = <<>> /\ reported = 0 /\ foreign = {} /\ undone = FALSE

WsInit == WsIdle(Content)

-----------------------------------------------------------------------------
WsRead(f) ==
    /\ Exists(f)
    /\ readFiles' = readFiles \cup {f}
    /\ undone' = FALSE
    /\ UNCHANGED <<files, changes, reported, origin, foreign>>

\* executeToolWithProtection(): a file that is there has to be read first.
MayMutate(f) == f \in readFiles \/ ~Exists(f)

\* executeCall() keeps what was there before the tool runs, and collectResults() adds a
\* change to the record if the tool has succeeded.
Mutates(f, c) ==
    /\ MayMutate(f)
    /\ Len(changes) < MaxChanges
    /\ files' = [files EXCEPT ![f] = c]
    /\ changes' = Append(changes, [path |-> f, before |-> files[f]])
    /\ undone' = FALSE
    /\ UNCHANGED <<readFiles, reported, origin, foreign>>

WsWrite(f, c) == c # NoContent /\ Mutates(f, c)

\* patch and diff_patch need the file and a text that matches it.
WsPatch(f, c) == Exists(f) /\ c # NoContent /\ c # files[f] /\ Mutates(f, c)

\* delete also succeeds on a file that is not there.
WsDelete(f) == Mutates(f, NoContent)

Unrecorded(fs) == foreign' = foreign \cup fs

\* A shell command changes what it likes, and is recorded as a change of "?".
WsBash ==
    /\ Len(changes) < MaxChanges
    /\ \E f \in WsFiles, c \in Content :
          /\ files' = [files EXCEPT ![f] = c]
          /\ Unrecorded({f})
    /\ changes' = Append(changes, [path |-> NoPath, before |-> NoContent])
    /\ undone' = FALSE
    /\ UNCHANGED <<readFiles, reported, origin>>

\* One part of what apply_patch does; it needs no file to be read, leaves no record, and
\* goes on after a part that fails.  "add" overwrites; "delete" only says what it would do;
\* "move" overwrites its destination.
WsApplyPatch ==
    /\ \/ \E f \in WsFiles, c \in WsContents :                          \* add, update
             /\ files' = [files EXCEPT ![f] = c]
             /\ Unrecorded({f})
       \/ \E f, g \in WsFiles :                                         \* move
             /\ Exists(f)
             /\ files' = [files EXCEPT ![g] = files[f], ![f] = NoContent]
             /\ Unrecorded({f, g})
    /\ undone' = FALSE
    /\ UNCHANGED <<readFiles, changes, reported, origin>>

\* onIteration hands the session's changes to the rollback tool.
WsIteration ==
    /\ reported # Len(changes)
    /\ reported' = Len(changes)
    /\ undone' = FALSE
    /\ UNCHANGED <<files, readFiles, changes, origin, foreign>>

-----------------------------------------------------------------------------
\* Mutant of WrittenBack: in the order of the changes.
WrittenForth(is) ==
    [f \in WsFiles |-> LET hits == {i \in is : changes[i].path = f} IN
                       IF hits = {} THEN files[f] ELSE changes[Max(hits)].before]

\* The files once what was there before the changes `is` has been written back, latest change
\* first: the earliest one to a file has the last word.
WrittenBack(is) ==
    [f \in WsFiles |-> LET hits == {i \in is : changes[i].path = f} IN
                       IF hits = {} THEN files[f] ELSE changes[Min(hits)].before]

\* The rollback tool writes back, latest change first, what was there before, and removes
\* what was not.  It stops at the first failure, here behind change k, and may be asked for
\* one path.  What it writes is no change of the record.
WsRollback ==
    \E paths \in {WsFiles} \cup {{f} : f \in readFiles}, k \in 1 .. reported + 1 :
        /\ files' = WrittenBack({i \in k .. reported : changes[i].path \in paths})
        /\ undone' = (paths = WsFiles /\ \A i \in 1 .. k - 1 : changes[i].path \notin paths)
        /\ UNCHANGED <<readFiles, changes, reported, origin, foreign>>

\* POST revert works on the stored record, for any paths, stops at a failure as well, and
\* leaves alone what was not there before.
WsRevert ==
    /\ \E paths \in SUBSET WsFiles, k \in 1 .. reported + 1 :
          files' = WrittenBack({i \in k .. reported : /\ changes[i].path \in paths
                                                      /\ changes[i].before # NoContent})
    /\ undone' = FALSE
    /\ UNCHANGED <<readFiles, changes, reported, origin, foreign>>

WsNext ==
    \/ \E f \in WsFiles : WsRead(f) \/ WsDelete(f)
    \/ \E f \in WsFiles, c \in Content : WsWrite(f, c) \/ WsPatch(f, c)
    \/ WsBash \/ WsApplyPatch \/ WsIteration \/ WsRollback \/ WsRevert

WsSpec == WsInit /\ [][WsNext]_wsVars

-----------------------------------------------------------------------------
ChangedIn(s) == {s[i].path : i \in DOMAIN s}

\* A rollback of everything brings back the files as the run found them, however often they
\* were written, patched, deleted, rolled back or reverted before: except those changed by
\* a shell command or by apply_patch, and those changed only since the last iteration,
\* which the tool has not heard of.
RollbackUndoes ==
    undone => \A f \in WsFiles :
        \/ files[f] = origin[f]
        \/ f \in foreign
        \/ f \notin ChangedIn(SubSeq(changes, 1, reported)) /\ f \in ChangedIn(changes)
=============================================================================
