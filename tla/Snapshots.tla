----------------------------- MODULE Snapshots ------------------------------
(***************************************************************************)
(* The git snapshots of a workspace, packages/agent/src/snapshot.ts, as    *)
(* onIteration of packages/agent/src/factory.ts takes them (without        *)
(* waiting) and as the restore route of                                    *)
(* packages/server/src/routes/session.ts brings them back.                 *)
(*                                                                         *)
(* All of them share one git directory and so one index, whose lock a git  *)
(* command that writes the index holds while it runs; a second one fails.  *)
(* The tools of the run go on meanwhile.  The content of a file is the     *)
(* iteration that wrote it last.                                           *)
(***************************************************************************)
EXTENDS Integers, FiniteSets

CONSTANTS SnapFiles,
          MaxIterations     \* bound on the iterations of a run

ASSUME SnapshotsAssumption == MaxIterations \in Nat

VARIABLES
    tree,       \* the working tree
    index,      \* the index of the snapshot repository
    iteration,  \* iterations that have ended
    tracker,    \* iteration -> its track()
    restorer,   \* the restore route
    kept        \* the iterations whose hash is in the session's snapshots

snapVars == <<tree, index, iteration, tracker, restorer, kept>>

Iterations == 1 .. MaxIterations
Absent == -1
Trees == [SnapFiles -> Absent .. MaxIterations + 1]
NoTree == [f \in SnapFiles |-> Absent]

\* `undisturbed`: nothing else has touched the tree or the index since it began.
Tracker == [pc : {"new", "add", "adding", "write", "done", "lost"},
            began : Trees, hash : Trees, undisturbed : BOOLEAN]
Restorer == [pc : {"off", "idle", "read", "reading", "checkout"}, of : 0 .. MaxIterations,
             undisturbed : BOOLEAN]

SnapTypeInvariant ==
    /\ tree \in Trees /\ index \in Trees
    /\ iteration \in 0 .. MaxIterations
    /\ tracker \in [Iterations -> Tracker]
    /\ restorer \in Restorer
    /\ kept \in SUBSET Iterations

NoTracker == [pc |-> "new", began |-> NoTree, hash |-> NoTree, undisturbed |-> TRUE]

SnapIdle(pc, ended) ==
    /\ tree \in [SnapFiles -> {Absent, 0}] /\ (pc = "off" => tree = NoTree)
    /\ index = NoTree
    /\ iteration = ended
    /\ tracker = [i \in Iterations |-> NoTracker]
    /\ restorer = [pc |-> pc, of |-> 0, undisturbed |-> FALSE]
    /\ kept = {}

SnapInit == SnapIdle("idle", 0)

Locked == restorer.pc = "reading" \/ \E i \in Iterations : tracker[i].pc = "adding"

Rests == {"new", "done", "lost"}
Disturbed(ts) ==
    [i \in Iterations |-> [ts[i] EXCEPT !.undisturbed = @ /\ ts[i].pc \in Rests]]
OthersDisturbed(ts, i) == [Disturbed(ts) EXCEPT ![i] = ts[i]]
RestoreDisturbed == [restorer EXCEPT !.undisturbed = @ /\ restorer.pc = "idle"]

-----------------------------------------------------------------------------
\* A tool, in the iteration that is under way, writes or removes a file.
SnapTool(f) ==
    /\ restorer.pc # "off"
    /\ \E c \in {iteration + 1, Absent} : tree' = [tree EXCEPT ![f] = c]
    /\ tracker' = Disturbed(tracker)
    /\ restorer' = [RestoreDisturbed EXCEPT !.undisturbed = FALSE]
    /\ UNCHANGED <<index, iteration, kept>>

\* An iteration ends, and track() is called.
SnapIteration ==
    /\ iteration < MaxIterations
    /\ iteration' = iteration + 1
    /\ tracker' = [tracker EXCEPT ![iteration + 1] = [NoTracker EXCEPT !.pc = "add", !.began = tree]]
    /\ UNCHANGED <<tree, index, restorer, kept>>

\* git add takes the lock of the index, or fails on it, and track() ends without a hash.
TrackAdd(i) ==
    /\ tracker[i].pc = "add"
    /\ tracker' = [tracker EXCEPT ![i].pc = IF Locked THEN "lost" ELSE "adding"]
    /\ UNCHANGED <<tree, index, iteration, restorer, kept>>

TrackAdded(i) ==
    /\ tracker[i].pc = "adding"
    /\ index' = tree
    /\ tracker' = OthersDisturbed([tracker EXCEPT ![i].pc = "write"], i)
    /\ restorer' = RestoreDisturbed
    /\ UNCHANGED <<tree, iteration, kept>>

\* git write-tree reads the index without its lock.  The hash goes into the object that
\* onIteration was given: if the next iteration has copied it by then, it is seen only
\* where the two share a snapshots object, which an earlier hash has made.
TrackWritten(i) ==
    /\ tracker[i].pc = "write"
    /\ tracker' = [tracker EXCEPT ![i].pc = "done", ![i].hash = index]
    /\ kept' = IF iteration = i \/ \E j \in kept : j <= i THEN kept \cup {i} ELSE kept
    /\ UNCHANGED <<tree, index, iteration, restorer>>

-----------------------------------------------------------------------------
\* POST restore of a hash of the session.
SnapRestore(i) ==
    /\ restorer.pc = "idle"
    /\ i \in kept
    /\ restorer' = [pc |-> "read", of |-> i, undisturbed |-> ~Locked]
    /\ UNCHANGED <<tree, index, iteration, tracker, kept>>

\* A read-tree that fails on the lock is not noticed.
RestoreRead ==
    /\ restorer.pc = "read"
    /\ restorer' = IF Locked THEN [restorer EXCEPT !.pc = "checkout", !.undisturbed = FALSE]
                             ELSE [restorer EXCEPT !.pc = "reading"]
    /\ UNCHANGED <<tree, index, iteration, tracker, kept>>

RestoreHasRead ==
    /\ restorer.pc = "reading"
    /\ index' = tracker[restorer.of].hash
    /\ tracker' = Disturbed(tracker)
    /\ restorer' = [restorer EXCEPT !.pc = "checkout"]
    /\ UNCHANGED <<tree, iteration, kept>>

\* Mutant of CheckedOut: without -f, what is there stays.
CheckedOutMissing == [f \in SnapFiles |-> IF tree[f] = Absent THEN index[f] ELSE tree[f]]

\* checkout-index writes the files of the index, and removes none.
CheckedOut == [f \in SnapFiles |-> IF index[f] = Absent THEN tree[f] ELSE index[f]]

RestoreCheckout ==
    /\ restorer.pc = "checkout"
    /\ tree' = CheckedOut
    /\ tracker' = Disturbed(tracker)
    /\ restorer' = [restorer EXCEPT !.pc = "idle"]
    /\ UNCHANGED <<index, iteration, kept>>

SnapNext ==
    \/ SnapIteration \/ RestoreRead \/ RestoreHasRead \/ RestoreCheckout
    \/ \E f \in SnapFiles : SnapTool(f)
    \/ \E i \in Iterations : TrackAdd(i) \/ TrackAdded(i) \/ TrackWritten(i) \/ SnapRestore(i)

SnapSpec == SnapInit /\ [][SnapNext]_snapVars

-----------------------------------------------------------------------------
\* After a restore that nothing disturbed, every file that was there when the iteration
\* ended has its content of then, if nothing disturbed the snapshot either: no tool of the
\* next iteration, no other git command, and no restore.
RestoreBringsBack ==
    restorer.pc = "idle" /\ restorer.undisturbed =>
        LET t == tracker[restorer.of] IN
        t.undisturbed => \A f \in SnapFiles :
            t.began[f] # Absent => tree[f] = t.began[f]

\* What snapshot.ts:35 says of restore(): the entire working tree.
RestoreIsComplete ==
    restorer.pc = "idle" /\ restorer.undisturbed /\ tracker[restorer.of].undisturbed =>
        tree = tracker[restorer.of].began
=============================================================================
