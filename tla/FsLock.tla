-------------------------------- MODULE FsLock --------------------------------
(***************************************************************************)
(* packages/session/src/fs-store.ts: save() and delete() of one session    *)
(* file, by any number of processes that share the sessions directory.     *)
(* Every file-system call is an await, so each is a step of its own.        *)
(*                                                                         *)
(* A call is a saver.  A file is known by the saver that created it, since *)
(* what a saver has open stays its own when the name is taken by another.  *)
(* Time is kept as ages that stop growing once they exceed every limit the *)
(* code compares them with, so a behaviour may last as long as it likes.   *)
(***************************************************************************)
EXTENDS Naturals, FiniteSets

CONSTANTS Savers,       \* the save() and delete() calls on the session
          LockTimeout,  \* LOCK_TIMEOUT_MS, in ticks
          NoFile,       \* a name that names no file
          Old           \* the session file from before the behaviour

ASSUME FsLockAssumption ==
    /\ NoFile \notin Savers
    /\ Old \notin Savers
    /\ Old # NoFile
    /\ NoFile \notin [by : Savers, stamped : BOOLEAN, age : Nat]
    /\ LockTimeout \in Nat \ {0}
    /\ {"empty", "torn"} \cap Savers = {}

VARIABLES
    pc,         \* pc[p]: the file-system call p is about to make
    op,         \* op[p]: "save" or "delete"
    result,     \* result[p]: how the call of p ends, or will once released
    waited,     \* waited[p]: Date.now() - start of acquireLock
    seen,       \* seen[p]: the lock file p has read and not yet judged
    lock,       \* <id>.json.lock
    tmp,        \* <id>.json.tmp
    path,       \* <id>.json
    fd,         \* fd[p]: the file p has open for writing
    data,       \* data[p]: what the file that p created holds
    met,        \* met[p]: the savers at work at some time of p's wait
    overtaken   \* holders whose lock file somebody else has removed

callVars == <<op, result, waited, seen>>
fileVars == <<tmp, path, fd, data>>
vars == <<pc, callVars, lock, fileVars, met, overtaken>>

WaitLimit == 2 * LockTimeout
Lock == [by : Savers, stamped : BOOLEAN, age : 0 .. LockTimeout + 1]

Waiting == {"opening", "reading", "judging", "breaking"}
Holding == {"stamping", "holding", "cleared", "writing", "written", "releasing"}
AtWork(p) == pc[p] \in Waiting \cup Holding

TypeInvariant ==
    /\ pc \in [Savers -> Waiting \cup Holding \cup {"idle", "over", "dead"}]
    /\ op \in [Savers -> {"save", "delete"}]
    /\ result \in [Savers -> {"none", "ok", "error", "gaveUp"}]
    /\ waited \in [Savers -> 0 .. WaitLimit + 1]
    /\ seen \in [Savers -> Lock \cup {NoFile}]
    /\ lock \in Lock \cup {NoFile}
    /\ tmp \in Savers \cup {NoFile}
    /\ path \in Savers \cup {NoFile, Old}
    /\ fd \in [Savers -> Savers \cup {NoFile}]
    /\ data \in [Savers -> Savers \cup {"empty", "torn"}]
    /\ met \in [Savers -> SUBSET Savers]
    /\ overtaken \subseteq Savers

Init ==
    /\ pc = [p \in Savers |-> "idle"]
    /\ op \in [Savers -> {"save", "delete"}]
    /\ result = [p \in Savers |-> "none"]
    /\ waited = [p \in Savers |-> 0]
    /\ seen = [p \in Savers |-> NoFile]
    /\ lock = NoFile
    /\ tmp = NoFile
    /\ path \in {NoFile, Old}
    /\ fd = [p \in Savers |-> NoFile]
    /\ data = [p \in Savers |-> "empty"]
    /\ met = [p \in Savers |-> {}]
    /\ overtaken = {}

-----------------------------------------------------------------------------
Goto(p, from, to) == pc[p] = from /\ pc' = [pc EXCEPT ![p] = to]
Ends(p, how) == result' = [result EXCEPT ![p] = how]
WaitOver(p) == waited' = [waited EXCEPT ![p] = 0]
Closed(p) == fd' = [fd EXCEPT ![p] = NoFile]

\* Mutant of Stale: a lock without a timestamp is not stale.
StaleIfStamped(l) == l.age > LockTimeout

\* A lock is stale when its timestamp is too old, and when it has none: the file
\* is created empty, and an empty file reads as the epoch.
Stale(l) == ~l.stamped \/ l.age > LockTimeout
Breakable(l) == l # NoFile /\ Stale(l)

\* rm(lockPath, { force: true }), whoever's lock it is.
RemoveLock(p) ==
    /\ lock' = NoFile
    /\ overtaken' = IF lock # NoFile /\ lock.by # p /\ pc[lock.by] \in Holding
                    THEN overtaken \cup {lock.by} ELSE overtaken

\* save() or delete() is called.
Begin(p) ==
    /\ Goto(p, "idle", "opening")
    /\ met' = [q \in Savers |->
                  IF q = p THEN {r \in Savers : AtWork(r)}
                  ELSE IF pc[q] \in Waiting THEN met[q] \cup {p} ELSE met[q]]
    /\ UNCHANGED <<callVars, lock, fileVars, overtaken>>

-----------------------------------------------------------------------------
\* Mutant of OpenLock: opened with "w", not "wx".
OpenLockAnyway(p) ==
    /\ Goto(p, "opening", "stamping")
    /\ lock' = [by |-> p, stamped |-> FALSE, age |-> 0]
    /\ WaitOver(p)
    /\ UNCHANGED <<op, result, seen, fileVars, met, overtaken>>

\* acquireLock(): open(lockPath, "wx") creates the file, or finds it there ...
OpenLock(p) ==
    /\ \/ /\ Goto(p, "opening", "stamping")
          /\ lock = NoFile
          /\ lock' = [by |-> p, stamped |-> FALSE, age |-> 0]
          /\ WaitOver(p)
       \/ /\ Goto(p, "opening", "reading")
          /\ lock # NoFile
          /\ UNCHANGED <<lock, waited>>
    /\ UNCHANGED <<op, result, seen, fileVars, met, overtaken>>

\* ... and the timestamp is written into the file that was created.
StampLock(p) ==
    /\ Goto(p, "stamping", "holding")
    /\ lock' = IF lock # NoFile /\ lock.by = p THEN [lock EXCEPT !.stamped = TRUE] ELSE lock
    /\ UNCHANGED <<callVars, fileVars, met, overtaken>>

\* Any other error of the two fails the call and leaves what it created.
LockFails(p) ==
    /\ Goto(p, "opening", "over") \/ Goto(p, "stamping", "over")
    /\ Ends(p, "error")
    /\ WaitOver(p)
    /\ UNCHANGED <<op, seen, lock, fileVars, met, overtaken>>

\* The lock file that is there is read; it may be gone by now.
ReadLock(p) ==
    /\ Goto(p, "reading", "judging")
    /\ seen' = [seen EXCEPT ![p] = lock]
    /\ UNCHANGED <<op, result, waited, lock, fileVars, met, overtaken>>

\* What was read is judged when it arrives: a stale lock is to be broken, else the
\* call gives up after WaitLimit, else it sleeps and tries again.
Judge(p) ==
    /\ \/ /\ Goto(p, "judging", "breaking")
          /\ Breakable(seen[p])
          /\ UNCHANGED <<result, waited>>
       \/ /\ ~Breakable(seen[p])
          /\ \/ /\ Goto(p, "judging", "over")
                /\ waited[p] > WaitLimit
                /\ Ends(p, "gaveUp")
                /\ WaitOver(p)
             \/ /\ Goto(p, "judging", "opening")
                /\ waited[p] <= WaitLimit
                /\ UNCHANGED <<result, waited>>
    /\ seen' = [seen EXCEPT ![p] = NoFile]
    /\ UNCHANGED <<op, lock, fileVars, met, overtaken>>

\* Mutant of BreakLock: the file is not removed.
BreakLockInVain(p) ==
    /\ Goto(p, "breaking", "opening")
    /\ UNCHANGED <<callVars, lock, fileVars, met, overtaken>>

BreakLock(p) ==
    /\ Goto(p, "breaking", "opening")
    /\ RemoveLock(p)
    /\ UNCHANGED <<callVars, fileVars, met>>

-----------------------------------------------------------------------------
\* save(): the temporary file of an earlier crash is removed ...
ClearTmp(p) ==
    /\ Goto(p, "holding", "cleared")
    /\ op[p] = "save"
    /\ tmp' = NoFile
    /\ UNCHANGED <<callVars, lock, path, fd, data, met, overtaken>>

\* Mutant of OpenTmp: the session file is written in place.
OpenInPlace(p) ==
    /\ Goto(p, "cleared", "writing")
    /\ op[p] = "save"
    /\ tmp' = p
    /\ path' = p
    /\ fd' = [fd EXCEPT ![p] = p]
    /\ data' = [data EXCEPT ![p] = "empty"]
    /\ UNCHANGED <<callVars, lock, met, overtaken>>

\* ... writeFile opens it, creating it or truncating the one that is there ...
OpenTmp(p) ==
    LET file == IF tmp = NoFile THEN p ELSE tmp
    IN  /\ Goto(p, "cleared", "writing")
        /\ op[p] = "save"
        /\ tmp' = file
        /\ fd' = [fd EXCEPT ![p] = file]
        /\ data' = [data EXCEPT ![file] = "empty"]
        /\ UNCHANGED <<callVars, lock, path, met, overtaken>>

\* ... and writes from its start: over what another saver wrote, this may leave the
\* end of a longer session behind it.
WriteTmp(p) ==
    /\ Goto(p, "writing", "written")
    /\ \E d \in {p, "torn"} :
          /\ d = "torn" => data[fd[p]] # "empty"
          /\ data' = [data EXCEPT ![fd[p]] = d]
    /\ Closed(p)
    /\ UNCHANGED <<callVars, lock, tmp, path, met, overtaken>>

\* ... then the name is moved, which fails when it names no file.
Rename(p) ==
    /\ Goto(p, "written", "releasing")
    /\ \/ /\ tmp # NoFile
          /\ path' = tmp
          /\ tmp' = NoFile
          /\ Ends(p, "ok")
       \/ /\ tmp = NoFile
          /\ Ends(p, "error")
          /\ UNCHANGED <<path, tmp>>
    /\ UNCHANGED <<op, waited, seen, lock, fd, data, met, overtaken>>

\* delete(): both names are removed.
RemovePath(p) ==
    /\ Goto(p, "holding", "cleared")
    /\ op[p] = "delete"
    /\ path' = NoFile
    /\ UNCHANGED <<callVars, lock, tmp, fd, data, met, overtaken>>

RemoveTmp(p) ==
    /\ Goto(p, "cleared", "releasing")
    /\ op[p] = "delete"
    /\ tmp' = NoFile
    /\ Ends(p, "ok")
    /\ UNCHANGED <<op, waited, seen, lock, path, fd, data, met, overtaken>>

\* Mutant of IoFails: no finally block.
IoFailsForGood(p) ==
    /\ pc[p] \in {"holding", "cleared", "writing", "written"}
    /\ pc' = [pc EXCEPT ![p] = "over"]
    /\ Ends(p, "error")
    /\ Closed(p)
    /\ UNCHANGED <<op, waited, seen, lock, tmp, path, data, met, overtaken>>

\* A failing call takes both to their finally block.
IoFails(p) ==
    /\ \/ op[p] = "save" /\ pc[p] \in {"cleared", "writing", "written"}
       \/ op[p] = "delete" /\ pc[p] = "holding"
    /\ pc' = [pc EXCEPT ![p] = "releasing"]
    /\ Ends(p, "error")
    /\ Closed(p)
    /\ UNCHANGED <<op, waited, seen, lock, tmp, path, data, met, overtaken>>

Release(p) ==
    /\ Goto(p, "releasing", "over")
    /\ RemoveLock(p)
    /\ UNCHANGED <<callVars, fileVars, met>>

-----------------------------------------------------------------------------
Grow(n, limit) == IF n <= limit THEN n + 1 ELSE n
Aged(l) == IF l = NoFile \/ ~l.stamped THEN l
           ELSE [l EXCEPT !.age = Grow(@, LockTimeout)]

Tick ==
    /\ lock' = Aged(lock)
    /\ seen' = [p \in Savers |-> Aged(seen[p])]
    /\ waited' = [p \in Savers |->
                     IF pc[p] \in Waiting THEN Grow(waited[p], WaitLimit) ELSE 0]
    /\ UNCHANGED <<pc, op, result, fileVars, met, overtaken>>

\* The process of p dies in the middle of the call.
Crash(p) ==
    /\ AtWork(p)
    /\ pc' = [pc EXCEPT ![p] = "dead"]
    /\ WaitOver(p)
    /\ seen' = [seen EXCEPT ![p] = NoFile]
    /\ Closed(p)
    /\ UNCHANGED <<op, result, lock, tmp, path, data, met, overtaken>>

Work(p) ==
    \/ OpenLock(p) \/ StampLock(p) \/ ReadLock(p) \/ Judge(p) \/ BreakLock(p)
    \/ ClearTmp(p) \/ OpenTmp(p) \/ WriteTmp(p) \/ Rename(p)
    \/ RemovePath(p) \/ RemoveTmp(p) \/ Release(p)

Next ==
    \/ \E p \in Savers : Begin(p) \/ Work(p) \/ LockFails(p) \/ IoFails(p) \/ Crash(p)
    \/ Tick

Spec == Init /\ [][Next]_vars

\* File-system calls return and sleeps end, and time passes.
Fairness == WF_vars(Tick) /\ \A p \in Savers : WF_vars(Work(p))

FairSpec == Spec /\ Fairness

-----------------------------------------------------------------------------
IsWhole == path \in {NoFile, Old} \/ data[path] \in Savers

\* The lock excludes, and what is stored is whole and is what the last caller asked
\* for, as long as no live holder's lock has been taken away: crashes at any step,
\* left-over locks and left-over temporary files do no harm by themselves.
ExclusiveUnlessOvertaken ==
    overtaken = {} =>
        \A p \in Savers : pc[p] \in Holding => lock # NoFile /\ lock.by = p

StoredUnlessOvertaken ==
    overtaken = {} =>
        /\ IsWhole
        /\ \A p \in Savers :
              pc[p] = "releasing" /\ result[p] = "ok" =>
                  IF op[p] = "save" THEN path \in Savers /\ data[path] = p
                                    ELSE path = NoFile

\* A lock file has a creator that will remove it, or that died or failed while it
\* held it: no ordinary end of a call, on any error path, leaves one behind.
LockHasKeeper ==
    lock # NoFile =>
        \/ pc[lock.by] \in Holding \cup {"dead"}
        \/ pc[lock.by] = "over" /\ result[lock.by] = "error" /\ ~lock.stamped

\* What a crash or a failed write has left never makes a later call fail: only one
\* that met another call at work gives up.
LoneSaverSucceeds == \A p \in Savers : result[p] = "gaveUp" => met[p] # {}

\* Every call comes to an end, whatever it finds in the directory.
CallEnds == \A p \in Savers : pc[p] = "opening" ~> pc[p] \in {"over", "dead"}

-----------------------------------------------------------------------------
\* What fs-store.ts:125-127 says of the exclusive lock: that it protects against
\* concurrent access and makes the store safe for several processes, so that load()
\* never meets a session file that is half written.
StoreIsWhole == IsWhole
=============================================================================
