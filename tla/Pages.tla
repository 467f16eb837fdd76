------------------------------- MODULE Pages -------------------------------
(***************************************************************************)
(* A client walks through GET /api/sessions page by page                   *)
(* (packages/server/src/routes/session.ts, cursor.ts) while sessions are   *)
(* saved, archived and deleted.                                            *)
(*                                                                         *)
(* The store reads its files one after the other; when each is read        *)
(* matters only to sessions that are saved meanwhile, so a list is taken   *)
(* in one step.  The page is made of the sessions as they are loaded       *)
(* again, one step each.                                                   *)
(***************************************************************************)
EXTENDS Integers, FiniteSets

CONSTANTS PgSessions,   \* session ids, as numbers: they are compared
          PageLimit,
          MaxPgTime     \* bound on the clock

ASSUME PagesAssumption ==
    PgSessions \subseteq Nat /\ PageLimit \in Nat \ {0} /\ MaxPgTime \in Nat \ {0}

VARIABLES
    pgClock,
    updatedAt,   \* session -> its updatedAt in the store, or PgAbsent
    archived,    \* the archived sessions
    listing,     \* what list() returned, and is not yet gone through
    page,        \* the page under construction
    cursor,      \* the cursor of the last page
    walk,        \* where the client is: "asks", "waits" or "over"
    touched,     \* history: the sessions saved or deleted since the walk began
    shown,       \* history: session -> the number of times it was shown, of the others
    tied,        \* history: of the others, those listed with the time of another session
    skewed       \* history: the last session of some page was saved after it was listed

pgVars == <<pgClock, updatedAt, archived, listing, page, cursor, walk, touched, shown, tied,
            skewed>>

PgAbsent == -1
PgTime == 0 .. MaxPgTime
PgEntry == [id : PgSessions, time : PgTime]
NoCursor == [id |-> 0, time |-> MaxPgTime + 1]
NoPage == [entries |-> {}, last |-> NoCursor]

PgTypeInvariant ==
    /\ pgClock \in PgTime
    /\ updatedAt \in [PgSessions -> PgTime \cup {PgAbsent}]
    /\ archived \subseteq PgSessions
    /\ listing \subseteq PgEntry
    /\ page \in [entries : SUBSET PgSessions, last : PgEntry \cup {NoCursor}]
    /\ cursor \in PgEntry \cup {NoCursor}
    /\ walk \in {"asks", "waits", "over"}
    /\ shown \in [PgSessions -> 0 .. 2]
    /\ touched \subseteq PgSessions /\ tied \subseteq PgSessions
    /\ skewed \in BOOLEAN

PgIdle(times, now, at) ==
    /\ pgClock = now
    /\ updatedAt \in [PgSessions -> times]
    /\ archived = {}
    /\ listing = {} /\ page = NoPage /\ cursor = NoCursor
    /\ walk = at
    /\ shown = [s \in PgSessions |-> 0]
    /\ touched = {} /\ tied = {} /\ skewed = FALSE

PgInit == PgIdle({PgAbsent, 0, 1}, 1, "asks")

Stored(s) == updatedAt[s] # PgAbsent

Touched(s) ==
    /\ touched' = touched \cup {s}
    /\ shown' = [shown EXCEPT ![s] = 0]
    /\ tied' = tied \ {s}

-----------------------------------------------------------------------------
\* Every save of a session, new or not, stamps it with the time; archiving is a save.
PgSaves(s, archive) ==
    /\ walk # "over"
    /\ archive => Stored(s)
    /\ updatedAt' = [updatedAt EXCEPT ![s] = pgClock]
    /\ archived' = IF archive THEN archived \cup {s} ELSE archived
    /\ Touched(s)
    /\ UNCHANGED <<pgClock, listing, page, cursor, walk, skewed>>

PgDeletes(s) ==
    /\ walk # "over" /\ Stored(s)
    /\ updatedAt' = [updatedAt EXCEPT ![s] = PgAbsent]
    /\ archived' = archived \ {s}
    /\ Touched(s)
    /\ UNCHANGED <<pgClock, listing, page, cursor, walk, skewed>>

PgTick ==
    /\ pgClock < MaxPgTime
    /\ pgClock' = pgClock + 1
    /\ UNCHANGED <<updatedAt, archived, listing, page, cursor, walk, shown, touched, tied, skewed>>

\* Mutant of IsAfterCursorDesc: the cursor itself is after the cursor.
IsAtOrAfterCursor(e, c) == e.time < c.time \/ (e.time = c.time /\ e.id <= c.id)

IsAfterCursorDesc(e, c) == e.time < c.time \/ (e.time = c.time /\ e.id < c.id)

\* GET /api/sessions: the list, without the archived sessions; what the cursor has passed is
\* gone over.
PgListed ==
    LET entries == {[id |-> s, time |-> updatedAt[s]] :
                       s \in {s \in PgSessions : Stored(s) /\ s \notin archived}} IN
    /\ walk = "asks"
    /\ walk' = "waits"
    /\ listing' = {e \in entries : IsAfterCursorDesc(e, cursor)}
    /\ tied' = tied \cup {s \in PgSessions \ touched :
                          \E e, f \in entries : e.id = s /\ f.id # s /\ f.time = e.time}
    /\ UNCHANGED <<pgClock, updatedAt, archived, page, cursor, shown, touched, skewed>>

\* The next one of the list, newest first and in no order among equals, is loaded.
PgLoads(e) ==
    LET loaded == [id |-> e.id, time |-> updatedAt[e.id]] IN
    /\ walk = "waits"
    /\ e \in listing /\ \A f \in listing : f.time <= e.time
    /\ Cardinality(page.entries) < PageLimit
    /\ listing' = listing \ {e}
    /\ IF Stored(e.id)
       THEN /\ page' = [entries |-> page.entries \cup {e.id}, last |-> loaded]
            /\ skewed' = (skewed \/ loaded # e)
       ELSE UNCHANGED <<page, skewed>>
    /\ UNCHANGED <<pgClock, updatedAt, archived, cursor, walk, shown, touched, tied>>

\* The page is full or the list is done; a page without sessions has no nextCursor.
PgReplies ==
    /\ walk = "waits"
    /\ Cardinality(page.entries) = PageLimit \/ listing = {}
    /\ walk' = IF page.entries = {} THEN "over" ELSE "asks"
    /\ cursor' = page.last
    /\ shown' = [s \in PgSessions |-> IF s \in page.entries \ touched /\ shown[s] < 2
                                      THEN shown[s] + 1 ELSE shown[s]]
    /\ listing' = {} /\ page' = NoPage
    /\ UNCHANGED <<pgClock, updatedAt, archived, touched, tied, skewed>>

PgNext ==
    \/ \E s \in PgSessions, archive \in BOOLEAN : PgSaves(s, archive)
    \/ \E s \in PgSessions : PgDeletes(s)
    \/ \E e \in listing : PgLoads(e)
    \/ PgTick \/ PgListed \/ PgReplies

PgSpec == PgInit /\ [][PgNext]_pgVars

-----------------------------------------------------------------------------
\* However the other sessions are saved, archived and deleted between two pages and while one
\* is made, a walk shows a session that is left alone exactly once.  It is missed if it shares
\* its time with another one, and shown again if the last session of a page has moved.
PagedOnce ==
    \A s \in PgSessions \ (touched \cup tied) :
        /\ shown[s] > 1 => skewed
        /\ walk = "over" /\ Stored(s) => shown[s] > 0

\* What cursor.ts:4-6 says, that clients page "without offset drift when new items arrive".
\* Known not to hold: the list leaves sessions of one time as it found them, and the cursor
\* passes those of them with the greater ids.
NoDrift ==
    \A s \in PgSessions \ touched :
        shown[s] < 2 /\ (walk = "over" /\ Stored(s) => shown[s] = 1)
=============================================================================
