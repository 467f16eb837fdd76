--------------------------- MODULE MCSharedParts ---------------------------
EXTENDS SharedParts

CONSTANTS s1, s2, r1, r2, p1, p2,    \* sessions, runs, prompts ...
          q1, q2,                    \* ... and requests
          status, push, none,        \* commands, or paths, and none
          gitStar, pushStar, star    \* "git *", "git push*" and "*"

Matches ==
    {<<o, o>> : o \in {status, push, none}} \cup {<<star, o>> : o \in {status, push, none}}
        \cup {<<gitStar, status>>, <<gitStar, push>>, <<pushStar, push>>}

BashRuleSets ==
    LET on(p, r) == [pattern |-> p, rule |-> r] IN
    {<<on(pushStar, "deny"), on(gitStar, "ask")>>,
     <<on(pushStar, "ask"), on(gitStar, "allow")>>,
     <<on(pushStar, "ask"), on(gitStar, "ask")>>}

Configs ==
    [edit : {"unset", "ask"}, bash : BashRuleSets] \cup [edit : {"ask", "deny"}, bash : {<<>>}]

\* Sessions, runs and requests are alike: the first run is of the first session, and both
\* begin in order, as do the questions.  Runs with agents of their own meet in a session only.
MCNext ==
    /\ PartsNext
    /\ part = "questions" =>
          /\ owner'[r1] # s2
          /\ owner'[r2] # NoSession => owner'[r1] # NoSession
          /\ asker'[q2] # NoRun => asker'[q1] # NoRun
    /\ part = "agent" =>
          /\ agRun'[r2].pc # "new" => agRun'[r1].pc # "new"
          /\ perRun => \A r \in {r1, r2} : agRun'[r].session = s1

MCInit ==
    /\ PartsInit
    /\ part = "agent" => /\ storedTodos[s1] = IF perRun THEN NoTodos ELSE OldTodos
                         /\ storedTodos[s2] = NoTodos
    /\ part = "acp" => prompt[p1].of = s1

MCSpec == MCInit /\ [][MCNext]_partsVars /\ Fairness
=============================================================================
