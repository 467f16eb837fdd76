-------------------------- MODULE MCBootAfterCrash --------------------------
(***************************************************************************)
(* A process that boots on what a crash left: the run Lost died at work on *)
(* the session Home, and its marker is in the store.                       *)
(***************************************************************************)
EXTENDS SessionRun, TLC

CONSTANTS Lost, Home

\* The runs of the new process are interchangeable: nothing orders or names them.
Symmetry == Permutations(Runs \ {Lost})

BootInit ==
    /\ runs = [s \in Sessions |-> NoRun]
    /\ resolvers = [s \in Sessions |-> NoRun]
    /\ owner = [r \in Runs |-> IF r = Lost THEN Home ELSE NoSession]
    /\ task = [r \in Runs |-> IF r = Lost THEN "dead" ELSE "none"]
    /\ signalled = {}
    /\ resolved = {}
    /\ outcome = [r \in Runs |-> IF r = Lost THEN "lost" ELSE "none"]
    /\ events = [s \in Sessions |-> <<>>]
    /\ store = [s \in Sessions |->
                   IF s = Home THEN [turns |-> {Lost}, marker |-> Lost] ELSE Absent]
    /\ asked = owner
    /\ pc = [r \in Runs |-> IF r = Lost THEN "dead" ELSE "new"]
    /\ obj = [r \in Runs |-> Absent]
    /\ cur = [r \in Runs |-> Absent]
    /\ todo = [r \in Runs |-> {}]
    /\ at = [r \in Runs |-> NoSession]
    /\ edit = [s \in Sessions |-> Absent]
    /\ deleting = {}
    /\ recovered = {}
    /\ troubles = {}

BootSpec == BootInit /\ [][Next]_vars
=============================================================================
