--------------------------- MODULE MCSessionEdits ---------------------------
(* TLC instances of SessionEdits. *)
EXTENDS SessionEdits

Symmetry == Permutations(Runs) \cup Permutations(Sessions)

-----------------------------------------------------------------------------
\* Pass 4 of optimize() as it is written, one turn of its loop after the other, against
\* which the closed form of DropGroups is compared.
RunEnd(ms, i) ==
    CHOOSE j \in i .. Len(ms) : /\ \A k \in i + 1 .. j : ms[k].role = "tool"
                                /\ j = Len(ms) \/ ms[j + 1].role # "tool"

FirstGroup(ms) ==
    LET i == Head0(ms) + 1
    IN  i .. IF ms[i].role \in {"call", "tool"} THEN RunEnd(ms, i) ELSE i

DropLoop(ms, budget) ==
    LET tail == Tail0(ms)
        turn[n \in 0 .. Len(ms)] ==
            IF n = 0 THEN ms
            ELSE LET m == turn[n - 1]
                 IN  IF Len(m) > budget /\ Len(m) > Head0(m) + tail
                     THEN [i \in 1 .. Len(m) - Cardinality(FirstGroup(m)) |->
                              IF i <= Head0(m) THEN m[i] ELSE m[i + Cardinality(FirstGroup(m))]]
                     ELSE m
    IN  turn[Len(ms)]

SmallTranscripts ==
    {[i \in DOMAIN q |-> Message(Fresh(i), q[i], 0)] :
        q \in UNION {{p \in [1 .. n -> Roles] : \A i \in 2 .. n : p[i] # "system"} : n \in 0 .. 5}}

ASSUME DropGroupsIsTheLoop ==
    \A ms \in SmallTranscripts : \A budget \in 0 .. 6 :
        DropGroups(ms, budget) = DropLoop(ms, budget)
=============================================================================
