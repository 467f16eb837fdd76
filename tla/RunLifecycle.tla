---------------------------- MODULE RunLifecycle ----------------------------
(***************************************************************************)
(* What the RunStateManager promises, with its bookkeeping left out: a run *)
(* begins in one session, at most one run of a session is live, and a live *)
(* run ends exactly once: completed or errored because its own task said   *)
(* so, aborted on request or because a newer run took the session over, or *)
(* lost with the process.                                                  *)
(***************************************************************************)
CONSTANTS Sessions, Runs, NoSession

VARIABLES phase,   \* phase[r]: where run r is in its life
          place    \* place[r]: the session r runs in, NoSession before it begins

Phases == {"unborn", "live", "completed", "aborted", "error", "lost"}

Init ==
    /\ phase = [r \in Runs |-> "unborn"]
    /\ place = [r \in Runs |-> NoSession]

LiveIn(S) == {r \in Runs : phase[r] = "live" /\ place[r] \in S}

\* A run begins; the live run of the same session, if any, is aborted by it.
Begin(s, r) ==
    /\ phase[r] = "unborn"
    /\ phase' = [q \in Runs |-> IF q = r THEN "live"
                                ELSE IF q \in LiveIn({s}) THEN "aborted"
                                ELSE phase[q]]
    /\ place' = [place EXCEPT ![r] = s]

\* The task of a live run ends it with its own verdict.
End(r, verdict) ==
    /\ phase[r] = "live"
    /\ phase' = [phase EXCEPT ![r] = verdict]
    /\ UNCHANGED place

\* Every live run of the sessions S is stopped: by abort, or lost in a crash.
StopAll(S, how) ==
    /\ phase' = [q \in Runs |-> IF q \in LiveIn(S) THEN how ELSE phase[q]]
    /\ UNCHANGED place

Next ==
    \/ \E s \in Sessions, r \in Runs : Begin(s, r)
    \/ \E r \in Runs, verdict \in {"completed", "error"} : End(r, verdict)
    \/ \E s \in Sessions : StopAll({s}, "aborted")
    \/ \E how \in {"aborted", "lost"} : StopAll(Sessions, how)

Spec == Init /\ [][Next]_<<phase, place>>
=============================================================================
