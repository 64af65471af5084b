-------------------------- MODULE VerifiedRelease --------------------------
(***************************************************************************)
(* What a DeliveryRun promises about its releases, without gates, verdicts *)
(* or checks.  Development puts forward a candidate revision.  A candidate *)
(* is accepted or sent back, only an accepted candidate is released, an    *)
(* acceptance is never withdrawn, and a run that is live stays as it is.   *)
(* A candidate is never accepted the moment it is put forward: a revision  *)
(* that was sent back needs a new verdict even when it comes back as it    *)
(* was.                                                                    *)
(***************************************************************************)
CONSTANTS Revisions, NoRevision

VARIABLES
    candidate,   \* the revision under judgement, NoRevision while in development
    accepted,    \* whether QA and business acceptance both stand for it
    delivered    \* "none", "releasing" or "live"

vars == <<candidate, accepted, delivered>>

Init ==
    /\ candidate = NoRevision
    /\ accepted = FALSE
    /\ delivered = "none"

PutForward(r) ==
    /\ candidate = NoRevision
    /\ candidate' = r
    /\ UNCHANGED <<accepted, delivered>>

SendBack ==
    /\ candidate # NoRevision
    /\ ~accepted
    /\ candidate' = NoRevision
    /\ UNCHANGED <<accepted, delivered>>

Accept ==
    /\ candidate # NoRevision
    /\ accepted' = TRUE
    /\ UNCHANGED <<candidate, delivered>>

StartRelease ==
    /\ accepted
    /\ delivered = "none"
    /\ delivered' = "releasing"
    /\ UNCHANGED <<candidate, accepted>>

\* A deployment ends the release: it is live, or it failed and may be prepared again.
EndRelease ==
    /\ delivered = "releasing"
    /\ delivered' \in {"live", "none"}
    /\ UNCHANGED <<candidate, accepted>>

Next ==
    \/ \E r \in Revisions : PutForward(r)
    \/ SendBack
    \/ Accept
    \/ StartRelease
    \/ EndRelease

Spec == Init /\ [][Next]_vars
=============================================================================
