--------------------------- MODULE MCReviewPhotos ---------------------------
(***************************************************************************)
(* Instances of ReviewPhotos for TLC, with a history variable: whether a   *)
(* call has begun while another was running.                               *)
(***************************************************************************)
EXTENDS ReviewPhotos, TLC

VARIABLE overlapped

Overlaps == InFlight # {} /\ \E q \in Requests : pc[q] = "idle" /\ pc'[q] # "idle"

WatchedInit == Init /\ overlapped = FALSE

WatchedSpec ==
    /\ WatchedInit
    /\ [][Next /\ overlapped' = (overlapped \/ Overlaps)]_<<vars, overlapped>>

\* Calls that never overlap leave photoCount of every review and the aggregate
\* row exact, and no photo on a deleted review (review-photos.service.ts:96-112,
\* 149-163, reviews.service.ts:227-246).
CountsExactAlone ==
    ~overlapped => PhotoCountExact /\ StatsExact /\ DeletedReviewHasNoPhotos
=============================================================================
