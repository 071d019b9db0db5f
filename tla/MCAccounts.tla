----------------------------- MODULE MCAccounts -----------------------------
(***************************************************************************)
(* Instances of Accounts for TLC, with a history variable: whether a call  *)
(* has begun while another was running.                                    *)
(***************************************************************************)
EXTENDS Accounts, TLC

VARIABLE overlapped

Overlaps == InFlight # {} /\ \E q \in Requests : pc[q] = "idle" /\ pc'[q] # "idle"

WatchedInit == Init /\ overlapped = FALSE

WatchedSpec ==
    /\ WatchedInit
    /\ [][Next /\ overlapped' = (overlapped \/ Overlaps)]_<<vars, overlapped>>

Perms == Permutations(Requests) \cup Permutations(Users) \cup Permutations(Passwords)

\* Calls that never overlap, even if they fail between two statements, leave a
\* suspended user without a session and everybody else with one at most, role and
\* status of every user as last decided, and at least one administrator
\* (auth.service.ts:135, 235, admin-users.service.ts:145, 211-239).
SoundAlone ==
    ~overlapped =>
        SuspendedHasNoSession /\ OneSessionPerUser /\ DecisionsStand /\ LastAdminStays
=============================================================================
