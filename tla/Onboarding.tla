----------------------------- MODULE Onboarding ------------------------------
(***************************************************************************)
(* The guided tour of a tab: thirteen steps over three pages, advanced by  *)
(* the Next button, by a click on a target, by a pin on the map and by     *)
(* navigation, kept in the storage of the tab for a reload.                *)
(*                                                                         *)
(* An action ends with the effects that React runs for it.  What hides a   *)
(* step on its own page, a target that is not found, is left out.          *)
(*                                                                         *)
(* No name of this module is one of ApiClient or BookmarkCache, so that    *)
(* the proofs about the browser extend all three.                          *)
(***************************************************************************)
EXTENDS Integers

CONSTANTS MaxTimers,  \* clicks that have not advanced the tour yet
          None        \* nothing stored

ASSUME TimerBound == MaxTimers \in Nat

VARIABLES
    mounted,    \* the layout that holds the tour is on display
    path,       \* where the browser is
    auth,       \* the user is signed in
    tour,       \* phase and step
    stored,     \* the tour in sessionStorage
    completed,  \* the flag in localStorage, which all tabs share
    timers,     \* clicks whose 100 ms are not over
    pin,        \* mapPin of the search page
    results,    \* what the search page has found
    \* History, read by properties only.
    strayed,    \* the tour was started on another page, or a step was skipped, or
                \* left for another page than the next
    elsewhere   \* another tab has ended the tour, or started it anew

place       == <<mounted, path, auth>>
search      == <<pin, results>>
tourHistory == <<strayed, elsewhere>>
tourVars    == <<place, tour, stored, completed, timers, search, tourHistory>>

-----------------------------------------------------------------------------
(* ONBOARDING_STEPS.                                                        *)

TourSteps == 0 .. 12

PageOfStep(s) == IF s <= 6 THEN "search" ELSE IF s <= 9 THEN "bar" ELSE "directions"

WaitFor(s) == CASE s = 4 -> "mapPin" [] s \in {5, 7} -> "click"
                [] s \in {6, 9} -> "navigation" [] OTHER -> "next"

\* Two bars, for a step from one to the other; "profile" has no step.
Paths == {"search", "bar 1", "bar 2", "directions", "profile"}
PageOf(p) == IF p \in {"bar 1", "bar 2"} THEN "bar" ELSE p

Matches(p, s) == PageOf(p) = PageOfStep(s)

Tour == [phase : {"idle", "welcome", "active", "complete"}, step : TourSteps]
Idle == [phase |-> "idle", step |-> 0]
Welcome == [phase |-> "welcome", step |-> 0]
Active(s) == [phase |-> "active", step |-> s]

Shown == tour.phase = "active" /\ Matches(path, tour.step)

TourInit ==
    /\ mounted = FALSE /\ path = "search" /\ auth = FALSE
    /\ tour = Idle /\ stored = None /\ completed = FALSE
    /\ timers = 0 /\ pin = FALSE /\ results = "loading"
    /\ strayed = FALSE /\ elsewhere = FALSE

-----------------------------------------------------------------------------
\* Mutant: the new step is not stored.
Unstored(t) == stored

\* What advanceStep and goToStep store.
Stored(t) == t

Advanced(t) ==
    IF t.step + 1 \in TourSteps THEN Active(t.step + 1)
    ELSE [phase |-> "complete", step |-> t.step]

\* restoreState, at p: a tour that is stored for another page is removed.
Kept(s, p) == IF s # None /\ ~Matches(p, s.step) THEN None ELSE s

\* The effects after a change to tour t and storage s: a search without results
\* goes back from step 6 to the map, and an idle tab greets its user.
Settle(t, s) ==
    LET back == t = Active(6) /\ path' = "search" /\ results' = "empty"
        greets == t.phase = "idle" /\ auth' /\ path' = "search" /\ ~completed
        kept == IF greets THEN Kept(s, path') ELSE s
    IN  /\ tour' = IF back THEN Active(4) ELSE IF greets /\ kept = None THEN Welcome ELSE t
        /\ stored' = IF back THEN Stored(Active(4)) ELSE kept

\* setState(advanceStep).
Advance ==
    IF tour.phase = "active" THEN Settle(Advanced(tour), Stored(Advanced(tour)))
    ELSE UNCHANGED <<tour, stored>>

\* The tour strays for a cause and is back on its way at a step of the page.
Stray(cause) ==
    strayed' = ((strayed \/ cause) /\ tour'.phase = "active" /\ ~Matches(path', tour'.step))

-----------------------------------------------------------------------------
(* The user, in dialogs and tooltips.                                       *)

\* The welcome stays when the browser goes to another page.
StartTour ==
    /\ mounted /\ tour.phase = "welcome"
    /\ tour' = Active(0) /\ stored' = Active(0)
    /\ UNCHANGED <<place, completed, timers, search, elsewhere>>
    /\ Stray(path # "search")

\* skipTour of the welcome, endTour of a step and of the last dialog.
EndTour ==
    /\ mounted /\ (Shown \/ tour.phase \in {"welcome", "complete"})
    /\ tour' = Idle /\ stored' = None /\ completed' = TRUE
    /\ UNCHANGED <<place, timers, search, tourHistory>>

\* The profile also sends the browser to /search.
ReplayTour ==
    /\ mounted /\ path = "profile"
    /\ tour' = Welcome /\ stored' = Welcome /\ completed' = FALSE
    /\ UNCHANGED <<place, timers, search, tourHistory>>

NextStep ==
    /\ mounted /\ Shown /\ WaitFor(tour.step) = "next"
    /\ UNCHANGED <<place, completed, timers, search, elsewhere>>
    /\ Advance /\ Stray(FALSE)

\* The listener hears clicks until the timer of the first one advances the tour.
ClickTarget ==
    /\ mounted /\ Shown /\ WaitFor(tour.step) = "click" /\ timers < MaxTimers
    /\ timers' = timers + 1
    /\ UNCHANGED <<place, tour, stored, completed, search, tourHistory>>

TimerFires ==
    /\ timers > 0 /\ timers' = timers - 1
    /\ UNCHANGED <<place, completed, search, elsewhere>>
    /\ Advance /\ Stray(tour.phase = "active" /\ WaitFor(tour.step) # "click")

\* Only the first pin of a mounted page is an event; dialogs cover the map, and
\* the first three steps show other tabs.
DropPin ==
    /\ mounted /\ path = "search"
    /\ tour.phase = "idle" \/ (tour.phase = "active" /\ tour.step >= 3)
    /\ pin' = TRUE
    /\ UNCHANGED <<place, completed, timers, results, elsewhere>>
    /\ IF tour = Active(4) /\ ~pin THEN Advance ELSE UNCHANGED <<tour, stored>>
    /\ Stray(FALSE)

\* A search starts, and is answered.
SearchBars ==
    /\ mounted /\ path = "search"
    /\ results' \in {"loading", "found", "empty"} \ {results}
    /\ UNCHANGED <<place, completed, timers, pin, tourHistory>>
    /\ IF tour.phase = "active" THEN Settle(tour, stored) ELSE UNCHANGED <<tour, stored>>

-----------------------------------------------------------------------------
(* The browser.                                                             *)

\* Mutant: a tour stays active on every page.
StaysAnywhere(p, s) == TRUE

\* Whether the tour goes on at p, where its step does not wait for navigation.
Stays(p, s) == Matches(p, s) \/ (s + 1 \in TourSteps /\ Matches(p, s + 1))

\* The search page is mounted anew.
Remount == pin' = FALSE /\ results' \in {"loading", "found", "empty"}

Navigate(p) ==
    /\ mounted /\ p # path /\ path' = p
    /\ IF p = "search" THEN Remount ELSE UNCHANGED search
    /\ UNCHANGED <<mounted, auth, completed, timers, elsewhere>>
    /\ IF tour.phase = "active" /\ WaitFor(tour.step) = "navigation"
       THEN Advance /\ Stray(~Matches(p, tour.step + 1))
       ELSE /\ IF tour.phase = "active" /\ ~Stays(p, tour.step) THEN Settle(Idle, None)
               ELSE Settle(tour, stored)
            /\ Stray(FALSE)

\* A page load, or a way back from the pages outside the layout.
Load(p, a) ==
    /\ ~mounted /\ mounted' = TRUE /\ path' = p /\ auth' = a
    /\ Remount
    /\ UNCHANGED <<completed, timers, tourHistory>>
    /\ IF completed THEN UNCHANGED <<tour, stored>>
       ELSE Settle(IF Kept(stored, p) = None THEN Idle ELSE stored, Kept(stored, p))

\* A reload, a closed tab, or a page outside the layout.
Unmount ==
    /\ mounted /\ mounted' = FALSE
    /\ tour' = Idle /\ timers' = 0 /\ strayed' = FALSE
    /\ UNCHANGED <<path, auth, stored, completed, search, elsewhere>>

\* The session is found after the page was loaded, or ends.
Authenticate ==
    /\ mounted /\ auth' = ~auth
    /\ UNCHANGED <<mounted, path, completed, timers, search, tourHistory>>
    /\ Settle(tour, stored)

\* Another tab ends the tour, or starts it anew.
OtherTab ==
    /\ completed' = ~completed /\ elsewhere' = TRUE
    /\ UNCHANGED <<place, tour, stored, timers, search, strayed>>

-----------------------------------------------------------------------------
TourNext ==
    \/ StartTour \/ EndTour \/ ReplayTour \/ NextStep \/ ClickTarget \/ TimerFires
    \/ DropPin \/ SearchBars \/ Unmount \/ Authenticate \/ OtherTab
    \/ \E p \in Paths : Navigate(p) \/ \E a \in BOOLEAN : Load(p, a)

TourSpec == TourInit /\ [][TourNext]_tourVars

-----------------------------------------------------------------------------
(* Properties.                                                              *)

\* A reload finds the tour where it was, and finds none when there is none,
\* whatever advanced, moved back, left or ended it; the welcome is only stored
\* when the user asked for it, and a tab that was told by another one that the
\* tour is over forgets nothing (onboarding-provider.tsx:74-197).
Resumable ==
    mounted =>
      CASE tour.phase \in {"active", "complete"} -> stored = tour
        [] tour.phase = "welcome" -> stored \in {None, Welcome}
        [] tour.phase = "idle" -> stored = None \/ elsewhere

\* An active tour shows its step on the page the user is on, unless it
\* was started on another page, a second click on a target has skipped a step, or
\* the user has left a step that waits for navigation for another page than the
\* next: everywhere else it ends (onboarding-provider.tsx:110-146).
NeverHidden == mounted /\ tour.phase = "active" => Shown \/ strayed
=============================================================================
