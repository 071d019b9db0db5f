\* One tab, with at most three clicks that have not advanced the tour yet.
SPECIFICATION TourSpec
CONSTANTS
    MaxTimers = 3
    None = None
INVARIANTS Resumable NeverHidden
