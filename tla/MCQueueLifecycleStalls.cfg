\* Stalled processes: a lease expires under a live worker, a mark outlives its
\* grace under a live finisher.
\* The bounds let the key come to rest, so a state without successor is no error.
SPECIFICATION Spec
CONSTANTS
    w1 = w1
    w2 = w2
    w3 = w3
    Workers = {w1, w2}
    Reaper = reaper
    HostOf <- OneHost
    MaxAttempts = 2
    InterruptionOnly = {2}
    LiveExpiry = TRUE
    SlowTail = TRUE
    MaxGens = 2
    MaxClaims = 2
    MaxFaults = 1
SYMMETRY Symmetry
INVARIANTS NothingDroppedUnrun ReservationFindable
PROPERTY WithdrawnNeverClaimed
CHECK_DEADLOCK FALSE
