\* A lease expires under a live worker, and its item is claimed again.
\* The bounds let the key come to rest, so a state without successor is no error.
SPECIFICATION Spec
CONSTANTS
    w1 = w1
    w2 = w2
    w3 = w3
    Workers = {w1, w2}
    Reaper = reaper
    HostOf <- OneHost
    MaxAttempts = 2
    InterruptionOnly = {2}
    LiveExpiry = TRUE
    SlowTail = FALSE
    MaxGens = 1
    MaxClaims = 2
    MaxFaults = 0
SYMMETRY Symmetry
INVARIANT RunningKeepsCustody
CHECK_DEADLOCK FALSE
