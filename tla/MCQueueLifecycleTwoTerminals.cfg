\* A lease expires under a live worker of a one-attempt publication.
\* The bounds let the key come to rest, so a state without successor is no error.
SPECIFICATION Spec
CONSTANTS
    w1 = w1
    w2 = w2
    w3 = w3
    Workers = {w1, w2}
    Reaper = reaper
    HostOf <- OneHost
    MaxAttempts = 1
    InterruptionOnly = {2}
    LiveExpiry = TRUE
    SlowTail = FALSE
    MaxGens = 1
    MaxClaims = 1
    MaxFaults = 0
SYMMETRY Symmetry
INVARIANT OneTerminal
CHECK_DEADLOCK FALSE
