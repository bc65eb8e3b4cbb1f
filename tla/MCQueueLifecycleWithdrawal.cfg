\* Prompt processes; one publication of one attempt, cancelled at any time.
\* The bounds let the key come to rest, so a state without successor is no error.
SPECIFICATION Spec
CONSTANTS
    w1 = w1
    w2 = w2
    w3 = w3
    Workers = {w1, w2}
    Reaper = reaper
    HostOf <- OneHost
    MaxAttempts = 1
    InterruptionOnly = {2}
    LiveExpiry = FALSE
    SlowTail = FALSE
    MaxGens = 1
    MaxClaims = 1
    MaxFaults = 0
SYMMETRY Symmetry
PROPERTY WithdrawalWins
CHECK_DEADLOCK FALSE
