\* Prompt processes: a lease or a mark expires only when its owner is dead.
\* Two serve loops of one host and one of another, two publications of two
\* attempts each.  Six claims are more than two publications and two faults can
\* use up.  No symmetry: temporal properties.
\* The bounds let the key come to rest, so a state without successor is no error.
SPECIFICATION FairSpec
CONSTANTS
    w1 = w1
    w2 = w2
    w3 = w3
    Workers = {w1, w2, w3}
    Reaper = reaper
    HostOf <- TwoHosts
    MaxAttempts = 2
    InterruptionOnly = {2}
    LiveExpiry = FALSE
    SlowTail = FALSE
    MaxGens = 2
    MaxClaims = 6
    MaxFaults = 2
INVARIANTS TypeOK OneTerminal NothingLost RunningKeepsCustody
PROPERTIES ImplementsContract EveryPublicationEnds ComesClean
CHECK_DEADLOCK FALSE
