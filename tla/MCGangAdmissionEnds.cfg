\* One gang of two members over two hosts, with two faults.
SPECIFICATION FairSpec
CONSTANTS
    a0 = a0
    a1 = a1
    b0 = b0
    b1 = b1
    ga = ga
    gb = gb
    h1 = h1
    h2 = h2
    l1 = l1
    l2 = l2
    l3 = l3
    Gangs = {ga}
    Members = {a0, a1}
    GangOf <- OneGang
    Rank <- Alone
    Hosts = {h1, h2}
    NoHost = NoHost
    Loops = {l1, l2, l3}
    HostOf <- OnHosts
    Capacity = 1
    WaitLimited = {ga}
    MaxFaults = 2
INVARIANT ClaimedBesideWholeSet
PROPERTIES TornGangEnds ClaimsAreSettled
CHECK_DEADLOCK FALSE
