\* Two gangs of two members over two hosts with room for one member each, no faults.
SPECIFICATION Spec
CONSTANTS
    a0 = a0
    a1 = a1
    b0 = b0
    b1 = b1
    ga = ga
    gb = gb
    h1 = h1
    h2 = h2
    l1 = l1
    l2 = l2
    l3 = l3
    Gangs = {ga, gb}
    Members = {a0, a1, b0, b1}
    GangOf <- TwoGangs
    Rank <- AFirst
    Hosts = {h1, h2}
    NoHost = NoHost
    Loops = {l1, l2, l3}
    HostOf <- OnHosts
    Capacity = 1
    WaitLimited = {gb}
    MaxFaults = 0
SYMMETRY SameHost
INVARIANTS TypeOK StartsWhole NoCrossCommit
CHECK_DEADLOCK FALSE
