\* Three topics, one not wanted and one lazy, a ring of one hint, a kernel queue of one event.
SPECIFICATION FairSpec
CONSTANTS
    Topics = {"ready", "offers", "denials"}
    Wanted = {"ready", "offers"}
    Lazy = {"offers"}
    Capacity = 1
    Waiters = {"hub"}
    Hub = "hub"
    MaxSeq = 12
    MaxEpoch = 1
    KernelCap = 1
    MaxChanges = 2
    MaxFaults = 1
INVARIANTS TypeOK SleeperHasNothing AnswerIsComplete NothingSleptThrough
PROPERTY EveryChangeIsRead
CHECK_DEADLOCK FALSE
