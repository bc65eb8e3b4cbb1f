------------------------------- MODULE HostWait -------------------------------
(***************************************************************************)
(* The queue bell end to end: the directories of a queue, the inotify      *)
(* reader of the bell service (InotifyQueue in queue_bell_events.py), its  *)
(* ring (EventRing), and one HostWaitHub (host_wait.py) whose owner waits  *)
(* for changes of records it has read.                                     *)
(*                                                                         *)
(* The kernel's queue of watch events is external: bounded, in order, and  *)
(* an overflow event in place of what did not fit.  A topic is a directory *)
(* tree; only that its records changed since the owner read them is kept.  *)
(* The owner works as the hub asks of it: arm, read what was hinted, or    *)
(* everything while coverage is incomplete, acknowledge with reconciled,   *)
(* wait.  It names no deadlines, so only changes and the hub's own retry   *)
(* wake it.  The hub's generation counters are kept as what they are       *)
(* compared for: whether a reset came after the last arm (moved) and       *)
(* whether that arm's generation was reconciled (reconciled).              *)
(***************************************************************************)
EXTENDS EventRing

CONSTANTS
    Lazy,           \* topics whose directory does not exist at first
    KernelCap,      \* watch events the kernel keeps
    MaxChanges,     \* bound: changes of records, of either kind
    MaxFaults,      \* bound: service crashes and failed requests, together
    Hub,            \* the hub's connection
    Wanted          \* the topics the hub asks for

ASSUME HostWaitAssumption ==
    /\ Lazy \subseteq Topics /\ Wanted \subseteq Topics /\ "local" \notin Topics
    /\ Waiters = {Hub}
    /\ KernelCap \in Nat \ {0} /\ {MaxChanges, MaxFaults} \subseteq Nat

VARIABLES
    stale,          \* sources changed since the owner last read them
    named,          \* topics whose directory has names in it
    present,        \* topics whose directory exists
    watched,        \* topics whose directory has a watch
    absent_roots,   \* topics the service takes to have no directory
    kernel,         \* watch events not yet read
    up,             \* the service process runs
    svc,            \* where its inotify reader is: idle, or a topic's steps
    scan,           \* topics whose names _tree has still to hint
    changes, faults,
    owner,          \* where the hub's owner is
    toread,         \* sources it has still to read
    hints,          \* topics hinted by its last wake
    before,         \* its SourceGeneration: [bell, failure]
    moved, reconciled,
    complete,       \* _coverage.complete
    snapshot,       \* _bell_snapshot
    identity,       \* _stream_identity
    retry,          \* _retry: none, pending or due
    reset_seen,
    changed,        \* a local notify since arm
    reader,         \* the reader thread
    bell,           \* its snapshot
    result, completed_bell

world == <<stale, named, present, watched, kernel, changes>>
service == <<up, svc, scan, absent_roots>>
request == <<waiters, byte>>
hub == <<moved, reconciled, complete, snapshot, identity, retry, reset_seen, changed>>
thread == <<reader, bell, result, completed_bell>>
waits == <<owner, toread, hints, before>>
vars == <<ringvars, world, service, hub, thread, waits, faults>>

\* What the owner reads: its topics, and a source of its own host.
Local == "local"
Sources == Wanted \union {Local}

None == [kind |-> "none"]
Snapshots == [kind : {"bell"}, epoch : Nat, seq : Nat, version : Nat, complete : BOOLEAN]
Generations == [bell : Snapshots \union {None}, failure : BOOLEAN]
Identities == [epoch : Nat, version : Nat]
Results == [kind : {"reset", "changed", "unavailable"}, hints : SUBSET Wanted]

\* A watch event: a name in a directory, a new directory, or that some were dropped.
Overflow == [kind |-> "overflow"]
WatchEvents == [kind : {"name", "directory"}, topic : present] \union {Overflow}

TypeOK ==
    /\ RingTypeOK
    /\ stale \subseteq Sources
    /\ watched \subseteq present /\ named \subseteq present /\ present \subseteq Topics
    /\ kernel \in Seq(WatchEvents) /\ Len(kernel) <= KernelCap + 1
    /\ up \in BOOLEAN /\ svc \in [at : {"idle", "lost", "scanning", "installing", "installed"}]
    /\ scan \subseteq Topics /\ absent_roots \subseteq Topics
    /\ changes \in 0 .. MaxChanges /\ faults \in 0 .. MaxFaults
    /\ owner \in {"free", "reading", "waiting", "returning"}
    /\ toread \subseteq Sources /\ hints \subseteq Wanted
    /\ before \in Generations
    /\ moved \in BOOLEAN /\ reconciled \in BOOLEAN /\ complete \in BOOLEAN
    /\ reset_seen \in BOOLEAN /\ changed \in BOOLEAN
    /\ snapshot \in Snapshots \union {None} /\ bell \in Snapshots \union {None}
    /\ completed_bell \in Snapshots \union {None}
    /\ identity \in Identities \union {None} /\ result \in Results \union {None}
    /\ retry \in {"none", "pending", "due"}
    /\ reader \in {"none", "asking", "requested", "ended"}

Init ==
    /\ RingInit
    /\ stale = Sources \ Lazy /\ named = Topics \ Lazy
    /\ present = Topics \ Lazy /\ watched = Topics \ Lazy
    /\ kernel = <<>> /\ changes = 0 /\ faults = 0
    /\ up = TRUE /\ svc = [at |-> "idle"] /\ scan = {} /\ absent_roots = Lazy
    /\ owner = "free" /\ toread = {} /\ hints = {}
    /\ before = [bell |-> None, failure |-> FALSE]
    /\ moved = FALSE /\ reconciled = FALSE /\ complete = FALSE
    /\ snapshot = None /\ identity = None /\ retry = "none" /\ reset_seen = FALSE
    /\ changed = FALSE
    /\ reader = "none" /\ bell = None /\ result = None /\ completed_bell = None

-----------------------------------------------------------------------------
(* The queue's directories and the kernel.                                 *)

\* The kernel keeps KernelCap events and then one overflow event.
Queued(event) ==
    kernel' = IF Len(kernel) < KernelCap THEN Append(kernel, event)
              ELSE IF Len(kernel) = KernelCap THEN Append(kernel, Overflow) ELSE kernel

\* A record of a topic is written, renamed or removed, perhaps the last one.
Change(t) ==
    /\ t \in present /\ changes < MaxChanges /\ changes' = changes + 1
    /\ stale' = stale \union ({t} \intersect Wanted)
    /\ IF up /\ t \in watched THEN Queued([kind |-> "name", topic |-> t]) ELSE UNCHANGED kernel
    /\ named' \in {named \union {t}, named \ {t}}
    /\ UNCHANGED <<ringvars, present, watched, service, hub, thread, waits, faults>>

\* The directory of a lazy topic is created; the queue root is watched, the new
\* directory not yet.
CreateDirectory(t) ==
    /\ t \notin present /\ changes < MaxChanges /\ changes' = changes + 1
    /\ present' = present \union {t}
    /\ stale' = stale \union ({t} \intersect Wanted)
    /\ IF up THEN Queued([kind |-> "directory", topic |-> t]) ELSE UNCHANGED kernel
    /\ UNCHANGED <<ringvars, named, watched, service, hub, thread, waits, faults>>

-----------------------------------------------------------------------------
(* The service's inotify reader: InotifyQueue.consume, one ring call a step. *)

Reading == up /\ ~closed /\ svc.at = "idle" /\ kernel # <<>>

\* An ordinary name is hinted.
ConsumeName ==
    /\ Reading /\ Head(kernel).kind = "name"
    /\ Appended(Head(kernel).topic)
    /\ kernel' = Tail(kernel)
    /\ UNCHANGED <<stale, named, present, watched, changes, service, hub, thread, waits, faults>>

\* Overflow: coverage is withdrawn, history reset, every directory watched and
\* its names hinted, and coverage published again.
ConsumeOverflow ==
    /\ Reading /\ Head(kernel).kind = "overflow"
    /\ SetCoverage({})
    /\ kernel' = Tail(kernel)
    /\ svc' = [at |-> "lost"]
    /\ UNCHANGED <<stale, named, present, watched, changes, up, scan, absent_roots, hub, thread, waits, faults>>

OverflowResets ==
    /\ up /\ svc.at = "lost"
    /\ Reset
    /\ watched' = present
    /\ absent_roots' = Topics \ present
    /\ scan' = present
    /\ svc' = [at |-> "scanning"]
    /\ UNCHANGED <<stale, named, present, kernel, changes, up, hub, thread, waits, faults>>

\* A created directory: its topic's coverage is withdrawn before the watch is
\* installed and its names are read.
ConsumeDirectory ==
    /\ Reading /\ Head(kernel).kind = "directory"
    /\ SetCoverage(covered_topics \ {Head(kernel).topic})
    /\ kernel' = Tail(kernel)
    /\ watched' = watched \union {Head(kernel).topic}
    /\ absent_roots' = absent_roots \ {Head(kernel).topic}
    /\ scan' = {Head(kernel).topic}
    /\ svc' = [at |-> "installing"]
    /\ UNCHANGED <<stale, named, present, changes, up, hub, thread, waits, faults>>

\* _tree: the names a directory has are hinted; it may have none.
Scan ==
    /\ up /\ svc.at \in {"scanning", "installing"} /\ scan # {}
    /\ \E t \in scan :
         /\ scan' = scan \ {t}
         /\ IF t \in named THEN Appended(t) ELSE UNCHANGED ringvars
    /\ UNCHANGED <<world, up, svc, absent_roots, hub, thread, waits, faults>>

Installed ==
    /\ up /\ svc.at = "installing" /\ scan = {}
    /\ ResetV2
    /\ svc' = [at |-> "installed"]
    /\ UNCHANGED <<world, up, scan, absent_roots, hub, thread, waits, faults>>

\* Coverage is what the installed watches prove.
Covered ==
    /\ up /\ scan = {} /\ svc.at \in {"scanning", "installed"}
    /\ SetCoverage(watched \union absent_roots)
    /\ svc' = [at |-> "idle"]
    /\ UNCHANGED <<world, up, scan, absent_roots, hub, thread, waits, faults>>

\* The service stops: the ring is closed and its requests are answered.
Stop ==
    /\ up /\ ~closed /\ svc.at = "idle" /\ faults < MaxFaults
    /\ faults' = faults + 1
    /\ Close
    /\ UNCHANGED <<world, service, hub, thread, waits>>

\* It dies, or a stopped one exits.
Crash ==
    /\ up /\ (closed \/ faults < MaxFaults)
    /\ faults' = IF closed THEN faults ELSE faults + 1
    /\ up' = FALSE /\ svc' = [at |-> "idle"] /\ scan' = {}
    /\ kernel' = <<>> /\ watched' = {}
    /\ UNCHANGED <<ringvars, stale, named, present, changes, absent_roots, hub, thread, waits>>

\* A new process watches every directory before it serves a cursor.
Start ==
    /\ ~up
    /\ NewRing
    /\ up' = TRUE /\ watched' = present /\ absent_roots' = Topics \ present
    /\ UNCHANGED <<stale, named, present, kernel, changes, svc, scan, hub, thread, waits, faults>>
-----------------------------------------------------------------------------
(* The requests the service is serving.                                    *)

Serve ==
    /\ up
    /\ Look(Hub) \/ Woken(Hub) \/ Expires(Hub)
    /\ UNCHANGED <<world, service, hub, thread, waits, faults>>

-----------------------------------------------------------------------------
(* The hub: arm, the owner's reads, reconciled.                            *)

\* _degrade: every index built on the bell has to be rebuilt.
Degrade(snap) ==
    /\ complete' = FALSE
    /\ snapshot' = IF snap = None THEN None ELSE [snap EXCEPT !.complete = FALSE]

Backoff == IF retry = "none" THEN "pending" ELSE retry

\* now_v2 answers: the service runs and covers the hub's topics.
Answers == up /\ ~closed /\ Wanted \subseteq covered_topics

Now == [kind |-> "bell", epoch |-> epoch, seq |-> seq, version |-> coverage_version, complete |-> TRUE]

\* The owner is given a generation and will read what it has to.
Armed(snap, failure) ==
    /\ before' = [bell |-> snap, failure |-> failure]
    /\ moved' = FALSE
    /\ changed' = FALSE
    /\ owner' = "reading"
    /\ toread' = {Local} \union (IF complete' THEN hints ELSE Wanted)
    /\ UNCHANGED <<ringvars, world, service, hints, reset_seen, thread, faults>>

\* While a retry is pending, or from the snapshot of the last renewal.
ArmKept ==
    /\ owner = "free" /\ (retry = "pending" \/ snapshot # None)
    /\ reconciled' = (reconciled /\ ~moved)
    /\ UNCHANGED <<complete, snapshot, identity, retry>>
    /\ IF retry = "pending" THEN Armed(None, TRUE) ELSE Armed(snapshot, FALSE)

\* From the service; another epoch or coverage than before is a degradation.
ArmNow ==
    /\ owner = "free" /\ retry # "pending" /\ snapshot = None /\ Answers
    /\ LET seen == [epoch |-> epoch, version |-> coverage_version]
           other == identity # None /\ identity # seen
       IN  /\ identity' = seen
           /\ snapshot' = Now
           /\ complete' = (complete /\ ~other)
           /\ reconciled' = (reconciled /\ ~moved /\ ~other)
           /\ retry' = IF other THEN Backoff ELSE retry
           /\ Armed(Now, other)

ArmUnavailable ==
    /\ owner = "free" /\ retry # "pending" /\ snapshot = None /\ ~Answers
    /\ Degrade(None)
    /\ reconciled' = FALSE
    /\ retry' = Backoff
    /\ UNCHANGED identity
    /\ Armed(None, TRUE)

Read(x) ==
    /\ owner = "reading" /\ x \in toread
    /\ toread' = toread \ {x}
    /\ stale' = stale \ {x}
    /\ UNCHANGED <<ringvars, named, present, watched, kernel, changes, service, hub, thread,
                   owner, hints, before, faults>>

\* The owner has read everything: reconciled, which a degraded snapshot or a
\* later reset refuses, and then wait_since.
Reconciles == before.bell # None /\ before.bell.complete /\ ~moved

BeginWait ==
    /\ owner = "reading" /\ toread = {}
    /\ owner' = "waiting"
    /\ IF ~complete /\ Reconciles
       THEN reconciled' = TRUE /\ complete' = TRUE /\ retry' = "none"
       ELSE UNCHANGED <<reconciled, complete, retry>>
    /\ result' = None /\ completed_bell' = None /\ reader' = "none" /\ bell' = None
    /\ hints' = {}
    /\ UNCHANGED <<ringvars, stale, named, present, watched, kernel, changes, service, toread, before,
                   moved, snapshot, identity, reset_seen, changed, faults>>

\* notify: a local source changed.
Notify ==
    /\ changes < MaxChanges /\ changes' = changes + 1
    /\ stale' = stale \union {Local}
    /\ changed' = TRUE
    /\ UNCHANGED <<ringvars, named, present, watched, kernel, service, moved, reconciled, complete,
                   snapshot, identity, retry, reset_seen, thread, waits, faults>>

RetryDue ==
    /\ retry = "pending" /\ retry' = "due"
    /\ UNCHANGED <<ringvars, world, service, moved, reconciled, complete, snapshot, identity,
                   reset_seen, changed, thread, waits, faults>>
-----------------------------------------------------------------------------
(* wait_since: one pass of its loop a step, and the reader thread.  A reset  *)
(* by another arm cannot come between: the hub has one owner.              *)

Pending == before.failure /\ ~(before.bell # None /\ reconciled)

\* The wait ends; a completed renewal is taken over only here.
Returns(found) ==
    /\ owner' = "returning"
    /\ hints' = found
    /\ snapshot' = IF completed_bell = None THEN snapshot ELSE completed_bell
    /\ UNCHANGED <<ringvars, world, service, moved, reconciled, complete, identity, reset_seen,
                   changed, thread, toread, before, faults>>

WaitChanged ==
    /\ owner = "waiting" /\ changed
    /\ UNCHANGED retry
    /\ Returns(IF result = None THEN {} ELSE result.hints)

FaultyWaitResult ==
    /\ owner = "waiting" /\ ~changed /\ result # None /\ retry # "pending"
    /\ result.kind # "unavailable"
    /\ retry' = "none"
    /\ Returns(result.hints)

WaitResult ==
    /\ owner = "waiting" /\ ~changed /\ result # None /\ retry # "pending"
    /\ retry' = "none"
    /\ Returns(result.hints)

WaitFailure ==
    /\ owner = "waiting" /\ ~changed /\ result = None /\ Pending /\ retry # "pending"
    /\ retry' = "none"
    /\ Returns({})

StartReader ==
    /\ owner = "waiting" /\ ~changed /\ result = None
    /\ reader = "none" /\ before.bell # None /\ ~Pending
    /\ reader' = "asking"
    /\ bell' = before.bell
    /\ UNCHANGED <<ringvars, world, service, hub, result, completed_bell, waits, faults>>

\* The owner cancels the reader on its way out of wait_since, in Join.
Uncancelled == owner \in {"waiting", "returning"}

ReaderAsks ==
    /\ reader = "asking" /\ Uncancelled /\ up /\ ~closed
    /\ Register(Hub, [epoch |-> bell.epoch, seq |-> bell.seq], Wanted, bell.version)
    /\ reader' = "requested"
    /\ UNCHANGED <<world, service, hub, bell, result, completed_bell, waits, faults>>

Answer == waiters[Hub]

Hung == IF Answer.at = "out" THEN UNCHANGED ringvars ELSE Leave(Hub)

\* Unavailable: degrade, and retry later from the same cursor.
Unavailable ==
    /\ Uncancelled
    /\ Degrade(snapshot)
    /\ moved' = TRUE
    /\ retry' = Backoff
    /\ result' = [kind |-> "unavailable", hints |-> {}]
    /\ reader' = "ended"
    /\ Hung
    /\ UNCHANGED <<world, service, reconciled, identity, reset_seen, changed, bell, completed_bell, waits>>

ReaderFails ==
    /\ \/ reader = "asking" /\ (~up \/ closed)
       \/ reader = "requested" /\ (Answer.at = "out" \/ (~up /\ Answer.at # "answered"))
    /\ Unavailable
    /\ UNCHANGED faults

RequestLost ==
    /\ reader \in {"asking", "requested"} /\ faults < MaxFaults
    /\ faults' = faults + 1
    /\ Unavailable

\* An answer: a reset drops the cursor; hints are the owner's; an empty answer
\* renews the cursor and, unless coverage was degraded, asks again.
Fresh == [kind |-> "bell", epoch |-> Answer.cursor.epoch, seq |-> Answer.cursor.seq,
          version |-> bell.version, complete |-> TRUE]

ReaderReset ==
    /\ reader = "requested" /\ Answer.at = "answered" /\ Answer.reset
    /\ complete' = FALSE /\ snapshot' = None
    /\ moved' = TRUE
    /\ retry' = IF reset_seen THEN Backoff ELSE "none"
    /\ reset_seen' = TRUE
    /\ result' = [kind |-> "reset", hints |-> {}]
    /\ reader' = "ended"
    /\ Leave(Hub)
    /\ UNCHANGED <<world, service, reconciled, identity, changed, bell, completed_bell, waits, faults>>

FaultyReaderHints ==
    /\ reader = "requested" /\ Answer.at = "answered" /\ ~Answer.reset /\ Answer.found # {}
    /\ snapshot' = Fresh
    /\ result' = [kind |-> "changed", hints |-> {e.topic : e \in Answer.found}]
    /\ retry' = "none" /\ reset_seen' = FALSE
    /\ reader' = "ended"
    /\ Leave(Hub)
    /\ UNCHANGED <<world, service, moved, reconciled, complete, identity, changed, bell, completed_bell,
                   waits, faults>>

ReaderHints ==
    /\ reader = "requested" /\ Answer.at = "answered" /\ ~Answer.reset /\ Answer.found # {}
    /\ completed_bell' = Fresh
    /\ result' = [kind |-> "changed", hints |-> {e.topic : e \in Answer.found}]
    /\ retry' = "none" /\ reset_seen' = FALSE
    /\ reader' = "ended"
    /\ Leave(Hub)
    /\ UNCHANGED <<world, service, moved, reconciled, complete, snapshot, identity, changed, bell,
                   waits, faults>>

ReaderRenews ==
    /\ reader = "requested" /\ Answer.at = "answered" /\ ~Answer.reset /\ Answer.found = {}
    /\ snapshot' = Fresh
    /\ retry' = "none" /\ reset_seen' = FALSE
    /\ IF bell.complete
       THEN reader' = "asking" /\ bell' = Fresh /\ UNCHANGED result
       ELSE reader' = "ended" /\ result' = [kind |-> "changed", hints |-> {}] /\ UNCHANGED bell
    /\ Leave(Hub)
    /\ UNCHANGED <<world, service, moved, reconciled, complete, identity, changed, completed_bell,
                   waits, faults>>

\* finally: cancel the request and join the thread.
Join ==
    /\ owner = "returning"
    /\ owner' = "free"
    /\ Hung
    /\ reader' = "none" /\ bell' = None /\ result' = None /\ completed_bell' = None
    /\ UNCHANGED <<world, service, hub, toread, hints, before, faults>>

ServiceStep ==
    \/ ConsumeName \/ ConsumeOverflow \/ OverflowResets \/ ConsumeDirectory
    \/ Scan \/ Installed \/ Covered

Answering == up /\ (Look(Hub) \/ Woken(Hub)) /\ UNCHANGED <<world, service, hub, thread, waits, faults>>

HubStep ==
    \/ ArmKept \/ ArmNow \/ ArmUnavailable \/ BeginWait
    \/ \E x \in Sources : Read(x)
    \/ WaitChanged \/ WaitResult \/ WaitFailure \/ StartReader \/ Join

ReaderStep ==
    ReaderAsks \/ ReaderFails \/ ReaderReset \/ ReaderHints \/ ReaderRenews

Next ==
    \/ \E t \in Topics : Change(t) \/ CreateDirectory(t)
    \/ Notify \/ RetryDue
    \/ ServiceStep \/ Stop \/ Crash \/ Start
    \/ Serve \/ HubStep \/ ReaderStep \/ RequestLost

Spec == Init /\ [][Next]_vars

\* The service's thread, its requests, the owner and the reader thread go on,
\* and a retry comes due.  No long poll need time out, and nothing starts a
\* dead service again.
Fairness ==
    /\ WF_vars(ServiceStep) /\ WF_vars(Answering)
    /\ WF_vars(HubStep) /\ WF_vars(ReaderStep) /\ WF_vars(RetryDue)

FairSpec == Spec /\ Fairness

-----------------------------------------------------------------------------
\* The hub's owner never sleeps on a change: when its request sleeps at a
\* service that has read every watch event, it has read every record since the
\* last change, across overflows, resets, restarts and cancelled renewals.
Asleep ==
    /\ owner = "waiting" /\ ~changed /\ result = None
    /\ reader = "requested" /\ Answer.at = "blocked" /\ Hub \notin byte
    /\ up /\ ~closed /\ svc.at = "idle" /\ kernel = <<>>

NothingSleptThrough == Asleep => stale = {}

\* Every change is read in the end, whether or not the service lives.
EveryChangeIsRead == \A x \in Sources : x \in stale ~> x \notin stale
=============================================================================
