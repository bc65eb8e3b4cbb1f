--------------------------- MODULE HostWaitProofs ---------------------------
(***************************************************************************)
(* Proofs about HostWait, for every set of topics, every ring and kernel   *)
(* queue, and any number of changes, faults and restarts.                  *)
(***************************************************************************)
EXTENDS HostWait, EventRingProofs

\* Leaves are first-order and left to Zenon; the ones that reckon, or take
\* records apart, cite SMT.
USE Zenon

-----------------------------------------------------------------------------
(* Types, and that the ring is used as EventRing allows.                   *)

WorldTypes ==
    /\ stale \subseteq Sources
    /\ watched \subseteq present /\ named \subseteq present /\ present \subseteq Topics
    /\ kernel \in Seq(WatchEvents) /\ Len(kernel) <= KernelCap + 1
    /\ up \in BOOLEAN /\ svc \in [at : {"idle", "lost", "scanning", "installing", "installed"}]
    /\ scan \subseteq Topics /\ absent_roots \subseteq Topics
    /\ changes \in 0 .. MaxChanges /\ faults \in 0 .. MaxFaults

HubTypes ==
    /\ owner \in {"free", "reading", "waiting", "returning"}
    /\ toread \subseteq Sources /\ hints \subseteq Wanted
    /\ before \in Generations
    /\ moved \in BOOLEAN /\ reconciled \in BOOLEAN /\ complete \in BOOLEAN
    /\ reset_seen \in BOOLEAN /\ changed \in BOOLEAN
    /\ snapshot \in Snapshots \union {None}
    /\ identity \in Identities \union {None}
    /\ retry \in {"none", "pending", "due"}

ThreadTypes ==
    /\ bell \in Snapshots \union {None}
    /\ completed_bell \in Snapshots \union {None} /\ result \in Results \union {None}
    /\ reader \in {"none", "asking", "requested", "ended"}

\* The request in hand is the reader thread's: it asks for what is wanted, from the
\* thread's cursor, and has been answered with nothing else.
Asked ==
    /\ owner \in {"free", "reading"} => reader = "none"
    /\ reader \in {"asking", "requested"} => bell # None
    /\ reader = "requested" /\ Answer.at # "out" =>
           /\ Answer.since = [epoch |-> bell.epoch, seq |-> bell.seq]
           /\ Answer.dirs = Wanted /\ Answer.version = bell.version
    /\ \A e \in Answer.found : e.topic \in Answer.dirs
    /\ Answer.at = "answered" /\ ~Answer.reset => Answer.since.epoch = Answer.cursor.epoch
    /\ completed_bell # None => reader = "ended" /\ result # None

TypeInv == RingTypeOK /\ WorldTypes /\ HubTypes /\ ThreadTypes /\ Asked

LEMMA TypeInvIs == TypeInv => TypeOK
  BY DEF TypeInv, TypeOK, WorldTypes, HubTypes, ThreadTypes

LEMMA Constants ==
    /\ Lazy \subseteq Topics /\ Wanted \subseteq Topics /\ Local \notin Topics
    /\ Hub \in Waiters /\ Wanted \subseteq Sources /\ Local \in Sources /\ Lost \notin Topics
  BY HostWaitAssumption, RingAssumption DEF Local, Sources, Lost

LEMMA NoneIsNone == None \notin Snapshots /\ None \notin Results /\ None \notin Identities
  <1>1. \A r \in Snapshots \union Results : r.kind # "none"
    BY SMT DEF Snapshots, Results
  <1>2. None.kind = "none"
    BY SMT DEF None
  <1>3. None \notin Identities
    BY SMT DEF None, Identities
  <1> QED BY <1>1, <1>2, <1>3

LEMMA EventTopics ==
    ASSUME WorldTypes, kernel # <<>>
    PROVE  /\ Head(kernel) \in WatchEvents /\ Tail(kernel) \in Seq(WatchEvents)
           /\ Len(Tail(kernel)) <= KernelCap + 1
           /\ Head(kernel).kind # "overflow" =>
                  Head(kernel).topic \in present /\ Head(kernel).topic \in Topics
  <1>1. /\ Head(kernel) \in WatchEvents /\ Tail(kernel) \in Seq(WatchEvents)
        /\ Len(Tail(kernel)) = Len(kernel) - 1 /\ Len(kernel) \in Nat
    BY SMT DEF WorldTypes
  <1>2. Len(Tail(kernel)) <= KernelCap + 1
    BY SMT, <1>1, HostWaitAssumption DEF WorldTypes
  <1>3. \A e \in WatchEvents : e.kind # "overflow" => e.topic \in present
    BY SMT DEF WatchEvents, Overflow
  <1> QED BY <1>1, <1>2, <1>3 DEF WorldTypes

\* The kernel's events stay events while directories only appear.
LEMMA QueuedTypes ==
    ASSUME WorldTypes, NEW e \in WatchEvents', Queued(e) \/ UNCHANGED kernel,
           present \subseteq present'
    PROVE  kernel' \in Seq(WatchEvents)' /\ Len(kernel') <= KernelCap + 1
  <1>1. Overflow \in WatchEvents' /\ WatchEvents \subseteq WatchEvents'
    BY SMT DEF WatchEvents
  <1> DEFINE W == WatchEvents'
  <1>2. kernel \in Seq(W) /\ Len(kernel) <= KernelCap + 1
    BY SMT, <1>1 DEF WorldTypes
  <1>3. KernelCap \in Nat
    BY HostWaitAssumption
  <1> HIDE DEF W
  <1>4. Overflow \in W /\ e \in W
    BY <1>1 DEF W
  <1>5. kernel' \in Seq(W) /\ Len(kernel') <= KernelCap + 1
    BY SMT, <1>2, <1>3, <1>4 DEF Queued
  <1> QED BY <1>5 DEF W

\* The hub's requests are requests of the ring.
LEMMA AsksRegister ==
    ASSUME TypeInv, ReaderAsks
    PROVE  Registers(Hub)
  <1>1. bell \in Snapshots /\ waiters \in [Waiters -> Requests]
    BY NoneIsNone DEF TypeInv, ThreadTypes, Asked, ReaderAsks, RingTypeOK
  <1> DEFINE since == [epoch |-> bell.epoch, seq |-> bell.seq]
             r == [NoRequest EXCEPT !.at = "checking", !.since = since, !.dirs = Wanted,
                                    !.version = bell.version]
  <1>2. since \in Cursors /\ bell.version \in Nat
    BY SMT, <1>1 DEF Snapshots, Cursors
  <1>3. Register(Hub, since, Wanted, bell.version) /\ waiters' = [waiters EXCEPT ![Hub] = r]
    BY DEF ReaderAsks, Register
  <1> HIDE DEF since
  <1>4. r \in Requests /\ r.since = since /\ r.dirs = Wanted /\ r.version = bell.version
    BY <1>2, Constants DEF NoRequest, Nowhere, Requests, Cursors
  <1> HIDE DEF r
  <1>5. waiters'[Hub] = r
    BY <1>1, <1>3, Constants
  <1> QED BY <1>3, <1>4, <1>5 DEF Registers

\* What each step does to the ring is a step of the ring or leaves it alone.
LEMMA RingStep == ASSUME TypeInv, [Next]_vars PROVE [RingNext]_ringvars
  <1> USE DEF RingNext
  <1>1. ASSUME NEW t \in Topics, Change(t) \/ CreateDirectory(t) PROVE UNCHANGED ringvars
    BY <1>1 DEF Change, CreateDirectory
  <1>2. CASE Notify \/ RetryDue \/ Crash
    BY <1>2 DEF Notify, RetryDue, Crash
  <1>3. CASE ConsumeName
    BY <1>3, EventTopics DEF TypeInv, ConsumeName, Reading
  <1>4. CASE ConsumeOverflow
    BY <1>4 DEF ConsumeOverflow
  <1>5. CASE OverflowResets
    BY <1>5 DEF OverflowResets
  <1>6. CASE ConsumeDirectory
    BY <1>6 DEF TypeInv, RingTypeOK, ConsumeDirectory
  <1>7. CASE Scan
    BY <1>7 DEF TypeInv, WorldTypes, Scan
  <1>8. CASE Installed
    BY <1>8 DEF Installed
  <1>9. CASE Covered
    BY <1>9 DEF TypeInv, WorldTypes, Covered
  <1>10. CASE Stop \/ Start
    BY <1>10 DEF Stop, Start
  <1>11. CASE Serve
    BY <1>11, Constants DEF Serve
  <1>12. CASE HubStep
    BY <1>12, Constants DEF HubStep, ArmKept, ArmNow, ArmUnavailable, Armed, BeginWait, Read,
         WaitChanged, WaitResult, WaitFailure, Returns, StartReader, Join, Hung
  <1>13. CASE ReaderAsks
    BY <1>13, AsksRegister, Constants
  <1>14. CASE ReaderFails \/ RequestLost
    BY <1>14, Constants DEF ReaderFails, RequestLost, Unavailable, Hung
  <1>15. CASE ReaderReset \/ ReaderHints \/ ReaderRenews
    BY <1>15, Constants DEF ReaderReset, ReaderHints, ReaderRenews
  <1>16. CASE UNCHANGED vars
    BY <1>16 DEF vars
  <1> QED BY <1>1, <1>2, <1>3, <1>4, <1>5, <1>6, <1>7, <1>8, <1>9, <1>10, <1>11, <1>12, <1>13,
            <1>14, <1>15, <1>16 DEF Next, ServiceStep, ReaderStep

LEMMA FreshTypes ==
    ASSUME TypeInv, reader = "requested", Answer.at = "answered"
    PROVE  /\ Fresh \in Snapshots /\ bell \in Snapshots
           /\ {e.topic : e \in Answer.found} \subseteq Wanted
  <1>1. bell \in Snapshots /\ Answer \in Requests
    BY NoneIsNone, Constants DEF TypeInv, ThreadTypes, Asked, RingTypeOK, Answer
  <1>2. Answer.cursor \in Cursors
    BY <1>1 DEF Requests
  <1>3. Fresh \in Snapshots
    BY SMT, <1>1, <1>2 DEF Fresh, Snapshots, Cursors
  <1> QED BY <1>1, <1>3 DEF TypeInv, Asked

LEMMA HubFrame ==
    ASSUME UNCHANGED <<hub, waits>>, HubTypes PROVE HubTypes'
  <1>1. /\ UNCHANGED <<moved, reconciled, complete, snapshot, identity, retry, reset_seen, changed>>
        /\ UNCHANGED <<owner, toread, hints, before>>
    BY DEF hub, waits
  <1> QED BY <1>1 DEF HubTypes

LEMMA ThreadFrame ==
    ASSUME UNCHANGED thread, ThreadTypes PROVE ThreadTypes'
  BY DEF thread, ThreadTypes

LEMMA WorldFrame ==
    ASSUME UNCHANGED <<world, service, faults>>, WorldTypes PROVE WorldTypes'
  BY DEF world, service, WorldTypes, WatchEvents

\* The directories, the kernel and the service.
ServiceSide ==
    \/ \E t \in Topics : Change(t) \/ CreateDirectory(t)
    \/ ServiceStep \/ Stop \/ Crash \/ Start

LEMMA ServiceFrame == ASSUME ServiceSide PROVE UNCHANGED <<hub, thread, waits>>
  BY DEF ServiceSide, ServiceStep, Change, CreateDirectory, ConsumeName, ConsumeOverflow,
       OverflowResets, ConsumeDirectory, Scan, Installed, Covered, Stop, Crash, Start

LEMMA CountsUp ==
    /\ \A n \in 0 .. MaxChanges : n < MaxChanges => n + 1 \in 0 .. MaxChanges
    /\ \A n \in 0 .. MaxFaults : n < MaxFaults => n + 1 \in 0 .. MaxFaults
  BY SMT, HostWaitAssumption

LEMMA ServiceTypes == ASSUME TypeInv, ServiceSide PROVE WorldTypes'
  <1> SUFFICES ASSUME WorldTypes PROVE WorldTypes'
    BY DEF TypeInv
  <1> USE DEF WatchEvents
  <1>1. ASSUME NEW t \in Topics, Change(t) \/ CreateDirectory(t) PROVE WorldTypes'
    <2>1. present \subseteq present' /\ t \in present' /\ present' \subseteq Topics
      BY <1>1 DEF Change, CreateDirectory, WorldTypes
    <2>2. \A k \in {"name", "directory"} : [kind |-> k, topic |-> t] \in WatchEvents'
      BY SMT, <2>1 DEF WatchEvents
    <2>3. kernel' \in Seq(WatchEvents)' /\ Len(kernel') <= KernelCap + 1
      BY <1>1, <2>1, <2>2, QueuedTypes DEF Change, CreateDirectory
    <2>4. stale' \subseteq Sources /\ changes' \in 0 .. MaxChanges
      BY <1>1, CountsUp, Constants DEF Change, CreateDirectory, WorldTypes
    <2> QED BY <1>1, <2>1, <2>3, <2>4 DEF Change, CreateDirectory, WorldTypes, service
  <1>2. CASE ConsumeName
    BY <1>2, EventTopics DEF ConsumeName, Reading, WorldTypes, service
  <1>3. CASE ConsumeOverflow
    BY <1>3, EventTopics DEF ConsumeOverflow, Reading, WorldTypes
  <1>4. CASE OverflowResets
    BY <1>4 DEF OverflowResets, WorldTypes
  <1>5. CASE ConsumeDirectory
    BY <1>5, EventTopics DEF ConsumeDirectory, Reading, WorldTypes
  <1>6. CASE Scan
    BY <1>6 DEF Scan, WorldTypes, world
  <1>7. CASE Installed
    BY <1>7 DEF Installed, WorldTypes, world
  <1>11. CASE Covered
    BY <1>11 DEF Covered, WorldTypes, world
  <1>8. CASE Stop
    BY <1>8, CountsUp DEF Stop, WorldTypes, world, service
  <1>9. CASE Crash
    <2>1. <<>> \in Seq(WatchEvents) /\ Len(<<>>) <= KernelCap + 1
      BY SMT, HostWaitAssumption
    <2> QED BY <1>9, <2>1, CountsUp DEF Crash, WorldTypes
  <1>10. CASE Start
    BY <1>10 DEF Start, WorldTypes
  <1> QED BY <1>1, <1>2, <1>3, <1>4, <1>5, <1>6, <1>7, <1>8, <1>9, <1>10, <1>11
           DEF ServiceSide, ServiceStep

\* The hub's owner, its reader thread and the requests.
HubSide == Notify \/ RetryDue \/ HubStep \/ ReaderStep \/ RequestLost \/ Serve

LEMMA NextSides == Next <=> ServiceSide \/ HubSide
  BY DEF Next, ServiceSide, HubSide

\* The steps of the hub's side leave the ring's history and the service alone.
LEMMA HubSideFrame ==
    ASSUME HubSide PROVE UNCHANGED <<ring, named, present, watched, kernel, service>>
  <1>1. CASE Notify \/ RetryDue \/ Serve
    BY <1>1 DEF Notify, RetryDue, Serve, Look, Woken, Expires, ringvars, world
  <1>2. CASE ArmKept \/ ArmNow \/ ArmUnavailable
    BY <1>2 DEF ArmKept, ArmNow, ArmUnavailable, Armed, ringvars, world
  <1>3. CASE BeginWait \/ \E x \in Sources : Read(x)
    BY <1>3 DEF BeginWait, Read, ringvars
  <1>4. CASE WaitChanged \/ WaitResult \/ WaitFailure \/ StartReader
    BY <1>4 DEF WaitChanged, WaitResult, WaitFailure, Returns, StartReader, ringvars, world
  <1>5. CASE Join \/ ReaderFails \/ RequestLost
    BY <1>5 DEF Join, ReaderFails, RequestLost, Unavailable, Hung, Leave, ringvars, world
  <1>6. CASE ReaderAsks \/ ReaderReset \/ ReaderHints \/ ReaderRenews
    BY <1>6 DEF ReaderAsks, ReaderReset, ReaderHints, ReaderRenews, Register, Leave, world
  <1> QED BY <1>1, <1>2, <1>3, <1>4, <1>5, <1>6 DEF HubSide, HubStep, ReaderStep

LEMMA HubSideWorldTypes == ASSUME TypeInv, HubSide PROVE WorldTypes'
  <1>1. UNCHANGED <<named, present, watched, kernel, up, svc, scan, absent_roots>> /\ WorldTypes
    BY HubSideFrame DEF service, TypeInv
  <1>2. stale' \subseteq Sources /\ changes' \in 0 .. MaxChanges /\ faults' \in 0 .. MaxFaults
    <2> SUFFICES ASSUME stale \subseteq Sources, changes \in 0 .. MaxChanges,
                        faults \in 0 .. MaxFaults
                 PROVE  /\ stale' \subseteq Sources /\ changes' \in 0 .. MaxChanges
                        /\ faults' \in 0 .. MaxFaults
      BY <1>1 DEF WorldTypes
    <2>1. CASE Notify \/ RetryDue \/ Serve
      BY <2>1, CountsUp, Constants DEF Notify, RetryDue, Serve, world
    <2>2. CASE ArmKept \/ ArmNow \/ ArmUnavailable
      BY <2>2 DEF ArmKept, ArmNow, ArmUnavailable, Armed, world
    <2>3. CASE BeginWait \/ \E x \in Sources : Read(x)
      BY <2>3 DEF BeginWait, Read
    <2>4. CASE WaitChanged \/ WaitResult \/ WaitFailure \/ StartReader
      BY <2>4 DEF WaitChanged, WaitResult, WaitFailure, Returns, StartReader, world
    <2>5. CASE Join \/ ReaderFails \/ RequestLost
      BY <2>5, CountsUp DEF Join, ReaderFails, RequestLost, Unavailable, world
    <2>6. CASE ReaderAsks \/ ReaderReset \/ ReaderHints \/ ReaderRenews
      BY <2>6 DEF ReaderAsks, ReaderReset, ReaderHints, ReaderRenews, world
    <2> QED BY <2>1, <2>2, <2>3, <2>4, <2>5, <2>6 DEF HubSide, HubStep, ReaderStep
  <1> QED BY <1>1, <1>2 DEF WorldTypes, WatchEvents

LEMMA HubSideTypes == ASSUME TypeInv, HubSide PROVE HubTypes' /\ ThreadTypes'
  <1>0. RingTypeOK /\ HubTypes /\ ThreadTypes
    BY DEF TypeInv
  <1>1. Now \in Snapshots /\ [epoch |-> epoch, version |-> coverage_version] \in Identities
    BY SMT, <1>0 DEF RingTypeOK, Now, Snapshots, Identities
  <1>2. \A s \in Snapshots \union {None} :
          (IF s = None THEN None ELSE [s EXCEPT !.complete = FALSE]) \in Snapshots \union {None}
    <2>1. \A s \in Snapshots : [s EXCEPT !.complete = FALSE] \in Snapshots
      BY DEF Snapshots
    <2> QED BY <2>1
  <1>3. Backoff \in {"none", "pending", "due"}
    BY <1>0 DEF Backoff, HubTypes
  <1>4. \A s \in Snapshots \union {None}, b \in BOOLEAN :
          [bell |-> s, failure |-> b] \in Generations
    BY SMT DEF Generations
  <1>5. /\ before.bell \in Snapshots \union {None}
        /\ \A k \in {"reset", "changed", "unavailable"}, h \in SUBSET Wanted :
              [kind |-> k, hints |-> h] \in Results
        /\ result # None => result.hints \subseteq Wanted
    BY SMT, <1>0 DEF HubTypes, ThreadTypes, Results, Generations
  <1>6. CASE Notify \/ RetryDue \/ Serve
    <2>1. CASE Notify
      BY <1>0, <2>1, ThreadFrame DEF Notify, waits, HubTypes
    <2>2. CASE RetryDue
      BY <1>0, <2>2, ThreadFrame DEF RetryDue, waits, HubTypes
    <2>3. CASE Serve
      BY <1>0, <2>3, HubFrame, ThreadFrame DEF Serve
    <2> QED BY <1>6, <2>1, <2>2, <2>3
  <1>7. ASSUME NEW s \in Snapshots \union {None}, NEW b \in BOOLEAN, Armed(s, b),
               reconciled' \in BOOLEAN, complete' \in BOOLEAN,
               snapshot' \in Snapshots \union {None}, identity' \in Identities \union {None},
               retry' \in {"none", "pending", "due"}
        PROVE  HubTypes' /\ ThreadTypes'
    <2>1. toread' \subseteq Sources
      BY <1>0, <1>7, Constants DEF Armed, HubTypes, Sources
    <2> QED BY <1>0, <1>4, <1>7, <2>1, ThreadFrame DEF Armed, HubTypes
  <1>8. CASE ArmKept
    BY <1>0, <1>7, <1>8 DEF ArmKept, HubTypes
  <1>9. CASE ArmNow
    BY <1>0, <1>1, <1>3, <1>7, <1>9 DEF ArmNow, HubTypes
  <1>10. CASE ArmUnavailable
    BY <1>0, <1>3, <1>7, <1>10 DEF ArmUnavailable, Degrade, HubTypes
  <1>11. CASE BeginWait
    BY <1>0, <1>11 DEF BeginWait, HubTypes, ThreadTypes
  <1>12. CASE \E x \in Sources : Read(x)
    BY <1>0, <1>12, ThreadFrame DEF Read, hub, HubTypes
  <1>13. ASSUME NEW found \in SUBSET Wanted, Returns(found), retry' \in {"none", "pending", "due"}
         PROVE  HubTypes' /\ ThreadTypes'
    BY <1>0, <1>13, ThreadFrame DEF Returns, HubTypes, ThreadTypes
  <1>14. CASE WaitChanged \/ WaitResult \/ WaitFailure
    BY <1>0, <1>5, <1>13, <1>14 DEF WaitChanged, WaitResult, WaitFailure, HubTypes
  <1>15. CASE StartReader
    BY <1>0, <1>5, <1>15, HubFrame DEF StartReader, ThreadTypes
  <1>16. CASE Join
    BY <1>0, <1>16 DEF Join, hub, HubTypes, ThreadTypes
  <1>17. CASE ReaderAsks
    BY <1>0, <1>17, HubFrame DEF ReaderAsks, ThreadTypes
  <1>18. CASE ReaderFails \/ RequestLost
    <2>1. Unavailable
      BY <1>18 DEF ReaderFails, RequestLost
    <2>2. snapshot' \in Snapshots \union {None} /\ complete' = FALSE
      BY <1>0, <1>2, <2>1 DEF Unavailable, Degrade, HubTypes
    <2>3. HubTypes'
      BY <1>0, <1>3, <2>1, <2>2 DEF Unavailable, waits, HubTypes
    <2>4. ThreadTypes'
      BY <1>0, <1>5, <2>1 DEF Unavailable, ThreadTypes
    <2> QED BY <2>3, <2>4
  <1>19. CASE ReaderReset
    BY <1>0, <1>3, <1>5, <1>19 DEF ReaderReset, waits, HubTypes, ThreadTypes
  <1>20. CASE ReaderHints
    BY <1>0, <1>5, <1>20, FreshTypes DEF ReaderHints, waits, HubTypes, ThreadTypes
  <1>21. CASE ReaderRenews
    BY <1>0, <1>5, <1>21, FreshTypes DEF ReaderRenews, waits, HubTypes, ThreadTypes
  <1> QED BY <1>6, <1>8, <1>9, <1>10, <1>11, <1>12, <1>14, <1>15, <1>16, <1>17, <1>18, <1>19,
            <1>20, <1>21 DEF HubSide, HubStep, ReaderStep

\* What can become of the hub's request: it is gone, is asked for again, or is
\* looked at; its cursor and what it asks for stay.
SameRequest ==
    /\ Answer'.since = Answer.since /\ Answer'.dirs = Answer.dirs
    /\ Answer'.version = Answer.version /\ Answer.at # "out"

LEMMA NoRequestIs == NoRequest \in Requests /\ NoRequest.at = "out" /\ NoRequest.found = {}
  BY DEF NoRequest, Nowhere, Requests, Cursors

LEMMA GoneIsGone == ASSUME TypeInv, Leave(Hub) PROVE Answer' = NoRequest
  BY Constants DEF TypeInv, RingTypeOK, Leave, Answer

LEMMA HungIsGone == ASSUME TypeInv, Hung PROVE Answer' = NoRequest \/ Answer' = Answer
  BY GoneIsGone DEF Hung, ringvars, Answer

LEMMA RestartedIsGone ==
    ASSUME TypeInv, ServiceSide PROVE Answer' = NoRequest \/ Answer' = Answer
  <1>1. CASE Start
    BY <1>1, Constants DEF Start, NewRing, Answer
  <1>2. CASE ~Start
    <2>1. waiters' = waiters
      BY <1>2 DEF ServiceSide, ServiceStep, Change, CreateDirectory, ConsumeName, ConsumeOverflow,
         OverflowResets, ConsumeDirectory, Scan, Installed, Covered, Stop, Crash,
         Appended, Reset, ResetV2, SetCoverage, Close, ringvars
    <2> QED BY <2>1 DEF Answer
  <1> QED BY <1>1, <1>2

LEMMA ServedIsSame ==
    ASSUME TypeInv, Serve
    PROVE  /\ SameRequest
           /\ \/ Answer'.at \in {"checking", "blocked"} /\ Answer'.found = Answer.found
              \/ /\ Answer'.at = "answered"
                 /\ \A e \in Answer'.found : e.topic \in Answer.dirs
                 /\ ~Answer'.reset => Answer'.since.epoch = Answer'.cursor.epoch
  <1>1. waiters \in [Waiters -> Requests] /\ Answer = waiters[Hub] /\ Answer \in Requests
    BY Constants DEF TypeInv, RingTypeOK, Answer
  <1>2. \A r \in Requests : waiters' = [waiters EXCEPT ![Hub] = r] => Answer' = r
    BY <1>1, Constants DEF Answer
  <1>3. CASE Woken(Hub)
    <2>1. Answer' = [Answer EXCEPT !.at = "checking"]
      BY <1>1, <1>3, Constants DEF Woken, Answer
    <2> QED BY <1>1, <1>3, <2>1 DEF Woken, SameRequest, Requests
  <1>4. CASE Expires(Hub)
    <2>1. Answer' = [Answer EXCEPT !.at = "checking", !.expired = TRUE]
      BY <1>1, <1>4, Constants DEF Expires, Answer
    <2> QED BY <1>1, <1>4, <2>1 DEF Expires, SameRequest, Requests
  <1>5. CASE Look(Hub)
    <2>1. Answer.at = "checking"
      BY <1>1, <1>5 DEF Look
    <2>2. CASE Answer' = [Answer EXCEPT !.at = "blocked"]
      BY <1>1, <2>1, <2>2 DEF SameRequest, Requests
    <2>3. ASSUME NEW b \in BOOLEAN, Answer' = Answered(Answer, b), ~b => ~Reason(Answer)
          PROVE  SameRequest /\ Answer'.at = "answered"
                 /\ (\A e \in Answer'.found : e.topic \in Answer.dirs)
                 /\ (~Answer'.reset => Answer'.since.epoch = Answer'.cursor.epoch)
      <3>1. /\ Answer'.at = "answered" /\ Answer'.reset = b /\ Answer'.since = Answer.since
            /\ Answer'.dirs = Answer.dirs /\ Answer'.version = Answer.version
            /\ Answer'.found = (IF b THEN {} ELSE Found(Answer))
            /\ Answer'.cursor.epoch = epoch
        BY <1>1, <2>3 DEF Answered, Requests
      <3>2. ~b => Answer.since.epoch = epoch
        BY <2>3 DEF Reason
      <3> QED BY <2>1, <3>1, <3>2 DEF SameRequest, Found
    <2>4. \/ Answer' = [Answer EXCEPT !.at = "blocked"]
          \/ \E b \in BOOLEAN : Answer' = Answered(Answer, b) /\ (~b => ~Reason(Answer))
      BY <1>1, <1>5, Constants DEF Look, Answer
    <2> QED BY <2>2, <2>3, <2>4
  <1> QED BY <1>3, <1>4, <1>5 DEF Serve

LEMMA AskedIs ==
    ASSUME TypeInv, ReaderAsks
    PROVE  /\ Answer'.since = [epoch |-> bell.epoch, seq |-> bell.seq]
           /\ Answer'.dirs = Wanted /\ Answer'.version = bell.version
           /\ Answer'.at = "checking" /\ Answer'.found = {}
  <1> DEFINE since == [epoch |-> bell.epoch, seq |-> bell.seq]
  <1>1. waiters \in [Waiters -> Requests]
    BY DEF TypeInv, RingTypeOK
  <1>2. Answer' = [NoRequest EXCEPT !.at = "checking", !.since = since, !.dirs = Wanted,
                                    !.version = bell.version]
    BY <1>1, Constants DEF ReaderAsks, Register, Answer
  <1> HIDE DEF since
  <1>3. /\ Answer'.since = since /\ Answer'.dirs = Wanted /\ Answer'.version = bell.version
        /\ Answer'.at = "checking" /\ Answer'.found = {}
    BY <1>2 DEF NoRequest
  <1> QED BY <1>3 DEF since

LEMMA AskedStep == ASSUME TypeInv, [Next]_vars PROVE Asked'
  <1>0. Asked
    BY DEF TypeInv
  <1>1. ASSUME Answer' = Answer \/ Answer' = NoRequest,
               UNCHANGED <<owner, reader, bell, completed_bell, result>>
        PROVE  Asked'
    BY <1>0, <1>1, NoRequestIs DEF Asked
  <1>2. CASE ServiceSide
    BY <1>1, <1>2, ServiceFrame, RestartedIsGone DEF thread, waits
  <1>3. CASE Serve
    <2>1. UNCHANGED <<owner, reader, bell, completed_bell, result>>
      BY <1>3 DEF Serve, thread, waits
    <2> QED BY <1>0, <1>3, <2>1, ServedIsSame DEF Asked, SameRequest
  <1>4. CASE Notify \/ RetryDue
    BY <1>1, <1>4 DEF Notify, RetryDue, thread, waits, ringvars, Answer
  <1>5. CASE \E x \in Sources : Read(x)
    BY <1>1, <1>5 DEF Read, thread, ringvars, Answer
  <1>6. CASE ArmKept \/ ArmNow \/ ArmUnavailable
    <2>1. Answer' = Answer /\ UNCHANGED <<reader, bell, completed_bell, result>>
          /\ owner = "free"
      BY <1>6 DEF ArmKept, ArmNow, ArmUnavailable, Armed, thread, ringvars, Answer
    <2> QED BY <1>0, <2>1 DEF Asked
  <1>7. CASE BeginWait
    BY <1>0, <1>7 DEF BeginWait, ringvars, Answer, Asked
  <1>8. CASE WaitChanged \/ WaitResult \/ WaitFailure
    <2>1. Answer' = Answer /\ UNCHANGED <<reader, bell, completed_bell, result>>
          /\ owner' = "returning"
      BY <1>8 DEF WaitChanged, WaitResult, WaitFailure, Returns, thread, ringvars, Answer
    <2> QED BY <1>0, <2>1 DEF Asked
  <1>9. CASE StartReader
    BY <1>0, <1>9 DEF StartReader, waits, ringvars, Answer, Asked
  <1>10. CASE Join
    BY <1>0, <1>10, HungIsGone, NoRequestIs DEF Join, Asked
  <1>11. CASE ReaderAsks
    BY <1>0, <1>11, AskedIs DEF ReaderAsks, waits, Asked
  <1>12. CASE ReaderFails \/ RequestLost
    <2>1. Answer' = NoRequest \/ Answer' = Answer
      BY <1>12, HungIsGone DEF ReaderFails, RequestLost, Unavailable
    <2>2. /\ reader \in {"asking", "requested"} /\ owner' = owner
          /\ owner \in {"waiting", "returning"}
          /\ reader' = "ended" /\ completed_bell' = completed_bell
      BY <1>12 DEF ReaderFails, RequestLost, Unavailable, Uncancelled, waits
    <2> QED BY <1>0, <2>1, <2>2, NoRequestIs DEF Asked
  <1>13. CASE ReaderReset
    BY <1>0, <1>13, GoneIsGone, NoRequestIs DEF ReaderReset, waits, Asked
  <1>14. CASE ReaderHints
    <2>1. Fresh # None /\ result' # None
      BY SMT, <1>14 DEF ReaderHints, Fresh, None
    <2> QED BY <1>0, <1>14, <2>1, GoneIsGone, NoRequestIs DEF ReaderHints, waits, Asked
  <1>15. CASE ReaderRenews
    BY <1>0, <1>15, GoneIsGone, NoRequestIs, FreshTypes, NoneIsNone DEF ReaderRenews, waits, Asked
  <1>16. CASE UNCHANGED vars
    BY <1>1, <1>16 DEF vars, thread, waits, ringvars, Answer
  <1> QED BY <1>2, <1>3, <1>4, <1>5, <1>6, <1>7, <1>8, <1>9, <1>10, <1>11, <1>12, <1>13, <1>14,
            <1>15, <1>16, NextSides DEF HubSide, HubStep, ReaderStep

LEMMA TypeInit == ASSUME Init PROVE TypeInv
  <1>1. RingTypeOK
    BY InitInv DEF Init, RingInv
  <1>2. WorldTypes
    <2>1. <<>> \in Seq(WatchEvents) /\ Len(<<>>) <= KernelCap + 1
      BY SMT, HostWaitAssumption
    <2>2. 0 \in 0 .. MaxChanges /\ 0 \in 0 .. MaxFaults
      BY SMT, HostWaitAssumption
    <2> QED BY <2>1, <2>2, Constants DEF Init, WorldTypes
  <1>3. HubTypes /\ ThreadTypes
    <2>1. [bell |-> None, failure |-> FALSE] \in Generations
      BY SMT DEF Generations
    <2> QED BY <2>1 DEF Init, HubTypes, ThreadTypes
  <1>4. Asked
    <2>1. Answer = NoRequest
      BY Constants DEF Init, RingInit, Answer
    <2> QED BY <2>1, NoRequestIs DEF Init, Asked
  <1> QED BY <1>1, <1>2, <1>3, <1>4 DEF TypeInv

LEMMA TypeStep == ASSUME RingInv, TypeInv, [Next]_vars PROVE RingInv' /\ TypeInv'
  <1>1. RingInv'
    BY RingStep, NextInv
  <1>2. CASE ServiceSide
    BY <1>2, ServiceTypes, ServiceFrame, HubFrame, ThreadFrame, AskedStep, <1>1
       DEF TypeInv, RingInv
  <1>3. CASE HubSide
    BY <1>3, HubSideWorldTypes, HubSideTypes, AskedStep, <1>1 DEF TypeInv, RingInv
  <1>4. CASE UNCHANGED vars
    BY <1>4, WorldFrame, HubFrame, ThreadFrame, AskedStep, <1>1 DEF TypeInv, RingInv, vars
  <1> QED BY <1>1, <1>2, <1>3, <1>4, NextSides

LEMMA TypesAlways == Spec => [](RingInv /\ TypeInv)
  <1>1. Init => RingInv /\ TypeInv
    BY TypeInit, InitInv DEF Init
  <1> QED BY <1>1, TypeStep, PTL DEF Spec

\* The variables of the bell, its service and its hub keep their types: a cursor
\* the reader thread uses is one it has, and the owner reads only what it asked for.
THEOREM BellTypes == Spec => []TypeOK
  BY TypesAlways, TypeInvIs, PTL

\* The bell's service and hub use the ring as EventRing says it may be used: each of
\* their steps is a step of the ring or leaves it alone (BellService, wait_since).
THEOREM UsesTheRing == Spec => RingSpec
  <1>1. Init => RingInit
    BY DEF Init
  <1> QED BY <1>1, RingStep, TypesAlways, PTL DEF Spec, RingSpec

-----------------------------------------------------------------------------
(* Nothing slept through.                                                  *)

\* A cursor of this ring is not ahead of it, nor is its version, and none is of a
\* later ring.
Past(c) ==
    /\ c.epoch <= epoch /\ c.version # 0
    /\ c.epoch = epoch => c.seq <= seq /\ c.version <= coverage_version

\* The watch events the service has not read.
Unread == {kernel[i] : i \in DOMAIN kernel}

\* A topic's hint is on its way to the ring, or a reset is: an event for it, or one
\* that says events were dropped, is unread, or the service is at work on one.  The
\* scan of a directory notes nothing: it hints only the names the directory still has.
Coming(t) ==
    \/ \E e \in Unread : e = Overflow \/ e.topic = t
    \/ svc.at \in {"lost", "installing"}

\* It is in the ring's history, after the cursor.
Logged(t, c) == \E e \in log : e.seq > c.seq /\ e.topic \in {t, Lost}

\* A request from the cursor is told of the topic, now or later: its hint is in the
\* history or on its way there, or the cursor is one the service refuses.
Noted(t, c) ==
    \/ ~up \/ closed \/ c.epoch # epoch \/ c.version # coverage_version
    \/ Coming(t) \/ Logged(t, c)

\* A directory without a watch is about to get one, and a full kernel queue ends in
\* its overflow.
Watching ==
    /\ up => \A t \in present \ watched :
                \/ svc.at = "lost" \/ Overflow \in Unread
                \/ [kind |-> "directory", topic |-> t] \in Unread
    /\ Len(kernel) > KernelCap => kernel[Len(kernel)] = Overflow

LEMMA QueuedUnread ==
    ASSUME WorldTypes, Watching, NEW e, Queued(e)
    PROVE  /\ Unread \subseteq Unread' /\ (e \in Unread' \/ Overflow \in Unread')
           /\ Len(kernel') > KernelCap => kernel'[Len(kernel')] = Overflow
  <1>1. /\ kernel \in Seq(WatchEvents) /\ Len(kernel) <= KernelCap + 1 /\ KernelCap \in Nat
        /\ Len(kernel) > KernelCap => kernel[Len(kernel)] = Overflow
    BY HostWaitAssumption DEF WorldTypes, Watching
  <1>2. ASSUME NEW x, kernel' = Append(kernel, x)
        PROVE  Unread \subseteq Unread' /\ x \in Unread' /\ kernel'[Len(kernel')] = x
               /\ Len(kernel') = Len(kernel) + 1
    BY SMT, <1>1, <1>2 DEF Unread
  <1>3. CASE Len(kernel) < KernelCap
    <2>1. kernel' = Append(kernel, e) /\ ~(Len(kernel) + 1 > KernelCap)
      BY SMT, <1>1, <1>3 DEF Queued
    <2> QED BY <1>2, <2>1
  <1>4. CASE Len(kernel) = KernelCap
    <2>1. kernel' = Append(kernel, Overflow)
      BY SMT, <1>1, <1>4 DEF Queued
    <2> QED BY <1>2, <2>1
  <1>5. CASE Len(kernel) > KernelCap
    <2>1. kernel' = kernel /\ Len(kernel) \in DOMAIN kernel
      BY SMT, <1>1, <1>5 DEF Queued
    <2> QED BY <1>1, <1>5, <2>1 DEF Unread
  <1> QED BY SMT, <1>1, <1>3, <1>4, <1>5

LEMMA TakenUnread ==
    ASSUME WorldTypes, Watching, kernel # <<>>, kernel' = Tail(kernel)
    PROVE  /\ \A e \in Unread : e = Head(kernel) \/ e \in Unread'
           /\ Len(kernel') > KernelCap => kernel'[Len(kernel')] = Overflow
  <1>1. /\ kernel \in Seq(WatchEvents) /\ Len(kernel) <= KernelCap + 1 /\ KernelCap \in Nat
    BY HostWaitAssumption DEF WorldTypes
  <1>2. Len(kernel') = Len(kernel) - 1 /\ \A i \in 1 .. Len(kernel') : kernel'[i] = kernel[i + 1]
    BY SMT, <1>1
  <1>3. ASSUME NEW i \in DOMAIN kernel PROVE kernel[i] = Head(kernel) \/ kernel[i] \in Unread'
    <2>1. CASE i = 1
      BY SMT, <1>1, <2>1
    <2>2. CASE i # 1
      <3>1. i - 1 \in DOMAIN kernel' /\ kernel'[i - 1] = kernel[i]
        BY SMT, <1>1, <1>2, <2>2
      <3> QED BY <3>1 DEF Unread
    <2> QED BY <2>1, <2>2
  <1>4. ~(Len(kernel') > KernelCap)
    BY SMT, <1>1, <1>2
  <1> QED BY <1>3, <1>4 DEF Unread

LEMMA OverflowKind == Overflow.kind = "overflow"
  BY SMT DEF Overflow

LEMMA HeadDirectory ==
    ASSUME WorldTypes, kernel # <<>>, NEW t, Head(kernel) = [kind |-> "directory", topic |-> t]
    PROVE  Head(kernel).kind = "directory" /\ Head(kernel).topic = t
  BY SMT

LEMMA WatchingStep == ASSUME TypeInv, Watching, ServiceSide PROVE Watching'
  <1>0. WorldTypes
    BY DEF TypeInv
  <1>1. ASSUME NEW t \in Topics, Change(t) PROVE Watching'
    <2>1. Unread \subseteq Unread' /\ (Len(kernel') > KernelCap => kernel'[Len(kernel')] = Overflow)
      BY <1>0, <1>1, QueuedUnread DEF Change, Unread, Watching
    <2> QED BY <1>1, <2>1 DEF Change, Watching, service
  <1>2. ASSUME NEW t \in Topics, CreateDirectory(t) PROVE Watching'
    <2>1. /\ Unread \subseteq Unread'
          /\ Len(kernel') > KernelCap => kernel'[Len(kernel')] = Overflow
          /\ up => [kind |-> "directory", topic |-> t] \in Unread' \/ Overflow \in Unread'
      BY <1>0, <1>2, QueuedUnread DEF CreateDirectory, Unread, Watching
    <2> QED BY <1>2, <2>1 DEF CreateDirectory, Watching, service
  <1>3. CASE ConsumeName
    <2>1. kernel # <<>> /\ kernel' = Tail(kernel) /\ Head(kernel).kind = "name"
      BY <1>3 DEF ConsumeName, Reading
    <2>2. \A t : Head(kernel) # [kind |-> "directory", topic |-> t]
      BY <1>0, <2>1, HeadDirectory
    <2>3. Head(kernel) # Overflow
      BY <2>1, OverflowKind
    <2>4. /\ \A e \in Unread : e = Head(kernel) \/ e \in Unread'
          /\ Len(kernel') > KernelCap => kernel'[Len(kernel')] = Overflow
      BY <1>0, <2>1, TakenUnread
    <2>5. UNCHANGED <<up, present, watched, svc, scan>>
      BY <1>3 DEF ConsumeName, service
    <2> QED BY <2>2, <2>3, <2>4, <2>5 DEF Watching
  <1>4. CASE ConsumeOverflow
    BY <1>0, <1>4, TakenUnread DEF ConsumeOverflow, Reading, Watching
  <1>5. CASE OverflowResets
    BY <1>5 DEF OverflowResets, Watching
  <1>6. CASE ConsumeDirectory
    <2>1. kernel # <<>> /\ kernel' = Tail(kernel) /\ Head(kernel).kind = "directory"
          /\ svc.at = "idle"
      BY <1>6 DEF ConsumeDirectory, Reading
    <2>2. \A t : Head(kernel) = [kind |-> "directory", topic |-> t] => t \in watched'
      BY <1>0, <1>6, <2>1, HeadDirectory DEF ConsumeDirectory
    <2>3. Head(kernel) # Overflow
      BY <2>1, OverflowKind
    <2>4. /\ \A e \in Unread : e = Head(kernel) \/ e \in Unread'
          /\ Len(kernel') > KernelCap => kernel'[Len(kernel')] = Overflow
      BY <1>0, <2>1, TakenUnread
    <2>5. /\ UNCHANGED <<up, present>> /\ watched \subseteq watched'
          /\ svc'.at = "installing" /\ svc.at # "lost"
      BY <1>6, <2>1 DEF ConsumeDirectory
    <2> QED BY <2>2, <2>3, <2>4, <2>5 DEF Watching
  <1>7. CASE Scan \/ Installed \/ Covered
    BY <1>7 DEF Scan, Installed, Covered, Watching, world, Unread
  <1>8. CASE Stop
    BY <1>8 DEF Stop, Watching, world, service, Unread
  <1>9. CASE Crash
    <2>1. ~(Len(<<>>) > KernelCap)
      BY SMT, HostWaitAssumption
    <2> QED BY <1>9, <2>1 DEF Crash, Watching
  <1>10. CASE Start
    BY <1>10 DEF Start, Watching
  <1> QED BY <1>1, <1>2, <1>3, <1>4, <1>5, <1>6, <1>7, <1>8, <1>9, <1>10
           DEF ServiceSide, ServiceStep

LEMMA RingGoesOn ==
    ASSUME ServiceSide, ~Start
    PROVE  /\ epoch' = epoch /\ seq' \in {seq, seq + 1}
           /\ coverage_version' \in {coverage_version, coverage_version + 1}
  BY DEF ServiceSide, ServiceStep, Change, CreateDirectory, ConsumeName, ConsumeOverflow,
     OverflowResets, ConsumeDirectory, Scan, Installed, Covered, Stop, Crash,
     Appended, Reset, ResetV2, SetCoverage, Close, ringvars, ring

\* Every cursor is versioned: the service refuses it once coverage has changed.
Versioned == coverage_version # 0

LEMMA VersionedStep == ASSUME TypeInv, Versioned, ServiceSide PROVE Versioned'
  <1>1. coverage_version \in Nat
    BY DEF TypeInv, RingTypeOK
  <1>2. coverage_version' \in {2, coverage_version, coverage_version + 1}
    BY RingGoesOn DEF Start, NewRing
  <1> QED BY SMT, <1>1, <1>2 DEF Versioned

LEMMA PastStep ==
    ASSUME TypeInv, ServiceSide, NEW c \in Snapshots, Past(c) PROVE Past(c)'
  <1>1. /\ epoch \in Nat /\ seq \in Nat /\ c.epoch \in Nat /\ c.seq \in Nat
        /\ coverage_version \in Nat /\ c.version \in Nat
    BY SMT DEF TypeInv, RingTypeOK, Snapshots
  <1>2. CASE Start
    BY SMT, <1>1, <1>2 DEF Start, NewRing, Past
  <1>3. CASE ~Start
    <2>1. epoch' = epoch /\ seq' \in {seq, seq + 1}
          /\ coverage_version' \in {coverage_version, coverage_version + 1}
      BY <1>3, RingGoesOn
    <2> QED BY SMT, <1>1, <2>1 DEF Past
  <1> QED BY <1>2, <1>3

\* A hint that enters the ring is after every cursor that the ring has given out.
LEMMA AppendedIsLogged ==
    ASSUME TypeInv, NEW t, NEW c \in Snapshots, Past(c), c.epoch = epoch,
           log' = log \union {[seq |-> seq + 1, topic |-> t]} \/
           log' = log \union {[seq |-> seq + 1, topic |-> Lost]}
    PROVE  Logged(t, c)'
  <1>1. seq \in Nat /\ c.seq \in Nat /\ c.seq <= seq
    BY SMT DEF TypeInv, RingTypeOK, Snapshots, Past
  <1>2. seq + 1 > c.seq
    BY SMT, <1>1
  <1>3. \A x : [seq |-> seq + 1, topic |-> x].seq = seq + 1 /\ [seq |-> seq + 1, topic |-> x].topic = x
    BY SMT
  <1> QED BY <1>2, <1>3 DEF Logged

\* What is noted stays noted, until a request is told of it.
LEMMA NotedStep ==
    ASSUME TypeInv, Watching, ServiceSide, NEW t \in Topics, NEW c \in Snapshots, Past(c),
           Noted(t, c)
    PROVE  Noted(t, c)'
  <1>0. WorldTypes
    BY DEF TypeInv
  <1>10. CASE Start
    <2>1. epoch \in Nat /\ c.epoch \in Nat /\ c.epoch <= epoch /\ epoch' = epoch + 1
      BY SMT, <1>10 DEF TypeInv, RingTypeOK, Snapshots, Past, Start, NewRing
    <2>2. c.epoch # epoch'
      BY SMT, <2>1
    <2> QED BY <2>2 DEF Noted
  <1>11. CASE ~Start /\ (c.epoch # epoch \/ c.version # coverage_version)
    <2>1. /\ epoch' = epoch
          /\ c.epoch = epoch => c.version <= coverage_version
          /\ coverage_version' \in {coverage_version, coverage_version + 1}
      BY <1>11, RingGoesOn DEF Past
    <2>2. coverage_version \in Nat /\ c.version \in Nat
      BY SMT DEF TypeInv, RingTypeOK, Snapshots
    <2>3. c.epoch # epoch' \/ c.version # coverage_version'
      BY SMT, <1>11, <2>1, <2>2
    <2> QED BY <2>3 DEF Noted
  <1> SUFFICES ASSUME c.epoch = epoch, c.version = coverage_version PROVE Noted(t, c)'
    BY <1>10, <1>11
  <1>1. ASSUME NEW s \in Topics, Change(s) \/ CreateDirectory(s) PROVE Noted(t, c)'
    <2>1. Unread \subseteq Unread'
      BY <1>0, <1>1, QueuedUnread DEF Change, CreateDirectory, Unread
    <2> QED BY <1>1, <2>1 DEF Change, CreateDirectory, ringvars, ring, service, Noted, Coming, Logged
  <1>2. CASE ConsumeName
    <2>1. kernel # <<>> /\ kernel' = Tail(kernel) /\ Head(kernel) # Overflow
      BY <1>2, OverflowKind DEF ConsumeName, Reading
    <2>2. \A e \in Unread : e = Head(kernel) \/ e \in Unread'
      BY <1>0, <2>1, TakenUnread
    <2>3. c.epoch = epoch /\ Head(kernel).topic = t => Logged(t, c)'
      BY <1>2, AppendedIsLogged DEF ConsumeName, Appended
    <2>4. Logged(t, c) => Logged(t, c)'
      BY <1>2 DEF ConsumeName, Appended, Logged
    <2>5. UNCHANGED <<up, closed, epoch, svc>>
      BY <1>2 DEF ConsumeName, Appended, service
    <2> QED BY <2>1, <2>2, <2>3, <2>4, <2>5 DEF Noted, Coming
  <1>3. CASE ConsumeOverflow
    BY <1>3 DEF ConsumeOverflow, Noted, Coming
  <1>4. CASE OverflowResets
    <2>1. c.epoch = epoch => Logged(t, c)'
      BY <1>4, AppendedIsLogged DEF OverflowResets, Reset
    <2> QED BY <1>4, <2>1 DEF OverflowResets, Reset, Noted
  <1>5. CASE ConsumeDirectory
    <2>1. svc'.at = "installing"
      BY <1>5 DEF ConsumeDirectory
    <2> QED BY <2>1 DEF Noted, Coming
  <1>6. CASE Scan
    <2>1. log \subseteq log' /\ UNCHANGED <<up, closed, epoch, svc, kernel>>
      BY <1>6 DEF Scan, Appended, ringvars, ring, world
    <2> QED BY <2>1 DEF Noted, Coming, Unread, Logged
  <1>7. CASE Installed
    <2>1. coverage_version \in Nat /\ coverage_version' = coverage_version + 1
      BY <1>7 DEF Installed, ResetV2, TypeInv, RingTypeOK
    <2>2. c.version # coverage_version'
      BY SMT, <2>1
    <2> QED BY <2>2 DEF Noted
  <1>8. CASE Covered
    BY <1>8 DEF Covered, SetCoverage, world, Noted, Coming, Logged, Unread
  <1>9. CASE Stop \/ Crash
    BY <1>9 DEF Stop, Close, Crash, Noted
  <1> QED BY <1>1, <1>2, <1>3, <1>4, <1>5, <1>6, <1>7, <1>8, <1>9, <1>10
           DEF ServiceSide, ServiceStep

\* A change is noted when it is made: by the kernel, or because the service is down.
LEMMA ChangeIsNoted ==
    ASSUME TypeInv, Watching, ServiceSide, NEW t \in stale', t \notin stale, NEW c
    PROVE  t \in Wanted /\ Noted(t, c)'
  <1>0. WorldTypes
    BY DEF TypeInv
  <1>1. \A k, s : LET e == [kind |-> k, topic |-> s] IN e.topic = s
    BY SMT
  <1>2. ASSUME NEW s \in Topics, Change(s) PROVE t \in Wanted /\ Noted(t, c)'
    <2>1. t = s /\ t \in Wanted /\ s \in present
      BY <1>2 DEF Change
    <2>2. CASE up /\ s \in watched
      <3>1. [kind |-> "name", topic |-> s] \in Unread' \/ Overflow \in Unread'
        BY <1>0, <1>2, <2>2, QueuedUnread DEF Change
      <3> QED BY <1>1, <2>1, <3>1 DEF Noted, Coming
    <2>3. CASE up /\ s \notin watched
      <3>1. \/ svc.at = "lost" \/ Overflow \in Unread
            \/ [kind |-> "directory", topic |-> s] \in Unread
        BY <2>1, <2>3 DEF Watching
      <3>2. UNCHANGED <<svc, kernel>>
        BY <1>2, <2>3 DEF Change, service
      <3> QED BY <1>1, <2>1, <3>1, <3>2 DEF Noted, Coming, Unread
    <2>4. CASE ~up
      BY <1>2, <2>1, <2>4 DEF Change, service, Noted
    <2> QED BY <2>2, <2>3, <2>4
  <1>3. ASSUME NEW s \in Topics, CreateDirectory(s) PROVE t \in Wanted /\ Noted(t, c)'
    <2>1. t = s /\ t \in Wanted
      BY <1>3 DEF CreateDirectory
    <2>2. CASE up
      <3>1. [kind |-> "directory", topic |-> s] \in Unread' \/ Overflow \in Unread'
        BY <1>0, <1>3, <2>2, QueuedUnread DEF CreateDirectory
      <3> QED BY <1>1, <2>1, <3>1 DEF Noted, Coming
    <2>3. CASE ~up
      BY <1>3, <2>1, <2>3 DEF CreateDirectory, service, Noted
    <2> QED BY <2>1, <2>2, <2>3
  <1>4. CASE ~\E s \in Topics : Change(s) \/ CreateDirectory(s)
    <2>1. stale' = stale
      BY <1>4 DEF ServiceSide, ServiceStep, ConsumeName, ConsumeOverflow, OverflowResets,
         ConsumeDirectory, Scan, Installed, Covered, Stop, Crash, Start, world
    <2> QED BY <2>1
  <1> QED BY <1>2, <1>3, <1>4

-----------------------------------------------------------------------------
(* What the hub knows of the changes its owner has still to read.          *)

Due == stale \intersect Wanted

\* The hub's cursors were given out by the ring.
Given ==
    /\ snapshot # None => Past(snapshot)
    /\ before.bell # None => Past(before.bell)
    /\ bell # None => Past(bell)
    /\ completed_bell # None => Past(completed_bell)

\* A change of the host's own is announced, or still to be read.
LocalHeard ==
    Local \in stale => /\ owner = "waiting" => changed
                       /\ owner = "reading" => changed \/ Local \in toread

\* A change the owner has not read is one it has been told to read, or one that is
\* noted after the cursor that its hub goes on from: the snapshot while coverage is
\* complete, a completed renewal with its hints, the cursor of the generation it
\* waits from, and that of the reader thread.
Told ==
    /\ complete => snapshot # None
    /\ owner = "reading" /\ before.bell # None => snapshot = before.bell
    /\ complete /\ owner \in {"free", "returning"} =>
           \A t \in Due : t \in hints \/ Noted(t, snapshot)
    /\ owner = "reading" /\ (complete \/ before.bell # None) =>
           \A t \in Due : t \in toread \/ Noted(t, snapshot)
    /\ owner = "waiting" /\ complete /\ completed_bell = None =>
           \A t \in Due : Noted(t, snapshot)
    /\ owner = "waiting" /\ completed_bell # None =>
           \A t \in Due : t \in result.hints \/ Noted(t, completed_bell)
    /\ owner = "waiting" /\ reader = "none" /\ before.bell # None =>
           \A t \in Due : Noted(t, before.bell)
    /\ reader \in {"asking", "requested"} => \A t \in Due : Noted(t, bell)

BellInv == Watching /\ Versioned /\ Given /\ LocalHeard /\ Told

\* A non-reset answer names the change, or leaves it after the answer's cursor.
LEMMA AnswerTells ==
    ASSUME RingInv, TypeInv, reader = "requested", Answer.at = "answered", ~Answer.reset,
           NEW t \in Wanted, Noted(t, bell)
    PROVE  t \in {e.topic : e \in Answer.found} \/ Noted(t, Fresh)
  <1>1. /\ Answer.since = [epoch |-> bell.epoch, seq |-> bell.seq] /\ Answer.dirs = Wanted
        /\ Answer.since.epoch = Answer.cursor.epoch
        /\ \A e \in Answer.found : e.topic \in Wanted
    BY DEF TypeInv, Asked
  <1>2. /\ Fresh.epoch = bell.epoch /\ Fresh.seq = Answer.cursor.seq
        /\ Fresh.version = bell.version
        /\ Answer.since.seq = bell.seq /\ Answer.cursor.epoch = bell.epoch
    BY SMT, <1>1 DEF Fresh
  <1>3. CASE bell.epoch = epoch /\ Logged(t, bell)
    <2>1. PICK e \in log : e.seq > bell.seq /\ e.topic \in {t, Lost}
      BY <1>3 DEF Logged
    <2>2. CASE e.seq > Answer.cursor.seq
      BY <1>2, <2>1, <2>2 DEF Noted, Logged
    <2>3. CASE ~(e.seq > Answer.cursor.seq)
      <3>1. e.seq \in Nat /\ bell.seq \in Nat /\ Answer.cursor.seq \in Nat
        <4>1. e \in [seq : Nat, topic : Topics \union {Lost}] /\ bell \in Snapshots
          BY FreshTypes DEF TypeInv, RingTypeOK
        <4>2. Answer \in Requests
          BY Constants DEF TypeInv, RingTypeOK, Answer
        <4> QED BY SMT, <4>1, <4>2 DEF Requests, Cursors, Snapshots
      <3>2. Answer.since.seq < e.seq /\ e.seq <= Answer.cursor.seq
        BY SMT, <1>2, <2>1, <2>3, <3>1
      <3>3. Answer.found = {x \in Between(Answer) : x.topic \in Answer.dirs \union {Lost}}
        BY <1>2, <1>3, Constants DEF RingInv, AnswerIsComplete, Answer
      <3>4. e \in Answer.found
        BY <1>1, <2>1, <3>2, <3>3 DEF Between
      <3>5. e.topic = t
        BY <1>1, <2>1, <3>4, Constants
      <3> QED BY <3>4, <3>5
    <2> QED BY <2>2, <2>3
  <1> QED BY <1>2, <1>3 DEF Noted

LEMMA FreshIsGiven ==
    ASSUME RingInv, TypeInv, reader = "requested", Answer.at = "answered", ~Answer.reset, Given
    PROVE  Past(Fresh)
  <1>1. Answer.since = [epoch |-> bell.epoch, seq |-> bell.seq]
        /\ Answer.since.epoch = Answer.cursor.epoch /\ Past(bell)
    BY DEF TypeInv, Asked, Given
  <1>2. Fresh.epoch = Answer.cursor.epoch /\ Fresh.seq = Answer.cursor.seq
        /\ Fresh.epoch = bell.epoch /\ Fresh.version = bell.version
    BY SMT, <1>1 DEF Fresh
  <1> QED BY <1>1, <1>2, Constants DEF RingInv, AnswersArePast, Answer, Past

\* The hub's own steps change nothing that is noted.
LEMMA HubSideNotes ==
    ASSUME HubSide
    PROVE  /\ \A t, c : Noted(t, c)' <=> Noted(t, c)
           /\ \A c : Past(c)' <=> Past(c)
           /\ Watching => Watching'
           /\ Versioned' <=> Versioned
  <1>1. UNCHANGED <<epoch, seq, closed, log, coverage_version, present, watched, kernel, up, svc, scan>>
    BY HubSideFrame DEF ring, service
  <1>2. \A t, c : Noted(t, c)' <=> Noted(t, c)
    BY <1>1 DEF Noted, Coming, Logged, Unread
  <1>3. \A c : Past(c)' <=> Past(c)
    BY <1>1 DEF Past
  <1>4. Watching => Watching'
    <2>1. Unread' = Unread
      BY <1>1 DEF Unread
    <2> QED BY <1>1, <2>1 DEF Watching
  <1> QED BY <1>1, <1>2, <1>3, <1>4 DEF Versioned

\* The steps of the service and of the world keep what the hub knows.
LEMMA ServiceTells ==
    ASSUME TypeInv, BellInv, ServiceSide PROVE BellInv'
  <1>1. UNCHANGED <<moved, reconciled, complete, snapshot, identity, retry, reset_seen, changed>>
        /\ UNCHANGED <<owner, toread, hints, before, reader, bell, result, completed_bell>>
    BY ServiceFrame DEF hub, thread, waits
  <1>2. /\ snapshot \in Snapshots \union {None} /\ before.bell \in Snapshots \union {None}
        /\ bell \in Snapshots \union {None} /\ completed_bell \in Snapshots \union {None}
    <2>1. before.bell \in Snapshots \union {None}
      BY SMT DEF TypeInv, HubTypes, Generations
    <2> QED BY <2>1 DEF TypeInv, HubTypes, ThreadTypes
  <1>3. \A c \in Snapshots : Past(c) => Past(c)'
    BY PastStep
  <1>4. \A t \in Due', c \in Snapshots : Past(c) /\ (t \in Due => Noted(t, c)) => Noted(t, c)'
    BY NotedStep, ChangeIsNoted, Constants DEF BellInv, Due
  <1>5. Watching' /\ LocalHeard'
    <2>1. Local \in stale' => Local \in stale
      BY ChangeIsNoted, Constants DEF BellInv
    <2> QED BY <1>1, <2>1, WatchingStep DEF BellInv, LocalHeard
  <1>6. Given'
    BY <1>1, <1>2, <1>3 DEF BellInv, Given
  <1>7. Told'
    <2>1. \A t \in Due', c \in {snapshot, before.bell, bell, completed_bell} :
            c # None /\ (t \in Due => Noted(t, c)) => Noted(t, c)'
      BY <1>2, <1>4 DEF BellInv, Given
    <2>2. Told
      BY DEF BellInv
    <2>3. complete /\ owner \in {"free", "returning"} =>
            \A t \in Due' : t \in hints \/ Noted(t, snapshot)'
      BY <1>1, <2>1, <2>2 DEF Told
    <2>4. owner = "reading" /\ (complete \/ before.bell # None) =>
            \A t \in Due' : t \in toread \/ Noted(t, snapshot)'
      BY <1>1, <2>1, <2>2 DEF Told
    <2>5. owner = "waiting" /\ complete /\ completed_bell = None =>
            \A t \in Due' : Noted(t, snapshot)'
      BY <1>1, <2>1, <2>2 DEF Told
    <2>6. owner = "waiting" /\ completed_bell # None =>
            \A t \in Due' : t \in result.hints \/ Noted(t, completed_bell)'
      BY <1>1, <2>1, <2>2 DEF Told
    <2>7. owner = "waiting" /\ reader = "none" /\ before.bell # None =>
            \A t \in Due' : Noted(t, before.bell)'
      BY <1>1, <2>1, <2>2 DEF Told
    <2>8. reader \in {"asking", "requested"} => \A t \in Due' : Noted(t, bell)'
      BY <1>1, <2>1, <2>2 DEF Told, TypeInv, Asked
    <2> QED BY <1>1, <2>2, <2>3, <2>4, <2>5, <2>6, <2>7, <2>8 DEF Told
  <1> QED BY <1>5, <1>6, <1>7, VersionedStep DEF BellInv

\* A step of the hub's side that leaves its knowledge alone, or only reads.
LEMMA HubTellsSame ==
    ASSUME BellInv, HubSide, stale' \subseteq stale \union {Local},
           UNCHANGED <<complete, snapshot, before, hints, owner, toread, thread>>
    PROVE  Watching' /\ Given' /\ Told'
  <1>1. UNCHANGED <<reader, bell, result, completed_bell>> /\ Due' \subseteq Due
    BY Constants DEF thread, Due
  <1>2. Watching' /\ Given'
    BY <1>1, HubSideNotes DEF BellInv, Given
  <1>3. Told'
    BY <1>1, HubSideNotes DEF BellInv, Told
  <1> QED BY <1>2, <1>3

\* The owner is armed with the snapshot it keeps, with a new one, or with none.
LEMMA ArmTells ==
    ASSUME RingInv, TypeInv, BellInv, ArmKept \/ ArmNow \/ ArmUnavailable PROVE BellInv'
  <1>1. HubSide /\ owner = "free" /\ owner' = "reading" /\ stale' = stale /\ UNCHANGED thread
        /\ toread' = {Local} \union (IF complete' THEN hints ELSE Wanted)
    BY DEF HubSide, HubStep, ArmKept, ArmNow, ArmUnavailable, Armed, world
  <1>2. reader = "none" /\ UNCHANGED <<reader, bell, result, completed_bell>> /\ Due' = Due
    BY <1>1 DEF TypeInv, Asked, thread, Due
  <1>3. LocalHeard'
    BY <1>1 DEF LocalHeard
  <1>4. CASE ArmKept
    <2>1. UNCHANGED <<complete, snapshot>>
      BY <1>4 DEF ArmKept
    <2>2. before' = [bell |-> None, failure |-> TRUE] \/
          before' = [bell |-> snapshot, failure |-> FALSE]
      BY <1>4 DEF ArmKept, Armed
    <2>3. before'.bell \in {None, snapshot}
      BY SMT, <2>2
    <2>4. Given'
      BY <1>1, <1>2, <2>1, <2>3, HubSideNotes DEF BellInv, Given
    <2>5. Told'
      BY <1>1, <1>2, <2>1, <2>3, HubSideNotes DEF BellInv, Told, Due
    <2> QED BY <1>1, <1>3, <2>4, <2>5, HubSideNotes DEF BellInv
  <1>5. CASE ArmNow
    <2>1. snapshot = None /\ ~complete
      BY <1>5 DEF ArmNow, BellInv, Told
    <2>2. ~complete' /\ snapshot' = Now /\ \E b : before' = [bell |-> Now, failure |-> b]
      BY <1>5, <2>1 DEF ArmNow, Armed
    <2>3. before'.bell = Now /\ Past(Now) /\ Now # None
      <3>1. epoch \in Nat /\ seq \in Nat /\ coverage_version \in Nat /\ coverage_version # 0
        BY DEF RingInv, RingTypeOK, BellInv, Versioned
      <3> QED BY SMT, <2>2, <3>1 DEF Now, Past, None
    <2>4. Given'
      BY <1>1, <1>2, <2>2, <2>3, HubSideNotes DEF BellInv, Given
    <2>5. Told'
      BY <1>1, <1>2, <2>2, <2>3 DEF BellInv, Told, Due
    <2> QED BY <1>1, <1>3, <2>4, <2>5, HubSideNotes DEF BellInv
  <1>6. CASE ArmUnavailable
    <2>1. ~complete' /\ snapshot' = None /\ before' = [bell |-> None, failure |-> TRUE]
      BY <1>6 DEF ArmUnavailable, Degrade, Armed
    <2>2. before'.bell = None
      BY SMT, <2>1
    <2>3. Given' /\ Told'
      BY <1>1, <1>2, <2>1, <2>2, HubSideNotes DEF BellInv, Given, Told
    <2> QED BY <1>1, <1>3, <2>3, HubSideNotes DEF BellInv
  <1> QED BY <1>4, <1>5, <1>6

\* The owner reads, and then waits: what it has read and has not changed since is
\* no longer due.
LEMMA ReadTells == ASSUME TypeInv, BellInv, NEW x \in Sources, Read(x) PROVE BellInv'
  <1>1. /\ HubSide /\ owner = "reading" /\ reader = "none" /\ owner' = owner /\ UNCHANGED thread
        /\ UNCHANGED <<complete, snapshot, changed, before, hints>>
        /\ stale' = stale \ {x} /\ toread' = toread \ {x}
    BY DEF HubSide, HubStep, Read, TypeInv, Asked, hub
  <1>2. UNCHANGED <<reader, bell, result, completed_bell>> /\ Due' = Due \ {x}
    BY <1>1 DEF thread, Due
  <1>3. LocalHeard'
    BY <1>1 DEF BellInv, LocalHeard
  <1>4. Given'
    BY <1>1, <1>2, HubSideNotes DEF BellInv, Given
  <1>5. Told'
    BY <1>1, <1>2, HubSideNotes DEF BellInv, Told
  <1> QED BY <1>1, <1>3, <1>4, <1>5, HubSideNotes DEF BellInv

LEMMA BeginTells == ASSUME TypeInv, BellInv, BeginWait PROVE BellInv'
  <1>1. /\ HubSide /\ owner = "reading" /\ toread = {} /\ owner' = "waiting"
        /\ reader' = "none" /\ completed_bell' = None /\ bell' = None
        /\ UNCHANGED <<snapshot, changed, before, stale>>
        /\ complete' => complete \/ before.bell # None
    BY DEF HubSide, HubStep, BeginWait, Reconciles
  <1>2. Due' = Due
    BY <1>1 DEF Due
  <1>3. LocalHeard'
    BY <1>1 DEF BellInv, LocalHeard
  <1>4. Given'
    BY <1>1, HubSideNotes DEF BellInv, Given
  <1>5. (complete \/ before.bell # None) => \A t \in Due : Noted(t, snapshot)
    BY <1>1 DEF BellInv, Told
  <1>6. /\ complete' => snapshot' # None
        /\ before.bell # None => snapshot = before.bell /\ snapshot # None
    BY <1>1 DEF BellInv, Told
  <1>7. Told'
    BY <1>1, <1>2, <1>5, <1>6, HubSideNotes DEF Told
  <1> QED BY <1>1, <1>3, <1>4, <1>7, HubSideNotes DEF BellInv

\* A wait returns with the hints of its result, and takes the cursor that follows
\* them over together with them.
LEMMA ReturnTells ==
    ASSUME TypeInv, BellInv, WaitChanged \/ WaitResult \/ WaitFailure PROVE BellInv'
  <1>1. /\ HubSide /\ owner = "waiting" /\ owner' = "returning"
        /\ hints' = (IF result = None THEN {} ELSE result.hints)
        /\ snapshot' = (IF completed_bell = None THEN snapshot ELSE completed_bell)
        /\ UNCHANGED <<complete, stale, before, thread>>
    BY DEF HubSide, HubStep, WaitChanged, WaitResult, WaitFailure, Returns, world
  <1>2. /\ UNCHANGED <<reader, bell, result, completed_bell>> /\ Due' = Due
        /\ completed_bell # None => hints' = result.hints
    BY <1>1 DEF thread, Due, TypeInv, Asked
  <1>3. LocalHeard'
    BY <1>1 DEF LocalHeard
  <1>4. Given'
    BY <1>1, <1>2, HubSideNotes DEF BellInv, Given
  <1>5. complete' => snapshot' # None /\ \A t \in Due : t \in hints' \/ Noted(t, snapshot')
    BY <1>1, <1>2 DEF BellInv, Told
  <1>6. Told'
    BY <1>1, <1>2, <1>5, HubSideNotes DEF BellInv, Told
  <1> QED BY <1>1, <1>3, <1>4, <1>6, HubSideNotes DEF BellInv

LEMMA StartTells == ASSUME TypeInv, BellInv, StartReader PROVE BellInv'
  <1>1. /\ HubSide /\ owner = "waiting" /\ reader = "none" /\ before.bell # None
        /\ reader' = "asking" /\ bell' = before.bell
        /\ UNCHANGED <<owner, toread, hints, before, complete, snapshot, changed, stale, result,
                       completed_bell>>
    BY DEF HubSide, HubStep, StartReader, hub, waits, world
  <1>2. Due' = Due
    BY <1>1 DEF Due
  <1>3. LocalHeard' /\ Given'
    BY <1>1, HubSideNotes DEF BellInv, LocalHeard, Given
  <1>4. Told'
    BY <1>1, <1>2, HubSideNotes DEF BellInv, Told
  <1> QED BY <1>1, <1>3, <1>4, HubSideNotes DEF BellInv

LEMMA JoinTells == ASSUME TypeInv, BellInv, Join PROVE BellInv'
  <1>1. /\ HubSide /\ owner = "returning" /\ owner' = "free" /\ reader' = "none" /\ bell' = None
        /\ completed_bell' = None
        /\ UNCHANGED <<hints, before, complete, snapshot, stale>>
    BY DEF HubSide, HubStep, Join, hub, world
  <1>2. Due' = Due
    BY <1>1 DEF Due
  <1>3. LocalHeard' /\ Given'
    BY <1>1, HubSideNotes DEF BellInv, LocalHeard, Given
  <1>4. Told'
    BY <1>1, <1>2, HubSideNotes DEF BellInv, Told
  <1> QED BY <1>1, <1>3, <1>4, HubSideNotes DEF BellInv

\* A request that cannot be answered, or is answered with a reset, ends coverage:
\* the owner's next reads are of everything.
LEMMA DegradeTells ==
    ASSUME TypeInv, BellInv, ReaderFails \/ RequestLost \/ ReaderReset PROVE BellInv'
  <1>1. /\ HubSide /\ reader \in {"asking", "requested"} /\ reader' = "ended" /\ ~complete'
        /\ UNCHANGED <<owner, toread, hints, before, stale, changed, bell, completed_bell>>
    BY DEF HubSide, ReaderStep, ReaderFails, RequestLost, Unavailable, Degrade, ReaderReset, waits,
       world
  <1>2. completed_bell = None /\ owner \in {"waiting", "returning"} /\ Due' = Due
    BY <1>1 DEF TypeInv, Asked, HubTypes, Due
  <1>3. snapshot' = None \/ snapshot' = snapshot
        \/ (snapshot \in Snapshots /\ snapshot' = [snapshot EXCEPT !.complete = FALSE])
    BY DEF ReaderFails, RequestLost, Unavailable, Degrade, ReaderReset, TypeInv, HubTypes
  <1>4. snapshot' # None => /\ snapshot # None /\ snapshot'.epoch = snapshot.epoch
                            /\ snapshot'.seq = snapshot.seq /\ snapshot'.version = snapshot.version
    BY <1>3, NoneIsNone DEF Snapshots
  <1>5. Given'
    <2>1. snapshot' # None => Past(snapshot')
      BY <1>4 DEF BellInv, Given, Past
    <2> QED BY <1>1, <2>1, HubSideNotes DEF BellInv, Given
  <1>6. LocalHeard'
    BY <1>1 DEF BellInv, LocalHeard
  <1>7. Told'
    BY <1>1, <1>2 DEF Told
  <1> QED BY <1>1, <1>5, <1>6, <1>7, HubSideNotes DEF BellInv

LEMMA HintsTell == ASSUME RingInv, TypeInv, BellInv, ReaderHints PROVE BellInv'
  <1>1. /\ HubSide /\ reader = "requested" /\ Answer.at = "answered" /\ ~Answer.reset
        /\ completed_bell' = Fresh /\ reader' = "ended"
        /\ result' = [kind |-> "changed", hints |-> {e.topic : e \in Answer.found}]
        /\ UNCHANGED <<owner, toread, hints, before, stale, changed, bell, complete, snapshot>>
    BY DEF HubSide, ReaderStep, ReaderHints, waits, world
  <1>2. /\ owner \in {"waiting", "returning"} /\ Due' = Due /\ completed_bell = None
        /\ Fresh # None /\ Past(Fresh)
    BY <1>1, FreshTypes, NoneIsNone, FreshIsGiven DEF BellInv, TypeInv, Asked, HubTypes, Due
  <1>3. result'.hints = {e.topic : e \in Answer.found}
    BY <1>1
  <1>4. \A t \in Due : t \in result'.hints \/ Noted(t, Fresh)
    BY <1>1, <1>3, AnswerTells DEF BellInv, Told, Due
  <1>5. LocalHeard' /\ Given'
    BY <1>1, <1>2, HubSideNotes DEF BellInv, LocalHeard, Given
  <1>6. Told'
    BY <1>1, <1>2, <1>4, HubSideNotes DEF BellInv, Told
  <1> QED BY <1>1, <1>5, <1>6, HubSideNotes DEF BellInv

LEMMA RenewTells == ASSUME RingInv, TypeInv, BellInv, ReaderRenews PROVE BellInv'
  <1>1. /\ HubSide /\ reader = "requested" /\ Answer.at = "answered" /\ ~Answer.reset
        /\ Answer.found = {} /\ snapshot' = Fresh
        /\ \/ reader' = "asking" /\ bell' = Fresh
           \/ reader' = "ended" /\ bell' = bell
        /\ UNCHANGED <<owner, toread, hints, before, stale, changed, complete, completed_bell>>
    BY DEF HubSide, ReaderStep, ReaderRenews, waits, world
  <1>2. /\ owner \in {"waiting", "returning"} /\ Due' = Due /\ completed_bell = None
        /\ Fresh # None /\ Past(Fresh)
    BY <1>1, FreshTypes, NoneIsNone, FreshIsGiven DEF BellInv, TypeInv, Asked, HubTypes, Due
  <1>3. \A t \in Due : Noted(t, Fresh)
    BY <1>1, AnswerTells DEF BellInv, Told, Due
  <1>4. LocalHeard' /\ Given'
    BY <1>1, <1>2, HubSideNotes DEF BellInv, LocalHeard, Given
  <1>5. Told'
    BY <1>1, <1>2, <1>3, HubSideNotes DEF Told
  <1> QED BY <1>1, <1>4, <1>5, HubSideNotes DEF BellInv

LEMMA AsksTells == ASSUME TypeInv, BellInv, ReaderAsks PROVE BellInv'
  <1>1. /\ HubSide /\ reader = "asking" /\ reader' = "requested"
        /\ UNCHANGED <<owner, toread, hints, before, stale, changed, complete, snapshot, bell,
                       result, completed_bell>>
    BY DEF HubSide, ReaderStep, ReaderAsks, waits, world, hub
  <1>2. Due' = Due
    BY <1>1 DEF Due
  <1>3. LocalHeard' /\ Given'
    BY <1>1, HubSideNotes DEF BellInv, LocalHeard, Given
  <1>4. Told'
    BY <1>1, <1>2, HubSideNotes DEF BellInv, Told
  <1> QED BY <1>1, <1>3, <1>4, HubSideNotes DEF BellInv

LEMMA OtherTells == ASSUME BellInv, Notify \/ RetryDue \/ Serve PROVE BellInv'
  <1>1. /\ HubSide /\ stale' \subseteq stale \union {Local}
        /\ UNCHANGED <<complete, snapshot, before, hints, owner, toread, thread>>
    BY DEF HubSide, Notify, RetryDue, Serve, hub, waits, world
  <1>2. LocalHeard'
    BY Constants DEF BellInv, LocalHeard, Notify, RetryDue, Serve, hub, waits, world
  <1> QED BY <1>1, <1>2, HubTellsSame, HubSideNotes DEF BellInv

LEMMA StutterTells == ASSUME BellInv, UNCHANGED vars PROVE BellInv'
  <1>1. /\ UNCHANGED <<epoch, seq, closed, log, coverage_version, present, watched, kernel, up>>
        /\ UNCHANGED <<svc, scan, stale>>
        /\ UNCHANGED <<complete, snapshot, changed, owner, toread, hints, before>>
        /\ UNCHANGED <<reader, bell, result, completed_bell>>
    BY DEF vars, ringvars, ring, world, service, hub, thread, waits
  <1>2. /\ \A t, c : Noted(t, c)' <=> Noted(t, c)
        /\ \A c : Past(c)' <=> Past(c)
        /\ Unread' = Unread /\ Due' = Due /\ (Versioned' <=> Versioned)
    BY <1>1 DEF Noted, Coming, Logged, Unread, Past, Due, Versioned
  <1>3. Watching' /\ LocalHeard' /\ Given'
    BY <1>1, <1>2 DEF BellInv, Watching, LocalHeard, Given
  <1>4. Told'
    BY <1>1, <1>2 DEF BellInv, Told
  <1> QED BY <1>2, <1>3, <1>4 DEF BellInv

LEMMA BellStep == ASSUME RingInv, TypeInv, BellInv, [Next]_vars PROVE BellInv'
  BY ServiceTells, ArmTells, ReadTells, BeginTells, ReturnTells, StartTells, JoinTells,
     DegradeTells, HintsTell, RenewTells, AsksTells, OtherTells, StutterTells, NextSides
     DEF HubSide, HubStep, ReaderStep

LEMMA BellInit == ASSUME Init PROVE BellInv
  <1>1. ~(Len(<<>>) > KernelCap)
    BY SMT, HostWaitAssumption
  <1>2. before.bell = None
    BY SMT DEF Init
  <1>3. Versioned
    BY SMT DEF Init, RingInit, Versioned
  <1> QED BY <1>1, <1>2, <1>3 DEF Init, BellInv, Watching, Given, LocalHeard, Told

\* A request that sleeps at a service with nothing more to read is told of every
\* change that is noted after its cursor: so there is none.
LEMMA SleeperIsTold == ASSUME RingInv, TypeInv, BellInv, Asleep PROVE stale = {}
  <1>1. /\ owner = "waiting" /\ ~changed /\ reader = "requested" /\ Answer.at = "blocked"
        /\ Hub \notin byte /\ up /\ ~closed /\ svc.at = "idle" /\ kernel = <<>>
    BY DEF Asleep
  <1>2. /\ Answer.since = [epoch |-> bell.epoch, seq |-> bell.seq] /\ Answer.dirs = Wanted
    BY <1>1 DEF TypeInv, Asked
  <1>3. ~Reason(Answer) /\ Found(Answer) = {}
    BY <1>1, Constants DEF RingInv, SleeperHasNothing, Answer
  <1>4. /\ bell.epoch = epoch /\ floor <= bell.seq /\ Answer.since.seq = bell.seq
        /\ bell.version = coverage_version
    <2>1. Answer.since.epoch = bell.epoch /\ Answer.since.seq = bell.seq
      BY SMT, <1>2
    <2>2. Answer.version = bell.version /\ bell.version # 0
      BY <1>1 DEF TypeInv, Asked, BellInv, Given, Past
    <2> QED BY <1>3, <2>1, <2>2 DEF Reason
  <1>5. Local \notin stale
    BY <1>1 DEF BellInv, LocalHeard
  <1>6. ASSUME NEW t \in Due PROVE FALSE
    <2>1. Unread = {}
      BY SMT, <1>1 DEF Unread
    <2>2. Logged(t, bell)
      BY <1>1, <1>4, <1>6, <2>1 DEF BellInv, Told, Noted, Coming
    <2>3. PICK e \in log : e.seq > bell.seq /\ e.topic \in {t, Lost}
      BY <2>2 DEF Logged
    <2>4. e.seq \in Nat /\ bell.seq \in Nat /\ floor \in Nat
      <3>1. e \in [seq : Nat, topic : Topics \union {Lost}] /\ floor \in Nat
        BY DEF RingInv, RingTypeOK
      <3>2. bell \in Snapshots
        BY <1>1, NoneIsNone DEF TypeInv, Asked, ThreadTypes
      <3> QED BY SMT, <3>1, <3>2 DEF Snapshots
    <2>5. e.seq > floor
      BY SMT, <1>4, <2>3, <2>4
    <2>6. PICK i \in DOMAIN events : events[i] = e
      BY <2>5 DEF RingInv, KeptIsTheHistory
    <2>7. e \in Hints /\ e.topic \in Topics
      BY SMT, <2>6 DEF RingInv, RingTypeOK, Hints
    <2>8. e \in Found(Answer)
      BY <1>2, <1>4, <1>6, <2>3, <2>6, <2>7, Constants DEF Found, Kept, Due
    <2> QED BY <1>3, <2>8
  <1> QED BY <1>5, <1>6 DEF Due, TypeInv, WorldTypes, Sources

\* The hub's owner never sleeps on a change: whatever the kernel drops, the ring
\* forgets, a restart discards or a cancelled renewal leaves behind, an owner whose
\* request sleeps at a service that has read every watch event has read every record
\* since it last changed (consume, append, _wait, wait_since, reconciled).
THEOREM SleptThroughNothing == Spec => []NothingSleptThrough
  <1>1. Spec => []BellInv
    BY BellInit, BellStep, TypesAlways, PTL DEF Spec
  <1>2. RingInv /\ TypeInv /\ BellInv => NothingSleptThrough
    BY SleeperIsTold DEF NothingSleptThrough
  <1> QED BY <1>1, <1>2, TypesAlways, PTL
=============================================================================
