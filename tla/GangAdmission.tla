---------------------------- MODULE GangAdmission ----------------------------
(***************************************************************************)
(* Gangs: rows that start together, one per host, or not at all            *)
(* (_gang.py, gang_wait.py and the gang part of a claim pass in pool.py).  *)
(*                                                                         *)
(* A claim pass of a serve loop holds the member's transition lock from    *)
(* Prepare until its claim is recorded, and the host's admission lock only *)
(* from Census to Admit.  Under admission it reads every election, gives   *)
(* way to a better-ranked gang on a shared host, files the member's own    *)
(* election without clobbering, and reserves.  Outside admission it marks  *)
(* the member ready, reads its siblings one by one, and renames the row    *)
(* only beside a complete set.  A claimed member waits at the start        *)
(* barrier until every sibling is claimed.  Any unsuccessful ending files  *)
(* the gang's one teardown.  A claim that never launched - unwound before  *)
(* its lease, deferred by the broker, or found without a lease by the      *)
(* reaper - goes back to READY uncharged, and its gang goes on.            *)
(*                                                                         *)
(* publish gives a member exactly one attempt; here it demands one unit of *)
(* its host's capacity.                                                    *)
(* A ready mark that is no longer fresh counts as no mark, so a mark is    *)
(* its host or NoHost.  Loans of a fenced host to background work, the     *)
(* preference for a resident copy, blockers of a prelaunch prefix and the  *)
(* terminal-lead confirmation are left out: they only delay an election or *)
(* file the same teardown.                                                 *)
(*                                                                         *)
(* Definitions named Faulty... are the definition below them with a bug    *)
(* put in; they show that the properties can fail.                         *)
(***************************************************************************)
EXTENDS Naturals, FiniteSets

CONSTANTS
    Gangs,
    Members,
    GangOf,         \* the group each member is sealed into
    Rank,           \* rank(): the total order between gangs, lowest first
    Hosts,
    NoHost,
    Loops,          \* serve loops
    HostOf,         \* the host of each loop
    Capacity,       \* members a host has room for
    WaitLimited,    \* gangs published with queue_wait_timeout_s
    MaxFaults       \* bound: loops that die, ready marks that go stale and
                    \* members an operator withdraws, together

ASSUME GangAssumption ==
    /\ Members # {} /\ GangOf \in [Members -> Gangs]
    /\ Rank \in [Gangs -> Nat]
    /\ \A g, k \in Gangs : Rank[g] = Rank[k] => g = k
    /\ HostOf \in [Loops -> Hosts] /\ NoHost \notin Hosts
    /\ {Capacity, MaxFaults} \subseteq Nat
    /\ WaitLimited \subseteq Gangs

VARIABLES
    filed,      \* gangs/<group>.json: the gangs that are registered
    row,        \* where each member's row is; "moved" is a claim not yet
                \* rewritten with the claimant's host
    covered,    \* members whose claimed publication has been withdrawn
    elect,      \* elect-<index>.json: the host elected, or NoHost
    mark,       \* ready-<index>.json while it is fresh: its host
    torn,       \* gangs with teardown.json
    started,    \* gangs with started.json
    free,       \* unreserved capacity of each host
    pc,         \* where each loop is
    on,         \* the member each loop is working on
    needs,      \* loops whose census found no election for their member
    met,        \* the hosts sibling_readiness has accepted so far
    left,       \* the siblings it has still to read
    out,        \* the outcome a loop is about to file
    faults,
    begun       \* history: members that were ever claimed

shared == <<filed, row, covered, elect, mark, torn, started, free>>
local == <<pc, on, needs, met, left, out>>
vars == <<shared, local, faults, begun>>

Phases == {"idle", "prepared", "census", "taken", "marked", "whole", "moved",
           "leasing", "barrier", "polling", "released", "running", "ending",
           "tearing", "crashed"}
\* Where a loop has its member's transition lock.
Passing == {"prepared", "census", "taken", "marked", "whole", "moved", "leasing"}
\* Where it has reserved capacity and where it has the claim.
Reserving == {"taken", "marked", "whole"}
Claiming == {"moved", "leasing", "barrier", "polling", "released", "running",
             "ending", "tearing"}

Terminal == {"done", "failed", "withdrawn"}
UNSUCCESSFUL == {"failed", "withdrawn"}
InClaimed == {"moved", "claimed"}

Peers(m) == {x \in Members : GangOf[x] = GangOf[m]}
Siblings(m) == Peers(m) \ {m}
MembersOf(g) == {m \in Members : GangOf[m] = g}

\* What an idle loop's record of its member says: nothing.
Anyone == CHOOSE m \in Members : TRUE

NoElections == [m \in Members |-> NoHost]

TypeOK ==
    /\ filed \subseteq Gangs /\ torn \subseteq Gangs /\ started \subseteq Gangs
    /\ row \in [Members -> {"ready"} \union InClaimed \union Terminal]
    /\ covered \subseteq Members /\ begun \subseteq Members
    /\ elect \in [Members -> Hosts \union {NoHost}]
    /\ mark \in [Members -> Hosts \union {NoHost}]
    /\ free \in [Hosts -> 0 .. Capacity]
    /\ pc \in [Loops -> Phases]
    /\ on \in [Loops -> Members]
    /\ needs \subseteq Loops
    /\ met \in [Loops -> SUBSET Hosts]
    /\ left \in [Loops -> SUBSET Members]
    /\ out \in [Loops -> {"none", "tokens", "claim", "unstarted",
                          "done", "failed", "withdrawn"}]
    /\ faults \in 0 .. MaxFaults

Init ==
    /\ filed = {} /\ torn = {} /\ started = {} /\ covered = {} /\ begun = {}
    /\ row = [m \in Members |-> "ready"]
    /\ elect = NoElections /\ mark = NoElections
    /\ free = [h \in Hosts |-> Capacity]
    /\ pc = [l \in Loops |-> "idle"]
    /\ on = [l \in Loops |-> Anyone]
    /\ needs = {}
    /\ met = [l \in Loops |-> {}]
    /\ left = [l \in Loops |-> {}]
    /\ out = [l \in Loops |-> "none"]
    /\ faults = 0

-----------------------------------------------------------------------------
(* Locks, withdrawals and the teardown.                                    *)

\* action_transition_lock: held by a pass, and dropped when its process dies.
KeyFree(m) == \A l \in Loops : ~(pc[l] \in Passing /\ on[l] = m)

AdmissionFree(h) == \A l \in Loops : ~(pc[l] = "census" /\ HostOf[l] = h)

\* withdraw: a READY row leaves, a claimed one is covered and stays with its
\* worker.
Withdrawn(gone) ==
    /\ row' = [m \in Members |->
                 IF m \in gone /\ row[m] = "ready" THEN "withdrawn" ELSE row[m]]
    /\ covered' = covered \union {m \in gone : row[m] \in InClaimed}

\* _withdraw_gang_member: tries each key's lock and never waits for it.
FaultyWithdrawable(gone) == {m \in gone : KeyFree(m) /\ row[m] = "claimed"}
Withdrawable(gone) == {m \in gone : KeyFree(m)}

\* The teardown marker is filed once, and only for a registered gang.
TearDown(g) == torn' = torn \union ({g} \intersect filed)

\* Only the call that filed the marker goes on to withdraw the others.
TornNow(g) == g \in filed /\ g \notin torn

-----------------------------------------------------------------------------
(* Publication, deadlines, operators and the sweep.                        *)

\* publish_group: with every member's lock, and every member still READY.
PublishGroup(g) ==
    /\ g \notin filed
    /\ \A m \in MembersOf(g) : KeyFree(m) /\ row[m] = "ready"
    /\ filed' = filed \union {g}
    /\ UNCHANGED <<row, covered, elect, mark, torn, started, free, local, faults, begun>>

\* _sweep_unregistered_gang_members: the registration grace is over.
SweepUnregistered(m) ==
    /\ GangOf[m] \notin filed /\ row[m] = "ready" /\ KeyFree(m)
    /\ Withdrawn({m})
    /\ UNCHANGED <<filed, elect, mark, torn, started, free, local, faults, begun>>

\* An operator's withdrawal of one member ends its gang.
Withdraw(m) ==
    /\ KeyFree(m) /\ row[m] \notin Terminal /\ m \notin covered
    /\ faults < MaxFaults /\ faults' = faults + 1
    /\ TearDown(GangOf[m])
    /\ LET others == IF TornNow(GangOf[m]) THEN Withdrawable(Siblings(m)) ELSE {}
       IN  Withdrawn({m} \union others)
    /\ UNCHANGED <<filed, elect, mark, started, free, local, begun>>

\* cancel_expired: with every member's lock, and only if none has started ...
CancelExpired(g) ==
    /\ g \in (filed \intersect WaitLimited) \ started
    /\ \A m \in MembersOf(g) : KeyFree(m) /\ row[m] = "ready"
    /\ TearDown(g)
    /\ Withdrawn(MembersOf(g))
    /\ UNCHANGED <<filed, elect, mark, started, free, local, faults, begun>>

\* ... and one that meets a claim files the mark the claim has not.
CancelMeetsClaim(g) ==
    /\ g \in (filed \intersect WaitLimited) \ started
    /\ \A m \in MembersOf(g) : KeyFree(m) /\ row[m] \notin Terminal
    /\ \E m \in MembersOf(g) : row[m] \in InClaimed
    /\ started' = started \union {g}
    /\ UNCHANGED <<filed, row, covered, elect, mark, torn, free, local, faults, begun>>

\* sweep_gangs: finish a torn-down gang, tear down one with a bad ending ...
SweepTeardown(g) ==
    /\ g \in filed
    /\ g \in torn \/ \E m \in MembersOf(g) : row[m] \in UNSUCCESSFUL
    /\ \E m \in MembersOf(g) : row[m] \notin Terminal
    /\ TearDown(g)
    /\ Withdrawn(Withdrawable(MembersOf(g)))
    /\ UNCHANGED <<filed, elect, mark, started, free, local, faults, begun>>

\* ... and forget one whose every member has ended.
SweepEnded(g) ==
    /\ g \in filed
    /\ \A m \in MembersOf(g) : row[m] \in Terminal
    /\ filed' = filed \ {g}
    /\ torn' = torn \ {g} /\ started' = started \ {g}
    /\ elect' = [m \in Members |-> IF GangOf[m] = g THEN NoHost ELSE elect[m]]
    /\ mark' = [m \in Members |-> IF GangOf[m] = g THEN NoHost ELSE mark[m]]
    /\ UNCHANGED <<row, covered, free, local, faults, begun>>

\* READY_FRESH_S passes.
GoStale(m) ==
    /\ mark[m] # NoHost /\ faults < MaxFaults
    /\ mark' = [mark EXCEPT ![m] = NoHost]
    /\ faults' = faults + 1
    /\ UNCHANGED <<filed, row, covered, elect, torn, started, free, local, begun>>

-----------------------------------------------------------------------------
(* A claim pass.                                                           *)

\* The pass goes on to its next candidate; abandon returns what it reserved.
FaultyRefuse(l) ==
    /\ pc' = [pc EXCEPT ![l] = "idle"]
    /\ free' = [free EXCEPT ![HostOf[l]] = @ + 1]
    /\ needs' = needs \ {l}
    /\ met' = [met EXCEPT ![l] = {}] /\ left' = [left EXCEPT ![l] = {}]
    /\ on' = [on EXCEPT ![l] = Anyone]
    /\ UNCHANGED <<filed, row, covered, mark, torn, started, out, faults, begun>>

Refuse(l) ==
    /\ pc' = [pc EXCEPT ![l] = "idle"]
    /\ free' = [free EXCEPT ![HostOf[l]] = IF pc[l] \in Reserving THEN @ + 1 ELSE @]
    /\ needs' = needs \ {l}
    /\ met' = [met EXCEPT ![l] = {}] /\ left' = [left EXCEPT ![l] = {}]
    /\ on' = [on EXCEPT ![l] = Anyone]
    /\ UNCHANGED <<filed, row, covered, mark, torn, started, out, faults, begun>>

\* _prepare_claim_gang: the group record, the siblings' endings and the
\* teardown marker.
Prepare(l, m) ==
    /\ pc[l] = "idle" /\ row[m] = "ready" /\ KeyFree(m)
    /\ GangOf[m] \in filed \ torn
    /\ \A x \in Siblings(m) : row[x] \notin UNSUCCESSFUL
    /\ pc' = [pc EXCEPT ![l] = "prepared"]
    /\ on' = [on EXCEPT ![l] = m]
    /\ UNCHANGED <<shared, needs, met, left, out, faults, begun>>

\* The same, when a sibling has ended badly: the pass tears the gang down and
\* withdraws the members but its own, whose lock it has.
PrepareEnded(l, m) ==
    /\ pc[l] = "idle" /\ row[m] = "ready" /\ KeyFree(m)
    /\ TornNow(GangOf[m])
    /\ \E x \in Siblings(m) : row[x] \in UNSUCCESSFUL
    /\ TearDown(GangOf[m])
    /\ Withdrawn(Withdrawable(Siblings(m)))
    /\ UNCHANGED <<filed, elect, mark, started, free, local, faults, begun>>

\* _gang_elections: a gang without a teardown and with a member READY or
\* CLAIMED fences the hosts it has elected.
LiveElections ==
    [m \in Members |->
        IF GangOf[m] \in filed \ torn
           /\ \E x \in Peers(m) : row[x] \notin Terminal
        THEN elect[m] ELSE NoHost]

\* election_position: RankedBehind, from the elections of the census.
FaultyRankedBehind(l, seen) == FALSE

RankedBehind(l, seen) ==
    LET ours == {HostOf[l]} \union ({seen[x] : x \in Peers(on[l])} \ {NoHost})
    IN  \E x \in Members \ Peers(on[l]) :
            seen[x] \in ours /\ Rank[GangOf[x]] < Rank[GangOf[on[l]]]

\* election_position: sibling_here.
SiblingHere(l, seen) == \E x \in Siblings(on[l]) : seen[x] = HostOf[l]

\* pass_admission_census and _arbitrate_claim_census: the elections are read
\* under the host's admission; a better-ranked gang, a sibling here or another
\* host's election refuses the member.
Position(l, seen) ==
    IF RankedBehind(l, seen) THEN "behind"
    ELSE IF seen[on[l]] = HostOf[l] THEN "mine"
    ELSE IF seen[on[l]] # NoHost \/ SiblingHere(l, seen) THEN "elsewhere"
    ELSE "needs_election"

Census(l) ==
    /\ pc[l] = "prepared" /\ AdmissionFree(HostOf[l])
    /\ Position(l, LiveElections) \in {"mine", "needs_election"}
    /\ pc' = [pc EXCEPT ![l] = "census"]
    /\ needs' = IF Position(l, LiveElections) = "mine" THEN needs ELSE needs \union {l}
    /\ UNCHANGED <<shared, on, met, left, out, faults, begun>>

CensusRefuses(l) ==
    /\ pc[l] = "prepared" /\ AdmissionFree(HostOf[l])
    /\ Position(l, LiveElections) \in {"behind", "elsewhere"}
    /\ UNCHANGED elect
    /\ Refuse(l)

\* elect_gang_member: link; the loser of a race takes the standing election.
Standing(l) == IF l \in needs /\ elect[on[l]] = NoHost THEN HostOf[l] ELSE elect[on[l]]

\* begin_acquire, still under admission.
Admit(l) ==
    /\ pc[l] = "census"
    /\ Standing(l) = HostOf[l]
    /\ elect' = [elect EXCEPT ![on[l]] = HostOf[l]]
    /\ free[HostOf[l]] > 0
    /\ free' = [free EXCEPT ![HostOf[l]] = @ - 1]
    /\ pc' = [pc EXCEPT ![l] = "taken"]
    /\ needs' = needs \ {l}
    /\ UNCHANGED <<filed, row, covered, mark, torn, started, on, met, left, out, faults, begun>>

\* Another host's election came first; or this host is full, or refuses the
\* member for its memory, scratch or adaptive demand, and the election stands.
NotAdmitted(l) ==
    /\ pc[l] = "census"
    /\ \/ Standing(l) # HostOf[l] /\ UNCHANGED elect
       \/ /\ Standing(l) = HostOf[l]
          /\ elect' = [elect EXCEPT ![on[l]] = HostOf[l]]
    /\ Refuse(l)

\* A later gate refuses: a tier is short, the host is held or resigning, its
\* images went stale.
GateRefuses(l) ==
    /\ pc[l] = "taken"
    /\ UNCHANGED elect
    /\ Refuse(l)

\* _rename_and_commit_claim: every ordinary gate has passed.
MarkReady(l) ==
    /\ pc[l] = "taken"
    /\ mark' = [mark EXCEPT ![on[l]] = HostOf[l]]
    /\ pc' = [pc EXCEPT ![l] = "marked"]
    /\ met' = [met EXCEPT ![l] = {HostOf[l]}]
    /\ left' = [left EXCEPT ![l] = Siblings(on[l])]
    /\ UNCHANGED <<filed, row, covered, elect, torn, started, free, on, needs, out, faults, begun>>

\* The loop a claimed row belongs to, until a dead one's claim is settled; the
\* record's claimed_host is its host.
OwnsClaim(l) ==
    \/ pc[l] \in Claiming
    \/ pc[l] = "crashed" /\ out[l] \in {"claim", "unstarted", "done"}

\* sibling_readiness of one sibling: the host it is claimed or ready on.  A
\* claim that does not name its host yet is waited for.
SiblingHost(x) ==
    IF row[x] = "claimed" THEN HostOf[CHOOSE l \in Loops : OwnsClaim(l) /\ on[l] = x]
    ELSE IF row[x] = "moved" THEN NoHost ELSE mark[x]

FaultyReadSibling(l) ==
    /\ pc[l] = "marked"
    /\ \E x \in left[l] :
         /\ SiblingHost(x) # NoHost
         /\ met' = [met EXCEPT ![l] = @ \union {SiblingHost(x)}]
         /\ left' = [left EXCEPT ![l] = @ \ {x}]
         /\ pc' = [pc EXCEPT ![l] = IF left'[l] = {} THEN "whole" ELSE "marked"]
    /\ UNCHANGED <<shared, on, needs, out, faults, begun>>

ReadSibling(l) ==
    /\ pc[l] = "marked"
    /\ \E x \in left[l] :
         /\ SiblingHost(x) \notin met[l] \union {NoHost}
         /\ met' = [met EXCEPT ![l] = @ \union {SiblingHost(x)}]
         /\ left' = [left EXCEPT ![l] = @ \ {x}]
         /\ pc' = [pc EXCEPT ![l] = IF left'[l] = {} THEN "whole" ELSE "marked"]
    /\ UNCHANGED <<shared, on, needs, out, faults, begun>>

\* gang_waiting_for_peers: it has said it is ready, and holds nothing.
WaitForPeers(l) ==
    /\ pc[l] = "marked"
    /\ \E x \in left[l] : SiblingHost(x) \in met[l] \union {NoHost}
    /\ UNCHANGED elect
    /\ Refuse(l)

\* The claim: rename, ...
Rename(l) ==
    /\ pc[l] = "whole"
    /\ row' = [row EXCEPT ![on[l]] = "moved"]
    /\ begun' = begun \union {on[l]}
    /\ pc' = [pc EXCEPT ![l] = "moved"]
    /\ met' = [met EXCEPT ![l] = {}]
    /\ UNCHANGED <<filed, covered, elect, mark, torn, started, free, on, needs, left, out, faults>>

\* ... commit the reservation, file that the gang has started, rewrite the
\* record, which names the host, ...
Persist(l) ==
    /\ pc[l] = "moved"
    /\ row' = [row EXCEPT ![on[l]] = "claimed"]
    /\ started' = started \union ({GangOf[on[l]]} \intersect WaitLimited)
    /\ pc' = [pc EXCEPT ![l] = "leasing"]
    /\ UNCHANGED <<filed, covered, elect, mark, torn, free, on, needs, met, left, out, faults, begun>>

\* ... and write the lease; the pass is over.
Lease(l) ==
    /\ pc[l] = "leasing"
    /\ pc' = [pc EXCEPT ![l] = "barrier"]
    /\ UNCHANGED <<shared, on, needs, met, left, out, faults, begun>>

\* The claim is given up with its capacity, and the loop is idle.
GiveUp(l, to) ==
    /\ row' = [row EXCEPT ![on[l]] = to]
    /\ covered' = covered \ {on[l]}
    /\ free' = [free EXCEPT ![HostOf[l]] = @ + 1]
    /\ pc' = [pc EXCEPT ![l] = "idle"]
    /\ out' = [out EXCEPT ![l] = "none"]
    /\ on' = [on EXCEPT ![l] = Anyone]
    /\ UNCHANGED <<filed, elect, mark, torn, started, needs, met, left, faults, begun>>

\* The moved record is not the one admitted, tokens are missing, or the record,
\* its funding or its lease cannot be written: abandon links the row back.
Unwind(l) == pc[l] \in {"moved", "leasing"} /\ GiveUp(l, "ready")

-----------------------------------------------------------------------------
(* The start barrier, the payload and its ending.                          *)

Ends(l, status) ==
    /\ pc' = [pc EXCEPT ![l] = "ending"]
    /\ out' = [out EXCEPT ![l] = status]

\* _gang_start_barrier: this member's withdrawal, then the teardown marker ...
BarrierCheck(l) ==
    /\ pc[l] = "barrier"
    /\ \/ on[l] \in covered /\ Ends(l, "withdrawn")
       \/ on[l] \notin covered /\ GangOf[on[l]] \in torn /\ Ends(l, "failed")
       \/ /\ on[l] \notin covered /\ GangOf[on[l]] \notin torn
          /\ pc' = [pc EXCEPT ![l] = "polling"] /\ UNCHANGED out
    /\ UNCHANGED <<shared, on, needs, met, left, faults, begun>>

\* ... then the siblings: all claimed or done releases the launch.
FaultyAllStarted(m) == \A x \in Siblings(m) : row[x] \notin UNSUCCESSFUL
AllStarted(m) == \A x \in Siblings(m) : row[x] \in InClaimed \union {"done"}

BarrierReleases(l) ==
    /\ pc[l] = "polling" /\ AllStarted(on[l])
    /\ pc' = [pc EXCEPT ![l] = "released"]
    /\ UNCHANGED <<shared, on, needs, met, left, out, faults, begun>>

\* A sibling that ended badly: tear the gang down and look again.
BarrierEnded(l) ==
    /\ pc[l] = "polling"
    /\ \E x \in Siblings(on[l]) : row[x] \in UNSUCCESSFUL
    /\ TearDown(GangOf[on[l]])
    /\ Withdrawn(IF TornNow(GangOf[on[l]]) THEN Withdrawable(Siblings(on[l])) ELSE {})
    /\ pc' = [pc EXCEPT ![l] = "barrier"]
    /\ UNCHANGED <<filed, elect, mark, started, free, on, needs, met, left, out, faults, begun>>

BarrierWait(l) ==
    /\ pc[l] = "polling" /\ ~AllStarted(on[l])
    /\ \A x \in Siblings(on[l]) : row[x] \notin UNSUCCESSFUL
    /\ pc' = [pc EXCEPT ![l] = "barrier"]
    /\ UNCHANGED <<shared, on, needs, met, left, out, faults, begun>>

\* skew_s has passed.
BarrierExpires(l) ==
    /\ pc[l] = "polling" /\ ~AllStarted(on[l])
    /\ \A x \in Siblings(on[l]) : row[x] \notin UNSUCCESSFUL
    /\ TearDown(GangOf[on[l]])
    /\ Withdrawn(IF TornNow(GangOf[on[l]]) THEN Withdrawable(Siblings(on[l])) ELSE {})
    /\ Ends(l, "failed")
    /\ UNCHANGED <<filed, elect, mark, started, free, on, needs, met, left, faults, begun>>

Concluded(m, status) == IF m \in covered THEN "withdrawn" ELSE status

\* execute: the broker makes the payload's scope ...
Launch(l) ==
    /\ pc[l] = "released"
    /\ pc' = [pc EXCEPT ![l] = "running"]
    /\ UNCHANGED <<shared, on, needs, met, left, out, faults, begun>>

\* ... or refuses it for maintenance: the claim goes back to READY uncharged,
\* where a withdrawal on file still covers it (member_states) ...
DeferLaunch(l) == pc[l] = "released" /\ GiveUp(l, Concluded(on[l], "ready"))

\* ... or something else raises before the payload runs.
LaunchFails(l) ==
    /\ pc[l] \in {"barrier", "released"}
    /\ Ends(l, "failed")
    /\ UNCHANGED <<shared, on, needs, met, left, faults, begun>>

\* The payload returns.
PayloadEnds(l) ==
    /\ pc[l] = "running"
    /\ \E status \in {"done", "failed"} : Ends(l, status)
    /\ UNCHANGED <<shared, on, needs, met, left, faults, begun>>

\* The heartbeat's checkpoint: _withdraw_if_gang_torn_down, then stop.
Checkpoint(l) ==
    /\ pc[l] = "running"
    /\ on[l] \in covered \/ GangOf[on[l]] \in torn
    /\ Withdrawn({on[l]})
    /\ Ends(l, "withdrawn")
    /\ UNCHANGED <<filed, elect, mark, torn, started, free, on, needs, met, left, faults, begun>>

\* finish: an unsuccessful ending files the teardown before its terminal
\* record; a process may die between the two.
FinishTears(l) ==
    /\ pc[l] = "ending" /\ out[l] \in UNSUCCESSFUL
    /\ TornNow(GangOf[on[l]])
    /\ TearDown(GangOf[on[l]])
    /\ pc' = [pc EXCEPT ![l] = "tearing"]
    /\ UNCHANGED <<filed, row, covered, elect, mark, started, free, on, needs, met, left, out, faults, begun>>

FinishWithdraws(l) ==
    /\ pc[l] = "tearing"
    /\ Withdrawn(Withdrawable(Siblings(on[l])))
    /\ pc' = [pc EXCEPT ![l] = "ending"]
    /\ UNCHANGED <<filed, elect, mark, torn, started, free, on, needs, met, left, out, faults, begun>>

Finish(l) ==
    /\ pc[l] = "ending"
    /\ out[l] \in UNSUCCESSFUL => ~TornNow(GangOf[on[l]])
    /\ GiveUp(l, Concluded(on[l], out[l]))

-----------------------------------------------------------------------------
(* A loop that dies, and what the reaper and the ledger's sweep return.    *)

\* What a loop that dies leaves behind: a claim whose lease expires, one with
\* no lease (a deferral takes its lease away first), one whose attempt is
\* archived as done, a reservation, or nothing.
LeftBehind(l) ==
    IF pc[l] \in {"moved", "leasing"} THEN {"unstarted"}
    ELSE IF pc[l] = "released" THEN {"claim", "unstarted"}
    ELSE IF pc[l] = "ending" /\ out[l] = "done" THEN {"claim", "done"}
    ELSE IF pc[l] \in Claiming THEN {"claim"}
    ELSE IF pc[l] \in Reserving THEN {"tokens"} ELSE {"none"}

Crash(l) ==
    /\ pc[l] \notin {"idle", "crashed"} /\ faults < MaxFaults
    /\ faults' = faults + 1
    /\ pc' = [pc EXCEPT ![l] = "crashed"]
    /\ \E o \in LeftBehind(l) : out' = [out EXCEPT ![l] = o]
    /\ needs' = needs \ {l}
    /\ met' = [met EXCEPT ![l] = {}] /\ left' = [left EXCEPT ![l] = {}]
    /\ on' = [on EXCEPT ![l] = IF pc[l] \in Claiming THEN @ ELSE Anyone]
    /\ UNCHANGED <<shared, begun>>

\* The loop is started again once its lost claim is settled.  A claim without
\* a lease never launched and goes back to READY; an archived ending is
\* adopted; an expired lease uses up the only attempt.
ReapedTo(o) == IF o = "unstarted" THEN "ready" ELSE IF o = "done" THEN "done" ELSE "failed"

FaultyRecover(l) ==
    /\ pc[l] = "crashed" /\ out[l] \in {"claim", "done"}
    /\ KeyFree(on[l])
    /\ GiveUp(l, Concluded(on[l], ReapedTo(out[l])))

Recover(l) ==
    /\ pc[l] = "crashed" /\ OwnsClaim(l)
    /\ KeyFree(on[l])
    /\ GiveUp(l, Concluded(on[l], ReapedTo(out[l])))

\* The same for a loop that had no claim yet: the ledger's sweep returns a
\* reservation it had.
Return(l) ==
    /\ pc[l] = "crashed" /\ ~OwnsClaim(l)
    /\ free' = [free EXCEPT ![HostOf[l]] = IF out[l] = "none" THEN @ ELSE @ + 1]
    /\ pc' = [pc EXCEPT ![l] = "idle"]
    /\ out' = [out EXCEPT ![l] = "none"]
    /\ UNCHANGED <<filed, row, covered, elect, mark, torn, started, on, needs, met, left, faults, begun>>

Step(l) ==
    \/ Census(l) \/ CensusRefuses(l) \/ Admit(l) \/ NotAdmitted(l)
    \/ GateRefuses(l) \/ MarkReady(l) \/ ReadSibling(l) \/ WaitForPeers(l)
    \/ Rename(l) \/ Persist(l) \/ Lease(l) \/ Unwind(l)
    \/ BarrierCheck(l) \/ BarrierReleases(l) \/ BarrierEnded(l) \/ BarrierWait(l) \/ BarrierExpires(l)
    \/ Launch(l) \/ DeferLaunch(l) \/ LaunchFails(l)
    \/ PayloadEnds(l) \/ Checkpoint(l) \/ FinishTears(l) \/ FinishWithdraws(l) \/ Finish(l)
    \/ Recover(l) \/ Return(l)

Next ==
    \/ \E g \in Gangs : PublishGroup(g) \/ CancelExpired(g) \/ CancelMeetsClaim(g)
                          \/ SweepTeardown(g) \/ SweepEnded(g)
    \/ \E m \in Members : SweepUnregistered(m) \/ Withdraw(m) \/ GoStale(m)
    \/ \E l \in Loops : Step(l) \/ Crash(l)
    \/ \E l \in Loops, m \in Members : Prepare(l, m) \/ PrepareEnded(l, m)

Spec == Init /\ [][Next]_vars

\* Every loop goes on, a payload ends, a restarted loop settles; skew_s passes;
\* the sweep is run.  Nothing is assumed about which row a pass comes to.
Fairness ==
    /\ \A l \in Loops : WF_vars(Step(l)) /\ SF_vars(BarrierExpires(l))
    /\ \A g \in Gangs : WF_vars(SweepTeardown(g))

FairSpec == Spec /\ Fairness

-----------------------------------------------------------------------------
\* A payload runs only when every member of its gang has been claimed: nobody
\* launches before the last member has its host.  A claim may be given up again
\* after the start barrier counted it, so a sibling may be READY again by then,
\* although docs/design.md says of the barrier "A member never runs alone".
StartsWhole ==
    \A l \in Loops : pc[l] = "running" => Peers(on[l]) \subseteq begun

\* Once a member is claimed, its whole gang has a place: every member has been
\* elected, and no two of them for one host, whichever loops of a host pass at
\* the same time and whatever is torn down meanwhile (sibling_readiness: "on a
\* distinct host").
ClaimedBesideWholeSet ==
    \A m \in Members :
        row[m] \in InClaimed =>
            \A x \in Peers(m) :
                /\ elect[x] # NoHost
                /\ \A y \in Siblings(x) : elect[x] # elect[y]

\* Where a member of one live gang is claimed on the host another gang has
\* elected for a member that is still waiting, the reverse does not hold as
\* well (rank: two gangs "must not each commit a member on a different one
\* and then wait on each other").  A claim keeps another member out where a host
\* has room for one: with more room both may be admitted, and nobody waits.
Blocks(m, x) ==
    /\ row[m] \in InClaimed /\ GangOf[m] \notin torn
    /\ row[x] = "ready" /\ GangOf[x] \notin torn
    /\ elect[x] = elect[m]

NoCrossCommit ==
    \A m, x \in Members :
        Blocks(m, x) /\ GangOf[m] # GangOf[x] =>
            \A m2 \in Peers(x), x2 \in Peers(m) : ~Blocks(m2, x2)

\* A registered gang that is torn down, or of which a member ended badly, ends
\* as a whole: no member is left READY or CLAIMED, whoever died between the
\* teardown and its withdrawals, and whichever claim was being given up while
\* they were made (tear_down: "a crash between this write and those withdrawals
\* still ends the gang").
TornGangEnds ==
    \A g \in Gangs :
        (g \in filed /\ (g \in torn \/ \E m \in MembersOf(g) : row[m] \in UNSUCCESSFUL))
            ~> \A m \in MembersOf(g) : row[m] \in Terminal

\* No member stays claimed: its payload ends, the barrier's bound passes, the
\* claim is given up, or the reaper settles what a dead loop left, with a lease
\* or without.  A claimed member holds its host for no longer than that.
ClaimsAreSettled ==
    \A m \in Members : row[m] \in InClaimed ~> row[m] \notin InClaimed
=============================================================================
