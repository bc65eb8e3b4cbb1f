--------------------------- MODULE QueueLifecycle ---------------------------
(***************************************************************************)
(* The life of ONE action key in the shared-filesystem queue.              *)
(*                                                                         *)
(* A key is published as a READY row, claimed by renaming the row into     *)
(* claimed/, run under a heartbeat lease, and concluded by moving the      *)
(* claim to a tombstone, deleting the lease, returning the reservation and *)
(* publishing the row's next home: done/, failed/, or READY again.  A      *)
(* publication is a generation; a generation has a bounded number of       *)
(* attempts.  Workers, a reaper, submitters and cancellers act on the same *)
(* directories.  All but the worker's finish hold the key's transition     *)
(* lock; the finish takes it only for its publication tail, so each of its *)
(* reads, renames and unlinks is a step of its own.                        *)
(*                                                                         *)
(* Rows carry no time.  A lease or a tombstone "has expired" when its      *)
(* owner is gone or, in the regimes LiveExpiry and SlowTail, at any        *)
(* moment: that is a live worker or finisher that was stalled for longer   *)
(* than LEASE_TIMEOUT_S.                                                   *)
(*                                                                         *)
(* Definitions named Faulty... are the definition below them with a bug    *)
(* put in; they show that the properties can fail.                         *)
(***************************************************************************)
EXTENDS Naturals, FiniteSets

CONSTANTS
    Workers,             \* serve loops: each claims, runs and finishes
    Reaper,              \* the process that runs reap_stale
    HostOf,              \* the host of each worker
    MaxAttempts,         \* max_attempts of every publication
    InterruptionOnly,    \* publications with retry_scope = "interruption"
    LiveExpiry,          \* a live worker's lease may expire
    SlowTail,            \* a live finisher's tombstone may outlive its grace
    MaxGens,             \* bound: publications of the key
    MaxClaims,           \* bound: claim records written
    MaxFaults            \* bound: crashes, refusals, deferrals, I/O errors

ASSUME QueueAssumption ==
    /\ Workers # {} /\ Reaper \notin Workers /\ "nobody" \notin Workers \union {Reaper}
    /\ DOMAIN HostOf = Workers
    /\ MaxAttempts \in Nat \ {0}
    /\ {MaxGens, MaxClaims, MaxFaults} \subseteq Nat
    /\ InterruptionOnly \subseteq Nat
    /\ {LiveExpiry, SlowTail} \subseteq BOOLEAN

VARIABLES
    ready,      \* ready/<key>.json
    claim,      \* claimed/<key>.json
    tombs,      \* finishing marks in claimed/: a claim moved aside, by whom
    lease,      \* <key>.lease: the claim identity it was written for
    held,       \* reservations/<host>/held/<key>: claims whose tokens it has
    done,       \* generation of done/<key>.json, or 0
    failed,     \* generation of failed/<key>.json, or 0
    archive,    \* attempts/<key>/<generation>/<n>: its disposition
    supers,     \* generations with a publication-supersession record
    retired,    \* generations whose terminal a later one's took the place of
    replaced,   \* generations whose READY row a later publication overwrote
    marker,     \* generation of withdrawn/<key>.json, or 0
    decided,    \* generations with an immutable withdrawal decision
    lock,       \* holder of the key's transition lock
    pc,         \* where each process is
    snap,       \* the claim each worker was handed
    status,     \* the result each worker reports
    plan,       \* what each process is committing
    launched,   \* how often each generation's payload was started (history)
    gens, claims, faults

rows == <<ready, claim, tombs, lease, held>>
endings == <<done, failed, archive, supers, retired, replaced>>
withdrawals == <<marker, decided>>
procs == <<lock, pc, snap, status, plan>>
counts == <<launched, gens, claims, faults>>
vars == <<rows, endings, withdrawals, procs, counts>>

Procs == Workers \union {Reaper}
Hosts == {HostOf[w] : w \in Workers}
Gens == 1..MaxGens
Nobody == "nobody"
Dispositions == {"done", "failed", "requeued", "withdrawn"}

-----------------------------------------------------------------------------
(* Records.                                                                *)

Row(gen, att) == [gen |-> gen, att |-> att]
NoRow == Row(0, 0)

\* A claim record; cid stands for claimed_unix.  A row that was renamed and
\* not yet rewritten names no claimant; its intent file names the host.
ClaimRec(gen, att, cid, by, host) ==
    [gen |-> gen, att |-> att, cid |-> cid, by |-> by, host |-> host]
NoClaim == ClaimRec(0, 0, 0, Nobody, Nobody)
Raw(row, host) == ClaimRec(row.gen, row.att, 0, Nobody, host)

SameClaim(a, b) ==
    a.by = b.by /\ a.cid = b.cid /\ a.gen = b.gen /\ a.att = b.att

Tomb(rec, who) == [rec |-> rec, who |-> who]
Plan(kind, rec, disp) == [kind |-> kind, rec |-> rec, disp |-> disp]
NoPlan == Plan("none", NoClaim, "none")

\* Charged attempts of a row that may still run: one is always left.
Charged == 0..MaxAttempts - 1
Attempts == 1..MaxAttempts

Rows == {NoRow} \union [gen : Gens, att : Charged]
Claims == {NoClaim} \union
    [gen : Gens, att : Charged, cid : 0..MaxClaims,
     by : Workers \union {Nobody}, host : Hosts]
Kinds == {"none", "finish", "defer", "expire", "unstarted", "cancel"}
Steps == {"idle", "renamed", "committed", "persisted", "leased", "running",
          "read", "readReady", "judged", "cancel", "entomb", "giveBack",
          "unlease", "release", "publish",
          "lostRelease", "lostLease", "lostCheck", "lostFile"}

\* Every record has its shape; a row that waits, is claimed or is marked has
\* an attempt of its budget left, so no step ever charges one too many.
TypeOK ==
    /\ ready \in Rows
    /\ claim \in Claims
    /\ tombs \subseteq [rec : Claims, who : Procs]
    /\ lease \in Claims
    /\ held \in [Hosts -> SUBSET (1..MaxClaims)]
    /\ done \in 0..MaxGens
    /\ failed \in 0..MaxGens
    /\ archive \in [Gens \X Attempts -> Dispositions \union {"none"}]
    /\ supers \subseteq Gens
    /\ retired \subseteq Gens
    /\ replaced \subseteq Gens
    /\ marker \in 0..MaxGens
    /\ decided \subseteq Gens
    /\ lock \in Procs \union {Nobody}
    /\ pc \in [Procs -> Steps]
    /\ snap \in [Workers -> Claims]
    /\ status \in [Workers -> {"none", "executed", "failed", "withdrawn"}]
    /\ plan \in [Procs -> [kind : Kinds, rec : Claims,
                           disp : Dispositions \union {"none"}]]
    /\ launched \in [Gens -> 0..MaxClaims]
    /\ gens \in 0..MaxGens
    /\ claims \in 0..MaxClaims
    /\ faults \in 0..MaxFaults

Init ==
    /\ ready = NoRow /\ claim = NoClaim /\ tombs = {} /\ lease = NoClaim
    /\ held = [h \in Hosts |-> {}]
    /\ done = 0 /\ failed = 0 /\ supers = {} /\ retired = {} /\ replaced = {}
    /\ archive = [a \in Gens \X Attempts |-> "none"]
    /\ marker = 0 /\ decided = {}
    /\ lock = Nobody
    /\ pc = [p \in Procs |-> "idle"]
    /\ snap = [w \in Workers |-> NoClaim]
    /\ status = [w \in Workers |-> "none"]
    /\ plan = [p \in Procs |-> NoPlan]
    /\ launched = [g \in Gens |-> 0] /\ gens = 0 /\ claims = 0 /\ faults = 0

-----------------------------------------------------------------------------
(* What the code asks of the directories.                                  *)

\* Only the visible marker is read, not the generation's decision.
FaultyCovered(rec) == marker # 0 /\ marker = rec.gen

\* withdrawal_covers of a readable record.
Covered(rec) == rec.gen \in decided \/ (marker # 0 /\ marker = rec.gen)

\* terminal_outcome_covers.
TerminalCovers(rec) == rec.gen \in {done, failed} \ {0}

\* archived_generation_outcomes is not empty.
ArchivedEnding(gen) ==
    \E n \in Attempts : archive[gen, n] \in {"done", "failed"}

\* resolve_claim_holder: the one host whose ledger holds the key, else the
\* host on record; it refuses several hosts, or one the record contradicts.
HeldHosts == {h \in Hosts : held[h] # {}}
Ambiguous(rec) ==
    \/ Cardinality(HeldHosts) > 1
    \/ rec.by # Nobody /\ HeldHosts \ {rec.host} # {}
HolderOf(rec) ==
    IF HeldHosts # {} THEN CHOOSE h \in HeldHosts : TRUE ELSE rec.host

\* check_lease_identity: fields the claim lacks prove nothing.
LeaseConflicts(rec) ==
    /\ lease # NoClaim
    /\ \/ lease.gen # rec.gen
       \/ rec.by # Nobody /\ ~ SameClaim(lease, rec)

\* The heartbeat stops with the payload, before the finish.
FaultyOwnerAlive(rec) ==
    \E w \in Workers : pc[w] \in {"leased", "running"} /\ SameClaim(snap[w], rec)

\* The lease of a payload that succeeded is not renewed until the finish begins.
FaultyOwnerRenews(rec) ==
    \E w \in Workers :
        /\ pc[w] # "idle" /\ snap[w] # NoClaim /\ SameClaim(snap[w], rec)
        /\ ~ (pc[w] = "read" /\ status[w] = "executed")

\* Some process still acts for the claim this record describes: its lease is
\* renewed until its finish returns.
OwnerAlive(rec) ==
    \E w \in Workers : pc[w] # "idle" /\ snap[w] # NoClaim /\ SameClaim(snap[w], rec)
FinisherAlive(t) ==
    /\ pc[t.who] \in {"giveBack", "unlease", "release", "publish"}
    /\ SameClaim(plan[t.who].rec, t.rec)

FaultyDisposition(gen, result, n, reported) ==
    CASE result = "withdrawn" -> "withdrawn"
      [] result = "executed" -> "done"
      [] OTHER -> IF n > MaxAttempts \/ (reported /\ gen \in InterruptionOnly)
                  THEN "failed" ELSE "requeued"

\* resolve_attempt: a failure a worker reports is final where only
\* interruptions are retried; a lost lease is an interruption.
Disposition(gen, result, n, reported) ==
    CASE result = "withdrawn" -> "withdrawn"
      [] result = "executed" -> "done"
      [] OTHER -> IF n >= MaxAttempts \/ (reported /\ gen \in InterruptionOnly)
                  THEN "failed" ELSE "requeued"

\* archive_attempt: the first writer of an attempt number wins.
Archived(gen, n, disp) ==
    IF archive[gen, n] = "none"
    THEN [archive EXCEPT ![<<gen, n>>] = disp] ELSE archive

Released(h) == [held EXCEPT ![h] = {}]
At(p, step) == [pc EXCEPT ![p] = step]
Unlock(p) == IF lock = p THEN Nobody ELSE lock
Unlocked == lock = Nobody
Fault == faults < MaxFaults /\ faults' = faults + 1

\* A process that returns from its operation, and one that goes on with it.
Rest(p) ==
    /\ pc' = At(p, "idle")
    /\ snap' = [w \in Workers |-> IF w = p THEN NoClaim ELSE snap[w]]
    /\ status' = [w \in Workers |-> IF w = p THEN "none" ELSE status[w]]
    /\ plan' = [plan EXCEPT ![p] = NoPlan]
    /\ lock' = Unlock(p)
Go(p, step) == pc' = At(p, step) /\ UNCHANGED <<lock, snap, status, plan>>

\* A process that starts committing a plan, holding the lock or not.
Commit(p, thePlan, newLock) ==
    /\ pc' = At(p, "entomb")
    /\ plan' = [plan EXCEPT ![p] = thePlan]
    /\ lock' = newLock
    /\ UNCHANGED <<snap, status>>

-----------------------------------------------------------------------------
(* Submitters and cancellers; each holds the lock throughout.              *)

\* _supersede_withdrawal: the marker's decision is on file before it goes.
SupersededMarker == decided \union ({marker} \ {0})

\* publish: retire a withdrawal marker, stamp a new generation, replace the
\* READY row whatever it was.
Publish ==
    /\ Unlocked
    /\ gens < MaxGens
    /\ gens' = gens + 1
    /\ decided' = SupersededMarker
    /\ marker' = 0
    /\ ready' = Row(gens + 1, 0)
    /\ replaced' = replaced \union ({ready.gen} \ {0})
    /\ UNCHANGED <<claim, tombs, lease, held, done, failed, archive, supers,
                   retired, procs, launched, claims, faults>>

\* The row withdraw addresses: the claim, unless the claim is already
\* cancelled and an uncancelled publication waits behind it.
WithdrawTarget ==
    IF claim # NoClaim /\ ~ (Covered(claim) /\ ready # NoRow /\ ~ Covered(ready))
    THEN claim ELSE ready

\* withdraw: file the generation's decision, then its visible marker, then
\* take the READY row if the decision covers it.  The claim, its lease and
\* its tokens stay with the worker or the reaper.
Withdraw ==
    /\ Unlocked
    /\ WithdrawTarget.gen # 0
    /\ WithdrawTarget = claim => ~ Ambiguous(claim)
    /\ IF marker = 0 \/ ~ Covered(WithdrawTarget)
       THEN /\ marker' = WithdrawTarget.gen
            /\ decided' = SupersededMarker \union {WithdrawTarget.gen}
       ELSE /\ decided' = decided \union {marker}
            /\ UNCHANGED marker
    /\ ready' = IF ready.gen \in decided' THEN NoRow ELSE ready
    /\ UNCHANGED <<claim, tombs, lease, held, endings, procs, counts>>

-----------------------------------------------------------------------------
(* A worker claims: one locked pass, each durable write a step.            *)

\* A claim pass that finds the READY row cancelled takes it away.
DropWithdrawnReady(w) ==
    /\ Unlocked /\ pc[w] = "idle"
    /\ ready # NoRow /\ Covered(ready)
    /\ ready' = NoRow
    /\ UNCHANGED <<claim, tombs, lease, held, endings, withdrawals, procs, counts>>

\* The last look at claimed/ (no claim and no mark of the key), then the
\* rename that elects the claimant.
ClaimRename(w) ==
    /\ Unlocked /\ pc[w] = "idle"
    /\ claims < MaxClaims
    /\ ready # NoRow /\ ~ Covered(ready)
    /\ claim = NoClaim /\ tombs = {}
    /\ claim' = Raw(ready, HostOf[w])
    /\ ready' = NoRow
    /\ snap' = [snap EXCEPT ![w] = Raw(ready, HostOf[w])]
    /\ lock' = w
    /\ pc' = At(w, "renamed")
    /\ UNCHANGED <<tombs, lease, held, endings, withdrawals, status, plan, counts>>

\* The tokens taken privately are filed under the key.
ClaimCommit(w) ==
    /\ pc[w] = "renamed"
    /\ claims' = claims + 1
    /\ held' = [held EXCEPT ![HostOf[w]] = @ \union {claims + 1}]
    /\ Go(w, "committed")
    /\ UNCHANGED <<ready, claim, tombs, lease, endings, withdrawals,
                   launched, gens, faults>>

\* Give a claimed row back by link: a READY row is never replaced, and a
\* claim file that is gone links nothing.
LinkReady(rec) ==
    IF rec # NoClaim /\ ready = NoRow
    THEN ready' = Row(rec.gen, rec.att) /\ claim' = NoClaim
    ELSE ready' = ready /\ claim' = rec

\* The row's demand changed, the commit was short, or a write failed: the
\* tokens go back, then the row.
ClaimRefused(w) ==
    /\ pc[w] \in {"renamed", "committed"}
    /\ Fault
    /\ held' = IF pc[w] = "committed" THEN Released(HostOf[w]) ELSE held
    /\ LinkReady(claim)
    /\ Rest(w)
    /\ UNCHANGED <<tombs, lease, endings, withdrawals, launched, gens, claims>>

\* Drop a claim whose generation has ended meanwhile, else write the record.
ClaimPersist(w) ==
    /\ pc[w] = "committed"
    /\ IF TerminalCovers(snap[w]) \/ Covered(snap[w])
       THEN /\ held' = Released(HostOf[w])
            /\ claim' = NoClaim
            /\ Rest(w)
       ELSE /\ claim' = ClaimRec(snap[w].gen, snap[w].att, claims, w, HostOf[w])
            /\ snap' = [snap EXCEPT ![w] = claim']
            /\ pc' = At(w, "persisted")
            /\ UNCHANGED <<held, lock, status, plan>>
    /\ UNCHANGED <<ready, tombs, lease, endings, withdrawals, counts>>

LeaseRefused(w) == ~ SameClaim(claim, snap[w]) \/ LeaseConflicts(claim)

\* The first lease makes the claim the caller's.
ClaimLease(w) ==
    /\ pc[w] = "persisted" /\ ~ LeaseRefused(w)
    /\ lease' = claim
    /\ lock' = Nobody
    /\ pc' = At(w, "leased")
    /\ UNCHANGED <<ready, claim, tombs, held, endings, withdrawals,
                   snap, status, plan, counts>>

\* A claim that changed, a foreign lease or a write error undoes the claim:
\* tokens, lease, record, row.  The record's own rewrite may fail.
ClaimUnwound(w) ==
    /\ pc[w] = "persisted"
    /\ IF LeaseRefused(w) THEN UNCHANGED faults ELSE Fault
    /\ held' = Released(HostOf[w])
    /\ lease' = NoClaim
    /\ \/ LinkReady(Raw(snap[w], HostOf[w]))
       \/ UNCHANGED <<ready, claim>>
    /\ Rest(w)
    /\ UNCHANGED <<tombs, endings, withdrawals, launched, gens, claims>>

-----------------------------------------------------------------------------
(* The worker runs its claim.                                              *)

\* execute: a cancelled claim is not launched.
Launch(w) ==
    /\ pc[w] = "leased"
    /\ IF Covered(snap[w])
       THEN /\ status' = [status EXCEPT ![w] = "withdrawn"]
            /\ pc' = At(w, "read")
            /\ UNCHANGED launched
       ELSE /\ launched' = [launched EXCEPT ![snap[w].gen] = @ + 1]
            /\ pc' = At(w, "running")
            /\ UNCHANGED status
    /\ UNCHANGED <<rows, endings, withdrawals, lock, snap, plan, gens, claims, faults>>

\* A launch the broker refuses gives the claim back without an attempt.
DeferLaunch(w) ==
    /\ pc[w] = "leased"
    /\ Fault
    /\ IF SameClaim(claim, snap[w]) /\ ~ Ambiguous(claim)
       THEN Commit(w, Plan("defer", snap[w], "requeued"), lock)
       ELSE Rest(w)
    /\ UNCHANGED <<rows, endings, withdrawals, launched, gens, claims>>

\* write_lease by the heartbeat; a busy lock leaves only a stamp.
Heartbeat(w) ==
    /\ Unlocked /\ pc[w] = "running"
    /\ IF SameClaim(claim, snap[w]) /\ ~ LeaseConflicts(claim)
       THEN /\ lease # claim
            /\ lease' = claim
            /\ UNCHANGED <<status, pc>>
       ELSE /\ status' = [status EXCEPT ![w] = "failed"]
            /\ pc' = At(w, "read")
            /\ UNCHANGED lease
    /\ UNCHANGED <<ready, claim, tombs, held, endings, withdrawals,
                   lock, snap, plan, counts>>

\* The payload ends, or a withdrawal checkpoint stops it.
RunEnds(w, result) ==
    /\ pc[w] = "running"
    /\ result = "withdrawn" => Covered(snap[w])
    /\ status' = [status EXCEPT ![w] = result]
    /\ pc' = At(w, "read")
    /\ UNCHANGED <<rows, endings, withdrawals, lock, snap, plan, counts>>

-----------------------------------------------------------------------------
(* The worker finishes, without the lock until its publication tail.       *)

\* _archive_late_finish: the result goes under its own attempt number, or,
\* when a same-generation successor owns that number, is kept as evidence.
LateArchive(w, live) ==
    IF live.gen = snap[w].gen /\ live.att < snap[w].att + 1
    THEN archive
    ELSE Archived(snap[w].gen, snap[w].att + 1,
                  Disposition(snap[w].gen, status[w], snap[w].att + 1, FALSE))

\* Read claimed/.  Another claim makes this a late finish; a lease or a
\* holder that contradicts the claim raises, and everything is retained.
FinishReadsClaim(w) ==
    /\ pc[w] = "read"
    /\ \/ /\ claim = NoClaim
          /\ Go(w, "readReady")
          /\ UNCHANGED archive
       \/ /\ claim # NoClaim /\ ~ SameClaim(claim, snap[w])
          /\ archive' = LateArchive(w, claim)
          /\ Rest(w)
       \/ /\ SameClaim(claim, snap[w])
          /\ IF LeaseConflicts(claim) \/ Ambiguous(claim)
             THEN Rest(w) ELSE Go(w, "judged")
          /\ UNCHANGED archive
    /\ UNCHANGED <<rows, done, failed, supers, retired, replaced, withdrawals, counts>>

\* The claim was absent: read READY.  A waiting successor makes this a late
\* finish; a visible withdrawal ends it; otherwise a reaper is taken to have
\* filed the item.
FinishReadsReady(w) ==
    /\ pc[w] = "readReady"
    /\ IF ready # NoRow
       THEN archive' = LateArchive(w, ready) /\ Rest(w)
       ELSE /\ UNCHANGED archive
            /\ IF Ambiguous(snap[w]) \/ marker # 0
               THEN Rest(w) ELSE Go(w, "lostRelease")
    /\ UNCHANGED <<rows, done, failed, supers, retired, replaced, withdrawals, counts>>

\* The missing-claim ending: return the reservation, ...
LostRelease(w) ==
    /\ pc[w] = "lostRelease"
    /\ held' = Released(HostOf[w])
    /\ Go(w, "lostLease")
    /\ UNCHANGED <<ready, claim, tombs, lease, endings, withdrawals, counts>>

\* ... delete the lease, ...
LostLease(w) ==
    /\ pc[w] = "lostLease"
    /\ lease' = NoClaim
    /\ Go(w, "lostCheck")
    /\ UNCHANGED <<ready, claim, tombs, held, endings, withdrawals, counts>>

\* ... ask what the generation has been filed as, and whether the result's
\* directory has a record, ...
LostCheck(w) ==
    /\ pc[w] = "lostCheck"
    /\ IF TerminalCovers(snap[w]) \/ 0 # (IF status[w] = "executed" THEN done ELSE failed)
       THEN Rest(w) ELSE Go(w, "lostFile")
    /\ UNCHANGED <<rows, endings, withdrawals, counts>>

\* ... and file the result there.
LostFile(w) ==
    /\ pc[w] = "lostFile"
    /\ done' = IF status[w] = "executed" THEN snap[w].gen ELSE done
    /\ failed' = IF status[w] # "executed" THEN snap[w].gen ELSE failed
    /\ Rest(w)
    /\ UNCHANGED <<rows, archive, supers, retired, replaced, withdrawals, counts>>

\* The claim is this worker's: cancel it, or archive the attempt and adopt
\* the disposition of whoever archived that number first.
FinishArchives(w) ==
    /\ pc[w] = "judged"
    /\ LET n == snap[w].att + 1
           now == Archived(snap[w].gen, n, Disposition(snap[w].gen, status[w], n, TRUE))
       IN  IF Covered(snap[w])
           THEN Go(w, "cancel") /\ UNCHANGED archive
           ELSE /\ archive' = now
                /\ Commit(w, Plan("finish", snap[w], now[snap[w].gen, n]), lock)
    /\ UNCHANGED <<rows, done, failed, supers, retired, replaced, withdrawals, counts>>

\* _complete_cancellation, under the lock: the exact claim must still be
\* there; an attempt already archived otherwise raises.
FinishCancels(w) ==
    /\ pc[w] = "cancel" /\ Unlocked
    /\ LET now == Archived(snap[w].gen, snap[w].att + 1, "withdrawn")
       IN  IF SameClaim(claim, snap[w])
           THEN /\ archive' = now
                /\ IF now[snap[w].gen, snap[w].att + 1] = "withdrawn"
                   THEN Commit(w, Plan("cancel", snap[w], "withdrawn"), w)
                   ELSE Rest(w)
           ELSE UNCHANGED archive /\ Rest(w)
    /\ UNCHANGED <<rows, done, failed, supers, retired, replaced, withdrawals, counts>>

-----------------------------------------------------------------------------
(* _commit_claim: the tail every conclusion of a claim goes through.       *)

\* Move the claim aside; only the claim the plan judged is the caller's.
Entomb(p) ==
    /\ pc[p] = "entomb"
    /\ IF claim = NoClaim
       THEN Rest(p) /\ UNCHANGED <<claim, tombs>>
       ELSE /\ claim' = NoClaim
            /\ tombs' = tombs \union {Tomb(claim, p)}
            /\ IF SameClaim(claim, plan[p].rec)
               THEN Go(p, "unlease")
               ELSE /\ pc' = At(p, "giveBack")
                    /\ plan' = [plan EXCEPT ![p] = Plan("none", claim, "none")]
                    /\ UNCHANGED <<lock, snap, status>>
    /\ UNCHANGED <<ready, lease, held, endings, withdrawals, counts>>

\* The tombstone a plan made, if no sweep has taken it.
OwnTomb(p) == {t \in tombs : t.who = p /\ SameClaim(t.rec, plan[p].rec)}

\* A claim the caller never judged is linked back, unless claimed/ has one
\* again or a sweep took the mark.
GiveBack(p) ==
    /\ pc[p] = "giveBack"
    /\ IF claim = NoClaim /\ OwnTomb(p) # {}
       THEN claim' = plan[p].rec /\ tombs' = tombs \ OwnTomb(p)
       ELSE UNCHANGED <<claim, tombs>>
    /\ Rest(p)
    /\ UNCHANGED <<ready, lease, held, endings, withdrawals, counts>>

Unlease(p) ==
    /\ pc[p] = "unlease"
    /\ lease' = NoClaim
    /\ Go(p, "release")
    /\ UNCHANGED <<ready, claim, tombs, held, endings, withdrawals, counts>>

\* A cancellation drops its tombstone and keeps the reservation.
FaultyReleaseReservation(p) ==
    /\ pc[p] = "release"
    /\ IF plan[p].kind = "cancel"
       THEN tombs' = tombs \ OwnTomb(p) /\ Rest(p) /\ UNCHANGED held
       ELSE Go(p, "publish") /\ held' = Released(plan[p].rec.host) /\ UNCHANGED tombs
    /\ UNCHANGED <<ready, claim, lease, endings, withdrawals, counts>>

\* Return the reservation; a cancellation ends here, its row is evidence.
ReleaseReservation(p) ==
    /\ pc[p] = "release"
    /\ held' = Released(plan[p].rec.host)
    /\ IF plan[p].kind = "cancel"
       THEN tombs' = tombs \ OwnTomb(p) /\ Rest(p)
       ELSE Go(p, "publish") /\ UNCHANGED tombs
    /\ UNCHANGED <<ready, claim, lease, endings, withdrawals, counts>>

\* The publication is re-checked under the lock where the plan may have been
\* overtaken; requeues by the reaper hold the lock since they were judged.
Guarded(p) ==
    \/ plan[p].kind = "finish"
    \/ plan[p].kind = "expire" /\ plan[p].disp \in {"done", "failed"}

\* Attempt number of the row a requeue publishes.
NextAttempt(p) ==
    IF plan[p].kind \in {"defer", "unstarted"}
    THEN plan[p].rec.att ELSE plan[p].rec.att + 1

\* _publish_claim_destination for a terminal: the directory's record is
\* replaced; the other directory's is retired if of another generation.
FileTerminal(gen, disp, retireOther) ==
    LET keep(other) == IF other = gen \/ ~ retireOther THEN other ELSE 0
    IN  /\ done' = IF disp = "done" THEN gen ELSE keep(done)
        /\ failed' = IF disp = "failed" THEN gen ELSE keep(failed)
        /\ retired' = retired \union ({done, failed} \ {0, gen, done', failed'})
        /\ UNCHANGED <<ready, supers>>

\* A newer row in READY is left alone and nothing is recorded.
FaultyRequeue(gen, att) ==
    /\ ready' = IF ready = NoRow /\ gen \notin supers THEN Row(gen, att) ELSE ready
    /\ UNCHANGED <<done, failed, retired, supers>>

\* _publish_requeued_claim: link without replacing READY; a newer row there
\* makes a durable supersession of this generation.
Requeue(gen, att) ==
    /\ ready' = IF ready = NoRow /\ gen \notin supers THEN Row(gen, att) ELSE ready
    /\ supers' = IF ready # NoRow /\ ready.gen # gen THEN supers \union {gen} ELSE supers
    /\ UNCHANGED <<done, failed, retired>>

PublishDestination(p, retireOther) ==
    IF plan[p].disp \in {"done", "failed"}
    THEN FileTerminal(plan[p].rec.gen, plan[p].disp, retireOther)
    ELSE Requeue(plan[p].rec.gen, NextAttempt(p))

\* _successor_generation refuses a waiting row older than the one it judges.
OlderWaits(rec) == ready # NoRow /\ ready.gen < rec.gen
RequeueRefused(p) ==
    /\ plan[p].disp = "requeued" /\ plan[p].rec.gen \notin supers
    /\ OlderWaits(plan[p].rec)

\* Publish the next home, then delete the tombstone.
PublishTail(p) ==
    /\ pc[p] = "publish"
    /\ Guarded(p) => lock \in {Nobody, p}
    /\ ~ RequeueRefused(p)
    /\ IF Guarded(p) /\ OwnTomb(p) = {}
       THEN UNCHANGED <<ready, tombs, done, failed, supers, retired>>
       ELSE PublishDestination(p, TRUE) /\ tombs' = tombs \ OwnTomb(p)
    /\ Rest(p)
    /\ UNCHANGED <<claim, lease, held, archive, replaced, withdrawals, counts>>

\* The process dies after the publication and before the deletions.
PublishCut(p) ==
    /\ pc[p] = "publish" /\ Fault
    /\ Guarded(p) => lock \in {Nobody, p} /\ OwnTomb(p) # {}
    /\ ~ RequeueRefused(p)
    /\ PublishDestination(p, FALSE)
    /\ Rest(p)
    /\ UNCHANGED <<claim, tombs, lease, held, archive, replaced, withdrawals,
                   launched, gens, claims>>

\* The publication fails: the reaper links the claim back, a finisher leaves
\* the tombstone for the sweep.
PublishFails(p) ==
    /\ pc[p] = "publish"
    /\ IF RequeueRefused(p) THEN UNCHANGED faults ELSE Fault
    /\ Guarded(p) => lock \in {Nobody, p}
    /\ IF plan[p].kind \in {"expire", "unstarted"} /\ claim = NoClaim
       THEN \E t \in OwnTomb(p) : claim' = t.rec /\ tombs' = tombs \ {t}
       ELSE UNCHANGED <<claim, tombs>>
    /\ Rest(p)
    /\ UNCHANGED <<ready, lease, held, endings, withdrawals,
                   launched, gens, claims>>

-----------------------------------------------------------------------------
(* The reaper; every pass over the key holds its lock.                     *)

\* reap_stale's judgement of a claim.
ReapableClaim ==
    /\ Unlocked /\ pc[Reaper] = "idle"
    /\ claim # NoClaim
    /\ LiveExpiry \/ ~ OwnerAlive(claim)
    /\ ~ LeaseConflicts(claim) /\ ~ Ambiguous(claim)

\* The claim as the reaper plans it: the resolved holder is its host.
Judged == ClaimRec(claim.gen, claim.att, claim.cid, claim.by, HolderOf(claim))

\* The generation has ended: drop its stale claim, reservation and lease.
ReapTerminal ==
    /\ ReapableClaim /\ TerminalCovers(claim)
    /\ held' = Released(HolderOf(claim))
    /\ claim' = NoClaim
    /\ lease' = NoClaim
    /\ UNCHANGED <<ready, tombs, endings, withdrawals, procs, counts>>

\* The generation was withdrawn: conclude the claim as cancelled.
ReapWithdrawn ==
    /\ ReapableClaim /\ ~ TerminalCovers(claim) /\ Covered(claim)
    /\ Commit(Reaper, Plan("cancel", Judged, "withdrawn"), Reaper)
    /\ UNCHANGED <<rows, endings, withdrawals, counts>>

\* The lease is not consulted, only the archive.
FaultyUnstarted(rec) == archive[rec.gen, rec.att + 1] = "none"

Unstarted(rec) == lease = NoClaim /\ archive[rec.gen, rec.att + 1] = "none"

\* No lease and no archived attempt: requeue without charging an attempt.
ReapUnstarted ==
    /\ ReapableClaim /\ ~ TerminalCovers(claim) /\ ~ Covered(claim)
    /\ Unstarted(claim)
    /\ Commit(Reaper, Plan("unstarted", Judged, "requeued"), Reaper)
    /\ UNCHANGED <<rows, endings, withdrawals, counts>>

\* The lease was lost: charge the attempt, adopting a result already filed.
ReapExpired ==
    /\ ReapableClaim /\ ~ TerminalCovers(claim) /\ ~ Covered(claim)
    /\ ~ Unstarted(claim)
    /\ LET n == claim.att + 1
           now == Archived(claim.gen, n, Disposition(claim.gen, "lease_lost", n, FALSE))
       IN  /\ archive' = now
           /\ Commit(Reaper, Plan("expire", Judged, now[claim.gen, n]), Reaper)
    /\ UNCHANGED <<rows, done, failed, supers, retired, replaced, withdrawals, counts>>

\* sweep_finish_tombstones looks at a mark older than the grace.
SweepableTomb(t) ==
    /\ Unlocked /\ pc[Reaper] = "idle"
    /\ SlowTail \/ ~ FinisherAlive(t)

KeyIsLive == ready # NoRow \/ claim # NoClaim
OnlyReadyLive == ready # NoRow /\ claim = NoClaim

\* Any archived attempt is taken for an ending.
FaultyTombCovered(rec) ==
    \/ TerminalCovers(rec) \/ Covered(rec) \/ rec.gen \in supers
    \/ \E n \in Attempts : archive[rec.gen, n] # "none"

\* The marked claim's generation has an ending on record.
TombCovered(rec) ==
    \/ TerminalCovers(rec) \/ Covered(rec) \/ rec.gen \in supers
    \/ OnlyReadyLive /\ ArchivedEnding(rec.gen)

\* The publication did not land: the claim comes back for the reaper.
RestoreTomb(t) ==
    /\ SweepableTomb(t)
    /\ ~ KeyIsLive /\ ~ TombCovered(t.rec)
    /\ claim' = t.rec
    /\ tombs' = tombs \ {t}
    /\ UNCHANGED <<ready, lease, held, endings, withdrawals, procs, counts>>

\* The mark is dropped and what its owner held stays.
FaultySweepReturns == FALSE

\* The sweep returns a mark's reservation unless a claim has the key again.
SweepReturns == claim = NoClaim

\* The key has moved on or the generation ended: return what the mark's owner
\* left, finish an interrupted retirement, record a supersession, drop it.
RetireTomb(t) ==
    LET retires(other) == /\ TerminalCovers(t.rec) /\ ~ KeyIsLive
                          /\ other \in 1..(t.rec.gen - 1)
    IN  /\ SweepableTomb(t)
        /\ TombCovered(t.rec) \/ (KeyIsLive /\ ~ (OnlyReadyLive /\ OlderWaits(t.rec)))
        /\ SweepReturns => ~ Ambiguous(t.rec)
        /\ held' = IF SweepReturns THEN [h \in Hosts |-> {}] ELSE held
        /\ lease' = IF SweepReturns /\ lease.by = t.rec.by THEN NoClaim ELSE lease
        /\ done' = IF retires(done) THEN 0 ELSE done
        /\ failed' = IF retires(failed) THEN 0 ELSE failed
        /\ retired' = retired \union ({done, failed} \ {0, done', failed'})
        /\ supers' = IF ~ TombCovered(t.rec) /\ OnlyReadyLive /\ ready.gen > t.rec.gen
                     THEN supers \union {t.rec.gen} ELSE supers
        /\ tombs' = tombs \ {t}
        /\ UNCHANGED <<ready, claim, archive, replaced, withdrawals, procs, counts>>

\* sweep_widowed_leases: a lease whose claim is gone.
SweepWidowedLease ==
    /\ Unlocked /\ pc[Reaper] = "idle"
    /\ claim = NoClaim /\ lease # NoClaim
    /\ LiveExpiry \/ ~ OwnerAlive(lease)
    /\ ~ Ambiguous(lease)
    /\ held' = Released(HolderOf(lease))
    /\ lease' = NoClaim
    /\ UNCHANGED <<ready, claim, tombs, endings, withdrawals, procs, counts>>

-----------------------------------------------------------------------------
\* A process dies between two steps; the kernel drops its lock.
Crash(p) ==
    /\ pc[p] # "idle" /\ Fault
    /\ Rest(p)
    /\ UNCHANGED <<rows, endings, withdrawals, launched, gens, claims>>

Claiming(w) ==
    \/ DropWithdrawnReady(w) \/ ClaimRename(w) \/ ClaimCommit(w)
    \/ ClaimRefused(w) \/ ClaimPersist(w) \/ ClaimLease(w) \/ ClaimUnwound(w)

Running(w) ==
    \/ Launch(w) \/ DeferLaunch(w) \/ Heartbeat(w)
    \/ \E result \in {"executed", "failed", "withdrawn"} : RunEnds(w, result)

Finishing(w) ==
    \/ FinishReadsClaim(w) \/ FinishReadsReady(w)
    \/ LostRelease(w) \/ LostLease(w) \/ LostCheck(w) \/ LostFile(w)
    \/ FinishArchives(w) \/ FinishCancels(w)

Committing(p) ==
    \/ Entomb(p) \/ GiveBack(p) \/ Unlease(p) \/ ReleaseReservation(p)
    \/ PublishTail(p) \/ PublishCut(p) \/ PublishFails(p)

Reaping ==
    \/ ReapTerminal \/ ReapWithdrawn \/ ReapUnstarted \/ ReapExpired
    \/ SweepWidowedLease
    \/ \E t \in tombs : RestoreTomb(t) \/ RetireTomb(t)

Next ==
    \/ Publish \/ Withdraw
    \/ \E w \in Workers : Claiming(w) \/ Running(w) \/ Finishing(w)
    \/ \E p \in Procs : Committing(p) \/ Crash(p)
    \/ Reaping

Spec == Init /\ [][Next]_vars

-----------------------------------------------------------------------------
(* Safety.                                                                 *)

\* A generation has one ending: done/ and failed/ never both hold it.
OneTerminal == done # 0 => done # failed

\* No generation is lost.  Every publication is waiting, claimed, marked by
\* a conclusion in progress, or has an ending a waiter can read: a terminal,
\* an archived terminal attempt, a withdrawal, a supersession.
Accounted(g) ==
    \/ g \in {ready.gen, claim.gen, done, failed}
    \/ \E t \in tombs : t.rec.gen = g
    \/ g \in decided \union supers \union retired \union replaced
    \/ ArchivedEnding(g)
NothingLost == \A g \in 1..gens : Accounted(g)

\* Work is never dropped unrun: a publication that no longer waits, is claimed
\* or marked, and has no ending on file, was at least started.
NothingDroppedUnrun ==
    \A g \in 1..gens : Accounted(g) \/ launched[g] > 0

\* A worker whose claim stands has its lease and its reservation: nobody
\* else's conclusion deleted them.
CustodyOf(w) ==
    pc[w] \in {"leased", "running"} /\ SameClaim(claim, snap[w]) =>
        /\ SameClaim(lease, snap[w])
        /\ snap[w].cid \in held[HostOf[w]]
RunningKeepsCustody == \A w \in Workers : CustodyOf(w)

\* A reservation is never stranded: tokens filed under the key are named by
\* a claim or a mark, which the reaper's sweeps read.
ReservationFindable == HeldHosts # {} => claim # NoClaim \/ tombs # {}

\* A withdrawn generation is never handed to a worker again: no claim pass gives a
\* worker its lease once withdraw has filed the decision.
WithdrawnNeverClaimed ==
    [][\A w \in Workers :
         pc[w] # "leased" /\ pc'[w] = "leased" => snap'[w].gen \notin decided']_vars

\* The withdrawal wins the race: from the moment the decision is on file the
\* generation is not requeued and not filed as failed.
WithdrawalWins ==
    [][\A g \in decided :
         (ready'.gen = g => ready.gen = g) /\ (failed' = g => failed = g)]_vars

-----------------------------------------------------------------------------
(* The queue implements the submitter's contract.                          *)

\* An ending a waiter can read: a terminal, an archived terminal attempt, a
\* withdrawal, a supersession, or a terminal filed as superseded evidence.
Ended(g) ==
    \/ g \in {done, failed} \union decided \union supers \union retired
    \/ ArchivedEnding(g)

Contract == INSTANCE PublicationContract WITH
    published <- gens,
    ended <- {g \in 1..gens : Ended(g)},
    overwritten <- replaced,
    starts <- launched

\* Every step of the queue is a step of the contract or leaves it alone: an
\* ended generation never starts, none starts out of order or too often, and
\* an ending is never taken back.
ImplementsContract == Contract!Spec

-----------------------------------------------------------------------------
(* Liveness.  Serve loops poll and run reap_stale on every sweep, a payload *)
(* ends, a blocking lock is granted.                                       *)

WorkerProceeds(w) ==
    \/ DropWithdrawnReady(w) \/ ClaimRename(w) \/ ClaimCommit(w)
    \/ ClaimPersist(w) \/ ClaimLease(w) \/ ClaimUnwound(w)
    \/ Launch(w) \/ Finishing(w)
    \/ \E result \in {"executed", "failed"} : RunEnds(w, result)

Fairness ==
    /\ \A w \in Workers : WF_vars(WorkerProceeds(w))
    /\ \A p \in Procs : WF_vars(Committing(p))
    /\ WF_vars(Reaping)

FairSpec == Spec /\ Fairness

\* A waiter gets an answer: every publication ends.
EveryPublicationEnds == Contract!Ends

\* Whatever was left by a crash is cleaned: again and again the key has no
\* mark, no lease and no reservation.
KeyIsClean == tombs = {} /\ lease = NoClaim /\ HeldHosts = {}
ComesClean == []<>KeyIsClean

=============================================================================
