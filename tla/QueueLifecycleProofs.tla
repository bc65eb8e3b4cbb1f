------------------------ MODULE QueueLifecycleProofs ------------------------
(***************************************************************************)
(* What a process may rely on whoever stalls and whoever dies, for any     *)
(* number of workers, hosts, publications, attempts and faults: LiveExpiry *)
(* and SlowTail may both be TRUE.                                          *)
(*                                                                         *)
(* A withdrawn generation is never handed to a worker.  A claim pass reads *)
(* the decisions in ClaimPersist and hands the claim out in ClaimLease.    *)
(* Between the two it holds the key's lock, and decisions are filed only   *)
(* under the free lock: PassInv says who holds the lock, and that what the *)
(* pass has read still stands.                                             *)
(*                                                                         *)
(* Every record keeps its shape.  A requeue charges an attempt, and the    *)
(* budget it is charged to is checked by another step, perhaps of another  *)
(* process: TypeInv says what a process that stalls between the two may    *)
(* still rely on.                                                          *)
(***************************************************************************)
EXTENDS QueueLifecycle, TLAPS

\* Leaves are first-order and left to Zenon; the ones that reckon, or take records
\* apart, cite SMT.
USE Zenon

\* The steps of the locked claim pass.
ClaimPass == {"renamed", "committed", "persisted"}

PassInv ==
    /\ pc = [p \in Procs |-> pc[p]]
    /\ snap = [w \in Workers |-> snap[w]]
    /\ \A w \in Workers :
         /\ pc[w] \in ClaimPass => lock = w
         /\ pc[w] = "persisted" => snap[w].gen \notin decided

\* The step hands no worker a generation that was withdrawn.
Handed ==
    \A w \in Workers : pc[w] # "leased" /\ pc'[w] = "leased" => snap'[w].gen \notin decided'

PassKept == PassInv' /\ Handed

-----------------------------------------------------------------------------
\* A worker is a process, and none is Nobody.
LEMMA Named == \A w \in Workers : w \in Procs /\ w # Nobody
BY QueueAssumption DEF Procs, Nobody

LEMMA WorkersAre == \A w \in Workers : w \in Procs /\ w # Reaper
BY QueueAssumption DEF Procs

\* A step of a process that does not enter the claim pass keeps the invariant:
\* the lock is left alone unless it was free or the process's own.
LEMMA Elsewhere ==
    ASSUME PassInv, NEW p \in Procs, NEW step, pc' = At(p, step),
           step \notin ClaimPass \union {"leased"},
           snap' = [w \in Workers |-> snap'[w]],
           \A w \in Workers \ {p} : snap'[w] = snap[w],
           lock' = lock \/ lock \in {Nobody, p}, UNCHANGED withdrawals
    PROVE  PassKept
<1>1. pc' = [q \in Procs |-> pc'[q]] /\ pc'[p] = step /\ \A q \in Procs \ {p} : pc'[q] = pc[q]
  BY DEF PassInv, At
<1>2. ASSUME NEW w \in Workers
      PROVE  /\ pc'[w] \in ClaimPass => w # p /\ pc'[w] = pc[w] /\ snap'[w] = snap[w]
             /\ pc[w] # "leased" => pc'[w] # "leased"
  BY <1>1, Named
<1>3. ASSUME NEW w \in Workers
      PROVE  /\ pc'[w] \in ClaimPass => lock' = w
             /\ pc'[w] = "persisted" => snap'[w].gen \notin decided'
  BY <1>2, <1>3, Named DEF PassInv, withdrawals, ClaimPass
<1> QED BY <1>1, <1>2, <1>3 DEF PassKept, PassInv, Handed

\* A process that returns, goes on outside the claim pass, or starts to commit.
LEMMA Resting ==
    ASSUME PassInv, NEW p \in Procs, Rest(p), UNCHANGED withdrawals PROVE PassKept
<1>1. pc' = At(p, "idle") /\ (lock' = lock \/ lock = p)
  BY DEF Rest, Unlock
<1>2. snap' = [w \in Workers |-> snap'[w]] /\ \A w \in Workers \ {p} : snap'[w] = snap[w]
  BY DEF Rest
<1> QED BY <1>1, <1>2, Elsewhere DEF ClaimPass

LEMMA Going ==
    ASSUME PassInv, NEW p \in Procs, NEW step, Go(p, step), UNCHANGED withdrawals,
           step \notin ClaimPass \union {"leased"}
    PROVE  PassKept
<1>1. pc' = At(p, step) /\ lock' = lock /\ snap' = snap
  BY DEF Go
<1>2. snap' = [w \in Workers |-> snap'[w]]
  BY <1>1 DEF PassInv
<1> QED BY <1>1, <1>2, Elsewhere

LEMMA Committed ==
    ASSUME PassInv, NEW p \in Procs, NEW q, NEW l, Commit(p, q, l), UNCHANGED withdrawals,
           l = lock \/ lock = Nobody
    PROVE  PassKept
<1>1. pc' = At(p, "entomb") /\ lock' = l /\ snap' = snap
  BY DEF Commit
<1>2. snap' = [w \in Workers |-> snap'[w]]
  BY <1>1 DEF PassInv
<1> QED BY <1>1, <1>2, Elsewhere DEF ClaimPass

\* A step that moves no process, and files no decision unless the lock is free.
LEMMA PassAside ==
    ASSUME PassInv, UNCHANGED procs, decided' = decided \/ Unlocked PROVE PassKept
<1>1. UNCHANGED <<lock, pc, snap>>
  BY DEF procs
<1>2. ASSUME NEW w \in Workers
      PROVE  pc[w] = "persisted" => decided' = decided
  BY Named DEF PassInv, Unlocked, ClaimPass
<1> QED BY <1>1, <1>2 DEF PassKept, PassInv, Handed

-----------------------------------------------------------------------------
\* The claim pass takes the free lock, keeps it, reads the decisions, and hands
\* the claim out as it lets the lock go.
LEMMA ClaimingKeeps == ASSUME PassInv, NEW w \in Workers, Claiming(w) PROVE PassKept
<1> SUFFICES ASSUME w \in Procs /\ w # Nobody /\ pc = [p \in Procs |-> pc[p]]
             PROVE  PassKept
  BY Named DEF PassInv
<1>1. CASE DropWithdrawnReady(w)
  BY <1>1, PassAside DEF DropWithdrawnReady, withdrawals
<1>2. CASE ClaimRename(w)
  <2>1. /\ lock = Nobody /\ lock' = w /\ pc' = [pc EXCEPT ![w] = "renamed"] /\ decided' = decided
        /\ \E c : snap' = [snap EXCEPT ![w] = c]
    BY <1>2 DEF ClaimRename, Unlocked, At, withdrawals
  <2>2. \A v \in Workers : pc[v] \notin ClaimPass
    BY <2>1, Named DEF PassInv
  <2> QED BY <2>1, <2>2, Named DEF PassKept, PassInv, Handed, ClaimPass
<1>3. CASE ClaimCommit(w)
  <2>1. /\ pc[w] = "renamed" /\ pc' = [pc EXCEPT ![w] = "committed"] /\ decided' = decided
        /\ UNCHANGED <<lock, snap>>
    BY <1>3 DEF ClaimCommit, Go, At, withdrawals
  <2> QED BY <2>1, Named DEF PassKept, PassInv, Handed, ClaimPass
<1>4. CASE ClaimRefused(w)
  BY <1>4, Resting DEF ClaimRefused
<1>5. CASE ClaimPersist(w)
  <2> SUFFICES ASSUME pc[w] = "committed" /\ UNCHANGED withdrawals
               PROVE  PassKept
    BY <1>5 DEF ClaimPersist
  <2>1. CASE Rest(w)
    BY <2>1, Resting
  <2>2. CASE ~ Covered(snap[w]) /\ ~ Rest(w)
    <3> SUFFICES ASSUME /\ pc' = [pc EXCEPT ![w] = "persisted"] /\ lock' = lock
                        /\ snap' = [snap EXCEPT ![w] = ClaimRec(snap[w].gen, snap[w].att, claims, w, HostOf[w])]
                 PROVE  PassKept
      BY <1>5, <2>2 DEF ClaimPersist, At
    <3>1. snap'[w].gen = snap[w].gen /\ snap[w].gen \notin decided
      BY <2>2 DEF PassInv, ClaimRec, Covered
    <3>2. decided' = decided
      BY DEF withdrawals
    <3>3. \A v \in Workers : v # w => snap'[v] = snap[v]
      BY DEF PassInv
    <3>4. snap' = [v \in Workers |-> snap'[v]]
      BY DEF PassInv
    <3> QED BY <3>1, <3>2, <3>3, <3>4, Named DEF PassKept, PassInv, Handed, ClaimPass
  <2> QED BY <1>5, <2>1, <2>2 DEF ClaimPersist
<1>6. CASE ClaimLease(w)
  <2>1. /\ pc[w] = "persisted" /\ pc' = [pc EXCEPT ![w] = "leased"] /\ lock' = Nobody
        /\ snap' = snap /\ decided' = decided
    BY <1>6 DEF ClaimLease, At, withdrawals
  <2>2. \A v \in Workers : v # w => pc[v] \notin ClaimPass
    BY <2>1 DEF PassInv, ClaimPass
  <2> QED BY <2>1, <2>2, Named DEF PassKept, PassInv, Handed, ClaimPass
<1>7. CASE ClaimUnwound(w)
  BY <1>7, Resting DEF ClaimUnwound
<1> QED BY <1>1, <1>2, <1>3, <1>4, <1>5, <1>6, <1>7 DEF Claiming

\* A worker that runs its claim is outside the pass and files no decision.
LEMMA RunningKeeps == ASSUME PassInv, NEW w \in Workers, Running(w) PROVE PassKept
<1> SUFFICES ASSUME w \in Procs /\ snap = [v \in Workers |-> snap[v]]
             PROVE  PassKept
  BY Named DEF PassInv
<1>1. CASE Launch(w)
  <2>1. /\ pc' = At(w, "read") \/ pc' = At(w, "running")
        /\ UNCHANGED <<lock, snap, withdrawals>>
    BY <1>1 DEF Launch
  <2> QED BY <2>1, Elsewhere DEF ClaimPass
<1>2. CASE DeferLaunch(w)
  BY <1>2, Committed, Resting DEF DeferLaunch
<1>3. CASE Heartbeat(w)
  <2>1. /\ pc' = At(w, "read") \/ UNCHANGED procs
        /\ UNCHANGED <<lock, snap, withdrawals>>
    BY <1>3 DEF Heartbeat, procs
  <2> QED BY <2>1, Elsewhere, PassAside DEF ClaimPass, withdrawals
<1>4. ASSUME NEW result, RunEnds(w, result) PROVE PassKept
  <2>1. pc' = At(w, "read") /\ UNCHANGED <<lock, snap, withdrawals>>
    BY <1>4 DEF RunEnds
  <2> QED BY <2>1, Elsewhere DEF ClaimPass
<1> QED BY <1>1, <1>2, <1>3, <1>4 DEF Running

\* So is one that finishes.
LEMMA FinishingKeeps == ASSUME PassInv, NEW w \in Workers, Finishing(w) PROVE PassKept
<1> SUFFICES ASSUME w \in Procs
             PROVE  PassKept
  BY Named
<1>1. CASE FinishReadsClaim(w)
  BY <1>1, Going, Resting DEF FinishReadsClaim, ClaimPass
<1>2. CASE FinishReadsReady(w)
  BY <1>2, Going, Resting DEF FinishReadsReady, ClaimPass
<1>3. CASE LostRelease(w) \/ LostLease(w)
  BY <1>3, Going DEF LostRelease, LostLease, ClaimPass
<1>4. CASE LostCheck(w)
  BY <1>4, Going, Resting DEF LostCheck, ClaimPass
<1>5. CASE LostFile(w)
  BY <1>5, Resting DEF LostFile
<1>6. CASE FinishArchives(w)
  <2>1. /\ UNCHANGED withdrawals
        /\ Go(w, "cancel") \/ \E q : Commit(w, q, lock)
    BY <1>6 DEF FinishArchives
  <2> QED BY <2>1, Going, Committed DEF ClaimPass
<1>7. CASE FinishCancels(w)
  <2>1. /\ UNCHANGED withdrawals /\ lock = Nobody
        /\ Rest(w) \/ Commit(w, Plan("cancel", snap[w], "withdrawn"), w)
    BY <1>7 DEF FinishCancels, Unlocked
  <2> QED BY <2>1, Resting, Committed
<1> QED BY <1>1, <1>2, <1>3, <1>4, <1>5, <1>6, <1>7 DEF Finishing

\* And so is every process in the tail of a conclusion, or one that dies.
LEMMA CommittingKeeps ==
    ASSUME PassInv, NEW p \in Procs, Committing(p) \/ Crash(p) PROVE PassKept
<1>1. CASE Entomb(p)
  <2>1. /\ UNCHANGED withdrawals
        /\ \/ Rest(p)
           \/ Go(p, "unlease")
           \/ pc' = At(p, "giveBack") /\ UNCHANGED <<lock, snap>>
    BY <1>1 DEF Entomb
  <2>2. snap = [v \in Workers |-> snap[v]]
    BY DEF PassInv
  <2> QED BY <2>1, <2>2, Resting, Going, Elsewhere DEF ClaimPass
<1>2. CASE GiveBack(p)
  BY <1>2, Resting DEF GiveBack
<1>3. CASE Unlease(p)
  BY <1>3, Going DEF Unlease, ClaimPass
<1>4. CASE ReleaseReservation(p)
  BY <1>4, Resting, Going DEF ReleaseReservation, ClaimPass
<1>5. CASE PublishTail(p)
  BY <1>5, Resting DEF PublishTail
<1>6. CASE PublishCut(p)
  BY <1>6, Resting DEF PublishCut
<1>7. CASE PublishFails(p)
  BY <1>7, Resting DEF PublishFails
<1>8. CASE Crash(p)
  BY <1>8, Resting DEF Crash
<1> QED BY <1>1, <1>2, <1>3, <1>4, <1>5, <1>6, <1>7, <1>8 DEF Committing

\* The reaper takes the free lock for a plan, or does its work in one step.
LEMMA ReapingKeeps == ASSUME PassInv, Reaping PROVE PassKept
<1>1. Reaper \in Procs
  BY DEF Procs
<1>2. CASE ReapWithdrawn \/ ReapUnstarted
  BY <1>1, <1>2, Committed DEF ReapWithdrawn, ReapUnstarted, ReapableClaim, Unlocked
<1>3. CASE ReapExpired
  <2>1. UNCHANGED withdrawals /\ lock = Nobody /\ \E q : Commit(Reaper, q, Reaper)
    BY <1>3 DEF ReapExpired, ReapableClaim, Unlocked
  <2> QED BY <1>1, <2>1, Committed
<1>4. CASE ReapTerminal \/ SweepWidowedLease
  BY <1>4, PassAside DEF ReapTerminal, SweepWidowedLease, withdrawals
<1>5. ASSUME NEW t, RestoreTomb(t) \/ RetireTomb(t) PROVE PassKept
  <2>1. UNCHANGED <<procs, withdrawals>>
    BY <1>5 DEF RestoreTomb, RetireTomb
  <2> QED BY <2>1, PassAside DEF withdrawals
<1> QED BY <1>2, <1>3, <1>4, <1>5 DEF Reaping

-----------------------------------------------------------------------------
\* Every step keeps the invariant and hands out nothing that was withdrawn.
LEMMA StepKeeps == PassInv /\ [Next]_vars => PassInv' /\ Handed
<1> SUFFICES ASSUME PassInv, [Next]_vars PROVE PassKept
  BY DEF PassKept
<1>1. CASE Publish \/ Withdraw
  BY <1>1, PassAside DEF Publish, Withdraw
<1>2. CASE \E w \in Workers : Claiming(w) \/ Running(w) \/ Finishing(w)
  BY <1>2, ClaimingKeeps, RunningKeeps, FinishingKeeps
<1>3. CASE \E p \in Procs : Committing(p) \/ Crash(p)
  BY <1>3, CommittingKeeps
<1>4. CASE Reaping
  BY <1>4, ReapingKeeps
<1>5. CASE UNCHANGED vars
  BY <1>5, PassAside DEF vars, withdrawals
<1> QED BY <1>1, <1>2, <1>3, <1>4, <1>5 DEF Next

\* At all times the claim pass holds the key's lock, and the generation it is
\* about to hand out is not withdrawn (_claim_pass under action_transition_lock).
THEOREM PassHoldsTheLock == Spec => []PassInv
<1>1. Init => PassInv
  BY Named DEF Init, PassInv, ClaimPass
<1> QED BY <1>1, StepKeeps, PTL DEF Spec

\* A withdrawn generation is never handed to a worker again: no step gives a
\* worker its lease for a generation whose withdrawal decision is on file, for
\* any number of workers, faults and stalls (withdraw against _claim_pass).
THEOREM WithdrawnStaysOut == Spec => WithdrawnNeverClaimed
<1>1. PassInv /\ [Next]_vars => [Handed]_vars
  BY StepKeeps
<1>2. Spec => [][Handed]_vars
  BY <1>1, PassHoldsTheLock, PTL DEF Spec
<1> QED BY <1>2 DEF WithdrawnNeverClaimed, Handed

-----------------------------------------------------------------------------
(* Records.                                                                *)

PlanRecs == [kind : Kinds, rec : Claims, disp : Dispositions \union {"none"}]

\* The counters' bounds, and what one charged attempt more is.
LEMMA Numbers ==
    /\ \A g \in Gens : g # 0 /\ g \in 0..MaxGens
    /\ \A g \in 0..MaxGens : g # 0 => g \in Gens
    /\ 0 \in 0..MaxGens /\ 0 \in 0..MaxClaims /\ 0 \in Charged
    /\ \A a \in Charged : a + 1 \in Attempts /\ a + 1 \in Nat
    /\ \A a \in Charged : a + 1 < MaxAttempts => a + 1 \in Charged
BY QueueAssumption, SMT DEF Gens, Charged, Attempts

LEMMA RowParts ==
    ASSUME NEW r \in Rows
    PROVE  /\ r # NoRow => r.gen \in Gens /\ r.att \in Charged
           /\ r.gen # 0 => r # NoRow
BY SMT DEF Rows, NoRow, Row

LEMMA RowMade ==
    ASSUME NEW g \in Gens, NEW a \in Charged
    PROVE  Row(g, a) \in Rows /\ Row(g, a).gen = g /\ Row(g, a) # NoRow
<1>1. g # 0
  BY Numbers
<1> QED BY <1>1, SMT DEF Rows, Row, NoRow

LEMMA NoneIs == NoRow \in Rows /\ NoRow.gen = 0 /\ NoClaim \in Claims /\ NoClaim.gen = 0 /\ NoPlan \in PlanRecs
BY SMT DEF Rows, NoRow, Row, Claims, NoClaim, ClaimRec, NoPlan, Plan, PlanRecs, Kinds

LEMMA ClaimParts ==
    ASSUME NEW c \in Claims
    PROVE  /\ c # NoClaim => /\ c.gen \in Gens /\ c.att \in Charged /\ c.cid \in 0..MaxClaims
                             /\ c.by \in Workers \union {Nobody} /\ c.host \in Hosts
           /\ c.gen # 0 => c # NoClaim
BY SMT DEF Claims, NoClaim, ClaimRec

LEMMA ClaimMade ==
    ASSUME NEW g \in Gens, NEW a \in Charged, NEW i \in 0..MaxClaims,
           NEW b \in Workers \union {Nobody}, NEW h \in Hosts
    PROVE  /\ ClaimRec(g, a, i, b, h) \in Claims /\ ClaimRec(g, a, i, b, h) # NoClaim
           /\ ClaimRec(g, a, i, b, h).gen = g /\ ClaimRec(g, a, i, b, h).att = a
           /\ ClaimRec(g, a, i, b, h).by = b /\ ClaimRec(g, a, i, b, h).host = h
           /\ ClaimRec(g, a, i, b, h).cid = i
<1>1. g # 0
  BY Numbers
<1> QED BY <1>1, SMT DEF Claims, NoClaim, ClaimRec

\* A row as it is claimed, and a claim as its row.
LEMMA RawMade ==
    ASSUME NEW r, r.gen \in Gens, r.att \in Charged, NEW h \in Hosts
    PROVE  /\ Raw(r, h) \in Claims /\ Raw(r, h) # NoClaim
           /\ Raw(r, h).gen = r.gen /\ Raw(r, h).att = r.att /\ Raw(r, h).by = Nobody /\ Raw(r, h).host = h
<1>1. Nobody \in Workers \union {Nobody} /\ 0 \in 0..MaxClaims
  BY Numbers
<1>2. r.gen # 0
  BY Numbers
<1> QED BY <1>1, <1>2, SMT DEF Raw, Claims, NoClaim, ClaimRec

LEMMA PlanMade ==
    ASSUME NEW k \in Kinds, NEW c \in Claims, NEW d \in Dispositions \union {"none"}
    PROVE  /\ Plan(k, c, d) \in PlanRecs
           /\ Plan(k, c, d).kind = k /\ Plan(k, c, d).rec = c /\ Plan(k, c, d).disp = d
BY SMT DEF PlanRecs, Plan

LEMMA PlanParts ==
    ASSUME NEW q \in PlanRecs PROVE q.kind \in Kinds /\ q.rec \in Claims /\ q.disp \in Dispositions \union {"none"}
BY SMT DEF PlanRecs

LEMMA TombMade ==
    ASSUME NEW c \in Claims, NEW p \in Procs
    PROVE  Tomb(c, p) \in [rec : Claims, who : Procs] /\ Tomb(c, p).rec = c /\ Tomb(c, p).who = p
BY SMT DEF Tomb

LEMMA TombParts ==
    ASSUME NEW t \in [rec : Claims, who : Procs] PROVE t.rec \in Claims /\ t.who \in Procs
BY SMT

LEMMA SameIsThere ==
    ASSUME NEW a \in Claims, NEW b \in Claims, SameClaim(a, b), a # NoClaim \/ b # NoClaim
    PROVE  a # NoClaim /\ b # NoClaim
BY ClaimParts, NoneIs, Numbers DEF SameClaim

LEMMA HostsAre == \A w \in Workers : HostOf[w] \in Hosts
BY DEF Hosts

LEMMA DispositionIs ==
    ASSUME NEW g, NEW r, NEW n \in Nat, NEW b
    PROVE  /\ Disposition(g, r, n, b) \in Dispositions
           /\ Disposition(g, r, n, b) = "requeued" => n < MaxAttempts
           /\ Disposition(g, r, n, b) = "withdrawn" => r = "withdrawn"
BY QueueAssumption, SMT DEF Disposition, Dispositions

\* An attempt is archived once, and what the archive then has of it is known.
LEMMA ArchivedIs ==
    ASSUME archive \in [Gens \X Attempts -> Dispositions \union {"none"}],
           NEW g \in Gens, NEW n \in Attempts, NEW d \in Dispositions
    PROVE  /\ Archived(g, n, d) \in [Gens \X Attempts -> Dispositions \union {"none"}]
           /\ Archived(g, n, d)[<<g, n>>] \in Dispositions
           /\ Archived(g, n, d)[<<g, n>>] \in {archive[<<g, n>>], d}
<1>1. <<g, n>> \in Gens \X Attempts /\ "none" \notin Dispositions
  BY DEF Dispositions
<1>2. CASE archive[<<g, n>>] = "none"
  <2>1. Archived(g, n, d) = [archive EXCEPT ![<<g, n>>] = d]
    BY <1>2 DEF Archived
  <2>2. [archive EXCEPT ![<<g, n>>] = d] \in [Gens \X Attempts -> Dispositions \union {"none"}]
    BY <1>1, SMT
  <2> QED BY <1>1, <1>2, <2>1, <2>2
<1>3. CASE archive[<<g, n>>] # "none"
  <2>1. Archived(g, n, d) = archive
    BY <1>3 DEF Archived
  <2> QED BY <1>1, <1>3, <2>1, SMT
<1> QED BY <1>2, <1>3

\* No other attempt changes, nor one that is on file.
LEMMA ArchivedElse ==
    ASSUME archive \in [Gens \X Attempts -> Dispositions \union {"none"}],
           NEW g \in Gens, NEW n \in Attempts, NEW d \in Dispositions, NEW h \in Gens, NEW m \in Attempts
    PROVE  /\ Archived(g, n, d)[<<h, m>>] = archive[<<h, m>>]
              \/ (h = g /\ m = n /\ Archived(g, n, d)[<<h, m>>] = d)
           /\ archive[<<h, m>>] # "none" => Archived(g, n, d)[<<h, m>>] = archive[<<h, m>>]
<1>1. CASE archive[<<g, n>>] = "none"
  <2>1. Archived(g, n, d) = [archive EXCEPT ![<<g, n>>] = d]
    BY <1>1 DEF Archived
  <2>2. [archive EXCEPT ![<<g, n>>] = d][<<h, m>>] = IF h = g /\ m = n THEN d ELSE archive[<<h, m>>]
    BY SMT
  <2> QED BY <1>1, <2>1, <2>2
<1>2. CASE archive[<<g, n>>] # "none"
  BY <1>2 DEF Archived
<1> QED BY <1>1, <1>2

-----------------------------------------------------------------------------
(* What a process bears in mind.                                           *)

\* The steps that carry out a plan.
Handling == {"entomb", "unlease", "release", "publish"}

\* A worker knows the claim it was handed, and after the pass it is on record as
\* its own; a plan is for a claim, and a requeue that charges an attempt leaves one.
WorkerBears(w) ==
    /\ pc[w] = "idle" => status[w] = "none"
    /\ pc[w] # "idle" => snap[w] # NoClaim
    /\ pc[w] \notin {"idle", "renamed", "committed"} => snap[w].by = w /\ snap[w].host = HostOf[w]
    /\ pc[w] \in Handling => plan[w].rec = snap[w]
    /\ pc[w] = "renamed" => claims < MaxClaims
    /\ pc[w] = "cancel" \/ status[w] = "withdrawn" => snap[w].gen \in decided

Charges(q) == q.kind \in {"finish", "expire"} /\ q.disp \notin {"done", "failed"}

PlanBears(p) ==
    /\ pc[p] \in Handling \union {"giveBack"} => plan[p].rec # NoClaim
    /\ pc[p] \in Handling =>
         /\ plan[p].kind # "none"
         /\ plan[p].kind = "cancel" => pc[p] # "publish" /\ plan[p].rec.gen \in decided
         /\ Charges(plan[p]) => plan[p].rec.att + 1 < MaxAttempts

ReaperBears == pc[Reaper] # "idle" => lock = Reaper /\ pc[Reaper] \in Handling \union {"giveBack"}

Bearings ==
    /\ \A w \in Workers : WorkerBears(w)
    /\ \A p \in Procs : PlanBears(p)
    /\ ReaperBears

ProcTypes ==
    /\ lock \in Procs \union {Nobody}
    /\ pc \in [Procs -> Steps]
    /\ snap \in [Workers -> Claims]
    /\ status \in [Workers -> {"none", "executed", "failed", "withdrawn"}]
    /\ plan \in [Procs -> PlanRecs]

\* The other processes are where they were.
Others(p) ==
    /\ \A q \in Procs \ {p} : pc'[q] = pc[q] /\ plan'[q] = plan[q]
    /\ \A w \in Workers \ {p} : snap'[w] = snap[w] /\ status'[w] = status[w]

LEMMA StepsAre ==
    /\ \A s \in Handling : s \in Steps /\ s # "idle"
    /\ {"idle", "giveBack"} \subseteq Steps /\ {"idle", "giveBack"} \intersect Handling = {}
BY DEF Steps, Handling

LEMMA RestIs ==
    ASSUME ProcTypes, NEW p \in Procs, Rest(p)
    PROVE  /\ ProcTypes' /\ Others(p) /\ pc'[p] = "idle"
           /\ p \in Workers => snap'[p] = NoClaim /\ status'[p] = "none"
           /\ lock' = lock \/ (lock = p /\ lock' = Nobody)
<1>1. pc' \in [Procs -> Steps] /\ pc'[p] = "idle" /\ \A q \in Procs \ {p} : pc'[q] = pc[q]
  BY StepsAre DEF Rest, At, ProcTypes
<1>2. plan' \in [Procs -> PlanRecs] /\ \A q \in Procs \ {p} : plan'[q] = plan[q]
  BY NoneIs DEF Rest, ProcTypes
<1>3. /\ snap' \in [Workers -> Claims] /\ \A w \in Workers \ {p} : snap'[w] = snap[w]
      /\ p \in Workers => snap'[p] = NoClaim
  BY NoneIs DEF Rest, ProcTypes
<1>4. /\ status' \in [Workers -> {"none", "executed", "failed", "withdrawn"}]
      /\ \A w \in Workers \ {p} : status'[w] = status[w]
      /\ p \in Workers => status'[p] = "none"
  BY DEF Rest, ProcTypes
<1>5. lock' \in Procs \union {Nobody} /\ (lock' = lock \/ (lock = p /\ lock' = Nobody))
  BY DEF Rest, Unlock, ProcTypes
<1> QED BY <1>1, <1>2, <1>3, <1>4, <1>5 DEF ProcTypes, Others

LEMMA GoIs ==
    ASSUME ProcTypes, NEW p \in Procs, NEW step \in Steps, Go(p, step)
    PROVE  /\ ProcTypes' /\ Others(p) /\ pc'[p] = step
           /\ UNCHANGED <<lock, snap, status, plan>>
<1>1. pc' \in [Procs -> Steps] /\ pc'[p] = step /\ \A q \in Procs \ {p} : pc'[q] = pc[q]
  BY DEF Go, At, ProcTypes
<1>2. UNCHANGED <<lock, snap, status, plan>>
  BY DEF Go
<1> QED BY <1>1, <1>2 DEF ProcTypes, Others

LEMMA CommitIs ==
    ASSUME ProcTypes, NEW p \in Procs, NEW q \in PlanRecs, NEW l \in Procs \union {Nobody}, Commit(p, q, l)
    PROVE  /\ ProcTypes' /\ Others(p) /\ pc'[p] = "entomb" /\ plan'[p] = q
           /\ lock' = l /\ UNCHANGED <<snap, status>>
<1>1. pc' \in [Procs -> Steps] /\ pc'[p] = "entomb" /\ \A r \in Procs \ {p} : pc'[r] = pc[r]
  BY StepsAre DEF Commit, At, ProcTypes, Handling
<1>2. plan' \in [Procs -> PlanRecs] /\ plan'[p] = q /\ \A r \in Procs \ {p} : plan'[r] = plan[r]
  BY DEF Commit, ProcTypes
<1>3. lock' = l /\ UNCHANGED <<snap, status>>
  BY DEF Commit
<1> QED BY <1>1, <1>2, <1>3 DEF ProcTypes, Others

\* What the others bear in mind stands.
LEMMA BearOn ==
    ASSUME Bearings, NEW p \in Procs, Others(p), decided \subseteq decided',
           lock' = lock \/ lock \in {Nobody, p},
           claims' = claims \/ \A w \in Workers \ {p} : pc[w] # "renamed",
           p \in Workers => WorkerBears(p)', PlanBears(p)', p = Reaper => ReaperBears'
    PROVE  Bearings'
<1>1. ASSUME NEW w \in Workers PROVE WorkerBears(w)'
  <2>1. CASE w # p
    <3>1. pc'[w] = pc[w] /\ plan'[w] = plan[w] /\ snap'[w] = snap[w] /\ status'[w] = status[w] /\ WorkerBears(w)
      BY <2>1, Named DEF Others, Bearings
    <3>2. pc[w] = "renamed" => claims' = claims
      BY <2>1
    <3> QED BY <3>1, <3>2 DEF WorkerBears
  <2> QED BY <2>1
<1>2. ASSUME NEW q \in Procs PROVE PlanBears(q)'
  <2>1. CASE q # p
    <3>1. pc'[q] = pc[q] /\ plan'[q] = plan[q] /\ PlanBears(q)
      BY <2>1 DEF Others, Bearings
    <3> QED BY <3>1 DEF PlanBears
  <2> QED BY <2>1
<1>3. ReaperBears'
  <2>1. CASE Reaper # p
    <3>1. Reaper \in Procs /\ Reaper # Nobody
      BY QueueAssumption DEF Procs, Nobody
    <3>2. pc'[Reaper] = pc[Reaper] /\ (lock = Reaper => lock' = lock)
      BY <2>1, <3>1 DEF Others
    <3> QED BY <3>2 DEF ReaperBears, Bearings
  <2> QED BY <2>1
<1> QED BY <1>1, <1>2, <1>3 DEF Bearings

\* A process that returns bears nothing in mind.
LEMMA BearRest ==
    ASSUME ProcTypes, Bearings, NEW p \in Procs, Rest(p), decided \subseteq decided', claims' = claims
    PROVE  ProcTypes' /\ Bearings'
<1>1. ProcTypes' /\ Others(p) /\ pc'[p] = "idle" /\ (p \in Workers => snap'[p] = NoClaim /\ status'[p] = "none")
      /\ (lock' = lock \/ lock = p)
  BY RestIs
<1>2. PlanBears(p)' /\ (p \in Workers => WorkerBears(p)') /\ (p = Reaper => ReaperBears')
  BY <1>1, StepsAre DEF PlanBears, WorkerBears, ReaperBears
<1> QED BY <1>1, <1>2, BearOn

\* A worker goes on with its claim.
LEMMA BearGo ==
    ASSUME ProcTypes, Bearings, NEW w \in Workers, NEW step \in Steps, ProcTypes', Others(w),
           pc[w] \notin {"idle", "renamed", "committed"}, pc'[w] = step,
           step \notin Handling \union {"idle", "renamed", "giveBack"},
           step = "cancel" => snap[w].gen \in decided,
           lock' = lock \/ lock \in {Nobody, w}, snap' = snap, 
           status' = status \/ (status'[w] = "withdrawn" => snap[w].gen \in decided),
           decided \subseteq decided', claims' = claims
    PROVE  Bearings'
<1>1. WorkerBears(w) /\ w \in Procs /\ w # Reaper
  BY WorkersAre DEF Bearings
<1>2. WorkerBears(w)' /\ PlanBears(w)'
  BY <1>1 DEF WorkerBears, PlanBears
<1> QED BY <1>1, <1>2, BearOn

\* A step that moves no process.
LEMMA BearAside ==
    ASSUME ProcTypes, Bearings, UNCHANGED procs, decided \subseteq decided', claims' = claims
    PROVE  ProcTypes' /\ Bearings'
<1>1. UNCHANGED <<lock, pc, snap, status, plan>>
  BY DEF procs
<1>2. ProcTypes' /\ \A w \in Workers : WorkerBears(w)'
  BY <1>1 DEF ProcTypes, Bearings, WorkerBears
<1>3. ReaperBears' /\ \A p \in Procs : PlanBears(p)'
  BY <1>1 DEF Bearings, ReaperBears, PlanBears
<1> QED BY <1>2, <1>3 DEF Bearings

\* A process starts to commit a plan for a claim.
LEMMA BearCommit ==
    ASSUME ProcTypes, Bearings, NEW p \in Procs, NEW k \in Kinds \ {"none"}, NEW c \in Claims, c # NoClaim,
           NEW d \in Dispositions, NEW l \in Procs \union {Nobody}, Commit(p, Plan(k, c, d), l),
           l = lock \/ lock = Nobody, p = Reaper => l = p,
           p \in Workers => c = snap[p] /\ pc[p] \notin {"idle", "renamed", "committed"},
           k = "cancel" => c.gen \in decided,
           k \in {"finish", "expire"} /\ d \notin {"done", "failed"} => c.att + 1 < MaxAttempts,
           decided \subseteq decided', claims' = claims
    PROVE  ProcTypes' /\ Bearings'
<1>1. /\ Plan(k, c, d) \in PlanRecs
      /\ Plan(k, c, d).kind = k /\ Plan(k, c, d).rec = c /\ Plan(k, c, d).disp = d
  <2>1. k \in Kinds /\ d \in Dispositions \union {"none"}
    OBVIOUS
  <2> QED BY <2>1, PlanMade, SMT
<1>2. /\ ProcTypes' /\ Others(p) /\ pc'[p] = "entomb" /\ plan'[p] = Plan(k, c, d)
      /\ lock' = l /\ UNCHANGED <<snap, status>>
  BY <1>1, CommitIs
<1>3. PlanBears(p)'
  <2>1. plan'[p].rec = c /\ plan'[p].kind = k /\ plan'[p].disp = d
    BY <1>1, <1>2
  <2> QED BY <1>2, <2>1 DEF PlanBears, Charges, Handling
<1>4. p \in Workers => WorkerBears(p)'
  <2>1. p \in Workers => WorkerBears(p) /\ plan'[p].rec = snap[p]
    BY <1>1, <1>2 DEF Bearings
  <2> QED BY <1>2, <2>1 DEF WorkerBears
<1>5. p = Reaper => ReaperBears'
  BY <1>2 DEF ReaperBears, Handling
<1> QED BY <1>2, <1>3, <1>4, <1>5, BearOn

\* A process goes on with its plan.
LEMMA BearHandle ==
    ASSUME ProcTypes, Bearings, NEW p \in Procs, NEW step \in Handling, Go(p, step),
           pc[p] \in Handling, plan[p].kind = "cancel" => step # "publish",
           decided \subseteq decided', claims' = claims
    PROVE  ProcTypes' /\ Bearings'
<1>1. ProcTypes' /\ Others(p) /\ pc'[p] = step /\ UNCHANGED <<lock, snap, status, plan>>
  BY StepsAre, GoIs
<1>2. PlanBears(p)'
  BY <1>1 DEF PlanBears, Bearings
<1>3. p \in Workers => WorkerBears(p)'
  <2>1. pc[p] \notin {"idle", "renamed", "committed"} /\ step \notin {"idle", "renamed", "committed", "cancel"}
    BY DEF Handling
  <2> QED BY <1>1, <2>1 DEF WorkerBears, Bearings
<1>4. p = Reaper => ReaperBears'
  BY <1>1, StepsAre DEF ReaperBears, Bearings
<1> QED BY <1>1, <1>2, <1>3, <1>4, BearOn

-----------------------------------------------------------------------------
(* The actions, seen from the processes.                                   *)

\* The archive holds back one attempt for a requeue, and files "withdrawn" for
\* decided generations only; the visible marker has its decision on file.
Filings ==
    /\ \A g \in Gens, n \in Attempts :
         /\ archive[<<g, n>>] = "requeued" => n < MaxAttempts
         /\ archive[<<g, n>>] = "withdrawn" => g \in decided
    /\ marker # 0 => marker \in decided

LEMMA CoveredIs == ASSUME Filings, NEW rec PROVE Covered(rec) <=> rec.gen \in decided
BY DEF Filings, Covered

LEMMA TypesAre == ASSUME TypeOK PROVE ProcTypes
BY DEF TypeOK, ProcTypes, PlanRecs

\* A worker's claim, taken apart.
LEMMA SnapParts ==
    ASSUME ProcTypes, Bearings, NEW w \in Workers, pc[w] # "idle"
    PROVE  /\ snap[w] \in Claims /\ snap[w] # NoClaim /\ snap[w].gen \in Gens /\ snap[w].att \in Charged
           /\ snap[w].att + 1 \in Attempts
BY ClaimParts, Numbers DEF ProcTypes, Bearings, WorkerBears

LEMMA MindClaiming ==
    ASSUME TypeOK, Filings, PassInv, Bearings, NEW w \in Workers, Claiming(w)
    PROVE  ProcTypes' /\ Bearings'
<1> SUFFICES ASSUME w \in Procs, w # Nobody, w # Reaper, ProcTypes, WorkerBears(w), HostOf[w] \in Hosts
             PROVE  ProcTypes' /\ Bearings'
  BY Named, WorkersAre, TypesAre, HostsAre DEF Bearings
<1>1. CASE DropWithdrawnReady(w)
  BY <1>1, BearAside DEF DropWithdrawnReady, withdrawals, counts
<1>2. CASE ClaimRename(w)
  <2> DEFINE c == Raw(ready, HostOf[w])
  <2> SUFFICES ASSUME /\ pc' = At(w, "renamed") /\ snap' = [snap EXCEPT ![w] = c] /\ lock' = w /\ lock = Nobody
                      /\ UNCHANGED <<status, plan, claims, decided>> /\ claims < MaxClaims /\ pc[w] = "idle"
               PROVE  ProcTypes' /\ Bearings'
    BY <1>2 DEF ClaimRename, Unlocked, counts, withdrawals
  <2>1. c \in Claims /\ c # NoClaim
    BY <1>2, RowParts, RawMade DEF ClaimRename, TypeOK
  <2> HIDE DEF c
  <2>2. ProcTypes' /\ Others(w) /\ pc'[w] = "renamed" /\ snap'[w] = c
    BY <2>1 DEF ProcTypes, Others, At, Steps
  <2>3. WorkerBears(w)' /\ PlanBears(w)'
    BY <2>1, <2>2 DEF WorkerBears, PlanBears, Handling
  <2> QED BY <2>2, <2>3, BearOn
<1>3. CASE ClaimCommit(w)
  <2>1. Go(w, "committed") /\ pc[w] = "renamed" /\ decided' = decided
    BY <1>3 DEF ClaimCommit, withdrawals
  <2>2. ProcTypes' /\ Others(w) /\ pc'[w] = "committed" /\ UNCHANGED <<lock, snap, status, plan>>
    BY <2>1, GoIs DEF Steps
  <2>3. \A v \in Workers \ {w} : pc[v] # "renamed"
    BY <2>1 DEF PassInv, ClaimPass
  <2>4. WorkerBears(w)' /\ PlanBears(w)'
    BY <2>1, <2>2 DEF WorkerBears, PlanBears, Handling
  <2> QED BY <2>1, <2>2, <2>3, <2>4, BearOn
<1>4. CASE ClaimRefused(w)
  BY <1>4, BearRest DEF ClaimRefused, withdrawals
<1>5. CASE ClaimPersist(w)
  <2>1. decided' = decided /\ claims' = claims /\ pc[w] = "committed"
    BY <1>5 DEF ClaimPersist, withdrawals, counts
  <2>2. CASE Rest(w)
    BY <2>1, <2>2, BearRest
  <2>3. CASE ~ Rest(w)
    <3> DEFINE c == ClaimRec(snap[w].gen, snap[w].att, claims, w, HostOf[w])
    <3> SUFFICES ASSUME snap' = [snap EXCEPT ![w] = c] /\ pc' = At(w, "persisted") /\ UNCHANGED <<lock, status, plan>>
                 PROVE  ProcTypes' /\ Bearings'
      BY <1>5, <2>3 DEF ClaimPersist
    <3>1. c \in Claims /\ c # NoClaim /\ c.gen = snap[w].gen /\ c.by = w /\ c.host = HostOf[w]
      <4>1. /\ snap[w].gen \in Gens /\ snap[w].att \in Charged /\ claims \in 0..MaxClaims
            /\ w \in Workers \union {Nobody}
        BY <2>1, SnapParts DEF TypeOK
      <4> QED BY <4>1, ClaimMade, SMT
    <3> HIDE DEF c
    <3>2. ProcTypes' /\ Others(w) /\ pc'[w] = "persisted" /\ snap'[w] = c
      BY <3>1 DEF ProcTypes, Others, At, Steps
    <3>3. WorkerBears(w)' /\ PlanBears(w)'
      <4>1. PlanBears(w)'
        BY <3>2 DEF PlanBears, Handling
      <4>2. status'[w] = "withdrawn" => snap'[w].gen \in decided'
        <5>1. status[w] = "withdrawn" => c.gen \in decided
          BY <3>1 DEF WorkerBears
        <5> QED BY <2>1, <3>2, <5>1, SMT
      <4> QED BY <3>1, <3>2, <4>1, <4>2 DEF WorkerBears, Handling
    <3> QED BY <2>1, <3>2, <3>3, BearOn
  <2> QED BY <2>2, <2>3
<1>6. CASE ClaimLease(w)
  <2>1. /\ pc' = At(w, "leased") /\ lock' = Nobody /\ UNCHANGED <<snap, status, plan, decided, claims>> /\ pc[w] = "persisted"
    BY <1>6 DEF ClaimLease, withdrawals, counts
  <2>2. ProcTypes' /\ Others(w) /\ pc'[w] = "leased"
    BY <2>1 DEF ProcTypes, Others, At, Steps
  <2>3. lock = w
    BY <2>1 DEF PassInv, ClaimPass
  <2> QED BY <2>1, <2>2, <2>3, BearGo DEF Steps, Handling
<1>7. CASE ClaimUnwound(w)
  BY <1>7, BearRest DEF ClaimUnwound, withdrawals
<1> QED BY <1>1, <1>2, <1>3, <1>4, <1>5, <1>6, <1>7 DEF Claiming

LEMMA MindRunning ==
    ASSUME TypeOK, Filings, PassInv, Bearings, NEW w \in Workers, Running(w)
    PROVE  ProcTypes' /\ Bearings'
<1> SUFFICES ASSUME w \in Procs, w # Reaper, ProcTypes, WorkerBears(w)
             PROVE  ProcTypes' /\ Bearings'
  BY WorkersAre, TypesAre DEF Bearings
<1>1. CASE Launch(w)
  <2>1. /\ pc[w] = "leased" /\ UNCHANGED <<lock, snap, plan, decided, claims>>
        /\ \/ /\ pc' = At(w, "read") /\ status' = [status EXCEPT ![w] = "withdrawn"]
              /\ snap[w].gen \in decided
           \/ pc' = At(w, "running") /\ status' = status
    BY <1>1, CoveredIs DEF Launch, withdrawals
  <2>2. ProcTypes' /\ Others(w) /\ pc'[w] \in {"read", "running"}
    BY <2>1 DEF ProcTypes, Others, At, Steps
  <2> QED BY <2>1, <2>2, BearGo DEF Steps, Handling
<1>2. CASE DeferLaunch(w)
  <2>1. /\ pc[w] = "leased" /\ UNCHANGED <<decided, claims>>
        /\ Rest(w) \/ Commit(w, Plan("defer", snap[w], "requeued"), lock)
    BY <1>2 DEF DeferLaunch, withdrawals
  <2>2. CASE Rest(w)
    BY <2>1, <2>2, BearRest
  <2>3. CASE Commit(w, Plan("defer", snap[w], "requeued"), lock)
    <3>1. /\ snap[w] \in Claims /\ snap[w] # NoClaim /\ lock \in Procs \union {Nobody}
          /\ "defer" \in Kinds \ {"none"} /\ "requeued" \in Dispositions
      BY <2>1, SnapParts DEF ProcTypes, Kinds, Dispositions
    <3> QED BY <2>1, <2>3, <3>1, BearCommit
  <2> QED BY <2>1, <2>2, <2>3
<1>3. CASE Heartbeat(w)
  <2>1. /\ pc[w] = "running" /\ UNCHANGED <<lock, snap, plan, decided, claims>>
        /\ \/ pc' = At(w, "read") /\ status' = [status EXCEPT ![w] = "failed"]
           \/ UNCHANGED <<pc, status>>
    BY <1>3 DEF Heartbeat, withdrawals, counts
  <2>2. CASE UNCHANGED <<pc, status>>
    BY <2>1, <2>2, BearAside DEF procs
  <2>3. CASE pc' = At(w, "read") /\ status' = [status EXCEPT ![w] = "failed"]
    <3>1. ProcTypes' /\ Others(w) /\ pc'[w] = "read" /\ status'[w] = "failed"
      BY <2>1, <2>3 DEF ProcTypes, Others, At, Steps
    <3> QED BY <2>1, <3>1, BearGo DEF Steps, Handling
  <2> QED BY <2>1, <2>2, <2>3
<1>4. ASSUME NEW result \in {"executed", "failed", "withdrawn"}, RunEnds(w, result)
      PROVE  ProcTypes' /\ Bearings'
  <2>1. /\ pc[w] = "running" /\ UNCHANGED <<lock, snap, plan, decided, claims>>
        /\ pc' = At(w, "read") /\ status' = [status EXCEPT ![w] = result]
        /\ result = "withdrawn" => snap[w].gen \in decided
    BY <1>4, CoveredIs DEF RunEnds, withdrawals, counts
  <2>2. ProcTypes' /\ Others(w) /\ pc'[w] = "read" /\ status'[w] = result
    BY <2>1 DEF ProcTypes, Others, At, Steps
  <2> QED BY <2>1, <2>2, BearGo DEF Steps, Handling
<1> QED BY <1>1, <1>2, <1>3, <1>4 DEF Running

\* The disposition a conclusion adopts is the archive's: it charges an attempt
\* and asks for another only while one is left.
LEMMA Adopted ==
    ASSUME TypeOK, Filings, NEW g \in Gens, NEW a \in Charged, g \notin decided,
           NEW r, r # "withdrawn", NEW b, NEW d,
           d = Archived(g, a + 1, Disposition(g, r, a + 1, b))[<<g, a + 1>>]
    PROVE  d \in Dispositions /\ (d \notin {"done", "failed"} => a + 1 < MaxAttempts)
<1> DEFINE e == Disposition(g, r, a + 1, b)
<1>1. a + 1 \in Attempts /\ a + 1 \in Nat
  BY Numbers
<1>2. e \in Dispositions /\ (e = "requeued" => a + 1 < MaxAttempts) /\ e # "withdrawn"
  BY <1>1, DispositionIs
<1>3. archive \in [Gens \X Attempts -> Dispositions \union {"none"}]
  BY DEF TypeOK
<1> HIDE DEF e
<1>4. d \in Dispositions /\ d \in {archive[<<g, a + 1>>], e}
  BY <1>1, <1>2, <1>3, ArchivedIs DEF e
<1>5. d = "requeued" => a + 1 < MaxAttempts
  BY <1>1, <1>2, <1>4 DEF Filings
<1>6. d # "withdrawn"
  BY <1>1, <1>2, <1>4 DEF Filings
<1> QED BY <1>4, <1>5, <1>6 DEF Dispositions

LEMMA MindFinishing ==
    ASSUME TypeOK, Filings, PassInv, Bearings, NEW w \in Workers, Finishing(w)
    PROVE  ProcTypes' /\ Bearings'
<1> SUFFICES ASSUME w \in Procs, w # Reaper, ProcTypes, WorkerBears(w), UNCHANGED <<decided, claims>>
             PROVE  ProcTypes' /\ Bearings'
  BY WorkersAre, TypesAre DEF Bearings, Finishing, FinishReadsClaim, FinishReadsReady, LostRelease,
     LostLease, LostCheck, LostFile, FinishArchives, FinishCancels, withdrawals, counts
<1>1. ASSUME NEW step \in {"readReady", "judged", "lostRelease", "lostLease", "lostCheck", "lostFile", "cancel"},
             Go(w, step), pc[w] \notin {"idle", "renamed", "committed"},
             step = "cancel" => snap[w].gen \in decided
      PROVE  ProcTypes' /\ Bearings'
  <2>1. step \in Steps /\ step \notin Handling \union {"idle", "renamed", "giveBack"}
    BY <1>1 DEF Steps, Handling
  <2>2. ProcTypes' /\ Others(w) /\ pc'[w] = step /\ UNCHANGED <<lock, snap, status, plan>>
    BY <1>1, <2>1, GoIs
  <2> QED BY <1>1, <2>1, <2>2, BearGo
<1>2. ASSUME Rest(w) PROVE ProcTypes' /\ Bearings'
  BY <1>2, BearRest
<1>3. CASE FinishReadsClaim(w)
  BY <1>1, <1>2, <1>3 DEF FinishReadsClaim
<1>4. CASE FinishReadsReady(w)
  BY <1>1, <1>2, <1>4 DEF FinishReadsReady
<1>5. CASE LostRelease(w) \/ LostLease(w) \/ LostCheck(w) \/ LostFile(w)
  BY <1>1, <1>2, <1>5 DEF LostRelease, LostLease, LostCheck, LostFile
<1>6. CASE FinishArchives(w)
  <2> DEFINE d == Archived(snap[w].gen, snap[w].att + 1,
                           Disposition(snap[w].gen, status[w], snap[w].att + 1, TRUE))[<<snap[w].gen, snap[w].att + 1>>]
  <2>1. /\ pc[w] = "judged"
        /\ \/ Covered(snap[w]) /\ Go(w, "cancel")
           \/ ~ Covered(snap[w]) /\ Commit(w, Plan("finish", snap[w], d), lock)
    BY <1>6 DEF FinishArchives
  <2>2. CASE Covered(snap[w]) /\ Go(w, "cancel")
    BY <1>1, <2>1, <2>2, CoveredIs
  <2>3. CASE ~ Covered(snap[w]) /\ Commit(w, Plan("finish", snap[w], d), lock)
    <3>1. /\ snap[w] \in Claims /\ snap[w] # NoClaim /\ lock \in Procs \union {Nobody}
          /\ "finish" \in Kinds \ {"none"} /\ snap[w].gen \in Gens /\ snap[w].att \in Charged
      BY <2>1, SnapParts DEF ProcTypes, Kinds
    <3>2. status[w] # "withdrawn" /\ snap[w].gen \notin decided
      BY <2>3, CoveredIs DEF WorkerBears
    <3>3. d \in Dispositions /\ (d \notin {"done", "failed"} => snap[w].att + 1 < MaxAttempts)
      BY <3>1, <3>2, Adopted
    <3> HIDE DEF d
    <3> QED BY <2>1, <2>3, <3>1, <3>3, BearCommit
  <2> QED BY <2>1, <2>2, <2>3
<1>7. CASE FinishCancels(w)
  <2>1. /\ pc[w] = "cancel" /\ lock = Nobody
        /\ Rest(w) \/ Commit(w, Plan("cancel", snap[w], "withdrawn"), w)
    BY <1>7 DEF FinishCancels, Unlocked
  <2>2. CASE Commit(w, Plan("cancel", snap[w], "withdrawn"), w)
    <3>1. /\ snap[w] \in Claims /\ snap[w] # NoClaim /\ w \in Procs \union {Nobody}
          /\ "cancel" \in Kinds \ {"none"} /\ "withdrawn" \in Dispositions /\ snap[w].gen \in decided
      BY <2>1, SnapParts DEF ProcTypes, Kinds, Dispositions, WorkerBears
    <3> QED BY <2>1, <2>2, <3>1, BearCommit
  <2> QED BY <1>2, <2>1, <2>2
<1> QED BY <1>3, <1>4, <1>5, <1>6, <1>7 DEF Finishing

LEMMA MindCommitting ==
    ASSUME TypeOK, Bearings, NEW p \in Procs, Committing(p) \/ Crash(p)
    PROVE  ProcTypes' /\ Bearings'
<1> SUFFICES ASSUME ProcTypes, PlanBears(p), UNCHANGED <<decided, claims>>
             PROVE  ProcTypes' /\ Bearings'
  BY TypesAre DEF Bearings, Committing, Entomb, GiveBack, Unlease, ReleaseReservation, PublishTail,
     PublishCut, PublishFails, Crash, withdrawals, counts
<1>1. CASE Rest(p)
  BY <1>1, BearRest
<1>2. CASE pc[p] = "entomb" /\ Go(p, "unlease")
  BY <1>2, BearHandle DEF Handling
<1>3. CASE Unlease(p)
  BY <1>3, BearHandle DEF Unlease, Handling
<1>4. CASE ReleaseReservation(p) /\ ~ Rest(p)
  BY <1>4, BearHandle DEF ReleaseReservation, Handling
<1>5. CASE Entomb(p) /\ ~ Rest(p) /\ ~ Go(p, "unlease")
  <2> DEFINE q == Plan("none", claim, "none")
  <2>1. /\ pc[p] = "entomb" /\ claim # NoClaim /\ pc' = At(p, "giveBack") /\ plan' = [plan EXCEPT ![p] = q]
        /\ UNCHANGED <<lock, snap, status>>
    BY <1>5 DEF Entomb
  <2>2. q \in PlanRecs /\ q.rec = claim
    BY PlanMade, SMT DEF TypeOK, Kinds
  <2> HIDE DEF q
  <2>3. ProcTypes' /\ Others(p) /\ pc'[p] = "giveBack" /\ plan'[p] = q
    BY <2>1, <2>2 DEF ProcTypes, Others, At, Steps
  <2>4. PlanBears(p)' /\ (p = Reaper => ReaperBears')
    BY <2>1, <2>2, <2>3, StepsAre DEF PlanBears, ReaperBears, Bearings
  <2>5. p \in Workers => WorkerBears(p)'
    BY <2>1, <2>3 DEF WorkerBears, Bearings, Handling
  <2> QED BY <2>1, <2>3, <2>4, <2>5, BearOn
<1> QED BY <1>1, <1>2, <1>3, <1>4, <1>5 DEF Committing, Entomb, GiveBack, ReleaseReservation, PublishTail,
   PublishCut, PublishFails, Crash

\* The claim as the reaper plans it.
LEMMA HolderIs == ASSUME NEW c, c.host \in Hosts PROVE HolderOf(c) \in Hosts
<1>1. CASE HeldHosts # {}
  <2>1. (CHOOSE h \in HeldHosts : TRUE) \in HeldHosts
    BY <1>1
  <2> QED BY <1>1, <2>1 DEF HolderOf, HeldHosts
<1>2. CASE HeldHosts = {}
  BY <1>2 DEF HolderOf
<1> QED BY <1>1, <1>2

LEMMA JudgedIs ==
    ASSUME TypeOK, claim # NoClaim
    PROVE  /\ Judged \in Claims /\ Judged # NoClaim /\ Judged.gen = claim.gen /\ Judged.att = claim.att
           /\ Judged.by = claim.by /\ Judged.cid = claim.cid /\ Judged.host = HolderOf(claim)
           /\ claim.gen \in Gens /\ claim.att \in Charged
<1>1. /\ claim.gen \in Gens /\ claim.att \in Charged /\ claim.cid \in 0..MaxClaims
      /\ claim.by \in Workers \union {Nobody} /\ claim.host \in Hosts
  BY ClaimParts DEF TypeOK
<1>2. HolderOf(claim) \in Hosts
  BY <1>1, HolderIs
<1>3. claim.gen # 0
  BY <1>1, Numbers
<1> QED BY <1>1, <1>2, <1>3, SMT DEF Judged, ClaimRec, Claims, NoClaim

LEMMA MindReaping ==
    ASSUME TypeOK, Filings, Bearings, Reaping PROVE ProcTypes' /\ Bearings'
<1> SUFFICES ASSUME ProcTypes, Reaper \in Procs, Reaper \notin Workers, UNCHANGED <<decided, claims>>
             PROVE  ProcTypes' /\ Bearings'
  BY TypesAre, QueueAssumption DEF Procs, Reaping, ReapTerminal, ReapWithdrawn, ReapUnstarted, ReapExpired,
     SweepWidowedLease, RestoreTomb, RetireTomb, withdrawals, counts
<1>1. CASE UNCHANGED procs
  BY <1>1, BearAside
<1>2. ASSUME NEW k \in {"cancel", "unstarted", "expire"}, NEW d \in Dispositions, ReapableClaim,
             Commit(Reaper, Plan(k, Judged, d), Reaper), k = "cancel" => claim.gen \in decided,
             k = "expire" /\ d \notin {"done", "failed"} => claim.att + 1 < MaxAttempts
      PROVE  ProcTypes' /\ Bearings'
  <2>1. lock = Nobody /\ claim # NoClaim /\ k \in Kinds \ {"none"} /\ k # "finish"
    BY <1>2 DEF ReapableClaim, Unlocked, Kinds
  <2>2. Judged \in Claims /\ Judged # NoClaim /\ Judged.gen = claim.gen /\ Judged.att = claim.att
    BY <2>1, JudgedIs
  <2> HIDE DEF Judged
  <2> QED BY <1>2, <2>1, <2>2, BearCommit
<1>3. CASE ReapWithdrawn
  BY <1>2, <1>3, CoveredIs DEF ReapWithdrawn, Dispositions
<1>4. CASE ReapUnstarted
  BY <1>2, <1>4 DEF ReapUnstarted, Dispositions
<1>5. CASE ReapExpired
  <2> DEFINE d == Archived(claim.gen, claim.att + 1,
                           Disposition(claim.gen, "lease_lost", claim.att + 1, FALSE))[<<claim.gen, claim.att + 1>>]
  <2>1. ReapableClaim /\ ~ Covered(claim) /\ Commit(Reaper, Plan("expire", Judged, d), Reaper)
    BY <1>5 DEF ReapExpired
  <2>2. claim.gen \in Gens /\ claim.att \in Charged /\ claim.gen \notin decided
    BY <2>1, JudgedIs, CoveredIs DEF ReapableClaim
  <2>3. d \in Dispositions /\ (d \notin {"done", "failed"} => claim.att + 1 < MaxAttempts)
    BY <2>2, Adopted
  <2> HIDE DEF d
  <2> QED BY <1>2, <2>1, <2>3
<1> QED BY <1>1, <1>3, <1>4, <1>5 DEF Reaping, ReapTerminal, SweepWidowedLease, RestoreTomb, RetireTomb

-----------------------------------------------------------------------------
(* The actions, seen from the files.                                       *)

RowTypes ==
    /\ ready \in Rows /\ claim \in Claims /\ lease \in Claims
    /\ tombs \subseteq [rec : Claims, who : Procs] /\ \A t \in tombs : t.rec # NoClaim
    /\ held \in [Hosts -> SUBSET (1..MaxClaims)]

EndTypes ==
    /\ done \in 0..MaxGens /\ failed \in 0..MaxGens
    /\ supers \subseteq Gens /\ retired \subseteq Gens /\ replaced \subseteq Gens
    /\ marker \in 0..MaxGens /\ decided \subseteq Gens

ArchiveTypes == archive \in [Gens \X Attempts -> Dispositions \union {"none"}]

\* A mark is a claim moved aside.
Marks == \A t \in tombs : t.rec # NoClaim

LEMMA FilesAre == ASSUME TypeOK, Marks PROVE RowTypes /\ EndTypes /\ ArchiveTypes
BY DEF TypeOK, Marks, RowTypes, EndTypes, ArchiveTypes

LEMMA ReleasedIs ==
    ASSUME held \in [Hosts -> SUBSET (1..MaxClaims)], NEW h
    PROVE  Released(h) \in [Hosts -> SUBSET (1..MaxClaims)]
BY DEF Released

LEMMA LinkIs ==
    ASSUME ready \in Rows, NEW c \in Claims, LinkReady(c) PROVE ready' \in Rows /\ claim' \in Claims
<1>1. c # NoClaim => Row(c.gen, c.att) \in Rows
  BY ClaimParts, RowMade
<1> QED BY <1>1, NoneIs DEF LinkReady

\* A process's plan, taken apart.
LEMMA PlanOf ==
    ASSUME ProcTypes, Bearings, NEW p \in Procs, pc[p] \in Handling \union {"giveBack"}
    PROVE  /\ plan[p] \in PlanRecs /\ plan[p].rec \in Claims /\ plan[p].rec # NoClaim
           /\ plan[p].rec.gen \in Gens /\ plan[p].rec.att \in Charged /\ plan[p].rec.gen # 0
BY PlanParts, ClaimParts, Numbers DEF ProcTypes, Bearings, PlanBears

LEMMA RowsClaiming ==
    ASSUME TypeOK, Marks, ProcTypes, Bearings, NEW w \in Workers, Claiming(w)
    PROVE  RowTypes' /\ UNCHANGED <<endings, withdrawals>>
<1> SUFFICES ASSUME RowTypes, HostOf[w] \in Hosts PROVE RowTypes'
  BY FilesAre, HostsAre DEF Claiming, DropWithdrawnReady, ClaimRename, ClaimCommit, ClaimRefused,
     ClaimPersist, ClaimLease, ClaimUnwound
<1>1. CASE DropWithdrawnReady(w)
  BY <1>1, NoneIs DEF DropWithdrawnReady, RowTypes
<1>2. CASE ClaimRename(w)
  <2>1. Raw(ready, HostOf[w]) \in Claims
    BY <1>2, RowParts, RawMade DEF ClaimRename, RowTypes
  <2> QED BY <1>2, <2>1, NoneIs DEF ClaimRename, RowTypes
<1>3. CASE ClaimCommit(w)
  <2>1. claims < MaxClaims /\ claims \in Nat
    BY <1>3, SMT DEF ClaimCommit, Bearings, WorkerBears, TypeOK
  <2>2. claims + 1 \in 1..MaxClaims
    BY <2>1, QueueAssumption, SMT
  <2>3. held' \in [Hosts -> SUBSET (1..MaxClaims)]
    BY <1>3, <2>2 DEF ClaimCommit, RowTypes
  <2> QED BY <1>3, <2>3 DEF ClaimCommit, RowTypes
<1>4. CASE ClaimRefused(w)
  <2>1. ready' \in Rows /\ claim' \in Claims /\ UNCHANGED <<tombs, lease>> /\ (held' = held \/ held' = Released(HostOf[w]))
    BY <1>4, LinkIs DEF ClaimRefused, RowTypes
  <2> QED BY <2>1, ReleasedIs DEF RowTypes
<1>5. CASE ClaimPersist(w)
  <2>1. /\ snap[w].gen \in Gens /\ snap[w].att \in Charged /\ claims \in 0..MaxClaims
        /\ w \in Workers \union {Nobody}
    BY <1>5, SnapParts DEF TypeOK, ClaimPersist
  <2>2. ClaimRec(snap[w].gen, snap[w].att, claims, w, HostOf[w]) \in Claims
    BY <2>1, ClaimMade, SMT
  <2>3. claim' \in Claims /\ UNCHANGED <<ready, tombs, lease>> /\ (held' = held \/ held' = Released(HostOf[w]))
    BY <1>5, <2>2, NoneIs DEF ClaimPersist
  <2> QED BY <2>3, ReleasedIs DEF RowTypes
<1>6. CASE ClaimLease(w)
  BY <1>6 DEF ClaimLease, RowTypes
<1>7. CASE ClaimUnwound(w)
  <2>1. Raw(snap[w], HostOf[w]) \in Claims
    BY <1>7, SnapParts, RawMade DEF ClaimUnwound
  <2>2. ready' \in Rows /\ claim' \in Claims
    BY <1>7, <2>1, LinkIs DEF ClaimUnwound, RowTypes
  <2>3. lease' = NoClaim /\ tombs' = tombs /\ held' = Released(HostOf[w])
    BY <1>7 DEF ClaimUnwound
  <2> QED BY <2>2, <2>3, ReleasedIs, NoneIs DEF RowTypes
<1> QED BY <1>1, <1>2, <1>3, <1>4, <1>5, <1>6, <1>7 DEF Claiming

LEMMA RowsRunning ==
    ASSUME TypeOK, Marks, NEW w \in Workers, Running(w)
    PROVE  RowTypes' /\ UNCHANGED <<endings, withdrawals, ready, claim, tombs, held>>
<1>1. /\ UNCHANGED <<endings, withdrawals, ready, claim, tombs, held>>
      /\ lease' = lease \/ lease' = claim
  BY DEF Running, Launch, DeferLaunch, Heartbeat, RunEnds, rows
<1> QED BY <1>1, FilesAre DEF RowTypes

\* The archive after a step that files one attempt.
LEMMA FilesOn ==
    ASSUME ArchiveTypes, Filings, decided \subseteq decided', marker' = marker, NEW g \in Gens, NEW a \in Charged, NEW r, NEW b,
           archive' = Archived(g, a + 1, Disposition(g, r, a + 1, b)), r = "withdrawn" => g \in decided
    PROVE  ArchiveTypes' /\ Filings'
<1> DEFINE n == a + 1
           d == Disposition(g, r, n, b)
<1>1. n \in Attempts /\ n \in Nat
  BY Numbers
<1>2. d \in Dispositions /\ (d = "requeued" => n < MaxAttempts) /\ (d = "withdrawn" => g \in decided)
  BY <1>1, DispositionIs
<1>3. archive' = Archived(g, n, d)
  OBVIOUS
<1> HIDE DEF n, d
<1>4. archive' \in [Gens \X Attempts -> Dispositions \union {"none"}]
  <2>1. Archived(g, n, d) \in [Gens \X Attempts -> Dispositions \union {"none"}]
    BY <1>1, <1>2, ArchivedIs DEF ArchiveTypes
  <2> QED BY <1>3, <2>1
<1>5. \A h \in Gens, m \in Attempts :
        archive'[<<h, m>>] = archive[<<h, m>>] \/ (h = g /\ m = n /\ archive'[<<h, m>>] = d)
  <2> TAKE h \in Gens, m \in Attempts
  <2>1. Archived(g, n, d)[<<h, m>>] = archive[<<h, m>>] \/ (h = g /\ m = n /\ Archived(g, n, d)[<<h, m>>] = d)
    BY <1>1, <1>2, ArchivedElse, SMT DEF ArchiveTypes
  <2> QED BY <1>3, <2>1
<1> QED BY <1>2, <1>4, <1>5 DEF ArchiveTypes, Filings

LEMMA FilesStay ==
    ASSUME ArchiveTypes, Filings, archive' = archive, decided \subseteq decided', marker' = marker \/ marker' \in decided' \union {0}
    PROVE  ArchiveTypes' /\ Filings'
BY DEF ArchiveTypes, Filings

\* A result that comes late goes under its own attempt, or nowhere.
LEMMA LateIs ==
    ASSUME NEW w, NEW live
    PROVE  \/ LateArchive(w, live) = archive
           \/ LateArchive(w, live) = Archived(snap[w].gen, snap[w].att + 1,
                                       Disposition(snap[w].gen, status[w], snap[w].att + 1, FALSE))
BY DEF LateArchive

LEMMA RowsFinishing ==
    ASSUME TypeOK, Marks, ProcTypes, Filings, Bearings, NEW w \in Workers, Finishing(w)
    PROVE  RowTypes' /\ EndTypes' /\ ArchiveTypes' /\ Filings'
<1> DEFINE Late(r, b) == archive' = Archived(snap[w].gen, snap[w].att + 1,
                                       Disposition(snap[w].gen, r, snap[w].att + 1, b))
<1>1. /\ pc[w] # "idle"
      /\ UNCHANGED <<ready, claim, tombs, supers, retired, replaced, withdrawals>>
      /\ held' = held \/ held' = Released(HostOf[w])
      /\ lease' = lease \/ lease' = NoClaim
      /\ done' = done \/ done' = snap[w].gen
      /\ failed' = failed \/ failed' = snap[w].gen
  BY DEF Finishing, FinishReadsClaim, FinishReadsReady, LostRelease, LostLease, LostCheck, LostFile,
     FinishArchives, FinishCancels, rows, endings
<1>2. RowTypes' /\ EndTypes'
  <2>1. RowTypes'
    BY <1>1, FilesAre, ReleasedIs, NoneIs DEF RowTypes
  <2>2. snap[w].gen \in 0..MaxGens
    BY <1>1, SnapParts, Numbers
  <2> QED BY <1>1, <2>1, <2>2, FilesAre DEF EndTypes, withdrawals
<1>3. \/ archive' = archive \/ Late(status[w], FALSE) \/ Late(status[w], TRUE)
      \/ pc[w] = "cancel" /\ archive' = Archived(snap[w].gen, snap[w].att + 1, "withdrawn")
  <2>1. CASE FinishReadsClaim(w) \/ FinishReadsReady(w)
    BY <2>1, LateIs DEF FinishReadsClaim, FinishReadsReady
  <2>2. CASE FinishArchives(w) \/ FinishCancels(w)
    BY <2>2 DEF FinishArchives, FinishCancels
  <2>3. CASE LostRelease(w) \/ LostLease(w) \/ LostCheck(w) \/ LostFile(w)
    BY <2>3 DEF LostRelease, LostLease, LostCheck, LostFile, endings
  <2> QED BY <2>1, <2>2, <2>3 DEF Finishing
<1>4. pc[w] = "cancel" /\ archive' = Archived(snap[w].gen, snap[w].att + 1, "withdrawn")
      => Late("withdrawn", FALSE) /\ snap[w].gen \in decided
  BY DEF Disposition, Bearings, WorkerBears
<1>5. status[w] = "withdrawn" => snap[w].gen \in decided
  BY DEF Bearings, WorkerBears
<1>6. \/ archive' = archive
      \/ \E r, b : Late(r, b) /\ (r = "withdrawn" => snap[w].gen \in decided)
  BY <1>3, <1>4, <1>5
<1>7. ArchiveTypes' /\ Filings'
  <2>1. UNCHANGED <<marker, decided>> /\ ArchiveTypes /\ snap[w].gen \in Gens /\ snap[w].att \in Charged
    BY <1>1, FilesAre, SnapParts DEF withdrawals
  <2>2. CASE archive' = archive
    BY <2>1, <2>2, FilesStay
  <2>3. ASSUME NEW r, NEW b, Late(r, b), r = "withdrawn" => snap[w].gen \in decided PROVE ArchiveTypes' /\ Filings'
    BY <2>1, <2>3, FilesOn
  <2> QED BY <1>6, <2>2, <2>3
<1> QED BY <1>2, <1>7

\* A publication files a terminal of the plan's generation, or a row with an
\* attempt left.
LEMMA DestinationIs ==
    ASSUME TypeOK, ProcTypes, Bearings, NEW p \in Procs, pc[p] = "publish", NEW b, PublishDestination(p, b)
    PROVE  /\ ready' \in Rows /\ done' \in 0..MaxGens /\ failed' \in 0..MaxGens
           /\ supers' \subseteq Gens /\ retired' \subseteq Gens
<1>1. /\ plan[p] \in PlanRecs /\ plan[p].rec.gen \in Gens /\ plan[p].rec.att \in Charged
      /\ PlanBears(p) /\ plan[p].kind \in Kinds
  BY PlanOf, PlanParts DEF Handling, Bearings
<1>2. CASE plan[p].disp \in {"done", "failed"}
  <2>1. /\ UNCHANGED <<ready, supers>>
        /\ done' \in {plan[p].rec.gen, done, 0} /\ failed' \in {plan[p].rec.gen, failed, 0}
        /\ retired' \subseteq retired \union ({done, failed} \ {0})
    BY <1>2 DEF PublishDestination, FileTerminal
  <2>2. /\ plan[p].rec.gen \in 0..MaxGens /\ 0 \in 0..MaxGens /\ {done, failed} \ {0} \subseteq Gens
    BY <1>1, Numbers DEF TypeOK
  <2> QED BY <2>1, <2>2 DEF TypeOK
<1>3. CASE plan[p].disp \notin {"done", "failed"}
  <2>1. NextAttempt(p) \in Charged
    <3>1. CASE plan[p].kind \in {"defer", "unstarted"}
      BY <1>1, <3>1 DEF NextAttempt
    <3>2. CASE plan[p].kind \notin {"defer", "unstarted"}
      <4>1. Charges(plan[p])
        BY <1>1, <1>3, <3>2 DEF PlanBears, Charges, Kinds, Handling
      <4> QED BY <1>1, <3>2, <4>1, Numbers DEF NextAttempt, PlanBears, Handling
    <3> QED BY <3>1, <3>2
  <2>2. Row(plan[p].rec.gen, NextAttempt(p)) \in Rows
    BY <1>1, <2>1, RowMade
  <2>3. /\ ready' \in {ready, Row(plan[p].rec.gen, NextAttempt(p))}
        /\ supers' \in {supers, supers \union {plan[p].rec.gen}} /\ UNCHANGED <<done, failed, retired>>
    BY <1>3 DEF PublishDestination, Requeue
  <2> QED BY <1>1, <2>2, <2>3 DEF TypeOK
<1> QED BY <1>2, <1>3

LEMMA RowsCommitting ==
    ASSUME TypeOK, Marks, ProcTypes, Bearings, NEW p \in Procs, Committing(p) \/ Crash(p)
    PROVE  RowTypes' /\ EndTypes' /\ UNCHANGED <<archive, marker, decided>>
<1> SUFFICES ASSUME RowTypes, EndTypes, UNCHANGED <<archive, marker, decided, replaced>> PROVE RowTypes' /\ EndTypes'
  BY FilesAre DEF Committing, Entomb, GiveBack, Unlease, ReleaseReservation, PublishTail,
     PublishCut, PublishFails, Crash, withdrawals, endings
<1>1. CASE Entomb(p)
  <2>1. /\ claim' \in {claim, NoClaim} /\ tombs' \in {tombs, tombs \union {Tomb(claim, p)}}
        /\ UNCHANGED <<ready, lease, held, endings>> /\ (claim = NoClaim => tombs' = tombs)
    BY <1>1 DEF Entomb
  <2>2. Tomb(claim, p) \in [rec : Claims, who : Procs] /\ Tomb(claim, p).rec = claim
    BY TombMade DEF RowTypes
  <2> QED BY <2>1, <2>2, NoneIs DEF RowTypes, EndTypes, endings
<1>2. CASE GiveBack(p)
  <2>1. plan[p].rec \in Claims
    BY <1>2, PlanOf DEF GiveBack
  <2>2. claim' \in {claim, plan[p].rec} /\ tombs' \subseteq tombs /\ UNCHANGED <<ready, lease, held, endings>>
    BY <1>2 DEF GiveBack
  <2> QED BY <2>1, <2>2 DEF RowTypes, EndTypes, endings
<1>3. CASE Unlease(p) \/ Crash(p)
  <2>1. UNCHANGED <<ready, claim, tombs, held, endings>> /\ lease' \in {lease, NoClaim}
    BY <1>3 DEF Unlease, Crash, rows
  <2> QED BY <2>1, NoneIs DEF RowTypes, EndTypes, endings
<1>4. CASE ReleaseReservation(p)
  <2>1. UNCHANGED <<ready, claim, lease, endings>> /\ tombs' \subseteq tombs /\ held' = Released(plan[p].rec.host)
    BY <1>4 DEF ReleaseReservation
  <2> QED BY <2>1, ReleasedIs DEF RowTypes, EndTypes, endings
<1>5. CASE PublishTail(p) \/ PublishCut(p)
  <2>1. /\ pc[p] = "publish" /\ UNCHANGED <<claim, lease, held>> /\ tombs' \subseteq tombs
        /\ UNCHANGED <<ready, done, failed, supers, retired>> \/ \E b : PublishDestination(p, b)
    BY <1>5 DEF PublishTail, PublishCut
  <2>2. /\ ready' \in Rows /\ done' \in 0..MaxGens /\ failed' \in 0..MaxGens
        /\ supers' \subseteq Gens /\ retired' \subseteq Gens
    BY <2>1, DestinationIs DEF RowTypes, EndTypes
  <2> QED BY <2>1, <2>2 DEF RowTypes, EndTypes
<1>6. CASE PublishFails(p)
  <2>1. /\ UNCHANGED <<ready, lease, held, endings>> /\ tombs' \subseteq tombs
        /\ claim' = claim \/ \E t \in tombs : claim' = t.rec
    BY <1>6 DEF PublishFails, OwnTomb
  <2>2. claim' \in Claims
    BY <2>1, TombParts DEF RowTypes
  <2> QED BY <2>1, <2>2 DEF RowTypes, EndTypes, endings
<1> QED BY <1>1, <1>2, <1>3, <1>4, <1>5, <1>6 DEF Committing

LEMMA RowsReaping ==
    ASSUME TypeOK, Marks, Filings, Reaping
    PROVE  RowTypes' /\ EndTypes' /\ ArchiveTypes' /\ Filings'
<1> SUFFICES ASSUME RowTypes, EndTypes, ArchiveTypes, UNCHANGED <<marker, decided, ready, replaced>>
             PROVE  RowTypes' /\ EndTypes' /\ ArchiveTypes' /\ Filings'
  BY FilesAre DEF Reaping, ReapTerminal, ReapWithdrawn, ReapUnstarted, ReapExpired,
     SweepWidowedLease, RestoreTomb, RetireTomb, withdrawals, endings, rows
<1>1. CASE ReapExpired
  <2>1. claim # NoClaim /\ UNCHANGED <<rows, done, failed, supers, retired>>
    BY <1>1 DEF ReapExpired, ReapableClaim
  <2>2. archive' = Archived(claim.gen, claim.att + 1, Disposition(claim.gen, "lease_lost", claim.att + 1, FALSE))
    BY <1>1 DEF ReapExpired
  <2>3. ArchiveTypes' /\ Filings'
    <3>1. claim.gen \in Gens /\ claim.att \in Charged /\ decided \subseteq decided'
      BY <2>1, ClaimParts DEF RowTypes
    <3> QED BY <2>2, <3>1, FilesOn
  <2> QED BY <2>1, <2>3 DEF RowTypes, EndTypes, rows
<1>2. CASE ReapTerminal \/ SweepWidowedLease \/ ReapWithdrawn \/ ReapUnstarted
  <2>1. /\ claim' \in {claim, NoClaim} /\ lease' \in {lease, NoClaim} /\ UNCHANGED <<tombs, endings>>
        /\ held' = held \/ \E h : held' = Released(h)
    BY <1>2 DEF ReapTerminal, SweepWidowedLease, ReapWithdrawn, ReapUnstarted, rows
  <2>2. archive' = archive
    BY <2>1 DEF endings
  <2>3. RowTypes' /\ EndTypes'
    BY <2>1, ReleasedIs, NoneIs DEF RowTypes, EndTypes, endings
  <2> QED BY <2>2, <2>3, FilesStay
<1>3. ASSUME NEW t \in tombs, RestoreTomb(t) PROVE RowTypes' /\ EndTypes' /\ ArchiveTypes' /\ Filings'
  <2>1. claim' = t.rec /\ tombs' \subseteq tombs /\ UNCHANGED <<lease, held, endings>>
    BY <1>3 DEF RestoreTomb
  <2>2. t.rec \in Claims
    BY TombParts DEF RowTypes
  <2>3. RowTypes' /\ EndTypes' /\ archive' = archive
    BY <2>1, <2>2 DEF RowTypes, EndTypes, endings
  <2> QED BY <2>3, FilesStay
<1>4. ASSUME NEW t \in tombs, RetireTomb(t) PROVE RowTypes' /\ EndTypes' /\ ArchiveTypes' /\ Filings'
  <2>1. /\ claim' = claim /\ tombs' \subseteq tombs /\ lease' \in {lease, NoClaim}
        /\ held' \in {held, [h \in Hosts |-> {}]} /\ done' \in {done, 0} /\ failed' \in {failed, 0}
        /\ archive' = archive /\ retired' \subseteq retired \union ({done, failed} \ {0})
    BY <1>4 DEF RetireTomb
  <2>2. supers' = supers \/ (~ TombCovered(t.rec) /\ ready.gen > t.rec.gen /\ OnlyReadyLive /\ supers' = supers \union {t.rec.gen})
    BY <1>4 DEF RetireTomb
  <2>3. RowTypes'
    BY <2>1, NoneIs DEF RowTypes
  <2>4. {done, failed} \ {0} \subseteq Gens /\ 0 \in 0..MaxGens
    BY Numbers DEF EndTypes
  <2>5. supers' \subseteq Gens
    <3>1. t.rec \in Claims /\ t.rec # NoClaim
      BY TombParts DEF RowTypes
    <3>2. t.rec.gen \in Gens
      BY <3>1, ClaimParts
    <3> QED BY <2>2, <3>2 DEF EndTypes
  <2>6. EndTypes'
    BY <2>1, <2>4, <2>5 DEF EndTypes
  <2> QED BY <2>1, <2>3, <2>6, FilesStay
<1> QED BY <1>1, <1>2, <1>3, <1>4 DEF Reaping

-----------------------------------------------------------------------------
(* The counters.                                                           *)

\* n seats are enough for S: every member has one.
Seats(n, S) == \E f : \A x \in S : \E i \in 1..n : f[i] = x

LEMMA OneSeatMore == ASSUME NEW n \in Nat, NEW S, Seats(n, S), NEW x PROVE Seats(n + 1, S \union {x})
<1>1. PICK f : \A y \in S : \E i \in 1..n : f[i] = y
  BY DEF Seats
<1> DEFINE g == [i \in 1..n + 1 |-> IF i = n + 1 THEN x ELSE f[i]]
<1>2. n + 1 \in 1..n + 1 /\ \A i \in 1..n : i \in 1..n + 1 /\ i # n + 1
  BY SMT
<1>3. ASSUME NEW y \in S \union {x} PROVE \E i \in 1..n + 1 : g[i] = y
  BY <1>1, <1>2
<1> HIDE DEF g
<1> QED BY <1>3 DEF Seats

LEMMA OneSeatLess ==
    ASSUME NEW n \in Nat, NEW S, Seats(n, S), NEW x \in S PROVE n - 1 \in Nat /\ Seats(n - 1, S \ {x})
<1>1. PICK f : \A y \in S : \E i \in 1..n : f[i] = y
  BY DEF Seats
<1>2. PICK k \in 1..n : f[k] = x
  BY <1>1
<1> DEFINE g == [i \in 1..n - 1 |-> IF i = k THEN f[n] ELSE f[i]]
<1>3. n - 1 \in Nat /\ \A i \in 1..n : i # n => i \in 1..n - 1
  BY SMT
<1>4. ASSUME NEW y \in S \ {x} PROVE \E i \in 1..n - 1 : g[i] = y
  <2>1. PICK j \in 1..n : f[j] = y
    BY <1>1
  <2>2. j # k
    BY <1>2, <2>1
  <2>3. CASE j = n
    <3>1. k \in 1..n - 1
      BY <1>3, <2>2, <2>3
    <3> QED BY <2>1, <2>3, <3>1
  <2>4. CASE j # n
    <3>1. j \in 1..n - 1
      BY <1>3, <2>4
    <3> QED BY <2>1, <2>2, <3>1
  <2> QED BY <2>3, <2>4
<1> HIDE DEF g
<1>5. Seats(n - 1, S \ {x})
  BY <1>4 DEF Seats
<1> QED BY <1>3, <1>5

\* The workers whose claim is numbered and not launched.
Unlaunched == {"committed", "persisted", "leased"}
Pending == {w \in Workers : pc[w] \in Unlaunched}

\* A claim starts a payload once: the launches of a generation and the claims
\* still to be launched are no more than the claims there were.
Tally ==
    /\ launched \in [Gens -> Nat]
    /\ \E n \in Nat : Seats(n, Pending) /\ \A g \in Gens : launched[g] + n <= claims

\* Who moves, and who comes to have a claim to launch.
LEMMA WhoMoves ==
    ASSUME TypeOK, Next
    PROVE  \/ pc' = pc
           \/ \E p \in Procs : \E step :
                /\ pc' = At(p, step)
                /\ p \in Workers /\ step \in Unlaunched => pc[p] \in Unlaunched \/ ClaimCommit(p)
<1> DEFINE Moves(p, step) ==
      /\ pc' = At(p, step)
      /\ p \in Workers /\ step \in Unlaunched => pc[p] \in Unlaunched \/ ClaimCommit(p)
<1>1. ASSUME NEW p, Rest(p) PROVE \E step : Moves(p, step)
  <2>1. Moves(p, "idle")
    BY <1>1 DEF Rest, Unlaunched
  <2> QED BY <2>1
<1>2. ASSUME NEW p, NEW q, NEW l, Commit(p, q, l) PROVE \E step : Moves(p, step)
  <2>1. Moves(p, "entomb")
    BY <1>2 DEF Commit, Unlaunched
  <2> QED BY <2>1
<1>3. ASSUME NEW p, NEW step, Go(p, step), step \notin Unlaunched PROVE \E s : Moves(p, s)
  BY <1>3 DEF Go
<1> HIDE DEF Moves
<1>4. ASSUME NEW w \in Workers, Claiming(w) PROVE pc' = pc \/ \E step : Moves(w, step)
  <2>1. CASE ClaimRename(w)
    <3>1. Moves(w, "renamed")
      BY <2>1 DEF ClaimRename, Moves, Unlaunched
    <3> QED BY <3>1
  <2>2. CASE ClaimCommit(w)
    BY <2>2 DEF ClaimCommit, Go, Moves
  <2>3. CASE ClaimPersist(w) /\ ~ Rest(w)
    BY <2>3 DEF ClaimPersist, Moves, Unlaunched
  <2>4. CASE ClaimLease(w)
    BY <2>4 DEF ClaimLease, Moves, Unlaunched
  <2> QED BY <1>1, <1>4, <2>1, <2>2, <2>3, <2>4 DEF Claiming, DropWithdrawnReady, ClaimRefused, ClaimUnwound, procs
<1>5. ASSUME NEW w \in Workers, Running(w) PROVE pc' = pc \/ \E step : Moves(w, step)
  <2>1. CASE Launch(w) \/ Heartbeat(w) \/ \E r : RunEnds(w, r)
    <3>1. pc' = pc \/ Moves(w, "read") \/ Moves(w, "running")
      BY <2>1 DEF Launch, Heartbeat, RunEnds, Moves, Unlaunched
    <3> QED BY <3>1
  <2> QED BY <1>1, <1>2, <1>5, <2>1 DEF Running, DeferLaunch
<1>6. ASSUME NEW w \in Workers, Finishing(w) PROVE \E step : Moves(w, step)
  <2>1. CASE FinishReadsClaim(w) \/ FinishReadsReady(w) \/ FinishArchives(w) \/ FinishCancels(w)
    BY <1>1, <1>2, <1>3, <2>1 DEF FinishReadsClaim, FinishReadsReady, FinishArchives, FinishCancels, Unlaunched
  <2>2. CASE LostRelease(w) \/ LostLease(w) \/ LostCheck(w) \/ LostFile(w)
    BY <1>1, <1>3, <2>2 DEF LostRelease, LostLease, LostCheck, LostFile, Unlaunched
  <2> QED BY <1>6, <2>1, <2>2 DEF Finishing
<1>7. ASSUME NEW p \in Procs, Committing(p) \/ Crash(p) PROVE \E step : Moves(p, step)
  <2>1. CASE Entomb(p)
    <3>1. Rest(p) \/ Go(p, "unlease") \/ Moves(p, "giveBack")
      BY <2>1 DEF Entomb, Moves, Unlaunched
    <3> QED BY <1>1, <1>3, <3>1 DEF Unlaunched
  <2>2. CASE Unlease(p) \/ ReleaseReservation(p)
    BY <1>1, <1>3, <2>2 DEF Unlease, ReleaseReservation, Unlaunched
  <2> QED BY <1>1, <1>7, <2>1, <2>2 DEF Committing, GiveBack, PublishTail, PublishCut, PublishFails, Crash
<1>8. CASE Reaping
  <2>1. pc' = pc \/ \E q, l : Commit(Reaper, q, l)
    BY <1>8 DEF Reaping, ReapTerminal, ReapWithdrawn, ReapUnstarted, ReapExpired, SweepWidowedLease,
       RestoreTomb, RetireTomb, procs
  <2> QED BY <1>2, <2>1 DEF Moves, Procs
<1>9. CASE Publish \/ Withdraw
  BY <1>9 DEF Publish, Withdraw, procs
<1> QED BY <1>4, <1>5, <1>6, <1>7, <1>8, <1>9, Named DEF Next, Moves

\* A launched payload leaves a claim less to launch.
LEMMA TallyStep ==
    ASSUME TypeOK, Tally, Bearings, Next PROVE Tally'
<1>1. PICK n \in Nat : Seats(n, Pending) /\ \A g \in Gens : launched[g] + n <= claims
  BY DEF Tally
<1>2. claims \in Nat /\ launched \in [Gens -> Nat] /\ \A g \in Gens : launched[g] \in Nat
  BY SMT DEF TypeOK, Tally
<1>3. ASSUME UNCHANGED <<launched, claims>>, ~ \E w \in Workers : ClaimCommit(w)
      PROVE  Tally'
  <2>1. Pending' \subseteq Pending
    <3>1. ASSUME NEW w \in Workers, pc'[w] \in Unlaunched PROVE pc[w] \in Unlaunched
      BY <1>3, <3>1, WhoMoves, Named DEF At, TypeOK
    <3> QED BY <3>1 DEF Pending
  <2>2. Seats(n, Pending')
    BY <1>1, <2>1 DEF Seats
  <2> QED BY <1>1, <1>2, <1>3, <2>2 DEF Tally
<1>4. ASSUME NEW w \in Workers, ClaimCommit(w) PROVE Tally'
  <2>1. claims' = claims + 1 /\ launched' = launched /\ pc' = At(w, "committed")
    BY <1>4 DEF ClaimCommit, Go
  <2>2. Pending' \subseteq Pending \union {w}
    BY <2>1, Named DEF Pending, At, TypeOK
  <2>3. Seats(n + 1, Pending')
    <3>1. Seats(n + 1, Pending \union {w})
      BY <1>1, OneSeatMore
    <3> QED BY <2>2, <3>1 DEF Seats
  <2>4. n + 1 \in Nat /\ \A g \in Gens : launched'[g] + (n + 1) <= claims'
    BY <1>1, <1>2, <2>1, SMT
  <2> QED BY <1>2, <2>1, <2>3, <2>4 DEF Tally
<1>5. ASSUME NEW w \in Workers, Launch(w) PROVE Tally'
  <2>1. pc[w] = "leased" /\ claims' = claims
    BY <1>5 DEF Launch
  <2>2. n - 1 \in Nat /\ Seats(n - 1, Pending \ {w})
    BY <1>1, <2>1, OneSeatLess DEF Pending, Unlaunched
  <2>3. pc' = At(w, "read") \/ pc' = At(w, "running")
    BY <1>5 DEF Launch
  <2>4. Pending' \subseteq Pending \ {w}
    BY <2>3, Named DEF Pending, Unlaunched, At, TypeOK
  <2>5. Seats(n - 1, Pending')
    BY <2>2, <2>4 DEF Seats
  <2>6. CASE launched' = launched
    <3>1. \A g \in Gens : launched'[g] + (n - 1) <= claims'
      BY <1>1, <1>2, <2>1, <2>6, SMT
    <3> QED BY <1>2, <2>2, <2>5, <2>6, <3>1 DEF Tally
  <2>7. CASE launched' = [launched EXCEPT ![snap[w].gen] = @ + 1]
    <3>1. snap[w].gen \in Gens
      BY <2>1, SnapParts, TypesAre
    <3>2. launched' \in [Gens -> Nat]
      BY <1>2, <2>7, <3>1, SMT
    <3>3. \A g \in Gens : launched'[g] \in {launched[g], launched[g] + 1}
      BY <1>2, <2>7, <3>1
    <3>4. \A g \in Gens : launched'[g] + (n - 1) <= claims'
      BY <1>1, <1>2, <2>1, <3>3, SMT
    <3> QED BY <2>2, <2>5, <3>2, <3>4 DEF Tally
  <2> QED BY <1>5, <2>6, <2>7 DEF Launch
<1>6. \/ UNCHANGED <<launched, claims>>
      \/ \E w \in Workers : ClaimCommit(w) \/ Launch(w)
  <2>1. CASE Publish \/ Withdraw \/ Reaping
    BY <2>1 DEF Publish, Withdraw, Reaping, ReapTerminal, ReapWithdrawn, ReapUnstarted, ReapExpired,
       SweepWidowedLease, RestoreTomb, RetireTomb, counts
  <2>2. ASSUME NEW w \in Workers, Claiming(w) PROVE ClaimCommit(w) \/ UNCHANGED <<launched, claims>>
    BY <2>2 DEF Claiming, DropWithdrawnReady, ClaimRename, ClaimRefused, ClaimPersist, ClaimLease, ClaimUnwound, counts
  <2>3. ASSUME NEW w \in Workers, Running(w) PROVE Launch(w) \/ UNCHANGED <<launched, claims>>
    BY <2>3 DEF Running, DeferLaunch, Heartbeat, RunEnds, counts
  <2>4. ASSUME NEW w \in Workers, Finishing(w) PROVE UNCHANGED <<launched, claims>>
    BY <2>4 DEF Finishing, FinishReadsClaim, FinishReadsReady, LostRelease, LostLease,
       LostCheck, LostFile, FinishArchives, FinishCancels, counts
  <2>5. ASSUME NEW p \in Procs, Committing(p) \/ Crash(p) PROVE UNCHANGED <<launched, claims>>
    BY <2>5 DEF Committing, Entomb, GiveBack, Unlease, ReleaseReservation, PublishTail,
       PublishCut, PublishFails, Crash, counts
  <2> QED BY <2>1, <2>2, <2>3, <2>4, <2>5 DEF Next
<1> QED BY <1>3, <1>4, <1>5, <1>6

LEMMA CountsAre ==
    ASSUME TypeOK, Bearings, Next PROVE gens' \in 0..MaxGens /\ claims' \in 0..MaxClaims /\ faults' \in 0..MaxFaults
<1> DEFINE Same == UNCHANGED <<gens, claims>> /\ (Fault \/ faults' = faults)
<1>1. ASSUME Same PROVE gens' \in 0..MaxGens /\ claims' \in 0..MaxClaims /\ faults' \in 0..MaxFaults
  BY <1>1, QueueAssumption, SMT DEF Fault, TypeOK
<1>2. CASE Publish
  BY <1>2, QueueAssumption, SMT DEF Publish, TypeOK
<1>3. ASSUME NEW w \in Workers, ClaimCommit(w) PROVE gens' \in 0..MaxGens /\ claims' \in 0..MaxClaims /\ faults' \in 0..MaxFaults
  <2>1. claims < MaxClaims
    BY <1>3 DEF ClaimCommit, Bearings, WorkerBears
  <2>2. UNCHANGED <<gens, faults>> /\ claims' = claims + 1
    BY <1>3 DEF ClaimCommit
  <2> QED BY <2>1, <2>2, QueueAssumption, SMT DEF TypeOK
<1>4. CASE Withdraw \/ Reaping
  BY <1>1, <1>4 DEF Withdraw, Reaping, ReapTerminal, ReapWithdrawn, ReapUnstarted, ReapExpired,
     SweepWidowedLease, RestoreTomb, RetireTomb, counts
<1>5. ASSUME NEW w \in Workers, Claiming(w), ~ ClaimCommit(w) PROVE Same
  BY <1>5 DEF Claiming, DropWithdrawnReady, ClaimRename, ClaimRefused, ClaimPersist, ClaimLease, ClaimUnwound, counts
<1>6. ASSUME NEW w \in Workers, Running(w) PROVE Same
  BY <1>6 DEF Running, Launch, DeferLaunch, Heartbeat, RunEnds, counts
<1>7. ASSUME NEW w \in Workers, Finishing(w) PROVE Same
  BY <1>7 DEF Finishing, FinishReadsClaim, FinishReadsReady, LostRelease, LostLease,
     LostCheck, LostFile, FinishArchives, FinishCancels, counts
<1>8. ASSUME NEW p \in Procs, Committing(p) \/ Crash(p) PROVE Same
  BY <1>8 DEF Committing, Entomb, GiveBack, Unlease, ReleaseReservation, PublishTail,
     PublishCut, PublishFails, Crash, counts
<1> HIDE DEF Same
<1> QED BY <1>1, <1>2, <1>3, <1>4, <1>5, <1>6, <1>7, <1>8 DEF Next

-----------------------------------------------------------------------------
(* Types.                                                                  *)

TypeInv == TypeOK /\ Marks /\ Filings /\ Bearings /\ Tally

\* A withdrawal's decision covers the row it addresses and the visible marker.
LEMMA TargetIs == ASSUME TypeOK, WithdrawTarget.gen # 0 PROVE WithdrawTarget.gen \in Gens
<1>1. WithdrawTarget \in {claim, ready}
  BY DEF WithdrawTarget
<1> QED BY <1>1, ClaimParts, RowParts DEF TypeOK

LEMMA SubmittersKeep ==
    ASSUME TypeOK, Marks, Filings, Publish \/ Withdraw
    PROVE  /\ RowTypes' /\ EndTypes' /\ ArchiveTypes' /\ Filings'
           /\ UNCHANGED <<procs, claims>> /\ decided \subseteq decided'
<1> SUFFICES ASSUME RowTypes, EndTypes, ArchiveTypes, UNCHANGED <<claim, tombs, lease, held, done, failed, archive, supers, retired>>
             PROVE  /\ RowTypes' /\ EndTypes' /\ ArchiveTypes' /\ Filings'
                    /\ UNCHANGED <<procs, claims>> /\ decided \subseteq decided'
  BY FilesAre DEF Publish, Withdraw, endings
<1>1. {marker} \ {0} \subseteq decided /\ SupersededMarker = decided
  BY DEF Filings, SupersededMarker
<1>2. CASE Publish
  <2>1. gens + 1 \in Gens
    <3>1. gens < MaxGens /\ gens \in 0..MaxGens
      BY <1>2 DEF Publish, TypeOK
    <3> QED BY <3>1, QueueAssumption, SMT DEF Gens
  <2>2. /\ ready' = Row(gens + 1, 0) /\ decided' = decided /\ marker' = 0 /\ UNCHANGED <<procs, claims>>
        /\ replaced' = replaced \union ({ready.gen} \ {0})
    BY <1>1, <1>2 DEF Publish
  <2>3. ready' \in Rows /\ 0 \in 0..MaxGens
    BY <2>1, <2>2, RowMade, Numbers
  <2>4. {ready.gen} \ {0} \subseteq Gens
    BY RowParts DEF RowTypes
  <2>5. RowTypes' /\ EndTypes'
    BY <2>2, <2>3, <2>4 DEF RowTypes, EndTypes
  <2>6. ArchiveTypes' /\ Filings'
    BY <2>2, FilesStay
  <2> QED BY <2>2, <2>5, <2>6
<1>3. CASE Withdraw
  <2>1. WithdrawTarget.gen \in Gens
    BY <1>3, TargetIs DEF Withdraw
  <2>2. /\ ready' \in {ready, NoRow} /\ UNCHANGED <<procs, claims, replaced>>
        /\ \/ marker' = WithdrawTarget.gen /\ decided' = decided \union {WithdrawTarget.gen}
           \/ marker' = marker /\ marker # 0 /\ decided' = decided \union {marker}
    BY <1>1, <1>3 DEF Withdraw, endings, counts
  <2>3. RowTypes'
    BY <2>2, NoneIs DEF RowTypes
  <2>4. EndTypes'
    BY <2>1, <2>2, Numbers DEF EndTypes
  <2>5. ArchiveTypes' /\ Filings' /\ decided \subseteq decided'
    BY <2>2, FilesStay
  <2> QED BY <2>2, <2>3, <2>4, <2>5
<1> QED BY <1>2, <1>3

LEMMA TypeNext == ASSUME TypeInv, PassInv, Next PROVE TypeInv'
<1> SUFFICES ASSUME TypeOK, Marks, Filings, Bearings, Tally, ProcTypes, RowTypes, EndTypes, ArchiveTypes
             PROVE  TypeInv'
  BY TypesAre, FilesAre DEF TypeInv
<1> DEFINE Good == ProcTypes' /\ Bearings' /\ RowTypes' /\ EndTypes' /\ ArchiveTypes' /\ Filings'
<1>1. ASSUME UNCHANGED <<endings, withdrawals>> PROVE EndTypes' /\ ArchiveTypes' /\ Filings'
  <2>1. archive' = archive /\ UNCHANGED <<marker, decided>> /\ EndTypes'
    BY <1>1 DEF endings, withdrawals, EndTypes
  <2> QED BY <2>1, FilesStay
<1>2. ASSUME Publish \/ Withdraw PROVE Good
  BY <1>2, SubmittersKeep, BearAside
<1>3. ASSUME NEW w \in Workers, Claiming(w) PROVE Good
  BY <1>1, <1>3, MindClaiming, RowsClaiming
<1>4. ASSUME NEW w \in Workers, Running(w) PROVE Good
  BY <1>1, <1>4, MindRunning, RowsRunning
<1>5. ASSUME NEW w \in Workers, Finishing(w) PROVE Good
  BY <1>5, MindFinishing, RowsFinishing
<1>6. ASSUME NEW p \in Procs, Committing(p) \/ Crash(p) PROVE Good
  <2>1. RowTypes' /\ EndTypes' /\ UNCHANGED <<archive, marker, decided>>
    BY <1>6, RowsCommitting
  <2>2. ArchiveTypes' /\ Filings'
    BY <2>1, FilesStay
  <2> QED BY <1>6, <2>1, <2>2, MindCommitting
<1>7. ASSUME Reaping PROVE Good
  BY <1>7, MindReaping, RowsReaping
<1>8. Good
  BY <1>2, <1>3, <1>4, <1>5, <1>6, <1>7 DEF Next
<1>9. Tally' /\ gens' \in 0..MaxGens /\ claims' \in 0..MaxClaims /\ faults' \in 0..MaxFaults
  BY TallyStep, CountsAre
<1>10. launched' \in [Gens -> 0..MaxClaims]
  <2>1. PICK n \in Nat : \A g \in Gens : launched'[g] + n <= claims'
    BY <1>9 DEF Tally
  <2>2. launched' \in [Gens -> Nat]
    BY <1>9 DEF Tally
  <2>3. \A g \in Gens : launched'[g] \in 0..MaxClaims
    BY <1>9, <2>1, <2>2, QueueAssumption, SMT
  <2> QED BY <2>2, <2>3
<1>11. TypeOK' /\ Marks'
  BY <1>8, <1>9, <1>10 DEF TypeOK, Marks, ProcTypes, RowTypes, EndTypes, ArchiveTypes, PlanRecs
<1> QED BY <1>8, <1>9, <1>11 DEF TypeInv

LEMMA TypeInit == Init => TypeInv
<1> SUFFICES ASSUME Init PROVE TypeInv
  OBVIOUS
<1>1. 0 \in 0..MaxGens /\ 0 \in 0..MaxClaims /\ 0 \in 0..MaxFaults
  BY QueueAssumption, SMT
<1>2. TypeOK
  BY <1>1, NoneIs DEF Init, TypeOK, PlanRecs, Steps
<1>3. Marks /\ Filings
  <2>1. \A g \in Gens, n \in Attempts : archive[<<g, n>>] = "none"
    BY SMT DEF Init
  <2> QED BY <2>1 DEF Init, Marks, Filings
<1>4. Bearings
  BY Named DEF Init, Bearings, WorkerBears, PlanBears, ReaperBears, Handling, Procs
<1>5. Tally
  <2>1. Pending = {}
    BY Named DEF Init, Pending, Unlaunched
  <2>2. Seats(0, Pending)
    BY <2>1 DEF Seats
  <2>3. launched \in [Gens -> Nat] /\ 0 \in Nat /\ \A g \in Gens : launched[g] + 0 <= claims
    BY SMT DEF Init
  <2> QED BY <2>2, <2>3 DEF Tally
<1> QED BY <1>2, <1>3, <1>4, <1>5 DEF TypeInv

LEMMA TypeStep == PassInv /\ TypeInv /\ [Next]_vars => TypeInv'
<1> SUFFICES ASSUME PassInv, TypeInv, [Next]_vars PROVE TypeInv'
  OBVIOUS
<1>1. CASE UNCHANGED vars
  <2>1. /\ UNCHANGED <<ready, claim, tombs, lease, held, done, failed, archive, supers, retired, replaced>>
        /\ UNCHANGED <<marker, decided, lock, pc, snap, status, plan, launched, gens, claims, faults>>
    BY <1>1 DEF vars, rows, endings, withdrawals, procs, counts
  <2>2. Bearings' /\ Filings' /\ Marks'
    BY <2>1, BearAside, TypesAre DEF TypeInv, procs, Filings, Marks
  <2>3. Tally'
    BY <2>1 DEF TypeInv, Tally, Pending
  <2>4. TypeOK'
    BY <2>1 DEF TypeInv, TypeOK
  <2> QED BY <2>2, <2>3, <2>4 DEF TypeInv
<1> QED BY <1>1, TypeNext

\* At all times, along PassInv.
LEMMA TypesHold == Spec => []TypeInv
BY TypeInit, TypeStep, PassHoldsTheLock, PTL DEF Spec

\* Every record keeps its shape, whoever stalls and whoever dies: in particular
\* a row that waits, is claimed or is marked always has an attempt of its budget
\* left (resolve_attempt and archive_attempt against _publish_requeued_claim),
\* and a generation is never started more often than it is claimed.
THEOREM QueueTypes == Spec => []TypeOK
<1>1. TypeInv => TypeOK
  BY DEF TypeInv
<1> QED BY <1>1, TypesHold, PTL

=============================================================================
