# PrismaBuild: a TLA+ verification development

PrismaBuild runs build and test actions on a fleet of hosts that share one
filesystem.  There is no server: the queue is a directory tree, and every
transition is a rename, a link, an unlink or an atomic replacement of a file,
done by whichever process gets there.  This directory holds TLA+ models of the
parts on which everything else rests, the TLC configurations that check them,
and TLAPS proofs.

Paths below are relative to `src/src/prismabuild/`.

## 1. The system and its parts

| part | state | operations | what makes it hard |
|---|---|---|---|
| **Queue lifecycle** (`pool.py`, `lifecycle.py`, `endings.py`, `claim_identity.py`) | per key: `ready/`, `claimed/`, finishing marks ("tombstones"), lease, `done/`, `failed/`, `attempts/`, withdrawal marker and decisions, supersession records | publish, withdraw, claim, heartbeat, finish, defer, reap, sweep marks, sweep leases | workers, reapers, submitters and cancellers act on the same names; the finish runs without the lock until its last step; crashes between any two writes; leases that expire under live workers |
| **Token ledgers** (`pool.py` `ResourceLedger`, `tier_holdings.py` `TierLedger`) | `free/`, `held/<key>/`, `held/claiming.*/`, `minted/`, `minted/dead/` | ensure, retire, mint, begin/commit/abandon acquire, sweep, release, transfer, destroy | renames that fail half-way, killed processes, a stale sweep that overtakes a slow claimant |
| **Transition locks** (`posix_lock.py`) | lock file, its inode and tombstone bytes, per-process mutex | `held`, nested `held`, `retire` | `lockf` belongs to a process, closing any descriptor drops it, files are removed while others wait on them |
| **Gangs** (`_gang.py`, `gang_wait.py`, the gang part of a claim pass in `pool.py`) | group records, elections, ready marks, one teardown per gang, the members' rows | register, elect, reserve, mark ready, claim beside a whole set, start barrier, tear down, sweep | siblings are read one by one while they change; several gangs want the same hosts; a crash between the teardown and the withdrawals it calls for |
| **Queue bell and host wait** (`queue_bell_events.py`, `host_wait.py`) | directory watches, the kernel's event queue, a bounded ring of hints, long polls, the hub's cursor and coverage | hint, reset, cover, wait, arm, reconcile, renew | a change between the look and the sleep, history that was dropped, coverage that lapses, a service that restarts, a renewal that is cancelled half-way |
| Claim scan and admission policy | offers, windows, placement | choose the next row | fairness between actions, starvation |
| Record store, immutable files, CAS | blobs, links | first-writer-wins publication | concurrent writers, fsync order |
| Tiers, staging, residency, funding, window credit | staged data, grants, bindings | place, move, fund, release | multi-step transfers over ledgers, retries |
| Reader leases | pins on staged windows | acquire, release | pin racing a release |
| Produced output and batches | spools, batch ledger | prewrite, commit | retry of what was done |
| Submission, deferred release | sealed actions, producer edges | seal, publish, release tick | an edge that is never released |
| Retention and recovery | attempt directories | plan, apply | a plan that is stale when applied |
| Resource scopes, adaptive CPU/GPU, measurement, Slurm lane, clients, runtime publication, reporting, tools | — | — | kernel and container calls, numeric policy, pure I/O |

`PROJECT.json` assigns every source file to one of these parts, and lists the
hazards at their lines.

How they interact: a claim takes the key's *transition lock* (PosixLock), takes
tokens privately from the *ledger* of its host and of the tiers it uses
(ResourceLedger), renames the row (QueueLifecycle), commits the tokens under
the key, writes the claim record and the first lease.  A conclusion goes the
other way: mark, lease, tokens, next home of the row.  Each model takes the
others at their contract: QueueLifecycle has `lock` as one variable (what
PosixLock proves: one holder, found under its name) and the reservation of a key
as the set of claims whose tokens are filed under it (what ResourceLedger
proves: tokens are in one place).  A gang's member is a row like any other whose
claim pass does more between the reservation and the rename; GangAdmission keeps
the lock and the host's capacity as that contract gives them, and takes a claim
and a finish as few steps, because QueueLifecycle has them in full.  The bell
carries no authority: it only says which directory to read again, so nothing above
depends on it but how soon a change is seen.

## 2. Modules

| module | models | scope |
|---|---|---|
| `ResourceLedger` | one token ledger, of a host or of a tier | state and every mutator |
| `ResourceLedgerProofs` | theorems about it | |
| `MCResourceLedger` | constants for TLC | |
| `QueueLifecycle` | the life of one action key | directories, workers, reaper, submitter, canceller |
| `QueueLifecycleProofs` | theorems for every regime: withdrawals, types | |
| `QueueStallProofs` | theorems for every regime: reservations, work that is dropped | extends QueueLifecycleProofs |
| `PublicationContract` | what a submitter is promised, abstractly | refined by QueueLifecycle |
| `QueueContractProofs` | theorems for prompt processes, and the refinement | |
| `MCQueueLifecycle` | constants for TLC | |
| `PosixLock` | one lock file, its takers and retirers | system call by system call |
| `PosixLockProofs` | theorems about it | |
| `MCPosixLock` | constants for TLC | |
| `GangAdmission` | gangs, from registration to the last ending | rows, elections, marks, serve loops, sweeps |
| `GangAdmissionProofs` | theorems about it | |
| `MCGangAdmission` | constants for TLC | |
| `EventRing` | the bell's ring of hints and its long polls | every critical section of the ring's lock |
| `EventRingProofs` | theorems about it | |
| `HostWait` | directories, inotify reader, ring, hub and owner together | extends EventRing |
| `HostWaitProofs` | theorems about it, with those of EventRing | extends EventRingProofs |
| `MCHostWait` | names HostWait for TLC | |

In each module the definitions named `Faulty...` are copies of the definition
below them with one bug put in.  No specification uses them.  Putting one in the
place of its original must make a named property fail (`PROJECT.json`,
"mutants"), which shows that the property depends on that line of the code.

### 2.1 ResourceLedger

State: `free`, `held`, `minted`, `dead` are the four directories, as *sets of
names*, so a name in two places is a state the model can be in.  `acq` is what
each claimant believes of the private directory it was given, `claimed` the keys
whose row was renamed, `owed` the tokens on which a key's action was admitted
(history), `mint` the phase of a tier mint.

Actions: `EnsureCapacity`, `RetireFree` (a host's poll); `MintBegin`,
`MintReclaim`, `MintEnsure`, `MintRetire`, `MintCrash` (a tier's mint, three
calls under one lock); `BeginAcquire`, `BeginAcquireFails`, `WinRename`,
`AbandonAcquire`, `CommitAcquire`, `CommitShort`, `ClaimantCrash`, `SweepStale`;
`Release`, `ReleasePart`, `Transfer`, `RetireHeld`.

Every mutator runs under the ledger's mutation lock (`_guarded_mutation`), so a
call is one step.  Inside a call each rename may fail with `OSError`, and the
process may die between renames: a call moves *some subset* of what it set out
to move.  That is why nearly every action has `\E back \in SUBSET ...`.  A sweep
goes by age, so it also hits a claimant that is merely slow.

`Release` ends the claim of its key: `owed` and `claimed` are cleared with it.
`RunningHoldsItsTokens` therefore says what a *commit* may start, and cannot see
the tokens of a running action being released under it by someone else.  Who may
release a key, and when, is the subject of QueueLifecycle (`RunningKeepsCustody`,
and the run `queue_custody`).

### 2.2 QueueLifecycle and PublicationContract

One action key.  Variables are the files of that key (see the comments at their
declaration), the lock, and for each process its program counter, the claim it
was handed (`snap`), the result it reports (`status`) and what it commits
(`plan`).  A generation stands for `published_unix`, a claim number for
`claimed_unix`.

| code | actions |
|---|---|
| `publish` | `Publish` |
| `withdraw` | `Withdraw` |
| claim pass | `DropWithdrawnReady`, `ClaimRename`, `ClaimCommit`, `ClaimRefused`, `ClaimPersist`, `ClaimLease`, `ClaimUnwound` |
| execution | `Launch`, `DeferLaunch`, `Heartbeat`, `RunEnds` |
| `_worker_finish` | `FinishReadsClaim`, `FinishReadsReady`, `FinishArchives`, `FinishCancels` |
| its missing-claim branch | `LostRelease`, `LostLease`, `LostCheck`, `LostFile` |
| `_commit_claim` | `Entomb`, `GiveBack`, `Unlease`, `ReleaseReservation`, `PublishTail`, `PublishCut`, `PublishFails` |
| `reap_stale` | `ReapTerminal`, `ReapWithdrawn`, `ReapUnstarted`, `ReapExpired`, `RestoreTomb`, `RetireTomb`, `SweepWidowedLease` |
| process death | `Crash` |

Granularity follows the lock: what runs under the lock and writes one thing is
one step; the claim pass, which writes several durable things under the lock, is
cut at each write because a crash can fall there; the finish, which runs without
the lock, is cut at each read and write because others can run there.

Time is abstracted to two regimes.  With `LiveExpiry` and `SlowTail` false a
lease or a mark expires only when its owner is gone (prompt processes).  With
them true it may expire at any time, which is a process stalled for longer than
the timeout while it is alive.

Left out of the model: unreadable and malformed records (the code retains
everything and reports), tier funding of a claim, cleanup quarantine, gang
membership, retention of attempts, and the choice between rows of several keys.

`PublicationContract` states the promise: an ended generation never starts, an
ending is final, no more than `MaxAttempts` starts, no start of an older
generation after a newer one started.

### 2.3 PosixLock

Variables: the inode under the name, tombstoned inodes, the kernel's lock per
inode, the mutex per process, each thread's descriptor and program counter.
`Enter` to `Close` are `held`; `Retire...` is `retire`; `FinishLook` and
`FinishUnlink` are `_finish_retirement`; `Nest`/`Unnest` are re-entry.  What
`lockf`, `close` and process death do is modelled from their use and marked
external.  An inode that has no name and no descriptor may be created again.
Left out: the registry reset after `fork`, and the report about a busy holder.

### 2.4 GangAdmission

Variables: per gang whether its group record (`filed`) and its teardown (`torn`)
exist; per member its `row`, whether its claimed publication is withdrawn
(`covered`), its election (`elect`) and its fresh ready mark (`mark`); `started`, the
gangs with a file that stops their wait limit; per host the `free` capacity; per serve loop where it is (`pc`), its member (`on`), whether its
census found no election (`needs`), what `sibling_readiness` has accepted (`met`)
and has still to read (`left`), and the outcome it will file (`out`).  `begun` is
history.  The member's transition lock and the host's admission lock are the
program counters of the loops that are inside them.

| code | actions |
|---|---|
| `publish_group`, `cancel_expired` | `PublishGroup`, `CancelExpired`, `CancelMeetsClaim` |
| `sweep_gangs`, `_sweep_unregistered_gang_members` | `SweepTeardown`, `SweepEnded`, `SweepUnregistered` |
| an operator's `withdraw` | `Withdraw` |
| `_prepare_claim_gang` | `Prepare`, `PrepareEnded` |
| the census under admission, `elect_gang_member`, `begin_acquire` | `Census`, `CensusRefuses`, `Admit`, `NotAdmitted` |
| `_rename_and_commit_claim` | `GateRefuses`, `MarkReady`, `ReadSibling`, `WaitForPeers`, `Rename`, `Persist`, `Lease`, `Unwind` |
| `_gang_start_barrier` | `BarrierCheck`, `BarrierReleases`, `BarrierEnded`, `BarrierWait`, `BarrierExpires` |
| `execute` | `Launch`, `DeferLaunch`, `LaunchFails` |
| payload and heartbeat | `PayloadEnds`, `Checkpoint` |
| `finish` | `FinishTears`, `FinishWithdraws`, `Finish` |
| time, death, reaper | `GoStale`, `Crash`, `Recover`, `Return` |

A pass is cut where it leaves a lock or reads a sibling.  The teardown and the
withdrawals that follow it are two steps in `finish`, because a crash between them
is what the sweep is for.

*A claim that did not launch goes back to `ready`, uncharged*, and its gang goes on.
There are three ways: the pass unwinds it before its lease (`Unwind`: the moved record
is not the admitted one, tokens are missing, a write fails); the broker defers the
launch (`DeferLaunch`, `pool.py:23910`); a loop dies before the first lease, or after a
deferral has taken the lease away, and the reaper finds a claim without one (`Crash`,
`LeftBehind`, `Recover`).  Only an expired lease uses up the attempt.  Two consequences
are part of what is checked:
- A barrier counts any claimed sibling, one that can still be given up included
  (`pool.py:21883`), and a claim can be given up after the barrier.  A payload may
  therefore run while a sibling is `ready` again.  `docs/design.md:6377`, "A member never
  runs alone", holds only as `StartsWhole`: every member *has been* claimed.
- That a gang which has begun also ends is not a property of the code.  A member that
  was deferred can be left `ready` beside a sibling that is done, and nothing ends such a
  gang.  What holds is `TornGangEnds` (a gang that is torn down or has a bad ending ends
  as a whole) and `ClaimsAreSettled` (no member stays claimed).

Simplifications: an unwinding, a deferral and an ending return the tokens and the row in
one step (QueueLifecycle has their steps); a link back to `ready` that fails leaves the
claim to the reaper, as a dead loop does; a member has exactly one attempt, which is
`publish`'s own rule (`pool.py:6942`).  Left out: loans of a fenced host to background
work, the preference for a resident copy, the blockers of a prelaunch prefix (all three
only delay an election), the confirmation of a terminal lead.

### 2.5 EventRing and HostWait

`EventRing` is the ring under its one lock: `Appended`, `Reset`, `ResetV2`,
`SetCoverage`, `Close`; `NewRing` is a restarted service.  A request is `Register`,
`Look`, `Woken`, `Expires`, `Leave`: it registers *before* it looks and sleeps on a
socket that an unread wake-up (`byte`) makes ready.  `log` is history, everything
appended in this epoch, against which answers from the bounded ring are judged.

`HostWait` extends it with what stands on both sides.  `Change` and
`CreateDirectory` are the queue's writers, and `named` says which directories have a
name in them: `Scan` hints only names that are there, so a directory whose last record
was removed is scanned without a hint; `kernel` is the bounded inotify queue
with its overflow event (external); `ConsumeName`, `ConsumeOverflow`,
`OverflowResets`, `ConsumeDirectory`, `Scan`, `Installed`, `Covered` are
`InotifyQueue.consume`, one ring call a step; `Stop`, `Crash`, `Start` are the
service's life.  On the hub's side `ArmKept`, `ArmNow`, `ArmUnavailable` are `arm`;
`Read` and `BeginWait` are the owner's reads and `reconciled`; `WaitChanged`,
`WaitResult`, `WaitFailure`, `StartReader`, `Join` are `wait_since`; `ReaderAsks`,
`ReaderFails`, `RequestLost`, `ReaderReset`, `ReaderHints`, `ReaderRenews` are its
reader thread, which may fail until `wait_since` has cancelled it.

*The owner is a contract, not code.*  Nothing in the repository uses `HostWaitHub` yet
(`docs/design.md:10942`: "a source library with one observation/wait owner").  The owner
in `HostWait` does what the hub's methods and that section ask of a caller: arm, read
what was hinted (everything while coverage is incomplete), `reconciled`, `wait_since`.
`NothingSleptThrough` and `EveryChangeIsRead` are statements about the service and the
hub under such an owner.

Left out: watches of ancestor directories and of single host files,
the loss of a watched directory, deadlines and stop, version 1 requests (the ring
module has them), the decoding of input paths.

## 3. What TLC checks

| run | bounds | states | shows |
|---|---|---|---|
| `ledger_host` | 1 kind, capacity ≤ 2, 2 keys, 2 claimants | 44,117 | `TypeOK`, `SoleCustody`, `RunningHoldsItsTokens`, `OnlyMintGrows` on a host ledger |
| `ledger_tier` | the same with 1 claimant and tier operations, fair | 217,120 | the last three on a tier ledger, and `StrandedTokensReturn` |
| `ledger_dead` | as `ledger_tier` | — | **violation** of `DeadIsNotLive` |
| `queue_prompt` | 3 workers on 2 hosts, 2 generations, 2 attempts, 6 claims, 2 faults, fair | 136,767 | `TypeOK`, `OneTerminal`, `NothingLost`, `RunningKeepsCustody`, `ImplementsContract`, `EveryPublicationEnds`, `ComesClean` |
| `queue_stalls` | 2 workers on 1 host, stalled processes, 2 generations, 2 claims, 1 fault | 1,452,913 | `NothingDroppedUnrun`, `ReservationFindable`, `WithdrawnNeverClaimed` |
| `queue_two_terminals` | stalled worker, 1 generation, 1 attempt | — | **violation** of `OneTerminal` |
| `queue_withdrawal` | prompt, 1 generation, 1 attempt | — | **violation** of `WithdrawalWins` |
| `queue_custody` | stalled worker, 1 generation, 2 claims | — | **violation** of `RunningKeepsCustody` |
| `lock_exclusion` | 3 threads of 2 processes, 3 inodes, nesting 1, fair | 34,920 | `TypeOK`, `MutualExclusion`, `NameNamesTheHeld`, `OnlyTombstonedUnlinked`, `WaiterGetsTheLock` |
| `gang_contention` | 2 gangs of 2 members, 2 hosts with room for 1, 3 loops, no faults; the two loops of one host are interchangeable | 777,439 | `TypeOK`, `StartsWhole`, `NoCrossCommit` |
| `gang_ends` | 1 gang of 2 members, 2 hosts, 3 loops, 2 faults, fair | 76,636 | `ClaimedBesideWholeSet`, `TornGangEnds`, `ClaimsAreSettled` |
| `host_wait` | 3 topics, ring of 1 hint, kernel queue of 1 event, 2 changes, 1 fault, 1 restart, fair | 389,819 | `TypeOK`, `SleeperHasNothing`, `AnswerIsComplete`, `NothingSleptThrough`, `EveryChangeIsRead` |

Why the bounds are enough to be interesting.  *Ledger*: two tokens are the least
for which a call can half succeed and for which "highest first" means something;
two keys and two claimants are the least for a race and for a transfer.
*Queue*: two generations are the least for withdraw-and-republish and for a late
result against a successor; six claims exceed what two publications of two attempts
and two faults can consume, so the bound never stops progress; three workers on two
hosts give a competitor on the same host and one on another.  *Lock*: three threads
of two processes give both kinds of competitor.  Every thread may have a file open
and the name may name another, which would take four inodes; with three a creation
may have to wait until an inode is closed.  The safety properties are proved for
every number of inodes (section 5).  *Gangs*: two gangs that want the same two hosts with room
for one member each are the least that can block each other, and the second loop on
one host is the least that can elect twice on it; two faults let a second one hit the
recovery from the first.  *Host wait*: a ring of one hint and a kernel queue of one
event make every second change drop history or overflow; `MaxSeq` exceeds what two
changes and their scans can append.

Symmetry is used where only interchangeable values are permuted, never in runs
with a temporal property that has fairness.  Deadlock is
checked in the ledger and lock runs.  The queue, gang and bell runs switch it off:
when the bounded publications have ended, the gangs are forgotten or the changes are
read, the system is at rest and nothing need happen.

### Fairness

* `ResourceLedger.FairSpec`: a mint that started goes on; every reaper pass
  sweeps stale private directories.  The sweep is strongly fair because mints
  take the lock again and again, yet release it each time, and the sweep's
  acquisition of the lock is retried on every pass.
* `QueueLifecycle.FairSpec`: a serve loop polls and goes on with what it began,
  payloads end, and the reaper keeps passing.
  That a payload ends is an assumption about payloads: the worker stops one that
  misses its deadline, its progress policy or the stall watch, but one that keeps
  working without a declared bound may run for ever.  Nothing makes publications,
  withdrawals, faults or crashes happen.
* `PosixLock.FairSpec`: a thread goes on with its call, bodies end, and the
  kernel does not pass over one waiter for ever.  `WaiterGetsTheLock` assumes in
  addition that retirements stop: `retire` may otherwise win the file each time.
* `GangAdmission.FairSpec`: a loop goes on with its pass, its barrier, its payload
  and its ending; the sweep comes back to a gang that is to be torn down.  The end of
  `skew_s` is strongly fair: the barrier polls, so the expiry is enabled again and
  again, and the clock that it compares with moves on.  A dead loop's claim is settled:
  a reaper passes.  Nothing is assumed about
  which row a pass comes to, hence nothing about whether a waiting gang begins.
* `HostWait.FairSpec`: the service's thread, its requests, the owner and the reader
  thread go on, and a retry comes due.  No long poll need time out, and nothing
  starts a dead service again.

## 4. What disagrees with the repository's own words

Four runs are expected to end in a violation.  Each checks a sentence of the
repository.

1. `ledger_dead`.  `pool.py:4208`: "The mint marker is never touched, so the name
   can never be re-minted into free while the bytes remain".  `retire_free_capacity`
   takes the marker first and may fail or die before the token.  If that token is
   acquired and then destroyed by `retire_held` before the next adoption, its name
   has no marker, and `ensure_capacity` mints it while the dead copy exists.
   `_reclaim_mint` later drops the dead copy of a live name.  `SoleCustody` is
   unaffected.
2. `queue_two_terminals`.  `lifecycle.py:548`: "Ask what this generation has already
   been filed as before choosing a directory".  The question (562) and the write
   (619) are not under the transition lock.  A worker whose claim a reaper has moved
   aside finds no claim, no row and no terminal, files `done/`, and the reaper's tail
   then files `failed/` for the same generation.
3. `queue_custody`.  `lifecycle.py:292`: "The live claim, its lease and its reservation
   are left exactly as they are".  The finish reads `claimed/` and then `ready/`.  If
   its claim has been taken away at the first read, and the item, requeued, has been
   claimed again at the second, both look empty, and the branch releases the
   reservation and the lease of the new claim on the same host.
4. `queue_withdrawal`.  `pool.py:76`, of a withdrawal's marker: "from the moment it
   exists the action cannot be claimed, cannot be requeued and cannot be filed as a
   defect -- whatever a concurrent worker is doing at the time."  The finish asks once
   (`lifecycle.py:527`), without the lock, and its publication does not ask again: a
   withdrawal in between does not keep the generation out of `failed/`.  It still is
   never claimed again (`WithdrawnNeverClaimed`).

2 and 3 need a worker that is stalled for longer than the lease timeout and
then continues.  Under prompt processes (`queue_prompt`) `OneTerminal` and
`RunningKeepsCustody` hold.  1 needs a failed or interrupted call; 4 needs neither.

The gap of 2 has a second effect when two generations are in play: between the
check that its directory is empty (`lifecycle.py:590`) and the write (619) a later
generation can run and end there, and its record is replaced.  This is why the
contract ("an ending is final") is checked for prompt processes, and stalled ones
are held to the weaker `NothingDroppedUnrun`.

## 5. What is proved

Proofs hold for every value of the constants that satisfies the module's named
assumption (`LedgerAssumption`: finitely many kinds, keys are not handles;
`LockAssumption`: `ProcOf` is defined on the threads, and the null values are not
values; `QueueAssumption`: there is a worker, the reaper is not a worker, nobody is
neither, an item may be tried at least once, bounds are numbers; `GangAssumption`:
every member has a gang, every loop a host, ranks are distinct numbers;
`RingAssumption`: a ring keeps at least one hint, and no topic is the mark of a reset;
`HostWaitAssumption`: the topics a hub wants and those whose directory comes late are
topics, the one request is the hub's, the kernel's queue holds at least one event).
The number of threads, processes, inodes, keys, claimants, tokens, workers, gangs,
hosts, loops, topics and requests is arbitrary, and so are the bounds on faults,
generations, claims and sequence numbers.  `HostWait` is the exception: it has one hub.

Two groups of theorems have a further hypothesis, stated in the theorem, because
without it they are false:
- those of `QueueContractProofs` assume `Prompt` (`~LiveExpiry /\ ~SlowTail`): no live
  worker lets its lease expire, and a tail is not overtaken.  The violation runs of
  section 4 are what happens otherwise.
- `NoGangsCrossCommit` assumes `Capacity = 1`, a host with room for one member: that is
  where a claim keeps another member out.  With room for two, each of two gangs may have
  a claim beside the other's waiting member while both hosts have a unit left; TLC shows
  it in 24 states, and nobody is kept waiting in it.

*ResourceLedger.*
- `TypeCorrect`: `Spec => []TypeOK`.
- `Custody`: `Spec => []SoleCustody`.  Relative to `TypeOK` custody is inductive.
  Every move takes a name away from where it was; the only step that could add a
  copy is minting, and lemma `GrowAddsFreshTokens` shows that it adds only names
  that are live nowhere: adoption marks tokens that are present, and `_token_is_held`
  searches the holders.
- `FailClosedCommit`: `Spec => []RunningHoldsItsTokens`.  Not inductive alone: one
  must know that a private directory holds nothing but what its claimant took
  (sweeps only remove), that one claimant at a time has won a key, and that no
  action runs under a key that is still being committed.  Together that is
  `AdmissionInv`.  Lemma `CommitFilesWhatWasTaken` is the heart: a count of moved
  tokens that reaches the demand, of a subset of the demand, is the demand itself.
- `Conserved`: `Spec => OnlyMintGrows`.  Relative to `TypeOK` every call but
  `ensure_capacity` and the mint's own fills `free/` and the holders' directories from
  names that were live, whichever of its renames fail.

*PosixLock.*
- `Locking`: `Spec => []LockInv`, where `LockInv` adds to `TypeOK`: a thread inside a
  call has its process's mutex (`HasMutex`); it has a descriptor where it should
  (`HasFile`); where it believes to have the kernel's lock its process has it
  (`HasLock`); and where it has found its inode to be the named, live one the name
  stays (`NameStays`).  The last is why an unlink by name is safe: only a thread with
  the lock on the named inode unlinks.
- `LockTypeCorrect`, `LockExcludes` (`MutualExclusion`), `HeldIsFound`
  (`NameNamesTheHeld`), `UnlinkedAreTombstoned` (`OnlyTombstonedUnlinked`) follow.

*QueueLifecycle, whatever the timing* (`QueueLifecycleProofs`, `QueueStallProofs`).
No step of these arguments uses a timeout, so they hold with stalled workers and tails.
- `PassHoldsTheLock`: `Spec => []PassInv`.  A worker in the locked part of its claim
  pass holds the key's lock, and once it has read the decisions (`ClaimPersist`) the
  generation it is about to hand out is not among them.
- `WithdrawnStaysOut`: `Spec => WithdrawnNeverClaimed`.  Decisions are filed only
  under the free lock, so what the pass has read still stands when it writes the
  first lease.
- `QueueTypes`: `Spec => []TypeOK`.  The types bound what is counted, so they need
  `TypeInv`: a mark is a claim moved aside (`Marks`); a requeue leaves an attempt to
  use, and only decided generations are filed as withdrawn (`Filings`); what a process
  carries from one step to the next is a real claim, and a plan that charges an attempt
  has one left (`Bearings`); and the launches of a generation together with the claims
  still to be launched are no more than the claims there were (`Tally`).
- `ReservationsAreFound`: `Spec => []ReservationFindable`.  The invariant `Home` says
  that every file of the claimed item names one generation and one host, that what is
  reserved is reserved on that host, and that the pass, the reaper and a mark that is
  given back agree with it.  So whoever takes the item up releases where it was held.
- `WorkIsNeverDropped`: `Spec => []NothingDroppedUnrun`.  The invariant `Story` follows
  each generation: it is the ready row or in a file of the claimed item, or it has been
  launched, decided, superseded, replaced or archived with an ending, and none of these
  is ever taken back.  A plan to file a terminal has the attempt in the archive.

*QueueLifecycle with prompt processes* (`QueueContractProofs`), each step resting on
the one before:
- `OneAtWork` (`Solo`): at most one process is inside an operation on the key, the
  claimed item is one file, and it is the one that process works on.
- `OneEnding` (`OneTerminal`) and `CustodyIsKept` (`RunningKeepsCustody`) follow from
  `Safe`: the generation at work has no terminal yet, a cancelled one has its decision,
  and the worker's tokens and lease are its own.
- `NoneIsLost` (`NothingLost`) follows from `Kept`: an archived ending stays, since the
  first writer of an attempt wins.
- `GenerationsInOrder` (`Orderly`): a claim or a mark is older than the ready row,
  everything that ended is older than what is live, and the archive has the
  attempts that were charged and no later one.
- `KeepsTheContract`: `Spec => ImplementsContract`, the refinement of
  `PublicationContract`.  `Orderly` is what makes each step of the queue one step of
  the abstract publication, or a stutter.

*GangAdmission.*
- `GangsStartWhole` (`StartsWhole`) and `ClaimedBesideTheWholeSet`
  (`ClaimedBesideWholeSet`) follow from the inductive `GangInv`.
  Besides the shapes it says that no two loops have one member (`Apart`), that a pass
  has a ready row and a claim's owner a claimed one, on the elected host (`Rows`,
  `Owners`), that a ready mark names the elected host (`Marks`), and that rows beyond
  `ready` were claimed (`Begun`).  `StartsWhole` itself is not inductive: what the
  barrier saw outlives the claims it counted, so `Cleared` says it of the loops that
  were let through and have not launched yet as well.
- The conjunct that makes it inductive is `Reading`.  A loop reads its siblings one by
  one outside every lock but its own member's, so one must say what a half-read set is
  worth: an election that was read stands, because elections are filed once and
  forgotten only when every member of the gang has ended, and the loop's own member
  has not.
- `GangTypes`: `Spec => []TypeOK`.  That a host's free capacity stays between nothing
  and `Capacity` needs `Counted`: the units that are not free can be numbered by the
  loops that have them, one each, so a release never returns what was not taken.
- `NoGangsCrossCommit` (`NoCrossCommit`, with `Capacity = 1`) needs `RankInv`: one loop
  at a time takes a host's census, and nobody of a worse-ranked gang is past the census
  of a host where a member of a live gang has had its place (`Yields`).  Two gangs that
  each held the other's host would each have yielded to the other, and ranks differ.

*EventRing.*
- `RingInvariant`: `RingSpec => []RingInv`.  The kept hints are numbered upwards after
  the floor (`Ordered`) and are exactly the history after the floor
  (`KeptIsTheHistory`); an answer's cursor is not ahead of the ring (`AnswersArePast`).
  A request that passes the floor test can therefore be answered from the ring alone.
- `AnswersAreComplete` (`AnswerIsComplete`) and `SleepersHaveNothing`
  (`SleeperHasNothing`) follow.

*HostWait.*
- `BellTypes`: `Spec => []TypeOK`.
- `UsesTheRing`: `Spec => RingSpec`.  Every step of the composed system is a step of the
  ring's own specification or leaves the ring alone, so the theorems about the ring hold
  of the composition.
- `SleptThroughNothing`: `Spec => []NothingSleptThrough`.  The invariant is `BellInv`.
  A directory that exists is watched, or an event that makes the service watch it is
  unread (`Watching`); coverage has a version (`Versioned`), and the hub's cursors were
  given out by the ring, none with a later version (`Given`); a change of
  the host's own is announced or still to be read (`LocalHeard`); and a change the owner
  has not read is one it has been told to read, or one noted after the cursor that the
  hub goes on from, whichever of its four cursors that is (`Told`).  A change is noted by
  an unread event, by the history, or by a reset: the scan of a directory notes nothing,
  since it finds only the names that are left.  For a new directory it is the change of
  version after the scan (`ResetV2`) that makes the service refuse every older cursor.

The strengthenings were model-checked as well as proved: `LockInv`,
`AdmissionInv` and `PassInv` on the instances of their runs, `GangInv`, `RankInv` and
`Counted` on those of `gang_ends` and `gang_contention` (the latter once with a fault as
well, 6,126,155 states), `RingInv` and `BellInv` on that of `host_wait`, `TypeInv`,
`Home` and `Story` on that of `queue_stalls`, and `Solo`, `Safe`, `Kept` and `Orderly`
on that of `queue_prompt`.  For `Counted` and `Tally`, which say by a numbering that two
counts agree, TLC was given the count itself.

*Only model-checked*: liveness, that is `ComesClean`, `TornGangEnds`,
`ClaimsAreSettled`, `StrandedTokensReturn`, `WaiterGetsTheLock`, `EveryChangeIsRead` and
`EveryPublicationEnds`.  Liveness under fairness, and `ENABLED`, are outside the proof
system's reach.  Every invariant, action property and refinement that a passing run
checks is also a theorem; the properties of section 4 are false, which TLC shows.

## 6. What is not modelled, and why

`PROJECT.json` lists every part with its status and reason.  In short:

* *Admission policy* (which eligible row a worker picks, offers, windows, placement).
  The models let a worker pick any row or none, so their safety results hold for every
  policy.  Starvation is not addressed.  In particular a *waiting* gang need not
  begin: a pass skips a row whose lock another loop has (`pool.py:20057`), and loops
  that visit the members in the same order at the same pace can keep each other from
  the member their own host is elected for.  Whether they do depends on the timing of
  polls, which the models do not have.
* *Capacity estimates.*  A census with an unreadable holder directory estimates what is
  held (`pool.py:4320`).  The estimate is in ResourceLedger, but no property bounds the
  capacity that stays offered.
* *Immutable files, record store, CAS.*  First-writer-wins publication of one file is
  one step of the models that use it; temporary file, link and directory sync are not
  modelled.
* *Staging, residency, funding, window credit, reader leases.*  Layers of their own over
  the token ledger: plans, movements, grants, bindings and pins refer to each other, so
  a pin or a grant modelled alone would leave out what it races with.  ResourceLedger
  shows what they all rest on: tokens are never in two places.
* *Produced output, batches, submission, deferred release.*  Deferred release needs the
  producers' commits, the supersession records and the release tick together; the last
  step of a submission, `publish`, is in QueueLifecycle.
* *Retention and recovery.*  Garbage collection of what has ended; QueueLifecycle never
  deletes an archived attempt.
* *Resource scopes, adaptive CPU and GPU admission, measurement, Slurm lane, runtime
  publication, clients, reporting, inventories, test plug-ins, fleet tools.*  Calls to
  the kernel, to containers or to another scheduler, numeric policy over samples, or
  stateless reading and formatting.

The models cover a small part of the repository's lines: the protocols on which the
rest depends, not the breadth of the program.
