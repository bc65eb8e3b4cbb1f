--------------------------- MODULE ResourceLedger ---------------------------
(***************************************************************************)
(* One token ledger: the directory tree reservations/<owner>/ of pool.py's *)
(* ResourceLedger and of tier_holdings.py's TierLedger.                    *)
(*                                                                         *)
(* Capacity is a set of token files.  A token has a name (kind, index) and *)
(* is acquired, released and handed over by renaming its file between      *)
(*                                                                         *)
(*   free/             tokens anyone may take                              *)
(*   held/<key>/       tokens of an action that owns its claim             *)
(*   held/claiming.../ tokens of a claimant that has not won the claim yet *)
(*   minted/dead/      tokens destroyed while held                         *)
(*                                                                         *)
(* and minted/<name> is a marker: the right to mint that name was used.    *)
(* Each place is a SET of names, so a name in two places at once (phantom  *)
(* capacity) is a state of the model.                                      *)
(*                                                                         *)
(* Every mutator holds the ledger's mutation lock, so one call is one      *)
(* step.  Inside a call each rename may fail (OSError, the loop continues) *)
(* and the process may be killed between two renames: a call moves some    *)
(* subset of the tokens it set out to move.  A tier's mint is three such   *)
(* calls under one holding of the lock and may be killed between them.     *)
(*                                                                         *)
(* Definitions named Faulty... are the definition below them with a bug    *)
(* put in; they show that the properties can fail.                         *)
(***************************************************************************)
EXTENDS Integers, FiniteSets

CONSTANTS
  Kinds,       \* resource kinds: cpu, gpu, mem_gb, a tier's stage_gib ...
  Keys,        \* action keys
  Handles,     \* names of claimant-private directories held/claiming.*
  MaxIndex,    \* bound on the capacity of one kind that is ever declared
  TierLedger   \* TRUE: a tier's ledger, FALSE: a host's ledger

ASSUME LedgerAssumption ==
  /\ MaxIndex \in Nat
  /\ IsFiniteSet(Kinds)
  /\ Keys \cap Handles = {}
  /\ TierLedger \in BOOLEAN

Tokens == Kinds \X (0..MaxIndex-1)
Kind(t) == t[1]
Index(t) == t[2]
Holders == Keys \cup Handles
Capacities == [Kinds -> 0..MaxIndex]

VARIABLES
  free,      \* free/
  held,      \* held/<holder>/ for every holder, private ones included
  minted,    \* minted/, the markers
  dead,      \* minted/dead/
  mint,      \* the step a tier mint has reached while it holds the lock
  acq,       \* what each claimant believes of the handle it was given
  claimed,   \* keys whose ready record has been renamed into claimed/
  owed       \* tokens on which the claim of each key was admitted to run

places == <<free, held, minted, dead>>
claims == <<acq, claimed, owed>>
vars == <<free, held, minted, dead, mint, acq, claimed, owed>>

HeldNames == UNION {held[h] : h \in Holders}
Live == free \cup HeldNames
OfKind(S, kind) == {t \in S : Kind(t) = kind}

NoClaim == [phase |-> "none"]
Acquisition(phase, key, took) == [phase |-> phase, key |-> key, took |-> took]
InPhase(a, phase) == Acquisition(phase, a.key, a.took)
Acquisitions ==
  {NoClaim} \cup
  [phase : {"begun", "won", "orphan"}, key : Keys, took : SUBSET Tokens]

IdleMint == [phase |-> "idle"]
Mints == {IdleMint} \cup
         [phase : {"reclaim", "ensure", "retire"}, wanted : Capacities]

\* No mint section holds the mutation lock (_guarded_mutation).
Unlocked == mint = IdleMint

\* Every place holds names of declared capacity only, and every claimant is
\* in a phase the claim path knows.
TypeOK ==
  /\ free \subseteq Tokens
  /\ held \in [Holders -> SUBSET Tokens]
  /\ minted \subseteq Tokens
  /\ dead \subseteq Tokens
  /\ mint \in Mints
  /\ acq \in [Handles -> Acquisitions]
  /\ claimed \subseteq Keys
  /\ owed \in [Keys -> SUBSET Tokens]

Init ==
  /\ free = {}
  /\ held = [h \in Holders |-> {}]
  /\ minted = {}
  /\ dead = {}
  /\ mint = IdleMint
  /\ acq = [h \in Handles |-> NoClaim]
  /\ claimed = {}
  /\ owed = [k \in Keys |-> {}]

-----------------------------------------------------------------------------
(* Capacity: minting, adopting, retiring and reclaiming names.             *)

\* Only the directories of action keys are searched.
FaultyUnheld(S) == S \ UNION {held[k] : k \in Keys}

\* _token_is_held searches every holder directory, private ones included.
Unheld(S) == S \ HeldNames

\* range(count + 1).
FaultyDeclared(caps) == UNION {{kind} \X (0..caps[kind]) : kind \in Kinds}

\* The names a declared capacity stands for: range(count) of each kind.
Declared(caps) == UNION {{kind} \X (0..caps[kind]-1) : kind \in Kinds}

\* ensure_capacity: adopt every token that is present without a marker, then
\* create marker and token of each index below the declared count that has
\* no marker, lowest first.  Adoption of a name may fail.  A call that is cut
\* short after creating a marker leaves that one name without a token.
GrowTo(caps) ==
  \E adopted \in SUBSET (Live \ minted) :
    LET missing == Declared(caps) \ (minted \cup adopted)
    IN \E made \in SUBSET missing : \E lost \in SUBSET made :
         /\ \A t \in made, u \in missing :
              Kind(u) = Kind(t) /\ Index(u) < Index(t) => u \in made
         /\ Cardinality(lost) <= 1
         /\ \A t \in lost, u \in made :
              Kind(u) = Kind(t) => Index(u) <= Index(t)
         /\ minted' = minted \cup adopted \cup made
         /\ free' = free \cup (Unheld(made) \ lost)
         /\ UNCHANGED <<held, dead>>

\* The number of free tokens of a kind that retire_free_capacity removes.  A
\* holder directory in blind cannot be listed: then every marked name that is
\* neither free nor dead counts as held, and without the markers every free
\* token goes.
Excess(kind, target, blind, markersListed) ==
  LET freeOf == OfKind(free, kind)
      seen == OfKind(UNION {held[h] : h \in Holders \ blind}, kind)
      heldOf == IF blind = {} THEN seen
                ELSE seen \cup (OfKind(minted, kind) \ (freeOf \cup dead))
      over == Cardinality(freeOf) + Cardinality(heldOf) - target
  IN IF blind # {} /\ ~markersListed THEN Cardinality(freeOf)
     ELSE IF over > 0 THEN over ELSE 0

\* The highest-numbered free tokens of a kind, as many as are in excess.
Retirable(kind, n) ==
  {t \in OfKind(free, kind) :
     Cardinality({u \in OfKind(free, kind) : Index(u) > Index(t)}) < n}

\* retire_free_capacity: marker first, then token.  A token in unmarked lost
\* its marker and stayed: its own unlink failed, or the process was killed.
TrimTo(targets, blind, markersListed) ==
  LET picked == UNION {Retirable(kind,
                         Excess(kind, targets[kind], blind, markersListed)) :
                       kind \in DOMAIN targets}
  IN \E gone \in SUBSET picked : \E unmarked \in SUBSET (picked \ gone) :
       /\ minted' = minted \ (gone \cup unmarked)
       /\ free' = free \ gone
       /\ UNCHANGED <<held, dead>>

\* A host's claim poll declares its capacity (ensure_capacity).
EnsureCapacity(caps) ==
  /\ ~TierLedger
  /\ Unlocked
  /\ GrowTo(caps)
  /\ UNCHANGED <<mint, claims>>

\* A host's claim poll lowers its offer (retire_free_capacity).
RetireFree(kind, target, blind, markersListed) ==
  /\ ~TierLedger
  /\ Unlocked
  /\ TrimTo([c \in {kind} |-> target], blind, markersListed)
  /\ UNCHANGED <<mint, claims>>

\* _reclaim_mint: drop the dead copy of a name that is live, and reissue
\* dead names while the kind's live count is below what is wanted.
Reclaim(wanted) ==
  \E dropped \in SUBSET (dead \cap Live) :
  \E back \in SUBSET (dead \ Live) :
    /\ \A kind \in Kinds :
         OfKind(back, kind) # {} =>
           Cardinality(OfKind(Live \cup back, kind)) <= wanted[kind]
    /\ dead' = dead \ (dropped \cup back)
    /\ free' = free \cup back
    /\ UNCHANGED <<held, minted>>

\* mint / mint_guarded: take the tier's mint lock with a wanted capacity.
MintBegin(wanted) ==
  /\ TierLedger
  /\ Unlocked
  /\ mint' = [phase |-> "reclaim", wanted |-> wanted]
  /\ UNCHANGED <<places, claims>>

MintReclaim ==
  /\ mint.phase = "reclaim"
  /\ Reclaim(mint.wanted)
  /\ mint' = [mint EXCEPT !.phase = "ensure"]
  /\ UNCHANGED claims

MintEnsure ==
  /\ mint.phase = "ensure"
  /\ GrowTo(mint.wanted)
  /\ mint' = [mint EXCEPT !.phase = "retire"]
  /\ UNCHANGED claims

MintRetire(blind, markersListed) ==
  /\ mint.phase = "retire"
  /\ TrimTo(mint.wanted, blind, markersListed)
  /\ mint' = IdleMint
  /\ UNCHANGED claims

\* The minting process dies and the kernel drops its lock.
MintCrash ==
  /\ ~Unlocked
  /\ mint' = IdleMint
  /\ UNCHANGED <<places, claims>>

-----------------------------------------------------------------------------
(* Moving tokens between holders.                                          *)

\* _empty_into_free on one holder directory.
EmptyIntoFree(h, back) ==
  /\ held' = [held EXCEPT ![h] = @ \ back]
  /\ free' = free \cup back
  /\ UNCHANGED <<minted, dead, mint>>

\* _begin_acquire_locked: the whole demand of free tokens moves to a private
\* directory and the claimant gets the handle.
BeginAcquire(h, k, take) ==
  /\ Unlocked
  /\ acq[h] = NoClaim /\ held[h] = {}
  /\ free' = free \ take
  /\ held' = [held EXCEPT ![h] = take]
  /\ acq' = [acq EXCEPT ![h] = Acquisition("begun", k, take)]
  /\ UNCHANGED <<minted, dead, mint, claimed, owed>>

\* The same call cut short, or rolled back with renames that failed: some
\* tokens stay in a private directory nobody was told about.
BeginAcquireFails(h, k, stuck) ==
  /\ Unlocked
  /\ acq[h] = NoClaim /\ held[h] = {}
  /\ stuck # {}
  /\ free' = free \ stuck
  /\ held' = [held EXCEPT ![h] = stuck]
  /\ acq' = [acq EXCEPT ![h] = Acquisition("orphan", k, stuck)]
  /\ UNCHANGED <<minted, dead, mint, claimed, owed>>

\* The rename of ready/<key> into claimed/ that decides between claimants
\* (_rename_and_commit_claim).
WinRename(h) ==
  /\ acq[h].phase = "begun"
  /\ acq[h].key \notin claimed
  /\ claimed' = claimed \cup {acq[h].key}
  /\ acq' = [acq EXCEPT ![h] = InPhase(@, "won")]
  /\ UNCHANGED <<places, mint, owed>>

\* A claimant gives its handle back before winning anything: abandon_acquire
\* on a refusal, a lost rename or an exception.
AbandonAcquire(h) ==
  /\ Unlocked
  /\ acq[h].phase = "begun"
  /\ \E back \in SUBSET held[h] :
       /\ EmptyIntoFree(h, back)
       /\ acq' = [acq EXCEPT ![h] =
                    IF back = held[h] THEN NoClaim ELSE InPhase(@, "orphan")]
  /\ UNCHANGED <<claimed, owed>>

\* The number of tokens that were filed is not compared with the demand.
FaultyCommitAcquire(h) ==
  LET k == acq[h].key IN
  /\ Unlocked
  /\ acq[h].phase = "won"
  /\ \E moved \in SUBSET (held[h] \ held[k]) :
       /\ held' = [held EXCEPT ![h] = @ \ moved, ![k] = @ \cup moved]
       /\ owed' = [owed EXCEPT ![k] = acq[h].took]
  /\ acq' = [acq EXCEPT ![h] = NoClaim]
  /\ UNCHANGED <<free, minted, dead, mint, claimed>>

\* commit_acquire by the winner, every token filed under the action key: a
\* name already there is left behind, and the count decides whether to run.
CommitAcquire(h) ==
  LET k == acq[h].key IN
  /\ Unlocked
  /\ acq[h].phase = "won"
  /\ \E moved \in SUBSET (held[h] \ held[k]) :
       /\ Cardinality(moved) >= Cardinality(acq[h].took)
       /\ held' = [held EXCEPT ![h] = @ \ moved, ![k] = @ \cup moved]
       /\ owed' = [owed EXCEPT ![k] = acq[h].took]
  /\ acq' = [acq EXCEPT ![h] = NoClaim]
  /\ UNCHANGED <<free, minted, dead, mint, claimed>>

\* commit_acquire that filed too few tokens: COMMITTED_RETRY abandons the
\* handle, releases the key and puts the item back in ready/.
CommitShort(h) ==
  LET k == acq[h].key IN
  /\ Unlocked
  /\ acq[h].phase = "won"
  /\ \E moved \in SUBSET (held[h] \ held[k]) :
     \E stuckH \in SUBSET (held[h] \ moved) :
     \E stuckK \in SUBSET (held[k] \cup moved) :
       /\ Cardinality(moved) < Cardinality(acq[h].took)
       /\ held' = [held EXCEPT ![h] = stuckH, ![k] = stuckK]
       /\ free' = free \cup ((held[h] \cup held[k]) \ (stuckH \cup stuckK))
       /\ acq' = [acq EXCEPT ![h] =
                    IF stuckH = {} THEN NoClaim ELSE InPhase(@, "orphan")]
  /\ claimed' = claimed \ {k}
  /\ UNCHANGED <<minted, dead, mint, owed>>

\* The claimant process dies holding its handle.
ClaimantCrash(h) ==
  /\ acq[h].phase \in {"begun", "won"}
  /\ acq' = [acq EXCEPT ![h] = InPhase(@, "orphan")]
  /\ UNCHANGED <<places, mint, claimed, owed>>

\* The tokens the handle was given are returned, not those it still has.
FaultySweepStale(h, back) ==
  /\ Unlocked
  /\ acq[h] # NoClaim
  /\ held' = [held EXCEPT ![h] = {}]
  /\ free' = free \cup acq[h].took
  /\ acq' = IF acq[h].phase = "orphan" THEN [acq EXCEPT ![h] = NoClaim] ELSE acq
  /\ UNCHANGED <<minted, dead, mint, claimed, owed>>

\* Handles whose claimant died are passed over.
FaultySweepLiving(h, back) ==
  /\ Unlocked
  /\ acq[h].phase \in {"begun", "won"}
  /\ EmptyIntoFree(h, back)
  /\ UNCHANGED <<acq, claimed, owed>>

\* sweep_stale_acquisitions on one private directory older than the grace.
\* Age is not the claimant's death: a slow claimant is swept too and goes on
\* believing in its handle.
SweepStale(h, back) ==
  /\ Unlocked
  /\ acq[h] # NoClaim
  /\ EmptyIntoFree(h, back)
  /\ acq' = IF acq[h].phase = "orphan" /\ back = held[h]
            THEN [acq EXCEPT ![h] = NoClaim] ELSE acq
  /\ UNCHANGED <<claimed, owed>>

\* release of a key whose claim is being concluded, by its worker or by a
\* reaper.  Reapers and claimants exclude each other by the key's transition
\* lock, so no claimant is between its rename and its commit.  The claim and
\* what it was owed end with it; that a worker may release, without the lock,
\* a key somebody else has claimed since is QueueLifecycle's subject.
Release(k, back) ==
  /\ Unlocked
  /\ \A h \in Handles : ~(acq[h].phase = "won" /\ acq[h].key = k)
  /\ EmptyIntoFree(k, back)
  /\ claimed' = claimed \ {k}
  /\ owed' = [owed EXCEPT ![k] = {}]
  /\ UNCHANGED acq

\* release_kinds, release_except, release_count: a tier holder gives part of
\* its reservation back, and with it the promise it was admitted on.
ReleasePart(k, back) ==
  /\ TierLedger
  /\ Unlocked
  /\ EmptyIntoFree(k, back)
  /\ owed' = [owed EXCEPT ![k] = {}]
  /\ UNCHANGED <<acq, claimed>>

\* transfer, transfer_count, transfer_tokens: between two action keys, never
\* by way of free/, never over a name the destination already has.
Transfer(from, to, moved) ==
  /\ TierLedger
  /\ Unlocked
  /\ from # to
  /\ moved \subseteq held[from] \ held[to]
  /\ held' = [held EXCEPT ![from] = @ \ moved, ![to] = @ \cup moved]
  /\ owed' = [owed EXCEPT ![from] = {}]
  /\ UNCHANGED <<free, minted, dead, mint, acq, claimed>>

\* retire_held: destroy held tokens, leaving their markers alone.
RetireHeld(k, destroyed) ==
  /\ TierLedger
  /\ Unlocked
  /\ held' = [held EXCEPT ![k] = @ \ destroyed]
  /\ dead' = dead \cup destroyed
  /\ owed' = [owed EXCEPT ![k] = {}]
  /\ UNCHANGED <<free, minted, mint, acq, claimed>>

-----------------------------------------------------------------------------
Capacity ==
  \/ \E caps \in Capacities : EnsureCapacity(caps) \/ MintBegin(caps)
  \/ \E kind \in Kinds, target \in 0..MaxIndex, blind \in SUBSET Holders,
        listed \in BOOLEAN : RetireFree(kind, target, blind, listed)
  \/ MintReclaim
  \/ MintEnsure
  \/ \E blind \in SUBSET Holders, listed \in BOOLEAN : MintRetire(blind, listed)
  \/ MintCrash

Claim ==
  \E h \in Handles :
    \/ \E k \in Keys, take \in SUBSET free :
         BeginAcquire(h, k, take) \/ BeginAcquireFails(h, k, take)
    \/ WinRename(h)
    \/ AbandonAcquire(h)
    \/ CommitAcquire(h)
    \/ CommitShort(h)
    \/ ClaimantCrash(h)
    \/ \E back \in SUBSET held[h] : SweepStale(h, back)

Holding ==
  \E k \in Keys :
    \/ \E back \in SUBSET held[k] : Release(k, back) \/ ReleasePart(k, back)
    \/ \E destroyed \in SUBSET held[k] : RetireHeld(k, destroyed)
    \/ \E to \in Keys, moved \in SUBSET held[k] : Transfer(k, to, moved)

Next == Capacity \/ Claim \/ Holding

Spec == Init /\ [][Next]_vars

\* What the fleet repeats for ever: a mint section runs to its end, and every
\* reaper pass sweeps stale handles.  SF for the sweep: its wait for the
\* mutation lock is interrupted by mints but always resumed.
Fairness ==
  /\ WF_vars(MintReclaim)
  /\ WF_vars(MintEnsure)
  /\ WF_vars(\E blind \in SUBSET Holders, listed \in BOOLEAN :
               MintRetire(blind, listed))
  /\ \A h \in Handles : SF_vars(SweepStale(h, held[h]))

FairSpec == Spec /\ Fairness

-----------------------------------------------------------------------------
\* Custody (floor_snapshot: "duplicate custody", "conflicting token
\* custody"): a token name exists in at most one of free/ and the holder
\* directories, whatever calls fail or are killed half-way.  A name in two
\* places would be admitted twice.
SoleCustody ==
  /\ \A h \in Holders : free \cap held[h] = {}
  /\ \A g, h \in Holders : g # h => held[g] \cap held[h] = {}

\* Fail-closed commit: while an action runs, the very tokens its claim was
\* admitted on are still filed under its key, although sweeps, losing
\* claimants and crashed claimants return tokens around it.
RunningHoldsItsTokens ==
  \A k \in Keys : owed[k] \subseteq held[k]

\* What makes the fail-closed commit inductive: a private directory holds
\* nothing its claimant did not take, a key is won by one claimant at a time,
\* and no action runs under a key whose winner has not committed yet.
AdmissionInv ==
  /\ \A h \in Handles : acq[h] # NoClaim => held[h] \subseteq acq[h].took
  /\ \A h \in Handles : acq[h].phase = "won" =>
       acq[h].key \in claimed /\ owed[acq[h].key] = {}
  /\ \A g, h \in Handles :
       acq[g].phase = "won" /\ acq[h].phase = "won" /\ acq[g].key = acq[h].key => g = h
  /\ \A k \in Keys : owed[k] # {} => k \in claimed
  /\ RunningHoldsItsTokens

\* Between mints capacity is conserved: no acquire, release, transfer or
\* sweep makes a name live that was not live (retirement and destruction
\* may remove one).
OnlyMintGrows ==
  [][Live' \subseteq Live \/ ~Unlocked \/ (\E caps \in Capacities : EnsureCapacity(caps))]_vars

\* A destroyed token stays destroyed until a mint reissues it: its name is
\* never live while the dead copy exists (retire_held: "the name can never be
\* re-minted into free while the bytes remain").
DeadIsNotLive == Unlocked => dead \cap Live = {}

\* Tokens stranded in a private directory by a claimant that died come back
\* to free/ in the end.
StrandedTokensReturn ==
  \A h \in Handles :
    (acq[h] # NoClaim /\ acq[h].phase = "orphan" /\ held[h] # {}) ~> (held[h] = {})
=============================================================================
