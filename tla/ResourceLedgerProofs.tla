------------------------ MODULE ResourceLedgerProofs ------------------------
(***************************************************************************)
(* Proofs about ResourceLedger for any kinds, keys, claimants and declared *)
(* capacity: custody of the tokens first, then where capacity comes from.  *)
(***************************************************************************)
EXTENDS ResourceLedger, FiniteSetTheorems, TLAPS

\* Leaves are first-order and left to Zenon; the ones that reckon, or take records
\* apart, cite SMT.
USE Zenon

\* There are finitely many token names: capacity is bounded per kind.
LEMMA TokensFinite == IsFiniteSet(Tokens)
<1>1. IsFiniteSet(0..MaxIndex-1)
  BY FS_Interval, LedgerAssumption, SMT
<1>2. IsFiniteSet(Kinds \X (0..MaxIndex-1))
  BY <1>1, FS_Product, LedgerAssumption
<1> QED BY <1>2 DEF Tokens

\* What a call of ensure_capacity does to the places, forgetting the order in
\* which it works: it adds tokens that are nowhere live.
LEMMA GrowAddsFreshTokens ==
  ASSUME TypeOK, NEW caps \in Capacities, GrowTo(caps)
  PROVE  /\ free \subseteq free' /\ free' \subseteq Tokens
         /\ minted' \subseteq Tokens
         /\ held' = held /\ dead' = dead
         /\ \A h \in Holders : (free' \ free) \cap held[h] = {}
<1>0. Declared(caps) \subseteq Tokens
  <2> SUFFICES ASSUME NEW kind \in Kinds, NEW i \in 0..caps[kind]-1
               PROVE  <<kind, i>> \in Tokens
    BY SMT DEF Declared
  <2>1. caps[kind] \in 0..MaxIndex
    BY DEF Capacities
  <2> QED BY <2>1, LedgerAssumption, SMT DEF Tokens
<1>1. PICK adopted \in SUBSET (Live \ minted) :
        \E made \in SUBSET (Declared(caps) \ (minted \cup adopted)) :
        \E lost \in SUBSET made :
           /\ minted' = minted \cup adopted \cup made
           /\ free' = free \cup (made \ (HeldNames \cup lost))
           /\ UNCHANGED <<held, dead>>
  BY SMT DEF GrowTo, Unheld
<1>2. PICK made \in SUBSET Tokens, lost \in SUBSET Tokens :
           /\ minted' = minted \cup adopted \cup made
           /\ free' = free \cup (made \ (HeldNames \cup lost))
           /\ UNCHANGED <<held, dead>>
  BY <1>0, <1>1
<1>3. Live \subseteq Tokens
  BY DEF Live, HeldNames, TypeOK
<1>4. \A h \in Holders : held[h] \subseteq HeldNames
  BY DEF HeldNames
<1> QED BY <1>2, <1>3, <1>4 DEF TypeOK

\* A mint under way carries a capacity.
LEMMA MintWantsACapacity ==
  ASSUME TypeOK, mint.phase = "ensure"
  PROVE  mint.wanted \in Capacities
BY SMT DEF TypeOK, Mints, IdleMint

\* What a call of retire_free_capacity does: it only removes free tokens.
LEMMA TrimRemovesFreeTokens ==
  ASSUME TypeOK, NEW targets, NEW blind, NEW listed,
         TrimTo(targets, blind, listed)
  PROVE  /\ free' \subseteq free
         /\ minted' \subseteq minted
         /\ held' = held /\ dead' = dead
<1>1. \E gone, unmarked : /\ minted' = minted \ (gone \cup unmarked)
                          /\ free' = free \ gone
                          /\ UNCHANGED <<held, dead>>
  BY DEF TrimTo
<1> QED BY <1>1

-----------------------------------------------------------------------------
\* Every variable keeps its type: token sets hold token names, a claimant's
\* receipt names a key and the tokens it took.
THEOREM TypeCorrect == Spec => []TypeOK
<1>1. Init => TypeOK
  BY SMTT(30) DEF Init, TypeOK, Mints, Acquisitions
<1>2. TypeOK /\ [Next]_vars => TypeOK'
  <2> SUFFICES ASSUME TypeOK, [Next]_vars PROVE TypeOK'
    OBVIOUS
  <2> USE DEF TypeOK, claims, places
  <2>1. ASSUME NEW caps \in Capacities, EnsureCapacity(caps) PROVE TypeOK'
    BY <2>1, GrowAddsFreshTokens DEF EnsureCapacity
  <2>2. ASSUME NEW caps \in Capacities, MintBegin(caps) PROVE TypeOK'
    BY <2>2 DEF MintBegin, Mints
  <2>3. ASSUME NEW kind, NEW target, NEW blind, NEW listed,
               RetireFree(kind, target, blind, listed)
        PROVE TypeOK'
    <3>1. TrimTo([c \in {kind} |-> target], blind, listed)
      BY <2>3 DEF RetireFree
    <3> QED BY <2>3, <3>1, TrimRemovesFreeTokens DEF RetireFree
  <2>4. CASE MintReclaim
    <3>1. mint' \in Mints
      BY <2>4, SMT DEF MintReclaim, Mints, IdleMint
    <3>2. \E dropped, back \in SUBSET dead :
            /\ dead' = dead \ (dropped \cup back)
            /\ free' = free \cup back
            /\ UNCHANGED <<held, minted>>
      BY <2>4, ZenonT(60) DEF MintReclaim, Reclaim
    <3> QED BY <2>4, <3>1, <3>2 DEF MintReclaim
  <2>5. CASE MintEnsure
    <3>1. mint' \in Mints
      BY <2>5, SMT DEF MintEnsure, Mints, IdleMint
    <3>2. GrowTo(mint.wanted) /\ mint.wanted \in Capacities
      BY <2>5, MintWantsACapacity DEF MintEnsure
    <3> QED BY <2>5, <3>1, <3>2, GrowAddsFreshTokens DEF MintEnsure
  <2>6. ASSUME NEW blind, NEW listed, MintRetire(blind, listed) PROVE TypeOK'
    <3>1. TrimTo(mint.wanted, blind, listed)
      BY <2>6 DEF MintRetire
    <3> QED BY <2>6, <3>1, TrimRemovesFreeTokens DEF MintRetire, Mints
  <2>7. CASE MintCrash
    BY <2>7 DEF MintCrash, Mints
  <2>8. ASSUME NEW h \in Handles, NEW k \in Keys, NEW take \in SUBSET free,
               BeginAcquire(h, k, take) \/ BeginAcquireFails(h, k, take)
        PROVE TypeOK'
    BY <2>8, SMT DEF BeginAcquire, BeginAcquireFails, Acquisition, Acquisitions, Holders
  <2>9. ASSUME NEW h \in Handles, WinRename(h) PROVE TypeOK'
    BY <2>9, SMT DEF WinRename, Acquisitions, NoClaim, InPhase, Acquisition
  <2>10. ASSUME NEW h \in Handles, AbandonAcquire(h) PROVE TypeOK'
    <3>1. PICK back \in SUBSET held[h] :
            /\ EmptyIntoFree(h, back)
            /\ acq' = [acq EXCEPT ![h] = IF back = held[h] THEN NoClaim
                                         ELSE InPhase(@, "orphan")]
      BY <2>10, ZenonT(60) DEF AbandonAcquire
    <3>2. acq' \in [Handles -> Acquisitions]
      BY <2>10, <3>1, SMT DEF AbandonAcquire, Acquisitions, NoClaim, InPhase, Acquisition
    <3> QED BY <2>10, <3>1, <3>2 DEF AbandonAcquire, EmptyIntoFree, Holders
  <2>11. ASSUME NEW h \in Handles, CommitAcquire(h) PROVE TypeOK'
    <3>1. acq[h].key \in Keys /\ acq[h].took \in SUBSET Tokens
      BY <2>11, SMT DEF CommitAcquire, Acquisitions, NoClaim
    <3> QED BY <2>11, <3>1, SMT DEF CommitAcquire, Acquisitions, Holders
  <2>12. ASSUME NEW h \in Handles, CommitShort(h) PROVE TypeOK'
    <3>1. acq[h].key \in Keys
      BY <2>12, SMT DEF CommitShort, Acquisitions, NoClaim, InPhase, Acquisition
    <3>2. acq' \in [Handles -> Acquisitions]
      BY <2>12, SMT DEF CommitShort, Acquisitions, NoClaim, InPhase, Acquisition
    <3>3. held' \in [Holders -> SUBSET Tokens] /\ free' \subseteq Tokens
      BY <2>12, <3>1, SMT DEF CommitShort, Holders
    <3> QED BY <2>12, <3>2, <3>3 DEF CommitShort
  <2>13. ASSUME NEW h \in Handles, ClaimantCrash(h) PROVE TypeOK'
    BY <2>13, SMT DEF ClaimantCrash, Acquisitions, NoClaim, InPhase, Acquisition
  <2>14. ASSUME NEW h \in Handles, NEW back \in SUBSET held[h], SweepStale(h, back)
         PROVE TypeOK'
    BY <2>14 DEF SweepStale, EmptyIntoFree, Acquisitions, Holders
  <2>15. ASSUME NEW k \in Keys, NEW back \in SUBSET held[k],
                Release(k, back) \/ ReleasePart(k, back)
         PROVE TypeOK'
    BY <2>15 DEF Release, ReleasePart, EmptyIntoFree, Holders
  <2>16. ASSUME NEW k \in Keys, NEW destroyed \in SUBSET held[k], RetireHeld(k, destroyed)
         PROVE TypeOK'
    BY <2>16 DEF RetireHeld, Holders
  <2>17. ASSUME NEW k \in Keys, NEW to \in Keys, NEW moved \in SUBSET held[k],
                Transfer(k, to, moved)
         PROVE TypeOK'
    BY <2>17 DEF Transfer, Holders
  <2>18. CASE UNCHANGED vars
    BY <2>18, SMTT(30) DEF vars
  <2> QED
    BY <2>1, <2>2, <2>3, <2>4, <2>5, <2>6, <2>7, <2>8, <2>9, <2>10, <2>11, <2>12,
       <2>13, <2>14, <2>15, <2>16, <2>17, <2>18 DEF Next, Capacity, Claim, Holding
<1> QED BY <1>1, <1>2, PTL DEF Spec

-----------------------------------------------------------------------------
\* The strengthening that makes SoleCustody inductive is TypeOK alone: every
\* step moves names out of the place it puts them from, or mints a name that
\* is live nowhere.
LEMMA CustodyStep ==
  ASSUME TypeOK, SoleCustody, [Next]_vars PROVE SoleCustody'
<1> USE DEF TypeOK, SoleCustody, claims, places, Holders
<1>1. ASSUME NEW caps \in Capacities, EnsureCapacity(caps) PROVE SoleCustody'
  BY <1>1, GrowAddsFreshTokens DEF EnsureCapacity
<1>2. ASSUME NEW caps \in Capacities, MintBegin(caps) PROVE SoleCustody'
  BY <1>2 DEF MintBegin
<1>3. ASSUME NEW kind, NEW target, NEW blind, NEW listed,
             RetireFree(kind, target, blind, listed)
      PROVE SoleCustody'
  <2>1. TrimTo([c \in {kind} |-> target], blind, listed)
    BY <1>3 DEF RetireFree
  <2> QED BY <2>1, TrimRemovesFreeTokens
<1>4. CASE MintReclaim
  <2>1. PICK back \in SUBSET (dead \ Live) : /\ free' = free \cup back
                                             /\ UNCHANGED held
    BY <1>4 DEF MintReclaim, Reclaim
  <2>2. \A h \in Holders : back \cap held[h] = {}
    BY <2>1, SMT DEF Live, HeldNames
  <2> QED BY <2>1, <2>2
<1>5. CASE MintEnsure
  <2>1. GrowTo(mint.wanted) /\ mint.wanted \in Capacities
    BY <1>5, MintWantsACapacity DEF MintEnsure
  <2> QED BY <2>1, GrowAddsFreshTokens
<1>6. ASSUME NEW blind, NEW listed, MintRetire(blind, listed) PROVE SoleCustody'
  <2>1. TrimTo(mint.wanted, blind, listed)
    BY <1>6 DEF MintRetire
  <2> QED BY <2>1, TrimRemovesFreeTokens
<1>7. CASE MintCrash
  BY <1>7 DEF MintCrash
<1>8. ASSUME NEW h \in Handles, NEW k \in Keys, NEW take \in SUBSET free,
             BeginAcquire(h, k, take) \/ BeginAcquireFails(h, k, take)
      PROVE SoleCustody'
  <2>1. free' = free \ take /\ held' = [held EXCEPT ![h] = take]
    BY <1>8 DEF BeginAcquire, BeginAcquireFails
  <2> QED BY <2>1
<1>9. ASSUME NEW h \in Handles, WinRename(h) \/ ClaimantCrash(h) PROVE SoleCustody'
  BY <1>9 DEF WinRename, ClaimantCrash
<1>10. ASSUME NEW h \in Holders, NEW back \in SUBSET held[h], EmptyIntoFree(h, back)
       PROVE SoleCustody'
  BY <1>10 DEF EmptyIntoFree
<1>11. ASSUME NEW h \in Handles, AbandonAcquire(h) PROVE SoleCustody'
  BY <1>10, <1>11 DEF AbandonAcquire
<1>12. ASSUME NEW h \in Handles, CommitAcquire(h) PROVE SoleCustody'
  <2>1. acq[h].key \in Keys
    BY <1>12, SMT DEF CommitAcquire, Acquisitions, NoClaim
  <2>2. acq[h].key # h
    BY <2>1, LedgerAssumption
  <2>3. PICK moved \in SUBSET held[h] :
          held' = [held EXCEPT ![h] = @ \ moved, ![acq[h].key] = @ \cup moved]
    BY <1>12, ZenonT(60) DEF CommitAcquire
  <2>4. free' = free
    BY <1>12 DEF CommitAcquire
  <2> QED BY <2>1, <2>2, <2>3, <2>4
<1>13. ASSUME NEW h \in Handles, CommitShort(h) PROVE SoleCustody'
  <2>1. acq[h].key \in Keys
    BY <1>13, SMT DEF CommitShort, Acquisitions, NoClaim, InPhase, Acquisition
  <2>2. acq[h].key # h
    BY <2>1, LedgerAssumption
  <2>3. PICK moved \in SUBSET held[h], stuckH \in SUBSET Tokens, stuckK \in SUBSET Tokens :
          /\ stuckH \subseteq held[h] \ moved
          /\ stuckK \subseteq held[acq[h].key] \cup moved
          /\ held' = [held EXCEPT ![h] = stuckH, ![acq[h].key] = stuckK]
          /\ free' = free \cup ((held[h] \cup held[acq[h].key]) \ (stuckH \cup stuckK))
    BY <1>13, <2>1, ZenonT(60) DEF CommitShort
  <2>4. stuckH \cap stuckK = {}
    BY <2>1, <2>2, <2>3
  <2> QED BY <2>1, <2>2, <2>3, <2>4
<1>14. ASSUME NEW h \in Handles, NEW back \in SUBSET held[h], SweepStale(h, back)
       PROVE SoleCustody'
  BY <1>10, <1>14 DEF SweepStale
<1>15. ASSUME NEW k \in Keys, NEW back \in SUBSET held[k],
              Release(k, back) \/ ReleasePart(k, back)
       PROVE SoleCustody'
  BY <1>10, <1>15 DEF Release, ReleasePart
<1>16. ASSUME NEW k \in Keys, NEW destroyed \in SUBSET held[k], RetireHeld(k, destroyed)
       PROVE SoleCustody'
  BY <1>16 DEF RetireHeld
<1>17. ASSUME NEW k \in Keys, NEW to \in Keys, NEW moved \in SUBSET held[k],
              Transfer(k, to, moved)
       PROVE SoleCustody'
  BY <1>17 DEF Transfer
<1>18. CASE UNCHANGED vars
  BY <1>18 DEF vars
<1> QED
  BY <1>1, <1>2, <1>3, <1>4, <1>5, <1>6, <1>7, <1>8, <1>9, <1>11, <1>12, <1>13,
     <1>14, <1>15, <1>16, <1>17, <1>18 DEF Next, Capacity, Claim, Holding

\* No token name is ever in two places at once, for any capacity, any number
\* of claimants and any pattern of failed renames and killed processes: the
\* condition floor_snapshot refuses to count under otherwise.
THEOREM Custody == Spec => []SoleCustody
<1>1. Init => SoleCustody
  BY DEF Init, SoleCustody
<1>2. TypeOK /\ SoleCustody /\ [Next]_vars => SoleCustody'
  BY CustodyStep
<1> QED BY <1>1, <1>2, TypeCorrect, PTL DEF Spec

-----------------------------------------------------------------------------
\* A step that leaves the claims and the holder directories alone cannot
\* disturb an admission.
LEMMA AdmissionFrame ==
  ASSUME AdmissionInv, UNCHANGED <<held, acq, claimed, owed>>
  PROVE  AdmissionInv'
BY DEF AdmissionInv, RunningHoldsItsTokens

\* A commit files exactly the tokens its claimant took: it counts the tokens
\* it moved, and a private directory never holds more than was taken.
LEMMA CommitFilesWhatWasTaken ==
  ASSUME TypeOK, AdmissionInv, NEW h \in Handles, CommitAcquire(h)
  PROVE  /\ acq[h].key \in Keys
         /\ acq[h].took \subseteq held'[acq[h].key]
         /\ \E moved : held' = [held EXCEPT ![h] = @ \ moved,
                                            ![acq[h].key] = @ \cup moved]
<1>1. acq[h].phase = "won" /\ acq[h] # NoClaim
  BY SMT DEF CommitAcquire, NoClaim
<1>2. acq[h].key \in Keys /\ acq[h].took \in SUBSET Tokens
  BY <1>1 DEF TypeOK, Acquisitions
<1>3. PICK moved \in SUBSET (held[h] \ held[acq[h].key]) :
        /\ Cardinality(moved) >= Cardinality(acq[h].took)
        /\ held' = [held EXCEPT ![h] = @ \ moved, ![acq[h].key] = @ \cup moved]
  BY ZenonT(60) DEF CommitAcquire
<1>4. moved \in SUBSET acq[h].took
  BY <1>1, <1>3 DEF AdmissionInv
<1>5. IsFiniteSet(acq[h].took)
  BY <1>2, TokensFinite, FS_Subset
<1>6. Cardinality(moved) \in Nat /\ Cardinality(acq[h].took) \in Nat
  BY <1>4, <1>5, FS_Subset, FS_CardinalityType
<1>7. Cardinality(moved) <= Cardinality(acq[h].took)
      /\ (Cardinality(acq[h].took) = Cardinality(moved) => acq[h].took = moved)
  BY <1>4, <1>5, FS_Subset
<1>8. moved = acq[h].took
  BY <1>3, <1>6, <1>7, SMT
<1>9. acq[h].key # h /\ acq[h].key \in Holders
  BY <1>2, LedgerAssumption, SMTT(30) DEF Holders
<1> QED BY <1>2, <1>3, <1>8, <1>9, ZenonT(60) DEF TypeOK

\* AdmissionInv is inductive relative to TypeOK.
LEMMA AdmissionStep ==
  ASSUME TypeOK, AdmissionInv, [Next]_vars PROVE AdmissionInv'
<1> USE DEF claims, places
<1>1. ASSUME NEW caps \in Capacities, EnsureCapacity(caps) PROVE AdmissionInv'
  BY <1>1, GrowAddsFreshTokens, AdmissionFrame DEF EnsureCapacity
<1>2. ASSUME NEW caps \in Capacities, MintBegin(caps) PROVE AdmissionInv'
  BY <1>2, AdmissionFrame DEF MintBegin
<1>3. ASSUME NEW kind, NEW target, NEW blind, NEW listed,
             RetireFree(kind, target, blind, listed)
      PROVE AdmissionInv'
  <2>1. TrimTo([c \in {kind} |-> target], blind, listed)
    BY <1>3 DEF RetireFree
  <2> QED BY <1>3, <2>1, TrimRemovesFreeTokens, AdmissionFrame DEF RetireFree
<1>4. CASE MintReclaim
  BY <1>4, AdmissionFrame DEF MintReclaim, Reclaim
<1>5. CASE MintEnsure
  <2>1. GrowTo(mint.wanted) /\ mint.wanted \in Capacities
    BY <1>5, MintWantsACapacity DEF MintEnsure
  <2> QED BY <1>5, <2>1, GrowAddsFreshTokens, AdmissionFrame DEF MintEnsure
<1>6. ASSUME NEW blind, NEW listed, MintRetire(blind, listed) PROVE AdmissionInv'
  <2>1. TrimTo(mint.wanted, blind, listed)
    BY <1>6 DEF MintRetire
  <2> QED BY <1>6, <2>1, TrimRemovesFreeTokens, AdmissionFrame DEF MintRetire
<1>7. CASE MintCrash
  BY <1>7, AdmissionFrame DEF MintCrash
<1> USE DEF TypeOK, AdmissionInv, RunningHoldsItsTokens, Holders
<1>8. ASSUME NEW h \in Handles, NEW k \in Keys, NEW take \in SUBSET free,
             BeginAcquire(h, k, take) \/ BeginAcquireFails(h, k, take)
      PROVE AdmissionInv'
  <2>1. k # h /\ \A j \in Keys : j # h
    BY LedgerAssumption
  <2>2. PICK phase \in {"begun", "orphan"} :
          acq' = [acq EXCEPT ![h] = Acquisition(phase, k, take)]
    BY <1>8 DEF BeginAcquire, BeginAcquireFails
  <2>3. /\ held' = [held EXCEPT ![h] = take]
        /\ UNCHANGED <<claimed, owed>>
    BY <1>8 DEF BeginAcquire, BeginAcquireFails
  <2>4. acq'[h].phase # "won" /\ acq'[h].took = take
    BY <2>2 DEF Acquisition
  <2>5. \A g \in Handles : g # h => acq'[g] = acq[g] /\ held'[g] = held[g]
    BY <2>2, <2>3
  <2>6. \A j \in Keys : held'[j] = held[j]
    BY <2>1, <2>3
  <2>7. held'[h] = take
    BY <2>3
  <2> QED BY <2>3, <2>4, <2>5, <2>6, <2>7, SMT
<1>9. ASSUME NEW h \in Handles, WinRename(h) PROVE AdmissionInv'
  <2>1. acq[h] # NoClaim /\ acq[h].key \in Keys
    BY <1>9, SMT DEF WinRename, NoClaim, Acquisitions
  <2>2. acq' = [acq EXCEPT ![h] = Acquisition("won", acq[h].key, acq[h].took)]
    BY <1>9, <2>1 DEF WinRename, InPhase
  <2>3. \A g \in Handles : g # h => acq'[g] = acq[g]
    BY <2>2
  <2>4. acq'[h].phase = "won" /\ acq'[h].key = acq[h].key /\ acq'[h].took = acq[h].took
    BY <2>2 DEF Acquisition
  <2>5. /\ acq[h].key \notin claimed
        /\ claimed' = claimed \cup {acq[h].key}
        /\ UNCHANGED <<held, owed>>
    BY <1>9 DEF WinRename
  <2> QED BY <2>1, <2>3, <2>4, <2>5, SMT
<1>10. ASSUME NEW h \in Handles, NEW back \in SUBSET held[h], EmptyIntoFree(h, back),
              acq'[h] = NoClaim \/ (/\ acq[h] # NoClaim
                                    /\ acq'[h].took = acq[h].took
                                    /\ acq'[h].phase = "won" =>
                                         acq[h].phase = "won" /\ acq'[h].key = acq[h].key),
              \A g \in Handles : g # h => acq'[g] = acq[g],
              UNCHANGED <<claimed, owed>>
       PROVE AdmissionInv'
  <2>1. \A j \in Keys : j # h
    BY LedgerAssumption
  <2>2. held' = [held EXCEPT ![h] = @ \ back]
    BY <1>10 DEF EmptyIntoFree
  <2>3. NoClaim.phase # "won"
    BY SMTT(30) DEF NoClaim
  <2> QED BY <1>10, <2>1, <2>2, <2>3, SMT
<1>11. ASSUME NEW h \in Handles, AbandonAcquire(h) PROVE AdmissionInv'
  <2>1. PICK back \in SUBSET held[h] :
          /\ EmptyIntoFree(h, back)
          /\ acq' = [acq EXCEPT ![h] = IF back = held[h] THEN NoClaim
                                       ELSE InPhase(@, "orphan")]
    BY <1>11, ZenonT(60) DEF AbandonAcquire
  <2>2. acq[h] # NoClaim
    BY <1>11, SMT DEF AbandonAcquire, NoClaim
  <2>3. acq'[h] = NoClaim \/ acq'[h] = Acquisition("orphan", acq[h].key, acq[h].took)
    BY <2>1, <2>2 DEF InPhase
  <2>4. acq'[h] = NoClaim \/ (acq'[h].took = acq[h].took /\ acq'[h].phase # "won")
    BY <2>3, SMT DEF Acquisition
  <2> QED BY <1>10, <1>11, <2>1, <2>2, <2>4 DEF AbandonAcquire
<1>12. ASSUME NEW h \in Handles, CommitAcquire(h) PROVE AdmissionInv'
  <2> DEFINE k == acq[h].key
  <2>1. /\ k \in Keys /\ acq[h].took \subseteq held'[k]
        /\ \E moved : held' = [held EXCEPT ![h] = @ \ moved, ![k] = @ \cup moved]
    BY <1>12, CommitFilesWhatWasTaken, ZenonT(60)
  <2>2. /\ acq[h].phase = "won"
        /\ acq' = [acq EXCEPT ![h] = NoClaim]
        /\ owed' = [owed EXCEPT ![k] = acq[h].took]
        /\ claimed' = claimed
    BY <1>12 DEF CommitAcquire
  <2>3. acq'[h].phase # "won" /\ acq'[h] = NoClaim
    BY <2>2 DEF NoClaim
  <2>4. \A g \in Handles : g # h => acq'[g] = acq[g] /\ held'[g] = held[g]
    <3>1. \A g \in Handles : g # k
      BY <2>1, LedgerAssumption
    <3> QED BY <2>1, <2>2, <3>1
  <2>5. \A j \in Keys : j # k => held'[j] = held[j] /\ owed'[j] = owed[j]
    <3>1. \A j \in Keys : j # h
      BY LedgerAssumption
    <3> QED BY <2>1, <2>2, <3>1
  <2>6. owed'[k] = acq[h].took /\ k \in claimed'
    BY <2>1, <2>2
  <2>7. \A g \in Handles : g # h /\ acq[g].phase = "won" => acq[g].key # k /\ acq[g].key \in Keys
    BY <2>2, SMTT(30) DEF Acquisitions, NoClaim
  <2> HIDE DEF k
  <2> QED BY <2>1, <2>2, <2>3, <2>4, <2>5, <2>6, <2>7, SMT
<1>13. ASSUME NEW h \in Handles, CommitShort(h) PROVE AdmissionInv'
  <2> DEFINE k == acq[h].key
  <2>1. acq[h].phase = "won" /\ acq[h] # NoClaim
    BY <1>13, SMT DEF CommitShort, NoClaim
  <2>2. k \in Keys
    BY <2>1 DEF Acquisitions
  <2>3. \A j \in Keys, g \in Handles : j # g
    BY LedgerAssumption
  <2>4. PICK stuckH \in SUBSET held[h], stuckK \in SUBSET Tokens :
          /\ held' = [held EXCEPT ![h] = stuckH, ![k] = stuckK]
          /\ acq' = [acq EXCEPT ![h] = IF stuckH = {} THEN NoClaim
                                       ELSE InPhase(@, "orphan")]
    <3>1. PICK moved \in SUBSET (held[h] \ held[k]) :
          \E stuckH \in SUBSET (held[h] \ moved) :
          \E stuckK \in SUBSET (held[k] \cup moved) :
            /\ Cardinality(moved) < Cardinality(acq[h].took)
            /\ held' = [held EXCEPT ![h] = stuckH, ![k] = stuckK]
            /\ free' = free \cup ((held[h] \cup held[k]) \ (stuckH \cup stuckK))
            /\ acq' = [acq EXCEPT ![h] = IF stuckH = {} THEN NoClaim
                                         ELSE InPhase(@, "orphan")]
      BY <1>13, ZenonT(60) DEF CommitShort
    <3>2. PICK stuckH \in SUBSET (held[h] \ moved) :
          \E stuckK \in SUBSET (held[k] \cup moved) :
            /\ held' = [held EXCEPT ![h] = stuckH, ![k] = stuckK]
            /\ acq' = [acq EXCEPT ![h] = IF stuckH = {} THEN NoClaim
                                         ELSE InPhase(@, "orphan")]
      BY <3>1, ZenonT(60)
    <3>3. PICK stuckK \in SUBSET (held[k] \cup moved) :
            /\ held' = [held EXCEPT ![h] = stuckH, ![k] = stuckK]
            /\ acq' = [acq EXCEPT ![h] = IF stuckH = {} THEN NoClaim
                                         ELSE InPhase(@, "orphan")]
      BY <3>2, ZenonT(60)
    <3>4. held[h] \subseteq Tokens /\ held[k] \subseteq Tokens
      BY <2>2
    <3>5. stuckH \in SUBSET held[h] /\ stuckK \in SUBSET Tokens
      BY <3>4
    <3> QED BY <3>3, <3>5, ZenonT(60)
  <2>5. acq'[h] = NoClaim \/ acq'[h] = Acquisition("orphan", k, acq[h].took)
    BY <2>4 DEF InPhase
  <2>6. /\ acq'[h].phase # "won"
        /\ acq'[h] = NoClaim \/ acq'[h].took = acq[h].took
    BY <2>5, SMT DEF Acquisition, NoClaim
  <2>7. /\ claimed' = claimed \ {k}
        /\ owed' = owed
        /\ owed[k] = {}
    BY <1>13, <2>1 DEF CommitShort
  <2>8. \A g \in Handles : g # h => acq'[g] = acq[g] /\ held'[g] = held[g]
    BY <2>2, <2>3, <2>4
  <2>9. \A j \in Keys : j # k => held'[j] = held[j]
    BY <2>3, <2>4
  <2>10. held'[h] \subseteq acq[h].took
    BY <2>1, <2>2, <2>3, <2>4
  <2>11. \A g \in Handles : g # h /\ acq[g].phase = "won" => acq[g].key # k
    BY <2>1
  <2> HIDE DEF k
  <2> QED BY <2>2, <2>6, <2>7, <2>8, <2>9, <2>10, <2>11, SMTT(30)
<1>14. ASSUME NEW h \in Handles, ClaimantCrash(h) PROVE AdmissionInv'
  <2>1. acq[h] # NoClaim
    BY <1>14, SMT DEF ClaimantCrash, NoClaim
  <2>2. acq' = [acq EXCEPT ![h] = Acquisition("orphan", acq[h].key, acq[h].took)]
    BY <1>14, <2>1 DEF ClaimantCrash, InPhase
  <2>3. \A g \in Handles : g # h => acq'[g] = acq[g]
    BY <2>2
  <2>4. acq'[h].phase # "won" /\ acq'[h].took = acq[h].took
    BY <2>2 DEF Acquisition
  <2>5. UNCHANGED <<held, claimed, owed>>
    BY <1>14, SMTT(30) DEF ClaimantCrash
  <2> QED BY <2>1, <2>3, <2>4, <2>5, SMTT(30)
<1>15. ASSUME NEW h \in Handles, NEW back \in SUBSET held[h], SweepStale(h, back)
       PROVE AdmissionInv'
  <2>1. EmptyIntoFree(h, back) /\ UNCHANGED <<claimed, owed>> /\ acq[h] # NoClaim
    BY <1>15 DEF SweepStale
  <2>2. acq' = acq \/ acq' = [acq EXCEPT ![h] = NoClaim]
    BY <1>15, SMTT(30) DEF SweepStale
  <2> QED BY <1>10, <2>1, <2>2, SMTT(30)
<1>16. ASSUME NEW k \in Keys, NEW back \in SUBSET held[k],
              Release(k, back) \/ ReleasePart(k, back)
       PROVE AdmissionInv'
  <2>1. /\ held' = [held EXCEPT ![k] = @ \ back]
        /\ owed' = [owed EXCEPT ![k] = {}]
        /\ acq' = acq
    BY <1>16 DEF Release, ReleasePart, EmptyIntoFree
  <2>2. \A g \in Handles : held'[g] = held[g]
    BY <2>1, LedgerAssumption
  <2>3. \A j \in Keys : j # k => held'[j] = held[j] /\ owed'[j] = owed[j]
    BY <2>1
  <2>4. owed'[k] = {}
    BY <2>1
  <2>5. \/ claimed' = claimed
        \/ /\ claimed' = claimed \ {k}
           /\ \A h \in Handles : ~(acq[h].phase = "won" /\ acq[h].key = k)
    BY <1>16 DEF Release, ReleasePart
  <2>6. \A h \in Handles : acq[h].phase = "won" => acq[h].key \in Keys
    BY DEF Acquisitions, NoClaim
  <2> QED BY <2>1, <2>2, <2>3, <2>4, <2>5, <2>6, SMTT(30)
<1>17. ASSUME NEW k \in Keys, NEW destroyed \in SUBSET held[k], RetireHeld(k, destroyed)
       PROVE AdmissionInv'
  <2>1. /\ held' = [held EXCEPT ![k] = @ \ destroyed]
        /\ owed' = [owed EXCEPT ![k] = {}]
        /\ acq' = acq /\ claimed' = claimed
    BY <1>17 DEF RetireHeld
  <2>2. \A g \in Handles : held'[g] = held[g]
    BY <2>1, LedgerAssumption, SMTT(30)
  <2>3. \A h \in Handles : acq[h].phase = "won" => acq[h].key \in Keys
    BY DEF Acquisitions, NoClaim
  <2> QED BY <2>1, <2>2, <2>3, SMTT(30)
<1>18. ASSUME NEW k \in Keys, NEW to \in Keys, NEW moved \in SUBSET held[k],
              Transfer(k, to, moved)
       PROVE AdmissionInv'
  <2>1. /\ held' = [held EXCEPT ![k] = @ \ moved, ![to] = @ \cup moved]
        /\ owed' = [owed EXCEPT ![k] = {}]
        /\ acq' = acq /\ claimed' = claimed /\ k # to
    BY <1>18 DEF Transfer
  <2>2. \A g \in Handles : held'[g] = held[g]
    BY <2>1, LedgerAssumption
  <2>3. \A j \in Keys : j # k => held[j] \subseteq held'[j] /\ owed'[j] = owed[j]
    BY <2>1
  <2>4. owed'[k] = {}
    BY <2>1, SMTT(30)
  <2>5. \A h \in Handles : acq[h].phase = "won" => acq[h].key \in Keys
    BY SMTT(30) DEF Acquisitions, NoClaim
  <2> QED BY <2>1, <2>2, <2>3, <2>4, <2>5, SMTT(30)
<1>19. CASE UNCHANGED vars
  BY <1>19, AdmissionFrame DEF vars
<1> QED
  BY ZenonT(60), <1>1, <1>2, <1>3, <1>4, <1>5, <1>6, <1>7, <1>8, <1>9, <1>11, <1>12, <1>13, <1>14,
     <1>15, <1>16, <1>17, <1>18, <1>19 DEF Next, Capacity, Claim, Holding

\* A running action keeps the very tokens it was admitted on, whatever stale
\* sweeps, losing claimants and crashes do around it: commit_acquire counts
\* what it filed and its caller does not run an action that came up short.
THEOREM FailClosedCommit == Spec => []RunningHoldsItsTokens
<1>1. Init => AdmissionInv
  BY SMT DEF Init, AdmissionInv, RunningHoldsItsTokens, NoClaim
<1>2. TypeOK /\ AdmissionInv /\ [Next]_vars => AdmissionInv'
  BY AdmissionStep
<1>3. AdmissionInv => RunningHoldsItsTokens
  BY DEF AdmissionInv
<1> QED BY <1>1, <1>2, <1>3, TypeCorrect, PTL DEF Spec

-----------------------------------------------------------------------------
(* Capacity is made by ensure_capacity and by a mint only: no other call  *)
(* makes a name live, whichever of its renames fail.                      *)

NoneAdded == Live' \subseteq Live

\* A call that fills free/ and the holders from live names adds none.
LEMMA MovesAddNone ==
  ASSUME free' \subseteq Live, \A x \in Holders : held'[x] \subseteq Live
  PROVE  NoneAdded
<1>1. HeldNames' \subseteq Live
  BY DEF HeldNames
<1> QED BY <1>1 DEF NoneAdded, Live

LEMMA PlacesAreLive == free \subseteq Live /\ \A x \in Holders : held[x] \subseteq Live
BY DEF Live, HeldNames

LEMMA NothingMoves == ASSUME UNCHANGED <<free, held>> PROVE NoneAdded
BY DEF NoneAdded, Live, HeldNames

\* _empty_into_free returns what the directory had.
LEMMA EmptyingAddsNone ==
  ASSUME TypeOK, NEW x \in Holders, NEW back \in SUBSET held[x], EmptyIntoFree(x, back)
  PROVE  NoneAdded
<1>1. free' \subseteq Live
  BY PlacesAreLive DEF EmptyIntoFree
<1>2. \A y \in Holders : held'[y] \subseteq held[y]
  BY DEF EmptyIntoFree, TypeOK
<1>3. \A y \in Holders : held'[y] \subseteq Live
  BY <1>2, PlacesAreLive
<1> QED BY <1>1, <1>3, MovesAddNone

\* A rename from one holder's directory to another's.
LEMMA RefilingAddsNone ==
  ASSUME TypeOK, NEW x \in Holders, NEW y \in Holders, NEW moved \in SUBSET held[x],
         held' = [held EXCEPT ![x] = @ \ moved, ![y] = @ \cup moved], UNCHANGED free
  PROVE  NoneAdded
<1>1. free' \subseteq Live
  BY PlacesAreLive
<1>2. \A z \in Holders : held'[z] \subseteq held[z] \cup held[x]
  BY DEF TypeOK
<1>3. \A z \in Holders : held'[z] \subseteq Live
  BY <1>2, PlacesAreLive
<1> QED BY <1>1, <1>3, MovesAddNone

\* A claimant's directory is filled from free/, whole or in part.
LEMMA TakingAddsNone ==
  ASSUME TypeOK, NEW h \in Handles, NEW take \in SUBSET free,
         free' = free \ take, held' = [held EXCEPT ![h] = take]
  PROVE  NoneAdded
<1>1. free' \subseteq Live
  BY PlacesAreLive
<1>2. \A z \in Holders : held'[z] \subseteq held[z] \/ held'[z] \subseteq free
  BY DEF TypeOK
<1>3. \A z \in Holders : held'[z] \subseteq Live
  BY <1>2, PlacesAreLive
<1> QED BY <1>1, <1>3, MovesAddNone

\* A claimant that has won names an action key.
LEMMA WinnerHasAKey ==
  ASSUME TypeOK, NEW h \in Handles, acq[h].phase = "won" PROVE acq[h].key \in Keys
<1>1. acq[h] \in Acquisitions
  BY DEF TypeOK
<1> QED BY <1>1, SMT DEF Acquisitions, NoClaim

\* COMMITTED_RETRY: what was filed under the key or left in the handle is kept
\* or returned.
LEMMA ShortCommitAddsNone ==
  ASSUME TypeOK, NEW h \in Handles, CommitShort(h) PROVE NoneAdded
<1> DEFINE k == acq[h].key
<1>1. k \in Holders /\ h \in Holders
  BY WinnerHasAKey DEF CommitShort, Holders
<1>2. PICK moved \in SUBSET (held[h] \ held[k]) :
      \E stuckH \in SUBSET (held[h] \ moved) : \E stuckK \in SUBSET (held[k] \cup moved) :
        /\ held' = [held EXCEPT ![h] = stuckH, ![k] = stuckK]
        /\ free' = free \cup ((held[h] \cup held[k]) \ (stuckH \cup stuckK))
  BY DEF CommitShort
<1>3. PICK stuckH \in SUBSET (held[h] \ moved) :
      \E stuckK \in SUBSET (held[k] \cup moved) :
        /\ held' = [held EXCEPT ![h] = stuckH, ![k] = stuckK]
        /\ free' = free \cup ((held[h] \cup held[k]) \ (stuckH \cup stuckK))
  BY <1>2
<1>4. PICK stuckK \in SUBSET (held[k] \cup moved) :
        /\ held' = [held EXCEPT ![h] = stuckH, ![k] = stuckK]
        /\ free' = free \cup ((held[h] \cup held[k]) \ (stuckH \cup stuckK))
  BY <1>3
<1> HIDE DEF k
<1>5. held[h] \subseteq Live /\ held[k] \subseteq Live
  BY <1>1, PlacesAreLive
<1>6. stuckH \subseteq Live /\ stuckK \subseteq Live
  BY <1>5
<1>7. free' \subseteq Live
  BY <1>4, <1>5, PlacesAreLive
<1>8. \A z \in Holders : held'[z] = held[z] \/ held'[z] = stuckH \/ held'[z] = stuckK
  BY <1>1, <1>4 DEF TypeOK
<1>9. \A z \in Holders : held'[z] \subseteq Live
  BY <1>6, <1>8, PlacesAreLive
<1> QED BY <1>7, <1>9, MovesAddNone

-----------------------------------------------------------------------------
Grows == ~Unlocked \/ (\E caps \in Capacities : EnsureCapacity(caps))

LEMMA CapacityStep == ASSUME TypeOK, Capacity PROVE NoneAdded \/ Grows
<1>1. ASSUME NEW caps \in Capacities, EnsureCapacity(caps) PROVE Grows
  BY <1>1 DEF Grows
<1>2. ASSUME NEW caps \in Capacities, MintBegin(caps) PROVE NoneAdded
  BY <1>2, NothingMoves DEF MintBegin, places
<1>3. ASSUME NEW kind \in Kinds, NEW target \in 0..MaxIndex, NEW blind \in SUBSET Holders,
             NEW listed \in BOOLEAN, RetireFree(kind, target, blind, listed)
      PROVE  NoneAdded
  <2>1. free' \subseteq free /\ held' = held
    BY <1>3, TrimRemovesFreeTokens DEF RetireFree
  <2> QED BY <2>1, PlacesAreLive, MovesAddNone
<1>4. ASSUME \/ MintReclaim \/ MintEnsure \/ MintCrash
             \/ \E blind \in SUBSET Holders, listed \in BOOLEAN : MintRetire(blind, listed)
      PROVE  Grows
  BY <1>4, SMT DEF MintReclaim, MintEnsure, MintCrash, MintRetire, Grows, Unlocked, IdleMint
<1> QED BY <1>1, <1>2, <1>3, <1>4 DEF Capacity

LEMMA ClaimStep == ASSUME TypeOK, Claim PROVE NoneAdded
<1>1. PICK h \in Handles :
        \/ \E k \in Keys, take \in SUBSET free :
             BeginAcquire(h, k, take) \/ BeginAcquireFails(h, k, take)
        \/ WinRename(h) \/ AbandonAcquire(h) \/ CommitAcquire(h) \/ CommitShort(h)
        \/ ClaimantCrash(h)
        \/ \E back \in SUBSET held[h] : SweepStale(h, back)
  BY DEF Claim
<1>2. h \in Holders
  BY DEF Holders
<1>3. ASSUME NEW k \in Keys, NEW take \in SUBSET free,
             BeginAcquire(h, k, take) \/ BeginAcquireFails(h, k, take)
      PROVE  NoneAdded
  BY <1>3, TakingAddsNone DEF BeginAcquire, BeginAcquireFails
<1>4. CASE WinRename(h) \/ ClaimantCrash(h)
  BY <1>4, NothingMoves DEF WinRename, ClaimantCrash, places
<1>5. CASE AbandonAcquire(h)
  BY <1>2, <1>5, EmptyingAddsNone DEF AbandonAcquire
<1>6. CASE CommitAcquire(h)
  <2>1. acq[h].key \in Holders
    BY <1>6, WinnerHasAKey DEF CommitAcquire, Holders
  <2>2. PICK moved \in SUBSET held[h] :
          held' = [held EXCEPT ![h] = @ \ moved, ![acq[h].key] = @ \cup moved]
    BY <1>6 DEF CommitAcquire
  <2> QED BY <1>2, <1>6, <2>1, <2>2, RefilingAddsNone DEF CommitAcquire
<1>7. CASE CommitShort(h)
  BY <1>7, ShortCommitAddsNone
<1>8. ASSUME NEW back \in SUBSET held[h], SweepStale(h, back) PROVE NoneAdded
  BY <1>2, <1>8, EmptyingAddsNone DEF SweepStale
<1> QED BY <1>1, <1>3, <1>4, <1>5, <1>6, <1>7, <1>8

LEMMA HoldingStep == ASSUME TypeOK, Holding PROVE NoneAdded
<1>1. PICK k \in Keys :
        \/ \E back \in SUBSET held[k] : Release(k, back) \/ ReleasePart(k, back)
        \/ \E destroyed \in SUBSET held[k] : RetireHeld(k, destroyed)
        \/ \E to \in Keys, moved \in SUBSET held[k] : Transfer(k, to, moved)
  BY DEF Holding
<1>2. Keys \subseteq Holders
  BY DEF Holders
<1>3. ASSUME NEW back \in SUBSET held[k], Release(k, back) \/ ReleasePart(k, back)
      PROVE  NoneAdded
  BY <1>2, <1>3, EmptyingAddsNone DEF Release, ReleasePart
<1>4. ASSUME NEW destroyed \in SUBSET held[k], RetireHeld(k, destroyed) PROVE NoneAdded
  <2>1. free' \subseteq Live
    BY <1>4, PlacesAreLive DEF RetireHeld
  <2>2. \A z \in Holders : held'[z] \subseteq held[z]
    BY <1>2, <1>4 DEF RetireHeld, TypeOK
  <2>3. \A z \in Holders : held'[z] \subseteq Live
    BY <2>2, PlacesAreLive
  <2> QED BY <2>1, <2>3, MovesAddNone
<1>5. ASSUME NEW to \in Keys, NEW moved \in SUBSET held[k], Transfer(k, to, moved)
      PROVE  NoneAdded
  BY <1>2, <1>5, RefilingAddsNone DEF Transfer
<1> QED BY <1>1, <1>3, <1>4, <1>5

\* Only ensure_capacity, or a mint that has the tier's lock, makes a name live:
\* acquiring, committing, sweeping, releasing, transferring and destroying never
\* do, for every ledger and whichever renames fail.
THEOREM Conserved == Spec => OnlyMintGrows
<1> DEFINE Step == Live' \subseteq Live \/ ~Unlocked \/ (\E caps \in Capacities : EnsureCapacity(caps))
<1>1. TypeOK /\ Next => Step
  BY CapacityStep, ClaimStep, HoldingStep DEF Next, NoneAdded, Grows
<1>2. TypeOK /\ [Next]_vars => [Step]_vars
  BY <1>1
<1> HIDE DEF Step
<1>3. Spec => [][Step]_vars
  BY <1>2, TypeCorrect, PTL DEF Spec
<1> QED BY <1>3 DEF OnlyMintGrows, Step

=============================================================================
