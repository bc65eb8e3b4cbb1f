------------------------- MODULE GangAdmissionProofs ------------------------
(***************************************************************************)
(* Proofs about GangAdmission, for every set of gangs, members, hosts and  *)
(* serve loops, and for any number of deaths, stale marks and withdrawals. *)
(*                                                                         *)
(* StartsWhole and ClaimedBesideWholeSet are not inductive.  A claim is    *)
(* renamed after its siblings were read one by one, outside every lock but *)
(* the member's own, so the invariant has to say what a half-read set is   *)
(* worth (Reading): an election once read stands, since elections are      *)
(* filed once and forgotten only with the whole gang.  A claim may be      *)
(* given up after the barrier has counted it, so what is kept of the loops *)
(* it let through is that their siblings were claimed once (Cleared).      *)
(* TypeOK bounds what a host has free, which needs every reservation to be *)
(* one loop's own (Counted). NoCrossCommit is about two claims made on two *)
(* hosts, under no common lock; RankInv carries the order of ranks from    *)
(* one census to the other (Yields).                                       *)
(***************************************************************************)
EXTENDS GangAdmission, TLAPS

\* Leaves are first-order and left to Zenon; the ones that reckon, or take records
\* apart, cite SMT.
USE Zenon

Places == Hosts \union {NoHost}
Outcomes == {"none", "tokens", "claim", "unstarted", "done", "failed", "withdrawn"}

Shape ==
    /\ row \in [Members -> {"ready"} \union InClaimed \union Terminal]
    /\ elect \in [Members -> Places] /\ mark \in [Members -> Places]
    /\ pc \in [Loops -> Phases] /\ on \in [Loops -> Members]
    /\ met \in [Loops -> SUBSET Hosts] /\ left \in [Loops -> SUBSET Members]
    /\ out \in [Loops -> Outcomes] /\ begun \subseteq Members

Waits(l) == pc[l] \in Passing \ {"moved", "leasing"}
Holds(l) == pc[l] \in Passing \/ OwnsClaim(l)

\* Where a loop has a claim and its lease, and no longer the transition lock.
Leased == Claiming \ {"moved", "leasing"}

\* No two loops have the same member.
Apart ==
    \A l, k \in Loops : l # k /\ Holds(l) /\ Holds(k) => on[l] # on[k]

\* A pass has a READY row, a claim's owner has a claimed one on its own host.
Rows ==
    \A l \in Loops :
        /\ Waits(l) => row[on[l]] = "ready"
        /\ OwnsClaim(l) => row[on[l]] \in InClaimed
        /\ pc[l] \in Reserving \/ OwnsClaim(l) => elect[on[l]] = HostOf[l]
        /\ pc[l] \in {"ending", "tearing"} => out[l] \in Terminal

Owners ==
    \A m \in Members :
        row[m] \in InClaimed => \E l \in Loops : OwnsClaim(l) /\ on[l] = m

Marks == \A m \in Members : mark[m] \in {NoHost, elect[m]}

\* The siblings read so far are elected, for hosts that were met one by one.
Reading ==
    \A l \in Loops :
        pc[l] \in {"marked", "whole"} =>
            /\ left[l] \subseteq Siblings(on[l])
            /\ pc[l] = "whole" => left[l] = {}
            /\ \A x \in Peers(on[l]) \ left[l] :
                   /\ elect[x] # NoHost /\ elect[x] \in met[l]
                   /\ \A y \in Peers(on[l]) \ left[l] : x # y => elect[x] # elect[y]

Begun == \A m \in Members : row[m] \in InClaimed \union {"done"} => m \in begun

\* The barrier has let a loop through: its siblings were claimed, and may have been
\* given up since.
Cleared == \A l \in Loops : pc[l] \in {"released", "running"} => Peers(on[l]) \subseteq begun

GangInv ==
    /\ Shape /\ Apart /\ Rows /\ Owners /\ Marks /\ Reading /\ Begun
    /\ Cleared /\ ClaimedBesideWholeSet

-----------------------------------------------------------------------------
LEMMA InitInv == ASSUME Init PROVE GangInv
  <1>1. Shape
    BY GangAssumption DEF Init, Shape, Places, Outcomes, NoElections, Phases, Anyone
  <1>2. /\ \A l \in Loops : pc[l] = "idle" /\ out[l] = "none"
        /\ \A m \in Members : row[m] = "ready" /\ mark[m] = NoHost
    BY DEF Init, NoElections
  <1>3. \A l \in Loops : ~Holds(l) /\ ~Waits(l) /\ ~OwnsClaim(l)
    BY <1>2 DEF Holds, Waits, OwnsClaim, Passing, Claiming
  <1>4. Apart /\ Rows
    BY <1>2, <1>3 DEF Apart, Rows, Reserving
  <1>5. Owners /\ Marks /\ Reading /\ Begun /\ Cleared /\ ClaimedBesideWholeSet
    BY <1>2 DEF Owners, Marks, Reading, Begun, Cleared, ClaimedBesideWholeSet, InClaimed
  <1> QED BY <1>1, <1>4, <1>5 DEF GangInv

-----------------------------------------------------------------------------
\* Steps that leave elections, marks and passes alone: rows may be withdrawn whose
\* lock nobody has, and the owner of a claim may go on.
Settled(k) ==
    \/ pc'[k] = pc[k] /\ out'[k] = out[k]
    \/ /\ pc[k] \in Leased /\ pc'[k] \in Leased
       /\ pc'[k] \in {"released", "running"} => Peers(on[k]) \subseteq begun
       /\ pc'[k] \in {"ending", "tearing"} => out'[k] \in Terminal

LEMMA QuietInv ==
    ASSUME GangInv, UNCHANGED <<elect, mark, on, met, left, begun>>,
           pc' \in [Loops -> Phases], out' \in [Loops -> Outcomes],
           \A k \in Loops : Settled(k),
           row' \in [Members -> {"ready"} \union InClaimed \union Terminal],
           \A m \in Members :
               row'[m] = row[m] \/ (row[m] = "ready" /\ row'[m] = "withdrawn" /\ KeyFree(m))
    PROVE  GangInv'
  <1>1. Shape'
    BY DEF GangInv, Shape
  <1>2. \A k \in Loops :
          /\ (pc'[k] \in Passing <=> pc[k] \in Passing) /\ (OwnsClaim(k)' <=> OwnsClaim(k))
          /\ (pc[k] \in Passing => pc'[k] = pc[k])
          /\ (pc'[k] \in Passing => pc'[k] = pc[k])
    BY DEF Settled, Leased, Claiming, Passing, OwnsClaim
  <1>3. Apart'
    BY <1>2 DEF GangInv, Apart, Holds
  <1>4. Rows'
    <2> SUFFICES ASSUME NEW l \in Loops
                 PROVE  /\ Waits(l)' => row'[on[l]] = "ready"
                        /\ OwnsClaim(l)' => row'[on[l]] \in InClaimed
                        /\ pc'[l] \in Reserving \/ OwnsClaim(l)' => elect[on[l]] = HostOf[l]
                        /\ pc'[l] \in {"ending", "tearing"} => out'[l] \in Terminal
      BY DEF Rows
    <2>1. on[l] \in Members
      BY DEF GangInv, Shape
    <2>2. Waits(l)' => row'[on[l]] = "ready"
      <3>1. Waits(l)' => pc[l] \in Passing /\ row[on[l]] = "ready"
        BY <1>2 DEF GangInv, Rows, Waits
      <3> QED BY <3>1, <2>1 DEF KeyFree
    <2>3. OwnsClaim(l)' => row'[on[l]] \in InClaimed
      BY <1>2, <2>1 DEF GangInv, Rows, InClaimed
    <2>4. pc'[l] \in Reserving \/ OwnsClaim(l)' => elect[on[l]] = HostOf[l]
      BY <1>2 DEF GangInv, Rows, Reserving, Passing
    <2>5. pc'[l] \in {"ending", "tearing"} => out'[l] \in Terminal
      BY DEF GangInv, Rows, Settled
    <2> QED BY <2>2, <2>3, <2>4, <2>5
  <1>5. Owners'
    BY <1>2 DEF GangInv, Owners, InClaimed
  <1>6. Marks' /\ Begun'
    BY DEF GangInv, Marks, Begun, InClaimed
  <1>7. Reading'
    <2>1. \A l \in Loops : pc'[l] \in {"marked", "whole"} => pc[l] = pc'[l]
      BY <1>2 DEF Passing
    <2> QED BY <2>1, SMT DEF GangInv, Reading
  <1>8. Cleared'
    BY DEF GangInv, Cleared, Settled
  <1>9. ClaimedBesideWholeSet'
    BY DEF GangInv, ClaimedBesideWholeSet, InClaimed
  <1> QED BY <1>1, <1>3, <1>4, <1>5, <1>6, <1>7, <1>8, <1>9 DEF GangInv

\* Withdrawals as a step on rows.
LEMMA WithdrawnRows ==
    ASSUME GangInv, NEW gone \in SUBSET Members, Withdrawn(gone),
           \A m \in gone : KeyFree(m) \/ row[m] # "ready"
    PROVE  /\ row' \in [Members -> {"ready"} \union InClaimed \union Terminal]
           /\ \A m \in Members :
                  row'[m] = row[m] \/ (row[m] = "ready" /\ row'[m] = "withdrawn" /\ KeyFree(m))
  BY DEF GangInv, Shape, Withdrawn, Terminal

Quiet == UNCHANGED <<elect, mark, pc, on, met, left, out, begun>>
Gently ==
    \/ UNCHANGED row
    \/ \E gone \in SUBSET Members :
         Withdrawn(gone) /\ \A m \in gone : KeyFree(m) \/ row[m] # "ready"

LEMMA GentleRows ==
    ASSUME GangInv, Gently
    PROVE  /\ row' \in [Members -> {"ready"} \union InClaimed \union Terminal]
           /\ \A m \in Members :
                  row'[m] = row[m] \/ (row[m] = "ready" /\ row'[m] = "withdrawn" /\ KeyFree(m))
  <1>1. CASE UNCHANGED row
    BY <1>1 DEF GangInv, Shape
  <1> QED BY <1>1, WithdrawnRows DEF Gently

LEMMA SharedStepsInv ==
    ASSUME GangInv,
           \/ \E g \in Gangs : PublishGroup(g) \/ CancelExpired(g) \/ CancelMeetsClaim(g) \/ SweepTeardown(g)
           \/ \E m \in Members : SweepUnregistered(m) \/ Withdraw(m)
           \/ \E l \in Loops, m \in Members : PrepareEnded(l, m)
    PROVE  GangInv'
  <1>1. ASSUME NEW g \in Gangs, PublishGroup(g) \/ CancelMeetsClaim(g) PROVE Quiet /\ Gently
    BY <1>1 DEF PublishGroup, CancelMeetsClaim, local, Quiet, Gently
  <1>2. ASSUME NEW g \in Gangs, CancelExpired(g) PROVE Quiet /\ Gently
    <2>1. /\ MembersOf(g) \in SUBSET Members /\ Withdrawn(MembersOf(g))
          /\ \A m \in MembersOf(g) : KeyFree(m)
      BY <1>2 DEF CancelExpired, MembersOf
    <2> QED BY <1>2, <2>1 DEF CancelExpired, local, Quiet, Gently
  <1>3. ASSUME NEW g \in Gangs, SweepTeardown(g) PROVE Quiet /\ Gently
    <2>1. /\ Withdrawable(MembersOf(g)) \in SUBSET Members
          /\ \A m \in Withdrawable(MembersOf(g)) : KeyFree(m)
      BY DEF MembersOf, Withdrawable
    <2> QED BY <1>3, <2>1 DEF SweepTeardown, local, Quiet, Gently
  <1>4. ASSUME NEW m \in Members, SweepUnregistered(m) PROVE Quiet /\ Gently
    BY <1>4, SMT DEF SweepUnregistered, local, Quiet, Gently
  <1>5. ASSUME NEW m \in Members, Withdraw(m) PROVE Quiet /\ Gently
    <2> DEFINE others == IF TornNow(GangOf[m]) THEN Withdrawable(Siblings(m)) ELSE {}
    <2>1. Quiet /\ Withdrawn({m} \union others) /\ KeyFree(m)
      BY <1>5 DEF Withdraw, local, Quiet
    <2>2. {m} \union others \in SUBSET Members /\ \A x \in others : KeyFree(x)
      BY SMTT(30) DEF Withdrawable, Siblings, Peers
    <2> HIDE DEF others
    <2> QED BY <2>1, <2>2 DEF Gently
  <1>6. ASSUME NEW l \in Loops, NEW m \in Members, PrepareEnded(l, m) PROVE Quiet /\ Gently
    <2>1. /\ Withdrawable(Siblings(m)) \in SUBSET Members
          /\ \A x \in Withdrawable(Siblings(m)) : KeyFree(x)
      BY DEF Siblings, Peers, Withdrawable
    <2> QED BY <1>6, <2>1 DEF PrepareEnded, local, Quiet, Gently
  <1>7. Quiet /\ Gently
    BY <1>1, <1>2, <1>3, <1>4, <1>5, <1>6
  <1>8. /\ \A k \in Loops : Settled(k)
        /\ pc' \in [Loops -> Phases] /\ out' \in [Loops -> Outcomes]
    BY <1>7 DEF GangInv, Shape, Settled, Quiet
  <1>9. UNCHANGED <<elect, mark, on, met, left, begun>>
    BY <1>7 DEF Quiet
  <1> QED BY <1>7, <1>8, <1>9, GentleRows, QuietInv

\* The owner of a claim at the start barrier, at work and on its way out.
LEMMA OwnerGoesOn ==
    ASSUME GangInv, NEW l \in Loops, NEW p \in Leased, NEW o \in Outcomes,
           pc[l] \in Leased,
           pc' = [pc EXCEPT ![l] = p], out' = [out EXCEPT ![l] = o],
           p \in {"released", "running"} => Peers(on[l]) \subseteq begun,
           p \in {"ending", "tearing"} => o \in Terminal,
           UNCHANGED <<elect, mark, on, met, left, begun>>, Gently
    PROVE  GangInv'
  <1>1. pc \in [Loops -> Phases] /\ out \in [Loops -> Outcomes] /\ p \in Phases
    BY DEF GangInv, Shape, Leased, Claiming, Phases
  <1>2. pc' \in [Loops -> Phases] /\ out' \in [Loops -> Outcomes]
    BY <1>1
  <1>3. \A k \in Loops : Settled(k)
    <2> SUFFICES ASSUME NEW k \in Loops PROVE Settled(k)
      OBVIOUS
    <2>1. CASE k # l
      BY <2>1, <1>1 DEF Settled
    <2>2. CASE k = l
      BY <2>2, <1>1 DEF Settled
    <2> QED BY <2>1, <2>2
  <1> QED BY <1>2, <1>3, GentleRows, QuietInv

LEMMA OwnersClaim ==
    ASSUME GangInv, NEW l \in Loops, pc[l] \in Claiming
    PROVE  /\ on[l] \in Members /\ row[on[l]] \in InClaimed /\ on[l] \in begun
           /\ out[l] \in Outcomes /\ out = [out EXCEPT ![l] = out[l]]
  <1>1. on[l] \in Members /\ out \in [Loops -> Outcomes]
    BY DEF GangInv, Shape
  <1>2. row[on[l]] \in InClaimed
    BY DEF OwnsClaim, GangInv, Rows
  <1> QED BY <1>1, <1>2 DEF GangInv, Begun

\* A teardown that an owner files withdraws the siblings nobody is working on.
LEMMA SiblingsGently ==
    ASSUME NEW m, NEW b \in BOOLEAN, Withdrawn(IF b THEN Withdrawable(Siblings(m)) ELSE {})
    PROVE  Gently
  <1>1. /\ Withdrawable(Siblings(m)) \in SUBSET Members
        /\ \A x \in Withdrawable(Siblings(m)) : KeyFree(x)
    BY DEF Withdrawable, Siblings, Peers
  <1>2. CASE b BY <1>1, <1>2 DEF Gently
  <1>3. CASE ~b
    <2>1. Withdrawn({}) /\ {} \in SUBSET Members
      BY <1>3
    <2> QED BY <2>1 DEF Gently
  <1> QED BY <1>2, <1>3

LEMMA BarrierInv ==
    ASSUME GangInv, NEW l \in Loops,
           \/ BarrierCheck(l) \/ BarrierReleases(l) \/ BarrierEnded(l) \/ BarrierWait(l) \/ BarrierExpires(l)
    PROVE  GangInv'
  <1> DEFINE o == out[l]
  <1>1. pc[l] \in {"barrier", "polling"}
    BY DEF BarrierCheck, BarrierReleases, BarrierEnded, BarrierWait, BarrierExpires
  <1>2. pc[l] \in Leased
    BY <1>1 DEF Leased, Claiming
  <1>3. /\ on[l] \in Members /\ on[l] \in begun
        /\ o \in Outcomes /\ out = [out EXCEPT ![l] = o]
    BY <1>2, OwnersClaim DEF Leased
  <1>4. /\ {"barrier", "polling", "released", "ending"} \subseteq Leased
        /\ {"failed", "withdrawn"} \subseteq Outcomes /\ {"failed", "withdrawn"} \subseteq Terminal
    BY SMTT(30) DEF Leased, Claiming, Outcomes, Terminal
  <1> HIDE DEF o
  <1>5. CASE BarrierCheck(l)
    <2>1. UNCHANGED <<elect, mark, on, met, left, begun>> /\ Gently
      BY <1>5 DEF BarrierCheck, shared, Gently
    <2>2. CASE pc' = [pc EXCEPT ![l] = "polling"] /\ UNCHANGED out
      BY ZenonT(30), <1>2, <1>3, <1>4, <2>1, <2>2, OwnerGoesOn
    <2>3. CASE Ends(l, "withdrawn")
      BY ZenonT(30), <1>2, <1>4, <2>1, <2>3, OwnerGoesOn DEF Ends
    <2>4. CASE Ends(l, "failed")
      BY ZenonT(30), <1>2, <1>4, <2>1, <2>4, OwnerGoesOn DEF Ends
    <2> QED BY <1>5, <2>2, <2>3, <2>4 DEF BarrierCheck
  <1>6. CASE BarrierReleases(l)
    <2>1. /\ UNCHANGED <<elect, mark, on, met, left, begun, out>> /\ Gently
          /\ pc' = [pc EXCEPT ![l] = "released"] /\ AllStarted(on[l])
      BY SMTT(30), <1>6 DEF BarrierReleases, shared, Gently
    <2>2. Peers(on[l]) \subseteq begun
      BY <2>1, <1>3 DEF AllStarted, Siblings, Peers, GangInv, Begun
    <2> QED BY ZenonT(30), <1>2, <1>3, <1>4, <2>1, <2>2, OwnerGoesOn
  <1>7. CASE BarrierEnded(l)
    <2>1. /\ UNCHANGED <<elect, mark, on, met, left, begun, out>>
          /\ pc' = [pc EXCEPT ![l] = "barrier"]
          /\ Withdrawn(IF TornNow(GangOf[on[l]]) THEN Withdrawable(Siblings(on[l])) ELSE {})
      BY <1>7 DEF BarrierEnded
    <2>2. Gently
      BY ZenonT(30), <2>1, SiblingsGently DEF TornNow
    <2> QED BY ZenonT(30), <1>2, <1>3, <1>4, <2>1, <2>2, OwnerGoesOn
  <1>8. CASE BarrierWait(l)
    <2>1. /\ UNCHANGED <<elect, mark, on, met, left, begun, out>> /\ Gently
          /\ pc' = [pc EXCEPT ![l] = "barrier"]
      BY <1>8 DEF BarrierWait, shared, Gently
    <2> QED BY ZenonT(30), <1>2, <1>3, <1>4, <2>1, OwnerGoesOn
  <1>9. CASE BarrierExpires(l)
    <2>1. /\ UNCHANGED <<elect, mark, on, met, left, begun>> /\ Ends(l, "failed")
          /\ Withdrawn(IF TornNow(GangOf[on[l]]) THEN Withdrawable(Siblings(on[l])) ELSE {})
      BY <1>9 DEF BarrierExpires
    <2>2. Gently
      BY ZenonT(30), <2>1, SiblingsGently DEF TornNow
    <2> QED BY ZenonT(30), <1>2, <1>4, <2>1, <2>2, OwnerGoesOn DEF Ends
  <1> QED BY SMTT(30), <1>5, <1>6, <1>7, <1>8, <1>9

LEMMA PayloadInv ==
    ASSUME GangInv, NEW l \in Loops,
           \/ Launch(l) \/ LaunchFails(l)
           \/ PayloadEnds(l) \/ Checkpoint(l) \/ FinishTears(l) \/ FinishWithdraws(l)
    PROVE  GangInv'
  <1> DEFINE o == out[l]
  <1>1. pc[l] \in {"barrier", "released", "running", "ending", "tearing"}
    BY DEF Launch, LaunchFails, PayloadEnds, Checkpoint, FinishTears, FinishWithdraws
  <1>2. pc[l] \in Leased
    BY <1>1 DEF Leased, Claiming
  <1>3. /\ on[l] \in Members /\ row[on[l]] \in InClaimed
        /\ o \in Outcomes /\ out = [out EXCEPT ![l] = o]
    BY <1>2, OwnersClaim DEF Leased
  <1>4. /\ {"running", "ending", "tearing"} \subseteq Leased
        /\ Terminal \subseteq Outcomes /\ {"done", "failed", "withdrawn"} \subseteq Terminal
    BY DEF Leased, Claiming, Outcomes, Terminal
  <1>5. pc[l] \in {"ending", "tearing"} => o \in Terminal
    BY DEF GangInv, Rows
  <1> HIDE DEF o
  <1>6. CASE PayloadEnds(l)
    <2>1. UNCHANGED <<elect, mark, on, met, left, begun>> /\ Gently
      BY <1>6 DEF PayloadEnds, shared, Gently
    <2>2. PICK status \in {"done", "failed"} : Ends(l, status)
      BY <1>6 DEF PayloadEnds
    <2> QED BY ZenonT(30), <1>2, <1>4, <2>1, <2>2, OwnerGoesOn DEF Ends
  <1>7. CASE Checkpoint(l)
    <2>1. UNCHANGED <<elect, mark, on, met, left, begun>> /\ Ends(l, "withdrawn") /\ Withdrawn({on[l]})
      BY SMTT(30), <1>7 DEF Checkpoint
    <2>2. Gently
      BY <2>1, <1>3, SMT DEF Gently, InClaimed
    <2> QED BY ZenonT(30), <1>2, <1>4, <2>1, <2>2, OwnerGoesOn DEF Ends
  <1>8. CASE FinishTears(l)
    <2>1. /\ UNCHANGED <<elect, mark, on, met, left, begun, out>> /\ Gently
          /\ pc' = [pc EXCEPT ![l] = "tearing"] /\ pc[l] = "ending"
      BY <1>8 DEF FinishTears, Gently
    <2> QED BY ZenonT(30), <1>2, <1>3, <1>4, <1>5, <2>1, OwnerGoesOn
  <1>9. CASE FinishWithdraws(l)
    <2>1. /\ UNCHANGED <<elect, mark, on, met, left, begun, out>>
          /\ pc' = [pc EXCEPT ![l] = "ending"] /\ pc[l] = "tearing"
          /\ Withdrawn(Withdrawable(Siblings(on[l])))
      BY <1>9 DEF FinishWithdraws
    <2>2. Gently
      BY ZenonT(30), <2>1, SiblingsGently
    <2> QED BY ZenonT(30), <1>2, <1>3, <1>4, <1>5, <2>1, <2>2, OwnerGoesOn
  <1>10. CASE Launch(l)
    <2>1. /\ UNCHANGED <<elect, mark, on, met, left, begun, out>> /\ Gently
          /\ pc' = [pc EXCEPT ![l] = "running"] /\ pc[l] = "released"
      BY <1>10 DEF Launch, shared, Gently
    <2>2. Peers(on[l]) \subseteq begun
      BY <2>1 DEF GangInv, Cleared
    <2> QED BY ZenonT(30), <1>2, <1>3, <1>4, <2>1, <2>2, OwnerGoesOn
  <1>11. CASE LaunchFails(l)
    <2>1. UNCHANGED <<elect, mark, on, met, left, begun>> /\ Ends(l, "failed") /\ Gently
      BY <1>11 DEF LaunchFails, shared, Gently
    <2> QED BY ZenonT(30), <1>2, <1>4, <2>1, OwnerGoesOn DEF Ends
  <1> QED BY <1>6, <1>7, <1>8, <1>9, <1>10, <1>11

-----------------------------------------------------------------------------
(* A claim pass, from admission on.                                        *)

\* An election that is filed stands.
GrowOnly == \A x \in Members : elect[x] # NoHost => elect'[x] = elect[x]

\* One loop's own record changes, and no other's.
OnlyOf(l) ==
    /\ pc' \in [Loops -> Phases] /\ on' \in [Loops -> Members] /\ out' \in [Loops -> Outcomes]
    /\ met' \in [Loops -> SUBSET Hosts] /\ left' \in [Loops -> SUBSET Members]
    /\ \A k \in Loops \ {l} :
         /\ pc'[k] = pc[k] /\ on'[k] = on[k] /\ out'[k] = out[k]
         /\ met'[k] = met[k] /\ left'[k] = left[k]

\* What others know of the gang survives elections that only grow.
LEMMA GrowKeeps ==
    ASSUME GangInv, UNCHANGED <<row, begun>>, elect' \in [Members -> Places], GrowOnly
    PROVE  /\ ClaimedBesideWholeSet' /\ Begun'
           /\ \A k \in Loops : elect[on[k]] = HostOf[k] => elect'[on[k]] = HostOf[k]
           /\ \A k \in Loops : pc[k] \in {"marked", "whole"} =>
                  \A x \in Peers(on[k]) \ left[k] : elect'[x] = elect[x]
  <1>1. \A k \in Loops : HostOf[k] # NoHost /\ on[k] \in Members
    BY GangAssumption DEF GangInv, Shape
  <1>2. ClaimedBesideWholeSet'
    BY SMT DEF GangInv, ClaimedBesideWholeSet, GrowOnly, Peers, Siblings
  <1>3. Begun'
    BY DEF GangInv, Begun
  <1>4. \A k \in Loops : elect[on[k]] = HostOf[k] => elect'[on[k]] = HostOf[k]
    BY <1>1 DEF GrowOnly
  <1>5. \A k \in Loops : pc[k] \in {"marked", "whole"} =>
          \A x \in Peers(on[k]) \ left[k] : elect'[x] = elect[x]
    BY SMT DEF GangInv, Reading, GrowOnly, Peers
  <1> QED BY <1>2, <1>3, <1>4, <1>5

\* A pass that goes on under admission, gives way or dies, without a claim.
LEMMA PassInv ==
    ASSUME GangInv, NEW l \in Loops, ~OwnsClaim(l), OnlyOf(l),
           UNCHANGED <<row, mark, begun>>, elect' \in [Members -> Places], GrowOnly,
           pc'[l] \in {"idle", "census", "taken", "crashed"},
           pc'[l] = "crashed" => out'[l] \notin {"claim", "unstarted", "done"},
           pc'[l] \in {"census", "taken"} => Waits(l) /\ on'[l] = on[l],
           pc'[l] = "taken" => elect'[on[l]] = HostOf[l]
    PROVE  GangInv'
  <1>1. Shape'
    BY DEF GangInv, Shape, OnlyOf
  <1>2. /\ ~OwnsClaim(l)' /\ pc'[l] \notin {"moved", "leasing", "released", "running", "marked", "whole", "ending", "tearing"}
        /\ (Holds(l)' => Waits(l) /\ on'[l] = on[l])
        /\ (Waits(l)' => Waits(l) /\ on'[l] = on[l])
    BY DEF OwnsClaim, Claiming, Holds, Waits, Passing
  <1>3. \A k \in Loops \ {l} :
          /\ pc'[k] = pc[k] /\ on'[k] = on[k] /\ out'[k] = out[k]
          /\ met'[k] = met[k] /\ left'[k] = left[k]
          /\ (OwnsClaim(k)' <=> OwnsClaim(k)) /\ (Holds(k)' <=> Holds(k)) /\ (Waits(k)' <=> Waits(k))
    BY DEF OnlyOf, OwnsClaim, Holds, Waits
  <1>4. /\ ClaimedBesideWholeSet' /\ Begun'
        /\ \A k \in Loops : elect[on[k]] = HostOf[k] => elect'[on[k]] = HostOf[k]
        /\ \A k \in Loops : pc[k] \in {"marked", "whole"} =>
               \A x \in Peers(on[k]) \ left[k] : elect'[x] = elect[x]
    BY GrowKeeps
  <1>5. Apart'
    BY <1>2, <1>3, SMT DEF GangInv, Apart, Holds, Waits
  <1>6. Rows'
    <2> SUFFICES ASSUME NEW k \in Loops
                 PROVE  /\ Waits(k)' => row[on'[k]] = "ready"
                        /\ OwnsClaim(k)' => row[on'[k]] \in InClaimed
                        /\ pc'[k] \in Reserving \/ OwnsClaim(k)' => elect'[on'[k]] = HostOf[k]
                        /\ pc'[k] \in {"ending", "tearing"} => out'[k] \in Terminal
      BY DEF Rows
    <2>1. CASE k = l
      BY <2>1, <1>2 DEF GangInv, Rows, Reserving
    <2>2. CASE k # l
      BY <2>2, <1>3, <1>4, SMT DEF GangInv, Rows
    <2> QED BY <2>1, <2>2
  <1>7. Owners'
    BY <1>3 DEF GangInv, Owners
  <1>8. Marks'
    BY DEF GangInv, Marks, GrowOnly
  <1>9. Reading'
    <2> SUFFICES ASSUME NEW k \in Loops, pc'[k] \in {"marked", "whole"}
                 PROVE  /\ left'[k] \subseteq Siblings(on'[k])
                        /\ pc'[k] = "whole" => left'[k] = {}
                        /\ \A x \in Peers(on'[k]) \ left'[k] :
                             /\ elect'[x] # NoHost /\ elect'[x] \in met'[k]
                             /\ \A y \in Peers(on'[k]) \ left'[k] : x # y => elect'[x] # elect'[y]
      BY DEF Reading, Siblings, Peers
    <2>1. k # l
      BY <1>2
    <2>2. /\ pc'[k] = pc[k] /\ on'[k] = on[k] /\ met'[k] = met[k] /\ left'[k] = left[k]
          /\ \A x \in Peers(on[k]) \ left[k] : elect'[x] = elect[x]
      BY <2>1, <1>3, <1>4
    <2>3. Reading
      BY DEF GangInv
    <2> QED BY <2>2, <2>3, SMT DEF Reading
  <1>10. Cleared'
    BY <1>2, <1>3, SMT DEF GangInv, Cleared, Peers
  <1> QED BY <1>1, <1>4, <1>5, <1>6, <1>7, <1>8, <1>9, <1>10 DEF GangInv

\* Refuse puts one loop back to idle.
LEMMA RefuseAlone ==
    ASSUME GangInv, NEW l \in Loops, Refuse(l)
    PROVE  OnlyOf(l) /\ UNCHANGED <<row, mark, begun>> /\ pc'[l] = "idle"
  <1>1. Anyone \in Members
    BY GangAssumption DEF Anyone
  <1> QED BY <1>1 DEF GangInv, Shape, Refuse, OnlyOf, Phases

\* The election a pass files is its own host's, where none stood.
LEMMA ElectGrows ==
    ASSUME GangInv, NEW l \in Loops, Standing(l) = HostOf[l],
           elect' = [elect EXCEPT ![on[l]] = HostOf[l]]
    PROVE  /\ elect' \in [Members -> Places] /\ GrowOnly /\ elect'[on[l]] = HostOf[l]
  <1>1. elect \in [Members -> Places] /\ on[l] \in Members /\ HostOf[l] \in Places
    BY GangAssumption DEF GangInv, Shape, Places
  <1> QED BY <1>1 DEF GrowOnly, Standing

LEMMA PassStepsInv ==
    ASSUME GangInv, NEW l \in Loops,
           \/ Census(l) \/ CensusRefuses(l) \/ Admit(l) \/ NotAdmitted(l) \/ GateRefuses(l)
           \/ WaitForPeers(l)
    PROVE  GangInv'
  <1>1. pc[l] \in {"prepared", "census", "taken", "marked"}
    BY DEF Census, CensusRefuses, Admit, NotAdmitted, GateRefuses, WaitForPeers
  <1>2. ~OwnsClaim(l) /\ Waits(l)
    BY <1>1 DEF OwnsClaim, Waits, Passing, Claiming
  <1>3. elect \in [Members -> Places]
    BY DEF GangInv, Shape
  <1>4. CASE Census(l)
    <2>1. OnlyOf(l) /\ UNCHANGED <<row, mark, begun, elect>> /\ pc'[l] = "census" /\ on' = on
      BY <1>4 DEF Census, GangInv, Shape, OnlyOf, Phases, shared
    <2>2. GrowOnly
      BY SMTT(30), <2>1 DEF GrowOnly
    <2> QED BY <1>2, <1>3, <2>1, <2>2, PassInv
  <1>5. CASE Admit(l)
    <2>1. /\ OnlyOf(l) /\ UNCHANGED <<row, mark, begun>> /\ pc'[l] = "taken" /\ on' = on
          /\ Standing(l) = HostOf[l] /\ elect' = [elect EXCEPT ![on[l]] = HostOf[l]]
      BY SMTT(30), <1>5 DEF Admit, GangInv, Shape, OnlyOf, Phases
    <2> QED BY ZenonT(30), <1>2, <2>1, ElectGrows, PassInv
  <1>6. CASE CensusRefuses(l) \/ GateRefuses(l) \/ WaitForPeers(l)
    <2>1. Refuse(l) /\ UNCHANGED elect
      BY <1>6 DEF CensusRefuses, GateRefuses, WaitForPeers
    <2>2. GrowOnly
      BY SMTT(30), <2>1 DEF GrowOnly
    <2>3. OnlyOf(l) /\ UNCHANGED <<row, mark, begun>> /\ pc'[l] = "idle"
      BY <1>2, <2>1, RefuseAlone
    <2> QED BY <1>2, <1>3, <2>1, <2>2, <2>3, PassInv
  <1>7. CASE NotAdmitted(l)
    <2>1. Refuse(l)
      BY <1>7 DEF NotAdmitted
    <2>2. elect' \in [Members -> Places] /\ GrowOnly
      <3>1. CASE UNCHANGED elect
        BY <1>3, <3>1 DEF GrowOnly
      <3> QED BY <1>7, <3>1, ElectGrows DEF NotAdmitted
    <2> QED BY <1>2, <2>1, <2>2, RefuseAlone, PassInv
  <1> QED BY <1>4, <1>5, <1>6, <1>7

-----------------------------------------------------------------------------
\* A loop takes a READY member whose lock nobody has.
LEMMA PrepareInv ==
    ASSUME GangInv, NEW l \in Loops, NEW m \in Members, Prepare(l, m) PROVE GangInv'
  <1>1. /\ pc[l] = "idle" /\ row[m] = "ready" /\ KeyFree(m)
        /\ UNCHANGED <<row, elect, mark, met, left, out, begun>>
        /\ pc' = [pc EXCEPT ![l] = "prepared"] /\ on' = [on EXCEPT ![l] = m]
    BY DEF Prepare, shared
  <1>2. Shape'
    BY <1>1 DEF GangInv, Shape, Phases
  <1>3. pc'[l] = "prepared" /\ on'[l] = m /\ ~OwnsClaim(l)' /\ ~OwnsClaim(l)
    BY <1>1 DEF GangInv, Shape, OwnsClaim, Claiming
  <1>4. \A k \in Loops \ {l} :
          /\ pc'[k] = pc[k] /\ on'[k] = on[k]
          /\ (OwnsClaim(k)' <=> OwnsClaim(k)) /\ (Holds(k)' <=> Holds(k)) /\ (Waits(k)' <=> Waits(k))
    BY SMTT(30), <1>1 DEF GangInv, Shape, OwnsClaim, Holds, Waits
  <1>5. \A k \in Loops : Holds(k) => on[k] # m
    BY <1>1 DEF Holds, KeyFree, GangInv, Rows, InClaimed
  <1>6. Apart'
    BY <1>3, <1>4, <1>5 DEF GangInv, Apart
  <1>7. Rows'
    <2> SUFFICES ASSUME NEW k \in Loops
                 PROVE  /\ Waits(k)' => row[on'[k]] = "ready"
                        /\ OwnsClaim(k)' => row[on'[k]] \in InClaimed
                        /\ pc'[k] \in Reserving \/ OwnsClaim(k)' => elect[on'[k]] = HostOf[k]
                        /\ pc'[k] \in {"ending", "tearing"} => out[k] \in Terminal
      BY <1>1 DEF Rows
    <2>1. CASE k = l
      BY SMTT(30), <2>1, <1>1, <1>3 DEF Reserving
    <2>2. CASE k # l
      BY <2>2, <1>4 DEF GangInv, Rows
    <2> QED BY <2>1, <2>2
  <1>8. Owners'
    BY SMTT(30), <1>1, <1>3, <1>4 DEF GangInv, Owners
  <1>9. Marks' /\ Begun' /\ ClaimedBesideWholeSet'
    BY <1>1 DEF GangInv, Marks, Begun, ClaimedBesideWholeSet
  <1>10. Reading' /\ Cleared'
    <2>1. \A k \in Loops : pc'[k] \in {"marked", "whole", "released", "running"} =>
            pc'[k] = pc[k] /\ on'[k] = on[k]
      BY <1>3, <1>4
    <2> QED BY <1>1, <2>1, SMT DEF GangInv, Reading, Cleared, Siblings, Peers
  <1> QED BY <1>2, <1>6, <1>7, <1>8, <1>9, <1>10 DEF GangInv

\* The mark is the member's own election; the reading starts with itself alone.
LEMMA MarkReadyInv == ASSUME GangInv, NEW l \in Loops, MarkReady(l) PROVE GangInv'
  <1>1. /\ pc[l] = "taken" /\ UNCHANGED <<row, elect, on, out, begun>>
        /\ mark' = [mark EXCEPT ![on[l]] = HostOf[l]]
        /\ pc' = [pc EXCEPT ![l] = "marked"]
        /\ met' = [met EXCEPT ![l] = {HostOf[l]}]
        /\ left' = [left EXCEPT ![l] = Siblings(on[l])]
    BY DEF MarkReady
  <1>2. /\ HostOf[l] \in Hosts /\ on[l] \in Members /\ elect[on[l]] = HostOf[l]
        /\ HostOf[l] # NoHost
    <2>1. HostOf[l] \in Hosts /\ HostOf[l] # NoHost
      BY GangAssumption
    <2>2. on[l] \in Members
      BY DEF GangInv, Shape
    <2>3. elect[on[l]] = HostOf[l]
      BY <1>1 DEF GangInv, Rows, Reserving
    <2> QED BY <2>1, <2>2, <2>3
  <1>3. Shape'
    BY <1>1, <1>2 DEF GangInv, Shape, Phases, Places, Siblings, Peers
  <1>4. \A k \in Loops :
          /\ (OwnsClaim(k)' <=> OwnsClaim(k)) /\ (Holds(k)' <=> Holds(k)) /\ (Waits(k)' <=> Waits(k))
          /\ (pc'[k] \in Reserving <=> pc[k] \in Reserving)
          /\ k # l => pc'[k] = pc[k] /\ met'[k] = met[k] /\ left'[k] = left[k]
    BY <1>1 DEF GangInv, Shape, OwnsClaim, Holds, Waits, Claiming, Passing, Reserving
  <1>5. pc'[l] = "marked" /\ met'[l] = {HostOf[l]} /\ left'[l] = Siblings(on[l])
    BY <1>1 DEF GangInv, Shape
  <1>6. Apart' /\ Rows' /\ Owners'
    <2>1. Apart' /\ Owners'
      BY SMTT(30), <1>1, <1>4 DEF GangInv, Apart, Owners
    <2>2. \A k \in Loops : pc'[k] \in {"ending", "tearing"} => pc'[k] = pc[k]
      BY SMTT(30), <1>4, <1>5
    <2>3. Rows'
      BY <1>1, <1>4, <2>2 DEF GangInv, Rows
    <2> QED BY SMTT(30), <2>1, <2>3
  <1>7. Marks'
    BY <1>1, <1>2 DEF GangInv, Shape, Marks
  <1>8. Reading'
    <2> SUFFICES ASSUME NEW k \in Loops, pc'[k] \in {"marked", "whole"}
                 PROVE  /\ left'[k] \subseteq Siblings(on[k])
                        /\ pc'[k] = "whole" => left'[k] = {}
                        /\ \A x \in Peers(on[k]) \ left'[k] :
                             /\ elect[x] # NoHost /\ elect[x] \in met'[k]
                             /\ \A y \in Peers(on[k]) \ left'[k] : x # y => elect[x] # elect[y]
      BY <1>1, SMT DEF Reading, Siblings, Peers
    <2>1. CASE k = l
      BY SMTT(30), <2>1, <1>2, <1>5 DEF Siblings
    <2>2. CASE k # l
      BY SMTT(30), <2>2, <1>4 DEF GangInv, Reading
    <2> QED BY SMTT(30), <2>1, <2>2
  <1>9. Begun' /\ Cleared' /\ ClaimedBesideWholeSet'
    BY <1>1, <1>4, <1>5 DEF GangInv, Begun, Cleared, ClaimedBesideWholeSet
  <1> QED BY SMTT(30), <1>3, <1>6, <1>7, <1>8, <1>9 DEF GangInv

\* What a pass learns of a sibling is the sibling's election.
LEMMA SiblingHostIsElection ==
    ASSUME GangInv, NEW x \in Members, SiblingHost(x) # NoHost
    PROVE  SiblingHost(x) = elect[x]
  <1>1. CASE row[x] = "claimed"
    <2>1. \E l \in Loops : OwnsClaim(l) /\ on[l] = x
      BY <1>1 DEF GangInv, Owners, InClaimed
    <2> DEFINE o == CHOOSE l \in Loops : OwnsClaim(l) /\ on[l] = x
    <2>2. o \in Loops /\ OwnsClaim(o) /\ on[o] = x
      BY <2>1
    <2>3. SiblingHost(x) = HostOf[o]
      BY <1>1 DEF SiblingHost
    <2> HIDE DEF o
    <2> QED BY <2>2, <2>3 DEF GangInv, Rows
  <1>2. CASE row[x] # "claimed"
    BY <1>2 DEF SiblingHost, GangInv, Marks
  <1> QED BY <1>1, <1>2

LEMMA ReadSiblingInv == ASSUME GangInv, NEW l \in Loops, ReadSibling(l) PROVE GangInv'
  <1>1. PICK x \in left[l] :
          /\ SiblingHost(x) \notin met[l] \union {NoHost}
          /\ met' = [met EXCEPT ![l] = @ \union {SiblingHost(x)}]
          /\ left' = [left EXCEPT ![l] = @ \ {x}]
          /\ pc' = [pc EXCEPT ![l] = IF left'[l] = {} THEN "whole" ELSE "marked"]
    BY ZenonT(30) DEF ReadSibling
  <1>2. pc[l] = "marked" /\ UNCHANGED <<row, elect, mark, on, out, begun>>
    BY DEF ReadSibling, shared
  <1>3. /\ left[l] \subseteq Siblings(on[l]) /\ x \in Members
        /\ elect[x] \in Hosts /\ elect[x] # NoHost /\ elect[x] \notin met[l]
        /\ SiblingHost(x) = elect[x]
    <2>1. left[l] \subseteq Siblings(on[l]) /\ x \in Members
      BY <1>2 DEF GangInv, Shape, Reading
    <2>2. SiblingHost(x) = elect[x]
      BY <1>1, <2>1, SiblingHostIsElection
    <2> QED BY <1>1, <2>1, <2>2 DEF GangInv, Shape, Places
  <1>4. /\ met'[l] = met[l] \union {elect[x]} /\ left'[l] = left[l] \ {x}
        /\ pc'[l] \in {"marked", "whole"} /\ (pc'[l] = "whole" => left'[l] = {})
        /\ \A k \in Loops \ {l} : pc'[k] = pc[k] /\ met'[k] = met[k] /\ left'[k] = left[k]
    BY <1>1, <1>3 DEF GangInv, Shape
  <1>5. Shape'
    <2>1. pc' \in [Loops -> Phases] /\ left' \in [Loops -> SUBSET Members]
      BY <1>1 DEF GangInv, Shape, Phases
    <2>2. met' \in [Loops -> SUBSET Hosts]
      BY <1>1, <1>3 DEF GangInv, Shape
    <2> QED BY <1>2, <2>1, <2>2 DEF GangInv, Shape
  <1>6. \A k \in Loops :
          /\ (OwnsClaim(k)' <=> OwnsClaim(k)) /\ (Holds(k)' <=> Holds(k)) /\ (Waits(k)' <=> Waits(k))
          /\ (pc'[k] \in Reserving <=> pc[k] \in Reserving)
          /\ pc'[k] \in {"ending", "tearing", "released", "running"} => pc'[k] = pc[k]
    BY SMTT(30), <1>2, <1>4 DEF OwnsClaim, Holds, Waits, Claiming, Passing, Reserving
  <1>7. Apart' /\ Rows' /\ Owners' /\ Marks' /\ Begun' /\ Cleared' /\ ClaimedBesideWholeSet'
    BY <1>2, <1>6, SMT DEF GangInv, Apart, Rows, Owners, Marks, Begun, Cleared, ClaimedBesideWholeSet
  <1>8. Reading'
    <2> SUFFICES ASSUME NEW k \in Loops, pc'[k] \in {"marked", "whole"}
                 PROVE  /\ left'[k] \subseteq Siblings(on[k])
                        /\ pc'[k] = "whole" => left'[k] = {}
                        /\ \A y \in Peers(on[k]) \ left'[k] :
                             /\ elect[y] # NoHost /\ elect[y] \in met'[k]
                             /\ \A z \in Peers(on[k]) \ left'[k] : y # z => elect[y] # elect[z]
      BY <1>2, SMT DEF Reading, Siblings, Peers
    <2>1. CASE k # l
      BY SMTT(30), <2>1, <1>4 DEF GangInv, Reading
    <2>2. CASE k = l
      <3>1. \A y \in Peers(on[l]) \ left[l] :
              /\ elect[y] # NoHost /\ elect[y] \in met[l]
              /\ \A z \in Peers(on[l]) \ left[l] : y # z => elect[y] # elect[z]
        BY <1>2 DEF GangInv, Reading
      <3> QED BY SMTT(30), <2>2, <3>1, <1>3, <1>4
    <2> QED BY <2>1, <2>2
  <1> QED BY <1>5, <1>7, <1>8 DEF GangInv

-----------------------------------------------------------------------------
\* The claim itself: a whole set was read, and its elections stand.
LEMMA RenameInv == ASSUME GangInv, NEW l \in Loops, Rename(l) PROVE GangInv'
  <1>1. /\ pc[l] = "whole" /\ UNCHANGED <<elect, mark, on, left, out>>
        /\ row' = [row EXCEPT ![on[l]] = "moved"]
        /\ begun' = begun \union {on[l]}
        /\ pc' = [pc EXCEPT ![l] = "moved"]
        /\ met' = [met EXCEPT ![l] = {}]
    BY DEF Rename
  <1>2. /\ on[l] \in Members /\ row[on[l]] = "ready" /\ elect[on[l]] = HostOf[l] /\ Holds(l)
        /\ ~OwnsClaim(l) /\ left[l] = {}
    BY <1>1 DEF GangInv, Shape, Rows, Waits, Passing, Reserving, Reading, Holds, OwnsClaim, Claiming
  <1>3. Shape'
    BY <1>1, <1>2 DEF GangInv, Shape, Phases, InClaimed
  <1>4. /\ pc'[l] = "moved" /\ OwnsClaim(l)' /\ ~Waits(l)'
        /\ row'[on[l]] = "moved"
        /\ \A m \in Members : m # on[l] => row'[m] = row[m]
    BY <1>1, <1>2 DEF GangInv, Shape, OwnsClaim, Waits, Claiming
  <1>5. \A k \in Loops \ {l} :
          /\ pc'[k] = pc[k] /\ met'[k] = met[k]
          /\ (OwnsClaim(k)' <=> OwnsClaim(k)) /\ (Holds(k)' <=> Holds(k)) /\ (Waits(k)' <=> Waits(k))
          /\ (Holds(k) => on[k] # on[l])
          /\ (OwnsClaim(k) \/ Waits(k) => Holds(k)) /\ on[k] \in Members
    BY <1>1, <1>2 DEF GangInv, Shape, OwnsClaim, Holds, Waits, Apart
  <1>6. Apart'
    <2>1. \A k \in Loops : Holds(k)' => Holds(k)
      BY <1>2, <1>5
    <2> QED BY <1>1, <2>1 DEF GangInv, Apart
  <1>7. Rows'
    <2> SUFFICES ASSUME NEW k \in Loops
                 PROVE  /\ Waits(k)' => row'[on[k]] = "ready"
                        /\ OwnsClaim(k)' => row'[on[k]] \in InClaimed
                        /\ pc'[k] \in Reserving \/ OwnsClaim(k)' => elect[on[k]] = HostOf[k]
                        /\ pc'[k] \in {"ending", "tearing"} => out[k] \in Terminal
      BY <1>1 DEF Rows
    <2>1. CASE k = l
      BY <2>1, <1>2, <1>4 DEF InClaimed
    <2>2. CASE k # l
      BY <2>2, <1>4, <1>5 DEF GangInv, Rows
    <2> QED BY <2>1, <2>2
  <1>8. Owners'
    <2> SUFFICES ASSUME NEW m \in Members, row'[m] \in InClaimed
                 PROVE  \E k \in Loops : OwnsClaim(k)' /\ on[k] = m
      BY <1>1 DEF Owners
    <2>1. CASE m = on[l]
      BY <2>1, <1>4
    <2>2. CASE m # on[l]
      BY <2>2, <1>2, <1>4, <1>5 DEF GangInv, Owners
    <2> QED BY <2>1, <2>2
  <1>9. Marks' /\ Begun' /\ Cleared'
    BY <1>1, <1>4, <1>5 DEF GangInv, Marks, Begun, Cleared
  <1>10. Reading'
    <2>1. \A k \in Loops : pc'[k] \in {"marked", "whole"} => pc'[k] = pc[k] /\ met'[k] = met[k]
      BY <1>4, <1>5
    <2> QED BY <1>1, <2>1, SMT DEF GangInv, Reading
  <1>11. ClaimedBesideWholeSet'
    <2>1. \A x \in Peers(on[l]) :
            elect[x] # NoHost /\ \A y \in Siblings(x) : elect[x] # elect[y]
      <3>1. \A x \in Peers(on[l]) :
              elect[x] # NoHost /\ \A y \in Peers(on[l]) : x # y => elect[x] # elect[y]
        BY <1>1, <1>2 DEF GangInv, Reading
      <3> QED BY <3>1 DEF Siblings, Peers
    <2>2. \A m \in Members : row'[m] \in InClaimed => m = on[l] \/ row[m] \in InClaimed
      BY <1>4
    <2> QED BY <1>1, <2>1, <2>2 DEF GangInv, ClaimedBesideWholeSet
  <1> QED BY <1>3, <1>6, <1>7, <1>8, <1>9, <1>10, <1>11 DEF GangInv

\* The claim is recorded under the lock, and the pass ends with its lease.
LEMMA PersistInv == ASSUME GangInv, NEW l \in Loops, Persist(l) \/ Lease(l) PROVE GangInv'
  <1>1. /\ pc[l] \in {"moved", "leasing"} /\ UNCHANGED <<elect, mark, on, met, left, out, begun>>
        /\ UNCHANGED row \/ row' = [row EXCEPT ![on[l]] = "claimed"]
        /\ \E p \in {"leasing", "barrier"} : pc' = [pc EXCEPT ![l] = p]
    BY DEF Persist, Lease, shared
  <1>2. on[l] \in Members /\ OwnsClaim(l) /\ row[on[l]] \in InClaimed /\ Holds(l)
    BY <1>1 DEF GangInv, Shape, Rows, OwnsClaim, Claiming, Holds
  <1>3. Shape'
    <2>1. pc' \in [Loops -> Phases]
      BY <1>1 DEF GangInv, Shape, Phases
    <2>2. row' \in [Members -> {"ready"} \union InClaimed \union Terminal]
      BY <1>1, <1>2 DEF GangInv, Shape, InClaimed
    <2> QED BY <1>1, <2>1, <2>2 DEF GangInv, Shape
  <1>4. /\ pc'[l] \in {"leasing", "barrier"} /\ OwnsClaim(l)' /\ ~Waits(l)'
        /\ row'[on[l]] \in InClaimed
        /\ \A m \in Members : m # on[l] => row'[m] = row[m]
        /\ \A m \in Members : row'[m] \in InClaimed <=> row[m] \in InClaimed
    BY <1>1, <1>2 DEF GangInv, Shape, OwnsClaim, Waits, Claiming, Passing, InClaimed
  <1>5. \A k \in Loops \ {l} :
          /\ pc'[k] = pc[k] /\ (Holds(k) => on[k] # on[l])
          /\ (OwnsClaim(k)' <=> OwnsClaim(k)) /\ (Holds(k)' <=> Holds(k)) /\ (Waits(k)' <=> Waits(k))
          /\ (Waits(k) => Holds(k)) /\ on[k] \in Members
    BY <1>1, <1>2 DEF GangInv, Shape, OwnsClaim, Holds, Waits, Apart
  <1>6. Apart'
    <2>1. \A k \in Loops : Holds(k)' => Holds(k)
      BY <1>2, <1>5
    <2> QED BY <1>1, <2>1 DEF GangInv, Apart
  <1>7. Rows'
    <2> SUFFICES ASSUME NEW k \in Loops
                 PROVE  /\ Waits(k)' => row'[on[k]] = "ready"
                        /\ OwnsClaim(k)' => row'[on[k]] \in InClaimed
                        /\ pc'[k] \in Reserving \/ OwnsClaim(k)' => elect[on[k]] = HostOf[k]
                        /\ pc'[k] \in {"ending", "tearing"} => out[k] \in Terminal
      BY <1>1 DEF Rows
    <2>1. CASE k = l
      BY <2>1, <1>2, <1>4 DEF GangInv, Rows
    <2>2. CASE k # l
      BY <2>2, <1>4, <1>5 DEF GangInv, Rows
    <2> QED BY <2>1, <2>2
  <1>8. Owners' /\ ClaimedBesideWholeSet'
    BY <1>1, <1>2, <1>4, <1>5, SMT DEF GangInv, Owners, ClaimedBesideWholeSet
  <1>9. Marks' /\ Begun'
    BY <1>1, <1>2, <1>4 DEF GangInv, Marks, Begun
  <1>10. Reading' /\ Cleared'
    <2>1. \A k \in Loops : pc'[k] \in {"marked", "whole", "released", "running"} => pc'[k] = pc[k]
      BY <1>4, <1>5
    <2> QED BY <1>1, <2>1, SMT DEF GangInv, Reading, Cleared
  <1> QED BY <1>3, <1>6, <1>7, <1>8, <1>9, <1>10 DEF GangInv

-----------------------------------------------------------------------------
\* A claim that is given up with its capacity changes one loop's record and one row.
LEMMA GiveUpAlone ==
    ASSUME GangInv, NEW l \in Loops, NEW to, GiveUp(l, to)
    PROVE  OnlyOf(l) /\ pc'[l] = "idle"
  <1>1. Anyone \in Members
    BY GangAssumption DEF Anyone
  <1> QED BY SMTT(30), <1>1 DEF GiveUp, GangInv, Shape, OnlyOf, Phases, Outcomes

\* What a claim is given up for: an ending, or another try.
Given == Terminal \union {"ready"}

\* The owner of a claim files its ending or puts the row back, or a reaper does when
\* it has died.
LEMMA EndInv ==
    ASSUME GangInv, NEW l \in Loops, OwnsClaim(l), NEW status \in Given, GiveUp(l, status)
    PROVE  GangInv'
  <1> OnlyOf(l) /\ pc'[l] = "idle"
    BY ZenonT(30), GiveUpAlone
  <1> UNCHANGED <<elect, mark, begun>> /\ row' = [row EXCEPT ![on[l]] = status]
    BY DEF GiveUp
  <1>1. on[l] \in Members /\ row[on[l]] \in InClaimed /\ on[l] \in begun /\ Holds(l)
    BY DEF GangInv, Shape, Rows, Begun, Holds
  <1>2. Shape'
    BY <1>1 DEF GangInv, Shape, OnlyOf, Given
  <1>3. /\ ~Holds(l)' /\ ~Waits(l)' /\ ~OwnsClaim(l)'
        /\ row'[on[l]] \in Given
        /\ \A m \in Members : m # on[l] => row'[m] = row[m]
    BY <1>1 DEF GangInv, Shape, Holds, Waits, OwnsClaim, Passing, Claiming
  <1>4. \A k \in Loops \ {l} :
          /\ pc'[k] = pc[k] /\ on'[k] = on[k] /\ out'[k] = out[k]
          /\ met'[k] = met[k] /\ left'[k] = left[k] /\ (Holds(k) => on[k] # on[l])
          /\ (OwnsClaim(k)' <=> OwnsClaim(k)) /\ (Holds(k)' <=> Holds(k)) /\ (Waits(k)' <=> Waits(k))
          /\ (OwnsClaim(k) \/ Waits(k) => Holds(k)) /\ on[k] \in Members
    BY <1>1 DEF GangInv, Shape, OwnsClaim, Holds, Waits, Apart, OnlyOf
  <1>5. Apart'
    BY <1>3, <1>4, SMT DEF GangInv, Apart
  <1>6. Rows'
    <2> SUFFICES ASSUME NEW k \in Loops
                 PROVE  /\ Waits(k)' => row'[on'[k]] = "ready"
                        /\ OwnsClaim(k)' => row'[on'[k]] \in InClaimed
                        /\ pc'[k] \in Reserving \/ OwnsClaim(k)' => elect[on'[k]] = HostOf[k]
                        /\ pc'[k] \in {"ending", "tearing"} => out'[k] \in Terminal
      BY DEF Rows
    <2>1. CASE k = l
      BY <2>1, <1>3 DEF Reserving
    <2>2. CASE k # l
      BY <2>2, <1>3, <1>4, SMT DEF GangInv, Rows
    <2> QED BY <2>1, <2>2
  <1>7. Owners'
    <2> SUFFICES ASSUME NEW m \in Members, row'[m] \in InClaimed
                 PROVE  \E k \in Loops : OwnsClaim(k)' /\ on'[k] = m
      BY DEF Owners
    <2>1. m # on[l] /\ row[m] \in InClaimed
      BY <1>3 DEF InClaimed, Terminal, Given
    <2> QED BY <2>1, <1>4 DEF GangInv, Owners
  <1>8. Marks' /\ Begun'
    BY SMTT(30), <1>1, <1>3 DEF GangInv, Marks, Begun, InClaimed
  <1>9. Reading' /\ Cleared'
    <2>1. \A k \in Loops : pc'[k] \in {"marked", "whole", "released", "running"} =>
            /\ pc'[k] = pc[k] /\ on'[k] = on[k] /\ met'[k] = met[k] /\ left'[k] = left[k]
      BY <1>4
    <2> QED BY <2>1, SMT DEF GangInv, Reading, Cleared, Siblings, Peers
  <1>10. ClaimedBesideWholeSet'
    <2>1. \A m \in Members : row'[m] \in InClaimed => row[m] \in InClaimed
      BY <1>3 DEF InClaimed, Terminal, Given
    <2> QED BY <2>1 DEF GangInv, ClaimedBesideWholeSet
  <1> QED BY <1>2, <1>5, <1>6, <1>7, <1>8, <1>9, <1>10 DEF GangInv

LEMMA LeavesInv ==
    ASSUME GangInv, NEW l \in Loops, Unwind(l) \/ DeferLaunch(l) \/ Finish(l) \/ Recover(l)
    PROVE  OwnsClaim(l) /\ \E status \in Given : GiveUp(l, status)
  <1>1. CASE Unwind(l)
    BY <1>1 DEF Unwind, OwnsClaim, Claiming, Given
  <1>2. CASE DeferLaunch(l)
    <2>1. Concluded(on[l], "ready") \in Given
      BY DEF Concluded, Given, Terminal
    <2> QED BY <1>2, <2>1 DEF DeferLaunch, OwnsClaim, Claiming
  <1>3. CASE Finish(l)
    <2>1. pc[l] = "ending" /\ out[l] \in Terminal
      BY <1>3 DEF Finish, GangInv, Rows
    <2>2. Concluded(on[l], out[l]) \in Given
      BY <2>1 DEF Concluded, Given, Terminal
    <2> QED BY <1>3, <2>1, <2>2 DEF Finish, OwnsClaim, Claiming
  <1>4. CASE Recover(l)
    <2>1. Concluded(on[l], ReapedTo(out[l])) \in Given
      BY DEF Concluded, ReapedTo, Given, Terminal
    <2> QED BY <1>4, <2>1 DEF Recover
  <1> QED BY <1>1, <1>2, <1>3, <1>4

\* A loop without a claim is started again.
LEMMA ReturnInv == ASSUME GangInv, NEW l \in Loops, Return(l) PROVE GangInv'
  <1>1. /\ OnlyOf(l) /\ UNCHANGED <<row, elect, mark, begun>> /\ pc'[l] = "idle"
        /\ ~OwnsClaim(l)
    BY SMTT(30) DEF Return, GangInv, Shape, OnlyOf, Phases, Outcomes
  <1>2. elect' \in [Members -> Places] /\ GrowOnly
    BY <1>1 DEF GangInv, Shape, GrowOnly
  <1> QED BY <1>1, <1>2, PassInv

\* A loop that dies with a claim leaves one of three kinds of claim.
LEMMA LeftByPhase ==
    ASSUME NEW l \in Loops, NEW o \in LeftBehind(l)
    PROVE  IF pc[l] \in Claiming THEN o \in {"claim", "unstarted", "done"}
           ELSE o = IF pc[l] \in Reserving THEN "tokens" ELSE "none"
  BY SMTT(30) DEF LeftBehind, Claiming

\* A loop that dies keeps its claim, and nothing else.
LEMMA CrashInv == ASSUME GangInv, NEW l \in Loops, Crash(l) PROVE GangInv'
  <1>1. Anyone \in Members
    BY GangAssumption DEF Anyone
  <1>0. PICK o \in LeftBehind(l) : out' = [out EXCEPT ![l] = o]
    BY DEF Crash
  <1>2. /\ OnlyOf(l) /\ UNCHANGED <<row, elect, mark, begun>> /\ pc'[l] = "crashed"
        /\ out'[l] = o
        /\ on'[l] = IF pc[l] \in Claiming THEN on[l] ELSE Anyone
        /\ pc[l] # "crashed"
    <2>1. o \in Outcomes
      BY LeftByPhase DEF Outcomes
    <2>2. UNCHANGED <<row, elect, mark, begun>> /\ pc[l] # "crashed"
      BY DEF Crash, shared
    <2> QED BY SMTT(30), <1>0, <1>1, <2>1, <2>2 DEF Crash, GangInv, Shape, OnlyOf, Phases
  <1>3. CASE pc[l] \notin Claiming
    <2>1. ~OwnsClaim(l) /\ out'[l] \notin {"claim", "unstarted", "done"}
      BY <1>2, <1>3, LeftByPhase DEF OwnsClaim
    <2>2. elect' \in [Members -> Places] /\ GrowOnly
      BY <1>2 DEF GangInv, Shape, GrowOnly
    <2> QED BY ZenonT(30), <1>2, <2>1, <2>2, PassInv
  <1>4. CASE pc[l] \in Claiming
    <2>0. out'[l] \in {"claim", "unstarted", "done"}
      BY <1>2, <1>4, LeftByPhase
    <2>1. on'[l] = on[l] /\ OwnsClaim(l) /\ OwnsClaim(l)' /\ ~Waits(l)' /\ Holds(l)
      BY <1>2, <1>4, <2>0 DEF OwnsClaim, Waits, Passing, Holds
    <2>2. \A k \in Loops :
            /\ on'[k] = on[k]
            /\ (OwnsClaim(k)' <=> OwnsClaim(k)) /\ (Holds(k)' => Holds(k)) /\ (Waits(k)' => Waits(k))
      BY <2>1, <1>2 DEF OnlyOf, OwnsClaim, Holds, Waits
    <2>3. \A k \in Loops :
            /\ pc'[k] \in Reserving \union {"marked", "whole", "released", "running", "ending", "tearing"} =>
                 /\ pc'[k] = pc[k] /\ out'[k] = out[k]
                 /\ met'[k] = met[k] /\ left'[k] = left[k]
      BY <1>2 DEF OnlyOf, Reserving
    <2>4. Shape'
      BY SMTT(30), <1>2 DEF GangInv, Shape, OnlyOf
    <2>5. Apart' /\ Owners' /\ Marks' /\ Begun' /\ ClaimedBesideWholeSet'
      BY SMTT(30), <1>2, <2>2 DEF GangInv, Apart, Owners, Marks, Begun, ClaimedBesideWholeSet
    <2>6. Rows'
      BY SMTT(30), <1>2, <2>2, <2>3 DEF GangInv, Rows
    <2>7. Reading' /\ Cleared'
      BY <1>2, <2>2, <2>3, SMT DEF GangInv, Reading, Cleared
    <2> QED BY <2>4, <2>5, <2>6, <2>7 DEF GangInv
  <1> QED BY <1>3, <1>4

-----------------------------------------------------------------------------
\* A gang is forgotten only when nobody can have read it or be claimed beside it.
LEMMA SweepEndedInv == ASSUME GangInv, NEW g \in Gangs, SweepEnded(g) PROVE GangInv'
  <1>1. /\ UNCHANGED <<row, pc, on, met, left, out, begun>>
        /\ elect' = [m \in Members |-> IF GangOf[m] = g THEN NoHost ELSE elect[m]]
        /\ mark' = [m \in Members |-> IF GangOf[m] = g THEN NoHost ELSE mark[m]]
        /\ \A m \in Members : GangOf[m] = g => row[m] \in Terminal
    BY DEF SweepEnded, local, MembersOf
  <1>2. Shape'
    BY <1>1 DEF GangInv, Shape, Places
  <1>3. \A m \in Members : row[m] \notin Terminal => \A x \in Peers(m) : elect'[x] = elect[x]
    BY <1>1 DEF Peers
  <1>4. \A l \in Loops :
          Waits(l) \/ OwnsClaim(l) => /\ on[l] \in Members /\ elect'[on[l]] = elect[on[l]]
                                      /\ \A x \in Peers(on[l]) : elect'[x] = elect[x]
    <2>1. \A l \in Loops : Waits(l) \/ OwnsClaim(l) => on[l] \in Members /\ row[on[l]] \notin Terminal
      BY DEF GangInv, Shape, Rows, InClaimed, Terminal
    <2> QED BY <1>3, <2>1 DEF Peers
  <1>5. \A l \in Loops : /\ (Waits(l)' <=> Waits(l)) /\ (OwnsClaim(l)' <=> OwnsClaim(l))
                         /\ (Holds(l)' <=> Holds(l))
                         /\ (pc[l] \in Reserving => Waits(l))
    BY SMTT(30), <1>1 DEF Waits, OwnsClaim, Holds, Reserving, Passing
  <1>6. Apart' /\ Owners' /\ Begun' /\ Cleared'
    BY SMTT(30), <1>1, <1>5 DEF GangInv, Apart, Owners, Begun, Cleared
  <1>7. Rows'
    BY <1>1, <1>4, <1>5 DEF GangInv, Rows
  <1>8. Marks'
    BY <1>1 DEF GangInv, Marks
  <1>9. Reading'
    <2> SUFFICES ASSUME NEW l \in Loops, pc[l] \in {"marked", "whole"}
                 PROVE  /\ left[l] \subseteq Siblings(on[l])
                        /\ pc[l] = "whole" => left[l] = {}
                        /\ \A x \in Peers(on[l]) \ left[l] :
                             /\ elect'[x] # NoHost /\ elect'[x] \in met[l]
                             /\ \A y \in Peers(on[l]) \ left[l] : x # y => elect'[x] # elect'[y]
      BY SMTT(30), <1>1 DEF Reading
    <2>1. \A x \in Peers(on[l]) : elect'[x] = elect[x]
      BY <1>4, <1>5 DEF Reserving
    <2> QED BY SMTT(30), <2>1 DEF GangInv, Reading
  <1>10. ClaimedBesideWholeSet'
    <2> SUFFICES ASSUME NEW m \in Members, row[m] \in InClaimed, NEW x \in Peers(m)
                 PROVE  elect'[x] # NoHost /\ \A y \in Siblings(x) : elect'[x] # elect'[y]
      BY <1>1 DEF ClaimedBesideWholeSet
    <2>1. \A z \in Peers(m) : elect'[z] = elect[z]
      BY <1>3 DEF InClaimed, Terminal
    <2>2. Siblings(x) \subseteq Peers(m)
      BY DEF Siblings, Peers
    <2> QED BY <2>1, <2>2 DEF GangInv, ClaimedBesideWholeSet
  <1> QED BY SMTT(30), <1>2, <1>6, <1>7, <1>8, <1>9, <1>10 DEF GangInv

LEMMA GoStaleInv == ASSUME GangInv, NEW m \in Members, GoStale(m) PROVE GangInv'
  <1>1. /\ UNCHANGED <<row, elect, pc, on, met, left, out, begun>>
        /\ mark' = [mark EXCEPT ![m] = NoHost]
    BY DEF GoStale, local
  <1>2. Shape' /\ Marks'
    BY <1>1 DEF GangInv, Shape, Marks, Places
  <1> Apart /\ Rows /\ Owners /\ Reading
    BY DEF GangInv
  <1>3. \A l \in Loops : /\ (Waits(l)' <=> Waits(l)) /\ (OwnsClaim(l)' <=> OwnsClaim(l))
                         /\ (Holds(l)' <=> Holds(l))
    BY <1>1 DEF Waits, OwnsClaim, Holds
  <1>4. Apart' /\ Rows' /\ Owners'
    BY <1>1, <1>3 DEF Apart, Rows, Owners
  <1>5. Reading'
    BY <1>1, SMT DEF Reading
  <1>6. Begun' /\ Cleared' /\ ClaimedBesideWholeSet'
    BY <1>1 DEF GangInv, Begun, Cleared, ClaimedBesideWholeSet
  <1> QED BY <1>2, <1>4, <1>5, <1>6 DEF GangInv

LEMMA StutterInv == ASSUME GangInv, UNCHANGED vars PROVE GangInv'
  <1>1. UNCHANGED <<row, elect, mark, pc, on, met, left, out, begun>>
    BY SMTT(30) DEF vars, shared, local
  <1>2. \A k \in Loops : Settled(k)
    BY <1>1 DEF Settled
  <1>3. Gently
    BY <1>1 DEF Gently
  <1>4. pc' \in [Loops -> Phases] /\ out' \in [Loops -> Outcomes]
    BY <1>1 DEF GangInv, Shape
  <1> QED BY <1>1, <1>2, <1>3, <1>4, GentleRows, QuietInv

LEMMA NextInv == ASSUME GangInv, [Next]_vars PROVE GangInv'
  <1>1. ASSUME NEW g \in Gangs,
               \/ PublishGroup(g) \/ CancelExpired(g) \/ CancelMeetsClaim(g)
               \/ SweepTeardown(g) \/ SweepEnded(g)
        PROVE  GangInv'
    BY <1>1, SharedStepsInv, SweepEndedInv
  <1>2. ASSUME NEW m \in Members, SweepUnregistered(m) \/ Withdraw(m) \/ GoStale(m)
        PROVE  GangInv'
    BY <1>2, SharedStepsInv, GoStaleInv
  <1>3. ASSUME NEW l \in Loops, Step(l) PROVE GangInv'
    BY <1>3, PassStepsInv, MarkReadyInv, ReadSiblingInv, RenameInv, PersistInv, BarrierInv,
       PayloadInv, LeavesInv, EndInv, ReturnInv DEF Step
  <1>4. ASSUME NEW l \in Loops, Crash(l) PROVE GangInv'
    BY <1>4, CrashInv
  <1>5. ASSUME NEW l \in Loops, NEW m \in Members, Prepare(l, m) \/ PrepareEnded(l, m)
        PROVE  GangInv'
    BY <1>5, PrepareInv, SharedStepsInv
  <1>6. CASE UNCHANGED vars
    BY <1>6, StutterInv
  <1> QED BY <1>1, <1>2, <1>3, <1>4, <1>5, <1>6 DEF Next

\* The invariant of a gang's admission: who has which row, where it is elected, and
\* what a half-read set of siblings is worth (the gang part of a claim pass).
THEOREM GangInvHolds == Spec => []GangInv
  BY InitInv, NextInv, PTL DEF Spec

\* A payload runs only when every member of its gang has been claimed, for any
\* number of hosts, loops, gangs and faults (_gang_start_barrier).
THEOREM GangsStartWhole == Spec => []StartsWhole
  <1>1. GangInv => StartsWhole
    BY DEF GangInv, Cleared, StartsWhole
  <1> QED BY <1>1, GangInvHolds, PTL

\* A claimed member's whole gang is elected, on distinct hosts, though its siblings
\* were read one by one and without their locks (sibling_readiness).
THEOREM ClaimedBesideTheWholeSet == Spec => []ClaimedBesideWholeSet
  <1>1. GangInv => ClaimedBesideWholeSet
    BY DEF GangInv
  <1> QED BY <1>1, GangInvHolds, PTL

-----------------------------------------------------------------------------
(* What a host has room for.                                               *)

\* The loops whose reservation, or whose claim, is still to be given back.
Reserves(l) ==
    \/ pc[l] \in Reserving \union Claiming
    \/ pc[l] = "crashed" /\ out[l] # "none"

Reserved(h) == {l \in Loops : HostOf[l] = h /\ Reserves(l)}

\* Every unit of a host's capacity is free, or one loop has it: f gives each of the n
\* units that are not free to a loop of its own.
Numbering(f, n, S) ==
    /\ f \in [1 .. n -> S]
    /\ \A i, j \in 1 .. n : f[i] = f[j] => i = j
    /\ \A x \in S : \E i \in 1 .. n : f[i] = x

Counted ==
    /\ free \in [Hosts -> 0 .. Capacity]
    /\ \A h \in Hosts : \E f : Numbering(f, Capacity - free[h], Reserved(h))

\* What Shape leaves out of the type invariant.
Bounds ==
    /\ filed \subseteq Gangs /\ torn \subseteq Gangs /\ started \subseteq Gangs
    /\ covered \subseteq Members /\ needs \subseteq Loops
    /\ faults \in 0 .. MaxFaults

\* A step leaves every reservation alone, makes one, or gives one back.
Keeps == UNCHANGED free /\ \A k \in Loops : Reserves(k)' <=> Reserves(k)

Takes(l) ==
    /\ free[HostOf[l]] > 0 /\ free' = [free EXCEPT ![HostOf[l]] = @ - 1]
    /\ ~Reserves(l) /\ Reserves(l)'
    /\ \A k \in Loops \ {l} : Reserves(k)' <=> Reserves(k)

Gives(l) ==
    /\ free' = [free EXCEPT ![HostOf[l]] = @ + 1]
    /\ Reserves(l) /\ ~Reserves(l)'
    /\ \A k \in Loops \ {l} : Reserves(k)' <=> Reserves(k)

LEMMA NumberOneMore ==
    ASSUME NEW n \in Nat, NEW S, NEW f, Numbering(f, n, S), NEW x, x \notin S
    PROVE  \E g : Numbering(g, n + 1, S \union {x})
  <1> DEFINE g == [i \in 1 .. n + 1 |-> IF i = n + 1 THEN x ELSE f[i]]
  <1>1. f \in [1 .. n -> S] /\ \A i \in 1 .. n + 1 : i = n + 1 \/ i \in 1 .. n
    BY SMT DEF Numbering
  <1>2. g \in [1 .. n + 1 -> S \union {x}]
    BY <1>1, SMT
  <1>3. \A i, j \in 1 .. n + 1 : g[i] = g[j] => i = j
    BY <1>1, SMT DEF Numbering
  <1>4. \A y \in S \union {x} : \E i \in 1 .. n + 1 : g[i] = y
    <2> SUFFICES ASSUME NEW y \in S \union {x} PROVE \E i \in 1 .. n + 1 : g[i] = y
      OBVIOUS
    <2>1. CASE y = x
      <3>1. n + 1 \in 1 .. n + 1
        BY SMT
      <3> QED BY <2>1, <3>1
    <2>2. CASE y \in S /\ y # x
      <3>1. PICK i \in 1 .. n : f[i] = y
        BY <2>2 DEF Numbering
      <3>2. i \in 1 .. n + 1 /\ i # n + 1
        BY SMT
      <3> QED BY <3>1, <3>2
    <2> QED BY <2>1, <2>2
  <1> HIDE DEF g
  <1> QED BY <1>2, <1>3, <1>4 DEF Numbering

LEMMA NumberOneLess ==
    ASSUME NEW n \in Nat, NEW S, NEW f, Numbering(f, n, S), NEW x \in S
    PROVE  n - 1 \in Nat /\ \E g : Numbering(g, n - 1, S \ {x})
  <1>1. PICK k \in 1 .. n : f[k] = x
    BY DEF Numbering
  <1> DEFINE g == [i \in 1 .. n - 1 |-> IF i = k THEN f[n] ELSE f[i]]
  <1>2. /\ n - 1 \in Nat /\ n \in 1 .. n
        /\ \A i \in 1 .. n - 1 : i \in 1 .. n /\ i # n
        /\ \A i \in 1 .. n : i # n => i \in 1 .. n - 1
    BY SMT
  <1>3. f \in [1 .. n -> S] /\ \A i, j \in 1 .. n : f[i] = f[j] => i = j
    BY DEF Numbering
  <1>4. g \in [1 .. n - 1 -> S \ {x}]
    <2> SUFFICES ASSUME NEW i \in 1 .. n - 1 PROVE g[i] \in S \ {x}
      OBVIOUS
    <2>1. CASE i = k
      BY <1>1, <1>2, <1>3, <2>1
    <2>2. CASE i # k
      BY <1>1, <1>2, <1>3, <2>2
    <2> QED BY <2>1, <2>2
  <1>5. \A i, j \in 1 .. n - 1 : g[i] = g[j] => i = j
    BY <1>2, <1>3, SMT
  <1>6. \A y \in S \ {x} : \E i \in 1 .. n - 1 : g[i] = y
    <2> SUFFICES ASSUME NEW y \in S \ {x} PROVE \E i \in 1 .. n - 1 : g[i] = y
      OBVIOUS
    <2>1. PICK j \in 1 .. n : f[j] = y
      BY DEF Numbering
    <2>2. j # k
      BY <1>1, <2>1
    <2>3. CASE j = n
      <3>1. k \in 1 .. n - 1
        BY <1>2, <2>2, <2>3
      <3> QED BY <2>1, <2>3, <3>1
    <2>4. CASE j # n
      <3>1. j \in 1 .. n - 1
        BY <1>2, <2>4
      <3> QED BY <2>1, <2>2, <3>1
    <2> QED BY <2>3, <2>4
  <1> HIDE DEF g
  <1> QED BY <1>2, <1>4, <1>5, <1>6 DEF Numbering

LEMMA KeepsCount == ASSUME Counted, Keeps PROVE Counted'
  <1>1. \A h \in Hosts : Reserved(h)' = Reserved(h)
    BY DEF Keeps, Reserved
  <1> QED BY <1>1 DEF Counted, Keeps

\* One host's count changes with its reservations.
LEMMA HostCount ==
    ASSUME Counted, NEW h \in Hosts, NEW n \in 0 .. Capacity, free' = [free EXCEPT ![h] = n],
           \E f : Numbering(f, Capacity - n, Reserved(h)'),
           \A k \in Hosts \ {h} : Reserved(k)' = Reserved(k)
    PROVE  Counted'
  <1>1. free' \in [Hosts -> 0 .. Capacity] /\ free'[h] = n /\ \A k \in Hosts \ {h} : free'[k] = free[k]
    BY DEF Counted
  <1> SUFFICES ASSUME NEW k \in Hosts PROVE \E f : Numbering(f, Capacity - free'[k], Reserved(k)')
    BY <1>1 DEF Counted
  <1>2. CASE k = h
    BY <1>1, <1>2
  <1>3. CASE k # h
    BY <1>1, <1>3 DEF Counted
  <1> QED BY <1>2, <1>3

LEMMA TakesCount == ASSUME Counted, NEW l \in Loops, Takes(l) PROVE Counted'
  <1> DEFINE h == HostOf[l]
  <1>1. h \in Hosts /\ Capacity \in Nat
    BY GangAssumption
  <1>2. /\ l \notin Reserved(h) /\ Reserved(h)' = Reserved(h) \union {l}
        /\ \A k \in Hosts \ {h} : Reserved(k)' = Reserved(k)
    BY DEF Takes, Reserved
  <1>3. PICK f : Numbering(f, Capacity - free[h], Reserved(h))
    BY <1>1 DEF Counted
  <1>4. free[h] \in 0 .. Capacity /\ free[h] > 0 /\ free' = [free EXCEPT ![h] = free[h] - 1]
    BY <1>1 DEF Counted, Takes
  <1> HIDE DEF h
  <1>5. /\ Capacity - free[h] \in Nat /\ free[h] - 1 \in 0 .. Capacity
        /\ (Capacity - free[h]) + 1 = Capacity - (free[h] - 1)
    BY <1>1, <1>4, SMT
  <1>6. \E g : Numbering(g, (Capacity - free[h]) + 1, Reserved(h) \union {l})
    BY <1>2, <1>3, <1>5, NumberOneMore
  <1>7. \E g : Numbering(g, Capacity - (free[h] - 1), Reserved(h)')
    BY <1>2, <1>5, <1>6
  <1> QED BY <1>1, <1>2, <1>4, <1>5, <1>7, HostCount

LEMMA GivesCount == ASSUME Counted, NEW l \in Loops, Gives(l) PROVE Counted'
  <1> DEFINE h == HostOf[l]
  <1>1. h \in Hosts /\ Capacity \in Nat
    BY GangAssumption
  <1>2. /\ l \in Reserved(h) /\ Reserved(h)' = Reserved(h) \ {l}
        /\ \A k \in Hosts \ {h} : Reserved(k)' = Reserved(k)
    BY DEF Gives, Reserved
  <1>3. PICK f : Numbering(f, Capacity - free[h], Reserved(h))
    BY <1>1 DEF Counted
  <1>4. free[h] \in 0 .. Capacity /\ free' = [free EXCEPT ![h] = free[h] + 1]
    BY <1>1 DEF Counted, Gives
  <1> HIDE DEF h
  <1>5. Capacity - free[h] \in Nat
    BY <1>1, <1>4, SMT
  <1>6. (Capacity - free[h]) - 1 \in Nat /\ \E g : Numbering(g, (Capacity - free[h]) - 1, Reserved(h) \ {l})
    BY <1>2, <1>3, <1>5, NumberOneLess
  <1>7. free[h] + 1 \in 0 .. Capacity /\ (Capacity - free[h]) - 1 = Capacity - (free[h] + 1)
    BY <1>1, <1>4, <1>6, SMT
  <1>8. \E g : Numbering(g, Capacity - (free[h] + 1), Reserved(h)')
    BY <1>2, <1>6, <1>7
  <1>9. free[h] + 1 \in 0 .. Capacity
    BY <1>7
  <1> QED BY <1>1, <1>2, <1>4, <1>8, <1>9, HostCount

\* Steps of a loop that is not one of those with a reservation, before or after, and
\* of one that has it before and after.
LEMMA AloneKeeps ==
    ASSUME NEW l \in Loops, UNCHANGED free, Reserves(l)' <=> Reserves(l),
           \A k \in Loops \ {l} : pc'[k] = pc[k] /\ out'[k] = out[k]
    PROVE  Keeps
  BY DEF Keeps, Reserves

LEMMA RefuseCounts ==
    ASSUME GangInv, Counted, NEW l \in Loops, Refuse(l), Waits(l)
    PROVE  Keeps \/ Gives(l)
  <1>1. /\ pc'[l] = "idle" /\ UNCHANGED out
        /\ \A k \in Loops \ {l} : pc'[k] = pc[k] /\ out'[k] = out[k]
    BY DEF Refuse, GangInv, Shape
  <1>2. ~Reserves(l)' /\ (\A k \in Loops \ {l} : Reserves(k)' <=> Reserves(k))
    BY <1>1 DEF Reserves, Reserving, Claiming
  <1>3. Reserves(l) <=> pc[l] \in Reserving
    BY DEF Reserves, Waits, Passing, Claiming
  <1>4. free' = [free EXCEPT ![HostOf[l]] = IF pc[l] \in Reserving THEN @ + 1 ELSE @]
    BY DEF Refuse
  <1>5. CASE pc[l] \in Reserving
    BY <1>2, <1>3, <1>4, <1>5 DEF Gives
  <1>6. CASE pc[l] \notin Reserving
    <2>1. UNCHANGED free
      BY <1>4, <1>6 DEF Counted
    <2> QED BY <1>2, <1>3, <1>6, <2>1 DEF Keeps
  <1> QED BY <1>5, <1>6

\* Census, admission and the reading of the siblings.
LEMMA PassCounts ==
    ASSUME GangInv, Counted, NEW l \in Loops,
           \/ Census(l) \/ CensusRefuses(l) \/ Admit(l) \/ NotAdmitted(l) \/ GateRefuses(l)
           \/ MarkReady(l) \/ ReadSibling(l) \/ WaitForPeers(l) \/ Rename(l) \/ Persist(l) \/ Lease(l)
    PROVE  Keeps \/ Takes(l) \/ Gives(l)
  <1> USE DEF GangInv, Shape
  <1>1. CASE Census(l)
    <2>1. /\ pc[l] = "prepared" /\ pc'[l] = "census" /\ UNCHANGED <<free, out>>
          /\ \A k \in Loops \ {l} : pc'[k] = pc[k]
      BY <1>1 DEF Census, shared
    <2>2. Reserves(l)' <=> Reserves(l)
      BY <2>1 DEF Reserves, Reserving, Claiming
    <2> QED BY <2>1, <2>2, AloneKeeps
  <1>2. CASE Admit(l)
    <2>1. /\ pc[l] = "census" /\ pc'[l] = "taken" /\ UNCHANGED out
          /\ \A k \in Loops \ {l} : pc'[k] = pc[k]
      BY <1>2 DEF Admit
    <2>2. ~Reserves(l) /\ Reserves(l)' /\ \A k \in Loops \ {l} : Reserves(k)' <=> Reserves(k)
      BY <2>1 DEF Reserves, Reserving, Claiming
    <2> QED BY <1>2, <2>2 DEF Admit, Takes
  <1>3. CASE MarkReady(l)
    <2>1. /\ pc[l] = "taken" /\ pc'[l] = "marked" /\ UNCHANGED <<free, out>>
          /\ \A k \in Loops \ {l} : pc'[k] = pc[k]
      BY <1>3 DEF MarkReady
    <2>2. Reserves(l)' <=> Reserves(l)
      BY <2>1 DEF Reserves, Reserving
    <2> QED BY <2>1, <2>2, AloneKeeps
  <1>4. CASE ReadSibling(l)
    <2>1. /\ pc[l] = "marked" /\ pc'[l] \in {"marked", "whole"} /\ UNCHANGED <<free, out>>
          /\ \A k \in Loops \ {l} : pc'[k] = pc[k]
      BY <1>4 DEF ReadSibling, shared
    <2>2. Reserves(l)' <=> Reserves(l)
      BY <2>1 DEF Reserves, Reserving
    <2> QED BY <2>1, <2>2, AloneKeeps
  <1>5. CASE Rename(l)
    <2>1. /\ pc[l] = "whole" /\ pc'[l] = "moved" /\ UNCHANGED <<free, out>>
          /\ \A k \in Loops \ {l} : pc'[k] = pc[k]
      BY <1>5 DEF Rename
    <2>2. Reserves(l)' <=> Reserves(l)
      BY <2>1 DEF Reserves, Reserving, Claiming
    <2> QED BY <2>1, <2>2, AloneKeeps
  <1>6. CASE Persist(l) \/ Lease(l)
    <2>1. /\ pc[l] \in {"moved", "leasing"} /\ pc'[l] \in {"leasing", "barrier"}
          /\ UNCHANGED <<free, out>> /\ \A k \in Loops \ {l} : pc'[k] = pc[k]
      BY <1>6 DEF Persist, Lease, shared
    <2>2. Reserves(l)' <=> Reserves(l)
      BY <2>1 DEF Reserves, Claiming
    <2> QED BY <2>1, <2>2, AloneKeeps
  <1>7. CASE CensusRefuses(l) \/ NotAdmitted(l) \/ GateRefuses(l) \/ WaitForPeers(l)
    <2>1. Refuse(l) /\ Waits(l)
      BY <1>7 DEF CensusRefuses, NotAdmitted, GateRefuses, WaitForPeers, Waits, Passing
    <2> QED BY <2>1, RefuseCounts
  <1> QED BY <1>1, <1>2, <1>3, <1>4, <1>5, <1>6, <1>7

\* The owner of a claim keeps its reservation until it, or a reaper, files the ending.
LEMMA OwnerCounts ==
    ASSUME GangInv, Counted, NEW l \in Loops,
           \/ BarrierCheck(l) \/ BarrierReleases(l) \/ BarrierEnded(l) \/ BarrierWait(l) \/ BarrierExpires(l)
           \/ Launch(l) \/ LaunchFails(l) \/ PayloadEnds(l) \/ Checkpoint(l) \/ FinishTears(l)
           \/ FinishWithdraws(l) \/ Unwind(l) \/ DeferLaunch(l) \/ Finish(l) \/ Recover(l)
           \/ Return(l) \/ Crash(l)
    PROVE  Keeps \/ Gives(l)
  <1> USE DEF GangInv, Shape
  <1>1. CASE \/ BarrierCheck(l) \/ BarrierReleases(l) \/ BarrierEnded(l) \/ BarrierWait(l) \/ BarrierExpires(l)
             \/ Launch(l) \/ LaunchFails(l) \/ PayloadEnds(l) \/ Checkpoint(l) \/ FinishTears(l)
             \/ FinishWithdraws(l)
    <2>1. UNCHANGED free
      BY <1>1 DEF BarrierCheck, BarrierReleases, BarrierEnded, BarrierWait, BarrierExpires, Launch, LaunchFails, PayloadEnds,
             Checkpoint, FinishTears, FinishWithdraws, shared
    <2>2. pc[l] \in Claiming
      BY <1>1 DEF BarrierCheck, BarrierReleases, BarrierEnded, BarrierWait, BarrierExpires, Launch, LaunchFails, PayloadEnds,
             Checkpoint, FinishTears, FinishWithdraws, Claiming
    <2>3. \E p \in Claiming : pc' = [pc EXCEPT ![l] = p]
      BY <1>1 DEF BarrierCheck, BarrierReleases, BarrierEnded, BarrierWait, BarrierExpires, Launch, LaunchFails, PayloadEnds,
             Checkpoint, FinishTears, FinishWithdraws, Ends, Claiming
    <2>4. \E o \in Outcomes : out' = [out EXCEPT ![l] = o]
      <3>1. UNCHANGED out \/ \E status \in Outcomes : Ends(l, status)
        BY <1>1 DEF BarrierCheck, BarrierReleases, BarrierEnded, BarrierWait, BarrierExpires, Launch, LaunchFails, PayloadEnds,
               Checkpoint, FinishTears, FinishWithdraws, Outcomes
      <3>2. out[l] \in Outcomes /\ out = [out EXCEPT ![l] = out[l]]
        OBVIOUS
      <3> QED BY <3>1, <3>2 DEF Ends
    <2>5. pc'[l] \in Claiming /\ \A k \in Loops \ {l} : pc'[k] = pc[k] /\ out'[k] = out[k]
      BY <2>3, <2>4
    <2>6. Reserves(l)' <=> Reserves(l)
      BY <2>2, <2>5 DEF Reserves
    <2> QED BY <2>1, <2>5, <2>6, AloneKeeps
  <1>2. CASE Unwind(l) \/ DeferLaunch(l) \/ Finish(l) \/ Recover(l)
    <2>1. OwnsClaim(l) /\ \E status \in Given : GiveUp(l, status)
      BY <1>2, LeavesInv
    <2>2. /\ pc'[l] = "idle" /\ free' = [free EXCEPT ![HostOf[l]] = @ + 1]
          /\ \A k \in Loops \ {l} : pc'[k] = pc[k] /\ out'[k] = out[k]
      BY <2>1 DEF GiveUp
    <2>3. Reserves(l) /\ ~Reserves(l)' /\ \A k \in Loops \ {l} : Reserves(k)' <=> Reserves(k)
      BY <2>1, <2>2 DEF Reserves, OwnsClaim, Reserving, Claiming
    <2> QED BY <2>2, <2>3 DEF Gives
  <1>3. CASE Return(l)
    <2>1. /\ pc[l] = "crashed" /\ pc'[l] = "idle"
          /\ \A k \in Loops \ {l} : pc'[k] = pc[k] /\ out'[k] = out[k]
          /\ free' = [free EXCEPT ![HostOf[l]] = IF out[l] = "none" THEN @ ELSE @ + 1]
      BY <1>3 DEF Return
    <2>2. /\ (Reserves(l) <=> out[l] # "none") /\ ~Reserves(l)'
          /\ \A k \in Loops \ {l} : Reserves(k)' <=> Reserves(k)
      BY <2>1 DEF Reserves, Reserving, Claiming
    <2>3. CASE out[l] = "none"
      <3>1. UNCHANGED free
        BY <2>1, <2>3 DEF Counted
      <3> QED BY <2>1, <2>2, <2>3, <3>1, AloneKeeps
    <2>4. CASE out[l] # "none"
      BY <2>1, <2>2, <2>4 DEF Gives
    <2> QED BY <2>3, <2>4
  <1>4. CASE Crash(l)
    <2>1. PICK o \in LeftBehind(l) : out' = [out EXCEPT ![l] = o]
      BY <1>4 DEF Crash
    <2>2. /\ pc[l] # "crashed" /\ pc'[l] = "crashed" /\ UNCHANGED free
          /\ \A k \in Loops \ {l} : pc'[k] = pc[k] /\ out'[k] = out[k]
          /\ out'[l] = o
      BY <1>4, <2>1 DEF Crash, shared
    <2>3. o # "none" <=> pc[l] \in Reserving \union Claiming
      BY LeftByPhase
    <2>4. Reserves(l)' <=> Reserves(l)
      BY <2>2, <2>3 DEF Reserves, Reserving, Claiming
    <2> QED BY <2>2, <2>4, AloneKeeps
  <1> QED BY <1>1, <1>2, <1>3, <1>4

\* Nothing of a gang's own record needs a reservation.
LEMMA SharedCounts ==
    ASSUME \/ \E g \in Gangs : PublishGroup(g) \/ CancelExpired(g) \/ CancelMeetsClaim(g) \/ SweepTeardown(g) \/ SweepEnded(g)
           \/ \E m \in Members : SweepUnregistered(m) \/ Withdraw(m) \/ GoStale(m)
           \/ \E l \in Loops, m \in Members : PrepareEnded(l, m)
           \/ UNCHANGED vars
    PROVE  Keeps
  <1>1. UNCHANGED <<free, pc, out>>
    BY DEF PublishGroup, CancelExpired, CancelMeetsClaim, SweepTeardown, SweepEnded, SweepUnregistered, Withdraw, GoStale,
           PrepareEnded, vars, shared, local
  <1> QED BY <1>1 DEF Keeps, Reserves

LEMMA NextCounts == ASSUME GangInv, Counted, [Next]_vars PROVE Counted'
  <1>1. ASSUME NEW l \in Loops, Step(l) \/ Crash(l) PROVE Counted'
    <2>1. Keeps \/ Takes(l) \/ Gives(l)
      BY <1>1, PassCounts, OwnerCounts DEF Step
    <2> QED BY <2>1, KeepsCount, TakesCount, GivesCount
  <1>2. ASSUME NEW l \in Loops, NEW m \in Members, Prepare(l, m) PROVE Counted'
    <2>1. /\ pc[l] = "idle" /\ pc'[l] = "prepared" /\ UNCHANGED <<free, out>>
          /\ \A k \in Loops \ {l} : pc'[k] = pc[k]
      BY <1>2 DEF Prepare, shared, GangInv, Shape
    <2>2. Reserves(l)' <=> Reserves(l)
      BY <2>1 DEF Reserves, Reserving, Claiming
    <2> QED BY <2>1, <2>2, AloneKeeps, KeepsCount
  <1> QED BY <1>1, <1>2, SharedCounts, KeepsCount DEF Next

LEMMA WithdrawnBounds ==
    ASSUME covered \subseteq Members, NEW gone \in SUBSET Members, Withdrawn(gone)
    PROVE  covered' \subseteq Members
  BY DEF Withdrawn

LEMMA TearDownBounds ==
    ASSUME filed \subseteq Gangs, torn \subseteq Gangs, NEW g, TearDown(g)
    PROVE  torn' \subseteq Gangs
  BY DEF TearDown

LEMMA SomeMembers ==
    ASSUME NEW m, NEW g
    PROVE  /\ Siblings(m) \subseteq Members /\ Withdrawable(Siblings(m)) \subseteq Members
           /\ MembersOf(g) \subseteq Members /\ Withdrawable(MembersOf(g)) \subseteq Members
  BY DEF Siblings, Peers, MembersOf, Withdrawable

LEMMA SharedBounds ==
    ASSUME Bounds,
           \/ \E g \in Gangs : PublishGroup(g) \/ CancelExpired(g) \/ CancelMeetsClaim(g) \/ SweepTeardown(g) \/ SweepEnded(g)
           \/ \E m \in Members : SweepUnregistered(m) \/ Withdraw(m) \/ GoStale(m)
           \/ \E l \in Loops, m \in Members : PrepareEnded(l, m)
    PROVE  /\ filed' \subseteq Gangs /\ torn' \subseteq Gangs /\ started' \subseteq Gangs
           /\ covered' \subseteq Members /\ UNCHANGED needs
  <1> DEFINE Bound == /\ filed' \subseteq Gangs /\ torn' \subseteq Gangs /\ started' \subseteq Gangs
                      /\ covered' \subseteq Members /\ UNCHANGED needs
  <1> USE DEF Bounds, local
  <1>1. ASSUME NEW g \in Gangs, PublishGroup(g) \/ CancelMeetsClaim(g) \/ SweepEnded(g)
        PROVE  Bound
    BY <1>1 DEF PublishGroup, CancelMeetsClaim, SweepEnded
  <1>2. ASSUME NEW g \in Gangs, CancelExpired(g) \/ SweepTeardown(g)
        PROVE  Bound
    <2>1. /\ UNCHANGED <<filed, started, needs>> /\ TearDown(g)
          /\ Withdrawn(MembersOf(g)) \/ Withdrawn(Withdrawable(MembersOf(g)))
      BY <1>2 DEF CancelExpired, SweepTeardown
    <2> QED BY <2>1, SomeMembers, WithdrawnBounds, TearDownBounds
  <1>3. ASSUME NEW m \in Members, SweepUnregistered(m) \/ GoStale(m)
        PROVE  Bound
    <2>1. UNCHANGED <<filed, torn, started, needs>> /\ (Withdrawn({m}) \/ UNCHANGED covered)
      BY <1>3 DEF SweepUnregistered, GoStale
    <2> QED BY <2>1, WithdrawnBounds
  <1>4. ASSUME NEW m \in Members, Withdraw(m)
        PROVE  Bound
    <2> DEFINE others == IF TornNow(GangOf[m]) THEN Withdrawable(Siblings(m)) ELSE {}
    <2>1. UNCHANGED <<filed, started, needs>> /\ TearDown(GangOf[m]) /\ Withdrawn({m} \union others)
      BY <1>4 DEF Withdraw
    <2>2. {m} \union others \in SUBSET Members
      BY SomeMembers
    <2> HIDE DEF others
    <2> QED BY <2>1, <2>2, WithdrawnBounds, TearDownBounds
  <1>5. ASSUME NEW l \in Loops, NEW m \in Members, PrepareEnded(l, m)
        PROVE  Bound
    <2>1. /\ UNCHANGED <<filed, started, needs>> /\ TearDown(GangOf[m])
          /\ Withdrawn(Withdrawable(Siblings(m)))
      BY <1>5 DEF PrepareEnded
    <2> QED BY <2>1, SomeMembers, WithdrawnBounds, TearDownBounds
  <1> QED BY <1>1, <1>2, <1>3, <1>4, <1>5

LEMMA LoopBounds ==
    ASSUME GangInv, Bounds, NEW l \in Loops,
           Step(l) \/ Crash(l) \/ \E m \in Members : Prepare(l, m)
    PROVE  /\ filed' \subseteq Gangs /\ torn' \subseteq Gangs /\ started' \subseteq Gangs
           /\ covered' \subseteq Members /\ needs' \subseteq Loops
  <1> USE DEF Bounds
  <1>0. on[l] \in Members /\ GangOf[on[l]] \in Gangs
    BY GangAssumption DEF GangInv, Shape
  <1>1. CASE \/ Census(l) \/ CensusRefuses(l) \/ Admit(l) \/ NotAdmitted(l) \/ GateRefuses(l) \/ MarkReady(l)
             \/ ReadSibling(l) \/ WaitForPeers(l) \/ Rename(l) \/ Lease(l) \/ Crash(l)
             \/ \E m \in Members : Prepare(l, m)
    <2>1. UNCHANGED <<filed, torn, started, covered>>
      BY <1>1 DEF Census, CensusRefuses, Admit, NotAdmitted, GateRefuses, MarkReady, ReadSibling, WaitForPeers,
             Rename, Lease, Crash, Prepare, Refuse, shared
    <2>2. needs' \in {needs, needs \union {l}, needs \ {l}}
      BY <1>1 DEF Census, CensusRefuses, Admit, NotAdmitted, GateRefuses, MarkReady, ReadSibling, WaitForPeers,
             Rename, Lease, Crash, Prepare, Refuse
    <2> QED BY <2>1, <2>2
  <1>2. CASE Persist(l)
    <2>1. /\ UNCHANGED <<filed, torn, covered, needs>>
          /\ started' = started \union ({GangOf[on[l]]} \intersect WaitLimited)
      BY <1>2 DEF Persist
    <2> QED BY <1>0, <2>1
  <1>3. CASE \/ BarrierCheck(l) \/ BarrierReleases(l) \/ BarrierWait(l) \/ Launch(l) \/ LaunchFails(l)
             \/ PayloadEnds(l) \/ FinishTears(l) \/ Return(l)
    <2>1. UNCHANGED <<filed, started, needs, covered>>
      BY <1>3 DEF BarrierCheck, BarrierReleases, BarrierWait, Launch, LaunchFails, PayloadEnds, FinishTears,
             Return, shared
    <2>2. UNCHANGED torn \/ TearDown(GangOf[on[l]])
      BY <1>3 DEF BarrierCheck, BarrierReleases, BarrierWait, Launch, LaunchFails, PayloadEnds, FinishTears,
             Return, shared
    <2> QED BY <2>1, <2>2, TearDownBounds
  <1>4. CASE Unwind(l) \/ DeferLaunch(l) \/ Finish(l) \/ Recover(l)
    <2>1. \E status \in Given : GiveUp(l, status)
      BY <1>4, LeavesInv
    <2>2. UNCHANGED <<filed, torn, started, needs>> /\ covered' = covered \ {on[l]}
      BY <2>1 DEF GiveUp
    <2> QED BY <2>2
  <1>5. CASE BarrierEnded(l) \/ BarrierExpires(l) \/ Checkpoint(l) \/ FinishWithdraws(l)
    <2>1. UNCHANGED <<filed, started, needs>>
      BY <1>5 DEF BarrierEnded, BarrierExpires, Checkpoint, FinishWithdraws
    <2>2. UNCHANGED torn \/ TearDown(GangOf[on[l]])
      BY <1>5 DEF BarrierEnded, BarrierExpires, Checkpoint, FinishWithdraws
    <2>3. \E gone \in SUBSET Members : Withdrawn(gone)
      <3>1. Withdrawn({}) \/ Withdrawn({on[l]}) \/ Withdrawn(Withdrawable(Siblings(on[l])))
        BY <1>5 DEF BarrierEnded, BarrierExpires, Checkpoint, FinishWithdraws
      <3> QED BY <1>0, <3>1, SomeMembers
    <2> QED BY <2>1, <2>2, <2>3, TearDownBounds, WithdrawnBounds
  <1> QED BY <1>1, <1>2, <1>3, <1>4, <1>5 DEF Step

LEMMA FaultBounds == ASSUME Bounds, [Next]_vars PROVE faults' \in 0 .. MaxFaults
  <1> DEFINE Fine == UNCHANGED faults \/ (faults < MaxFaults /\ faults' = faults + 1)
  <1>1. ASSUME NEW g \in Gangs,
               \/ PublishGroup(g) \/ CancelExpired(g) \/ CancelMeetsClaim(g)
               \/ SweepTeardown(g) \/ SweepEnded(g)
        PROVE  Fine
    BY <1>1 DEF PublishGroup, CancelExpired, CancelMeetsClaim, SweepTeardown, SweepEnded
  <1>2. ASSUME NEW m \in Members, SweepUnregistered(m) \/ Withdraw(m) \/ GoStale(m) PROVE Fine
    BY <1>2 DEF SweepUnregistered, Withdraw, GoStale
  <1>3. ASSUME NEW l \in Loops, Step(l) PROVE Fine
    BY <1>3 DEF Step, Census, CensusRefuses, Admit, NotAdmitted, GateRefuses, MarkReady, ReadSibling,
           WaitForPeers, Rename, Persist, Lease, Unwind, BarrierCheck, BarrierReleases, BarrierEnded,
           BarrierWait, BarrierExpires, Launch, DeferLaunch, LaunchFails, PayloadEnds, Checkpoint,
           FinishTears, FinishWithdraws, Finish, Recover, Return, Refuse, GiveUp
  <1>4. ASSUME NEW l \in Loops, Crash(l) PROVE Fine
    BY <1>4 DEF Crash
  <1>5. ASSUME NEW l \in Loops, NEW m \in Members, Prepare(l, m) \/ PrepareEnded(l, m) PROVE Fine
    BY <1>5 DEF Prepare, PrepareEnded
  <1>6. ASSUME UNCHANGED vars PROVE Fine
    BY <1>6 DEF vars
  <1> HIDE DEF Fine
  <1>7. Fine
    BY <1>1, <1>2, <1>3, <1>4, <1>5, <1>6 DEF Next
  <1>8. faults \in 0 .. MaxFaults /\ MaxFaults \in Nat
    BY GangAssumption DEF Bounds
  <1> QED BY <1>7, <1>8, SMT DEF Fine

LEMMA NextBounds == ASSUME GangInv, Bounds, [Next]_vars PROVE Bounds'
  <1>1. CASE UNCHANGED vars
    BY <1>1 DEF vars, shared, local, Bounds
  <1> QED BY <1>1, SharedBounds, LoopBounds, FaultBounds DEF Next, Bounds

LEMMA InitCounts == ASSUME Init PROVE Counted /\ Bounds
  <1>1. Capacity \in Nat /\ MaxFaults \in Nat
    BY GangAssumption
  <1>2. Bounds
    BY <1>1, SMT DEF Init, Bounds
  <1>3. \A h \in Hosts : Reserved(h) = {}
    BY DEF Init, Reserved, Reserves, Reserving, Claiming
  <1>4. /\ free \in [Hosts -> 0 .. Capacity]
        /\ \A h \in Hosts : Capacity - free[h] = 0
    BY <1>1, SMT DEF Init
  <1>5. Numbering([i \in 1 .. 0 |-> i], 0, {})
    BY SMT DEF Numbering
  <1> QED BY <1>2, <1>3, <1>4, <1>5 DEF Counted

\* A host is never charged for more members than it has room for: what a pass, a
\* finish, a reaper and the ledger's sweep give back is what was taken, once each,
\* and every record keeps its form (begin_acquire, abandon, finish).
THEOREM GangTypes == Spec => []TypeOK
  <1>1. Init => Counted /\ Bounds
    BY InitCounts
  <1>2. GangInv /\ Counted /\ Bounds /\ [Next]_vars => (Counted /\ Bounds)'
    BY NextCounts, NextBounds
  <1>3. GangInv /\ Counted /\ Bounds => TypeOK
    <2> SUFFICES ASSUME GangInv, Counted, Bounds PROVE TypeOK
      OBVIOUS
    <2> QED BY DEF TypeOK, Bounds, Counted, GangInv, Shape, Places, Outcomes
  <1> QED BY <1>1, <1>2, <1>3, GangInvHolds, PTL DEF Spec

-----------------------------------------------------------------------------
(* Two gangs that want the same hosts.                                     *)

\* A member has had a place on the host it is elected for: it is being admitted
\* there, said so, was read by a sibling, or has a claimed sibling.
Read(l, x) == pc[l] \in {"marked", "whole"} /\ x \in Peers(on[l]) \ left[l]
Placed(x) ==
    \/ \E l \in Loops : (pc[l] \in Reserving /\ on[l] = x) \/ Read(l, x)
    \/ mark[x] # NoHost
    \/ \E m \in Peers(x) : row[m] \in InClaimed

\* Its gang's elections fence their hosts: LiveElections shows them.
Fences(x) == GangOf[x] \in filed \ torn /\ \E y \in Peers(x) : row[y] \notin Terminal

\* A loop is past its census, with a member that may yet be claimed.
Competes(l) == pc[l] = "census" \/ pc[l] \in Reserving \/ OwnsClaim(l)

OneCensus ==
    \A l, k \in Loops :
        pc[l] = "census" /\ pc[k] = "census" /\ HostOf[l] = HostOf[k] => l = k

Registered ==
    /\ \A l \in Loops : Waits(l) => GangOf[on[l]] \in filed
    /\ \A x \in Members : mark[x] # NoHost \/ row[x] \in InClaimed => GangOf[x] \in filed

\* Nobody of a worse-ranked gang is past the census of a host where a member of a
\* live gang has had its place.
Yields ==
    \A x \in Members, l \in Loops :
        Placed(x) /\ Fences(x) /\ Competes(l) /\ HostOf[l] = elect[x] =>
            ~(Rank[GangOf[x]] < Rank[GangOf[on[l]]])

RankInv == OneCensus /\ Registered /\ Yields

LEMMA PlacedElected ==
    ASSUME GangInv, NEW x \in Members, Placed(x) PROVE elect[x] # NoHost
  <1>1. ASSUME NEW l \in Loops, pc[l] \in Reserving, on[l] = x PROVE elect[x] # NoHost
    <2>1. HostOf[l] # NoHost
      BY GangAssumption
    <2> QED BY <1>1, <2>1 DEF GangInv, Rows
  <1>2. ASSUME NEW l \in Loops, Read(l, x) PROVE elect[x] # NoHost
    BY <1>2 DEF Read, GangInv, Reading
  <1>3. CASE mark[x] # NoHost
    BY <1>3 DEF GangInv, Marks
  <1>4. ASSUME NEW m \in Peers(x), row[m] \in InClaimed PROVE elect[x] # NoHost
    <2>1. m \in Members /\ x \in Peers(m)
      BY DEF Peers
    <2> QED BY <1>4, <2>1 DEF GangInv, ClaimedBesideWholeSet
  <1> QED BY <1>1, <1>2, <1>3, <1>4 DEF Placed

LEMMA PlacedRegistered ==
    ASSUME GangInv, Registered, NEW x \in Members, Placed(x) PROVE GangOf[x] \in filed
  <1>1. \A l \in Loops : pc[l] \in Reserving \union {"marked", "whole"} => Waits(l)
    BY DEF Waits, Reserving, Passing
  <1>2. ASSUME NEW l \in Loops, Read(l, x) PROVE GangOf[x] \in filed
    BY <1>1, <1>2 DEF Read, Peers, Registered
  <1>3. ASSUME NEW m \in Peers(x), row[m] \in InClaimed PROVE GangOf[x] \in filed
    BY <1>3 DEF Peers, Registered
  <1> QED BY <1>1, <1>2, <1>3 DEF Placed, Registered

\* Rows go on to their ending, a gang that is torn down stays so until it is
\* forgotten, and an election stands as long as its gang does.
GoesOn ==
    /\ \A x \in Members : row[x] \in Terminal => row'[x] \in Terminal
    /\ \A g \in Gangs : g \in filed /\ g \in filed' /\ g \in torn => g \in torn'
    /\ \A x \in Members : GangOf[x] \in filed' /\ elect[x] # NoHost => elect'[x] = elect[x]

LEMMA FencesBefore ==
    ASSUME GoesOn, NEW x \in Members, GangOf[x] \in filed, Fences(x)' PROVE Fences(x)
  <1>1. GangOf[x] \in Gangs
    BY GangAssumption
  <1>2. GangOf[x] \in filed' /\ GangOf[x] \notin torn'
    BY DEF Fences
  <1>3. PICK y \in Peers(x) : row'[y] \notin Terminal
    BY DEF Fences
  <1>4. row[y] \notin Terminal
    BY <1>3 DEF GoesOn, Peers
  <1> QED BY <1>1, <1>2, <1>4 DEF GoesOn, Fences

\* A step that finds nobody a place and takes nobody past a census.
LEMMA YieldsKept ==
    ASSUME GangInv, Registered, Yields, GoesOn,
           \A x \in Members : Placed(x)' => Placed(x),
           \A l \in Loops : Competes(l)' => Competes(l) /\ on'[l] = on[l]
    PROVE  Yields'
  <1> SUFFICES ASSUME NEW x \in Members, NEW l \in Loops,
                      Placed(x)', Fences(x)', Competes(l)', HostOf[l] = elect'[x]
               PROVE  ~(Rank[GangOf[x]] < Rank[GangOf[on'[l]]])
    BY DEF Yields
  <1>1. Placed(x) /\ Competes(l) /\ on'[l] = on[l]
    OBVIOUS
  <1>2. GangOf[x] \in filed /\ elect[x] # NoHost
    BY <1>1, PlacedRegistered, PlacedElected
  <1>3. Fences(x)
    BY <1>2, FencesBefore
  <1>4. elect'[x] = elect[x]
    BY <1>2 DEF GoesOn, Fences
  <1> QED BY <1>1, <1>3, <1>4 DEF Yields

\* The parts of a calm step: passes only give way, marks and claims only go.
Calm ==
    /\ GoesOn
    /\ \A l \in Loops : Competes(l)' => Competes(l) /\ on'[l] = on[l]
    /\ \A l \in Loops : pc'[l] \in Reserving => pc'[l] = pc[l] /\ on'[l] = on[l] /\ left'[l] = left[l]
    /\ \A l \in Loops : pc'[l] = "census" => pc[l] = "census"
    /\ \A l \in Loops : Waits(l)' => \/ Waits(l) /\ on'[l] = on[l]
                                     \/ GangOf[on'[l]] \in filed
    /\ \A x \in Members : /\ mark'[x] # NoHost => mark[x] # NoHost
                          /\ row'[x] \in InClaimed => row[x] \in InClaimed
    /\ filed \subseteq filed'

LEMMA CalmRank == ASSUME GangInv, RankInv, Calm PROVE RankInv'
  <1>1. OneCensus'
    BY DEF RankInv, OneCensus, Calm
  <1>2. Registered'
    <2>1. \A l \in Loops : Waits(l)' => GangOf[on'[l]] \in filed
      BY DEF RankInv, Registered, Calm
    <2>2. \A x \in Members : mark'[x] # NoHost \/ row'[x] \in InClaimed => GangOf[x] \in filed
      BY DEF RankInv, Registered, Calm
    <2> QED BY <2>1, <2>2 DEF Registered, Calm
  <1>3. \A x \in Members : Placed(x)' => Placed(x)
    <2> SUFFICES ASSUME NEW x \in Members, Placed(x)' PROVE Placed(x)
      OBVIOUS
    <2>1. ASSUME NEW l \in Loops, pc'[l] \in Reserving, on'[l] = x PROVE Placed(x)
      BY <2>1 DEF Calm, Placed
    <2>2. ASSUME NEW l \in Loops, Read(l, x)' PROVE Placed(x)
      <3>1. pc'[l] \in Reserving
        BY <2>2 DEF Read, Reserving
      <3>2. Read(l, x)
        BY <2>2, <3>1, SMT DEF Calm, Read, Peers
      <3> QED BY <3>2 DEF Placed
    <2>3. CASE mark'[x] # NoHost
      BY <2>3 DEF Calm, Placed
    <2>4. ASSUME NEW m \in Peers(x), row'[m] \in InClaimed PROVE Placed(x)
      BY <2>4 DEF Calm, Placed, Peers
    <2> QED BY <2>1, <2>2, <2>3, <2>4 DEF Placed
  <1>4. Yields'
    BY <1>3, YieldsKept DEF RankInv, Calm
  <1> QED BY <1>1, <1>2, <1>4 DEF RankInv

\* The gang's own record changes, and rows that nobody is working on.
LEMMA SharedCalm ==
    ASSUME GangInv,
           \/ \E g \in Gangs : PublishGroup(g) \/ CancelExpired(g) \/ CancelMeetsClaim(g) \/ SweepTeardown(g)
           \/ \E m \in Members : SweepUnregistered(m) \/ Withdraw(m) \/ GoStale(m)
           \/ \E l \in Loops, m \in Members : PrepareEnded(l, m)
           \/ UNCHANGED vars
    PROVE  Calm
  <1>1. UNCHANGED <<elect, pc, on, left, out>>
    BY DEF PublishGroup, CancelExpired, CancelMeetsClaim, SweepTeardown, SweepUnregistered, Withdraw, GoStale,
           PrepareEnded, vars, shared, local
  <1>2. filed \subseteq filed' /\ torn \subseteq torn'
    BY DEF PublishGroup, CancelExpired, CancelMeetsClaim, SweepTeardown, SweepUnregistered, Withdraw, GoStale,
           PrepareEnded, vars, shared, TearDown
  <1>3. UNCHANGED row \/ \E gone : Withdrawn(gone)
    BY DEF PublishGroup, CancelExpired, CancelMeetsClaim, SweepTeardown, SweepUnregistered, Withdraw, GoStale,
           PrepareEnded, vars, shared
  <1>4. \A x \in Members : /\ row'[x] \in InClaimed => row[x] \in InClaimed
                           /\ row[x] \in Terminal => row'[x] \in Terminal
    BY <1>3 DEF Withdrawn, InClaimed, Terminal
  <1>5. UNCHANGED mark \/ \E m \in Members : mark' = [mark EXCEPT ![m] = NoHost]
    BY DEF PublishGroup, CancelExpired, CancelMeetsClaim, SweepTeardown, SweepUnregistered, Withdraw, GoStale,
           PrepareEnded, vars, shared
  <1>6. \A x \in Members : mark'[x] # NoHost => mark[x] # NoHost
    BY <1>5 DEF GangInv, Shape
  <1>7. GoesOn
    BY <1>1, <1>2, <1>4 DEF GoesOn
  <1>8. \A l \in Loops : (Competes(l)' <=> Competes(l)) /\ (Waits(l)' <=> Waits(l))
    BY <1>1 DEF Competes, Waits, OwnsClaim
  <1> QED BY <1>1, <1>2, <1>4, <1>6, <1>7, <1>8 DEF Calm

\* One loop's own step, which neither passes a census nor finds a place.
OthersStay(l) ==
    \A k \in Loops \ {l} : pc'[k] = pc[k] /\ on'[k] = on[k] /\ out'[k] = out[k] /\ left'[k] = left[k]

LEMMA LoopCalm ==
    ASSUME NEW l \in Loops, OthersStay(l), UNCHANGED filed, torn \subseteq torn',
           \A x \in Members : /\ elect[x] # NoHost => elect'[x] = elect[x]
                              /\ mark'[x] # NoHost => mark[x] # NoHost
                              /\ row'[x] \in InClaimed => row[x] \in InClaimed
                              /\ row[x] \in Terminal => row'[x] \in Terminal,
           pc'[l] \notin Reserving \union {"census"},
           OwnsClaim(l)' => Competes(l) /\ on'[l] = on[l],
           Waits(l)' => GangOf[on'[l]] \in filed
    PROVE  Calm
  <1>1. GoesOn
    BY DEF GoesOn
  <1>2. ASSUME NEW k \in Loops \ {l}
        PROVE  /\ pc'[k] = pc[k] /\ on'[k] = on[k] /\ left'[k] = left[k]
               /\ (Competes(k)' <=> Competes(k)) /\ (Waits(k)' <=> Waits(k))
    BY <1>2 DEF OthersStay, Competes, Waits, OwnsClaim
  <1>3. \A k \in Loops : Competes(k)' => Competes(k) /\ on'[k] = on[k]
    BY <1>2 DEF Competes
  <1>4. \A k \in Loops : /\ pc'[k] \in Reserving => pc'[k] = pc[k] /\ on'[k] = on[k] /\ left'[k] = left[k]
                         /\ pc'[k] = "census" => pc[k] = "census"
    BY <1>2
  <1>5. \A k \in Loops : Waits(k)' => \/ Waits(k) /\ on'[k] = on[k]
                                      \/ GangOf[on'[k]] \in filed
    BY <1>2
  <1> QED BY <1>1, <1>3, <1>4, <1>5 DEF Calm

LEMMA RefuseCalm ==
    ASSUME GangInv, NEW l \in Loops, Refuse(l), elect' \in [Members -> Places], GrowOnly PROVE Calm
  <1>1. OthersStay(l) /\ pc'[l] = "idle" /\ UNCHANGED <<filed, torn, mark, row>>
    BY DEF Refuse, OthersStay, GangInv, Shape
  <1>2. ~OwnsClaim(l)' /\ ~Waits(l)' /\ pc'[l] \notin Reserving \union {"census"}
    BY <1>1 DEF OwnsClaim, Claiming, Waits, Passing, Reserving
  <1> QED BY <1>1, <1>2, LoopCalm DEF GrowOnly

LEMMA RefusesCalm ==
    ASSUME GangInv, NEW l \in Loops,
           CensusRefuses(l) \/ NotAdmitted(l) \/ GateRefuses(l) \/ WaitForPeers(l)
    PROVE  Calm
  <1>1. Refuse(l)
    BY DEF CensusRefuses, NotAdmitted, GateRefuses, WaitForPeers
  <1>2. UNCHANGED elect \/ (Standing(l) = HostOf[l] /\ elect' = [elect EXCEPT ![on[l]] = HostOf[l]])
    BY DEF CensusRefuses, NotAdmitted, GateRefuses, WaitForPeers
  <1>3. elect' \in [Members -> Places] /\ GrowOnly
    <2>1. CASE UNCHANGED elect
      BY <2>1 DEF GangInv, Shape, GrowOnly
    <2> QED BY <1>2, <2>1, ElectGrows
  <1> QED BY <1>1, <1>3, RefuseCalm

\* The owner of a claim goes on, files its ending or dies.
LEMMA OwnerCalm ==
    ASSUME GangInv, NEW l \in Loops,
           \/ BarrierCheck(l) \/ BarrierReleases(l) \/ BarrierEnded(l) \/ BarrierWait(l) \/ BarrierExpires(l)
           \/ Launch(l) \/ LaunchFails(l)
           \/ PayloadEnds(l) \/ Checkpoint(l) \/ FinishTears(l) \/ FinishWithdraws(l)
    PROVE  Calm
  <1> USE DEF GangInv, Shape
  <1>1. UNCHANGED <<filed, elect, mark, on, left>>
    BY DEF BarrierCheck, BarrierReleases, BarrierEnded, BarrierWait, BarrierExpires, Launch, LaunchFails,
           PayloadEnds, Checkpoint, FinishTears, FinishWithdraws, shared
  <1>2. torn \subseteq torn'
    BY DEF BarrierCheck, BarrierReleases, BarrierEnded, BarrierWait, BarrierExpires, Launch, LaunchFails,
           PayloadEnds, Checkpoint, FinishTears, FinishWithdraws, shared, TearDown
  <1>3. UNCHANGED row \/ \E gone : Withdrawn(gone)
    BY DEF BarrierCheck, BarrierReleases, BarrierEnded, BarrierWait, BarrierExpires, Launch, LaunchFails,
           PayloadEnds, Checkpoint, FinishTears, FinishWithdraws, shared
  <1>4. \A x \in Members : /\ row'[x] \in InClaimed => row[x] \in InClaimed
                           /\ row[x] \in Terminal => row'[x] \in Terminal
    BY <1>3 DEF Withdrawn, InClaimed, Terminal
  <1>5. pc[l] \in Claiming
    BY DEF BarrierCheck, BarrierReleases, BarrierEnded, BarrierWait, BarrierExpires, Launch, LaunchFails,
           PayloadEnds, Checkpoint, FinishTears, FinishWithdraws, Claiming
  <1>6. \E p \in Leased : pc' = [pc EXCEPT ![l] = p]
    BY DEF BarrierCheck, BarrierReleases, BarrierEnded, BarrierWait, BarrierExpires, Launch, LaunchFails,
           PayloadEnds, Checkpoint, FinishTears, FinishWithdraws, Ends, Leased, Claiming
  <1>7. UNCHANGED out \/ \E status : out' = [out EXCEPT ![l] = status]
    BY DEF BarrierCheck, BarrierReleases, BarrierEnded, BarrierWait, BarrierExpires, Launch, LaunchFails,
           PayloadEnds, Checkpoint, FinishTears, FinishWithdraws, Ends
  <1>8. OthersStay(l) /\ pc'[l] \in Leased
    BY <1>1, <1>6, <1>7 DEF OthersStay
  <1>9. pc'[l] \notin Reserving \union {"census"} /\ ~Waits(l)' /\ Competes(l)
    BY <1>5, <1>8 DEF Reserving, Leased, Claiming, Waits, Passing, Competes, OwnsClaim
  <1> QED BY <1>1, <1>2, <1>4, <1>8, <1>9, LoopCalm

LEMMA LeavesCalm ==
    ASSUME GangInv, NEW l \in Loops,
           \/ Persist(l) \/ Lease(l) \/ Crash(l)
           \/ Unwind(l) \/ DeferLaunch(l) \/ Finish(l) \/ Recover(l) \/ Return(l)
    PROVE  Calm
  <1> USE DEF GangInv, Shape
  <1>3. CASE Persist(l) \/ Lease(l)
    <2>0. UNCHANGED <<filed, torn, elect, mark>> /\ OthersStay(l)
      BY <1>3 DEF Persist, Lease, shared, OthersStay
    <2>1. /\ pc[l] \in {"moved", "leasing"} /\ pc'[l] \in {"leasing", "barrier"} /\ on' = on
          /\ UNCHANGED row \/ row' = [row EXCEPT ![on[l]] = "claimed"]
          /\ on[l] \in Members
      BY <1>3 DEF Persist, Lease, shared
    <2>2. row[on[l]] \in InClaimed /\ Competes(l)
      BY <2>1 DEF Rows, OwnsClaim, Claiming, Competes
    <2>3. pc'[l] \notin Reserving \union {"census"} /\ ~Waits(l)'
      BY <2>1 DEF Reserving, Waits, Passing
    <2>4. \A x \in Members : /\ row'[x] \in InClaimed => row[x] \in InClaimed
                             /\ row[x] \in Terminal => row'[x] \in Terminal
      BY <2>1, <2>2 DEF InClaimed, Terminal
    <2> QED BY <2>0, <2>1, <2>2, <2>3, <2>4, LoopCalm
  <1>4. CASE Crash(l)
    <2>0. PICK o \in LeftBehind(l) : out' = [out EXCEPT ![l] = o]
      BY <1>4 DEF Crash
    <2>1. /\ pc'[l] = "crashed" /\ UNCHANGED <<filed, torn, elect, mark, row>> /\ OthersStay(l)
          /\ out'[l] = o /\ (pc[l] \in Claiming => on'[l] = on[l])
      BY <1>4, <2>0 DEF Crash, shared, OthersStay
    <2>2. pc'[l] \notin Reserving \union {"census"} /\ ~Waits(l)'
      BY <2>1 DEF Reserving, Waits, Passing
    <2>3. OwnsClaim(l)' => pc[l] \in Claiming
      BY <2>1, LeftByPhase DEF OwnsClaim, Claiming
    <2>4. OwnsClaim(l)' => Competes(l) /\ on'[l] = on[l]
      BY <2>1, <2>3 DEF OwnsClaim, Competes
    <2> QED BY <2>1, <2>2, <2>4, LoopCalm
  <1>5. CASE Unwind(l) \/ DeferLaunch(l) \/ Finish(l) \/ Recover(l)
    <2>1. PICK status \in Given : OwnsClaim(l) /\ GiveUp(l, status)
      BY <1>5, LeavesInv
    <2>2. /\ pc'[l] = "idle" /\ row' = [row EXCEPT ![on[l]] = status]
          /\ UNCHANGED <<filed, torn, elect, mark>> /\ OthersStay(l)
      BY <2>1 DEF GiveUp, OthersStay
    <2>3. pc'[l] \notin Reserving \union {"census"} /\ ~Waits(l)' /\ ~OwnsClaim(l)'
      BY <2>2 DEF Reserving, Waits, Passing, OwnsClaim, Claiming
    <2>4. row[on[l]] \in InClaimed
      BY <2>1 DEF Rows
    <2>5. \A x \in Members : /\ row'[x] \in InClaimed => row[x] \in InClaimed
                             /\ row[x] \in Terminal => row'[x] \in Terminal
      BY <2>2, <2>4 DEF InClaimed, Terminal, Given
    <2> QED BY <2>2, <2>3, <2>5, LoopCalm
  <1>6. CASE Return(l)
    <2>1. pc'[l] = "idle" /\ UNCHANGED <<filed, torn, elect, mark, row>> /\ OthersStay(l)
      BY <1>6 DEF Return, OthersStay
    <2>2. pc'[l] \notin Reserving \union {"census"} /\ ~Waits(l)' /\ ~OwnsClaim(l)'
      BY <2>1 DEF Reserving, Waits, Passing, OwnsClaim, Claiming
    <2> QED BY <2>1, <2>2, LoopCalm
  <1> QED BY <1>3, <1>4, <1>5, <1>6

LEMMA PrepareCalm ==
    ASSUME GangInv, NEW l \in Loops, NEW m \in Members, Prepare(l, m) PROVE Calm
  <1>1. /\ OthersStay(l) /\ pc'[l] = "prepared" /\ on'[l] = m /\ GangOf[m] \in filed
        /\ UNCHANGED <<filed, torn, elect, mark, row>>
    BY DEF Prepare, shared, OthersStay, GangInv, Shape
  <1>2. pc'[l] \notin Reserving \union {"census"} /\ ~OwnsClaim(l)'
    BY <1>1 DEF Reserving, OwnsClaim, Claiming
  <1> QED BY <1>1, <1>2, LoopCalm

\* Under the host's admission a member passes only if no better-ranked live gang is
\* elected there.
LEMMA CensusRank ==
    ASSUME GangInv, RankInv, NEW l \in Loops, Census(l) PROVE RankInv'
  <1>1. /\ pc[l] = "prepared" /\ AdmissionFree(HostOf[l]) /\ pc' = [pc EXCEPT ![l] = "census"]
        /\ Position(l, LiveElections) \in {"mine", "needs_election"}
        /\ UNCHANGED <<filed, torn, row, elect, mark, on, left, out>>
    BY DEF Census, shared
  <1>2. pc'[l] = "census" /\ \A k \in Loops \ {l} : pc'[k] = pc[k]
    BY <1>1 DEF GangInv, Shape
  <1>3. OneCensus'
    <2>1. \A k \in Loops : pc[k] = "census" => HostOf[k] # HostOf[l]
      BY <1>1 DEF AdmissionFree
    <2>2. OneCensus
      BY DEF RankInv
    <2> QED BY <1>2, <2>1, <2>2, SMT DEF OneCensus
  <1>4. \A k \in Loops : (Waits(k)' <=> Waits(k)) /\ (k # l => (Competes(k)' <=> Competes(k)))
    BY <1>1, <1>2 DEF Waits, Competes, OwnsClaim, Passing
  <1>5. Registered'
    BY <1>1, <1>4 DEF RankInv, Registered
  <1>6. \A x \in Members : (Placed(x)' => Placed(x)) /\ (Fences(x)' <=> Fences(x))
    <2>1. \A k \in Loops : pc'[k] \in Reserving \union {"marked", "whole"} => pc'[k] = pc[k]
      BY <1>2 DEF Reserving
    <2>2. \A k \in Loops, x \in Members : Read(k, x)' => Read(k, x)
      BY <1>1, <2>1 DEF Read
    <2>3. \A x \in Members : Placed(x)' => Placed(x)
      BY <1>1, <2>1, <2>2 DEF Placed
    <2>4. \A x \in Members : Fences(x)' <=> Fences(x)
      BY <1>1 DEF Fences
    <2> QED BY <2>3, <2>4
  <1>7. Yields'
    <2> SUFFICES ASSUME NEW x \in Members, NEW k \in Loops,
                        Placed(x)', Fences(x)', Competes(k)', HostOf[k] = elect[x]
                 PROVE  ~(Rank[GangOf[x]] < Rank[GangOf[on[k]]])
      BY <1>1 DEF Yields
    <2>1. Placed(x) /\ Fences(x)
      BY <1>6
    <2>2. CASE k # l
      BY <1>4, <2>1, <2>2 DEF RankInv, Yields
    <2>3. CASE k = l
      <3>1. LiveElections[x] = HostOf[l]
        BY <2>1, <2>3 DEF LiveElections, Fences
      <3>2. ~RankedBehind(l, LiveElections)
        BY <1>1 DEF Position
      <3>3. x \notin Peers(on[l]) => ~(Rank[GangOf[x]] < Rank[GangOf[on[l]]])
        BY <3>1, <3>2 DEF RankedBehind
      <3>4. CASE x \in Peers(on[l])
        <4>1. Rank[GangOf[x]] \in Nat /\ GangOf[on[l]] = GangOf[x]
          BY <3>4, GangAssumption DEF Peers
        <4> QED BY <2>3, <4>1, SMT
      <3> QED BY <2>3, <3>3, <3>4
    <2> QED BY <2>2, <2>3
  <1> QED BY <1>3, <1>5, <1>7 DEF RankInv

\* Where a host has room for one member, whoever is admitted is alone on it.
LEMMA AdmittedAlone ==
    ASSUME GangInv, RankInv, Counted, Capacity = 1, NEW l \in Loops, Admit(l),
           NEW k \in Loops, k # l, Competes(k)
    PROVE  HostOf[k] # HostOf[l]
  <1> SUFFICES ASSUME HostOf[k] = HostOf[l] PROVE FALSE
    OBVIOUS
  <1> DEFINE h == HostOf[l]
  <1>1. pc[l] = "census" /\ free[h] > 0
    BY DEF Admit
  <1>2. pc[k] # "census"
    BY <1>1 DEF RankInv, OneCensus
  <1>3. k \in Reserved(h)
    BY <1>2 DEF Competes, OwnsClaim, Reserved, Reserves
  <1>4. h \in Hosts
    BY GangAssumption
  <1>5. free[h] \in 0 .. Capacity /\ \E f : Numbering(f, Capacity - free[h], Reserved(h))
    BY <1>4 DEF Counted
  <1>6. \E i \in 1 .. Capacity - free[h] : TRUE
    BY <1>3, <1>5 DEF Numbering
  <1> HIDE DEF h
  <1> QED BY <1>1, <1>5, <1>6, SMT

LEMMA AdmitRank ==
    ASSUME GangInv, RankInv, Counted, Capacity = 1, NEW l \in Loops, Admit(l) PROVE RankInv'
  <1>1. /\ pc[l] = "census" /\ pc' = [pc EXCEPT ![l] = "taken"] /\ Standing(l) = HostOf[l]
        /\ elect' = [elect EXCEPT ![on[l]] = HostOf[l]]
        /\ UNCHANGED <<filed, torn, row, mark, on, left, out>>
    BY DEF Admit
  <1>2. pc'[l] = "taken" /\ \A k \in Loops \ {l} : pc'[k] = pc[k]
    BY <1>1 DEF GangInv, Shape
  <1>3. GrowOnly /\ elect'[on[l]] = HostOf[l] /\ on[l] \in Members
    BY <1>1, ElectGrows DEF GangInv, Shape
  <1>4. GoesOn
    BY <1>1, <1>3 DEF GoesOn, GrowOnly
  <1>5. \A k \in Loops : /\ (Waits(k)' <=> Waits(k)) /\ (Competes(k)' <=> Competes(k))
                         /\ (pc'[k] = "census" => pc[k] = "census")
    BY <1>1, <1>2 DEF Waits, Competes, OwnsClaim, Passing, Reserving
  <1>6. OneCensus' /\ Registered'
    BY <1>1, <1>5 DEF RankInv, OneCensus, Registered
  <1>7. \A x \in Members : Placed(x)' => x = on[l] \/ Placed(x)
    <2>1. \A k \in Loops : /\ pc'[k] \in Reserving => k = l \/ pc[k] \in Reserving
                           /\ pc'[k] \in {"marked", "whole"} => pc[k] = pc'[k]
      BY <1>2
    <2>2. \A k \in Loops, x \in Members : Read(k, x)' => Read(k, x)
      BY <1>1, <2>1 DEF Read
    <2> QED BY <1>1, <2>1, <2>2 DEF Placed
  <1>8. Yields'
    <2> SUFFICES ASSUME NEW x \in Members, NEW k \in Loops,
                        Placed(x)', Fences(x)', Competes(k)', HostOf[k] = elect'[x]
                 PROVE  ~(Rank[GangOf[x]] < Rank[GangOf[on[k]]])
      BY <1>1 DEF Yields
    <2>1. CASE x = on[l]
      <3>1. k = l
        BY <1>3, <1>5, <2>1, AdmittedAlone
      <3>2. Rank[GangOf[x]] \in Nat
        BY GangAssumption
      <3> QED BY <2>1, <3>1, <3>2, SMT
    <2>2. CASE x # on[l]
      <3>1. Placed(x) /\ Competes(k)
        BY <1>5, <1>7, <2>2
      <3>2. GangOf[x] \in filed /\ elect[x] # NoHost
        BY <3>1, PlacedRegistered, PlacedElected DEF RankInv
      <3>3. Fences(x) /\ elect'[x] = elect[x]
        BY <1>3, <1>4, <3>2, FencesBefore DEF GrowOnly
      <3> QED BY <3>1, <3>3 DEF RankInv, Yields
    <2> QED BY <2>1, <2>2
  <1> QED BY <1>6, <1>8 DEF RankInv

\* A pass that goes on from its admission to its claim finds no new place: it has its
\* own, and learns and uses those of its siblings.
LEMMA PlacesRank ==
    ASSUME GangInv, RankInv, NEW l \in Loops, MarkReady(l) \/ ReadSibling(l) \/ Rename(l)
    PROVE  RankInv'
  <1> USE DEF GangInv, Shape
  <1>1. UNCHANGED <<filed, torn, elect, on, out>> /\ on[l] \in Members
    BY DEF MarkReady, ReadSibling, Rename, shared
  <1>2. /\ pc[l] \in Reserving /\ pc'[l] \in Reserving \union {"moved"}
        /\ \A k \in Loops \ {l} : pc'[k] = pc[k] /\ left'[k] = left[k]
    BY DEF MarkReady, ReadSibling, Rename, Reserving
  <1>3. Waits(l) /\ Competes(l) /\ pc'[l] # "census"
    BY <1>2 DEF Waits, Competes, Reserving, Passing
  <1>4. \A k \in Loops : (Waits(k)' => Waits(k)) /\ (Competes(k)' => Competes(k))
    BY <1>1, <1>2, <1>3 DEF Waits, Competes, OwnsClaim
  <1>5. /\ \A x \in Members : row'[x] \in InClaimed => row[x] \in InClaimed \/ x = on[l]
        /\ \A x \in Members : mark'[x] # NoHost => mark[x] # NoHost \/ x = on[l]
        /\ \A x \in Members : row[x] \in Terminal => row'[x] \in Terminal
    <2>1. row[on[l]] = "ready"
      BY <1>3 DEF Rows
    <2> QED BY <2>1 DEF MarkReady, ReadSibling, Rename, shared, Terminal
  <1>6. OneCensus' /\ Registered'
    <2>1. OneCensus'
      BY <1>2, <1>3 DEF RankInv, OneCensus
    <2>2. GangOf[on[l]] \in filed
      BY <1>3 DEF RankInv, Registered
    <2>3. Registered'
      BY <1>1, <1>4, <1>5, <2>2 DEF RankInv, Registered
    <2> QED BY <2>1, <2>3
  <1>7. GoesOn
    BY <1>1, <1>5 DEF GoesOn
  <1>8. \A x \in Members : Placed(x)' => Placed(x)
    <2> SUFFICES ASSUME NEW x \in Members, Placed(x)' PROVE Placed(x)
      OBVIOUS
    <2>1. Placed(on[l])
      BY <1>2 DEF Placed
    <2>2. ASSUME NEW k \in Loops, pc'[k] \in Reserving, on[k] = x PROVE Placed(x)
      BY <1>2, <2>2 DEF Placed
    <2>3. CASE mark'[x] # NoHost
      BY <1>5, <2>1, <2>3 DEF Placed
    <2>4. ASSUME NEW k \in Loops \ {l}, Read(k, x)' PROVE Placed(x)
      <3>1. Read(k, x)
        BY <1>1, <1>2, <2>4 DEF Read
      <3> QED BY <3>1 DEF Placed
    <2>5. ASSUME Read(l, x)' PROVE Placed(x)
      <3>1. CASE MarkReady(l)
        <4>1. left'[l] = Siblings(on[l])
          BY <3>1 DEF MarkReady
        <4>2. x = on[l]
          BY <1>1, <2>5, <4>1 DEF Read, Siblings
        <4> QED BY <2>1, <4>2
      <3>2. CASE ReadSibling(l)
        <4>1. PICK y \in left[l] : SiblingHost(y) # NoHost /\ left' = [left EXCEPT ![l] = @ \ {y}]
          BY <3>2 DEF ReadSibling
        <4>2. pc[l] = "marked" /\ left'[l] = left[l] \ {y}
          BY <3>2, <4>1 DEF ReadSibling
        <4>3. CASE x = y
          <5>1. row[x] = "claimed" \/ mark[x] # NoHost
            BY <4>1, <4>3 DEF SiblingHost
          <5>2. x \in Peers(x)
            BY DEF Peers
          <5> QED BY <5>1, <5>2 DEF Placed, InClaimed
        <4>4. CASE x # y
          <5>1. Read(l, x)
            BY <1>1, <2>5, <4>2, <4>4 DEF Read
          <5> QED BY <5>1 DEF Placed
        <4> QED BY <4>3, <4>4
      <3>3. CASE Rename(l)
        BY <2>5, <3>3 DEF Rename, Read
      <3> QED BY <3>1, <3>2, <3>3
    <2>6. ASSUME NEW m \in Peers(x), row'[m] \in InClaimed PROVE Placed(x)
      <3>1. m \in Members /\ x \in Peers(m)
        BY DEF Peers
      <3>2. CASE row[m] \in InClaimed
        BY <3>2 DEF Placed
      <3>3. CASE row[m] \notin InClaimed
        <4>1. m = on[l] /\ row'[m] # row[m]
          BY <1>5, <2>6, <3>1, <3>3
        <4>2. Rename(l)
          BY <4>1 DEF MarkReady, ReadSibling, shared
        <4>3. pc[l] = "whole" /\ left[l] = {}
          BY <4>2 DEF Rename, Reading
        <4>4. Read(l, x)
          BY <3>1, <4>1, <4>3 DEF Read
        <4> QED BY <4>4 DEF Placed
      <3> QED BY <3>2, <3>3
    <2> QED BY <1>1, <2>2, <2>3, <2>4, <2>5, <2>6 DEF Placed
  <1>9. Yields'
    BY <1>1, <1>4, <1>7, <1>8, YieldsKept DEF RankInv
  <1> QED BY <1>6, <1>9 DEF RankInv

\* A gang that is forgotten has nobody at work, and its elections fence nothing.
LEMMA SweepEndedRank ==
    ASSUME GangInv, RankInv, NEW g \in Gangs, SweepEnded(g) PROVE RankInv'
  <1>1. /\ UNCHANGED <<row, pc, on, left, out>> /\ filed' = filed \ {g} /\ torn' = torn \ {g}
        /\ elect' = [m \in Members |-> IF GangOf[m] = g THEN NoHost ELSE elect[m]]
        /\ mark' = [m \in Members |-> IF GangOf[m] = g THEN NoHost ELSE mark[m]]
        /\ \A m \in Members : GangOf[m] = g => row[m] \in Terminal
    BY DEF SweepEnded, local, MembersOf
  <1>2. \A l \in Loops : (Waits(l)' <=> Waits(l)) /\ (Competes(l)' <=> Competes(l))
    BY <1>1 DEF Waits, Competes, OwnsClaim
  <1>3. OneCensus'
    BY <1>1 DEF RankInv, OneCensus
  <1>4. Registered'
    <2>1. \A l \in Loops : Waits(l) => GangOf[on[l]] # g
      <3>1. \A l \in Loops : Waits(l) => on[l] \in Members /\ row[on[l]] = "ready"
        BY DEF GangInv, Shape, Rows
      <3> QED BY <1>1, <3>1 DEF Terminal
    <2>2. \A x \in Members : /\ mark'[x] # NoHost => mark[x] # NoHost /\ GangOf[x] # g
                             /\ row[x] \in InClaimed => GangOf[x] # g
      BY <1>1 DEF InClaimed, Terminal
    <2> QED BY <1>1, <1>2, <2>1, <2>2 DEF RankInv, Registered
  <1>5. GoesOn
    BY <1>1 DEF GoesOn
  <1>6. \A x \in Members : Placed(x)' => Placed(x)
    <2>1. \A l \in Loops, x \in Members : Read(l, x)' <=> Read(l, x)
      BY <1>1 DEF Read
    <2>2. \A x \in Members : mark'[x] # NoHost => mark[x] # NoHost
      BY <1>1
    <2> QED BY <1>1, <2>1, <2>2 DEF Placed
  <1>7. Yields'
    BY <1>1, <1>2, <1>5, <1>6, YieldsKept DEF RankInv
  <1> QED BY <1>3, <1>4, <1>7 DEF RankInv

LEMMA NextRank ==
    ASSUME GangInv, RankInv, Counted, Capacity = 1, [Next]_vars PROVE RankInv'
  <1>1. ASSUME NEW l \in Loops, Step(l) \/ Crash(l) PROVE RankInv'
    BY <1>1, CensusRank, AdmitRank, PlacesRank, RefusesCalm, OwnerCalm, LeavesCalm, CalmRank DEF Step
  <1>2. ASSUME NEW l \in Loops, NEW m \in Members, Prepare(l, m) PROVE RankInv'
    BY <1>2, PrepareCalm, CalmRank
  <1> QED BY <1>1, <1>2, SweepEndedRank, SharedCalm, CalmRank DEF Next

LEMMA InitRank == ASSUME Init PROVE RankInv
  <1>1. /\ \A l \in Loops : pc[l] = "idle"
        /\ \A m \in Members : row[m] = "ready" /\ mark[m] = NoHost
    BY DEF Init, NoElections
  <1>2. \A l \in Loops : pc[l] \notin Reserving /\ ~Waits(l) /\ \A x \in Members : ~Read(l, x)
    BY <1>1 DEF Reserving, Waits, Passing, Read
  <1>3. \A x \in Members : ~Placed(x)
    BY <1>1, <1>2 DEF Placed, InClaimed, Peers
  <1>4. OneCensus /\ Yields
    BY <1>1, <1>3 DEF OneCensus, Yields
  <1>5. Registered
    BY <1>1, <1>2 DEF Registered, InClaimed
  <1> QED BY <1>4, <1>5 DEF RankInv

\* A claimed member's gang has had a place for everyone, and its owner is past the
\* census of its host.
LEMMA CommittedYields ==
    ASSUME GangInv, RankInv, NEW m \in Members, NEW x \in Members, NEW m2 \in Peers(x), NEW x2 \in Peers(m),
           Blocks(m, x), Blocks(m2, x2)
    PROVE  ~(Rank[GangOf[m]] < Rank[GangOf[m2]])
  <1>1. /\ m2 \in Members /\ x2 \in Members /\ GangOf[x2] = GangOf[m] /\ m \in Peers(x2)
        /\ row[m] \in InClaimed /\ GangOf[m] \notin torn
        /\ row[m2] \in InClaimed /\ row[x2] = "ready" /\ elect[x2] = elect[m2]
    BY DEF Blocks, Peers
  <1>2. Placed(x2)
    BY <1>1 DEF Placed
  <1>3. GangOf[x2] \in filed
    BY <1>1, <1>2, PlacedRegistered DEF RankInv
  <1>4. Fences(x2)
    BY <1>1, <1>3 DEF Fences, InClaimed, Terminal
  <1>5. PICK l \in Loops : OwnsClaim(l) /\ on[l] = m2
    BY <1>1 DEF GangInv, Owners
  <1>6. Competes(l) /\ HostOf[l] = elect[x2]
    BY <1>1, <1>5 DEF Competes, GangInv, Rows
  <1> QED BY <1>1, <1>2, <1>4, <1>5, <1>6 DEF RankInv, Yields

\* Where a host has room for one member, two gangs never each commit a member on a
\* host the other waits for: whatever they were elected for and in whichever order
\* their passes ran, the better-ranked gang's place was taken before the other's
\* census, or the other was admitted before it (rank and election_position).
THEOREM NoGangsCrossCommit == ASSUME Capacity = 1 PROVE Spec => []NoCrossCommit
  <1>1. Init => GangInv /\ Counted /\ RankInv
    BY InitInv, InitCounts, InitRank
  <1>2. GangInv /\ Counted /\ RankInv /\ [Next]_vars => (GangInv /\ Counted /\ RankInv)'
    BY NextInv, NextCounts, NextRank
  <1>3. GangInv /\ Counted /\ RankInv => NoCrossCommit
    <2> SUFFICES ASSUME GangInv, RankInv, NEW m \in Members, NEW x \in Members,
                        Blocks(m, x), GangOf[m] # GangOf[x],
                        NEW m2 \in Peers(x), NEW x2 \in Peers(m), Blocks(m2, x2)
                 PROVE  FALSE
      BY DEF NoCrossCommit
    <2>1. m2 \in Members /\ x2 \in Members /\ x \in Peers(m2) /\ m \in Peers(x2) /\ GangOf[m2] = GangOf[x]
      BY DEF Peers
    <2>2. ~(Rank[GangOf[m]] < Rank[GangOf[m2]])
      BY CommittedYields
    <2>3. ~(Rank[GangOf[m2]] < Rank[GangOf[m]])
      BY <2>1, CommittedYields
    <2>4. GangOf[m] \in Gangs /\ GangOf[m2] \in Gangs /\ GangOf[m] # GangOf[m2]
      BY <2>1, GangAssumption
    <2>5. /\ Rank[GangOf[m]] \in Nat /\ Rank[GangOf[m2]] \in Nat
          /\ Rank[GangOf[m]] # Rank[GangOf[m2]]
      BY <2>4, GangAssumption
    <2> QED BY <2>2, <2>3, <2>5, SMT
  <1> QED BY <1>1, <1>2, <1>3, PTL DEF Spec

=============================================================================
