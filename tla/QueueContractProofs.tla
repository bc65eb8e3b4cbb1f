----------------------- MODULE QueueContractProofs -------------------------
(***************************************************************************)
(* The queue keeps its contract with the submitter of a key while          *)
(* processes are prompt (neither LiveExpiry nor SlowTail), for any number  *)
(* of workers, hosts, publications, attempts and faults.                   *)
(*                                                                         *)
(* Everything rests on Solo: at most one process is at work on the key,    *)
(* and what it works on is the claim itself or, once it has moved the      *)
(* claim aside, its own mark.  Safe is what that process may rely on: a    *)
(* worker keeps the lease and the reservation it was given, and a          *)
(* generation has one ending.  Kept is what a submitter may: nothing is    *)
(* lost.                                                                   *)
(*                                                                         *)
(* The contract counts the starts of a generation and forbids a start      *)
(* after its ending or beside a later one.  The queue keeps neither count  *)
(* nor order in one place: rows carry the attempts charged to them, the    *)
(* archive their endings, and a row may be moved, restored or put back     *)
(* by a process that has read it long ago.  Orderly says how the places    *)
(* agree: whatever waits, is claimed or is marked is later than every      *)
(* terminal and supersession, and counts all its starts but one that will  *)
(* be charged.                                                             *)
(***************************************************************************)
EXTENDS QueueLifecycle, TLAPS

\* Leaves are first-order and left to Zenon; the ones that reckon, or take records
\* apart, cite SMT.
USE Zenon

-----------------------------------------------------------------------------
(* Prompt processes: a lease expires and a finishing mark outlives its     *)
(* grace only when the process behind it is gone.                          *)

\* The owner of a lease or of a mark that expires is gone.
Prompt == ~ LiveExpiry /\ ~ SlowTail

\* Where the claim file is the process's, and where its mark is.
Holding == {"renamed", "committed", "persisted", "leased", "running", "read",
            "judged", "cancel", "entomb"}
Tail == {"unlease", "release", "publish"}

Shape ==
    /\ pc = [p \in Procs |-> pc[p]]
    /\ snap = [w \in Workers |-> snap[w]]
    /\ plan = [p \in Procs |-> plan[p]]
    /\ gens \in Nat

\* One process works on the key.
Sole == \A p, q \in Procs : pc[p] # "idle" /\ pc[q] # "idle" => p = q

\* A row that is there is a row of a generation that was published.
Real ==
    /\ ready # NoRow => ready.gen \in 1..gens
    /\ claim # NoClaim => claim.gen \in 1..gens
    /\ \A t \in tombs : t.rec.gen \in 1..gens

\* The claimed item is one file: the claim or one mark.
OneFile ==
    /\ claim # NoClaim => tombs = {}
    /\ \A t, u \in tombs : t = u

\* What a process works on is still there.
AtWork(p) ==
    /\ pc[p] \in {"idle"} \union Holding \union Tail
    /\ pc[p] \in Holding => claim # NoClaim
    /\ pc[p] \in Holding \ {"entomb"} => p \in Workers
    /\ pc[p] \in Holding /\ p \in Workers => claim = snap[p]
    /\ pc[p] = "entomb" => SameClaim(claim, plan[p].rec)
    /\ pc[p] \in Tail =>
         /\ claim = NoClaim
         /\ \E t \in tombs : t.who = p /\ SameClaim(t.rec, plan[p].rec)

Solo ==
    /\ Shape
    /\ Sole
    /\ Real
    /\ OneFile
    /\ \A p \in Procs : AtWork(p)

AllIdle == \A p \in Procs : pc[p] = "idle"

-----------------------------------------------------------------------------
(* Who may act.                                                            *)

LEMMA WorkersAre == \A w \in Workers : w \in Procs /\ w # Reaper
BY QueueAssumption DEF Procs

\* A process at work is alone.
LEMMA Alone ==
    ASSUME Solo, NEW p \in Procs, pc[p] # "idle"
    PROVE  \A q \in Procs \ {p} : pc[q] = "idle"
BY DEF Solo, Sole

LEMMA SameIsSame ==
    ASSUME NEW a, NEW b PROVE SameClaim(a, a) /\ (SameClaim(a, b) => SameClaim(b, a) /\ a.gen = b.gen)
BY DEF SameClaim

\* The reaper judges a claim only when nobody works on the key.
LEMMA ReapsAlone == ASSUME Prompt, Solo, ReapableClaim PROVE AllIdle
<1> SUFFICES ASSUME NEW p \in Procs, pc[p] # "idle" PROVE FALSE
  BY DEF AllIdle
<1> SUFFICES ASSUME claim # NoClaim /\ ~ OwnerAlive(claim) /\ pc[Reaper] = "idle"
             PROVE  FALSE
  BY DEF ReapableClaim, Prompt
<1>1. AtWork(p) /\ p \in Workers
  BY DEF Solo, Procs
<1>2. claim = snap[p]
  BY <1>1 DEF AtWork
<1> QED BY <1>1, <1>2, SameIsSame DEF OwnerAlive

\* So does the sweep that looks at a mark.
LEMMA SweepsAlone ==
    ASSUME Prompt, Solo, NEW t \in tombs, SweepableTomb(t) PROVE AllIdle
<1> SUFFICES ASSUME NEW p \in Procs, pc[p] # "idle" PROVE FALSE
  BY DEF AllIdle
<1>1. ~ FinisherAlive(t)
  BY DEF SweepableTomb, Prompt
<1>2. AtWork(p) /\ OneFile
  BY DEF Solo
<1>3. pc[p] \in Tail
  BY <1>2 DEF AtWork, OneFile
<1>4. PICK u \in tombs : u.who = p /\ SameClaim(u.rec, plan[p].rec)
  BY <1>2, <1>3 DEF AtWork
<1>5. u = t
  BY <1>2 DEF OneFile
<1> QED BY <1>1, <1>3, <1>4, <1>5, SameIsSame DEF FinisherAlive, Tail

\* A claim pass starts only when nobody works on the key.
LEMMA ClaimsAlone ==
    ASSUME Solo, claim = NoClaim, tombs = {} PROVE AllIdle
BY DEF AllIdle, Solo, AtWork

-----------------------------------------------------------------------------
(* What a step does to the invariant.                                      *)

\* One process moves and the others are idle.
LEMMA Moves ==
    ASSUME Solo, NEW p \in Procs, NEW step, pc' = At(p, step),
           \A q \in Procs \ {p} : pc[q] = "idle",
           Shape', Real', OneFile', AtWork(p)'
    PROVE  Solo'
<1>1. \A q \in Procs \ {p} : pc'[q] = "idle"
  BY DEF At, Solo, Shape
<1>2. Sole'
  BY <1>1 DEF Sole
<1>3. ASSUME NEW q \in Procs PROVE AtWork(q)'
  BY <1>1, <1>3 DEF AtWork, Holding, Tail
<1> QED BY <1>2, <1>3 DEF Solo

LEMMA Rests ==
    ASSUME Solo, NEW p \in Procs, pc[p] # "idle", Rest(p), gens' = gens, Real', OneFile'
    PROVE  Solo'
<1>1. pc' = At(p, "idle") /\ Shape' /\ pc'[p] = "idle"
  BY DEF Rest, At, Solo, Shape
<1>2. AtWork(p)'
  BY <1>1 DEF AtWork, Holding, Tail
<1> QED BY <1>1, <1>2, Alone, Moves

\* A worker that keeps its claim.
LEMMA Stays ==
    ASSUME Solo, NEW w \in Workers, NEW step, pc[w] \in Holding \ {"entomb"},
           pc' = At(w, step), step \in Holding \ {"entomb"},
           UNCHANGED <<ready, claim, tombs, snap, plan, gens>>
    PROVE  Solo'
<1> SUFFICES ASSUME w \in Procs /\ pc[w] # "idle" /\ AtWork(w)
             PROVE  Solo'
  BY WorkersAre DEF Solo, Holding
<1>1. Shape' /\ pc'[w] = step /\ Real' /\ OneFile'
  BY DEF At, Solo, Shape, Real, OneFile
<1>2. AtWork(w)'
  BY <1>1 DEF AtWork, Tail, Holding
<1> QED BY <1>1, <1>2, Alone, Moves

\* A process that starts to commit a plan for the claim.
LEMMA Commits ==
    ASSUME Solo, NEW p \in Procs, NEW q, NEW l, Commit(p, q, l),
           pc[p] # "idle" \/ AllIdle, claim # NoClaim, SameClaim(claim, q.rec),
           p \in Workers => claim = snap[p],
           UNCHANGED <<ready, claim, tombs, gens>>
    PROVE  Solo'
<1> SUFFICES ASSUME /\ pc' = At(p, "entomb") /\ plan' = [plan EXCEPT ![p] = q] /\ snap' = snap
             PROVE  Solo'
  BY DEF Commit
<1>1. Shape' /\ pc'[p] = "entomb" /\ plan'[p] = q /\ Real' /\ OneFile'
  BY DEF At, Solo, Shape, Real, OneFile
<1>2. AtWork(p)'
  BY <1>1 DEF AtWork, Tail, Holding, SameClaim
<1>3. \A r \in Procs \ {p} : pc[r] = "idle"
  BY Alone DEF AllIdle
<1> QED BY <1>1, <1>2, <1>3, Moves

\* A step that moves no process and leaves the claimed item, or finds all idle.
LEMMA Aside ==
    ASSUME Solo, UNCHANGED procs, gens' \in Nat, Real', OneFile',
           UNCHANGED <<claim, tombs>> \/ AllIdle
    PROVE  Solo'
<1> SUFFICES ASSUME UNCHANGED <<pc, snap, plan>> /\ Shape' /\ Sole'
             PROVE  Solo'
  BY DEF procs, Solo, Shape, Sole
<1>1. ASSUME NEW p \in Procs PROVE AtWork(p)'
  <2>1. CASE UNCHANGED <<claim, tombs>>
    BY <2>1 DEF Solo, AtWork, SameClaim
  <2>2. CASE AllIdle
    BY <2>2 DEF AllIdle, AtWork, Holding, Tail
  <2> QED BY <2>1, <2>2
<1> QED BY <1>1 DEF Solo

-----------------------------------------------------------------------------
(* The actions.                                                            *)

\* Giving the claim back by link.
LEMMA Linked ==
    ASSUME Solo, NEW rec, LinkReady(rec), rec # NoClaim => rec.gen \in 1..gens,
           UNCHANGED <<tombs, gens>>, claim # NoClaim
    PROVE  Real' /\ OneFile'
BY SMT DEF LinkReady, Solo, Real, OneFile, Row

LEMMA SoloClaiming == ASSUME Prompt, Solo, NEW w \in Workers, Claiming(w) PROVE Solo'
<1> SUFFICES ASSUME w \in Procs /\ AtWork(w) /\ Shape /\ Real /\ OneFile
             PROVE  Solo'
  BY WorkersAre DEF Solo
<1>1. CASE DropWithdrawnReady(w)
  <2>1. Real' /\ OneFile' /\ gens' \in Nat
    BY <1>1 DEF DropWithdrawnReady, Real, OneFile, Shape, counts
  <2> QED BY <1>1, <2>1, Aside DEF DropWithdrawnReady
<1>2. CASE ClaimRename(w)
  <2> DEFINE c == Raw(ready, HostOf[w])
  <2> SUFFICES ASSUME /\ pc' = At(w, "renamed") /\ snap' = [snap EXCEPT ![w] = c] /\ claim' = c
                      /\ UNCHANGED <<tombs, plan>> /\ ready' = NoRow /\ gens' = gens
               PROVE  Solo'
    BY <1>2 DEF ClaimRename, counts
  <2>1. c.gen = ready.gen /\ ready.gen \in 1..gens /\ tombs = {} /\ claim = NoClaim /\ c # NoClaim
    BY <1>2, SMT DEF ClaimRename, Raw, ClaimRec, NoClaim, Real
  <2> HIDE DEF c
  <2>2. Shape' /\ pc'[w] = "renamed" /\ snap'[w] = c /\ Real' /\ OneFile'
    BY <2>1 DEF At, Shape, Real, OneFile
  <2>3. AtWork(w)'
    BY <2>1, <2>2 DEF AtWork, Holding, Tail
  <2>4. AllIdle
    BY <2>1, ClaimsAlone
  <2> QED BY <2>2, <2>3, <2>4, Moves DEF AllIdle
<1>3. CASE ClaimCommit(w)
  BY <1>3, Stays DEF ClaimCommit, Go, Holding
<1>4. CASE ClaimRefused(w)
  <2>1. pc[w] \in Holding /\ pc[w] # "idle"
    BY <1>4 DEF ClaimRefused, Holding
  <2>2. Real' /\ OneFile'
    BY <1>4, <2>1, Linked DEF ClaimRefused, AtWork, Real
  <2> QED BY <1>4, <2>1, <2>2, Rests DEF ClaimRefused
<1>5. CASE ClaimPersist(w)
  <2> SUFFICES ASSUME pc[w] = "committed" /\ UNCHANGED <<ready, tombs, gens>>
               PROVE  Solo'
    BY <1>5 DEF ClaimPersist, counts
  <2>1. CASE Rest(w) /\ claim' = NoClaim
    <3>1. Real' /\ OneFile'
      BY <2>1 DEF Real, OneFile
    <3> QED BY <2>1, <3>1, Rests
  <2>2. CASE ~ (Rest(w) /\ claim' = NoClaim)
    <3> DEFINE c == ClaimRec(snap[w].gen, snap[w].att, claims, w, HostOf[w])
    <3> SUFFICES ASSUME /\ claim' = c /\ snap' = [snap EXCEPT ![w] = c] /\ pc' = At(w, "persisted")
                        /\ plan' = plan
                 PROVE  Solo'
      BY <1>5, <2>2 DEF ClaimPersist
    <3>1. c.gen = claim.gen /\ claim.gen \in 1..gens /\ c # NoClaim /\ tombs = {}
      BY SMT DEF ClaimRec, NoClaim, AtWork, Holding, Real, OneFile
    <3> HIDE DEF c
    <3>2. Shape' /\ pc'[w] = "persisted" /\ snap'[w] = c /\ Real' /\ OneFile'
      BY <3>1 DEF At, Shape, Real, OneFile
    <3>3. AtWork(w)'
      BY <3>1, <3>2 DEF AtWork, Holding, Tail
    <3> QED BY <3>2, <3>3, Alone, Moves
  <2> QED BY <2>1, <2>2
<1>6. CASE ClaimLease(w)
  BY <1>6, Stays DEF ClaimLease, Holding, counts
<1>7. CASE ClaimUnwound(w)
  <2> SUFFICES ASSUME pc[w] \in Holding /\ pc[w] # "idle" /\ claim # NoClaim /\ snap[w].gen \in 1..gens
               PROVE  Solo'
    BY <1>7 DEF ClaimUnwound, Holding, AtWork, Real
  <2>1. Raw(snap[w], HostOf[w]).gen \in 1..gens
    BY DEF Raw, ClaimRec
  <2>2. CASE LinkReady(Raw(snap[w], HostOf[w]))
    BY <1>7, <2>1, <2>2, Linked, Rests DEF ClaimUnwound
  <2>3. CASE UNCHANGED <<ready, claim>>
    <3>1. Real' /\ OneFile'
      BY <1>7, <2>3 DEF ClaimUnwound, Real, OneFile
    <3> QED BY <1>7, <3>1, Rests DEF ClaimUnwound
  <2> QED BY <1>7, <2>2, <2>3 DEF ClaimUnwound
<1> QED BY <1>1, <1>2, <1>3, <1>4, <1>5, <1>6, <1>7 DEF Claiming

\* A process that returns and leaves the rows as they are.
LEMMA Leaves ==
    ASSUME Solo, NEW p \in Procs, pc[p] # "idle", Rest(p),
           UNCHANGED <<ready, claim, tombs, gens>>
    PROVE  Solo'
<1>1. Real' /\ OneFile'
  BY DEF Solo, Real, OneFile
<1> QED BY <1>1, Rests

LEMMA SoloRunning == ASSUME Solo, NEW w \in Workers, Running(w) PROVE Solo'
<1> SUFFICES ASSUME w \in Procs /\ AtWork(w) /\ Shape /\ Real /\ OneFile
             PROVE  Solo'
  BY WorkersAre DEF Solo
<1>1. CASE Launch(w)
  <2>1. /\ pc[w] = "leased"
        /\ pc' = At(w, "read") \/ pc' = At(w, "running")
        /\ UNCHANGED <<ready, claim, tombs, snap, plan, gens>>
    BY <1>1 DEF Launch, rows
  <2> QED BY <2>1, Stays DEF Holding
<1>2. CASE DeferLaunch(w)
  <2> SUFFICES ASSUME pc[w] = "leased" /\ UNCHANGED <<ready, claim, tombs, gens>> /\ claim = snap[w] /\ claim # NoClaim
               PROVE  Solo'
    BY <1>2 DEF DeferLaunch, rows, AtWork, Holding
  <2>1. CASE Rest(w)
    BY <2>1, Leaves
  <2>2. CASE Commit(w, Plan("defer", snap[w], "requeued"), lock)
    <3>1. SameClaim(claim, Plan("defer", snap[w], "requeued").rec)
      BY SameIsSame DEF Plan
    <3> QED BY <2>2, <3>1, Commits
  <2> QED BY <1>2, <2>1, <2>2 DEF DeferLaunch
<1>3. CASE Heartbeat(w)
  <2> SUFFICES ASSUME /\ pc[w] = "running" /\ UNCHANGED <<ready, claim, tombs, snap, plan, lock, gens>>
                      /\ pc' = At(w, "read") \/ UNCHANGED <<status, pc>>
               PROVE  Solo'
    BY <1>3 DEF Heartbeat, counts
  <2>1. CASE pc' = At(w, "read")
    BY <2>1, Stays DEF Holding
  <2>2. CASE UNCHANGED <<status, pc>>
    <3>1. UNCHANGED procs /\ gens' \in Nat /\ Real' /\ OneFile'
      BY <2>2 DEF procs, Shape, Real, OneFile
    <3> QED BY <3>1, Aside
  <2> QED BY <2>1, <2>2
<1>4. ASSUME NEW result, RunEnds(w, result) PROVE Solo'
  <2>1. /\ pc[w] = "running" /\ pc' = At(w, "read")
        /\ UNCHANGED <<ready, claim, tombs, snap, plan, gens>>
    BY <1>4 DEF RunEnds, rows, counts
  <2> QED BY <2>1, Stays DEF Holding
<1> QED BY <1>1, <1>2, <1>3, <1>4 DEF Running

LEMMA SoloFinishing == ASSUME Solo, NEW w \in Workers, Finishing(w) PROVE Solo'
<1> SUFFICES ASSUME w \in Procs /\ AtWork(w) /\ Shape /\ Real /\ OneFile
             PROVE  Solo'
  BY WorkersAre DEF Solo
<1>1. CASE FinishReadsClaim(w)
  <2>1. pc[w] = "read" /\ UNCHANGED <<ready, claim, tombs, gens>>
    BY <1>1 DEF FinishReadsClaim, rows, counts
  <2>2. claim # NoClaim /\ claim = snap[w] /\ SameClaim(claim, snap[w])
    BY <2>1, SameIsSame DEF AtWork, Holding
  <2>3. Rest(w) \/ Go(w, "judged")
    BY <1>1, <2>2 DEF FinishReadsClaim
  <2> QED BY <2>1, <2>3, Leaves, Stays DEF Go, Holding
<1>2. CASE FinishReadsReady(w) \/ LostRelease(w) \/ LostLease(w) \/ LostCheck(w) \/ LostFile(w)
  <2>1. pc[w] \in {"readReady", "lostRelease", "lostLease", "lostCheck", "lostFile"}
    BY <1>2 DEF FinishReadsReady, LostRelease, LostLease, LostCheck, LostFile
  <2> QED BY <2>1 DEF AtWork, Holding, Tail
<1>3. CASE FinishArchives(w)
  <2> SUFFICES ASSUME /\ pc[w] = "judged" /\ UNCHANGED <<ready, claim, tombs, gens>>
                      /\ Go(w, "cancel") \/ \E d : Commit(w, Plan("finish", snap[w], d), lock)
               PROVE  Solo'
    BY <1>3 DEF FinishArchives, rows, counts
  <2>1. claim # NoClaim /\ claim = snap[w]
    BY DEF AtWork, Holding
  <2>2. CASE Go(w, "cancel")
    BY <2>2, Stays DEF Go, Holding
  <2>3. ASSUME NEW d, Commit(w, Plan("finish", snap[w], d), lock) PROVE Solo'
    <3>1. SameClaim(claim, Plan("finish", snap[w], d).rec)
      BY <2>1, SameIsSame DEF Plan
    <3> QED BY <2>1, <2>3, <3>1, Commits
  <2> QED BY <2>2, <2>3
<1>4. CASE FinishCancels(w)
  <2>1. /\ pc[w] = "cancel" /\ UNCHANGED <<ready, claim, tombs, gens>>
        /\ Rest(w) \/ Commit(w, Plan("cancel", snap[w], "withdrawn"), w)
    BY <1>4 DEF FinishCancels, rows, counts
  <2>2. claim # NoClaim /\ claim = snap[w]
    BY <2>1 DEF AtWork, Holding
  <2>3. SameClaim(claim, Plan("cancel", snap[w], "withdrawn").rec)
    BY <2>2, SameIsSame DEF Plan
  <2> QED BY <2>1, <2>2, <2>3, Leaves, Commits
<1> QED BY <1>1, <1>2, <1>3, <1>4 DEF Finishing

\* In its tail a process has the only mark, and it is its own.
LEMMA OwnMark ==
    ASSUME Solo, NEW p \in Procs, pc[p] \in Tail
    PROVE  /\ claim = NoClaim
           /\ \E t \in tombs : tombs = {t} /\ OwnTomb(p) = {t} /\ t.who = p
                               /\ SameClaim(t.rec, plan[p].rec) /\ t.rec.gen \in 1..gens
<1>1. claim = NoClaim /\ \E t \in tombs : t.who = p /\ SameClaim(t.rec, plan[p].rec)
  BY DEF Solo, AtWork
<1>2. PICK t \in tombs : t.who = p /\ SameClaim(t.rec, plan[p].rec)
  BY <1>1
<1>3. tombs = {t} /\ t.rec.gen \in 1..gens
  BY DEF Solo, OneFile, Real
<1>4. OwnTomb(p) = {t}
  BY <1>2, <1>3 DEF OwnTomb
<1> QED BY <1>1, <1>2, <1>3, <1>4

\* In the tail a process goes on with its mark.
LEMMA TailGoes ==
    ASSUME Solo, NEW p \in Procs, pc[p] \in Tail, NEW step \in Tail, Go(p, step),
           UNCHANGED <<ready, claim, tombs, gens>>
    PROVE  Solo'
<1> SUFFICES ASSUME pc' = At(p, step) /\ UNCHANGED <<snap, plan>> /\ pc[p] # "idle" /\ AtWork(p)
             PROVE  Solo'
  BY DEF Go, Tail, Solo
<1>1. Shape' /\ Real' /\ OneFile' /\ pc'[p] = step
  BY DEF Solo, Shape, Real, OneFile, At
<1>2. AtWork(p)'
  BY <1>1 DEF AtWork, Tail, Holding
<1> QED BY <1>1, <1>2, Alone, Moves

\* A row that is published is of the generation that was claimed.
LEMMA PublishedRow ==
    ASSUME Solo, NEW p \in Procs, pc[p] = "publish", NEW b, PublishDestination(p, b)
    PROVE  ready' # NoRow => ready'.gen \in 1..gens
<1>1. plan[p].rec.gen \in 1..gens
  BY OwnMark, SameIsSame DEF Tail
<1>2. CASE plan[p].disp \in {"done", "failed"}
  BY <1>2 DEF PublishDestination, FileTerminal, Solo, Real
<1>3. CASE plan[p].disp \notin {"done", "failed"}
  BY <1>1, <1>3, SMT DEF PublishDestination, Requeue, Row, Solo, Real
<1> QED BY <1>2, <1>3

LEMMA SoloCommitting ==
    ASSUME Solo, NEW p \in Procs, Committing(p) \/ Crash(p) PROVE Solo'
<1> SUFFICES ASSUME AtWork(p) /\ Shape /\ Real /\ OneFile
             PROVE  Solo'
  BY DEF Solo
<1>1. CASE Entomb(p)
  <2> SUFFICES ASSUME /\ pc[p] = "entomb" /\ claim # NoClaim /\ SameClaim(claim, plan[p].rec) /\ claim.gen \in 1..gens
                      /\ tombs = {}
               PROVE  Solo'
    BY <1>1 DEF Entomb, AtWork, Holding, Real, OneFile
  <2>1. /\ claim' = NoClaim /\ tombs' = {Tomb(claim, p)} /\ pc' = At(p, "unlease")
        /\ UNCHANGED <<snap, plan, ready, gens>>
    BY <1>1 DEF Entomb, Go, counts
  <2>2. Shape' /\ Real' /\ OneFile' /\ pc'[p] = "unlease"
    BY <2>1, SMT DEF Shape, Real, OneFile, At, Tomb
  <2>3. AtWork(p)'
    BY <2>1, <2>2 DEF AtWork, Tail, Holding, Tomb, SameClaim
  <2> QED BY <2>1, <2>2, <2>3, Alone, Moves
<1>2. CASE GiveBack(p)
  BY <1>2 DEF GiveBack, AtWork, Tail, Holding
<1>3. CASE Unlease(p)
  BY <1>3, TailGoes DEF Unlease, Tail, counts
<1>4. CASE ReleaseReservation(p)
  <2> SUFFICES ASSUME pc[p] = "release" /\ UNCHANGED <<ready, claim, gens>> /\ pc[p] # "idle"
               PROVE  Solo'
    BY <1>4 DEF ReleaseReservation, counts
  <2>1. CASE Rest(p) /\ tombs' = tombs \ OwnTomb(p)
    <3>1. Real' /\ OneFile'
      BY <2>1 DEF Real, OneFile
    <3> QED BY <2>1, <3>1, Rests
  <2>2. CASE Go(p, "publish") /\ UNCHANGED tombs
    BY <2>2, TailGoes DEF Tail
  <2> QED BY <1>4, <2>1, <2>2 DEF ReleaseReservation
<1>5. CASE PublishTail(p) \/ PublishCut(p)
  <2> SUFFICES ASSUME /\ pc[p] = "publish" /\ pc[p] # "idle" /\ Rest(p) /\ UNCHANGED <<claim, gens>>
                      /\ tombs' = tombs \/ tombs' = tombs \ OwnTomb(p)
                      /\ UNCHANGED ready \/ \E b : PublishDestination(p, b)
               PROVE  Solo'
    BY <1>5 DEF PublishTail, PublishCut, counts
  <2>1. ready' # NoRow => ready'.gen \in 1..gens
    BY PublishedRow DEF Real
  <2>2. Real' /\ OneFile'
    BY <2>1 DEF Real, OneFile
  <2> QED BY <2>2, Rests
<1>6. CASE PublishFails(p)
  <2>1. /\ pc[p] = "publish" /\ pc[p] # "idle" /\ Rest(p) /\ UNCHANGED <<ready, gens>>
        /\ \/ UNCHANGED <<claim, tombs>>
           \/ \E t \in tombs : claim' = t.rec /\ tombs' = tombs \ {t}
    BY <1>6 DEF PublishFails, OwnTomb
  <2>2. Real' /\ OneFile'
    BY <2>1 DEF Real, OneFile
  <2> QED BY <2>1, <2>2, Rests
<1>7. CASE Crash(p)
  BY <1>7, Leaves DEF Crash, rows
<1> QED BY <1>1, <1>2, <1>3, <1>4, <1>5, <1>6, <1>7 DEF Committing

LEMMA SoloReaping == ASSUME Prompt, Solo, Reaping PROVE Solo'
<1> SUFFICES ASSUME Reaper \in Procs /\ Reaper \notin Workers /\ Shape /\ Real /\ OneFile
             PROVE  Solo'
  BY QueueAssumption DEF Procs, Solo
<1>1. CASE ReapTerminal
  <2>1. AllIdle /\ UNCHANGED procs
    BY <1>1, ReapsAlone DEF ReapTerminal
  <2>2. Real' /\ OneFile' /\ gens' \in Nat
    BY <1>1 DEF ReapTerminal, Real, OneFile, counts, Shape
  <2> QED BY <2>1, <2>2, Aside
<1>2. CASE ReapWithdrawn \/ ReapUnstarted \/ ReapExpired
  <2> SUFFICES ASSUME /\ ReapableClaim /\ UNCHANGED <<ready, claim, tombs, gens>>
                      /\ \E k, d : Commit(Reaper, Plan(k, Judged, d), Reaper)
               PROVE  Solo'
    BY <1>2 DEF ReapWithdrawn, ReapUnstarted, ReapExpired, rows, counts
  <2>1. AllIdle /\ claim # NoClaim
    BY ReapsAlone DEF ReapableClaim
  <2>2. PICK k, d : Commit(Reaper, Plan(k, Judged, d), Reaper)
    OBVIOUS
  <2>3. SameClaim(claim, Plan(k, Judged, d).rec)
    BY DEF Plan, Judged, ClaimRec, SameClaim
  <2> HIDE DEF Judged
  <2> QED BY <2>1, <2>2, <2>3, Commits
<1>3. CASE SweepWidowedLease
  <2>1. Real' /\ OneFile' /\ gens' \in Nat /\ UNCHANGED <<procs, claim, tombs>>
    BY <1>3 DEF SweepWidowedLease, Real, OneFile, counts, Shape
  <2> QED BY <2>1, Aside
<1>4. ASSUME NEW t \in tombs, RestoreTomb(t) PROVE Solo'
  <2>1. AllIdle /\ UNCHANGED procs
    BY <1>4, SweepsAlone DEF RestoreTomb
  <2>2. Real' /\ OneFile' /\ gens' \in Nat
    BY <1>4 DEF RestoreTomb, Real, OneFile, counts, Shape
  <2> QED BY <2>1, <2>2, Aside
<1>5. ASSUME NEW t \in tombs, RetireTomb(t) PROVE Solo'
  <2> SUFFICES ASSUME SweepableTomb(t) /\ UNCHANGED <<procs, ready, claim, gens>> /\ tombs' = tombs \ {t}
               PROVE  Solo'
    BY <1>5 DEF RetireTomb, counts
  <2>1. AllIdle
    BY SweepsAlone
  <2>2. Real' /\ OneFile' /\ gens' \in Nat
    BY DEF Real, OneFile, Shape
  <2> QED BY <2>1, <2>2, Aside
<1> QED BY <1>1, <1>2, <1>3, <1>4, <1>5 DEF Reaping

LEMMA SoloStep == ASSUME Prompt PROVE Solo /\ [Next]_vars => Solo'
<1> SUFFICES ASSUME Solo, [Next]_vars PROVE Solo'
  OBVIOUS
<1>1. CASE Publish
  <2>1. UNCHANGED <<procs, claim, tombs>> /\ gens' = gens + 1 /\ ready' = Row(gens + 1, 0)
    BY <1>1 DEF Publish
  <2>2. Real' /\ OneFile' /\ gens' \in Nat
    BY <2>1, SMT DEF Solo, Shape, Real, OneFile, Row
  <2> QED BY <2>1, <2>2, Aside
<1>2. CASE Withdraw
  <2>1. /\ UNCHANGED <<procs, claim, tombs, gens>>
        /\ ready' = ready \/ ready' = NoRow
    BY <1>2 DEF Withdraw, counts
  <2>2. Real' /\ OneFile' /\ gens' \in Nat
    BY <2>1 DEF Solo, Shape, Real, OneFile
  <2> QED BY <2>1, <2>2, Aside
<1>3. CASE \E w \in Workers : Claiming(w) \/ Running(w) \/ Finishing(w)
  BY <1>3, SoloClaiming, SoloRunning, SoloFinishing
<1>4. CASE \E p \in Procs : Committing(p) \/ Crash(p)
  BY <1>4, SoloCommitting
<1>5. CASE Reaping
  BY <1>5, SoloReaping
<1>6. CASE UNCHANGED vars
  <2>1. UNCHANGED <<procs, claim, tombs, gens, ready>>
    BY <1>6 DEF vars, rows, counts
  <2>2. Real' /\ OneFile' /\ gens' \in Nat
    BY <2>1 DEF Solo, Shape, Real, OneFile
  <2> QED BY <2>1, <2>2, Aside
<1> QED BY <1>1, <1>2, <1>3, <1>4, <1>5, <1>6 DEF Next

LEMMA SoloInit == Init => Solo
BY SMT DEF Init, Solo, Shape, Sole, Real, OneFile, AtWork, Holding, Tail, Procs, NoRow

\* One process at a time has the key's work in hand, and what it works on stays
\* where it put it: no reaper takes a claim a live worker holds, no sweep a mark
\* a live finisher made, and no claim pass starts beside either of them.
THEOREM OneAtWork == ASSUME Prompt PROVE Spec => []Solo
BY SoloInit, SoloStep, PTL DEF Spec

-----------------------------------------------------------------------------
(* What the process at work may rely on.                                   *)

\* Past the look at the endings, and in a conclusion.
Recorded == {"persisted", "leased", "running", "read", "judged", "cancel"}
Concluding == Tail \union {"entomb"}

\* The tokens of a worker's claim are filed on its host, its lease is its own.
Custody(w) ==
    /\ pc[w] = "committed" => claims \in held[HostOf[w]]
    /\ pc[w] \in {"persisted", "leased", "running"} => snap[w].cid \in held[HostOf[w]]
    /\ pc[w] \in {"leased", "running"} => SameClaim(lease, snap[w])

\* The generation it works on has no terminal, and a cancelled one a decision.
Judgement(p) ==
    /\ p \in Workers /\ pc[p] \in Recorded => snap[p].gen \notin {done, failed}
    /\ p \in Workers /\ pc[p] = "cancel" => snap[p].gen \in decided
    /\ pc[p] \in Concluding => plan[p].rec.gen \notin {done, failed}
    /\ pc[p] \in Concluding /\ plan[p].kind = "cancel" => plan[p].rec.gen \in decided

Ledger ==
    /\ held = [h \in Hosts |-> held[h]]
    /\ OneTerminal
    /\ marker # 0 => marker \in decided

Safe ==
    /\ Ledger
    /\ \A w \in Workers : Custody(w)
    /\ \A p \in Procs : Judgement(p)

\* One process moves and the others are idle.
LEMMA SafeMoves ==
    ASSUME Solo, Safe, NEW p \in Procs, NEW step, pc' = At(p, step),
           pc[p] # "idle" \/ AllIdle, Ledger', Judgement(p)', p \in Workers => Custody(p)'
    PROVE  Safe'
<1>1. \A q \in Procs \ {p} : pc'[q] = "idle"
  BY Alone DEF At, AllIdle, Solo, Shape
<1>2. ASSUME NEW q \in Procs PROVE Judgement(q)'
  BY <1>1, <1>2 DEF Judgement, Recorded, Concluding, Tail
<1>3. ASSUME NEW w \in Workers PROVE Custody(w)'
  BY <1>1, <1>3, WorkersAre DEF Custody
<1> QED BY <1>2, <1>3 DEF Safe

LEMMA SafeRests ==
    ASSUME Solo, Safe, NEW p \in Procs, pc[p] # "idle", Rest(p), Ledger' PROVE Safe'
<1>1. pc' = At(p, "idle") /\ pc'[p] = "idle"
  BY DEF Rest, At, Solo, Shape
<1>2. Judgement(p)' /\ Custody(p)'
  BY <1>1 DEF Judgement, Recorded, Concluding, Tail, Custody
<1> QED BY <1>1, <1>2, SafeMoves

\* A step that moves no process: all are idle, or what they rely on stands.
LEMMA SafeAside ==
    ASSUME Solo, Safe, UNCHANGED procs, Ledger',
           AllIdle \/ (UNCHANGED <<lease, held, claims, done, failed>> /\ decided \subseteq decided')
    PROVE  Safe'
<1> SUFFICES ASSUME UNCHANGED <<pc, snap, plan>>
             PROVE  Safe'
  BY DEF procs
<1>1. CASE AllIdle
  <2>1. \A p \in Procs : Judgement(p)'
    BY <1>1 DEF AllIdle, Judgement, Recorded, Concluding, Tail
  <2>2. \A w \in Workers : Custody(w)'
    BY <1>1, WorkersAre DEF AllIdle, Custody
  <2> QED BY <2>1, <2>2 DEF Safe
<1>2. CASE UNCHANGED <<lease, held, claims, done, failed>> /\ decided \subseteq decided'
  <2>1. ASSUME NEW p \in Procs PROVE Judgement(p)'
    BY <1>2, <2>1 DEF Safe, Judgement
  <2>2. ASSUME NEW w \in Workers PROVE Custody(w)'
    BY <1>2, <2>2 DEF Safe, Custody, SameClaim
  <2> QED BY <2>1, <2>2 DEF Safe
<1> QED BY <1>1, <1>2

\* A step that files no ending and no decision keeps the ledger of endings.
LEMMA LedgerKept ==
    ASSUME Safe, UNCHANGED <<done, failed, marker, decided>>,
           held' = held \/ \E h : held' = Released(h)
    PROVE  Ledger'
BY DEF Safe, Ledger, OneTerminal, Released

\* A process that goes on with its claim and what it has judged.
LEMMA SafeGoes ==
    ASSUME Solo, Safe, NEW p \in Procs, NEW step, pc[p] # "idle", pc' = At(p, step),
           UNCHANGED <<snap, plan, done, failed, marker, decided>>,
           held' = held \/ \E h : held' = Released(h),
           p \in Workers /\ step \in Recorded => pc[p] \in Recorded,
           p \in Workers /\ step = "cancel" => snap[p].gen \in decided,
           step \in Concluding => pc[p] \in Concluding,
           step \notin {"committed", "persisted", "leased", "running"}
    PROVE  Safe'
<1>1. pc'[p] = step /\ Ledger'
  BY LedgerKept DEF At, Solo, Shape
<1>2. Judgement(p)' /\ Custody(p)'
  BY <1>1 DEF Safe, Judgement, Custody
<1> QED BY <1>1, <1>2, SafeMoves

\* A process that starts to conclude a generation without a terminal.
LEMMA SafeCommits ==
    ASSUME Solo, Safe, NEW p \in Procs, NEW k, NEW r, NEW d, NEW l,
           Commit(p, Plan(k, r, d), l), pc[p] # "idle" \/ AllIdle,
           r.gen \notin {done, failed}, k = "cancel" => r.gen \in decided,
           UNCHANGED <<held, done, failed, marker, decided>>
    PROVE  Safe'
<1> SUFFICES ASSUME pc' = At(p, "entomb") /\ pc'[p] = "entomb" /\ plan'[p] = Plan(k, r, d) /\ Ledger'
             PROVE  Safe'
  BY LedgerKept DEF Commit, At, Solo, Shape
<1>1. plan'[p].rec = r /\ plan'[p].kind = k
  BY SMT DEF Plan
<1>2. Judgement(p)' /\ Custody(p)'
  BY <1>1 DEF Judgement, Custody, Recorded
<1> QED BY <1>2, SafeMoves

\* A withdrawal that is seen is on file.
LEMMA CoveredIsDecided == ASSUME Ledger, NEW rec PROVE Covered(rec) <=> rec.gen \in decided
BY DEF Ledger, Covered

LEMMA SafeClaiming == ASSUME Solo, Safe, NEW w \in Workers, Claiming(w) PROVE Safe'
<1> SUFFICES ASSUME w \in Procs /\ HostOf[w] \in Hosts /\ Ledger /\ Custody(w) /\ Judgement(w)
             PROVE  Safe'
  BY WorkersAre DEF Safe, Hosts
<1>1. CASE DropWithdrawnReady(w)
  <2>1. UNCHANGED <<procs, held, lease, claims, done, failed, marker, decided>>
    BY <1>1 DEF DropWithdrawnReady, endings, withdrawals, counts
  <2> QED BY <2>1, LedgerKept, SafeAside
<1>2. CASE ClaimRename(w)
  <2>1. /\ pc' = At(w, "renamed") /\ claim = NoClaim /\ tombs = {}
        /\ UNCHANGED <<held, done, failed, marker, decided>>
    BY <1>2 DEF ClaimRename, endings, withdrawals
  <2>2. pc'[w] = "renamed"
    BY <2>1 DEF At, Solo, Shape
  <2>3. Judgement(w)' /\ Custody(w)'
    BY <2>2 DEF Judgement, Custody, Recorded, Concluding, Tail
  <2> QED BY <2>1, <2>3, ClaimsAlone, LedgerKept, SafeMoves
<1>3. CASE ClaimCommit(w)
  <2> SUFFICES ASSUME /\ pc[w] # "idle" /\ pc' = At(w, "committed") /\ claims' = claims + 1
                      /\ held' = [held EXCEPT ![HostOf[w]] = held[HostOf[w]] \union {claims + 1}]
                      /\ UNCHANGED <<done, failed, marker, decided>>
               PROVE  Safe'
    BY <1>3 DEF ClaimCommit, Go, endings, withdrawals
  <2>1. pc'[w] = "committed" /\ claims' \in held'[HostOf[w]]
    BY DEF At, Solo, Shape, Ledger
  <2>2. Ledger'
    BY DEF Ledger, OneTerminal
  <2>3. Judgement(w)' /\ Custody(w)'
    BY <2>1 DEF Judgement, Custody, Recorded, Concluding, Tail
  <2> QED BY <2>2, <2>3, SafeMoves
<1>4. CASE ClaimRefused(w)
  <2>1. pc[w] # "idle" /\ Rest(w) /\ UNCHANGED <<done, failed, marker, decided>>
    BY <1>4 DEF ClaimRefused, endings, withdrawals
  <2>2. held' = held \/ held' = Released(HostOf[w])
    BY <1>4 DEF ClaimRefused
  <2> QED BY <2>1, <2>2, LedgerKept, SafeRests
<1>5. CASE ClaimPersist(w)
  <2> SUFFICES ASSUME pc[w] = "committed" /\ UNCHANGED <<done, failed, marker, decided>>
               PROVE  Safe'
    BY <1>5 DEF ClaimPersist, endings, withdrawals
  <2>1. CASE Rest(w) /\ held' = Released(HostOf[w])
    BY <2>1, LedgerKept, SafeRests
  <2>2. CASE ~ (Rest(w) /\ held' = Released(HostOf[w]))
    <3> SUFFICES ASSUME /\ ~ TerminalCovers(snap[w]) /\ UNCHANGED held /\ pc' = At(w, "persisted")
                        /\ snap' = [snap EXCEPT ![w] = ClaimRec(snap[w].gen, snap[w].att, claims, w, HostOf[w])]
                 PROVE  Safe'
      BY <1>5, <2>2 DEF ClaimPersist
    <3>1. pc'[w] = "persisted" /\ snap'[w].gen = snap[w].gen /\ snap'[w].cid = claims
      BY DEF At, Solo, Shape, ClaimRec
    <3>2. snap[w].gen \in 1..gens /\ gens \in Nat
      BY DEF Solo, AtWork, Holding, Real, Shape
    <3>3. snap[w].gen \notin {done, failed}
      BY <3>2, SMT DEF TerminalCovers
    <3>4. Judgement(w)' /\ Custody(w)'
      BY <3>1, <3>3 DEF Judgement, Custody, Concluding, Tail
    <3> QED BY <3>4, LedgerKept, SafeMoves
  <2> QED BY <2>1, <2>2
<1>6. CASE ClaimLease(w)
  <2> SUFFICES ASSUME /\ pc[w] = "persisted" /\ pc' = At(w, "leased") /\ lease' = claim
                      /\ SameClaim(claim, snap[w])
                      /\ UNCHANGED <<held, done, failed, marker, decided, snap>>
               PROVE  Safe'
    BY <1>6 DEF ClaimLease, LeaseRefused, endings, withdrawals
  <2>1. pc'[w] = "leased"
    BY DEF At, Solo, Shape
  <2>2. Judgement(w)' /\ Custody(w)'
    BY <2>1 DEF Judgement, Custody, Recorded, Concluding, Tail
  <2> QED BY <2>2, LedgerKept, SafeMoves
<1>7. CASE ClaimUnwound(w)
  <2>1. /\ pc[w] # "idle" /\ Rest(w) /\ UNCHANGED <<done, failed, marker, decided>>
        /\ held' = Released(HostOf[w])
    BY <1>7 DEF ClaimUnwound, endings, withdrawals
  <2> QED BY <2>1, LedgerKept, SafeRests
<1> QED BY <1>1, <1>2, <1>3, <1>4, <1>5, <1>6, <1>7 DEF Claiming

LEMMA SafeRunning == ASSUME Solo, Safe, NEW w \in Workers, Running(w) PROVE Safe'
<1> SUFFICES ASSUME w \in Procs /\ HostOf[w] \in Hosts /\ Ledger /\ Custody(w) /\ Judgement(w) /\ AtWork(w)
             PROVE  Safe'
  BY WorkersAre DEF Safe, Hosts, Solo
<1>1. CASE Launch(w)
  <2> SUFFICES ASSUME /\ pc[w] = "leased" /\ UNCHANGED <<held, lease, done, failed, marker, decided, snap, plan>>
                      /\ pc' = At(w, "read") \/ pc' = At(w, "running")
               PROVE  Safe'
    BY <1>1 DEF Launch, rows, endings, withdrawals
  <2>1. CASE pc' = At(w, "read")
    BY <2>1, SafeGoes DEF Recorded, Concluding, Tail
  <2>2. CASE pc' = At(w, "running")
    <3>1. pc'[w] = "running"
      BY <2>2 DEF At, Solo, Shape
    <3>2. Judgement(w)' /\ Custody(w)'
      BY <3>1 DEF Judgement, Custody, Recorded, Concluding, Tail
    <3> QED BY <2>2, <3>2, LedgerKept, SafeMoves
  <2> QED BY <2>1, <2>2
<1>2. CASE DeferLaunch(w)
  <2>1. /\ pc[w] = "leased" /\ UNCHANGED <<held, done, failed, marker, decided>>
        /\ Rest(w) \/ Commit(w, Plan("defer", snap[w], "requeued"), lock)
    BY <1>2 DEF DeferLaunch, rows, endings, withdrawals
  <2>2. snap[w].gen \notin {done, failed}
    BY <2>1 DEF Judgement, Recorded
  <2> QED BY <2>1, <2>2, LedgerKept, SafeRests, SafeCommits
<1>3. CASE Heartbeat(w)
  <2> SUFFICES ASSUME pc[w] = "running" /\ UNCHANGED <<held, done, failed, marker, decided, snap, plan>>
               PROVE  Safe'
    BY <1>3 DEF Heartbeat, endings, withdrawals
  <2>1. CASE pc' = At(w, "read")
    BY <2>1, SafeGoes DEF Recorded, Concluding, Tail
  <2>2. CASE lease' = claim /\ SameClaim(claim, snap[w]) /\ UNCHANGED pc
    <3>1. pc' = At(w, "running") /\ pc'[w] = "running"
      BY <2>2 DEF At, Solo, Shape
    <3>2. Judgement(w)' /\ Custody(w)'
      BY <2>2, <3>1 DEF Judgement, Custody, Recorded, Concluding, Tail
    <3> QED BY <3>1, <3>2, LedgerKept, SafeMoves
  <2> QED BY <1>3, <2>1, <2>2 DEF Heartbeat
<1>4. ASSUME NEW result, RunEnds(w, result) PROVE Safe'
  <2>1. /\ pc[w] = "running" /\ pc' = At(w, "read")
        /\ UNCHANGED <<held, done, failed, marker, decided, snap, plan>>
    BY <1>4 DEF RunEnds, rows, endings, withdrawals
  <2> QED BY <2>1, SafeGoes DEF Recorded, Concluding, Tail
<1> QED BY <1>1, <1>2, <1>3, <1>4 DEF Running

LEMMA SafeFinishing == ASSUME Solo, Safe, NEW w \in Workers, Finishing(w) PROVE Safe'
<1> SUFFICES ASSUME w \in Procs /\ Ledger /\ Judgement(w) /\ AtWork(w)
             PROVE  Safe'
  BY WorkersAre DEF Safe, Solo
<1>1. CASE FinishReadsClaim(w)
  <2>1. pc[w] = "read" /\ UNCHANGED <<held, done, failed, marker, decided>>
    BY <1>1 DEF FinishReadsClaim, rows, withdrawals
  <2>2. claim # NoClaim /\ SameClaim(claim, snap[w])
    BY <2>1, SameIsSame DEF AtWork, Holding
  <2>3. Rest(w) \/ Go(w, "judged")
    BY <1>1, <2>2 DEF FinishReadsClaim
  <2> QED BY <2>1, <2>3, LedgerKept, SafeRests, SafeGoes DEF Go, Recorded, Concluding, Tail
<1>2. CASE FinishReadsReady(w) \/ LostRelease(w) \/ LostLease(w) \/ LostCheck(w) \/ LostFile(w)
  <2>1. pc[w] \in {"readReady", "lostRelease", "lostLease", "lostCheck", "lostFile"}
    BY <1>2 DEF FinishReadsReady, LostRelease, LostLease, LostCheck, LostFile
  <2> QED BY <2>1 DEF AtWork, Holding, Tail
<1>3. CASE FinishArchives(w)
  <2> SUFFICES ASSUME /\ pc[w] = "judged" /\ UNCHANGED <<held, done, failed, marker, decided>>
                      /\ \/ Covered(snap[w]) /\ Go(w, "cancel")
                         \/ \E d : Commit(w, Plan("finish", snap[w], d), lock)
               PROVE  Safe'
    BY <1>3 DEF FinishArchives, rows, withdrawals
  <2>1. snap[w].gen \notin {done, failed}
    BY DEF Judgement, Recorded
  <2>2. CASE Covered(snap[w]) /\ Go(w, "cancel")
    BY <2>2, CoveredIsDecided, SafeGoes DEF Go, Recorded, Concluding, Tail
  <2>3. ASSUME NEW d, Commit(w, Plan("finish", snap[w], d), lock) PROVE Safe'
    BY <2>1, <2>3, SafeCommits
  <2> QED BY <2>2, <2>3
<1>4. CASE FinishCancels(w)
  <2>1. /\ pc[w] = "cancel" /\ UNCHANGED <<held, done, failed, marker, decided>>
        /\ Rest(w) \/ Commit(w, Plan("cancel", snap[w], "withdrawn"), w)
    BY <1>4 DEF FinishCancels, rows, withdrawals
  <2>2. snap[w].gen \notin {done, failed} /\ snap[w].gen \in decided
    BY <2>1 DEF Judgement, Recorded
  <2> QED BY <2>1, <2>2, LedgerKept, SafeRests, SafeCommits
<1> QED BY <1>1, <1>2, <1>3, <1>4 DEF Finishing

\* A terminal filed for a generation that has none is its only one.
LEMMA FiledOnce ==
    ASSUME OneTerminal, NEW g, g \notin {0, done, failed}, NEW d \in {"done", "failed"},
           NEW b, FileTerminal(g, d, b)
    PROVE  OneTerminal'
<1>1. /\ done' = (IF d = "done" THEN g ELSE IF done = g \/ ~ b THEN done ELSE 0)
      /\ failed' = (IF d = "failed" THEN g ELSE IF failed = g \/ ~ b THEN failed ELSE 0)
  BY DEF FileTerminal
<1> QED BY <1>1 DEF OneTerminal

LEMMA PublishedOnce ==
    ASSUME Solo, Safe, NEW p \in Procs, pc[p] = "publish", NEW b, PublishDestination(p, b)
    PROVE  OneTerminal'
<1>1. plan[p].rec.gen \in 1..gens /\ gens \in Nat
  BY OwnMark, SameIsSame DEF Tail, Solo, Shape
<1>2. plan[p].rec.gen \notin {done, failed} /\ OneTerminal
  BY DEF Safe, Judgement, Concluding, Tail, Ledger
<1>3. CASE plan[p].disp \in {"done", "failed"}
  BY <1>1, <1>2, <1>3, FiledOnce, SMT DEF PublishDestination
<1>4. CASE plan[p].disp \notin {"done", "failed"}
  BY <1>2, <1>4 DEF PublishDestination, Requeue, OneTerminal
<1> QED BY <1>3, <1>4

LEMMA SafeCommitting ==
    ASSUME Solo, Safe, NEW p \in Procs, Committing(p) \/ Crash(p) PROVE Safe'
<1> SUFFICES ASSUME AtWork(p) /\ Ledger
             PROVE  Safe'
  BY DEF Solo, Safe
<1>1. CASE Entomb(p)
  <2>1. /\ pc[p] = "entomb" /\ claim # NoClaim /\ SameClaim(claim, plan[p].rec)
        /\ UNCHANGED <<held, done, failed, marker, decided>>
    BY <1>1 DEF Entomb, AtWork, Holding, endings, withdrawals
  <2>2. Go(p, "unlease")
    BY <1>1, <2>1 DEF Entomb
  <2> QED BY <2>1, <2>2, SafeGoes DEF Go, Recorded, Concluding, Tail
<1>2. CASE GiveBack(p)
  BY <1>2 DEF GiveBack, AtWork, Tail, Holding
<1>3. CASE Unlease(p)
  BY <1>3, SafeGoes DEF Unlease, Go, Recorded, Concluding, Tail, endings, withdrawals
<1>4. CASE ReleaseReservation(p)
  <2>1. /\ pc[p] = "release" /\ held' = Released(plan[p].rec.host)
        /\ UNCHANGED <<done, failed, marker, decided>>
        /\ Rest(p) \/ Go(p, "publish")
    BY <1>4 DEF ReleaseReservation, endings, withdrawals
  <2> QED BY <2>1, LedgerKept, SafeRests, SafeGoes DEF Go, Recorded, Concluding, Tail
<1>5. CASE PublishTail(p) \/ PublishCut(p)
  <2> SUFFICES ASSUME /\ pc[p] = "publish" /\ Rest(p) /\ UNCHANGED <<held, marker, decided>>
                      /\ UNCHANGED <<done, failed>> \/ \E b : PublishDestination(p, b)
               PROVE  Safe'
    BY <1>5 DEF PublishTail, PublishCut, withdrawals
  <2>1. OneTerminal'
    BY PublishedOnce DEF Ledger, OneTerminal
  <2>2. Ledger'
    BY <2>1 DEF Ledger
  <2> QED BY <2>2, SafeRests
<1>6. CASE PublishFails(p)
  <2>1. pc[p] # "idle" /\ Rest(p) /\ UNCHANGED <<held, done, failed, marker, decided>>
    BY <1>6 DEF PublishFails, endings, withdrawals
  <2> QED BY <2>1, LedgerKept, SafeRests
<1>7. CASE Crash(p)
  BY <1>7, LedgerKept, SafeRests DEF Crash, rows, endings, withdrawals
<1> QED BY <1>1, <1>2, <1>3, <1>4, <1>5, <1>6, <1>7 DEF Committing

LEMMA SafeReaping == ASSUME Prompt, Solo, Safe, Reaping PROVE Safe'
<1> SUFFICES ASSUME Reaper \in Procs /\ Ledger
             PROVE  Safe'
  BY DEF Procs, Safe
<1>1. CASE ReapTerminal
  <2>1. AllIdle /\ UNCHANGED <<procs, done, failed, marker, decided>> /\ held' = Released(HolderOf(claim))
    BY <1>1, ReapsAlone DEF ReapTerminal, endings, withdrawals
  <2> QED BY <2>1, LedgerKept, SafeAside
<1>2. CASE ReapWithdrawn \/ ReapUnstarted \/ ReapExpired
  <2>1. /\ ReapableClaim /\ ~ TerminalCovers(claim)
        /\ UNCHANGED <<held, done, failed, marker, decided>>
        /\ \E k, d : Commit(Reaper, Plan(k, Judged, d), Reaper) /\ (k = "cancel" => Covered(claim))
    <3>1. CASE ReapWithdrawn
      BY <3>1 DEF ReapWithdrawn, rows, endings, withdrawals
    <3>2. CASE ReapUnstarted
      <4>1. Commit(Reaper, Plan("unstarted", Judged, "requeued"), Reaper) /\ "unstarted" # "cancel"
        BY <3>2 DEF ReapUnstarted
      <4> QED BY <3>2, <4>1 DEF ReapUnstarted, rows, endings, withdrawals
    <3>3. CASE ReapExpired
      <4>1. (\E d : Commit(Reaper, Plan("expire", Judged, d), Reaper)) /\ "expire" # "cancel"
        BY <3>3 DEF ReapExpired
      <4> QED BY <3>3, <4>1 DEF ReapExpired, rows, withdrawals
    <3> QED BY <1>2, <3>1, <3>2, <3>3
  <2>2. AllIdle /\ claim # NoClaim /\ claim.gen \in 1..gens /\ gens \in Nat
    BY <2>1, ReapsAlone DEF ReapableClaim, Solo, Real, Shape
  <2>3. PICK k, d : Commit(Reaper, Plan(k, Judged, d), Reaper) /\ (k = "cancel" => Covered(claim))
    BY <2>1
  <2>4. Judged.gen = claim.gen
    BY DEF Judged, ClaimRec
  <2>5. claim.gen \notin {done, failed} /\ (k = "cancel" => claim.gen \in decided)
    BY <2>1, <2>2, <2>3, CoveredIsDecided, SMT DEF TerminalCovers
  <2> HIDE DEF Judged
  <2> QED BY <2>1, <2>2, <2>3, <2>4, <2>5, SafeCommits
<1>3. CASE SweepWidowedLease
  <2> SUFFICES ASSUME /\ UNCHANGED <<procs, claim, tombs, done, failed, marker, decided>> /\ claim = NoClaim
                      /\ held' = Released(HolderOf(lease))
               PROVE  Safe'
    BY <1>3 DEF SweepWidowedLease, endings, withdrawals
  <2>1. \A w \in Workers : pc'[w] = pc[w] /\ pc[w] \notin Holding
    BY WorkersAre DEF procs, Solo, AtWork
  <2>2. \A w \in Workers : Custody(w)'
    BY <2>1 DEF Custody, Holding
  <2>3. \A p \in Procs : Judgement(p)'
    BY DEF Safe, Judgement, procs
  <2> QED BY <2>2, <2>3, LedgerKept DEF Safe
<1>4. ASSUME NEW t \in tombs, RestoreTomb(t) PROVE Safe'
  <2>1. AllIdle /\ UNCHANGED <<procs, held, done, failed, marker, decided>>
    BY <1>4, SweepsAlone DEF RestoreTomb, endings, withdrawals
  <2> QED BY <2>1, LedgerKept, SafeAside
<1>5. ASSUME NEW t \in tombs, RetireTomb(t) PROVE Safe'
  <2> SUFFICES ASSUME /\ SweepableTomb(t) /\ UNCHANGED <<procs, marker, decided>>
                      /\ held' = [h \in Hosts |-> {}] \/ held' = held
                      /\ done' \in {done, 0} /\ failed' \in {failed, 0}
               PROVE  Safe'
    BY <1>5 DEF RetireTomb, withdrawals
  <2>1. AllIdle
    BY SweepsAlone
  <2>2. Ledger'
    BY DEF Ledger, OneTerminal
  <2> QED BY <2>1, <2>2, SafeAside
<1> QED BY <1>1, <1>2, <1>3, <1>4, <1>5 DEF Reaping

\* Submitters and cancellers file decisions and never take one back.
LEMMA Decides ==
    ASSUME Ledger, Publish \/ Withdraw
    PROVE  decided \subseteq decided' /\ (marker' # 0 => marker' \in decided')
<1>1. CASE Publish
  BY <1>1 DEF Publish, SupersededMarker
<1>2. CASE Withdraw
  <2>1. \/ decided' = decided \union ({marker} \ {0}) \union {WithdrawTarget.gen}
           /\ marker' = WithdrawTarget.gen
        \/ decided' = decided \union {marker} /\ marker' = marker
    BY <1>2 DEF Withdraw, SupersededMarker
  <2> QED BY <2>1 DEF Ledger
<1> QED BY <1>1, <1>2

LEMMA SafeStep == ASSUME Prompt PROVE Solo /\ Safe /\ [Next]_vars => Safe'
<1> SUFFICES ASSUME Solo, Safe, [Next]_vars PROVE Safe'
  OBVIOUS
<1>1. CASE Publish \/ Withdraw
  <2>1. UNCHANGED <<procs, lease, held, claims, done, failed>>
    BY <1>1 DEF Publish, Withdraw, endings, counts
  <2>2. Ledger /\ decided \subseteq decided' /\ (marker' # 0 => marker' \in decided')
    BY <1>1, Decides DEF Safe
  <2>3. Ledger'
    BY <2>1, <2>2 DEF Ledger, OneTerminal
  <2> QED BY <2>1, <2>2, <2>3, SafeAside
<1>2. CASE \E w \in Workers : Claiming(w) \/ Running(w) \/ Finishing(w)
  BY <1>2, SafeClaiming, SafeRunning, SafeFinishing
<1>3. CASE \E p \in Procs : Committing(p) \/ Crash(p)
  BY <1>3, SafeCommitting
<1>4. CASE Reaping
  BY <1>4, SafeReaping
<1>5. CASE UNCHANGED vars
  <2>1. UNCHANGED <<procs, lease, held, claims, done, failed, marker, decided>>
    BY <1>5 DEF vars, rows, endings, withdrawals, counts
  <2> QED BY <2>1, LedgerKept, SafeAside
<1> QED BY <1>1, <1>2, <1>3, <1>4, <1>5 DEF Next

LEMMA SafeInit == Init => Safe
BY WorkersAre DEF Init, Safe, Ledger, OneTerminal, Custody, Judgement, Recorded, Concluding, Tail

\* What the process at work relies on stands.
LEMMA SafeAlways == ASSUME Prompt PROVE Spec => []Safe
BY OneAtWork, SafeInit, SafeStep, PTL DEF Spec

\* A generation has one ending: done/ and failed/ never both hold it, whatever
\* crashes between the archive of an attempt and the filing of its terminal
\* (finish, _commit_claim, reap_stale).
THEOREM OneEnding == ASSUME Prompt PROVE Spec => []OneTerminal
<1>1. Safe => OneTerminal
  BY DEF Safe, Ledger
<1> QED BY <1>1, SafeAlways, PTL

\* A worker whose claim stands has its lease and its reservation: nobody else's
\* conclusion, sweep or claim pass deletes them.
THEOREM CustodyIsKept == ASSUME Prompt PROVE Spec => []RunningKeepsCustody
<1>1. Safe => RunningKeepsCustody
  BY DEF Safe, RunningKeepsCustody, CustodyOf, Custody
<1> QED BY <1>1, SafeAlways, PTL

-----------------------------------------------------------------------------
(* Nothing is lost.                                                        *)

Archive ==
    /\ archive = [a \in Gens \X Attempts |-> archive[a]]
    /\ gens <= MaxGens

\* An archived ending is never taken back: the first writer of an attempt wins.
LEMMA EndingStays ==
    ASSUME Archive, NEW g \in Gens, ArchivedEnding(g),
           archive' = archive \/ \E h, n, d : archive' = Archived(h, n, d)
    PROVE  ArchivedEnding(g)'
<1>1. PICK m \in Attempts : archive[<<g, m>>] \in {"done", "failed"}
  BY DEF ArchivedEnding
<1>2. CASE archive' = archive
  BY <1>1, <1>2 DEF ArchivedEnding
<1>3. ASSUME NEW h, NEW n, NEW d, archive' = Archived(h, n, d)
      PROVE  archive'[<<g, m>>] = archive[<<g, m>>]
  <2>1. CASE archive[<<h, n>>] = "none"
    <3>1. archive' = [archive EXCEPT ![<<h, n>>] = d]
      BY <1>3, <2>1 DEF Archived
    <3>2. <<h, n>> # <<g, m>> /\ <<g, m>> \in Gens \X Attempts
      BY <1>1, <2>1
    <3> QED BY <3>1, <3>2 DEF Archive
  <2>2. CASE archive[<<h, n>>] # "none"
    BY <1>3, <2>2 DEF Archived
  <2> QED BY <2>1, <2>2
<1>4. archive'[<<g, m>>] \in {"done", "failed"} \/ archive' = archive
  BY <1>1, <1>3
<1> QED BY <1>2, <1>4 DEF ArchivedEnding

\* Only what a step takes away has to be found again.
LEMMA Carry ==
    ASSUME NEW g, Accounted(g), ArchivedEnding(g) => ArchivedEnding(g)',
           decided \subseteq decided', supers \subseteq supers',
           retired \subseteq retired', replaced \subseteq replaced',
           g = ready.gen => Accounted(g)',
           g = claim.gen => Accounted(g)',
           g \in {done, failed} => Accounted(g)',
           \A t \in tombs : t.rec.gen = g => Accounted(g)'
    PROVE  Accounted(g)'
<1> HIDE DEF ArchivedEnding
<1> QED BY DEF Accounted

Kept == Archive /\ NothingLost

\* Decisions, supersessions, retirements and archived attempts only grow.
Grows ==
    /\ decided \subseteq decided' /\ supers \subseteq supers'
    /\ retired \subseteq retired' /\ replaced \subseteq replaced'
    /\ archive' = archive \/ \E h, n, d : archive' = Archived(h, n, d)

LEMMA ArchiveStays == ASSUME Archive, Grows, gens' <= MaxGens PROVE Archive'
<1>1. ASSUME NEW h, NEW n, NEW d, archive' = Archived(h, n, d)
      PROVE  archive' = archive \/ archive' = [archive EXCEPT ![<<h, n>>] = d]
  BY <1>1 DEF Archived
<1> QED BY <1>1 DEF Archive, Grows

\* No generation is lost if what the step takes away is found again.
LEMMA Shifts ==
    ASSUME Solo, Kept, Grows, gens' = gens,
           \A g \in Gens :
             /\ g = ready.gen => Accounted(g)'
             /\ g = claim.gen => Accounted(g)'
             /\ g \in {done, failed} => Accounted(g)'
             /\ \A t \in tombs : t.rec.gen = g => Accounted(g)'
    PROVE  Kept'
<1>1. Archive'
  BY ArchiveStays DEF Kept, Archive
<1>2. ASSUME NEW g \in 1..gens PROVE g \in Gens /\ Accounted(g)
  BY QueueAssumption, SMT DEF Kept, Archive, NothingLost, Gens, Solo, Shape
<1>3. ASSUME NEW g \in 1..gens PROVE Accounted(g)'
  <2>1. ArchivedEnding(g) => ArchivedEnding(g)'
    BY <1>2, EndingStays DEF Kept, Grows
  <2> QED BY <1>2, <2>1, Carry DEF Grows
<1> QED BY <1>1, <1>3 DEF Kept, NothingLost

LEMMA Quiet ==
    ASSUME Solo, Kept, Grows, gens' = gens, UNCHANGED <<ready, claim, tombs, done, failed>>
    PROVE  Kept'
<1>1. ASSUME NEW g, g \in {ready.gen, claim.gen, done, failed} \/ \E t \in tombs : t.rec.gen = g
      PROVE  Accounted(g)'
  BY <1>1 DEF Accounted
<1> QED BY <1>1, Shifts

\* A step that files no ending.
LEMMA NoEnding ==
    ASSUME Solo, Kept, UNCHANGED <<endings, withdrawals>>, gens' = gens,
           \A g \in Gens :
             /\ g = ready.gen => Accounted(g)'
             /\ g = claim.gen => Accounted(g)'
             /\ \A t \in tombs : t.rec.gen = g => Accounted(g)'
    PROVE  Kept'
<1>1. Grows /\ UNCHANGED <<done, failed>>
  BY DEF Grows, endings, withdrawals
<1>2. \A g \in {done, failed} : Accounted(g)'
  BY <1>1 DEF Accounted
<1> QED BY <1>1, <1>2, Shifts

LEMMA GensAre == \A g \in Gens : g # 0
BY QueueAssumption, SMT DEF Gens

LEMMA KeptClaiming == ASSUME Solo, Safe, Kept, NEW w \in Workers, Claiming(w) PROVE Kept'
<1> SUFFICES ASSUME w \in Procs /\ AtWork(w) /\ Ledger /\ NoRow.gen = 0 /\ NoClaim.gen = 0
             PROVE  Kept'
  BY WorkersAre DEF Solo, Safe, NoRow, Row, NoClaim, ClaimRec
<1>1. CASE DropWithdrawnReady(w)
  <2>1. /\ UNCHANGED <<claim, tombs, endings, withdrawals, gens>> /\ ready.gen \in decided
    BY <1>1, CoveredIsDecided DEF DropWithdrawnReady, counts
  <2>2. \A g : (g \in {ready.gen, claim.gen} \/ \E t \in tombs : t.rec.gen = g) => Accounted(g)'
    BY <2>1 DEF Accounted, withdrawals
  <2> QED BY <2>1, <2>2, NoEnding
<1>2. CASE ClaimRename(w)
  <2> SUFFICES ASSUME /\ UNCHANGED <<tombs, endings, withdrawals, gens>> /\ claim'.gen = ready.gen
                      /\ claim = NoClaim /\ tombs = {}
               PROVE  Kept'
    BY <1>2 DEF ClaimRename, counts, Raw, ClaimRec
  <2>1. \A g \in Gens : g = ready.gen => Accounted(g)'
    BY DEF Accounted
  <2>2. \A g \in Gens : g # claim.gen
    BY GensAre
  <2> QED BY <2>1, <2>2, NoEnding
<1>3. CASE ClaimCommit(w) \/ ClaimLease(w)
  <2>1. UNCHANGED <<ready, claim, tombs, endings, withdrawals, gens>>
    BY <1>3 DEF ClaimCommit, ClaimLease, counts
  <2> QED BY <2>1, Quiet DEF Grows, endings, withdrawals
<1>4. CASE ClaimRefused(w)
  <2> SUFFICES ASSUME /\ UNCHANGED <<tombs, endings, withdrawals, gens>> /\ LinkReady(claim) /\ claim # NoClaim
               PROVE  Kept'
    BY <1>4 DEF ClaimRefused, AtWork, Holding
  <2>1. \A g \in Gens : g \in {ready.gen, claim.gen} => g \in {ready'.gen, claim'.gen}
    BY GensAre, SMT DEF LinkReady, Row
  <2>2. \A g \in Gens : (g \in {ready.gen, claim.gen} \/ \E t \in tombs : t.rec.gen = g) => Accounted(g)'
    BY <2>1 DEF Accounted
  <2> QED BY <2>2, NoEnding
<1>5. CASE ClaimPersist(w)
  <2> SUFFICES ASSUME /\ UNCHANGED <<ready, tombs, endings, withdrawals, gens>> /\ claim = snap[w]
               PROVE  Kept'
    BY <1>5 DEF ClaimPersist, counts, AtWork, Holding
  <2>1. \/ claim'.gen = claim.gen
        \/ claim.gen \in {done, failed} \union decided
    <3>1. CASE TerminalCovers(snap[w]) \/ Covered(snap[w])
      BY <3>1, CoveredIsDecided DEF TerminalCovers
    <3>2. CASE ~ (TerminalCovers(snap[w]) \/ Covered(snap[w]))
      BY <1>5, <3>2, SMT DEF ClaimPersist, ClaimRec
    <3> QED BY <3>1, <3>2
  <2>2. \A g \in Gens : (g \in {ready.gen, claim.gen} \/ \E t \in tombs : t.rec.gen = g) => Accounted(g)'
    BY <2>1 DEF Accounted, endings, withdrawals
  <2> QED BY <2>2, NoEnding
<1>6. CASE ClaimUnwound(w)
  <2> SUFFICES ASSUME /\ UNCHANGED <<tombs, endings, withdrawals, gens>> /\ claim = snap[w]
                      /\ claim.gen \in 1..gens /\ gens \in Nat
                      /\ LinkReady(Raw(snap[w], HostOf[w])) \/ UNCHANGED <<ready, claim>>
               PROVE  Kept'
    BY <1>6 DEF ClaimUnwound, AtWork, Holding, Solo, Real, Shape
  <2>1. Raw(snap[w], HostOf[w]).gen = claim.gen
    BY DEF Raw, ClaimRec
  <2>2. \A g \in Gens : g \in {ready.gen, claim.gen} => g \in {ready'.gen, claim'.gen}
    BY <2>1, GensAre, SMT DEF LinkReady, Row
  <2>3. \A g \in Gens : (g \in {ready.gen, claim.gen} \/ \E t \in tombs : t.rec.gen = g) => Accounted(g)'
    BY <2>2 DEF Accounted
  <2> QED BY <2>3, NoEnding
<1> QED BY <1>1, <1>2, <1>3, <1>4, <1>5, <1>6 DEF Claiming

\* Running and finishing a claim moves no row before the tail.
LEMMA KeptAtWork ==
    ASSUME Solo, Safe, Kept, NEW w \in Workers, Running(w) \/ Finishing(w) PROVE Kept'
<1>1. w \in Procs /\ AtWork(w)
  BY WorkersAre DEF Solo
<1>2. CASE Running(w)
  <2>1. UNCHANGED <<ready, claim, tombs, endings, withdrawals, gens>>
    <3>1. CASE Launch(w) \/ DeferLaunch(w)
      BY <3>1 DEF Launch, DeferLaunch, rows
    <3>2. CASE Heartbeat(w) \/ \E result \in {"executed", "failed", "withdrawn"} : RunEnds(w, result)
      BY <3>2 DEF Heartbeat, RunEnds, rows, counts
    <3> QED BY <1>2, <3>1, <3>2 DEF Running
  <2> QED BY <2>1, Quiet DEF Grows, endings, withdrawals
<1>3. CASE FinishReadsReady(w) \/ LostRelease(w) \/ LostLease(w) \/ LostCheck(w) \/ LostFile(w)
  <2>1. pc[w] \in {"readReady", "lostRelease", "lostLease", "lostCheck", "lostFile"}
    BY <1>3 DEF FinishReadsReady, LostRelease, LostLease, LostCheck, LostFile
  <2> QED BY <1>1, <2>1 DEF AtWork, Holding, Tail
<1>4. CASE FinishReadsClaim(w) \/ FinishArchives(w) \/ FinishCancels(w)
  <2>1. /\ UNCHANGED <<ready, claim, tombs, done, failed, supers, retired, replaced, withdrawals, gens>>
    BY <1>4 DEF FinishReadsClaim, FinishArchives, FinishCancels, rows, counts
  <2>2. archive' = archive \/ \E h, n, d : archive' = Archived(h, n, d)
    BY <1>4 DEF FinishReadsClaim, FinishArchives, FinishCancels, LateArchive
  <2> QED BY <2>1, <2>2, Quiet DEF Grows, withdrawals
<1> QED BY <1>2, <1>3, <1>4 DEF Finishing

\* The terminal that is filed is there, and what it displaces is retired.
LEMMA FiledKeeps ==
    ASSUME NEW g, NEW d \in {"done", "failed"}, NEW b, FileTerminal(g, d, b)
    PROVE  /\ retired \subseteq retired' /\ UNCHANGED <<ready, supers>>
           /\ \A h \in {done, failed, g} : h # 0 => h \in {done', failed'} \union retired'
<1>1. /\ retired' = retired \union ({done, failed} \ {0, g, done', failed'})
      /\ d = "done" => done' = g
      /\ d = "failed" => failed' = g
      /\ UNCHANGED <<ready, supers>>
  BY DEF FileTerminal
<1> QED BY <1>1

\* The row that is requeued waits, or has been superseded.
LEMMA RequeuedKeeps ==
    ASSUME NEW g, NEW a, Requeue(g, a)
    PROVE  /\ supers \subseteq supers' /\ UNCHANGED <<done, failed, retired>>
           /\ ready' = ready \/ ready = NoRow
           /\ g = ready'.gen \/ g \in supers'
BY DEF Requeue, Row

LEMMA PublishedKeeps ==
    ASSUME NEW p, NEW b, PublishDestination(p, b)
    PROVE  /\ supers \subseteq supers' /\ retired \subseteq retired'
           /\ ready' = ready \/ ready = NoRow
           /\ \A h \in {done, failed} : h # 0 => h \in {done', failed'} \union retired'
           /\ plan[p].rec.gen # 0 =>
                plan[p].rec.gen \in {ready'.gen, done', failed'} \union retired' \union supers'
<1>1. CASE plan[p].disp \in {"done", "failed"}
  BY <1>1, FiledKeeps DEF PublishDestination
<1>2. CASE plan[p].disp \notin {"done", "failed"}
  <2>1. Requeue(plan[p].rec.gen, NextAttempt(p))
    BY <1>2 DEF PublishDestination
  <2> QED BY <2>1, RequeuedKeeps
<1> QED BY <1>1, <1>2

LEMMA KeptCommitting ==
    ASSUME Solo, Safe, Kept, NEW p \in Procs, Committing(p) \/ Crash(p) PROVE Kept'
<1> SUFFICES ASSUME AtWork(p) /\ Judgement(p) /\ NoRow.gen = 0 /\ NoClaim.gen = 0
             PROVE  Kept'
  BY DEF Solo, Safe, NoRow, Row, NoClaim, ClaimRec
<1>1. CASE Entomb(p)
  <2> SUFFICES ASSUME /\ claim # NoClaim /\ UNCHANGED <<ready, endings, withdrawals, gens>>
                      /\ tombs' = tombs \union {Tomb(claim, p)}
               PROVE  Kept'
    BY <1>1 DEF Entomb, AtWork, Holding, counts
  <2>1. Tomb(claim, p) \in tombs' /\ Tomb(claim, p).rec.gen = claim.gen
    BY DEF Tomb
  <2>2. \A g \in Gens : (g \in {ready.gen, claim.gen} \/ \E t \in tombs : t.rec.gen = g) => Accounted(g)'
    BY <2>1 DEF Accounted
  <2> QED BY <2>2, NoEnding
<1>2. CASE GiveBack(p)
  BY <1>2 DEF GiveBack, AtWork, Tail, Holding
<1>3. CASE Unlease(p) \/ Crash(p)
  <2>1. UNCHANGED <<ready, claim, tombs, endings, withdrawals, gens>>
    BY <1>3 DEF Unlease, Crash, rows, counts
  <2> QED BY <2>1, Quiet DEF Grows, endings, withdrawals
<1>4. CASE ReleaseReservation(p)
  <2> SUFFICES ASSUME /\ pc[p] = "release" /\ UNCHANGED <<ready, claim, endings, withdrawals, gens>>
                      /\ \/ plan[p].kind = "cancel" /\ tombs' = tombs \ OwnTomb(p)
                         \/ UNCHANGED tombs
               PROVE  Kept'
    BY <1>4 DEF ReleaseReservation, counts
  <2>1. plan[p].kind = "cancel" => plan[p].rec.gen \in decided
    BY DEF Judgement, Concluding, Tail
  <2>2. \A t \in OwnTomb(p) : t.rec.gen = plan[p].rec.gen
    BY DEF OwnTomb, SameClaim
  <2>3. \A g \in Gens : (g \in {ready.gen, claim.gen} \/ \E t \in tombs : t.rec.gen = g) => Accounted(g)'
    BY <2>1, <2>2 DEF Accounted, withdrawals
  <2> QED BY <2>3, NoEnding
<1>5. CASE PublishTail(p) \/ PublishCut(p)
  <2> SUFFICES ASSUME pc[p] = "publish" /\ UNCHANGED <<claim, archive, replaced, withdrawals, gens>>
               PROVE  Kept'
    BY <1>5 DEF PublishTail, PublishCut, counts
  <2>1. /\ claim = NoClaim
        /\ \E t \in tombs : tombs = {t} /\ OwnTomb(p) = {t} /\ SameClaim(t.rec, plan[p].rec)
    BY OwnMark DEF Tail
  <2>2. PICK b : PublishDestination(p, b)
    <3>1. OwnTomb(p) # {}
      BY <2>1
    <3> QED BY <1>5, <3>1 DEF PublishTail, PublishCut
  <2>3. Grows
    BY <2>2, PublishedKeeps DEF Grows, withdrawals
  <2>4. \A t \in tombs : t.rec.gen = plan[p].rec.gen
    BY <2>1 DEF SameClaim
  <2>5. ASSUME NEW g \in Gens,
               g \in {ready.gen, claim.gen, done, failed} \/ \E t \in tombs : t.rec.gen = g
        PROVE  Accounted(g)'
    <3>1. g # 0
      BY GensAre
    <3>2. g \in {ready'.gen, done', failed'} \union retired' \union supers'
      BY <2>1, <2>2, <2>4, <2>5, <3>1, PublishedKeeps
    <3> QED BY <3>2 DEF Accounted
  <2> QED BY <2>3, <2>5, Shifts
<1>6. CASE PublishFails(p)
  <2> SUFFICES ASSUME /\ UNCHANGED <<ready, endings, withdrawals, gens>> /\ pc[p] = "publish"
                      /\ \/ UNCHANGED <<claim, tombs>>
                         \/ claim = NoClaim /\ \E t \in OwnTomb(p) : claim' = t.rec /\ tombs' = tombs \ {t}
               PROVE  Kept'
    BY <1>6 DEF PublishFails
  <2>1. \A g \in Gens : (g \in {ready.gen, claim.gen} \/ \E t \in tombs : t.rec.gen = g) => Accounted(g)'
    <3>1. CASE UNCHANGED <<claim, tombs>>
      BY <3>1 DEF Accounted
    <3>2. ASSUME claim = NoClaim, NEW t \in OwnTomb(p), claim' = t.rec, tombs' = tombs \ {t}
          PROVE  \A g \in Gens : (g \in {ready.gen, claim.gen} \/ \E u \in tombs : u.rec.gen = g) => Accounted(g)'
      BY <3>2, GensAre DEF Accounted, OwnTomb
    <3> QED BY <3>1, <3>2
  <2> QED BY <2>1, NoEnding
<1> QED BY <1>1, <1>2, <1>3, <1>4, <1>5, <1>6 DEF Committing

\* What a mark that is dropped stood for has an ending, waits again or is
\* superseded now.
LEMMA RetiredKeeps ==
    ASSUME Solo, Safe, NEW t \in tombs, RetireTomb(t)
    PROVE  /\ Grows /\ UNCHANGED <<ready, claim, gens>> /\ tombs' = tombs \ {t}
           /\ \A h \in {done, failed} : h # 0 => h \in {done', failed'} \union retired'
           /\ Accounted(t.rec.gen)'
<1>1. /\ claim = NoClaim /\ t.rec.gen \in 1..gens /\ gens \in Nat /\ Ledger
  BY DEF Solo, OneFile, Real, Safe, Shape
<1>2. /\ UNCHANGED <<ready, claim, archive, replaced, marker, decided, gens>> /\ tombs' = tombs \ {t}
      /\ retired' = retired \union ({done, failed} \ {0, done', failed'})
      /\ supers' = IF ~ TombCovered(t.rec) /\ OnlyReadyLive /\ ready.gen > t.rec.gen
                   THEN supers \union {t.rec.gen} ELSE supers
      /\ TombCovered(t.rec) \/ (KeyIsLive /\ ~ (OnlyReadyLive /\ OlderWaits(t.rec)))
  BY DEF RetireTomb, withdrawals, counts
<1>3. Grows
  BY <1>2 DEF Grows
<1>4. \A h \in {done, failed} : h # 0 => h \in {done', failed'} \union retired'
  BY <1>2
<1>5. Accounted(t.rec.gen)'
  <2>1. CASE t.rec.gen \in {done, failed} \union decided \union supers
    <3>1. t.rec.gen \in {done', failed'} \union decided' \union supers' \union retired'
      BY <1>1, <1>2, <1>3, <1>4, <2>1, SMT DEF Grows
    <3> QED BY <3>1 DEF Accounted
  <2>2. CASE ArchivedEnding(t.rec.gen)
    <3>1. ArchivedEnding(t.rec.gen)'
      BY <1>2, <2>2 DEF ArchivedEnding
    <3> QED BY <3>1 DEF Accounted
  <2>3. CASE ~ TombCovered(t.rec)
    <3>1. ready # NoRow /\ OnlyReadyLive /\ ~ (ready.gen < t.rec.gen) /\ ready.gen \in 1..gens
      BY <1>1, <1>2, <2>3 DEF KeyIsLive, OnlyReadyLive, OlderWaits, Solo, Real
    <3>2. CASE ready.gen > t.rec.gen
      <4>1. t.rec.gen \in supers'
        BY <1>2, <2>3, <3>1, <3>2
      <4> QED BY <4>1 DEF Accounted
    <3>3. CASE ~ (ready.gen > t.rec.gen)
      <4>1. ready.gen = t.rec.gen
        BY <1>1, <3>1, <3>3, SMT
      <4> QED BY <1>2, <4>1 DEF Accounted
    <3> QED BY <3>2, <3>3
  <2> QED BY <1>1, <2>1, <2>2, <2>3, CoveredIsDecided DEF TombCovered, TerminalCovers
<1> QED BY <1>2, <1>3, <1>4, <1>5

LEMMA KeptReaping == ASSUME Solo, Safe, Kept, Reaping PROVE Kept'
<1>1. Ledger /\ NoClaim.gen = 0
  BY DEF Safe, NoClaim, ClaimRec
<1>2. CASE ReapTerminal
  <2>1. UNCHANGED <<ready, tombs, endings, withdrawals, gens>> /\ claim.gen \in {done, failed}
    BY <1>2 DEF ReapTerminal, counts, TerminalCovers
  <2>2. \A g \in Gens : (g \in {ready.gen, claim.gen} \/ \E t \in tombs : t.rec.gen = g) => Accounted(g)'
    BY <2>1 DEF Accounted, endings
  <2> QED BY <2>1, <2>2, NoEnding
<1>3. CASE ReapWithdrawn \/ ReapUnstarted \/ SweepWidowedLease
  <2>1. UNCHANGED <<ready, claim, tombs, endings, withdrawals, gens>>
    BY <1>3 DEF ReapWithdrawn, ReapUnstarted, SweepWidowedLease, rows, counts
  <2> QED BY <2>1, Quiet DEF Grows, endings, withdrawals
<1>4. CASE ReapExpired
  <2>1. UNCHANGED <<ready, claim, tombs, done, failed, supers, retired, replaced, withdrawals, gens>>
    BY <1>4 DEF ReapExpired, rows, counts
  <2>2. \E h, n, d : archive' = Archived(h, n, d)
    BY <1>4 DEF ReapExpired
  <2> QED BY <2>1, <2>2, Quiet DEF Grows, withdrawals
<1>5. ASSUME NEW t \in tombs, RestoreTomb(t) PROVE Kept'
  <2>1. /\ UNCHANGED <<ready, endings, withdrawals, gens>> /\ claim' = t.rec /\ tombs' = tombs \ {t}
        /\ claim = NoClaim
    BY <1>5 DEF RestoreTomb, KeyIsLive, counts
  <2>2. \A g \in Gens : (g \in {ready.gen, claim.gen} \/ \E u \in tombs : u.rec.gen = g) => Accounted(g)'
    BY <1>1, <2>1, GensAre DEF Accounted
  <2> QED BY <2>1, <2>2, NoEnding
<1>6. ASSUME NEW t \in tombs, RetireTomb(t) PROVE Kept'
  <2>1. ASSUME NEW g \in Gens,
               g \in {ready.gen, claim.gen, done, failed} \/ \E u \in tombs : u.rec.gen = g
        PROVE  Accounted(g)'
    <3>1. CASE g \in {ready.gen, claim.gen, done, failed}
      <4>1. g \in {ready'.gen, claim'.gen, done', failed'} \union retired'
        BY <1>6, <3>1, RetiredKeeps, GensAre
      <4> QED BY <4>1 DEF Accounted
    <3>2. ASSUME NEW u \in tombs, u.rec.gen = g PROVE Accounted(g)'
      <4>1. CASE u = t
        BY <1>6, <3>2, <4>1, RetiredKeeps
      <4>2. CASE u # t
        BY <1>6, <3>2, <4>2, RetiredKeeps DEF Accounted
      <4> QED BY <4>1, <4>2
    <3> QED BY <2>1, <3>1, <3>2
  <2> QED BY <1>6, <2>1, RetiredKeeps, Shifts
<1> QED BY <1>2, <1>3, <1>4, <1>5, <1>6 DEF Reaping

LEMMA KeptStep == ASSUME Prompt PROVE Solo /\ Safe /\ Kept /\ [Next]_vars => Kept'
<1> SUFFICES ASSUME Solo, Safe, Kept, [Next]_vars PROVE Kept'
  OBVIOUS
<1>1. CASE Publish
  <2> SUFFICES ASSUME /\ UNCHANGED <<claim, tombs, done, failed, archive, supers, retired>>
                      /\ gens' = gens + 1 /\ gens < MaxGens /\ ready' = Row(gens + 1, 0)
                      /\ replaced' = replaced \union ({ready.gen} \ {0})
               PROVE  Kept'
    BY <1>1 DEF Publish
  <2>1. Grows
    BY <1>1, Decides DEF Grows, Safe
  <2>2. Archive' /\ gens \in Nat
    BY <2>1, ArchiveStays, QueueAssumption, SMT DEF Solo, Shape, Kept
  <2>3. ASSUME NEW g \in 1..gens PROVE Accounted(g)'
    <3> SUFFICES ASSUME Accounted(g) /\ g \in Gens /\ g # 0
                 PROVE  Accounted(g)'
      BY <2>2, QueueAssumption, SMT DEF Kept, NothingLost, Gens
    <3>1. g \in {ready.gen, claim.gen, done, failed} => g \in {claim'.gen, done', failed'} \union replaced'
      OBVIOUS
    <3>2. g \in {ready.gen, claim.gen, done, failed} => Accounted(g)'
      BY <3>1 DEF Accounted
    <3>3. \A t \in tombs : t.rec.gen = g => Accounted(g)'
      BY DEF Accounted
    <3>4. ArchivedEnding(g) => ArchivedEnding(g)'
      BY <2>1, EndingStays DEF Kept, Grows
    <3> QED BY <2>1, <3>2, <3>3, <3>4, Carry DEF Grows
  <2>4. \A g : g = gens + 1 => Accounted(g)'
    BY DEF Accounted, Row
  <2>5. \A g \in 1..gens' : g \in 1..gens \/ g = gens + 1
    BY <2>2, SMT
  <2> QED BY <2>2, <2>3, <2>4, <2>5 DEF Kept, NothingLost
<1>2. CASE Withdraw
  <2> SUFFICES ASSUME /\ UNCHANGED <<claim, tombs, endings, gens>>
                      /\ ready' = IF ready.gen \in decided' THEN NoRow ELSE ready
               PROVE  Kept'
    BY <1>2 DEF Withdraw, counts
  <2>1. Grows
    BY <1>2, Decides DEF Grows, Safe, endings
  <2>2. \A g : (g \in {ready.gen, claim.gen, done, failed} \/ \E t \in tombs : t.rec.gen = g)
                  => Accounted(g)'
    BY DEF Accounted, endings
  <2> QED BY <2>1, <2>2, Shifts DEF endings
<1>3. CASE \E w \in Workers : Claiming(w) \/ Running(w) \/ Finishing(w)
  BY <1>3, KeptClaiming, KeptAtWork
<1>4. CASE \E p \in Procs : Committing(p) \/ Crash(p)
  BY <1>4, KeptCommitting
<1>5. CASE Reaping
  BY <1>5, KeptReaping
<1>6. CASE UNCHANGED vars
  <2>1. UNCHANGED <<ready, claim, tombs, endings, withdrawals, gens>>
    BY <1>6 DEF vars, rows, counts
  <2> QED BY <2>1, Quiet DEF Grows, endings, withdrawals
<1> QED BY <1>1, <1>2, <1>3, <1>4, <1>5, <1>6 DEF Next

LEMMA KeptInit == Init => Kept
BY QueueAssumption, SMT DEF Init, Kept, Archive, NothingLost

LEMMA KeptAlways == ASSUME Prompt PROVE Spec => []Kept
BY OneAtWork, SafeAlways, KeptInit, KeptStep, PTL DEF Spec

\* No generation is lost: every publication waits, is claimed, is marked by a
\* conclusion in progress or has an ending a waiter can read, whatever crashes,
\* write failures and cancellations it meets (_claim_pass, _commit_claim,
\* sweep_finish_tombstones).
THEOREM NoneIsLost == ASSUME Prompt PROVE Spec => []NothingLost
<1>1. Kept => NothingLost
  BY DEF Kept
<1> QED BY <1>1, KeptAlways, PTL

-----------------------------------------------------------------------------
(* Generations come in order, and no attempt is started twice.             *)

Below(P, g) == \A h \in P : h < g
UpTo(L, g) == \A h \in Gens : L[h] > 0 => h <= g
NoEnd(A, g) == \A m \in Attempts : A[<<g, m>>] \notin {"done", "failed"}

\* A row (g, a) that waits: none of its attempts ended it, none is uncounted.
Fresh(L, A, g, a) == L[g] <= a /\ NoEnd(A, g)

\* A claim (g, a): only the attempt in hand may have ended its generation, and a
\* start that the row does not count yet is one that will be charged.
InHand(L, A, g, a, seen) ==
    /\ \A m \in Attempts : A[<<g, m>>] \in {"done", "failed"} => m = a + 1
    /\ L[g] <= a \/ (L[g] <= a + 1 /\ (seen \/ A[<<g, a + 1>>] # "none"))

\* Generations with a terminal or a supersession.
Past == ({done, failed} \ {0}) \union supers \union retired

Filed ==
    /\ {done, failed} \subseteq 0..gens
    /\ decided \union supers \union retired \subseteq 1..gens
    /\ \A g \in Gens, n \in Attempts :
         /\ archive[<<g, n>>] \in Dispositions \union {"none"}
         /\ archive[<<g, n>>] # "none" => g <= gens
         /\ archive[<<g, n>>] = "requeued" => n < MaxAttempts
         /\ archive[<<g, n>>] = "withdrawn" => g \in decided

Told ==
    /\ launched \in [Gens -> Nat]
    /\ \A g \in Gens : launched[g] > 0 => g <= gens

Waiting ==
    ready # NoRow =>
        /\ ready.att \in Charged
        /\ Below(Past, ready.gen) /\ UpTo(launched, ready.gen)
        /\ Fresh(launched, archive, ready.gen, ready.att)

Claimed ==
    claim # NoClaim =>
        /\ claim.att \in Charged
        /\ Below(Past, claim.gen) /\ UpTo(launched, claim.gen)
        /\ ready # NoRow => claim.gen < ready.gen
        /\ InHand(launched, archive, claim.gen, claim.att, lease # NoClaim \/ claim.gen \in decided)

Marked ==
    \A t \in tombs :
        /\ t.rec.att \in Charged /\ t.rec.gen \notin retired
        /\ Below(Past \ {t.rec.gen}, t.rec.gen) /\ UpTo(launched, t.rec.gen)
        /\ ready # NoRow => t.rec.gen <= ready.gen
        /\ InHand(launched, archive, t.rec.gen, t.rec.att, t.rec.gen \in decided)

Stands == Filed /\ Told /\ Waiting /\ Claimed /\ Marked

\* Before the payload is started.
Early == {"renamed", "committed", "persisted", "leased"}

Planned(L, A, q) ==
    \/ q.kind \in {"defer", "unstarted"} /\ q.disp = "requeued" /\ Fresh(L, A, q.rec.gen, q.rec.att)
    \/ q.kind \in {"finish", "expire"} /\ q.disp \in {"done", "failed", "requeued"}
       /\ A[<<q.rec.gen, q.rec.att + 1>>] = q.disp
    \/ q.kind = "cancel"

\* What the process at work has read still stands.
Doing(p) ==
    /\ p \in Workers /\ pc[p] \in Early => Fresh(launched, archive, snap[p].gen, snap[p].att)
    /\ p \in Workers /\ pc[p] \in {"read", "judged"} /\ status[p] = "withdrawn" =>
         snap[p].gen \in decided
    /\ pc[p] \in Concluding => Planned(launched, archive, plan[p])
    /\ pc[p] = "publish" => plan[p].kind # "cancel"
    /\ pc[p] \in Tail =>
         /\ Below(Past, plan[p].rec.gen)
         /\ ready # NoRow => plan[p].rec.gen < ready.gen

Reports == status = [w \in Workers |-> status[w]]

Orderly == Stands /\ \A p \in Procs : Doing(p)

-----------------------------------------------------------------------------
\* Rows go, none comes, and no attempt is recorded.
LEMMA Shrinks ==
    ASSUME Stands, UNCHANGED <<archive, launched, done, failed, supers, retired, gens>>,
           decided \subseteq decided', decided' \subseteq 1..gens,
           ready' \in {ready, NoRow}, claim' \in {claim, NoClaim}, tombs' \subseteq tombs,
           claim' = NoClaim \/ lease' # NoClaim \/ lease' = lease
    PROVE  Stands'
<1> SUFFICES ASSUME Past' = Past
             PROVE  Stands'
  BY DEF Past
<1>1. Filed'
  BY DEF Stands, Filed
<1>2. Told'
  BY DEF Stands, Told
<1>3. Waiting'
  BY DEF Stands, Waiting
<1>4. Claimed'
  BY DEF Stands, Claimed, InHand
<1>5. Marked'
  BY DEF Stands, Marked, InHand
<1> QED BY <1>1, <1>2, <1>3, <1>4, <1>5 DEF Stands

\* One process moves and the others are idle.
LEMMA DoesMove ==
    ASSUME Solo, NEW p \in Procs, NEW step, pc' = At(p, step), pc[p] # "idle" \/ AllIdle,
           Stands', Doing(p)'
    PROVE  Orderly'
<1>1. \A q \in Procs \ {p} : pc'[q] = "idle"
  BY Alone DEF At, AllIdle, Solo, Shape
<1>2. ASSUME NEW q \in Procs PROVE Doing(q)'
  BY <1>1, <1>2, SMT DEF Doing, Early, Concluding, Tail
<1> QED BY <1>2 DEF Orderly

LEMMA DoesRest ==
    ASSUME Solo, NEW p \in Procs, pc[p] # "idle", Rest(p), Stands' PROVE Orderly'
<1>1. pc' = At(p, "idle") /\ pc'[p] = "idle"
  BY DEF Rest, At, Solo, Shape
<1>2. Doing(p)'
  BY <1>1 DEF Doing, Early, Concluding, Tail
<1> QED BY <1>1, <1>2, DoesMove

\* A step that moves no process.
LEMMA DoesStay ==
    ASSUME Orderly, UNCHANGED procs, Stands',
           AllIdle \/ ( /\ UNCHANGED <<archive, launched, done, failed, supers, retired>>
                        /\ decided \subseteq decided'
                        /\ ready' # NoRow /\ ready' # ready =>
                             \A p \in Procs : pc[p] \in Tail => plan[p].rec.gen < ready'.gen )
    PROVE  Orderly'
<1>1. UNCHANGED <<pc, snap, plan, status>>
  BY DEF procs
<1>2. CASE AllIdle
  <2>1. \A p \in Procs : Doing(p)'
    BY <1>1, <1>2 DEF AllIdle, Doing, Early, Concluding, Tail
  <2> QED BY <2>1 DEF Orderly
<1>3. CASE ~ AllIdle
  <2>1. Past' = Past
    BY <1>3 DEF Past
  <2>2. ASSUME NEW p \in Procs PROVE Doing(p)'
    BY <1>1, <1>3, <2>1, <2>2 DEF Orderly, Doing
  <2> QED BY <2>2 DEF Orderly
<1> QED BY <1>2, <1>3

\* A process that goes on to a later phase.
LEMMA DoesGo ==
    ASSUME Solo, Orderly, NEW p \in Procs, NEW step, pc[p] # "idle", pc' = At(p, step), Stands',
           UNCHANGED <<snap, plan, launched, archive, ready, done, failed, supers, retired>>,
           step \in {"read", "judged"} /\ p \in Workers /\ status'[p] = "withdrawn" => snap[p].gen \in decided',
           step \in Early => pc[p] = "persisted" /\ step = "leased",
           step \in Concluding => pc[p] \in Tail /\ step \in Tail,
           step = "publish" => plan[p].kind # "cancel"
    PROVE  Orderly'
<1>1. pc'[p] = step /\ Past' = Past
  BY DEF At, Solo, Shape, Past
<1>2. Doing(p)'
  BY <1>1 DEF Orderly, Doing, Early, Concluding, Tail
<1> QED BY <1>1, <1>2, DoesMove

\* A process that starts to conclude a claim.
LEMMA DoesCommit ==
    ASSUME Solo, NEW p \in Procs, NEW q, NEW l, Commit(p, q, l), pc[p] # "idle" \/ AllIdle, Stands',
           Planned(launched', archive', q)
    PROVE  Orderly'
<1>1. pc' = At(p, "entomb") /\ pc'[p] = "entomb" /\ plan'[p] = q
  BY DEF Commit, At, Solo, Shape
<1>2. Doing(p)'
  BY <1>1 DEF Doing, Early, Tail
<1> QED BY <1>1, <1>2, DoesMove
-----------------------------------------------------------------------------
(* Claiming.                                                               *)

LEMMA FreshInHand ==
    ASSUME NEW L, NEW A, NEW g, NEW a, NEW seen, Fresh(L, A, g, a) PROVE InHand(L, A, g, a, seen)
BY DEF Fresh, NoEnd, InHand

\* A fresh claim is rewritten, or given back as the row it was.
LEMMA FreshClaim ==
    ASSUME Solo, Stands, claim # NoClaim, Fresh(launched, archive, claim.gen, claim.att),
           UNCHANGED <<archive, launched, done, failed, supers, retired, decided, gens, tombs>>,
           \/ ready' = ready /\ claim'.gen = claim.gen /\ claim'.att = claim.att
           \/ ready' = Row(claim.gen, claim.att) /\ claim' = NoClaim /\ ready = NoRow
    PROVE  Stands'
<1> SUFFICES ASSUME Past' = Past /\ tombs = {}
             PROVE  Stands'
  BY DEF Past, Solo, OneFile
<1>1. Filed' /\ Told'
  BY DEF Stands, Filed, Told
<1>2. Marked'
  BY DEF Marked
<1>3. CASE ready' = ready /\ claim'.gen = claim.gen /\ claim'.att = claim.att
  <2>1. Waiting'
    BY <1>3 DEF Stands, Waiting
  <2>2. InHand(launched, archive, claim.gen, claim.att, (lease # NoClaim \/ claim.gen \in decided)')
    BY FreshInHand
  <2>3. Claimed'
    BY <1>3, <2>2 DEF Stands, Claimed
  <2> QED BY <1>1, <1>2, <2>1, <2>3 DEF Stands
<1>4. CASE ready' = Row(claim.gen, claim.att) /\ claim' = NoClaim /\ ready = NoRow
  <2>1. ready'.gen = claim.gen /\ ready'.att = claim.att
    BY <1>4 DEF Row
  <2>2. Waiting'
    BY <2>1 DEF Stands, Claimed, Waiting
  <2>3. Claimed'
    BY <1>4 DEF Claimed
  <2> QED BY <1>1, <1>2, <2>2, <2>3 DEF Stands
<1> QED BY <1>3, <1>4

LEMMA OrderClaiming == ASSUME Solo, Orderly, NEW w \in Workers, Claiming(w) PROVE Orderly'
<1> SUFFICES ASSUME /\ w \in Procs /\ AtWork(w) /\ Stands /\ Doing(w)
                    /\ decided \subseteq 1..gens
             PROVE  Orderly'
  BY WorkersAre DEF Solo, Orderly, Stands, Filed, Told
<1>1. CASE DropWithdrawnReady(w)
  <2>1. /\ ready' = NoRow
        /\ UNCHANGED <<claim, tombs, lease, endings, withdrawals, procs, counts>>
    BY <1>1 DEF DropWithdrawnReady
  <2>2. Stands'
    BY <2>1, Shrinks DEF endings, withdrawals, counts
  <2> QED BY <2>1, <2>2, DoesStay DEF endings, withdrawals, counts
<1>2. CASE ClaimRename(w)
  <2> SUFFICES ASSUME /\ claim = NoClaim /\ tombs = {} /\ ready # NoRow
                      /\ claim' = Raw(ready, HostOf[w]) /\ ready' = NoRow
                      /\ snap' = [snap EXCEPT ![w] = Raw(ready, HostOf[w])] /\ pc' = At(w, "renamed")
                      /\ UNCHANGED <<tombs, lease, endings, withdrawals, counts>>
               PROVE  Orderly'
    BY <1>2 DEF ClaimRename
  <2>1. /\ Raw(ready, HostOf[w]).gen = ready.gen /\ Raw(ready, HostOf[w]).att = ready.att
        /\ snap'[w] = Raw(ready, HostOf[w]) /\ pc'[w] = "renamed"
    BY DEF Raw, ClaimRec, Solo, Shape, At
  <2>2. Past' = Past /\ UNCHANGED <<archive, launched, decided, gens>>
    BY DEF Past, endings, withdrawals, counts
  <2>3. Filed' /\ Told'
    BY <2>2 DEF Stands, Filed, Told, endings
  <2>4. Fresh(launched, archive, ready.gen, ready.att)
    BY DEF Stands, Waiting
  <2>5. InHand(launched, archive, ready.gen, ready.att, (lease # NoClaim \/ claim.gen \in decided)')
    BY <2>4, FreshInHand
  <2>6. Claimed'
    BY <2>1, <2>2, <2>5 DEF Stands, Waiting, Claimed
  <2>7. Waiting' /\ Marked'
    BY DEF Waiting, Marked
  <2>8. Doing(w)'
    BY <2>1, <2>2, <2>4 DEF Doing, Early, Concluding, Tail
  <2> QED BY <2>3, <2>6, <2>7, <2>8, ClaimsAlone, DoesMove DEF Stands
<1>3. CASE ClaimCommit(w)
  <2> SUFFICES ASSUME /\ pc[w] = "renamed" /\ claims' = claims + 1 /\ pc' = At(w, "committed")
                      /\ UNCHANGED <<ready, claim, tombs, lease, endings, withdrawals, launched, gens, snap>>
               PROVE  Orderly'
    BY <1>3 DEF ClaimCommit, Go
  <2>1. Stands'
    BY Shrinks DEF endings, withdrawals
  <2>2. pc'[w] = "committed" /\ archive' = archive
    BY DEF At, Solo, Shape, endings
  <2>3. Doing(w)'
    BY <2>2 DEF Doing, Early, Concluding, Tail
  <2> QED BY <2>1, <2>3, DoesMove
<1>4. CASE ClaimRefused(w)
  <2> SUFFICES ASSUME /\ pc[w] \in {"renamed", "committed"} /\ LinkReady(claim) /\ Rest(w)
                      /\ UNCHANGED <<tombs, endings, withdrawals, launched, gens, claims>>
               PROVE  Orderly'
    BY <1>4 DEF ClaimRefused
  <2>1. claim # NoClaim /\ claim = snap[w] /\ Fresh(launched, archive, claim.gen, claim.att)
    BY DEF AtWork, Holding, Doing, Early
  <2>2. Stands'
    BY <2>1, FreshClaim DEF LinkReady, endings, withdrawals
  <2> QED BY <2>2, DoesRest
<1>5. CASE ClaimPersist(w)
  <2> SUFFICES ASSUME pc[w] = "committed" /\ UNCHANGED <<ready, tombs, lease, endings, withdrawals, counts>>
               PROVE  Orderly'
    BY <1>5 DEF ClaimPersist
  <2>1. claim # NoClaim /\ claim = snap[w] /\ Fresh(launched, archive, claim.gen, claim.att)
    BY DEF AtWork, Holding, Doing, Early
  <2>2. CASE claim' = NoClaim /\ Rest(w)
    <3>1. Stands'
      BY <2>2, Shrinks DEF endings, withdrawals, counts
    <3> QED BY <2>2, <3>1, DoesRest
  <2>3. CASE ~ (claim' = NoClaim /\ Rest(w))
    <3>1. /\ claim' = ClaimRec(snap[w].gen, snap[w].att, claims, w, HostOf[w])
          /\ snap' = [snap EXCEPT ![w] = claim'] /\ pc' = At(w, "persisted")
      BY <1>5, <2>3 DEF ClaimPersist
    <3>2. /\ claim'.gen = claim.gen /\ claim'.att = claim.att 
          /\ snap'[w] = claim' /\ pc'[w] = "persisted"
      BY <2>1, <3>1 DEF ClaimRec, At, Solo, Shape
    <3>3. Stands'
      BY <2>1, <3>2, FreshClaim DEF endings, withdrawals, counts
    <3>4. UNCHANGED <<launched, archive>>
      BY DEF endings, counts
    <3>5. Doing(w)'
      BY <2>1, <3>2, <3>4 DEF Doing, Concluding, Tail
    <3> QED BY <3>1, <3>3, <3>5, DoesMove
  <2> QED BY <2>2, <2>3
<1>6. CASE ClaimLease(w)
  <2> SUFFICES ASSUME /\ pc[w] = "persisted" /\ lease' = claim /\ pc' = At(w, "leased")
                      /\ UNCHANGED <<ready, claim, tombs, endings, withdrawals, snap, plan, counts>>
               PROVE  Orderly'
    BY <1>6 DEF ClaimLease
  <2>1. claim # NoClaim
    BY DEF AtWork, Holding
  <2>2. Stands'
    BY <2>1, Shrinks DEF endings, withdrawals, counts
  <2> QED BY <2>2, DoesGo DEF endings, counts, Concluding, Tail
<1>7. CASE ClaimUnwound(w)
  <2> SUFFICES ASSUME /\ pc[w] = "persisted" /\ Rest(w)
                      /\ LinkReady(Raw(snap[w], HostOf[w])) \/ UNCHANGED <<ready, claim>>
                      /\ UNCHANGED <<tombs, endings, withdrawals, launched, gens, claims>>
               PROVE  Orderly'
    BY <1>7 DEF ClaimUnwound
  <2>1. /\ claim # NoClaim /\ claim = snap[w] /\ Fresh(launched, archive, claim.gen, claim.att)
        /\ claim.gen \in 1..gens /\ gens \in Nat
    BY DEF AtWork, Holding, Doing, Early, Solo, Real, Shape
  <2>2. /\ Raw(snap[w], HostOf[w]).gen = claim.gen /\ Raw(snap[w], HostOf[w]).att = claim.att
        /\ Raw(snap[w], HostOf[w]) # NoClaim
    BY <2>1, SMT DEF Raw, ClaimRec, NoClaim
  <2>3. \/ ready' = ready /\ claim'.gen = claim.gen /\ claim'.att = claim.att
        \/ ready' = Row(claim.gen, claim.att) /\ claim' = NoClaim /\ ready = NoRow
    BY <2>2 DEF LinkReady
  <2>4. Stands'
    BY <2>1, <2>3, FreshClaim DEF endings, withdrawals
  <2> QED BY <2>4, DoesRest
<1> QED BY <1>1, <1>2, <1>3, <1>4, <1>5, <1>6, <1>7 DEF Claiming
-----------------------------------------------------------------------------
(* Running and finishing.                                                  *)

\* The payload of a fresh claim is started.
LEMMA StartStands ==
    ASSUME Solo, Kept, Stands, NEW w \in Workers, pc[w] = "leased", AtWork(w), Doing(w),
           SameClaim(lease, snap[w]),
           launched' = [launched EXCEPT ![snap[w].gen] = @ + 1],
           UNCHANGED <<rows, endings, withdrawals, gens>>
    PROVE  Stands'
<1> SUFFICES ASSUME /\ claim # NoClaim /\ claim = snap[w] /\ tombs = {} /\ claim.gen \in 1..gens /\ gens \in Nat
                    /\ Fresh(launched, archive, claim.gen, claim.att)
             PROVE  Stands'
  BY DEF AtWork, Holding, Solo, OneFile, Real, Shape, Doing, Early
<1>1. lease # NoClaim
  BY SMT DEF SameClaim, NoClaim, ClaimRec
<1>2. /\ UNCHANGED <<ready, claim, tombs, lease, done, failed, archive, supers, retired, decided>>
      /\ Past' = Past
  BY DEF rows, endings, withdrawals, Past
<1>3. claim.gen \in Gens /\ launched \in [Gens -> Nat]
  BY QueueAssumption, SMT DEF Kept, Archive, Gens, Stands, Told
<1>4. /\ launched'[claim.gen] = launched[claim.gen] + 1 /\ launched' \in [Gens -> Nat]
      /\ \A g \in Gens : g # claim.gen => launched'[g] = launched[g]
  BY <1>3, SMT
<1>5. Filed' /\ Told'
  BY <1>2, <1>4, SMT DEF Stands, Filed, Told
<1>6. Waiting'
  <2> SUFFICES ASSUME ready # NoRow
               PROVE  /\ ready.att \in Charged /\ Below(Past, ready.gen) /\ UpTo(launched', ready.gen)
                      /\ Fresh(launched', archive, ready.gen, ready.att)
    BY <1>2 DEF Waiting
  <2>1. claim.gen < ready.gen /\ ready.gen \in 1..gens /\ ready.gen \in Gens /\ Waiting
    BY QueueAssumption, SMT DEF Stands, Claimed, Solo, Real, Kept, Archive, Gens
  <2>2. launched'[ready.gen] = launched[ready.gen]
    BY <1>4, <2>1, SMT
  <2>3. UpTo(launched', ready.gen)
    BY <1>4, <2>1, SMT DEF Waiting, UpTo
  <2> QED BY <2>1, <2>2, <2>3 DEF Waiting, Fresh
<1>7. Claimed'
  <2> SUFFICES ASSUME Claimed /\ claim.att \in Nat
               PROVE  Claimed'
    BY QueueAssumption, SMT DEF Stands, Claimed, Charged
  <2>1. UpTo(launched', claim.gen)
    BY <1>4, SMT DEF Claimed, UpTo
  <2>2. InHand(launched', archive, claim.gen, claim.att, TRUE)
    <3>1. launched'[claim.gen] <= claim.att + 1
      BY <1>3, <1>4, SMT DEF Fresh
    <3> QED BY <3>1 DEF Fresh, NoEnd, InHand
  <2> QED BY <1>1, <1>2, <2>1, <2>2 DEF Claimed
<1>8. Marked'
  BY <1>2 DEF Marked
<1> QED BY <1>5, <1>6, <1>7, <1>8 DEF Stands

LEMMA OrderRunning == ASSUME Solo, Safe, Kept, Reports, Orderly, NEW w \in Workers, Running(w) PROVE Orderly'
<1> SUFFICES ASSUME /\ w \in Procs /\ AtWork(w) /\ Stands /\ Doing(w) /\ Ledger /\ Custody(w)
                    /\ decided \subseteq 1..gens
             PROVE  Orderly'
  BY WorkersAre DEF Solo, Orderly, Stands, Filed, Told, Safe
<1>1. CASE Launch(w)
  <2> SUFFICES ASSUME pc[w] = "leased" /\ UNCHANGED <<rows, endings, withdrawals, snap, plan, gens, claims>>
               PROVE  Orderly'
    BY <1>1 DEF Launch
  <2>1. CASE Covered(snap[w])
    <3>1. pc' = At(w, "read") /\ UNCHANGED launched /\ snap[w].gen \in decided
      BY <1>1, <2>1, CoveredIsDecided DEF Launch
    <3>2. Stands'
      BY <3>1, Shrinks DEF rows, endings, withdrawals
    <3> QED BY <3>1, <3>2, DoesGo DEF rows, endings, withdrawals, Early, Concluding, Tail
  <2>2. CASE ~ Covered(snap[w])
    <3> SUFFICES ASSUME /\ pc' = At(w, "running") /\ pc'[w] = "running"
                        /\ launched' = [launched EXCEPT ![snap[w].gen] = @ + 1]
                 PROVE  Orderly'
      BY <1>1, <2>2 DEF Launch, At, Solo, Shape
    <3>1. Stands'
      BY StartStands DEF Custody
    <3>2. Doing(w)'
      BY DEF Doing, Early, Concluding, Tail
    <3> QED BY <3>1, <3>2, DoesMove
  <2> QED BY <2>1, <2>2
<1>2. CASE DeferLaunch(w)
  <2> SUFFICES ASSUME /\ pc[w] = "leased" /\ UNCHANGED <<rows, endings, withdrawals, launched, gens, claims>>
                      /\ Commit(w, Plan("defer", snap[w], "requeued"), lock) \/ Rest(w)
               PROVE  Orderly'
    BY <1>2 DEF DeferLaunch
  <2>1. Stands'
    BY Shrinks DEF rows, endings, withdrawals
  <2>2. Planned(launched', archive', Plan("defer", snap[w], "requeued"))
    BY DEF Doing, Early, Planned, Plan, endings
  <2> QED BY <2>1, <2>2, DoesRest, DoesCommit
<1>3. CASE Heartbeat(w)
  <2> SUFFICES ASSUME /\ pc[w] = "running" /\ UNCHANGED <<ready, claim, tombs, endings, withdrawals, lock, snap, plan, counts>>
                      /\ \/ lease' = claim /\ UNCHANGED <<status, pc>>
                         \/ status' = [status EXCEPT ![w] = "failed"] /\ pc' = At(w, "read") /\ UNCHANGED lease
               PROVE  Orderly'
    BY <1>3 DEF Heartbeat
  <2>1. claim # NoClaim
    BY DEF AtWork, Holding
  <2>2. Stands'
    BY <2>1, Shrinks, SMT DEF endings, withdrawals, counts
  <2>3. CASE UNCHANGED <<status, pc>>
    BY <2>2, <2>3, DoesStay DEF procs, endings, withdrawals, counts
  <2>4. CASE status' = [status EXCEPT ![w] = "failed"] /\ pc' = At(w, "read")
    <3>1. status'[w] # "withdrawn"
      BY <2>4 DEF Reports
    <3> QED BY <2>2, <2>4, <3>1, DoesGo DEF endings, counts, Early, Concluding, Tail
  <2> QED BY <2>3, <2>4
<1>4. ASSUME NEW result, RunEnds(w, result) PROVE Orderly'
  <2> SUFFICES ASSUME /\ pc[w] = "running" /\ UNCHANGED <<rows, endings, withdrawals, snap, plan, counts>>
                      /\ pc' = At(w, "read") /\ status' = [status EXCEPT ![w] = result]
                      /\ result = "withdrawn" => snap[w].gen \in decided
               PROVE  Orderly'
    BY <1>4, CoveredIsDecided DEF RunEnds
  <2>1. Stands'
    BY Shrinks DEF rows, endings, withdrawals, counts
  <2>2. status'[w] = result
    BY DEF Reports
  <2> QED BY <2>1, <2>2, DoesGo DEF rows, endings, withdrawals, counts, Early, Concluding, Tail
<1> QED BY <1>1, <1>2, <1>3, <1>4 DEF Running

\* The attempt in hand is archived, unless its number was.
LEMMA AttemptStands ==
    ASSUME Solo, Kept, Stands, claim # NoClaim, NEW d \in Dispositions,
           d = "requeued" => claim.att + 1 < MaxAttempts,
           d = "withdrawn" => claim.gen \in decided,
           archive' = Archived(claim.gen, claim.att + 1, d),
           UNCHANGED <<rows, done, failed, supers, retired, withdrawals, launched, gens, claims>>
    PROVE  /\ Stands'
           /\ archive'[<<claim.gen, claim.att + 1>>] \in Dispositions
           /\ archive'[<<claim.gen, claim.att + 1>>] = "requeued" => claim.att + 1 < MaxAttempts
           /\ archive'[<<claim.gen, claim.att + 1>>] = "withdrawn" => claim.gen \in decided
<1> DEFINE g == claim.gen
           n == claim.att + 1
<1>1. /\ tombs = {} /\ g \in Gens /\ n \in Attempts /\ g <= gens
      /\ archive = [a \in Gens \X Attempts |-> archive[a]] /\ Filed
  BY QueueAssumption, SMT DEF Solo, OneFile, Real, Shape, Kept, Archive, Stands, Claimed, Charged, Gens, Attempts
<1>2. UNCHANGED <<ready, claim, tombs, lease, decided>> /\ Past' = Past
  BY DEF rows, withdrawals, Past
<1>3. /\ \A h \in Gens, m \in Attempts : <<h, m>> # <<g, n>> => archive'[<<h, m>>] = archive[<<h, m>>]
      /\ archive'[<<g, n>>] = IF archive[<<g, n>>] = "none" THEN d ELSE archive[<<g, n>>]
  <2> HIDE DEF g, n
  <2>1. CASE archive[<<g, n>>] = "none"
    <3>1. archive' = [archive EXCEPT ![<<g, n>>] = d]
      BY <2>1 DEF Archived, g, n
    <3> QED BY <1>1, <2>1, <3>1
  <2>2. CASE archive[<<g, n>>] # "none"
    <3>1. archive' = archive
      BY <2>2 DEF Archived, g, n
    <3> QED BY <2>2, <3>1
  <2> QED BY <2>1, <2>2
<1> HIDE DEF g, n
<1>4. /\ archive'[<<g, n>>] \in Dispositions
      /\ archive'[<<g, n>>] = "requeued" => n < MaxAttempts
      /\ archive'[<<g, n>>] = "withdrawn" => g \in decided
  BY <1>1, <1>3 DEF Filed, g, n
<1>5. Filed'
  <2>1. ASSUME NEW h \in Gens, NEW m \in Attempts
        PROVE  /\ archive'[<<h, m>>] \in Dispositions \union {"none"}
               /\ archive'[<<h, m>>] # "none" => h <= gens
               /\ archive'[<<h, m>>] = "requeued" => m < MaxAttempts
               /\ archive'[<<h, m>>] = "withdrawn" => h \in decided
    <3>1. CASE <<h, m>> = <<g, n>>
      BY <1>1, <1>4, <3>1
    <3>2. CASE <<h, m>> # <<g, n>>
      BY <1>1, <1>3, <3>2 DEF Filed
    <3> QED BY <3>1, <3>2
  <2> QED BY <1>1, <1>2, <2>1 DEF Filed
<1>6. Told' /\ Marked'
  BY <1>1, <1>2 DEF Stands, Told, Marked
<1>7. Waiting'
  <2> SUFFICES ASSUME ready # NoRow PROVE NoEnd(archive', ready.gen)
    BY <1>2 DEF Stands, Waiting, Fresh
  <2>1. ready.gen # g /\ ready.gen \in Gens /\ NoEnd(archive, ready.gen)
    BY QueueAssumption, SMT DEF g, Stands, Claimed, Waiting, Fresh, Solo, Real, Shape, Kept, Archive, Gens
  <2> QED BY <1>3, <2>1 DEF NoEnd
<1>8. Claimed'
  <2> SUFFICES ASSUME Claimed /\ InHand(launched, archive, g, claim.att, lease # NoClaim \/ g \in decided)
               PROVE  Claimed'
    BY DEF g, Stands, Claimed
  <2>1. \A m \in Attempts : archive'[<<g, m>>] \in {"done", "failed"} => m = n
    BY <1>1, <1>3 DEF InHand, n
  <2>2. archive'[<<g, n>>] # "none"
    BY <1>4 DEF Dispositions
  <2>3. InHand(launched', archive', g, claim.att, lease # NoClaim \/ g \in decided)
    BY <2>1, <2>2 DEF InHand, n
  <2> QED BY <1>2, <2>3 DEF Claimed, g
<1> QED BY <1>4, <1>5, <1>6, <1>7, <1>8 DEF Stands, g, n

LEMMA DispositionIs ==
    ASSUME NEW g, NEW r, NEW n \in Nat, NEW b
    PROVE  /\ Disposition(g, r, n, b) \in Dispositions
           /\ Disposition(g, r, n, b) = "requeued" => n < MaxAttempts
           /\ Disposition(g, r, n, b) = "withdrawn" => r = "withdrawn"
BY QueueAssumption, SMT DEF Disposition, Dispositions

LEMMA OrderFinishing ==
    ASSUME Solo, Safe, Kept, Orderly, NEW w \in Workers, Finishing(w) PROVE Orderly'
<1> SUFFICES ASSUME /\ w \in Procs /\ AtWork(w) /\ Stands /\ Doing(w) /\ Ledger /\ Judgement(w)
                    /\ decided \subseteq 1..gens
             PROVE  Orderly'
  BY WorkersAre DEF Solo, Orderly, Stands, Filed, Told, Safe
<1>1. CASE FinishReadsClaim(w)
  <2> SUFFICES ASSUME claim # NoClaim /\ SameClaim(claim, snap[w]) /\ pc[w] = "read"
               PROVE  Orderly'
    BY <1>1, SameIsSame DEF FinishReadsClaim, AtWork, Holding
  <2>1. /\ UNCHANGED <<rows, done, failed, supers, retired, replaced, withdrawals, counts, archive>>
        /\ Rest(w) \/ Go(w, "judged")
    BY <1>1 DEF FinishReadsClaim
  <2>2. Stands'
    BY <2>1, Shrinks DEF rows, withdrawals, counts
  <2>3. CASE Rest(w)
    BY <2>2, <2>3, DoesRest
  <2>4. CASE Go(w, "judged")
    <3>1. pc' = At(w, "judged") /\ UNCHANGED <<snap, plan, status, ready, decided, launched, claims>>
      BY <2>1, <2>4 DEF Go, rows, withdrawals, counts
    <3> QED BY <2>1, <2>2, <3>1, DoesGo DEF Doing, Early, Concluding, Tail
  <2> QED BY <2>1, <2>3, <2>4
<1>2. CASE FinishReadsReady(w) \/ LostRelease(w) \/ LostLease(w) \/ LostCheck(w) \/ LostFile(w)
  <2>1. pc[w] \in {"readReady", "lostRelease", "lostLease", "lostCheck", "lostFile"}
    BY <1>2 DEF FinishReadsReady, LostRelease, LostLease, LostCheck, LostFile
  <2> QED BY <2>1 DEF AtWork, Holding, Tail
<1>3. CASE FinishArchives(w)
  <2> SUFFICES ASSUME /\ pc[w] = "judged"
                      /\ UNCHANGED <<rows, done, failed, supers, retired, replaced, withdrawals, counts>>
               PROVE  Orderly'
    BY <1>3 DEF FinishArchives
  <2>1. claim # NoClaim /\ claim = snap[w] /\ claim.att + 1 \in Nat
    BY QueueAssumption, SMT DEF AtWork, Holding, Stands, Claimed, Charged
  <2>2. CASE Covered(snap[w])
    <3>1. pc' = At(w, "cancel") /\ UNCHANGED <<snap, plan, archive>>
      BY <1>3, <2>2 DEF FinishArchives, Go
    <3>2. Stands'
      BY <3>1, Shrinks DEF rows, withdrawals, counts
    <3> QED BY <3>1, <3>2, DoesGo DEF rows, counts, Early, Concluding, Tail
  <2>3. CASE ~ Covered(snap[w])
    <3> DEFINE n == claim.att + 1
               d == Disposition(claim.gen, status[w], n, TRUE)
    <3>1. /\ archive' = Archived(claim.gen, n, d)
          /\ Commit(w, Plan("finish", claim, archive'[<<claim.gen, n>>]), lock)
      BY <1>3, <2>1, <2>3 DEF FinishArchives
    <3>2. claim.gen \notin decided
      BY <2>1, <2>3, CoveredIsDecided
    <3>3. d \in Dispositions /\ (d = "requeued" => n < MaxAttempts) /\ d # "withdrawn"
      BY <2>1, <3>2, DispositionIs DEF Doing
    <3> HIDE DEF d
    <3>4. Stands' /\ archive'[<<claim.gen, n>>] \in Dispositions \ {"withdrawn"}
      BY <2>1, <3>1, <3>2, <3>3, AttemptStands DEF counts
    <3>5. Planned(launched', archive', Plan("finish", claim, archive'[<<claim.gen, n>>]))
      BY <3>4 DEF Planned, Plan, Dispositions
    <3> QED BY <3>1, <3>4, <3>5, DoesCommit
  <2> QED BY <2>2, <2>3
<1>4. CASE FinishCancels(w)
  <2> SUFFICES ASSUME /\ pc[w] = "cancel"
                      /\ UNCHANGED <<rows, done, failed, supers, retired, replaced, withdrawals, counts>>
               PROVE  Orderly'
    BY <1>4 DEF FinishCancels
  <2>1. claim # NoClaim /\ claim = snap[w] /\ SameClaim(claim, snap[w]) /\ claim.gen \in decided
    BY SameIsSame DEF AtWork, Holding, Judgement
  <2>2. /\ archive' = Archived(claim.gen, claim.att + 1, "withdrawn")
        /\ Rest(w) \/ Commit(w, Plan("cancel", claim, "withdrawn"), w)
    BY <1>4, <2>1 DEF FinishCancels
  <2>3. Stands'
    BY <2>1, <2>2, AttemptStands DEF counts, Dispositions
  <2>4. Planned(launched', archive', Plan("cancel", claim, "withdrawn"))
    BY DEF Planned, Plan
  <2> QED BY <2>2, <2>3, <2>4, DoesRest, DoesCommit
<1> QED BY <1>1, <1>2, <1>3, <1>4 DEF Finishing

LEMMA StartsNat == ASSUME Kept, Solo, Stands, NEW g \in 1..gens PROVE g \in Gens /\ launched[g] \in Nat
BY QueueAssumption, SMT DEF Stands, Told, Kept, Archive, Gens, Solo, Shape

-----------------------------------------------------------------------------
(* Concluding a claim.                                                     *)

\* The mark of the process at work, and what stands of it.
LEMMA MarkInHand ==
    ASSUME Solo, Orderly, NEW p \in Procs, pc[p] \in Tail
    PROVE  LET g == plan[p].rec.gen
               a == plan[p].rec.att
           IN  /\ claim = NoClaim /\ g \in 1..gens /\ gens \in Nat /\ a \in Charged
               /\ Below(Past, g) /\ UpTo(launched, g) /\ (ready # NoRow => g < ready.gen)
               /\ InHand(launched, archive, g, a, g \in decided)
               /\ \E t \in tombs : tombs = {t} /\ OwnTomb(p) = {t} /\ t.rec.gen = g /\ t.rec.att = a
<1>1. PICK t \in tombs : /\ claim = NoClaim /\ tombs = {t} /\ OwnTomb(p) = {t}
                         /\ SameClaim(t.rec, plan[p].rec) /\ t.rec.gen \in 1..gens
  BY OwnMark
<1>2. t.rec.gen = plan[p].rec.gen /\ t.rec.att = plan[p].rec.att
  BY <1>1 DEF SameClaim
<1>3. Doing(p) /\ Marked /\ gens \in Nat
  BY DEF Orderly, Stands, Solo, Shape
<1>4. Below(Past, plan[p].rec.gen) /\ (ready # NoRow => plan[p].rec.gen < ready.gen)
  BY <1>3 DEF Doing
<1>5. /\ t.rec.att \in Charged /\ UpTo(launched, t.rec.gen)
      /\ InHand(launched, archive, t.rec.gen, t.rec.att, t.rec.gen \in decided)
  BY <1>3 DEF Marked
<1> QED BY <1>1, <1>2, <1>3, <1>4, <1>5

\* A row that is requeued is fresh: its attempts are counted and none ended it.
LEMMA RequeueFresh ==
    ASSUME Solo, Kept, Orderly, NEW p \in Procs, pc[p] = "publish", plan[p].disp \notin {"done", "failed"}
    PROVE  /\ NextAttempt(p) \in Charged
           /\ Fresh(launched, archive, plan[p].rec.gen, NextAttempt(p))
<1> DEFINE g == plan[p].rec.gen
           a == plan[p].rec.att
<1>1. /\ g \in Gens /\ g \in 1..gens /\ a \in Charged /\ a + 1 \in Attempts /\ a \in Nat /\ MaxAttempts \in Nat
      /\ InHand(launched, archive, g, a, g \in decided)
  <2>1. g \in 1..gens /\ gens \in Nat /\ a \in Charged /\ InHand(launched, archive, g, a, g \in decided)
    BY MarkInHand DEF Tail
  <2>2. gens <= MaxGens
    BY DEF Kept, Archive
  <2> QED BY <2>1, <2>2, QueueAssumption, SMT DEF Charged, Attempts, Gens
<1>2. Planned(launched, archive, plan[p]) /\ plan[p].kind # "cancel" /\ Filed
  BY DEF Orderly, Stands, Doing, Concluding, Tail
<1>3. CASE plan[p].kind \in {"defer", "unstarted"}
  BY <1>1, <1>2, <1>3 DEF Planned, NextAttempt
<1>4. CASE plan[p].kind \in {"finish", "expire"}
  <2>1. archive[<<g, a + 1>>] = "requeued" /\ NextAttempt(p) = a + 1
    BY <1>2, <1>4 DEF Planned, NextAttempt
  <2>2. a + 1 < MaxAttempts
    BY <1>1, <1>2, <2>1 DEF Filed
  <2>3. NoEnd(archive, g)
    BY <1>1, <2>1 DEF InHand, NoEnd
  <2>4. launched[g] <= a + 1
    <3>1. launched[g] \in Nat
      BY <1>1, StartsNat DEF Orderly
    <3> QED BY <1>1, <3>1, SMT DEF InHand
  <2> QED BY <1>1, <2>1, <2>2, <2>3, <2>4, SMT DEF Fresh, Charged
<1> QED BY <1>2, <1>3, <1>4 DEF Planned

LEMMA DestinationStands ==
    ASSUME Solo, Kept, Orderly, NEW p \in Procs, pc[p] = "publish", NEW b, PublishDestination(p, b),
           tombs' \subseteq tombs,
           UNCHANGED <<claim, archive, decided, launched, gens, claims>>
    PROVE  Stands'
<1> DEFINE g == plan[p].rec.gen
<1> SUFFICES ASSUME /\ claim = NoClaim /\ g \in 1..gens /\ gens \in Nat
                    /\ Below(Past, g) /\ UpTo(launched, g) /\ (ready # NoRow => g < ready.gen) /\ g \notin Past
                    /\ \A t \in tombs : t.rec.gen = g
                    /\ Stands
             PROVE  Stands'
  BY MarkInHand, SMT DEF Tail, Below, Orderly
<1>1. Told' /\ Claimed'
  BY DEF Stands, Told, Claimed
<1>2. CASE plan[p].disp \in {"done", "failed"}
  <2> SUFFICES ASSUME /\ {done', failed'} \subseteq {done, failed, g, 0} /\ UNCHANGED <<ready, supers>>
                      /\ retired' = retired \union ({done, failed} \ {0, g, done', failed'})
               PROVE  Stands'
    BY <1>2 DEF PublishDestination, FileTerminal
  <2>1. Past' \ {g} \subseteq Past /\ g \notin retired'
    BY DEF Past
  <2>2. Filed'
    BY SMT DEF Stands, Filed
  <2>3. Waiting'
    BY <2>1 DEF Stands, Waiting, Below
  <2>4. Marked'
    BY <2>1 DEF Stands, Marked, Below
  <2> QED BY <1>1, <2>2, <2>3, <2>4 DEF Stands
<1>3. CASE plan[p].disp \notin {"done", "failed"}
  <2> SUFFICES ASSUME /\ UNCHANGED <<done, failed, retired>>
                      /\ ready' = IF ready = NoRow /\ g \notin supers THEN Row(g, NextAttempt(p)) ELSE ready
                      /\ supers' = IF ready # NoRow /\ ready.gen # g THEN supers \union {g} ELSE supers
               PROVE  Stands'
    BY <1>3 DEF PublishDestination, Requeue
  <2>1. Filed'
    BY DEF Stands, Filed
  <2>2. CASE ready = NoRow
    <3> SUFFICES ASSUME Past' = Past /\ ready' = Row(g, NextAttempt(p)) /\ supers' = supers
                 PROVE  Stands'
      BY <2>2 DEF Past
    <3>1. ready'.gen = g /\ ready'.att = NextAttempt(p)
      BY SMT DEF Row
    <3>2. Waiting'
      BY <1>3, <3>1, RequeueFresh DEF Waiting
    <3>3. \A t \in tombs : t.rec.gen <= ready'.gen
      BY <3>1, SMT
    <3>4. Marked'
      BY <3>3 DEF Stands, Marked
    <3> QED BY <1>1, <2>1, <3>2, <3>4 DEF Stands
  <2>3. CASE ready # NoRow
    <3>1. Past' \subseteq Past \union {g} /\ ready' = ready
      BY <2>3 DEF Past
    <3>2. Waiting'
      BY <3>1 DEF Stands, Waiting, Below
    <3>3. Marked'
      BY <3>1 DEF Stands, Marked, Below
    <3> QED BY <1>1, <2>1, <3>2, <3>3 DEF Stands
  <2> QED BY <2>2, <2>3
<1> QED BY <1>2, <1>3

\* A mark turns into the claim again.
LEMMA ClaimComesBack ==
    ASSUME Solo, Stands, NEW t \in tombs, claim' = t.rec, tombs' = tombs \ {t},
           t.rec.gen \notin Past, ready # NoRow => t.rec.gen < ready.gen,
           UNCHANGED <<ready, lease, endings, withdrawals, launched, gens, claims>>
    PROVE  Stands'
<1>1. /\ Past' = Past /\ tombs' = {} /\ UNCHANGED <<archive, decided>>
  BY DEF Past, endings, withdrawals, Solo, OneFile
<1>2. Filed' /\ Told' /\ Waiting' /\ Marked'
  BY <1>1 DEF Stands, Filed, Told, Waiting, Marked, endings
<1>3. Claimed'
  BY <1>1 DEF Stands, Marked, Claimed, Below, InHand
<1> QED BY <1>2, <1>3 DEF Stands

LEMMA EntombStands ==
    ASSUME Solo, Safe, Orderly, NEW p \in Procs, Entomb(p) PROVE Orderly'
<1> SUFFICES ASSUME /\ pc[p] = "entomb" /\ AtWork(p) /\ Stands /\ Doing(p) /\ Judgement(p)
             PROVE  Orderly'
  BY DEF Entomb, Solo, Safe, Orderly
<1>1. claim # NoClaim /\ SameClaim(claim, plan[p].rec) /\ tombs = {} /\ claim.gen \in 1..gens
  BY DEF AtWork, Holding, Solo, OneFile, Real
<1>2. /\ claim' = NoClaim /\ tombs' = {Tomb(claim, p)} /\ pc' = At(p, "unlease") /\ plan' = plan
      /\ UNCHANGED <<ready, lease, endings, withdrawals, counts>>
  BY <1>1 DEF Entomb, Go
<1>3. /\ claim.gen = plan[p].rec.gen /\ claim.att = plan[p].rec.att /\ Tomb(claim, p).rec = claim
      /\ pc'[p] = "unlease"
  BY <1>1, <1>2 DEF SameClaim, Tomb, At, Solo, Shape
<1>4. Past' = Past /\ UNCHANGED <<archive, launched, decided>>
  BY <1>2 DEF Past, endings, withdrawals, counts
<1>5. Planned(launched, archive, plan[p]) /\ Claimed
  BY DEF Doing, Concluding, Stands
<1>6. InHand(launched, archive, claim.gen, claim.att, claim.gen \in decided)
  <2>1. CASE plan[p].kind \in {"defer", "unstarted"}
    BY <1>3, <1>5, <2>1, FreshInHand DEF Planned
  <2>2. CASE plan[p].kind \in {"finish", "expire"}
    BY <1>1, <1>3, <1>5, <2>2 DEF Planned, Claimed, InHand
  <2>3. CASE plan[p].kind = "cancel"
    BY <1>1, <1>3, <1>5, <2>3 DEF Claimed, InHand, Judgement, Concluding
  <2> QED BY <1>5, <2>1, <2>2, <2>3 DEF Planned
<1>7. Marked'
  <2>1. claim.gen \notin retired /\ Below(Past \ {claim.gen}, claim.gen)
    BY <1>1, <1>5, SMT DEF Claimed, Below, Past
  <2>2. ready # NoRow => claim.gen <= ready.gen
    <3>1. ready # NoRow => claim.gen < ready.gen
      BY <1>1, <1>5 DEF Claimed
    <3>2. ready # NoRow => ready.gen \in 1..gens /\ gens \in Nat
      BY DEF Solo, Real, Shape
    <3> QED BY <1>1, <3>1, <3>2, SMT
  <2> QED BY <1>1, <1>2, <1>3, <1>4, <1>5, <1>6, <2>1, <2>2 DEF Claimed, Marked, endings
<1>8. Filed' /\ Told' /\ Waiting'
  BY <1>2, <1>4 DEF Stands, Filed, Told, Waiting, endings, counts
<1>9. Claimed'
  BY <1>2 DEF Claimed
<1>10. Doing(p)'
  BY <1>1, <1>2, <1>3, <1>4, <1>5 DEF Doing, Early, Tail, Claimed
<1> QED BY <1>2, <1>7, <1>8, <1>9, <1>10, DoesMove DEF Stands

LEMMA OrderCommitting ==
    ASSUME Solo, Safe, Kept, Orderly, NEW p \in Procs, Committing(p) \/ Crash(p) PROVE Orderly'
<1> SUFFICES ASSUME AtWork(p) /\ Stands /\ Doing(p) /\ decided \subseteq 1..gens
             PROVE  Orderly'
  BY DEF Solo, Orderly, Stands, Filed, Told
<1>1. CASE GiveBack(p)
  BY <1>1 DEF GiveBack, AtWork, Tail, Holding
<1>2. CASE Unlease(p)
  <2> SUFFICES ASSUME /\ pc[p] = "unlease" /\ pc' = At(p, "release") /\ UNCHANGED <<snap, plan>>
                      /\ UNCHANGED <<ready, claim, tombs, endings, withdrawals, counts>>
               PROVE  Orderly'
    BY <1>2 DEF Unlease, Go
  <2>1. claim = NoClaim
    BY MarkInHand DEF Tail
  <2>2. Stands'
    BY <2>1, Shrinks DEF endings, withdrawals, counts
  <2> QED BY <2>2, DoesGo DEF endings, counts, Early, Concluding, Tail
<1>3. CASE ReleaseReservation(p)
  <2> SUFFICES ASSUME /\ pc[p] = "release" /\ UNCHANGED <<ready, claim, lease, endings, withdrawals, counts>>
                      /\ \/ tombs' = tombs \ OwnTomb(p) /\ Rest(p)
                         \/ plan[p].kind # "cancel" /\ Go(p, "publish") /\ UNCHANGED tombs
               PROVE  Orderly'
    BY <1>3 DEF ReleaseReservation
  <2>1. Stands'
    BY Shrinks DEF endings, withdrawals, counts
  <2>2. CASE Rest(p)
    BY <2>1, <2>2, DoesRest
  <2>3. CASE plan[p].kind # "cancel" /\ Go(p, "publish")
    <3>1. pc' = At(p, "publish") /\ UNCHANGED <<snap, plan>>
      BY <2>3 DEF Go
    <3> QED BY <2>1, <2>3, <3>1, DoesGo DEF endings, counts, Early, Concluding, Tail
  <2> QED BY <2>2, <2>3
<1>4. CASE PublishTail(p) \/ PublishCut(p)
  <2> SUFFICES ASSUME /\ pc[p] = "publish" /\ Rest(p)
                      /\ UNCHANGED <<claim, archive, withdrawals, launched, gens, claims>>
               PROVE  Orderly'
    BY <1>4 DEF PublishTail, PublishCut, counts
  <2>1. OwnTomb(p) # {}
    BY MarkInHand DEF Tail
  <2>2. tombs' \subseteq tombs /\ \E b : PublishDestination(p, b)
    <3>1. CASE PublishTail(p)
      <4>1. PublishDestination(p, TRUE) /\ tombs' = tombs \ OwnTomb(p)
        BY <2>1, <3>1 DEF PublishTail
      <4> QED BY <4>1
    <3>2. CASE PublishCut(p)
      <4>1. PublishDestination(p, FALSE) /\ tombs' = tombs
        BY <3>2 DEF PublishCut
      <4> QED BY <4>1
    <3> QED BY <1>4, <3>1, <3>2
  <2>3. Stands'
    BY <2>2, DestinationStands DEF withdrawals
  <2> QED BY <2>3, DoesRest
<1>5. CASE PublishFails(p)
  <2> SUFFICES ASSUME /\ pc[p] = "publish" /\ Rest(p)
                      /\ UNCHANGED <<ready, lease, endings, withdrawals, launched, gens, claims>>
                      /\ \/ UNCHANGED <<claim, tombs>>
                         \/ \E t \in OwnTomb(p) : claim' = t.rec /\ tombs' = tombs \ {t}
               PROVE  Orderly'
    BY <1>5 DEF PublishFails
  <2>1. CASE UNCHANGED <<claim, tombs>>
    <3>1. Stands'
      BY <2>1, Shrinks DEF endings, withdrawals
    <3> QED BY <3>1, DoesRest
  <2>2. ASSUME NEW t \in OwnTomb(p), claim' = t.rec, tombs' = tombs \ {t} PROVE Orderly'
    <3>1. t \in tombs /\ t.rec.gen = plan[p].rec.gen
      BY DEF OwnTomb, SameClaim
    <3>2. t.rec.gen \notin Past /\ (ready # NoRow => t.rec.gen < ready.gen)
      BY <3>1, MarkInHand, SMT DEF Tail, Below
    <3>3. Stands'
      BY <2>2, <3>1, <3>2, ClaimComesBack
    <3> QED BY <3>3, DoesRest
  <2> QED BY <2>1, <2>2
<1>6. CASE Crash(p)
  <2>1. pc[p] # "idle" /\ Rest(p) /\ UNCHANGED <<rows, endings, withdrawals, launched, gens, claims>>
    BY <1>6 DEF Crash
  <2>2. Stands'
    BY <2>1, Shrinks DEF rows, endings, withdrawals
  <2> QED BY <2>1, <2>2, DoesRest
<1> QED BY <1>1, <1>2, <1>3, <1>4, <1>5, <1>6, EntombStands DEF Committing

-----------------------------------------------------------------------------
(* Reaping.                                                                *)

\* A sweep drops a mark: what it retires and supersedes is past.
LEMMA RetireStands ==
    ASSUME Solo, Stands, NEW t \in tombs, RetireTomb(t) PROVE Stands'
<1> SUFFICES ASSUME /\ claim = NoClaim /\ tombs' = {} /\ t.rec.gen \in 1..gens /\ gens \in Nat
             PROVE  Stands'
  BY DEF Solo, OneFile, Real, Shape, RetireTomb
<1>1. /\ UNCHANGED <<ready, claim, archive, withdrawals, counts>>
      /\ {done', failed'} \subseteq {done, failed, 0}
      /\ retired' = retired \union ({done, failed} \ {0, done', failed'})
      /\ \/ supers' = supers
         \/ ready.gen > t.rec.gen /\ supers' = supers \union {t.rec.gen}
  BY DEF RetireTomb
<1>2. \A h \in Past' : h \in Past \/ (h = t.rec.gen /\ ready.gen > h)
  BY <1>1 DEF Past
<1>3. Filed'
  BY <1>1, SMT DEF Stands, Filed, withdrawals, counts
<1>4. Waiting'
  BY <1>1, <1>2 DEF Stands, Waiting, Below, counts, Solo, Real
<1>5. Told' /\ Claimed' /\ Marked'
  BY <1>1 DEF Stands, Told, Claimed, Marked, counts
<1> QED BY <1>3, <1>4, <1>5 DEF Stands

LEMMA OrderReaping == ASSUME Prompt, Solo, Safe, Kept, Orderly, Reaping PROVE Orderly'
<1> SUFFICES ASSUME /\ Stands /\ Ledger /\ decided \subseteq 1..gens
                    /\ Reaper \in Procs /\ gens \in Nat
             PROVE  Orderly'
  BY DEF Orderly, Stands, Filed, Told, Safe, Procs, Solo, Shape
<1>1. CASE ReapTerminal
  <2>1. ReapableClaim /\ claim' = NoClaim /\ UNCHANGED <<ready, tombs, endings, withdrawals, procs, counts>>
    BY <1>1 DEF ReapTerminal
  <2>2. Stands'
    BY <2>1, Shrinks DEF endings, withdrawals, counts
  <2> QED BY <2>1, <2>2, ReapsAlone, DoesStay
<1>2. CASE SweepWidowedLease
  <2>1. claim = NoClaim /\ UNCHANGED <<ready, claim, tombs, endings, withdrawals, procs, counts>>
    BY <1>2 DEF SweepWidowedLease
  <2>2. Stands'
    BY <2>1, Shrinks DEF endings, withdrawals, counts
  <2> QED BY <2>1, <2>2, DoesStay DEF endings, withdrawals, counts
<1>3. CASE ReapWithdrawn
  <2>1. /\ ReapableClaim /\ Commit(Reaper, Plan("cancel", Judged, "withdrawn"), Reaper)
        /\ UNCHANGED <<rows, endings, withdrawals, counts>>
    BY <1>3 DEF ReapWithdrawn
  <2>2. Stands'
    BY <2>1, Shrinks DEF rows, endings, withdrawals, counts
  <2>3. Planned(launched', archive', Plan("cancel", Judged, "withdrawn"))
    BY DEF Planned, Plan
  <2> QED BY <2>1, <2>2, <2>3, ReapsAlone, DoesCommit
<1>4. CASE ReapUnstarted
  <2> SUFFICES ASSUME /\ ReapableClaim /\ Commit(Reaper, Plan("unstarted", Judged, "requeued"), Reaper)
                      /\ UNCHANGED <<rows, endings, withdrawals, counts>> /\ claim.gen \notin decided
                      /\ claim # NoClaim /\ lease = NoClaim /\ archive[<<claim.gen, claim.att + 1>>] = "none"
               PROVE  Orderly'
    BY <1>4, CoveredIsDecided DEF ReapUnstarted, ReapableClaim, Unstarted
  <2>1. Stands'
    BY Shrinks DEF rows, endings, withdrawals, counts
  <2>2. Fresh(launched, archive, claim.gen, claim.att)
    BY DEF Stands, Claimed, InHand, Fresh, NoEnd
  <2>3. Judged.gen = claim.gen /\ Judged.att = claim.att
    BY DEF Judged, ClaimRec
  <2>4. Planned(launched', archive', Plan("unstarted", Judged, "requeued"))
    BY <2>2, <2>3 DEF Planned, Plan, endings, counts
  <2> QED BY <2>1, <2>4, ReapsAlone, DoesCommit
<1>5. CASE ReapExpired
  <2> DEFINE n == claim.att + 1
             d == Disposition(claim.gen, "lease_lost", n, FALSE)
  <2> SUFFICES ASSUME /\ ReapableClaim /\ claim # NoClaim /\ claim.gen \notin decided
                      /\ archive' = Archived(claim.gen, n, d)
                      /\ Commit(Reaper, Plan("expire", Judged, archive'[<<claim.gen, n>>]), Reaper)
                      /\ UNCHANGED <<rows, done, failed, supers, retired, withdrawals, counts>>
               PROVE  Orderly'
    BY <1>5, CoveredIsDecided DEF ReapExpired, ReapableClaim
  <2>1. d \in Dispositions /\ (d = "requeued" => n < MaxAttempts) /\ d # "withdrawn"
    <3>1. n \in Nat
      BY QueueAssumption, SMT DEF Stands, Claimed, Charged
    <3> QED BY <3>1, DispositionIs
  <2> HIDE DEF d
  <2>2. Stands' /\ archive'[<<claim.gen, n>>] \in Dispositions \ {"withdrawn"}
    BY <2>1, AttemptStands DEF counts
  <2>3. Judged.gen = claim.gen /\ Judged.att = claim.att
    BY DEF Judged, ClaimRec
  <2>4. Planned(launched', archive', Plan("expire", Judged, archive'[<<claim.gen, n>>]))
    BY <2>2, <2>3 DEF Planned, Plan, Dispositions
  <2> QED BY <2>2, <2>4, ReapsAlone, DoesCommit
<1>6. ASSUME NEW t \in tombs, RestoreTomb(t) PROVE Orderly'
  <2> SUFFICES ASSUME /\ SweepableTomb(t) /\ claim' = t.rec /\ tombs' = tombs \ {t} /\ ready = NoRow
                      /\ ~ TombCovered(t.rec) /\ UNCHANGED <<ready, lease, endings, withdrawals, procs, counts>>
               PROVE  Orderly'
    BY <1>6 DEF RestoreTomb, KeyIsLive
  <2>1. t.rec.gen \notin Past
    BY DEF TombCovered, TerminalCovers, Past, Stands, Marked
  <2>2. Stands'
    BY <2>1, ClaimComesBack DEF counts
  <2> QED BY <2>2, SweepsAlone, DoesStay
<1>7. ASSUME NEW t \in tombs, RetireTomb(t) PROVE Orderly'
  <2>1. SweepableTomb(t) /\ UNCHANGED procs
    BY <1>7 DEF RetireTomb
  <2> QED BY <1>7, <2>1, RetireStands, SweepsAlone, DoesStay
<1> QED BY <1>1, <1>2, <1>3, <1>4, <1>5, <1>6, <1>7 DEF Reaping
-----------------------------------------------------------------------------
(* Every step.                                                             *)

\* A new generation is later than everything on file.
LEMMA PublishStands == ASSUME Solo, Safe, Kept, Stands, Publish PROVE Stands'
<1> SUFFICES ASSUME /\ gens' = gens + 1 /\ ready' = Row(gens + 1, 0) /\ decided' = SupersededMarker
                    /\ gens \in Nat /\ gens < MaxGens /\ MaxGens \in Nat
                    /\ UNCHANGED <<claim, tombs, lease, done, failed, archive, supers, retired, launched, claims>>
             PROVE  Stands'
  BY QueueAssumption DEF Publish, Solo, Shape
<1>1. /\ Past' = Past /\ decided' = decided /\ Past \subseteq 1..gens /\ gens + 1 \in Gens
      /\ \A g \in Gens : g <= gens => g <= gens + 1
  BY SMT DEF Past, SupersededMarker, Safe, Ledger, Stands, Filed, Gens
<1>2. Filed'
  <2>1. Filed /\ 0..gens \subseteq 0..gens' /\ 1..gens \subseteq 1..gens'
    BY SMT DEF Stands
  <2> QED BY <1>1, <2>1 DEF Filed
<1>3. Told'
  BY <1>1 DEF Stands, Told
<1>4. ready'.gen = gens + 1 /\ ready'.att = 0 /\ 0 \in Charged
  BY QueueAssumption, SMT DEF Row, Charged
<1>5. Waiting'
  <2>1. Below(Past, gens + 1) /\ UpTo(launched, gens + 1)
    BY <1>1, SMT DEF Below, UpTo, Stands, Told
  <2>2. NoEnd(archive, gens + 1)
    BY <1>1, SMT DEF NoEnd, Stands, Filed
  <2>3. launched[gens + 1] = 0
    <3>1. launched[gens + 1] \in Nat /\ ~ (launched[gens + 1] > 0)
      BY <1>1, SMT DEF Stands, Told
    <3> QED BY <3>1, SMT
  <2>4. Fresh(launched, archive, gens + 1, 0)
    BY <2>2, <2>3, SMT DEF Fresh
  <2> QED BY <1>1, <1>4, <2>1, <2>4 DEF Waiting
<1>6. Claimed'
  BY <1>1, <1>4, SMT DEF Stands, Claimed, Solo, Real
<1>7. Marked'
  BY <1>1, <1>4, SMT DEF Stands, Marked, Solo, Real
<1> QED BY <1>2, <1>3, <1>5, <1>6, <1>7 DEF Stands

LEMMA WithdrawDecides ==
    ASSUME Solo, Safe, Withdraw
    PROVE  /\ WithdrawTarget.gen \in 1..gens
           /\ decided' = decided \/ decided' = decided \union {WithdrawTarget.gen}
<1>1. WithdrawTarget.gen # 0 /\ WithdrawTarget \in {claim, ready}
  BY DEF Withdraw, WithdrawTarget
<1>2. WithdrawTarget.gen \in 1..gens
  BY <1>1, SMT DEF Solo, Real, NoClaim, ClaimRec, NoRow, Row
<1>3. \/ decided' = decided \union ({marker} \ {0}) \union {WithdrawTarget.gen}
      \/ marker # 0 /\ decided' = decided \union {marker}
  BY DEF Withdraw, SupersededMarker
<1> QED BY <1>2, <1>3 DEF Safe, Ledger

LEMMA OrderStep ==
    ASSUME Prompt PROVE Solo /\ Safe /\ Kept /\ Reports /\ Orderly /\ [Next]_vars => Orderly'
<1> SUFFICES ASSUME Solo, Safe, Kept, Reports, Orderly, [Next]_vars PROVE Orderly'
  OBVIOUS
<1> SUFFICES ASSUME Stands /\ decided \subseteq 1..gens /\ gens \in Nat
             PROVE  Orderly'
  BY DEF Orderly, Stands, Filed, Told, Solo, Shape
<1>1. CASE Publish
  <2>1. /\ UNCHANGED <<procs, archive, launched, claims, done, failed, supers, retired>>
        /\ ready'.gen = gens + 1 /\ decided \subseteq decided'
    BY <1>1 DEF Publish, SupersededMarker, Row
  <2>2. \A p \in Procs : pc[p] \in Tail => plan[p].rec.gen < ready'.gen
    BY <2>1, MarkInHand, SMT
  <2> QED BY <1>1, <2>1, <2>2, PublishStands, DoesStay
<1>2. CASE Withdraw
  <2>1. /\ UNCHANGED <<claim, tombs, lease, endings, procs, counts>> /\ ready' \in {NoRow, ready}
    BY <1>2 DEF Withdraw
  <2>2. decided \subseteq decided' /\ decided' \subseteq 1..gens
    BY <1>2, WithdrawDecides
  <2>3. Stands'
    BY <2>1, <2>2, Shrinks DEF endings, counts
  <2> QED BY <2>1, <2>2, <2>3, DoesStay DEF endings, counts
<1>3. CASE \E w \in Workers : Claiming(w) \/ Running(w) \/ Finishing(w)
  BY <1>3, OrderClaiming, OrderRunning, OrderFinishing
<1>4. CASE \E p \in Procs : Committing(p) \/ Crash(p)
  BY <1>4, OrderCommitting
<1>5. CASE Reaping
  BY <1>5, OrderReaping
<1>6. CASE UNCHANGED vars
  <2>1. UNCHANGED <<rows, endings, withdrawals, procs, counts>>
    BY <1>6 DEF vars
  <2>2. Stands'
    BY <2>1, Shrinks DEF rows, endings, withdrawals, counts
  <2> QED BY <2>1, <2>2, DoesStay DEF rows, endings, withdrawals, counts
<1> QED BY <1>1, <1>2, <1>3, <1>4, <1>5, <1>6 DEF Next

\* Only a worker's own report changes.
LEMMA ReportsStep == Reports /\ [Next]_vars => Reports'
<1> SUFFICES ASSUME Reports, [Next]_vars PROVE Reports'
  OBVIOUS
<1>1. ASSUME NEW p, Rest(p) \/ UNCHANGED status
             \/ \E w, r : status' = [status EXCEPT ![w] = r]
      PROVE  Reports'
  BY <1>1 DEF Reports, Rest
<1>2. CASE Publish \/ Withdraw \/ Reaping \/ UNCHANGED vars
  <2>1. UNCHANGED status
    BY <1>2 DEF Publish, Withdraw, Reaping, ReapTerminal, ReapWithdrawn, ReapUnstarted,
       ReapExpired, SweepWidowedLease, RestoreTomb, RetireTomb, Commit, procs, vars
  <2> QED BY <1>1, <2>1
<1>3. ASSUME NEW w \in Workers, Claiming(w) PROVE Reports'
  <2>1. Rest(w) \/ UNCHANGED status
    BY <1>3 DEF Claiming, DropWithdrawnReady, ClaimRename, ClaimCommit, ClaimRefused,
       ClaimPersist, ClaimLease, ClaimUnwound, Go, procs
  <2> QED BY <1>1, <2>1
<1>4. ASSUME NEW w \in Workers, Running(w) PROVE Reports'
  <2>1. \/ Rest(w) \/ UNCHANGED status
        \/ \E r : status' = [status EXCEPT ![w] = r]
    BY <1>4 DEF Running, Launch, DeferLaunch, Heartbeat, RunEnds, Commit
  <2> QED BY <1>1, <2>1
<1>5. ASSUME NEW w \in Workers, Finishing(w) PROVE Reports'
  <2>1. Rest(w) \/ UNCHANGED status
    BY <1>5 DEF Finishing, FinishReadsClaim, FinishReadsReady, LostRelease, LostLease,
       LostCheck, LostFile, FinishArchives, FinishCancels, Go, Commit
  <2> QED BY <1>1, <2>1
<1>6. ASSUME NEW p \in Procs, Committing(p) \/ Crash(p) PROVE Reports'
  <2>1. Rest(p) \/ UNCHANGED status
    BY <1>6 DEF Committing, Entomb, GiveBack, Unlease, ReleaseReservation, PublishTail,
       PublishCut, PublishFails, Crash, Go
  <2> QED BY <1>1, <2>1
<1> QED BY <1>2, <1>3, <1>4, <1>5, <1>6 DEF Next

LEMMA OrderInit == Init => Orderly /\ Reports
<1> SUFFICES ASSUME Init PROVE Orderly /\ Reports
  OBVIOUS
<1>1. Filed /\ Told /\ Reports
  BY QueueAssumption, SMT DEF Init, Filed, Told, Reports, Gens, Attempts
<1>2. Waiting /\ Claimed /\ Marked
  BY DEF Init, Waiting, Claimed, Marked
<1>3. \A p \in Procs : Doing(p)
  BY DEF Init, Doing, Early, Concluding, Tail
<1> QED BY <1>1, <1>2, <1>3 DEF Orderly, Stands

\* While processes are prompt, generations come in order and an attempt is started
\* once: whatever waits, is claimed or is marked is later than every terminal and
\* supersession, and its row counts all its starts but one that will be charged.
THEOREM GenerationsInOrder == ASSUME Prompt PROVE Spec => []Orderly
<1>1. Spec => [](Reports /\ Orderly)
  BY OneAtWork, SafeAlways, KeptAlways, OrderInit, ReportsStep, OrderStep, PTL DEF Spec
<1> QED BY <1>1, PTL
-----------------------------------------------------------------------------
(* The contract.                                                           *)

\* Generations that a terminal, a decision or a supersession ends.
Noted == ({done, failed} \ {0}) \union decided \union supers \union retired

\* A step that may end generation h, and no other, and takes no ending back.
EndsOnly(h) ==
    /\ UNCHANGED <<gens, replaced, launched>>
    /\ Noted \subseteq Noted' /\ Noted' \subseteq Noted \union {h}
    /\ archive' = archive \/ \E n, d : archive' = Archived(h, n, d)

ContractEnded == {g \in 1..gens : Ended(g)}

LEMMA EndedIs == \A g \in 1..gens : Ended(g) <=> g \in Noted \/ ArchivedEnding(g)
<1>1. \A g \in 1..gens : g # 0
  BY SMT
<1> HIDE DEF ArchivedEnding
<1> QED BY <1>1 DEF Ended, Noted

\* An archived attempt is the ending of its own generation only.
LEMMA EndingOf ==
    ASSUME Archive, NEW h, NEW g \in Gens, g # h, ArchivedEnding(g)',
           archive' = archive \/ \E n, d : archive' = Archived(h, n, d)
    PROVE  ArchivedEnding(g)
<1>1. PICK m \in Attempts : archive'[<<g, m>>] \in {"done", "failed"}
  BY DEF ArchivedEnding
<1>2. ASSUME NEW n, NEW d, archive' = Archived(h, n, d)
      PROVE  archive'[<<g, m>>] = archive[<<g, m>>]
  <2>1. archive' = archive \/ archive' = [archive EXCEPT ![<<h, n>>] = d]
    BY <1>2 DEF Archived
  <2>2. <<h, n>> # <<g, m>> /\ <<g, m>> \in Gens \X Attempts
    BY <1>1
  <2> QED BY <2>1, <2>2 DEF Archive
<1>3. archive[<<g, m>>] \in {"done", "failed"}
  BY <1>1, <1>2
<1> QED BY <1>3 DEF ArchivedEnding

LEMMA EndsOne == ASSUME Solo, Kept, NEW h, EndsOnly(h) PROVE [Contract!Next]_(Contract!vars)
<1> SUFFICES ASSUME /\ Archive /\ gens' = gens /\ replaced' = replaced /\ launched' = launched
                    /\ \A g \in 1..gens : g \in Gens
                    /\ archive' = archive \/ \E n, d : archive' = Archived(h, n, d)
             PROVE  [Contract!Next]_(Contract!vars)
  BY QueueAssumption, SMT DEF EndsOnly, Kept, Archive, Gens, Solo, Shape
<1>1. ASSUME NEW g \in 1..gens, Ended(g) PROVE Ended(g)'
  <2>1. CASE g \in Noted
    BY <2>1, EndedIs DEF EndsOnly, Ended, Noted
  <2>2. CASE ArchivedEnding(g)
    <3>1. ArchivedEnding(g)'
      BY <2>2, EndingStays
    <3> QED BY <3>1 DEF Ended
  <2> QED BY <1>1, <2>1, <2>2, EndedIs
<1>2. ASSUME NEW g \in 1..gens, Ended(g)', g # h PROVE Ended(g)
  <2>1. CASE g \in Noted'
    BY <1>2, <2>1, EndedIs DEF EndsOnly
  <2>2. CASE ArchivedEnding(g)'
    BY <1>2, <2>2, EndingOf, EndedIs
  <2>3. g # 0
    BY SMT
  <2>4. g \in Noted' \/ ArchivedEnding(g)'
    BY <1>2, <2>3 DEF Ended, Noted
  <2> QED BY <2>1, <2>2, <2>4
<1>3. ContractEnded' = ContractEnded \/ (h \in 1..gens /\ ~ Ended(h) /\ ContractEnded' = ContractEnded \union {h})
  BY <1>1, <1>2 DEF ContractEnded
<1>4. CASE ContractEnded' = ContractEnded
  BY <1>4 DEF Contract!vars, ContractEnded
<1>5. CASE h \in 1..gens /\ ~ Ended(h) /\ ContractEnded' = ContractEnded \union {h}
  <2>1. Contract!End(h) /\ h \in 1..MaxGens
    BY <1>5 DEF Contract!End, ContractEnded, Gens
  <2> QED BY <2>1 DEF Contract!Next
<1> QED BY <1>3, <1>4, <1>5

\* What a publication of a conclusion ends is the generation concluded.
LEMMA DestinationEnds ==
    ASSUME Solo, NEW p \in Procs, pc[p] \in Tail, NEW b, PublishDestination(p, b),
           UNCHANGED <<archive, replaced, decided, gens, launched>>
    PROVE  EndsOnly(plan[p].rec.gen)
<1> DEFINE g == plan[p].rec.gen
<1>1. CASE plan[p].disp \in {"done", "failed"}
  <2>1. FileTerminal(g, plan[p].disp, b)
    BY <1>1 DEF PublishDestination
  <2>2. /\ done' \in {done, g, 0} /\ failed' \in {failed, g, 0} /\ supers' = supers
        /\ retired' = retired \union ({done, failed} \ {0, g, done', failed'})
    BY <2>1 DEF FileTerminal
  <2>3. \A h \in {done, failed, g} : h # 0 => h \in {done', failed'} \union retired'
    BY <1>1, <2>1, FiledKeeps
  <2> QED BY <2>2, <2>3 DEF EndsOnly, Noted
<1>2. CASE plan[p].disp \notin {"done", "failed"}
  <2>1. UNCHANGED <<done, failed, retired>> /\ supers' \in {supers, supers \union {g}}
    BY <1>2 DEF PublishDestination, Requeue
  <2> QED BY <2>1 DEF EndsOnly, Noted
<1> QED BY <1>1, <1>2

LEMMA EndsNothing ==
    ASSUME UNCHANGED <<endings, withdrawals, gens, launched>> PROVE \E h : EndsOnly(h)
<1>1. EndsOnly(0)
  BY DEF EndsOnly, Noted, endings, withdrawals
<1> QED BY <1>1

\* An attempt that is archived.
LEMMA EndsArchived ==
    ASSUME NEW h, UNCHANGED <<done, failed, supers, retired, replaced, withdrawals, gens, launched>>,
           archive' = archive \/ \E n, d : archive' = Archived(h, n, d)
    PROVE  \E g : EndsOnly(g)
<1>1. EndsOnly(h)
  BY DEF EndsOnly, Noted, withdrawals
<1> QED BY <1>1

LEMMA WorkerEnds ==
    ASSUME Solo, NEW w \in Workers, Claiming(w) \/ Running(w) \/ Finishing(w), ~ Launch(w)
    PROVE  \E h : EndsOnly(h)
<1>1. w \in Procs /\ AtWork(w)
  BY WorkersAre DEF Solo
<1>2. CASE Claiming(w)
  <2>1. UNCHANGED <<endings, withdrawals, gens, launched>>
    BY <1>2 DEF Claiming, DropWithdrawnReady, ClaimRename, ClaimCommit, ClaimRefused,
       ClaimPersist, ClaimLease, ClaimUnwound, counts
  <2> QED BY <2>1, EndsNothing
<1>3. CASE Running(w)
  <2>1. UNCHANGED <<endings, withdrawals, gens, launched>>
    BY <1>3 DEF Running, DeferLaunch, Heartbeat, RunEnds, counts
  <2> QED BY <2>1, EndsNothing
<1>4. CASE FinishReadsReady(w) \/ LostRelease(w) \/ LostLease(w) \/ LostCheck(w) \/ LostFile(w)
  <2>1. pc[w] \in {"readReady", "lostRelease", "lostLease", "lostCheck", "lostFile"}
    BY <1>4 DEF FinishReadsReady, LostRelease, LostLease, LostCheck, LostFile
  <2> QED BY <1>1, <2>1 DEF AtWork, Holding, Tail
<1>5. CASE FinishReadsClaim(w) \/ FinishArchives(w) \/ FinishCancels(w)
  <2>1. UNCHANGED <<done, failed, supers, retired, replaced, withdrawals, gens, launched>>
    BY <1>5 DEF FinishReadsClaim, FinishArchives, FinishCancels, counts
  <2>2. archive' = archive \/ \E n, d : archive' = Archived(snap[w].gen, n, d)
    BY <1>5 DEF FinishReadsClaim, FinishArchives, FinishCancels, LateArchive
  <2> QED BY <2>1, <2>2, EndsArchived
<1> QED BY <1>2, <1>3, <1>4, <1>5 DEF Finishing

LEMMA CommittingEnds ==
    ASSUME Solo, NEW p \in Procs, Committing(p) \/ Crash(p) PROVE \E h : EndsOnly(h)
<1>1. CASE Entomb(p) \/ GiveBack(p) \/ Unlease(p) \/ ReleaseReservation(p) \/ PublishFails(p) \/ Crash(p)
  <2>1. UNCHANGED <<endings, withdrawals, gens, launched>>
    BY <1>1 DEF Entomb, GiveBack, Unlease, ReleaseReservation, PublishFails, Crash, counts
  <2> QED BY <2>1, EndsNothing
<1>2. CASE PublishTail(p)
  <2> SUFFICES ASSUME /\ pc[p] \in Tail /\ UNCHANGED <<archive, replaced, withdrawals, counts>>
                      /\ UNCHANGED <<done, failed, supers, retired>> \/ PublishDestination(p, TRUE)
               PROVE  \E h : EndsOnly(h)
    BY <1>2 DEF PublishTail, Tail
  <2>1. CASE PublishDestination(p, TRUE)
    BY <2>1, DestinationEnds DEF withdrawals, counts
  <2>2. CASE UNCHANGED <<done, failed, supers, retired>>
    BY <2>2, EndsNothing DEF endings, withdrawals, counts
  <2> QED BY <2>1, <2>2
<1>3. CASE PublishCut(p)
  <2>1. /\ pc[p] \in Tail /\ UNCHANGED <<archive, replaced, decided, gens, launched>>
        /\ PublishDestination(p, FALSE)
    BY <1>3 DEF PublishCut, Tail, withdrawals
  <2> QED BY <2>1, DestinationEnds
<1> QED BY <1>1, <1>2, <1>3 DEF Committing

LEMMA ReapingEnds == ASSUME Reaping PROVE \E h : EndsOnly(h)
<1>1. CASE ReapTerminal \/ ReapWithdrawn \/ ReapUnstarted \/ SweepWidowedLease \/ \E t \in tombs : RestoreTomb(t)
  <2>1. UNCHANGED <<endings, withdrawals, gens, launched>>
    BY <1>1 DEF ReapTerminal, ReapWithdrawn, ReapUnstarted, SweepWidowedLease, RestoreTomb, counts
  <2> QED BY <2>1, EndsNothing
<1>2. CASE ReapExpired
  <2>1. /\ UNCHANGED <<done, failed, supers, retired, replaced, withdrawals, gens, launched>>
        /\ \E n, d : archive' = Archived(claim.gen, n, d)
    BY <1>2 DEF ReapExpired, counts
  <2> QED BY <2>1, EndsArchived
<1>3. ASSUME NEW t \in tombs, RetireTomb(t) PROVE \E h : EndsOnly(h)
  <2>1. /\ UNCHANGED <<archive, replaced, decided, gens, launched>>
        /\ done' \in {done, 0} /\ failed' \in {failed, 0}
        /\ retired' = retired \union ({done, failed} \ {0, done', failed'})
        /\ supers' \in {supers, supers \union {t.rec.gen}}
    BY <1>3 DEF RetireTomb, withdrawals, counts
  <2>2. EndsOnly(t.rec.gen)
    BY <2>1 DEF EndsOnly, Noted
  <2> QED BY <2>2
<1> QED BY <1>1, <1>2, <1>3 DEF Reaping

\* Only an open generation is started, in order and at most MaxAttempts times.
LEMMA LaunchStarts ==
    ASSUME Solo, Safe, Kept, Orderly, NEW w \in Workers, Launch(w)
    PROVE  [Contract!Next]_(Contract!vars)
<1> SUFFICES ASSUME /\ w \in Procs /\ AtWork(w) /\ Stands /\ Doing(w) /\ Ledger /\ pc[w] = "leased"
                    /\ UNCHANGED <<endings, withdrawals, gens>>
             PROVE  [Contract!Next]_(Contract!vars)
  BY WorkersAre DEF Solo, Safe, Orderly, Launch
<1>1. CASE Covered(snap[w])
  <2>1. UNCHANGED launched
    BY <1>1 DEF Launch
  <2> QED BY <2>1, EndsNothing, EndsOne
<1>2. CASE ~ Covered(snap[w])
  <2> DEFINE g == snap[w].gen
  <2> SUFFICES ASSUME /\ claim # NoClaim /\ claim = snap[w] /\ g \in 1..gens /\ gens \in Nat /\ g \in Gens
                      /\ Fresh(launched, archive, g, claim.att) /\ claim.att \in Charged
                      /\ Below(Past, g) /\ UpTo(launched, g) /\ g \notin decided
               PROVE  [Contract!Next]_(Contract!vars)
    BY <1>2, CoveredIsDecided, QueueAssumption, SMT
       DEF AtWork, Holding, Solo, Real, Shape, Doing, Early, Stands, Claimed, Kept, Archive, Gens
  <2>1. launched' = [launched EXCEPT ![g] = @ + 1] /\ launched \in [Gens -> Nat]
    BY <1>2 DEF Launch, Stands, Told
  <2>2. ~ Ended(g)
    <3>1. g \notin Past
      BY SMT DEF Below
    <3>2. ~ ArchivedEnding(g)
      <4>1. \A m \in Attempts : archive[<<g, m>>] \notin {"done", "failed"}
        BY DEF Fresh, NoEnd
      <4> QED BY <4>1 DEF ArchivedEnding
    <3> HIDE DEF ArchivedEnding
    <3> QED BY <3>1, <3>2, EndedIs DEF Noted, Past
  <2>3. launched[g] < MaxAttempts
    BY <2>1, QueueAssumption, SMT DEF Fresh, Charged
  <2>4. \A later \in g + 1..gens : launched[later] = 0
    <3>1. \A later \in g + 1..gens : later \in Gens /\ ~ (later <= g)
      BY QueueAssumption, SMT DEF Kept, Archive, Gens
    <3> QED BY <2>1, <3>1, SMT DEF UpTo
  <2> HIDE DEF g
  <2>5. ContractEnded' = ContractEnded /\ replaced' = replaced /\ gens' = gens /\ g \notin ContractEnded
    <3>1. \A h : Ended(h)' <=> Ended(h)
      BY DEF Ended, ArchivedEnding, endings, withdrawals
    <3> QED BY <2>2, <3>1 DEF ContractEnded, endings
  <2>6. Contract!Start(g)
    BY <2>1, <2>3, <2>4, <2>5 DEF Contract!Start, ContractEnded
  <2> QED BY <2>6 DEF Contract!Next, Gens
<1> QED BY <1>1, <1>2

LEMMA PublishOpens ==
    ASSUME Solo, Safe, Kept, Orderly, Publish PROVE Contract!Publish
<1> SUFFICES ASSUME /\ gens' = gens + 1 /\ gens < MaxGens /\ gens \in Nat /\ MaxGens \in Nat /\ gens + 1 \in Gens
                    /\ replaced' = replaced \union ({ready.gen} \ {0}) /\ decided' = decided /\ Stands
                    /\ UNCHANGED <<launched, archive, done, failed, supers, retired>>
             PROVE  Contract!Publish
  BY QueueAssumption, SMT DEF Publish, SupersededMarker, Safe, Ledger, Solo, Shape, Gens, Orderly
<1>1. \A g : Ended(g)' <=> Ended(g)
  BY DEF Ended, ArchivedEnding
<1>2. ~ Ended(gens + 1)
  <2>1. gens + 1 \notin {done, failed} \union decided \union supers \union retired
    BY SMT DEF Stands, Filed
  <2>2. ~ ArchivedEnding(gens + 1)
    <3>1. \A m \in Attempts : archive[<<gens + 1, m>>] \notin {"done", "failed"}
      BY SMT DEF Stands, Filed
    <3> QED BY <3>1 DEF ArchivedEnding
  <2> QED BY <2>1, <2>2 DEF Ended
<1>3. ContractEnded' = ContractEnded
  <2>1. \A g \in 1..gens' : g \in 1..gens \/ g = gens + 1
    BY SMT
  <2>2. \A g \in 1..gens : g \in 1..gens'
    BY SMT
  <2> QED BY <1>1, <1>2, <2>1, <2>2 DEF ContractEnded
<1>4. replaced' = replaced \/ \E g \in 1..gens : replaced' = replaced \union {g}
  <2>1. CASE ready = NoRow
    BY <2>1 DEF NoRow, Row
  <2>2. CASE ready # NoRow
    BY <2>2 DEF Solo, Real
  <2> QED BY <2>1, <2>2
<1> QED BY <1>3, <1>4 DEF Contract!Publish, ContractEnded

LEMMA WithdrawEnds == ASSUME Solo, Safe, Withdraw PROVE \E h : EndsOnly(h)
<1>1. UNCHANGED <<endings, gens, launched>>
  BY DEF Withdraw, counts
<1>2. EndsOnly(WithdrawTarget.gen)
  BY <1>1, WithdrawDecides DEF EndsOnly, Noted, endings
<1> QED BY <1>2

LEMMA ContractStep ==
    ASSUME Prompt
    PROVE  Solo /\ Safe /\ Kept /\ Orderly /\ [Next]_vars => [Contract!Next]_(Contract!vars)
<1> SUFFICES ASSUME Solo, Safe, Kept, Orderly, [Next]_vars PROVE [Contract!Next]_(Contract!vars)
  OBVIOUS
<1>1. CASE Publish
  BY <1>1, PublishOpens DEF Contract!Next
<1>2. CASE Withdraw
  BY <1>2, WithdrawEnds, EndsOne
<1>3. ASSUME NEW w \in Workers, Claiming(w) \/ Running(w) \/ Finishing(w)
      PROVE  [Contract!Next]_(Contract!vars)
  BY <1>3, WorkerEnds, LaunchStarts, EndsOne
<1>4. ASSUME NEW p \in Procs, Committing(p) \/ Crash(p) PROVE [Contract!Next]_(Contract!vars)
  BY <1>4, CommittingEnds, EndsOne
<1>5. CASE Reaping
  BY <1>5, ReapingEnds, EndsOne
<1>6. CASE UNCHANGED vars
  <2>1. UNCHANGED <<endings, withdrawals, gens, launched>>
    BY <1>6 DEF vars, counts
  <2> QED BY <2>1, EndsNothing, EndsOne
<1> QED BY <1>1, <1>2, <1>3, <1>4, <1>5, <1>6 DEF Next

LEMMA ContractInit == Init => Contract!Init
<1> SUFFICES ASSUME Init PROVE Contract!Init
  OBVIOUS
<1>1. gens = 0 /\ replaced = {} /\ launched = [g \in Gens |-> 0]
  BY DEF Init
<1>2. {g \in 1..gens : Ended(g)} = {}
  <2>1. 1..gens = {}
    BY <1>1, SMT
  <2> QED BY <2>1
<1> QED BY <1>1, <1>2 DEF Contract!Init, Gens

\* The queue keeps its contract with the submitter of a key while processes are
\* prompt: every step of it is a publication, the start of an open generation's
\* payload, one ending, or nothing a submitter sees.
THEOREM KeepsTheContract == ASSUME Prompt PROVE Spec => ImplementsContract
BY OneAtWork, SafeAlways, KeptAlways, GenerationsInOrder, ContractInit, ContractStep, PTL
   DEF Spec, ImplementsContract, Contract!Spec

=============================================================================
