------------------------- MODULE QueueStallProofs --------------------------
(***************************************************************************)
(* What becomes of a key whoever stalls and whoever dies, for any number   *)
(* of workers, hosts, publications, attempts and faults: LiveExpiry and    *)
(* SlowTail may both be TRUE.                                              *)
(*                                                                         *)
(* A reservation is never stranded.  Several processes may conclude one    *)
(* claim at once, each with the mark it moved the claim to.  Home says     *)
(* that all these files are of one generation and one host, and that       *)
(* tokens are held on that host only, while there is such a file.          *)
(*                                                                         *)
(* Work is never dropped unrun.  A generation may lose its row, its claim  *)
(* and its terminal to a process that judged it long ago: Story says that  *)
(* whoever takes the last of them away has started it, or has its ending   *)
(* on file.                                                                *)
(***************************************************************************)
EXTENDS QueueLifecycleProofs

\* Leaves are first-order and left to Zenon; the ones that reckon, or take records
\* apart, cite SMT.
USE Zenon

-----------------------------------------------------------------------------
(* Who acts.                                                               *)

LEMMA OthersStay ==
    ASSUME ProcTypes, NEW p \in Procs, Rest(p) \/ (\E s : Go(p, s)) \/ (\E q, l : Commit(p, q, l))
    PROVE  Others(p)
<1>1. CASE Rest(p)
  BY <1>1, RestIs
<1>2. ASSUME NEW s, Go(p, s) PROVE Others(p)
  BY <1>2 DEF Go, At, ProcTypes, Others
<1>3. ASSUME NEW q, NEW l, Commit(p, q, l) PROVE Others(p)
  BY <1>3 DEF Commit, At, ProcTypes, Others
<1> QED BY <1>1, <1>2, <1>3

\* Outside the claim pass a worker moves alone, and never to where a plan's mark is
\* given back or published.
LEMMA WorkerActs ==
    ASSUME ProcTypes, NEW w \in Workers, Running(w) \/ Finishing(w)
    PROVE  Others(w) /\ pc'[w] \notin ClaimPass \union {"giveBack", "publish"}
<1> SUFFICES ASSUME w \in Procs
             PROVE  Others(w) /\ pc'[w] \notin ClaimPass \union {"giveBack", "publish"}
  BY Named
<1>1. ASSUME Rest(w) \/ \E q, l : Commit(w, q, l)
      PROVE  Others(w) /\ pc'[w] \notin ClaimPass \union {"giveBack", "publish"}
  <2>1. pc' = At(w, "idle") \/ pc' = At(w, "entomb")
    BY <1>1 DEF Rest, Commit
  <2> QED BY <1>1, <2>1, OthersStay DEF At, ProcTypes, ClaimPass
<1>2. CASE Launch(w) \/ Heartbeat(w) \/ \E r : RunEnds(w, r)
  <2>1. /\ UNCHANGED <<snap, plan>> /\ (pc' = At(w, "read") \/ pc' = At(w, "running") \/ pc' = pc)
        /\ status' = status \/ \E r : status' = [status EXCEPT ![w] = r]
        /\ pc[w] \in {"leased", "running"}
    BY <1>2 DEF Launch, Heartbeat, RunEnds
  <2> QED BY <2>1 DEF At, ProcTypes, Others, ClaimPass
<1>3. CASE DeferLaunch(w)
  <2>1. Rest(w) \/ \E q, l : Commit(w, q, l)
    BY <1>3 DEF DeferLaunch
  <2> QED BY <1>1, <2>1
<1>4. CASE Finishing(w)
  <2>1. \/ Rest(w) \/ \E q, l : Commit(w, q, l)
        \/ \E s \in {"readReady", "judged", "lostRelease", "lostLease", "lostCheck", "lostFile", "cancel"} : Go(w, s)
    BY <1>4 DEF Finishing, FinishReadsClaim, FinishReadsReady, LostRelease, LostLease, LostCheck, LostFile,
       FinishArchives, FinishCancels
  <2>2. ASSUME NEW s \in {"readReady", "judged", "lostRelease", "lostLease", "lostCheck", "lostFile", "cancel"}, Go(w, s)
        PROVE  Others(w) /\ pc'[w] \notin ClaimPass \union {"giveBack", "publish"}
    <3>1. pc'[w] = s
      BY <2>2 DEF Go, At, ProcTypes
    <3> QED BY <2>2, <3>1, OthersStay DEF ClaimPass
  <2> QED BY <1>1, <2>1, <2>2
<1> QED BY <1>2, <1>3, <1>4 DEF Running

LEMMA ClaimerActs == ASSUME ProcTypes, NEW w \in Workers, Claiming(w) PROVE Others(w)
<1>1. Rest(w) \/ (\E s : Go(w, s)) \/ UNCHANGED procs
      \/ /\ UNCHANGED <<status, plan>> /\ \E s : pc' = At(w, s)
         /\ snap' = snap \/ \E c : snap' = [snap EXCEPT ![w] = c]
  BY DEF Claiming, DropWithdrawnReady, ClaimRename, ClaimCommit, ClaimRefused, ClaimPersist, ClaimLease, ClaimUnwound
<1>2. CASE UNCHANGED procs
  BY <1>2 DEF procs, Others
<1>3. CASE /\ UNCHANGED <<status, plan>> /\ \E s : pc' = At(w, s)
           /\ snap' = snap \/ \E c : snap' = [snap EXCEPT ![w] = c]
  BY <1>3 DEF ProcTypes, Others, At
<1> QED BY <1>1, <1>2, <1>3, OthersStay, Named

LEMMA TailActs == ASSUME ProcTypes, NEW p \in Procs, Committing(p) \/ Crash(p) PROVE Others(p)
<1>1. Rest(p) \/ (\E s : Go(p, s))
      \/ /\ pc' = At(p, "giveBack") /\ UNCHANGED <<snap, status>>
         /\ \E q : plan' = [plan EXCEPT ![p] = q]
  BY DEF Committing, Entomb, GiveBack, Unlease, ReleaseReservation, PublishTail, PublishCut, PublishFails, Crash
<1>2. CASE /\ pc' = At(p, "giveBack") /\ UNCHANGED <<snap, status>>
           /\ \E q : plan' = [plan EXCEPT ![p] = q]
  BY <1>2 DEF ProcTypes, Others, At
<1> QED BY <1>1, <1>2, OthersStay

-----------------------------------------------------------------------------
(* Where the item is, and whose the tokens are.                            *)

\* The files of the claimed item: the claim, and the marks it was moved to.
Files == ({claim} \ {NoClaim}) \union {t.rec : t \in tombs}

\* They are all of one generation and one host, the claimant's.
Item ==
    /\ \A a, b \in Files : a.gen = b.gen /\ a.host = b.host
    /\ \A a \in Files : a.by # Nobody => a.host = HostOf[a.by]

\* Tokens are held on that host only, and while there is such a file.
HeldHome == HeldHosts # {} => Files # {} /\ \A a \in Files : HeldHosts \subseteq {a.host}

\* In a claim pass the item is the pass's own.
PassFiles(w) ==
    pc[w] \in ClaimPass =>
        /\ Files # {} /\ HeldHosts \subseteq {HostOf[w]}
        /\ \A a \in Files : a.gen = snap[w].gen /\ a.host = HostOf[w] /\ a.by \in {Nobody, w}
        /\ pc[w] = "renamed" => HeldHosts = {}

\* What is given back is what was moved aside, and a process that publishes and
\* still has its mark has returned the tokens.
TakesBack(p) == pc[p] = "giveBack" => \A t \in OwnTomb(p) : t.rec = plan[p].rec
Returned(p) == pc[p] = "publish" /\ OwnTomb(p) # {} => HeldHosts = {}

\* The reaper resolved the item's host.
ReaperHome == pc[Reaper] # "idle" => \A a \in Files : a.host = plan[Reaper].rec.host

Home ==
    /\ Item /\ HeldHome /\ ReaperHome
    /\ \A w \in Workers : PassFiles(w)
    /\ \A p \in Procs : TakesBack(p) /\ Returned(p)

-----------------------------------------------------------------------------
LEMMA FilesOf ==
    ASSUME TypeOK, Marks
    PROVE  /\ claim # NoClaim => claim \in Files
           /\ \A t \in tombs : t.rec \in Files
           /\ \A a \in Files : a \in Claims /\ a # NoClaim
<1>1. claim \in Claims /\ \A t \in tombs : t.rec \in Claims /\ t.rec # NoClaim
  BY TombParts DEF TypeOK, Marks
<1> QED BY <1>1 DEF Files

\* Tokens that are returned are gone, and nobody else's with them.
LEMMA ReturnedTokens ==
    ASSUME held \in [Hosts -> SUBSET (1..MaxClaims)], NEW h, held' = Released(h)
    PROVE  HeldHosts' \subseteq HeldHosts \ {h}
BY DEF Released, HeldHosts

\* The mark of a process that carries out its plan.
LEMMA OwnHost ==
    ASSUME TypeInv, Home, NEW p \in Procs, pc[p] \in Handling, NEW t \in OwnTomb(p)
    PROVE  /\ t.rec \in Files /\ t.rec.host = plan[p].rec.host /\ (p \in Workers => t.rec.by = p)
           /\ HeldHosts \subseteq {plan[p].rec.host}
<1>1. t \in tombs /\ t.rec.by = plan[p].rec.by /\ t.rec \in Files
  BY FilesOf DEF OwnTomb, SameClaim, TypeInv
<1>2. t.rec.host = plan[p].rec.host /\ (p \in Workers => t.rec.by = p)
  <2>1. CASE p \in Workers
    <3>1. plan[p].rec = snap[p] /\ snap[p].by = p /\ snap[p].host = HostOf[p] /\ p # Nobody
      BY <2>1, Named DEF TypeInv, Bearings, WorkerBears, Handling
    <3> QED BY <1>1, <3>1 DEF Home, Item
  <2>2. CASE p = Reaper
    BY <1>1, <2>2, StepsAre, QueueAssumption DEF Home, ReaperHome
  <2> QED BY <2>1, <2>2 DEF Procs
<1>3. HeldHosts \subseteq {plan[p].rec.host}
  BY <1>1, <1>2 DEF Home, HeldHome
<1> QED BY <1>1, <1>2, <1>3

\* Nobody else who carries out a plan has a mark while a claim pass is under way.
LEMMA NotInPass ==
    ASSUME TypeInv, PassInv, Home, NEW w \in Workers, pc[w] \in ClaimPass,
           NEW p \in Procs, p # w, pc[p] \in Handling
    PROVE  OwnTomb(p) = {}
<1> SUFFICES ASSUME NEW t \in OwnTomb(p) PROVE FALSE
  OBVIOUS
<1>1. t.rec \in Files /\ (p \in Workers => t.rec.by = p)
  BY OwnHost
<1>2. lock = w /\ w # Reaper /\ t.rec.by \in {Nobody, w}
  BY <1>1, WorkersAre DEF PassInv, Home, PassFiles
<1>3. p \in Workers
  BY <1>2, StepsAre DEF TypeInv, Bearings, ReaperBears, Procs
<1> QED BY <1>1, <1>2, <1>3, Named

\* A step outside the claim pass that adds no file and no token.
LEMMA HomeOn ==
    ASSUME TypeInv, Home, NEW p \in Procs, Others(p), Files' \subseteq Files, HeldHosts' \subseteq HeldHosts,
           HeldHosts' # {} => Files' # {},
           \A w \in Workers \ {p} : pc[w] \in ClaimPass => Files' # {},
           \A t \in tombs' : t \in tombs \/ t.who = p,
           pc'[p] \notin ClaimPass, TakesBack(p)', Returned(p)', p = Reaper => ReaperHome'
    PROVE  Home'
<1>1. Item'
  BY DEF Home, Item
<1>2. HeldHome'
  BY DEF Home, HeldHome
<1>3. ASSUME NEW w \in Workers PROVE PassFiles(w)'
  <2>1. CASE w # p
    <3>1. pc'[w] = pc[w] /\ snap'[w] = snap[w] /\ PassFiles(w)
      BY <2>1, Named DEF Others, Home
    <3>2. pc[w] \in ClaimPass => Files' # {}
      BY <2>1
    <3> QED BY <3>1, <3>2 DEF PassFiles
  <2> QED BY <2>1 DEF PassFiles
<1>4. ASSUME NEW q \in Procs PROVE TakesBack(q)' /\ Returned(q)'
  <2>1. CASE q # p
    <3>1. pc'[q] = pc[q] /\ plan'[q] = plan[q] /\ TakesBack(q) /\ Returned(q)
      BY <2>1 DEF Others, Home
    <3>2. OwnTomb(q)' \subseteq OwnTomb(q)
      BY <2>1, <3>1 DEF OwnTomb
    <3> QED BY <3>1, <3>2 DEF TakesBack, Returned
  <2> QED BY <2>1
<1>5. ReaperHome'
  <2>1. CASE p # Reaper
    <3>1. pc'[Reaper] = pc[Reaper] /\ plan'[Reaper] = plan[Reaper]
      BY <2>1 DEF Others, Procs
    <3> QED BY <3>1 DEF Home, ReaperHome
  <2> QED BY <2>1
<1> QED BY <1>1, <1>2, <1>3, <1>4, <1>5 DEF Home

\* One that leaves the files where they are.
LEMMA HomeSame ==
    ASSUME TypeInv, Home, NEW p \in Procs, Others(p), Files' = Files, HeldHosts' \subseteq HeldHosts,
           \A t \in tombs' : t \in tombs \/ t.who = p,
           pc'[p] \notin ClaimPass, TakesBack(p)', Returned(p)', p = Reaper => ReaperHome'
    PROVE  Home'
<1>1. (HeldHosts' # {} => Files' # {}) /\ \A w \in Workers : pc[w] \in ClaimPass => Files' # {}
  BY DEF Home, HeldHome, PassFiles
<1> QED BY <1>1, HomeOn

\* A process that returns has nothing more to do with the files.
LEMMA HomeRest ==
    ASSUME TypeInv, Home, NEW p \in Procs, Rest(p), Files' \subseteq Files, HeldHosts' \subseteq HeldHosts,
           HeldHosts' # {} => Files' # {},
           \A w \in Workers \ {p} : pc[w] \in ClaimPass => Files' # {},
           tombs' \subseteq tombs
    PROVE  Home'
<1>1. Others(p) /\ pc'[p] = "idle"
  BY RestIs, TypesAre DEF TypeInv
<1>2. TakesBack(p)' /\ Returned(p)' /\ (p = Reaper => ReaperHome') /\ pc'[p] \notin ClaimPass
  BY <1>1 DEF TakesBack, Returned, ReaperHome, ClaimPass
<1> QED BY <1>1, <1>2, HomeOn

\* A step of a worker that has the lock for its claim pass.
LEMMA HomePass ==
    ASSUME TypeInv, PassInv, Home, NEW w \in Workers, Others(w), pc[w] \in ClaimPass \/ (Unlocked /\ tombs = {}),
           lock \in {w, Nobody}, tombs' = tombs, pc'[w] \notin {"giveBack", "publish"},
           Item', HeldHome', PassFiles(w)'
    PROVE  Home'
<1>1. pc[Reaper] = "idle" /\ w # Reaper /\ w \in Procs /\ Reaper \in Procs
  BY WorkersAre, QueueAssumption DEF TypeInv, Bearings, ReaperBears, Procs, Nobody
<1>2. ASSUME NEW v \in Workers PROVE PassFiles(v)'
  <2>1. CASE v # w
    <3>1. pc'[v] = pc[v] /\ pc[v] \notin ClaimPass
      BY <2>1, Named DEF Others, PassInv
    <3> QED BY <3>1 DEF PassFiles
  <2> QED BY <2>1
<1>3. ASSUME NEW q \in Procs PROVE TakesBack(q)' /\ Returned(q)'
  <2>1. CASE q # w
    <3>1. pc'[q] = pc[q] /\ OwnTomb(q)' = OwnTomb(q) /\ plan'[q] = plan[q]
      BY <2>1 DEF Others, OwnTomb
    <3>2. pc[q] = "publish" => OwnTomb(q) = {}
      BY <2>1, NotInPass DEF Handling, OwnTomb
    <3> QED BY <3>1, <3>2 DEF TakesBack, Returned, Home
  <2> QED BY <2>1 DEF TakesBack, Returned
<1>4. ReaperHome'
  BY <1>1 DEF Others, ReaperHome
<1> QED BY <1>2, <1>3, <1>4 DEF Home

LEMMA HomeStill == ASSUME Home, UNCHANGED <<claim, tombs, held, pc, snap, plan>> PROVE Home'
<1>1. Files' = Files /\ HeldHosts' = HeldHosts /\ \A p \in Procs : OwnTomb(p)' = OwnTomb(p)
  BY DEF Files, HeldHosts, OwnTomb
<1>2. Item' /\ HeldHome' /\ ReaperHome'
  BY <1>1 DEF Home, Item, HeldHome, ReaperHome
<1>3. \A w \in Workers : PassFiles(w)'
  BY <1>1 DEF Home, PassFiles
<1>4. \A p \in Procs : TakesBack(p)' /\ Returned(p)'
  BY <1>1 DEF Home, TakesBack, Returned
<1> QED BY <1>2, <1>3, <1>4 DEF Home

-----------------------------------------------------------------------------
(* The actions.                                                            *)

\* What a claim pass does to the files: they are its own before and after.
LEMMA HomeClaiming ==
    ASSUME TypeInv, PassInv, Home, NEW w \in Workers, Claiming(w) PROVE Home'
<1> SUFFICES ASSUME w \in Procs, w # Nobody, w # Reaper, ProcTypes, TypeOK, Others(w), Item, HeldHome,
                    held \in [Hosts -> SUBSET (1..MaxClaims)]
             PROVE  Home'
  BY Named, WorkersAre, TypesAre, ClaimerActs DEF TypeInv, Home, TypeOK
<1> DEFINE Mine(a) == a.gen = snap[w].gen /\ a.host = HostOf[w] /\ a.by \in {Nobody, w}
<1>1. pc[w] \in ClaimPass => /\ lock = w /\ Files # {} /\ HeldHosts \subseteq {HostOf[w]}
                             /\ (\A a \in Files : Mine(a)) /\ (\A v \in Workers \ {w} : pc[v] \notin ClaimPass)
  BY DEF PassInv, Home, PassFiles
<1>2. ASSUME \A a \in Files' : Mine(a) PROVE Item'
  BY <1>2 DEF Item
<1>3. ASSUME pc[w] \in ClaimPass, Rest(w), Files' \subseteq Files, HeldHosts' = {}, tombs' = tombs PROVE Home'
  BY <1>1, <1>3, HomeRest
<1> HIDE DEF Mine
<1>4. CASE DropWithdrawnReady(w)
  BY <1>4, HomeStill DEF DropWithdrawnReady, procs
<1>5. CASE ClaimRename(w)
  <2> DEFINE c == Raw(ready, HostOf[w])
  <2> SUFFICES ASSUME /\ Unlocked /\ tombs = {} /\ claim = NoClaim /\ claim' = c /\ UNCHANGED <<tombs, held>>
                      /\ snap' = [snap EXCEPT ![w] = c] /\ pc' = At(w, "renamed") /\ ready # NoRow
               PROVE  Home'
    BY <1>5 DEF ClaimRename
  <2>1. c # NoClaim /\ c.by = Nobody /\ c.host = HostOf[w]
    <3>1. ready.gen \in Gens /\ ready.att \in Charged
      BY RowParts DEF TypeOK
    <3> QED BY <3>1, RawMade, HostsAre
  <2> HIDE DEF c
  <2>2. Files = {} /\ Files' = {c} /\ HeldHosts' = HeldHosts
    BY <2>1 DEF Files, HeldHosts
  <2>3. HeldHosts = {}
    BY <2>2 DEF HeldHome
  <2>4. snap'[w] = c /\ pc'[w] = "renamed"
    BY DEF ProcTypes, At
  <2>5. Item' /\ HeldHome' /\ PassFiles(w)'
    BY <2>1, <2>2, <2>3, <2>4 DEF Item, HeldHome, PassFiles
  <2> QED BY <2>4, <2>5, HomePass DEF Unlocked
<1>6. CASE ClaimCommit(w)
  <2>1. /\ pc[w] = "renamed" /\ UNCHANGED <<claim, tombs, snap>> /\ pc'[w] = "committed"
        /\ held' = [held EXCEPT ![HostOf[w]] = @ \union {claims + 1}]
    BY <1>6 DEF ClaimCommit, Go, At, ProcTypes
  <2>2. HeldHosts = {} /\ pc[w] \in ClaimPass
    BY <2>1 DEF Home, PassFiles, ClaimPass
  <2>3. HeldHosts' \subseteq {HostOf[w]}
    BY <2>1, <2>2 DEF HeldHosts
  <2>4. Files' = Files
    BY <2>1 DEF Files
  <2>5. Item' /\ HeldHome' /\ PassFiles(w)'
    BY <1>1, <2>1, <2>2, <2>3, <2>4 DEF Item, HeldHome, PassFiles, Mine
  <2> QED BY <1>1, <2>1, <2>2, <2>5, HomePass
<1>7. CASE ClaimRefused(w)
  <2>1. /\ pc[w] \in {"renamed", "committed"} /\ Rest(w) /\ tombs' = tombs /\ LinkReady(claim)
        /\ held' = IF pc[w] = "committed" THEN Released(HostOf[w]) ELSE held
    BY <1>7 DEF ClaimRefused
  <2>2. pc[w] \in ClaimPass /\ (pc[w] = "renamed" => HeldHosts = {})
    BY <2>1 DEF ClaimPass, Home, PassFiles
  <2>3. HeldHosts' = {}
    <3>1. CASE pc[w] = "committed"
      BY <1>1, <2>1, <2>2, <3>1, ReturnedTokens
    <3>2. CASE pc[w] # "committed"
      BY <2>1, <2>2, <3>2 DEF HeldHosts
    <3> QED BY <3>1, <3>2
  <2>4. Files' \subseteq Files
    BY <2>1 DEF LinkReady, Files
  <2> QED BY <1>3, <2>1, <2>2, <2>3, <2>4
<1>8. CASE ClaimPersist(w)
  <2>1. pc[w] = "committed" /\ pc[w] \in ClaimPass /\ tombs' = tombs
    BY <1>8 DEF ClaimPersist, ClaimPass
  <2>2. CASE Rest(w) /\ held' = Released(HostOf[w]) /\ claim' = NoClaim
    <3>1. HeldHosts' = {}
      BY <1>1, <2>1, <2>2, ReturnedTokens
    <3>2. Files' \subseteq Files
      BY <2>1, <2>2 DEF Files
    <3> QED BY <1>3, <2>1, <2>2, <3>1, <3>2
  <2>3. CASE ~ (Rest(w) /\ held' = Released(HostOf[w]) /\ claim' = NoClaim)
    <3> DEFINE c == ClaimRec(snap[w].gen, snap[w].att, claims, w, HostOf[w])
    <3> SUFFICES ASSUME /\ claim' = c /\ snap' = [snap EXCEPT ![w] = c] /\ pc' = At(w, "persisted") /\ held' = held
                 PROVE  Home'
      BY <1>8, <2>3 DEF ClaimPersist
    <3>1. c # NoClaim /\ c.gen = snap[w].gen /\ c.host = HostOf[w] /\ c.by = w
      BY SMT DEF ClaimRec, NoClaim, Nobody
    <3> HIDE DEF c
    <3>2. /\ c \in Files' /\ \A a \in Files' : a \in Files \/ a = c
      BY <2>1, <3>1 DEF Files
    <3>3. \A a \in Files' : Mine(a)
      BY <1>1, <2>1, <3>1, <3>2 DEF Mine
    <3>4. HeldHosts' = HeldHosts /\ snap'[w] = c /\ pc'[w] = "persisted"
      BY DEF HeldHosts, ProcTypes, At
    <3>5. HeldHome' /\ PassFiles(w)'
      BY <1>1, <2>1, <3>1, <3>2, <3>3, <3>4 DEF HeldHome, PassFiles, Mine
    <3> QED BY <1>1, <1>2, <2>1, <3>3, <3>4, <3>5, HomePass
  <2> QED BY <2>2, <2>3
<1>9. CASE ClaimLease(w)
  <2>1. UNCHANGED <<claim, tombs, held>> /\ pc'[w] = "leased"
    BY <1>9 DEF ClaimLease, At, ProcTypes
  <2>2. Files' = Files /\ HeldHosts' = HeldHosts
    BY <2>1 DEF Files, HeldHosts
  <2> QED BY <2>1, <2>2, HomeSame DEF ClaimPass, TakesBack, Returned
<1>10. CASE ClaimUnwound(w)
  <2> DEFINE c == Raw(snap[w], HostOf[w])
  <2>1. /\ pc[w] = "persisted" /\ pc[w] \in ClaimPass /\ Rest(w) /\ tombs' = tombs /\ held' = Released(HostOf[w])
        /\ claim' \in {claim, c, NoClaim}
    BY <1>10 DEF ClaimUnwound, LinkReady, ClaimPass
  <2>2. c.gen = snap[w].gen /\ c.host = HostOf[w] /\ c.by = Nobody
    BY DEF Raw, ClaimRec
  <2> HIDE DEF c
  <2>3. HeldHosts' = {}
    BY <1>1, <2>1, ReturnedTokens
  <2>4. \A a \in Files' : a \in Files \/ a = c
    BY <2>1 DEF Files
  <2>5. \A a \in Files' : Mine(a)
    BY <1>1, <2>1, <2>2, <2>4 DEF Mine
  <2>6. HeldHome' /\ pc'[w] = "idle" /\ PassFiles(w)'
    BY <2>1, <2>3, RestIs DEF HeldHome, PassFiles, ClaimPass
  <2> QED BY <1>1, <1>2, <2>1, <2>5, <2>6, HomePass
<1> QED BY <1>4, <1>5, <1>6, <1>7, <1>8, <1>9, <1>10 DEF Claiming

LEMMA HomeWorking ==
    ASSUME TypeInv, Home, NEW w \in Workers, Running(w) \/ Finishing(w) PROVE Home'
<1>1. /\ UNCHANGED <<claim, tombs>> /\ (held' = held \/ held' = Released(HostOf[w]))
  BY DEF Running, Launch, DeferLaunch, Heartbeat, RunEnds, Finishing, FinishReadsClaim, FinishReadsReady,
     LostRelease, LostLease, LostCheck, LostFile, FinishArchives, FinishCancels, rows
<1>2. Files' = Files
  BY <1>1 DEF Files
<1>3. HeldHosts' \subseteq HeldHosts
  <2>1. held \in [Hosts -> SUBSET (1..MaxClaims)]
    BY DEF TypeInv, TypeOK
  <2>2. CASE held' = held
    BY <2>2 DEF HeldHosts
  <2> QED BY <1>1, <2>1, <2>2, ReturnedTokens
<1>4. Others(w) /\ pc'[w] \notin ClaimPass \union {"giveBack", "publish"} /\ w \in Procs /\ w # Reaper
  BY WorkerActs, WorkersAre, TypesAre DEF TypeInv
<1> QED BY <1>1, <1>2, <1>3, <1>4, HomeSame DEF TakesBack, Returned

LEMMA PlanFor == ASSUME NEW k, NEW c, NEW d PROVE Plan(k, c, d).rec = c
BY SMT DEF Plan

\* A claim that comes back from its mark.
LEMMA FilesSwap ==
    ASSUME claim = NoClaim, NEW S \in SUBSET tombs, S # {}, NEW c, c # NoClaim, \A t \in S : t.rec = c,
           claim' = c, tombs' = tombs \ S
    PROVE  Files' = Files
<1>1. Files' = {c} \union {t.rec : t \in tombs \ S} /\ Files = {t.rec : t \in tombs}
  <2>1. Files = ({claim} \ {NoClaim}) \union {t.rec : t \in tombs} /\ {claim} \ {NoClaim} = {}
    BY DEF Files
  <2>2. Files' = ({c} \ {NoClaim}) \union {t.rec : t \in tombs \ S} /\ {c} \ {NoClaim} = {c}
    BY DEF Files
  <2> QED BY <2>1, <2>2, SMT
<1>2. ASSUME NEW a \in Files PROVE a \in Files'
  <2>1. PICK t \in tombs : a = t.rec
    BY <1>1
  <2>2. t \in S => a = c
    BY <2>1
  <2> QED BY <1>1, <2>1, <2>2
<1>3. ASSUME NEW a \in Files' PROVE a \in Files
  BY <1>1
<1> QED BY <1>2, <1>3

LEMMA SameRecord ==
    ASSUME NEW a \in Claims, NEW b \in Claims, a # NoClaim, b # NoClaim, SameClaim(a, b), a.host = b.host
    PROVE  a = b
BY SMT DEF Claims, SameClaim

\* A process that returns and takes its mark with it has returned the tokens.
LEMMA HomeDrops ==
    ASSUME TypeInv, PassInv, Home, NEW p \in Procs, pc[p] \in Handling, Rest(p), claim' = claim,
           tombs' = tombs \ OwnTomb(p), HeldHosts' \subseteq HeldHosts, OwnTomb(p) # {} => HeldHosts' = {}
    PROVE  Home'
<1>1. Files' \subseteq Files /\ (OwnTomb(p) = {} => Files' = Files) /\ tombs' \subseteq tombs
  BY DEF Files
<1>2. HeldHosts' # {} => Files' # {}
  BY <1>1 DEF Home, HeldHome
<1>3. \A w \in Workers \ {p} : pc[w] \in ClaimPass => Files' # {}
  BY <1>1, NotInPass DEF Home, PassFiles
<1> QED BY <1>1, <1>2, <1>3, HomeRest

LEMMA HomeReturns ==
    ASSUME TypeInv, Home, NEW p \in Procs, Rest(p), Files' = Files, held' = held, tombs' \subseteq tombs
    PROVE  Home'
<1>1. HeldHosts' = HeldHosts
  BY DEF HeldHosts
<1> QED BY <1>1, HomeRest DEF Home, HeldHome, PassFiles

LEMMA HomeCommitting ==
    ASSUME TypeInv, PassInv, Home, NEW p \in Procs, Committing(p) \/ Crash(p) PROVE Home'
<1> SUFFICES ASSUME ProcTypes, TypeOK, Marks, Bearings, Others(p), held \in [Hosts -> SUBSET (1..MaxClaims)]
             PROVE  Home'
  BY TypesAre, TailActs DEF TypeInv, TypeOK
<1>1. CASE Entomb(p)
  <2>1. held' = held /\ pc[p] = "entomb"
    BY <1>1 DEF Entomb
  <2>2. CASE claim = NoClaim
    <3>1. Rest(p) /\ UNCHANGED <<claim, tombs>>
      BY <1>1, <2>2 DEF Entomb
    <3> QED BY <2>1, <3>1, HomeReturns DEF Files
  <2>3. CASE claim # NoClaim
    <3>1. claim' = NoClaim /\ tombs' = tombs \union {Tomb(claim, p)}
      BY <1>1, <2>3 DEF Entomb
    <3>2. Tomb(claim, p).rec = claim /\ Tomb(claim, p).who = p
      BY DEF Tomb
    <3>3. /\ Files' = Files /\ HeldHosts' = HeldHosts /\ \A t \in tombs' : t \in tombs \/ t.who = p
      BY <2>1, <2>3, <3>1, <3>2 DEF Files, HeldHosts
    <3>4. CASE Go(p, "unlease")
      <4>1. pc'[p] = "unlease" /\ plan' = plan
        BY <3>4, GoIs DEF Steps
      <4>2. p = Reaper => ReaperHome'
        BY <2>1, <3>3, <4>1 DEF Home, ReaperHome
      <4> QED BY <3>3, <4>1, <4>2, HomeSame DEF TakesBack, Returned, ClaimPass
    <3>5. CASE ~ Go(p, "unlease")
      <4>1. pc'[p] = "giveBack" /\ plan'[p] = Plan("none", claim, "none")
        BY <1>1, <2>3, <3>5 DEF Entomb, At, ProcTypes
      <4>2. plan'[p].rec = claim
        <5>1. Plan("none", claim, "none").rec = claim
          BY PlanFor
        <5> QED BY <4>1, <5>1
      <4>3. claim \in Claims /\ claim \in Files /\ \A a \in Files : a \in Claims /\ a # NoClaim /\ a.host = claim.host
        BY <2>3, FilesOf DEF TypeOK, Home, Item
      <4>4. TakesBack(p)'
        <5> SUFFICES ASSUME NEW t \in OwnTomb(p)' PROVE t.rec = claim
          BY <4>2 DEF TakesBack
        <5>1. SameClaim(t.rec, claim) /\ t.rec \in Files
          BY <3>1, <3>2, <4>2, <4>3, FilesOf DEF OwnTomb, SameClaim
        <5> QED BY <2>3, <4>3, <5>1, SameRecord
      <4>5. ReaperHome' \/ p # Reaper
        BY <3>3, <4>2, <4>3 DEF ReaperHome
      <4> QED BY <3>3, <4>1, <4>4, <4>5, HomeSame DEF Returned, ClaimPass
    <3> QED BY <3>4, <3>5
  <2> QED BY <2>2, <2>3
<1>2. CASE GiveBack(p)
  <2>1. pc[p] = "giveBack" /\ Rest(p) /\ held' = held
    BY <1>2 DEF GiveBack
  <2>2. CASE UNCHANGED <<claim, tombs>>
    BY <2>1, <2>2, HomeReturns DEF Files
  <2>3. CASE ~ UNCHANGED <<claim, tombs>>
    <3>1. claim = NoClaim /\ OwnTomb(p) # {} /\ claim' = plan[p].rec /\ tombs' = tombs \ OwnTomb(p)
      BY <1>2, <2>3 DEF GiveBack
    <3>2. plan[p].rec # NoClaim /\ \A t \in OwnTomb(p) : t \in tombs /\ t.rec = plan[p].rec
      BY <2>1, PlanOf DEF Home, TakesBack, OwnTomb
    <3>3. Files' = Files
      <4> DEFINE S == OwnTomb(p)
      <4>1. S \in SUBSET tombs
        BY DEF OwnTomb
      <4>2. S # {} /\ tombs' = tombs \ S /\ \A t \in S : t.rec = plan[p].rec
        BY <3>1, <3>2
      <4> HIDE DEF S
      <4> QED BY <3>1, <3>2, <4>1, <4>2, FilesSwap
    <3> QED BY <2>1, <3>1, <3>3, HomeReturns
  <2> QED BY <2>2, <2>3
<1>3. CASE Unlease(p)
  <2>1. UNCHANGED <<claim, tombs, held, plan>> /\ pc'[p] = "release" /\ pc[p] = "unlease"
    BY <1>3, GoIs DEF Unlease, Steps
  <2>2. Files' = Files /\ HeldHosts' = HeldHosts
    BY <2>1 DEF Files, HeldHosts
  <2>3. p = Reaper => ReaperHome'
    BY <2>1, <2>2 DEF Home, ReaperHome
  <2> QED BY <2>1, <2>2, <2>3, HomeSame DEF TakesBack, Returned, ClaimPass
<1>4. CASE ReleaseReservation(p)
  <2>1. pc[p] = "release" /\ held' = Released(plan[p].rec.host) /\ claim' = claim
    BY <1>4 DEF ReleaseReservation
  <2>2. HeldHosts' \subseteq HeldHosts \ {plan[p].rec.host}
    BY <2>1, ReturnedTokens
  <2>3. OwnTomb(p) # {} => HeldHosts' = {}
    BY <2>1, <2>2, OwnHost DEF Handling
  <2>4. CASE Rest(p) /\ tombs' = tombs \ OwnTomb(p)
    BY <2>1, <2>2, <2>3, <2>4, HomeDrops DEF Handling
  <2>5. CASE Go(p, "publish") /\ tombs' = tombs
    <3>1. pc'[p] = "publish" /\ plan' = plan
      BY <2>5, GoIs DEF Steps
    <3>2. Files' = Files /\ OwnTomb(p)' = OwnTomb(p)
      BY <2>1, <2>5, <3>1 DEF Files, OwnTomb
    <3>3. p = Reaper => ReaperHome'
      BY <2>1, <3>1, <3>2 DEF Home, ReaperHome
    <3> QED BY <2>2, <2>3, <2>5, <3>1, <3>2, <3>3, HomeSame DEF TakesBack, Returned, ClaimPass
  <2> QED BY <1>4, <2>4, <2>5 DEF ReleaseReservation
<1>5. CASE PublishTail(p)
  <2>1. /\ pc[p] = "publish" /\ Rest(p) /\ UNCHANGED <<claim, held>>
        /\ tombs' = tombs \/ tombs' = tombs \ OwnTomb(p)
    BY <1>5 DEF PublishTail
  <2>2. CASE tombs' = tombs
    BY <2>1, <2>2, HomeReturns DEF Files
  <2>3. CASE tombs' = tombs \ OwnTomb(p)
    <3>1. HeldHosts' = HeldHosts /\ (OwnTomb(p) # {} => HeldHosts = {})
      BY <2>1 DEF HeldHosts, Home, Returned
    <3> QED BY <2>1, <2>3, <3>1, HomeDrops DEF Handling
  <2> QED BY <2>1, <2>2, <2>3
<1>6. CASE PublishCut(p) \/ Crash(p)
  <2>1. Rest(p) /\ UNCHANGED <<claim, tombs, held>>
    BY <1>6 DEF PublishCut, Crash, rows
  <2> QED BY <2>1, HomeReturns DEF Files
<1>7. CASE PublishFails(p)
  <2>1. Rest(p) /\ held' = held
    BY <1>7 DEF PublishFails
  <2>2. CASE UNCHANGED <<claim, tombs>>
    BY <2>1, <2>2, HomeReturns DEF Files
  <2>3. ASSUME NEW t \in tombs, claim = NoClaim, claim' = t.rec, tombs' = tombs \ {t} PROVE Home'
    <3>1. t.rec # NoClaim
      BY DEF Marks
    <3>2. Files' = Files
      <4>1. {t} \in SUBSET tombs /\ {t} # {} /\ \A u \in {t} : u.rec = t.rec
        OBVIOUS
      <4> QED BY <2>3, <3>1, <4>1, FilesSwap
    <3> QED BY <2>1, <2>3, <3>2, HomeReturns
  <2> QED BY <1>7, <2>2, <2>3 DEF PublishFails, OwnTomb
<1> QED BY <1>1, <1>2, <1>3, <1>4, <1>5, <1>6, <1>7 DEF Committing

\* The host the reaper resolves is the item's.
LEMMA HolderHome == ASSUME TypeInv, Home, claim # NoClaim PROVE HolderOf(claim) = claim.host /\ claim \in Files
<1>1. claim \in Files /\ (HeldHosts # {} => HeldHosts \subseteq {claim.host})
  BY FilesOf DEF TypeInv, Home, HeldHome
<1>2. CASE HeldHosts # {}
  <2>1. (CHOOSE h \in HeldHosts : TRUE) \in HeldHosts
    BY <1>2
  <2> QED BY <1>1, <1>2, <2>1 DEF HolderOf
<1>3. CASE HeldHosts = {}
  BY <1>1, <1>3 DEF HolderOf
<1> QED BY <1>1, <1>2, <1>3

\* What the reaper does in one step, under the free lock.
LEMMA HomeSweep ==
    ASSUME TypeInv, PassInv, Home, Unlocked, pc[Reaper] = "idle", UNCHANGED procs, Files' \subseteq Files,
           HeldHosts' \subseteq HeldHosts, HeldHosts' # {} => Files' # {}, tombs' \subseteq tombs
    PROVE  Home'
<1>1. UNCHANGED <<pc, snap, status, plan>> /\ Reaper \in Procs /\ Others(Reaper)
  BY DEF procs, Others, Procs
<1>2. \A w \in Workers : pc[w] \notin ClaimPass
  BY Named DEF Unlocked, PassInv
<1> QED BY <1>1, <1>2, HomeOn DEF TakesBack, Returned, ReaperHome, ClaimPass

LEMMA HomeReaping == ASSUME TypeInv, PassInv, Home, Reaping PROVE Home'
<1> SUFFICES ASSUME ProcTypes, TypeOK, Marks, Reaper \in Procs, held \in [Hosts -> SUBSET (1..MaxClaims)]
             PROVE  Home'
  BY TypesAre DEF TypeInv, TypeOK, Procs
<1>1. CASE ReapTerminal
  <2>1. /\ Unlocked /\ pc[Reaper] = "idle" /\ claim # NoClaim /\ UNCHANGED <<procs, tombs>>
        /\ held' = Released(HolderOf(claim)) /\ claim' = NoClaim
    BY <1>1 DEF ReapTerminal, ReapableClaim
  <2>2. HeldHosts' = {}
    BY <2>1, HolderHome, ReturnedTokens DEF Home, HeldHome
  <2>3. Files' \subseteq Files
    BY <2>1 DEF Files
  <2> QED BY <2>1, <2>2, <2>3, HomeSweep
<1>2. CASE ReapWithdrawn \/ ReapUnstarted \/ ReapExpired
  <2>1. /\ ReapableClaim /\ UNCHANGED <<claim, tombs, held>>
        /\ \E k, d : Commit(Reaper, Plan(k, Judged, d), Reaper)
    BY <1>2 DEF ReapWithdrawn, ReapUnstarted, ReapExpired, rows
  <2>2. PICK k, d : Commit(Reaper, Plan(k, Judged, d), Reaper)
    BY <2>1
  <2>3. Files' = Files /\ HeldHosts' = HeldHosts
    BY <2>1 DEF Files, HeldHosts
  <2>4. pc'[Reaper] = "entomb" /\ plan'[Reaper] = Plan(k, Judged, d) /\ Others(Reaper)
    BY <2>2, OthersStay DEF Commit, At, ProcTypes
  <2>5. plan'[Reaper].rec.host = HolderOf(claim)
    <3>1. Plan(k, Judged, d).rec = Judged /\ Judged.host = HolderOf(claim)
      BY PlanFor DEF Judged, ClaimRec
    <3> QED BY <2>4, <3>1
  <2>6. ReaperHome'
    BY <2>1, <2>3, <2>5, HolderHome DEF ReapableClaim, ReaperHome, Home, Item
  <2> QED BY <2>1, <2>3, <2>4, <2>6, HomeSame DEF TakesBack, Returned, ClaimPass
<1>3. CASE SweepWidowedLease
  <2>1. /\ Unlocked /\ pc[Reaper] = "idle" /\ UNCHANGED <<procs, claim, tombs>> /\ held' = Released(HolderOf(lease))
    BY <1>3 DEF SweepWidowedLease
  <2>2. HeldHosts' \subseteq HeldHosts /\ Files' = Files
    BY <2>1, ReturnedTokens DEF Files
  <2> QED BY <2>1, <2>2, HomeSweep DEF Home, HeldHome
<1>4. ASSUME NEW t \in tombs, RestoreTomb(t) PROVE Home'
  <2>1. /\ Unlocked /\ pc[Reaper] = "idle" /\ UNCHANGED <<procs, held>> /\ claim = NoClaim
        /\ claim' = t.rec /\ tombs' = tombs \ {t} /\ t.rec # NoClaim
    BY <1>4 DEF RestoreTomb, SweepableTomb, KeyIsLive, Marks
  <2>2. {t} \in SUBSET tombs /\ {t} # {} /\ \A u \in {t} : u.rec = t.rec
    OBVIOUS
  <2>3. HeldHosts' = HeldHosts /\ Files' = Files
    BY <2>1, <2>2, FilesSwap DEF HeldHosts
  <2> QED BY <2>1, <2>3, HomeSweep DEF Home, HeldHome
<1>5. ASSUME NEW t \in tombs, RetireTomb(t) PROVE Home'
  <2>1. /\ Unlocked /\ pc[Reaper] = "idle" /\ UNCHANGED <<procs, claim>> /\ tombs' = tombs \ {t}
        /\ held' = IF claim = NoClaim THEN [h \in Hosts |-> {}] ELSE held
    BY <1>5 DEF RetireTomb, SweepableTomb, SweepReturns
  <2>2. Files' \subseteq Files /\ (claim # NoClaim => Files' # {})
    BY <2>1 DEF Files
  <2>3. HeldHosts' \subseteq HeldHosts /\ (claim = NoClaim => HeldHosts' = {})
    BY <2>1 DEF HeldHosts
  <2> QED BY <2>1, <2>2, <2>3, HomeSweep
<1> QED BY <1>1, <1>2, <1>3, <1>4, <1>5 DEF Reaping

LEMMA HomeStep == TypeInv /\ PassInv /\ Home /\ [Next]_vars => Home'
<1> SUFFICES ASSUME TypeInv, PassInv, Home, [Next]_vars PROVE Home'
  OBVIOUS
<1>1. CASE Publish \/ Withdraw \/ UNCHANGED vars
  BY <1>1, HomeStill DEF Publish, Withdraw, vars, rows, procs
<1>2. CASE \E w \in Workers : Claiming(w) \/ Running(w) \/ Finishing(w)
  BY <1>2, HomeClaiming, HomeWorking
<1>3. CASE \E p \in Procs : Committing(p) \/ Crash(p)
  BY <1>3, HomeCommitting
<1>4. CASE Reaping
  BY <1>4, HomeReaping
<1> QED BY <1>1, <1>2, <1>3, <1>4 DEF Next

LEMMA HomeInit == Init => Home
<1> SUFFICES ASSUME Init PROVE Home
  OBVIOUS
<1>1. Files = {} /\ HeldHosts = {} /\ \A p \in Procs : pc[p] = "idle"
  BY DEF Init, Files, HeldHosts
<1> QED BY <1>1, Named DEF Home, Item, HeldHome, ReaperHome, PassFiles, TakesBack, Returned, ClaimPass, Procs

-----------------------------------------------------------------------------
(* What became of a publication.                                           *)

Archive ==
    /\ archive = [a \in Gens \X Attempts |-> archive[a]]
    /\ gens <= MaxGens

\* An archived ending is never taken back: the first writer of an attempt wins.
LEMMA EndingStays ==
    ASSUME Archive, NEW g \in Gens, ArchivedEnding(g),
           archive' = archive \/ \E h, n, d : archive' = Archived(h, n, d)
    PROVE  ArchivedEnding(g)'
<1>1. PICK m \in Attempts : archive[<<g, m>>] \in {"done", "failed"}
  BY DEF ArchivedEnding
<1>2. CASE archive' = archive
  BY <1>1, <1>2 DEF ArchivedEnding
<1>3. ASSUME NEW h, NEW n, NEW d, archive' = Archived(h, n, d)
      PROVE  archive'[<<g, m>>] = archive[<<g, m>>]
  <2>1. CASE archive[<<h, n>>] = "none"
    <3>1. archive' = [archive EXCEPT ![<<h, n>>] = d]
      BY <1>3, <2>1 DEF Archived
    <3>2. <<h, n>> # <<g, m>> /\ <<g, m>> \in Gens \X Attempts
      BY <1>1, <2>1
    <3> QED BY <3>1, <3>2 DEF Archive
  <2>2. CASE archive[<<h, n>>] # "none"
    BY <1>3, <2>2 DEF Archived
  <2> QED BY <2>1, <2>2
<1>4. archive'[<<g, m>>] \in {"done", "failed"} \/ archive' = archive
  BY <1>1, <1>3
<1> QED BY <1>2, <1>4 DEF ArchivedEnding

\* A row or a file of the generation is there; what is said of it without one.
Placed(g) == g = ready.gen \/ \E a \in Files : a.gen = g
Settled(g) ==
    \/ launched[g] > 0
    \/ g \in decided \union supers \union replaced
    \/ ArchivedEnding(g)

\* The steps of a worker after its launch.
Ran == {"running", "read", "readReady", "judged", "cancel",
        "lostRelease", "lostLease", "lostCheck", "lostFile"}
Started(w) == pc[w] \in Ran => launched[snap[w].gen] > 0 \/ snap[w].gen \in decided

\* A plan to file a terminal has the attempt in the archive.
Concluded(p) ==
    pc[p] \in Handling /\ plan[p].disp \in {"done", "failed"} => ArchivedEnding(plan[p].rec.gen)

Story ==
    /\ \A g \in 1..gens : Placed(g) \/ Settled(g)
    /\ \A g \in {done, failed} \ {0} : Settled(g)
    /\ \A w \in Workers : Started(w)
    /\ \A p \in Procs : Concluded(p)

\* The archive changes by one attempt or not at all, and nothing that was said of
\* a generation is taken back.
LEMMA Records ==
    ASSUME TypeInv, Next
    PROVE  /\ archive' = archive \/ \E h, n, d : archive' = Archived(h, n, d)
           /\ supers \subseteq supers' /\ replaced \subseteq replaced'
           /\ launched' = launched \/ \E w \in Workers : Launch(w)
<1> DEFINE Good == /\ archive' = archive \/ \E h, n, d : archive' = Archived(h, n, d)
                   /\ supers \subseteq supers' /\ replaced \subseteq replaced'
                   /\ launched' = launched \/ \E w \in Workers : Launch(w)
<1>1. ASSUME Publish \/ Withdraw PROVE Good
  BY <1>1 DEF Publish, Withdraw, endings, counts
<1>2. ASSUME NEW w \in Workers, Claiming(w) PROVE Good
  BY <1>2 DEF Claiming, DropWithdrawnReady, ClaimRename, ClaimCommit, ClaimRefused, ClaimPersist, ClaimLease,
     ClaimUnwound, endings, counts
<1>3. ASSUME NEW w \in Workers, Running(w) PROVE Good
  BY <1>3 DEF Running, DeferLaunch, Heartbeat, RunEnds, Launch, endings, counts
<1>4. ASSUME NEW w \in Workers, Finishing(w) PROVE Good
  <2>1. archive' = archive \/ \E h, n, d : archive' = Archived(h, n, d)
    BY <1>4, LateIs DEF Finishing, FinishReadsClaim, FinishReadsReady, LostRelease, LostLease, LostCheck, LostFile,
       FinishArchives, FinishCancels, endings
  <2>2. UNCHANGED <<supers, replaced, launched>>
    BY <1>4 DEF Finishing, FinishReadsClaim, FinishReadsReady, LostRelease, LostLease, LostCheck, LostFile,
       FinishArchives, FinishCancels, endings, counts
  <2> QED BY <2>1, <2>2
<1>5. ASSUME NEW p \in Procs, Committing(p) \/ Crash(p) PROVE Good
  <2>1. UNCHANGED <<archive, replaced, launched>>
    BY <1>5 DEF Committing, Entomb, GiveBack, Unlease, ReleaseReservation, PublishTail, PublishCut, PublishFails,
       Crash, endings, counts
  <2>2. supers' = supers \/ \E b : PublishDestination(p, b)
    BY <1>5 DEF Committing, Entomb, GiveBack, Unlease, ReleaseReservation, PublishTail, PublishCut, PublishFails,
       Crash, endings
  <2>3. supers \subseteq supers'
    BY <2>2 DEF PublishDestination, FileTerminal, Requeue
  <2> QED BY <2>1, <2>3
<1>6. ASSUME Reaping PROVE Good
  BY <1>6 DEF Reaping, ReapTerminal, ReapWithdrawn, ReapUnstarted, ReapExpired, SweepWidowedLease, RestoreTomb,
     RetireTomb, endings, counts
<1> HIDE DEF Good
<1>7. Good
  BY <1>1, <1>2, <1>3, <1>4, <1>5, <1>6 DEF Next
<1> QED BY <1>7 DEF Good

\* A launch is counted.
LEMMA LaunchCounts ==
    ASSUME TypeInv, NEW w \in Workers, Launch(w), NEW g \in Gens
    PROVE  /\ launched[g] > 0 => launched'[g] > 0
           /\ pc'[w] = "running" => launched'[snap[w].gen] > 0
<1>1. /\ pc[w] = "leased" /\ launched \in [Gens -> Nat] /\ ProcTypes /\ w \in Procs
  BY TypesAre, Named DEF Launch, TypeInv, Tally
<1>2. CASE pc' = At(w, "read") /\ launched' = launched
  BY <1>1, <1>2 DEF At, ProcTypes
<1>3. CASE launched' = [launched EXCEPT ![snap[w].gen] = @ + 1]
  <2>1. snap[w].gen \in Gens
    BY <1>1, SnapParts DEF TypeInv
  <2> QED BY <1>1, <1>3, <2>1, SMT
<1> QED BY <1>2, <1>3 DEF Launch

LEMMA DecidedGrows == ASSUME TypeInv, Next PROVE decided \subseteq decided'
<1>1. CASE Publish \/ Withdraw
  BY <1>1, SubmittersKeep DEF TypeInv
<1>2. CASE UNCHANGED decided
  BY <1>2
<1>3. UNCHANGED decided \/ Publish \/ Withdraw
  <2>1. ASSUME NEW w \in Workers, Claiming(w) \/ Running(w) PROVE UNCHANGED decided
    BY <2>1 DEF Claiming, DropWithdrawnReady, ClaimRename, ClaimCommit, ClaimRefused, ClaimPersist, ClaimLease,
       ClaimUnwound, Running, DeferLaunch, Heartbeat, RunEnds, Launch, withdrawals
  <2>2. ASSUME NEW w \in Workers, Finishing(w) PROVE UNCHANGED decided
    BY <2>2 DEF Finishing, FinishReadsClaim, FinishReadsReady, LostRelease, LostLease, LostCheck, LostFile,
       FinishArchives, FinishCancels, withdrawals
  <2>3. ASSUME NEW p \in Procs, Committing(p) \/ Crash(p) PROVE UNCHANGED decided
    BY <2>3 DEF Committing, Entomb, GiveBack, Unlease, ReleaseReservation, PublishTail, PublishCut, PublishFails,
       Crash, withdrawals
  <2>4. CASE Reaping
    BY <2>4 DEF Reaping, ReapTerminal, ReapWithdrawn, ReapUnstarted, ReapExpired, SweepWidowedLease, RestoreTomb,
       RetireTomb, withdrawals
  <2> QED BY <2>1, <2>2, <2>3, <2>4 DEF Next
<1> QED BY <1>1, <1>2, <1>3

LEMMA SettledStays ==
    ASSUME TypeInv, Next, NEW g \in Gens
    PROVE  /\ launched[g] > 0 => launched'[g] > 0
           /\ decided \subseteq decided'
           /\ ArchivedEnding(g) => ArchivedEnding(g)'
           /\ Settled(g) => Settled(g)'
<1>1. launched[g] > 0 => launched'[g] > 0
  BY Records, LaunchCounts
<1>2. decided \subseteq decided'
  BY DecidedGrows
<1>3. ArchivedEnding(g) => ArchivedEnding(g)'
  <2>1. Archive
    <3>1. archive = [a \in Gens \X Attempts |-> archive[a]]
      BY DEF TypeInv, TypeOK
    <3>2. gens \in 0..MaxGens
      BY DEF TypeInv, TypeOK
    <3>3. gens <= MaxGens
      BY <3>2, QueueAssumption, SMT
    <3> QED BY <3>1, <3>3 DEF Archive
  <2> QED BY <2>1, Records, EndingStays
<1> QED BY <1>1, <1>2, <1>3, Records DEF Settled

\* What stays known of a process.
LEMMA StartedStays ==
    ASSUME TypeInv, Next, NEW w \in Workers, Started(w), snap'[w] = snap[w], pc'[w] \in Ran => pc[w] \in Ran
    PROVE  Started(w)'
<1> SUFFICES ASSUME pc[w] \in Ran PROVE launched'[snap[w].gen] > 0 \/ snap[w].gen \in decided'
  BY DEF Started
<1>1. snap[w].gen \in Gens
  BY SnapParts, TypesAre DEF TypeInv, Ran
<1> QED BY <1>1, SettledStays DEF Started

LEMMA ConcludedStays ==
    ASSUME TypeInv, Next, NEW p \in Procs, Concluded(p), plan'[p] = plan[p],
           pc'[p] \in Handling => pc[p] \in Handling
    PROVE  Concluded(p)'
<1> SUFFICES ASSUME pc[p] \in Handling, plan[p].disp \in {"done", "failed"}, NEW g, g = plan[p].rec.gen
             PROVE  ArchivedEnding(g)'
  BY DEF Concluded, ArchivedEnding
<1>1. g \in Gens
  BY PlanOf, TypesAre DEF TypeInv
<1>2. ArchivedEnding(g)
  BY DEF Concluded
<1> QED BY <1>1, <1>2, SettledStays

\* A step is told from what it does to the rows, the terminals and its process.
LEMMA StoryOn ==
    ASSUME TypeInv, Story, Next, NEW p \in Procs, Others(p), gens' = gens,
           \A g \in Gens : Placed(g) => Placed(g)' \/ Settled(g)',
           \A g \in {done', failed'} : g \in {done, failed, 0} \/ Settled(g)',
           p \in Workers => Started(p)', Concluded(p)'
    PROVE  Story'
<1>1. (\A g \in 1..gens : g \in Gens) /\ \A g \in {done, failed} \ {0} : g \in Gens
  <2>1. gens \in 0..MaxGens /\ done \in 0..MaxGens /\ failed \in 0..MaxGens
    BY DEF TypeInv, TypeOK
  <2>2. \A g \in 1..gens : g \in Gens
    BY <2>1, QueueAssumption, SMT DEF Gens
  <2> QED BY <2>1, <2>2, Numbers
<1>2. ASSUME NEW g \in 1..gens PROVE Placed(g)' \/ Settled(g)'
  BY <1>1, SettledStays DEF Story
<1>3. ASSUME NEW g \in {done', failed'} \ {0} PROVE Settled(g)'
  BY <1>1, SettledStays DEF Story
<1>4. ASSUME NEW w \in Workers PROVE Started(w)'
  BY StartedStays, Named DEF Story, Others
<1>5. ASSUME NEW q \in Procs PROVE Concluded(q)'
  BY ConcludedStays DEF Story, Others
<1> QED BY <1>2, <1>3, <1>4, <1>5 DEF Story

\* A step that moves no process.
LEMMA StoryAside ==
    ASSUME TypeInv, Story, Next, UNCHANGED procs, gens' = gens,
           \A g \in Gens : Placed(g) => Placed(g)' \/ Settled(g)',
           \A g \in {done', failed'} : g \in {done, failed, 0} \/ Settled(g)'
    PROVE  Story'
<1>1. UNCHANGED <<pc, snap, status, plan>> /\ Reaper \in Procs /\ Reaper \notin Workers
  BY QueueAssumption DEF procs, Procs
<1>2. Others(Reaper) /\ Concluded(Reaper)'
  BY <1>1, ConcludedStays DEF Others, Story
<1> QED BY <1>1, <1>2, StoryOn

\* A process that returns, or goes on before its launch.
LEMMA StoryQuiet ==
    ASSUME TypeInv, Story, Next, NEW p \in Procs, Others(p), gens' = gens, pc'[p] \notin Ran \union Handling,
           \A g \in Gens : Placed(g) => Placed(g)' \/ Settled(g)',
           \A g \in {done', failed'} : g \in {done, failed, 0} \/ Settled(g)'
    PROVE  Story'
BY StoryOn DEF Started, Concluded

\* The rows there are, one by one.
LEMMA PlacedOn ==
    ASSUME \A g \in Gens : g = ready.gen => Placed(g)' \/ Settled(g)',
           \A g \in Gens : claim # NoClaim /\ g = claim.gen => Placed(g)' \/ Settled(g)',
           \A g \in Gens : \A t \in tombs : g = t.rec.gen => Placed(g)' \/ Settled(g)'
    PROVE  \A g \in Gens : Placed(g) => Placed(g)' \/ Settled(g)'
<1> SUFFICES ASSUME NEW g \in Gens, Placed(g) PROVE Placed(g)' \/ Settled(g)'
  OBVIOUS
<1>1. g = ready.gen \/ (claim # NoClaim /\ g = claim.gen) \/ \E t \in tombs : g = t.rec.gen
  BY DEF Placed, Files
<1> QED BY <1>1

LEMMA PlacedSame ==
    ASSUME Files' = Files, ready' = ready PROVE \A g \in Gens : Placed(g) => Placed(g)' \/ Settled(g)'
BY DEF Placed

-----------------------------------------------------------------------------
LEMMA StoryClaiming ==
    ASSUME TypeInv, PassInv, Home, Story, Next, NEW w \in Workers, Claiming(w) PROVE Story'
<1> SUFFICES ASSUME w \in Procs, ProcTypes, TypeOK, Filings, Bearings, Others(w), UNCHANGED <<gens, done, failed>>
             PROVE  Story'
  BY Named, TypesAre, ClaimerActs DEF TypeInv, Claiming, DropWithdrawnReady, ClaimRename, ClaimCommit, ClaimRefused,
     ClaimPersist, ClaimLease, ClaimUnwound, endings, counts
<1> DEFINE Keeps == \A g \in Gens : Placed(g) => Placed(g)' \/ Settled(g)'
<1>1. ASSUME Keeps, pc'[w] \notin Ran \union Handling PROVE Story'
  BY <1>1, StoryQuiet
<1>2. ASSUME Rest(w) PROVE pc'[w] \notin Ran \union Handling
  BY <1>2, RestIs DEF Ran, Handling
<1>3. pc[w] \in ClaimPass => snap[w].gen \in Gens /\ (claim # NoClaim => claim.gen = snap[w].gen)
  BY SnapParts, FilesOf DEF ClaimPass, TypeInv, Home, PassFiles
<1>4. CASE DropWithdrawnReady(w)
  <2>1. ready' = NoRow /\ Covered(ready) /\ UNCHANGED <<claim, tombs, procs>>
    BY <1>4 DEF DropWithdrawnReady
  <2>2. \A g \in Gens : g = ready.gen => Settled(g)'
    BY <2>1, CoveredIs, SettledStays DEF Settled
  <2>3. Keeps
    BY <2>1, <2>2, PlacedOn DEF Placed, Files
  <2> QED BY <2>1, <2>3, StoryAside
<1>5. CASE ClaimRename(w)
  <2> DEFINE c == Raw(ready, HostOf[w])
  <2>1. /\ tombs = {} /\ claim = NoClaim /\ claim' = c /\ tombs' = tombs /\ ready # NoRow /\ pc' = At(w, "renamed")
    BY <1>5 DEF ClaimRename
  <2>2. c # NoClaim /\ c.gen = ready.gen
    BY <2>1, RowParts, RawMade, HostsAre DEF TypeOK
  <2> HIDE DEF c
  <2>3. Keeps
    BY <2>1, <2>2, PlacedOn DEF Placed, Files
  <2>4. pc'[w] \notin Ran \union Handling
    BY <2>1 DEF At, ProcTypes, Ran, Handling
  <2> QED BY <1>1, <2>3, <2>4
<1>6. CASE ClaimCommit(w) \/ ClaimLease(w)
  <2>1. UNCHANGED <<ready, claim, tombs>> /\ (pc' = At(w, "committed") \/ pc' = At(w, "leased"))
    BY <1>6 DEF ClaimCommit, ClaimLease, Go
  <2>2. Keeps
    BY <2>1, PlacedSame DEF Files
  <2>3. pc'[w] \notin Ran \union Handling
    BY <2>1 DEF At, ProcTypes, Ran, Handling
  <2> QED BY <1>1, <2>2, <2>3
<1>7. ASSUME NEW c, LinkReady(c), c = claim \/ (c # NoClaim /\ (claim # NoClaim => claim.gen = c.gen)), tombs' = tombs
      PROVE  Keeps
  <2>1. CASE c # NoClaim /\ ready = NoRow
    <3>1. ready'.gen = c.gen
      BY <1>7, <2>1, SMT DEF LinkReady, Row
    <3>2. ready.gen \notin Gens
      BY <2>1, NoneIs, Numbers
    <3> QED BY <1>7, <3>1, <3>2, PlacedOn DEF Placed, Files
  <2>2. CASE ~ (c # NoClaim /\ ready = NoRow)
    <3>1. ready' = ready /\ claim' = c
      BY <1>7, <2>2 DEF LinkReady
    <3> QED BY <1>7, <3>1, PlacedOn DEF Placed, Files
  <2> QED BY <2>1, <2>2
<1>8. CASE ClaimRefused(w)
  BY <1>1, <1>2, <1>7, <1>8 DEF ClaimRefused
<1>9. CASE ClaimPersist(w)
  <2>1. pc[w] \in ClaimPass /\ UNCHANGED <<ready, tombs>>
    BY <1>9 DEF ClaimPersist, ClaimPass
  <2>2. CASE Rest(w) /\ claim' = NoClaim /\ (TerminalCovers(snap[w]) \/ Covered(snap[w]))
    <3>1. \A g : g = snap[w].gen => Settled(g)
      BY <2>2, CoveredIs DEF TerminalCovers, Story, Settled
    <3>2. \A g \in Gens : claim # NoClaim /\ g = claim.gen => Settled(g)'
      BY <1>3, <2>1, <3>1, SettledStays
    <3>4. Keeps
      BY <2>1, <3>2, PlacedOn DEF Placed, Files
    <3> QED BY <1>1, <1>2, <2>2, <3>4
  <2>3. CASE ~ (Rest(w) /\ claim' = NoClaim /\ (TerminalCovers(snap[w]) \/ Covered(snap[w])))
    <3> DEFINE c == ClaimRec(snap[w].gen, snap[w].att, claims, w, HostOf[w])
    <3>1. claim' = c /\ pc' = At(w, "persisted")
      BY <1>9, <2>3 DEF ClaimPersist
    <3>2. c # NoClaim /\ c.gen = snap[w].gen
      <4>1. snap[w].gen # 0
        BY <1>3, <2>1, Numbers
      <4> QED BY <4>1, SMT DEF ClaimRec, NoClaim
    <3> HIDE DEF c
    <3>3. claim # NoClaim => claim.gen = c.gen
      BY <1>3, <2>1, <3>2
    <3>4. Keeps
      BY <2>1, <3>1, <3>2, <3>3, PlacedOn DEF Placed, Files
    <3>5. pc'[w] \notin Ran \union Handling
      BY <3>1 DEF At, ProcTypes, Ran, Handling
    <3> QED BY <1>1, <3>4, <3>5
  <2> QED BY <2>2, <2>3
<1>10. CASE ClaimUnwound(w)
  <2> DEFINE c == Raw(snap[w], HostOf[w])
  <2>1. pc[w] = "persisted" /\ pc[w] \in ClaimPass /\ Rest(w) /\ tombs' = tombs /\ (LinkReady(c) \/ UNCHANGED <<ready, claim>>)
    BY <1>10 DEF ClaimUnwound, ClaimPass
  <2>2. c # NoClaim /\ c.gen = snap[w].gen
    BY <2>1, SnapParts, RawMade, HostsAre
  <2>3. claim # NoClaim => claim.gen = c.gen
    BY <1>3, <2>1, <2>2
  <2> HIDE DEF c
  <2>4. CASE LinkReady(c)
    BY <1>1, <1>2, <1>7, <2>1, <2>2, <2>3, <2>4
  <2>5. CASE UNCHANGED <<ready, claim>>
    <3>1. Keeps
      BY <2>1, <2>5, PlacedSame DEF Files
    <3> QED BY <1>1, <1>2, <2>1, <3>1
  <2> QED BY <2>1, <2>4, <2>5
<1> QED BY <1>4, <1>5, <1>6, <1>8, <1>9, <1>10 DEF Claiming

\* A plan whose disposition is no terminal, or is on file in the archive.
LEMMA Concludes ==
    ASSUME ProcTypes, NEW p \in Procs, NEW q, NEW l, Commit(p, q, l), NEW n \in Attempts,
           q.disp \in {"done", "failed"} => archive'[q.rec.gen, n] = q.disp
    PROVE  Concluded(p)' /\ pc'[p] \notin Ran /\ Others(p)
<1>1. plan'[p] = q /\ pc'[p] = "entomb" /\ Others(p)
  BY OthersStay DEF Commit, At, ProcTypes
<1>2. q.disp \in {"done", "failed"} => \E m \in Attempts : archive'[q.rec.gen, m] \in {"done", "failed"}
  OBVIOUS
<1> QED BY <1>1, <1>2 DEF Concluded, ArchivedEnding, Ran

LEMMA StoryWorking ==
    ASSUME TypeInv, Story, Next, NEW w \in Workers, Running(w) \/ Finishing(w) PROVE Story'
<1> SUFFICES ASSUME w \in Procs, ProcTypes, Filings, Bearings, Others(w), UNCHANGED <<gens, ready, claim, tombs>>
             PROVE  Story'
  BY Named, TypesAre, WorkerActs DEF TypeInv, Running, Launch, DeferLaunch, Heartbeat, RunEnds, Finishing,
     FinishReadsClaim, FinishReadsReady, LostRelease, LostLease, LostCheck, LostFile, FinishArchives, FinishCancels,
     rows, counts
<1>1. \A g \in Gens : Placed(g) => Placed(g)' \/ Settled(g)'
  BY PlacedSame DEF Files
<1>2. 1 \in Attempts
  BY QueueAssumption, SMT DEF Attempts
<1>3. ASSUME Rest(w), UNCHANGED <<done, failed>> PROVE Story'
  BY <1>1, <1>3, RestIs, StoryQuiet DEF Ran, Handling
<1>4. ASSUME NEW k, NEW l, NEW d, Commit(w, Plan(k, snap[w], d), l), NEW n \in Attempts,
             d \in {"done", "failed"} => archive'[snap[w].gen, n] = d, UNCHANGED <<done, failed>>
      PROVE  Story'
  <2>1. Concluded(w)' /\ pc'[w] \notin Ran
    <3> DEFINE q == Plan(k, snap[w], d)
    <3>1. q.disp = d /\ q.rec = snap[w]
      BY SMT DEF Plan
    <3>2. Commit(w, q, l)
      BY <1>4
    <3> HIDE DEF q
    <3> QED BY <1>4, <3>1, <3>2, Concludes
  <2> QED BY <1>1, <1>4, <2>1, StoryOn DEF Started
<1>5. ASSUME pc[w] \in Ran, pc'[w] \in Ran, snap'[w] = snap[w], UNCHANGED <<done, failed>> PROVE Story'
  <2>1. Started(w)' /\ Concluded(w)'
    BY <1>5, StartedStays DEF Story, Concluded, Ran, Handling
  <2> QED BY <1>1, <1>5, <2>1, StoryOn
<1>6. ASSUME NEW s \in Ran, pc[w] \in Ran, Go(w, s), UNCHANGED <<done, failed>> PROVE Story'
  <2>1. pc'[w] = s /\ snap' = snap
    BY <1>6 DEF Go, At, ProcTypes
  <2> QED BY <1>5, <1>6, <2>1
<1>7. CASE Launch(w)
  <2>1. /\ UNCHANGED <<snap, done, failed>> /\ pc[w] = "leased"
        /\ pc'[w] = "running" \/ (pc'[w] = "read" /\ Covered(snap[w]))
    BY <1>7 DEF Launch, endings, At, ProcTypes
  <2>2. snap[w].gen \in Gens
    BY <2>1, SnapParts
  <2>3. Started(w)'
    BY <1>7, <2>1, <2>2, LaunchCounts, CoveredIs, DecidedGrows DEF Started
  <2>4. Concluded(w)'
    BY <2>1 DEF Concluded, Handling
  <2> QED BY <1>1, <2>1, <2>3, <2>4, StoryOn
<1>8. CASE DeferLaunch(w)
  <2>1. UNCHANGED <<done, failed>> /\ (Rest(w) \/ Commit(w, Plan("defer", snap[w], "requeued"), lock))
    BY <1>8 DEF DeferLaunch, endings
  <2>2. "requeued" \notin {"done", "failed"}
    OBVIOUS
  <2>3. CASE Commit(w, Plan("defer", snap[w], "requeued"), lock)
    BY <1>2, <1>4, <2>1, <2>2, <2>3
  <2> QED BY <1>3, <2>1, <2>3
<1>9. CASE Heartbeat(w) \/ \E r : RunEnds(w, r)
  <2>1. UNCHANGED <<snap, done, failed>> /\ pc[w] = "running" /\ (pc' = pc \/ pc' = At(w, "read"))
    BY <1>9 DEF Heartbeat, RunEnds, endings
  <2>2. pc'[w] \in Ran /\ pc[w] \in Ran
    BY <2>1 DEF At, ProcTypes, Ran
  <2> QED BY <1>5, <2>1, <2>2
<1>10. CASE FinishReadsClaim(w) \/ FinishReadsReady(w) \/ LostRelease(w) \/ LostLease(w) \/ LostCheck(w)
  <2>1. /\ pc[w] \in Ran /\ UNCHANGED <<done, failed>>
        /\ \/ Rest(w) \/ Go(w, "readReady") \/ Go(w, "judged") \/ Go(w, "lostRelease") \/ Go(w, "lostLease")
           \/ Go(w, "lostCheck") \/ Go(w, "lostFile")
    BY <1>10 DEF FinishReadsClaim, FinishReadsReady, LostRelease, LostLease, LostCheck, Ran, endings
  <2>2. {"readReady", "judged", "lostRelease", "lostLease", "lostCheck", "lostFile"} \subseteq Ran
    BY DEF Ran
  <2> QED BY <1>3, <1>6, <2>1, <2>2
<1>11. CASE LostFile(w)
  <2>1. pc[w] = "lostFile" /\ Rest(w) /\ done' \in {done, snap[w].gen} /\ failed' \in {failed, snap[w].gen}
    BY <1>11 DEF LostFile
  <2>2. \A g : g = snap[w].gen => Settled(g)'
    <3>1. snap[w].gen \in Gens /\ Started(w) /\ pc[w] \in Ran
      BY <2>1, SnapParts DEF Story, Ran
    <3> QED BY <3>1, SettledStays DEF Started, Settled
  <2>3. \A g \in {done', failed'} : g \in {done, failed, 0} \/ Settled(g)'
    BY <2>1, <2>2
  <2>4. pc'[w] \notin Ran \union Handling
    BY <2>1, RestIs DEF Ran, Handling
  <2> QED BY <1>1, <2>3, <2>4, StoryQuiet
<1>12. CASE FinishArchives(w)
  <2>1. UNCHANGED <<done, failed>> /\ pc[w] = "judged"
    BY <1>12 DEF FinishArchives
  <2>2. CASE Covered(snap[w])
    <3>1. Go(w, "cancel") /\ "cancel" \in Ran /\ pc[w] \in Ran
      BY <1>12, <2>2 DEF FinishArchives, Ran
    <3> QED BY <1>6, <2>1, <3>1
  <2>3. CASE ~ Covered(snap[w])
    <3> DEFINE d == archive'[snap[w].gen, snap[w].att + 1]
    <3>1. Commit(w, Plan("finish", snap[w], d), lock)
      BY <1>12, <2>3 DEF FinishArchives
    <3>2. snap[w].att + 1 \in Attempts
      BY <2>1, SnapParts
    <3>3. d = archive'[snap[w].gen, snap[w].att + 1]
      OBVIOUS
    <3> HIDE DEF d
    <3> QED BY <1>4, <2>1, <3>1, <3>2, <3>3
  <2> QED BY <2>2, <2>3
<1>13. CASE FinishCancels(w)
  <2>1. UNCHANGED <<done, failed>> /\ (Rest(w) \/ Commit(w, Plan("cancel", snap[w], "withdrawn"), w))
    BY <1>13 DEF FinishCancels
  <2>2. "withdrawn" \notin {"done", "failed"}
    OBVIOUS
  <2>3. CASE Commit(w, Plan("cancel", snap[w], "withdrawn"), w)
    BY <1>2, <1>4, <2>1, <2>2, <2>3
  <2> QED BY <1>3, <2>1, <2>3
<1> QED BY <1>7, <1>8, <1>9, <1>10, <1>11, <1>12, <1>13 DEF Running, Finishing

\* A publication of a conclusion gives the generation a row or has its ending on
\* file, and leaves the row that waited.
LEMMA DestinationTold ==
    ASSUME TypeInv, Story, Next, NEW p \in Procs, pc[p] = "publish", NEW b, PublishDestination(p, b)
    PROVE  /\ \A g \in Gens : g \in {ready.gen, plan[p].rec.gen} => Placed(g)' \/ Settled(g)'
           /\ \A g \in {done', failed'} : g \in {done, failed, 0} \/ Settled(g)'
<1> DEFINE r == plan[p].rec.gen
<1>1. r \in Gens /\ pc[p] \in Handling
  BY PlanOf, TypesAre DEF TypeInv, Handling
<1>2. CASE plan[p].disp \in {"done", "failed"}
  <2>1. FileTerminal(plan[p].rec.gen, plan[p].disp, b)
    BY <1>2 DEF PublishDestination
  <2>2. ready' = ready /\ done' \in {done, 0, r} /\ failed' \in {failed, 0, r}
    BY <2>1 DEF FileTerminal
  <2>3. ArchivedEnding(r)
    BY <1>1, <1>2 DEF Story, Concluded
  <2>4. \A g : g = r => Settled(g)'
    <3>1. \A g : g = r => Settled(g)
      BY <2>3 DEF Settled
    <3> QED BY <1>1, <3>1, SettledStays
  <2> HIDE DEF r
  <2> QED BY <2>2, <2>4 DEF Placed, r
<1>3. CASE plan[p].disp \notin {"done", "failed"}
  <2>1. Requeue(r, NextAttempt(p))
    BY <1>3 DEF PublishDestination
  <2>2. UNCHANGED <<done, failed>>
    BY <2>1 DEF Requeue
  <2>3. CASE ready = NoRow /\ r \notin supers
    <3>1. ready'.gen = r
      BY <2>1, <2>3, SMT DEF Requeue, Row
    <3>2. ready.gen \notin Gens
      BY <2>3, NoneIs, Numbers
    <3> QED BY <2>2, <3>1, <3>2 DEF Placed
  <2>4. CASE ~ (ready = NoRow /\ r \notin supers)
    <3>1. ready' = ready
      BY <2>1, <2>4 DEF Requeue
    <3>2. CASE r \in supers
      <4>1. \A g \in Gens : g = r => Settled(g)'
        BY <3>2, SettledStays DEF Settled
      <4> QED BY <2>2, <3>1, <4>1 DEF Placed
    <3>3. CASE ready # NoRow
      <4>1. ready.gen # r => r \in supers'
        BY <2>1, <3>3 DEF Requeue
      <4>2. \A g \in Gens : g = r /\ g # ready.gen => Settled(g)'
        BY <4>1 DEF Settled
      <4> QED BY <2>2, <3>1, <4>2 DEF Placed
    <3> QED BY <2>4, <3>2, <3>3
  <2> QED BY <2>3, <2>4
<1> QED BY <1>2, <1>3

\* A process that returns and takes its mark with it.
LEMMA StoryDrops ==
    ASSUME TypeInv, Story, Next, NEW p \in Procs, Rest(p), UNCHANGED <<gens, claim>>, tombs' = tombs \ OwnTomb(p),
           \A g \in Gens : g \in {ready.gen, plan[p].rec.gen} => Placed(g)' \/ Settled(g)',
           \A g \in {done', failed'} : g \in {done, failed, 0} \/ Settled(g)'
    PROVE  Story'
<1>1. \A t \in OwnTomb(p) : t.rec.gen = plan[p].rec.gen
  BY DEF OwnTomb, SameClaim
<1>2. \A g \in Gens : \A t \in tombs : g = t.rec.gen => Placed(g)' \/ Settled(g)'
  BY <1>1 DEF Placed, Files
<1>3. \A g \in Gens : Placed(g) => Placed(g)' \/ Settled(g)'
  BY <1>2, PlacedOn DEF Placed, Files
<1>4. Others(p) /\ pc'[p] \notin Ran \union Handling
  BY RestIs, TypesAre DEF TypeInv, Ran, Handling
<1> QED BY <1>3, <1>4, StoryQuiet

\* A process that returns and leaves the item's files.
LEMMA StoryReturns ==
    ASSUME TypeInv, Story, Next, NEW p \in Procs, Rest(p), gens' = gens, Files' = Files,
           \A g \in Gens : g = ready.gen => Placed(g)' \/ Settled(g)',
           \A g \in {done', failed'} : g \in {done, failed, 0} \/ Settled(g)'
    PROVE  Story'
<1>1. \A g \in Gens : Placed(g) => Placed(g)' \/ Settled(g)'
  BY DEF Placed
<1>2. Others(p) /\ pc'[p] \notin Ran \union Handling
  BY RestIs, TypesAre DEF TypeInv, Ran, Handling
<1> QED BY <1>1, <1>2, StoryQuiet

LEMMA StoryCommitting ==
    ASSUME TypeInv, PassInv, Home, Story, Next, NEW p \in Procs, Committing(p) \/ Crash(p) PROVE Story'
<1> SUFFICES ASSUME ProcTypes, Marks, Bearings, Others(p), gens' = gens PROVE Story'
  BY TypesAre, TailActs DEF TypeInv, Committing, Entomb, GiveBack, Unlease, ReleaseReservation, PublishTail,
     PublishCut, PublishFails, Crash, counts
<1>1. ASSUME Rest(p), Files' = Files, UNCHANGED <<ready, done, failed>> PROVE Story'
  BY <1>1, StoryReturns DEF Placed
<1>2. ASSUME NEW s \in Handling, Go(p, s), pc[p] \in Handling, Files' = Files, UNCHANGED <<ready, done, failed>>
      PROVE  Story'
  <2>1. pc'[p] = s /\ plan' = plan
    BY <1>2 DEF Go, At, ProcTypes
  <2>2. Concluded(p)' /\ pc'[p] \notin Ran
    BY <1>2, <2>1, ConcludedStays DEF Story, Handling, Ran
  <2> QED BY <1>2, <2>2, PlacedSame, StoryOn DEF Started
<1>3. CASE Entomb(p)
  <2>1. UNCHANGED <<ready, done, failed>> /\ pc[p] = "entomb"
    BY <1>3 DEF Entomb, endings
  <2>2. CASE claim = NoClaim
    <3>1. Rest(p) /\ UNCHANGED <<claim, tombs>>
      BY <1>3, <2>2 DEF Entomb
    <3> QED BY <1>1, <2>1, <3>1 DEF Files
  <2>3. CASE claim # NoClaim
    <3>1. claim' = NoClaim /\ tombs' = tombs \union {Tomb(claim, p)}
      BY <1>3, <2>3 DEF Entomb
    <3>2. Tomb(claim, p).rec = claim
      BY DEF Tomb
    <3>3. Files' = Files
      BY <2>3, <3>1, <3>2 DEF Files
    <3>4. CASE Go(p, "unlease")
      BY <1>2, <2>1, <3>3, <3>4 DEF Handling
    <3>5. CASE ~ Go(p, "unlease")
      <4>1. pc'[p] \notin Ran \union Handling
        BY <1>3, <2>3, <3>5 DEF Entomb, At, ProcTypes, Ran, Handling
      <4> QED BY <2>1, <3>3, <4>1, PlacedSame, StoryQuiet
    <3> QED BY <3>4, <3>5
  <2> QED BY <2>2, <2>3
<1>4. CASE GiveBack(p)
  <2>1. pc[p] = "giveBack" /\ Rest(p) /\ UNCHANGED <<ready, done, failed>>
    BY <1>4 DEF GiveBack, endings
  <2>2. CASE UNCHANGED <<claim, tombs>>
    BY <1>1, <2>1, <2>2 DEF Files
  <2>3. CASE ~ UNCHANGED <<claim, tombs>>
    <3> DEFINE S == OwnTomb(p)
    <3>1. claim = NoClaim /\ S # {} /\ claim' = plan[p].rec /\ tombs' = tombs \ S
      BY <1>4, <2>3 DEF GiveBack
    <3>2. plan[p].rec # NoClaim /\ S \in SUBSET tombs /\ \A t \in S : t.rec = plan[p].rec
      BY <2>1, PlanOf DEF Home, TakesBack, OwnTomb
    <3> HIDE DEF S
    <3>3. Files' = Files
      BY <3>1, <3>2, FilesSwap
    <3> QED BY <1>1, <2>1, <3>3
  <2> QED BY <2>2, <2>3
<1>5. CASE Unlease(p)
  <2>1. UNCHANGED <<ready, claim, tombs, done, failed>> /\ Go(p, "release") /\ pc[p] = "unlease"
    BY <1>5 DEF Unlease, endings
  <2> QED BY <1>2, <2>1 DEF Files, Handling
<1>6. CASE ReleaseReservation(p)
  <2>1. pc[p] = "release" /\ UNCHANGED <<ready, claim, done, failed>>
    BY <1>6 DEF ReleaseReservation, endings
  <2>2. CASE plan[p].kind = "cancel"
    <3>1. tombs' = tombs \ OwnTomb(p) /\ Rest(p)
      BY <1>6, <2>2 DEF ReleaseReservation
    <3>2. plan[p].rec.gen \in decided
      BY <2>1, <2>2 DEF Bearings, PlanBears, Handling
    <3>3. \A g \in Gens : g \in {ready.gen, plan[p].rec.gen} => Placed(g)' \/ Settled(g)'
      BY <2>1, <3>2, SettledStays DEF Placed, Settled
    <3> QED BY <2>1, <3>1, <3>3, StoryDrops
  <2>3. CASE plan[p].kind # "cancel"
    <3>1. Go(p, "publish") /\ tombs' = tombs
      BY <1>6, <2>3 DEF ReleaseReservation
    <3> QED BY <1>2, <2>1, <3>1 DEF Files, Handling
  <2> QED BY <2>2, <2>3
<1>7. CASE PublishTail(p)
  <2>1. pc[p] = "publish" /\ Rest(p) /\ claim' = claim
    BY <1>7 DEF PublishTail
  <2>2. CASE UNCHANGED <<ready, tombs, done, failed>>
    BY <1>1, <2>1, <2>2 DEF Files
  <2>3. CASE PublishDestination(p, TRUE) /\ tombs' = tombs \ OwnTomb(p)
    BY <2>1, <2>3, DestinationTold, StoryDrops
  <2> QED BY <1>7, <2>2, <2>3 DEF PublishTail
<1>8. CASE PublishCut(p)
  <2>1. pc[p] = "publish" /\ Rest(p) /\ UNCHANGED <<claim, tombs>> /\ PublishDestination(p, FALSE)
    BY <1>8 DEF PublishCut
  <2> QED BY <2>1, DestinationTold, StoryReturns DEF Files
<1>9. CASE PublishFails(p)
  <2>1. Rest(p) /\ UNCHANGED <<ready, done, failed>>
    BY <1>9 DEF PublishFails, endings
  <2>2. CASE UNCHANGED <<claim, tombs>>
    BY <1>1, <2>1, <2>2 DEF Files
  <2>3. ASSUME NEW t \in tombs, claim = NoClaim, claim' = t.rec, tombs' = tombs \ {t} PROVE Story'
    <3>1. t.rec # NoClaim /\ {t} \in SUBSET tombs /\ {t} # {} /\ \A u \in {t} : u.rec = t.rec
      BY DEF Marks
    <3>2. Files' = Files
      BY <2>3, <3>1, FilesSwap
    <3> QED BY <1>1, <2>1, <3>2
  <2> QED BY <1>9, <2>2, <2>3 DEF PublishFails, OwnTomb
<1>10. CASE Crash(p)
  BY <1>1, <1>10 DEF Crash, rows, endings, Files
<1> QED BY <1>3, <1>4, <1>5, <1>6, <1>7, <1>8, <1>9, <1>10 DEF Committing

LEMMA StoryReaping == ASSUME TypeInv, PassInv, Home, Story, Next, Reaping PROVE Story'
<1> SUFFICES ASSUME ProcTypes, TypeOK, Marks, Filings, Reaper \in Procs, Reaper \notin Workers, gens' = gens PROVE Story'
  BY TypesAre, QueueAssumption DEF TypeInv, Procs, Reaping, ReapTerminal, ReapWithdrawn, ReapUnstarted, ReapExpired,
     SweepWidowedLease, RestoreTomb, RetireTomb, counts
<1>1. CASE ReapTerminal
  <2>1. TerminalCovers(claim) /\ UNCHANGED <<ready, tombs, done, failed, procs>>
    BY <1>1 DEF ReapTerminal, endings
  <2>2. \A g \in Gens : g = claim.gen => Settled(g)'
    BY <2>1, SettledStays DEF TerminalCovers, Story
  <2>3. \A g \in Gens : Placed(g) => Placed(g)' \/ Settled(g)'
    BY <2>1, <2>2, PlacedOn DEF Placed, Files
  <2> QED BY <2>1, <2>3, StoryAside
<1>2. CASE ReapWithdrawn \/ ReapUnstarted \/ ReapExpired
  <2>1. UNCHANGED <<ready, claim, tombs, done, failed>> /\ claim # NoClaim
    BY <1>2 DEF ReapWithdrawn, ReapUnstarted, ReapExpired, ReapableClaim, rows, endings
  <2>2. claim.att + 1 \in Attempts /\ Judged.gen = claim.gen
    <3>1. claim.att \in Charged
      BY <2>1, ClaimParts DEF TypeOK
    <3> QED BY <3>1, Numbers, SMT DEF Judged, ClaimRec
  <2>3. PICK k, d : /\ Commit(Reaper, Plan(k, Judged, d), Reaper)
                    /\ d \in {"done", "failed"} => archive'[claim.gen, claim.att + 1] = d
    <3>1. CASE ReapWithdrawn
      <4>1. "withdrawn" \notin {"done", "failed"}
        OBVIOUS
      <4> QED BY <3>1, <4>1 DEF ReapWithdrawn
    <3>2. CASE ReapUnstarted
      <4>1. "requeued" \notin {"done", "failed"}
        OBVIOUS
      <4> QED BY <3>2, <4>1 DEF ReapUnstarted
    <3>3. CASE ReapExpired
      BY <3>3 DEF ReapExpired
    <3> QED BY <1>2, <3>1, <3>2, <3>3
  <2>4. Concluded(Reaper)' /\ Others(Reaper)
    <3> DEFINE q == Plan(k, Judged, d)
    <3>1. q.disp = d /\ q.rec = Judged
      BY SMT DEF Plan
    <3>2. Commit(Reaper, q, Reaper)
      BY <2>3
    <3> HIDE DEF q
    <3> QED BY <2>2, <2>3, <3>1, <3>2, Concludes
  <2>5. \A g \in Gens : Placed(g) => Placed(g)' \/ Settled(g)'
    BY <2>1, PlacedSame DEF Files
  <2> QED BY <2>1, <2>4, <2>5, StoryOn
<1>3. CASE SweepWidowedLease
  <2>1. UNCHANGED <<ready, claim, tombs, done, failed, procs>>
    BY <1>3 DEF SweepWidowedLease, endings
  <2> QED BY <2>1, PlacedSame, StoryAside DEF Files
<1>4. ASSUME NEW t \in tombs, RestoreTomb(t) PROVE Story'
  <2>1. /\ UNCHANGED <<ready, done, failed, procs>> /\ claim = NoClaim
        /\ claim' = t.rec /\ tombs' = tombs \ {t} /\ t.rec # NoClaim
    BY <1>4 DEF RestoreTomb, KeyIsLive, Marks, endings
  <2>2. {t} \in SUBSET tombs /\ {t} # {} /\ \A u \in {t} : u.rec = t.rec
    OBVIOUS
  <2>3. Files' = Files
    BY <2>1, <2>2, FilesSwap
  <2> QED BY <2>1, <2>3, PlacedSame, StoryAside
<1>5. ASSUME NEW t \in tombs, RetireTomb(t) PROVE Story'
  <2>1. /\ UNCHANGED <<ready, claim, procs>> /\ tombs' = tombs \ {t} /\ done' \in {done, 0} /\ failed' \in {failed, 0}
        /\ TombCovered(t.rec) \/ (KeyIsLive /\ ~ (OnlyReadyLive /\ OlderWaits(t.rec)))
    BY <1>5 DEF RetireTomb
  <2>2. \A g \in Gens : g = t.rec.gen => Placed(g)' \/ Settled(g)'
    <3>1. CASE TombCovered(t.rec)
      BY <3>1, CoveredIs, SettledStays DEF TombCovered, TerminalCovers, Story, Settled
    <3>2. CASE claim # NoClaim
      <4>1. claim \in Files /\ t.rec \in Files
        BY <3>2, FilesOf
      <4>2. t.rec.gen = claim.gen
        BY <4>1 DEF Home, Item
      <4> QED BY <2>1, <3>2, <4>2 DEF Placed, Files
    <3>3. CASE ~ TombCovered(t.rec) /\ claim = NoClaim
      <4>1. OnlyReadyLive /\ ~ (ready.gen < t.rec.gen)
        BY <2>1, <3>3 DEF KeyIsLive, OnlyReadyLive, OlderWaits
      <4>2. ready.gen \in Nat /\ t.rec.gen \in Nat
        <5>1. ready.gen \in 0..MaxGens
          BY RowParts, Numbers, NoneIs DEF TypeOK
        <5>2. t.rec.gen \in 0..MaxGens
          BY FilesOf, ClaimParts, Numbers
        <5> QED BY <5>1, <5>2, QueueAssumption, SMT
      <4>3. ready.gen = t.rec.gen \/ ready.gen > t.rec.gen
        BY <4>1, <4>2, SMT
      <4>4. ready.gen > t.rec.gen => t.rec.gen \in supers'
        BY <1>5, <3>3, <4>1 DEF RetireTomb
      <4> QED BY <2>1, <4>3, <4>4 DEF Placed, Settled
    <3> QED BY <3>1, <3>2, <3>3
  <2>3. \A g \in Gens : \A u \in tombs : g = u.rec.gen => Placed(g)' \/ Settled(g)'
    BY <2>1, <2>2 DEF Placed, Files
  <2>4. \A g \in Gens : Placed(g) => Placed(g)' \/ Settled(g)'
    BY <2>1, <2>3, PlacedOn DEF Placed, Files
  <2> QED BY <2>1, <2>4, StoryAside
<1> QED BY <1>1, <1>2, <1>3, <1>4, <1>5 DEF Reaping

LEMMA StorySubmitting == ASSUME TypeInv, Story, Next, Publish \/ Withdraw PROVE Story'
<1> SUFFICES ASSUME ready.gen \in 0..MaxGens, gens \in Nat, UNCHANGED <<claim, tombs, done, failed, procs>> PROVE Story'
  <2>1. ready.gen \in 0..MaxGens /\ gens \in 0..MaxGens
    BY RowParts, Numbers, NoneIs DEF TypeInv, TypeOK
  <2>2. gens \in Nat
    BY <2>1, QueueAssumption, SMT
  <2> QED BY <2>1, <2>2 DEF Publish, Withdraw, endings
<1>1. CASE Withdraw
  <2>1. gens' = gens /\ ready' = IF ready.gen \in decided' THEN NoRow ELSE ready
    BY <1>1 DEF Withdraw, counts
  <2>2. \A g \in Gens : Placed(g) => Placed(g)' \/ Settled(g)'
    BY <2>1, PlacedOn DEF Placed, Files, Settled
  <2> QED BY <2>1, <2>2, StoryAside
<1>2. CASE Publish
  <2>1. gens' = gens + 1 /\ ready' = Row(gens + 1, 0) /\ replaced' = replaced \union ({ready.gen} \ {0})
    BY <1>2 DEF Publish
  <2>2. ready'.gen = gens + 1 /\ gens + 1 \in Gens /\ \A g \in 1..gens : g \in Gens
    <3>1. gens < MaxGens
      BY <1>2 DEF Publish
    <3> QED BY <2>1, <3>1, QueueAssumption, SMT DEF Row, Gens
  <2>3. ASSUME NEW g \in 1..gens' PROVE Placed(g)' \/ Settled(g)'
    <3>1. g = gens + 1 \/ g \in 1..gens
      BY <2>1, SMT
    <3>2. CASE g \in 1..gens
      <4>1. g \in Gens /\ g # 0
        BY <2>2, <3>2, Numbers
      <4>2. CASE Settled(g)
        BY <4>1, <4>2, SettledStays
      <4>3. CASE g = ready.gen
        BY <2>1, <4>1, <4>3 DEF Settled
      <4>4. CASE \E a \in Files : a.gen = g
        BY <4>4 DEF Placed, Files
      <4> QED BY <3>2, <4>2, <4>3, <4>4 DEF Story, Placed
    <3> QED BY <2>2, <3>1, <3>2 DEF Placed
  <2>4. ASSUME NEW g \in {done', failed'} \ {0} PROVE Settled(g)'
    <3>1. g \in Gens
      BY <2>4, Numbers DEF TypeInv, TypeOK
    <3> QED BY <3>1, SettledStays DEF Story
  <2>5. ASSUME NEW w \in Workers PROVE Started(w)'
    BY StartedStays DEF Story, procs
  <2>6. ASSUME NEW p \in Procs PROVE Concluded(p)'
    BY ConcludedStays DEF Story, procs
  <2> QED BY <2>3, <2>4, <2>5, <2>6 DEF Story
<1> QED BY <1>1, <1>2

LEMMA StoryStep == TypeInv /\ PassInv /\ Home /\ Story /\ [Next]_vars => Story'
<1> SUFFICES ASSUME TypeInv, PassInv, Home, Story, [Next]_vars PROVE Story'
  OBVIOUS
<1>1. CASE UNCHANGED vars
  <2>1. UNCHANGED <<ready, claim, tombs, done, failed, archive, supers, replaced, decided, pc, snap, plan, launched, gens>>
    BY <1>1 DEF vars, rows, endings, withdrawals, procs, counts
  <2>2. Files' = Files
    BY <2>1 DEF Files
  <2> QED BY <2>1, <2>2 DEF Story, Placed, Settled, ArchivedEnding, Started, Concluded
<1>2. CASE Next
  <2>1. CASE Publish \/ Withdraw
    BY <1>2, <2>1, StorySubmitting
  <2>2. ASSUME NEW w \in Workers, Claiming(w) \/ Running(w) \/ Finishing(w) PROVE Story'
    BY <1>2, <2>2, StoryClaiming, StoryWorking
  <2>3. ASSUME NEW p \in Procs, Committing(p) \/ Crash(p) PROVE Story'
    BY <1>2, <2>3, StoryCommitting
  <2>4. CASE Reaping
    BY <1>2, <2>4, StoryReaping
  <2> QED BY <1>2, <2>1, <2>2, <2>3, <2>4 DEF Next
<1> QED BY <1>1, <1>2

LEMMA StoryInit == Init => Story
<1> SUFFICES ASSUME Init PROVE Story
  OBVIOUS
<1>1. 1..gens = {} /\ {done, failed} \ {0} = {}
  BY SMT DEF Init
<1>2. \A p \in Procs : pc[p] = "idle"
  BY DEF Init
<1>3. \A w \in Workers : pc[w] = "idle"
  BY <1>2, Named
<1> QED BY <1>1, <1>2, <1>3 DEF Story, Started, Concluded, Ran, Handling

\* A reservation is never stranded, whoever stalls and whoever dies: tokens filed
\* under the key are always those of a claim or of a finishing mark, which the
\* reaper reads (reap_stale, sweep_finish_tombstones); no lease and no live process
\* has to vouch for them.
THEOREM ReservationsAreFound == Spec => []ReservationFindable
<1>1. Home => ReservationFindable
  BY DEF Home, HeldHome, Files, ReservationFindable
<1> QED BY <1>1, HomeInit, HomeStep, TypesHold, PassHoldsTheLock, PTL DEF Spec

\* Work is never dropped unrun, whoever stalls and whoever dies: a publication
\* without a row, a claim, a mark and an ending on file had its payload started
\* (publish, _claim_pass, _commit_claim and the reaper's sweeps together).
THEOREM WorkIsNeverDropped == Spec => []NothingDroppedUnrun
<1>1. TypeInv /\ Story => NothingDroppedUnrun
  <2> SUFFICES ASSUME TypeInv, Story, NEW g \in 1..gens PROVE Accounted(g) \/ launched[g] > 0
    BY DEF NothingDroppedUnrun
  <2>1. CASE Settled(g)
    BY <2>1 DEF Settled, Accounted
  <2>2. CASE Placed(g)
    BY <2>2 DEF Placed, Files, Accounted
  <2> QED BY <2>1, <2>2 DEF Story
<1>2. Spec => []Home
  BY HomeInit, HomeStep, TypesHold, PassHoldsTheLock, PTL DEF Spec
<1> QED BY <1>1, <1>2, StoryInit, StoryStep, TypesHold, PassHoldsTheLock, PTL DEF Spec

=============================================================================
