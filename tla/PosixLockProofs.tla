--------------------------- MODULE PosixLockProofs ---------------------------
(***************************************************************************)
(* The lock of posix_lock.py excludes, for every set of threads, processes *)
(* and inodes.                                                             *)
(*                                                                         *)
(* The argument: a thread past lockf has its inode locked for its process  *)
(* and its process's mutex, so two threads past lockf on one inode are the *)
(* same thread (LockedAlone).  Only such a thread, on the inode the name   *)
(* names, unlinks or tombstones; so while a holder's name names its inode, *)
(* no other thread can change that.                                        *)
(***************************************************************************)
EXTENDS PosixLock, TLAPS

\* Where a thread has seen, under the lock, that the name names its inode,
\* and where the inode is known to be retired.
Named == {"finishing", "holding", "rNamed", "rTombed"}
Retired == {"finishing", "rTombed"}

HasMutex == \A t \in Threads : pc[t] # "idle" => mutex[ProcOf[t]] = t

HasFile ==
    \A t \in Threads :
        pc[t] \in Locked \union {"opened", "rOpened", "unlocked"} => fd[t] \in Inodes

HasLock == \A t \in Threads : pc[t] \in Locked => flk[fd[t]] = ProcOf[t]

NameStays ==
    \A t \in Threads :
        /\ pc[t] \in Named => name = fd[t]
        /\ pc[t] \in Retired => fd[t] \in tomb
        /\ pc[t] = "stale" => name # fd[t] \/ fd[t] \in tomb
        /\ pc[t] = "holding" => fd[t] \notin tomb

LockInv == TypeOK /\ HasMutex /\ HasFile /\ HasLock /\ NameStays

-----------------------------------------------------------------------------

\* Two threads past lockf on one inode are one thread: lockf tells the
\* processes apart and the mutex the threads of a process.
LEMMA LockedAlone ==
    ASSUME HasMutex, HasLock,
           NEW t \in Threads, NEW u \in Threads,
           pc[t] \in Locked, pc[u] \in Locked, fd[t] = fd[u]
    PROVE  t = u
BY DEF HasMutex, HasLock, Locked

LEMMA InitLock == Init => LockInv
<1> SUFFICES ASSUME Init PROVE LockInv
  OBVIOUS
<1>1. TypeOK
  BY LockAssumption DEF Init, TypeOK, Steps
<1>2. \A t \in Threads : pc[t] = "idle"
  BY DEF Init
<1> QED
  BY <1>1, <1>2 DEF LockInv, HasMutex, HasFile, HasLock, NameStays, Locked, Named, Retired

\* A thread of a process whose mutex is free has no call under way, and one
\* that has a call under way is the only one of its process.
LEMMA OneCall ==
    ASSUME HasMutex, NEW t \in Threads, NEW u \in Threads,
           ProcOf[t] = ProcOf[u], pc[t] # "idle", pc[u] # "idle"
    PROVE  t = u
BY DEF HasMutex

\* Every step keeps the types.
LEMMA TypeKept ==
    ASSUME LockInv, [Next]_vars
    PROVE  TypeOK'
<1> USE LockAssumption DEF LockInv, TypeOK, Procs
<1>1. ASSUME NEW t \in Threads, Enter(t) PROVE TypeOK'
  BY <1>1 DEF Enter, At, Steps
<1>2. ASSUME NEW t \in Threads, Taking(t) PROVE TypeOK'
  <2>1. CASE Open(t)
    BY <2>1 DEF Open, At, Steps
  <2>2. CASE Lock(t) \/ LetGo(t) \/ Busy(t)
    BY <2>2 DEF Lock, LetGo, Busy, Return, Dropped, At, Steps
  <2>3. CASE Check(t) \/ FinishLook(t) \/ FinishUnlink(t)
    BY <2>3 DEF Check, FinishLook, FinishUnlink, At, Steps
  <2> QED BY <1>2, <2>1, <2>2, <2>3 DEF Taking
<1>3. ASSUME NEW t \in Threads, Fails(t) PROVE TypeOK'
  BY <1>3 DEF Fails, Return, Dropped, At, Steps
<1>4. ASSUME NEW t \in Threads, Holding(t) PROVE TypeOK'
  <2>1. CASE Nest(t) \/ Unnest(t)
    BY <2>1 DEF Nest, Unnest
  <2>2. CASE Leave(t) \/ Unlock(t) \/ Close(t)
    BY <2>2 DEF Leave, Unlock, Close, Return, Dropped, At, Steps
  <2> QED BY <1>4, <2>1, <2>2 DEF Holding
<1>5. ASSUME NEW t \in Threads, Retiring(t) PROVE TypeOK'
  <2>1. CASE RetireOpen(t) \/ RetireLock(t) \/ RetireKeeps(t) \/ RetireNamed(t)
    BY <2>1 DEF RetireOpen, RetireLock, RetireKeeps, RetireNamed, Return, Dropped, At, Steps
  <2>2. CASE RetireTomb(t) \/ RetireCannot(t) \/ RetireUnlink(t)
    BY <2>2 DEF RetireTomb, RetireCannot, RetireUnlink, At, Steps, HasFile, Locked
  <2> QED BY <1>5, <2>1, <2>2 DEF Retiring
<1>6. ASSUME NEW p \in Procs, Crash(p) PROVE TypeOK'
  BY <1>6 DEF Crash, Steps
<1>7. CASE UNCHANGED vars
  BY <1>7 DEF vars
<1> QED BY <1>1, <1>2, <1>3, <1>4, <1>5, <1>6, <1>7 DEF Next

\* A call has its process's mutex from beginning to end.
LEMMA MutexKept ==
    ASSUME LockInv, [Next]_vars
    PROVE  HasMutex'
<1> USE LockAssumption DEF LockInv, TypeOK, HasMutex, Procs
<1>1. ASSUME NEW t \in Threads, Enter(t) \/ RetireOpen(t) PROVE HasMutex'
  BY <1>1 DEF Enter, RetireOpen, At
<1>2. ASSUME NEW t \in Threads, Busy(t) \/ Fails(t) \/ Close(t) \/ RetireKeeps(t)
      PROVE  HasMutex'
  BY <1>2 DEF Busy, Fails, Close, RetireKeeps, Return, At
<1>3. ASSUME NEW t \in Threads, pc[t] # "idle", UNCHANGED mutex,
             \A u \in Threads \ {t} : pc'[u] = pc[u]
      PROVE  HasMutex'
  BY <1>3
<1>4. ASSUME NEW t \in Threads,
             \/ Open(t) \/ Lock(t) \/ Check(t) \/ FinishLook(t) \/ FinishUnlink(t)
             \/ LetGo(t) \/ Nest(t) \/ Unnest(t) \/ Leave(t) \/ Unlock(t)
             \/ RetireLock(t) \/ RetireNamed(t) \/ RetireTomb(t) \/ RetireCannot(t)
             \/ RetireUnlink(t)
      PROVE  HasMutex'
  <2>1. pc[t] # "idle" /\ UNCHANGED mutex /\ \A u \in Threads \ {t} : pc'[u] = pc[u]
    BY <1>4 DEF Open, Lock, Check, FinishLook, FinishUnlink, LetGo, Nest, Unnest, Leave,
                Unlock, RetireLock, RetireNamed, RetireTomb, RetireCannot, RetireUnlink, At
  <2> QED BY <1>3, <2>1
<1>5. ASSUME NEW p \in Procs, Crash(p) PROVE HasMutex'
  BY <1>5 DEF Crash
<1>6. CASE UNCHANGED vars
  BY <1>6 DEF vars
<1> QED
  BY <1>1, <1>2, <1>4, <1>5, <1>6 DEF Next, Taking, Holding, Retiring

\* Closing or unlocking one thread's descriptor takes no other thread's lock.
LEMMA DropKeepsLocks ==
    ASSUME LockInv, NEW t \in Threads, NEW u \in Threads, u # t,
           pc[t] # "idle", pc[u] \in Locked
    PROVE  Dropped(t)[fd[u]] = ProcOf[u]
<1>1. fd[u] \in Inodes /\ flk[fd[u]] = ProcOf[u] /\ pc[u] # "idle"
  BY DEF LockInv, HasFile, HasLock, Locked
<1>2. ProcOf[t] # ProcOf[u]
  BY <1>1, OneCall DEF LockInv
<1> QED BY <1>1, <1>2 DEF Dropped

\* Past its open a thread has a file, and past lockf its process has the lock.
LEMMA LocksKept ==
    ASSUME LockInv, [Next]_vars
    PROVE  HasFile' /\ HasLock'
<1> USE LockAssumption DEF TypeOK, HasFile, HasLock, Locked
<1>1. ASSUME NEW t \in Threads, Enter(t) \/ RetireOpen(t) PROVE HasFile' /\ HasLock'
  BY <1>1 DEF Enter, RetireOpen, At, LockInv
<1>2. ASSUME NEW t \in Threads, Open(t) PROVE HasFile' /\ HasLock'
  BY <1>2 DEF Open, At, LockInv
<1>3. ASSUME NEW t \in Threads, Lock(t) \/ RetireLock(t) PROVE HasFile' /\ HasLock'
  BY <1>3 DEF Lock, RetireLock, Grantable, At, LockInv, Procs
<1>4. ASSUME NEW t \in Threads,
             \/ Busy(t) \/ Fails(t) \/ LetGo(t) \/ Unlock(t) \/ Close(t) \/ RetireKeeps(t)
      PROVE  HasFile' /\ HasLock'
  <2>1. /\ pc[t] # "idle" /\ flk' = Dropped(t)
        /\ pc' \in {At(t, "idle"), At(t, "open"), At(t, "unlocked")}
        /\ fd' \in {fd, [fd EXCEPT ![t] = NoInode]}
        /\ pc' = At(t, "unlocked") => pc[t] = "unlocking" /\ fd' = fd
    BY <1>4 DEF Busy, Fails, LetGo, Unlock, Close, RetireKeeps, Return, At, LockInv
  <2>2. ASSUME NEW u \in Threads, u # t, pc[u] \in Locked
        PROVE  Dropped(t)[fd[u]] = ProcOf[u]
    BY <2>1, <2>2, DropKeepsLocks
  <2>3. ASSUME NEW u \in Threads, u # t
        PROVE  fd'[u] = fd[u] /\ pc'[u] = pc[u]
    BY <2>1, <2>3 DEF At, LockInv
  <2>4. pc'[t] \in {"idle", "open", "unlocked"} /\ (pc'[t] = "unlocked" => fd'[t] \in Inodes)
    BY <2>1 DEF At, LockInv
  <2> QED BY <2>1, <2>2, <2>3, <2>4 DEF LockInv
<1>5. ASSUME NEW t \in Threads,
             \/ Check(t) \/ FinishLook(t) \/ FinishUnlink(t) \/ Nest(t) \/ Unnest(t)
             \/ Leave(t) \/ RetireNamed(t) \/ RetireTomb(t) \/ RetireCannot(t)
             \/ RetireUnlink(t)
      PROVE  HasFile' /\ HasLock'
  <2>1. pc[t] \in Locked /\ UNCHANGED <<flk, fd>> /\ \A u \in Threads \ {t} : pc'[u] = pc[u]
    BY <1>5 DEF Check, FinishLook, FinishUnlink, Nest, Unnest, Leave, RetireNamed,
                RetireTomb, RetireCannot, RetireUnlink, At, LockInv
  <2> QED BY <2>1 DEF LockInv
<1>6. ASSUME NEW p \in Procs, Crash(p) PROVE HasFile' /\ HasLock'
  BY <1>6 DEF Crash, LockInv, Procs
<1>7. CASE UNCHANGED vars
  BY <1>7 DEF vars, LockInv
<1> QED
  BY <1>1, <1>2, <1>3, <1>4, <1>5, <1>6, <1>7 DEF Next, Taking, Holding, Retiring

\* What a thread saw of the name and of the tombstone under its lock stays so.
LEMMA NameKept ==
    ASSUME LockInv, [Next]_vars
    PROVE  NameStays'
<1> USE LockAssumption DEF TypeOK, NameStays, Named, Retired
\* The steps that leave the name and the tombstones alone.
<1>1. ASSUME NEW t \in Threads, UNCHANGED <<name, tomb>>,
             pc'[t] \notin Named \union {"stale"},
             \A u \in Threads \ {t} : pc'[u] = pc[u] /\ fd'[u] = fd[u]
      PROVE  NameStays'
  BY <1>1 DEF LockInv
<1>2. ASSUME NEW t \in Threads,
             \/ Enter(t) \/ Lock(t) \/ Busy(t) \/ LetGo(t) \/ Leave(t) \/ Unlock(t)
             \/ Close(t) \/ RetireOpen(t) \/ RetireLock(t) \/ RetireKeeps(t)
      PROVE  NameStays'
  <2>1. /\ UNCHANGED <<name, tomb>> /\ pc'[t] \notin Named \union {"stale"}
        /\ \A u \in Threads \ {t} : pc'[u] = pc[u] /\ fd'[u] = fd[u]
    BY <1>2 DEF Enter, Lock, Busy, LetGo, Leave, Unlock, Close, RetireOpen, RetireLock,
                RetireKeeps, Return, At, LockInv
  <2> QED BY <1>1, <2>1
<1>3. ASSUME NEW t \in Threads, Check(t) \/ FinishLook(t) \/ RetireNamed(t)
      PROVE  NameStays'
  BY <1>3 DEF Check, FinishLook, RetireNamed, Linked, At, LockInv
<1>4. ASSUME NEW t \in Threads, Nest(t) \/ Unnest(t) PROVE NameStays'
  BY <1>4 DEF Nest, Unnest, LockInv
\* A created inode is one that nobody has open.
<1>5. ASSUME NEW t \in Threads, Open(t) PROVE NameStays'
  <2>1. ASSUME NEW u \in Threads, u # t, name = NoInode, pc[u] \in Named \union {"stale"}
        PROVE  pc[u] = "stale" /\ fd[u] \in Inodes
    BY <2>1 DEF LockInv, HasFile, Locked
  <2> QED BY <1>5, <2>1 DEF Open, At, LockInv, HasFile, Locked
\* The name is removed, or the inode tombstoned, by a thread that has the
\* inode it names locked; no other thread can rely on that inode.
<1>6. ASSUME NEW t \in Threads, pc[t] \in {"finishing", "rTombed", "rNamed"}
      PROVE  \A u \in Threads \ {t} : fd[u] = fd[t] => pc[u] \notin Named \union {"stale"}
  BY <1>6, LockedAlone DEF LockInv, Locked
<1>7. ASSUME NEW t \in Threads,
             Fails(t) \/ FinishUnlink(t) \/ RetireUnlink(t) \/ RetireTomb(t) \/ RetireCannot(t)
      PROVE  NameStays'
  <2>1. \/ pc[t] \in {"finishing", "rTombed"} /\ UNCHANGED tomb /\ name' \in {name, NoInode}
        \/ pc[t] = "rNamed" /\ UNCHANGED name /\ tomb' \in {tomb, tomb \union {fd[t]}}
        \/ UNCHANGED <<name, tomb>>
    BY <1>7 DEF Fails, FinishUnlink, RetireUnlink, RetireTomb, RetireCannot
  <2>2. \A u \in Threads \ {t} : pc'[u] = pc[u] /\ fd'[u] = fd[u]
    BY <1>7 DEF Fails, FinishUnlink, RetireUnlink, RetireTomb, RetireCannot, Return, At,
                LockInv
  <2>3. \/ pc'[t] \notin Named \union {"stale"}
        \/ /\ pc[t] = "rNamed" /\ pc'[t] = "rTombed"
           /\ fd'[t] = fd[t] /\ name' = name /\ fd[t] \in tomb'
    BY <1>7 DEF Fails, FinishUnlink, RetireUnlink, RetireTomb, RetireCannot, Return, At,
                LockInv
  <2>4. ASSUME NEW u \in Threads \ {t}
        PROVE  /\ pc'[u] \in Named => name' = fd'[u]
               /\ pc'[u] \in Retired => fd'[u] \in tomb'
               /\ pc'[u] = "stale" => name' # fd'[u] \/ fd'[u] \in tomb'
               /\ pc'[u] = "holding" => fd'[u] \notin tomb'
    <3>1. CASE pc[t] \in {"finishing", "rTombed"} /\ UNCHANGED tomb /\ name' \in {name, NoInode}
      <4>1. name = fd[t]
        BY <3>1 DEF LockInv
      <4>2. pc[u] \in Named => name = fd[u]
        BY DEF LockInv
      <4>3. pc[u] \notin Named
        BY <1>6, <3>1, <4>1, <4>2
      <4>4. pc[u] = "stale" => fd[u] \in Inodes
        BY DEF LockInv, HasFile, Locked
      <4> QED BY <2>2, <3>1, <4>3, <4>4 DEF LockInv
    <3>2. CASE pc[t] = "rNamed" /\ UNCHANGED name /\ tomb' \in {tomb, tomb \union {fd[t]}}
      BY <1>6, <2>2, <3>2 DEF LockInv
    <3>3. CASE UNCHANGED <<name, tomb>>
      BY <2>2, <3>3 DEF LockInv
    <3> QED BY <2>1, <3>1, <3>2, <3>3
  <2> QED BY <2>3, <2>4 DEF LockInv
<1>8. ASSUME NEW p \in Procs, Crash(p) PROVE NameStays'
  BY <1>8 DEF Crash, LockInv
<1>9. CASE UNCHANGED vars
  BY <1>9 DEF vars, LockInv
<1> QED
  BY <1>2, <1>3, <1>4, <1>5, <1>7, <1>8, <1>9 DEF Next, Taking, Holding, Retiring

\* The inductive invariant holds of every behaviour.
THEOREM Locking == Spec => []LockInv
<1>1. LockInv /\ [Next]_vars => LockInv'
  BY TypeKept, MutexKept, LocksKept, NameKept DEF LockInv
<1> QED BY <1>1, InitLock, PTL DEF Spec

\* The types hold, for every set of threads, processes and inodes.
THEOREM LockTypeCorrect == Spec => []TypeOK
BY Locking, PTL DEF LockInv

\* held excludes every other taker, in its own process and in others,
\* whatever is retired, refused or killed meanwhile.
THEOREM LockExcludes == Spec => []MutualExclusion
<1>1. LockInv => MutualExclusion
  <2> SUFFICES ASSUME LockInv, NEW t \in Threads, NEW u \in Threads, Holds(t), Holds(u)
               PROVE  t = u
    BY DEF MutualExclusion
  <2>1. fd[t] = fd[u] /\ pc[t] \in Locked /\ pc[u] \in Locked
    BY DEF LockInv, NameStays, Named, Holds, Locked
  <2> QED BY <2>1, LockedAlone DEF LockInv
<1> QED BY <1>1, Locking, PTL

\* While the lock is held its name leads every new taker to it.
THEOREM HeldIsFound == Spec => []NameNamesTheHeld
<1>1. LockInv => NameNamesTheHeld
  BY DEF LockInv, NameNamesTheHeld, NameStays, HasLock, Named, Holds, Locked
<1> QED BY <1>1, Locking, PTL

\* No step removes the name of an inode that is not tombstoned.
THEOREM UnlinkedAreTombstoned == Spec => OnlyTombstonedUnlinked
<1>1. LockInv /\ [Next]_vars => [name # NoInode /\ name' # name => name \in tomb]_vars
  <2> SUFFICES ASSUME LockInv, Next, name # NoInode, name' # name
               PROVE  name \in tomb
    BY DEF vars
  <2>1. PICK t \in Threads : FinishUnlink(t) \/ Fails(t) \/ RetireUnlink(t)
    BY DEF Next, Enter, Taking, Open, Lock, Busy, Check, FinishLook, LetGo, Holding, Nest,
           Unnest, Leave, Unlock, Close, Retiring, RetireOpen, RetireLock, RetireKeeps,
           RetireNamed, RetireTomb, RetireCannot, Crash
  <2>2. pc[t] \in {"finishing", "rTombed"}
    BY <2>1 DEF FinishUnlink, Fails, RetireUnlink
  <2> QED BY <2>2 DEF LockInv, NameStays, Named, Retired
<1> QED BY <1>1, Locking, PTL DEF Spec, OnlyTombstonedUnlinked
=============================================================================
