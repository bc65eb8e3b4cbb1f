------------------------------ MODULE PosixLock ------------------------------
(***************************************************************************)
(* The lock every queue transition runs under: posix_lock.py, one lock     *)
(* file, its takers (held) and its removal (retire).                       *)
(*                                                                         *)
(* A lock is a file locked with lockf.  The kernel's lock belongs to a     *)
(* process and an inode: it refuses other processes only, and closing any  *)
(* descriptor of the inode drops it.  Threads of one process are therefore *)
(* serialized by a mutex around the whole acquisition.  A lock file may be *)
(* unlinked while others wait for it, so that two processes can have locks *)
(* on two inodes of the same name; the retirement protocol (tombstone,     *)
(* unlink, check after locking) is what still excludes them.               *)
(*                                                                         *)
(* unlink acts on a NAME, whatever inode it names by then.  An inode with  *)
(* no name and no open descriptor is free and may be created again.        *)
(* Definitions named Faulty... are the definition below them with a bug    *)
(* put in; they show that the properties can fail.                         *)
(***************************************************************************)
EXTENDS Integers

CONSTANTS
    Threads,    \* takers and retirers
    ProcOf,     \* the process of each thread
    Inodes,
    NoInode, NoProc, NoThread,
    MaxNest     \* bound: nested acquisitions by the holder

Procs == {ProcOf[t] : t \in Threads}

ASSUME LockAssumption ==
    /\ DOMAIN ProcOf = Threads
    /\ NoInode \notin Inodes /\ NoProc \notin Procs /\ NoThread \notin Threads
    /\ MaxNest \in Nat

VARIABLES
    name,    \* the inode the lock's name names
    tomb,    \* inodes whose bytes are TOMBSTONE
    flk,     \* the process that has each inode locked
    mutex,   \* the thread that has each process's mutex for this path
    fd,      \* the inode each thread has open
    pc, nest,
    block    \* threads whose call is blocking

vars == <<name, tomb, flk, mutex, fd, pc, nest, block>>

Steps == {"idle", "open", "opened", "locked", "stale", "finishing", "letGo",
          "holding", "unlocking", "unlocked",
          "rOpened", "rLocked", "rNamed", "rTombed"}

\* Where a thread has the kernel's lock on its descriptor.
Locked == {"locked", "stale", "finishing", "letGo", "holding", "unlocking",
           "rLocked", "rNamed", "rTombed"}

\* Every variable has its type.
TypeOK ==
    /\ name \in Inodes \union {NoInode}
    /\ tomb \subseteq Inodes
    /\ flk \in [Inodes -> Procs \union {NoProc}]
    /\ mutex \in [Procs -> Threads \union {NoThread}]
    /\ fd \in [Threads -> Inodes \union {NoInode}]
    /\ pc \in [Threads -> Steps]
    /\ nest \in [Threads -> 0..MaxNest]
    /\ block \subseteq Threads

Init ==
    /\ name = NoInode /\ tomb = {}
    /\ flk = [i \in Inodes |-> NoProc]
    /\ mutex = [p \in Procs |-> NoThread]
    /\ fd = [t \in Threads |-> NoInode]
    /\ pc = [t \in Threads |-> "idle"]
    /\ nest = [t \in Threads |-> 0]
    /\ block = {}

-----------------------------------------------------------------------------
(* What the system calls do.                                               *)

At(t, step) == [pc EXCEPT ![t] = step]

\* lockf is granted: nobody else's lock is on the inode.
Grantable(t) == flk[fd[t]] \in {NoProc, ProcOf[t]}

\* LOCK_UN, or a close: the process's lock on the inode is gone.
Dropped(t) ==
    [i \in Inodes |-> IF i = fd[t] /\ flk[i] = ProcOf[t] THEN NoProc ELSE flk[i]]

\* The descriptor is closed and the mutex released: the call returns.
Return(t) ==
    /\ flk' = Dropped(t)
    /\ fd' = [fd EXCEPT ![t] = NoInode]
    /\ mutex' = [mutex EXCEPT ![ProcOf[t]] = NoThread]
    /\ pc' = At(t, "idle")
    /\ block' = block \ {t}

\* nlink of the open inode is not 0, and the name names it.
Linked(t) == name = fd[t]

-----------------------------------------------------------------------------
(* held.                                                                   *)

\* The mutex, blocking or not.
Enter(t) ==
    /\ pc[t] = "idle" /\ mutex[ProcOf[t]] = NoThread
    /\ mutex' = [mutex EXCEPT ![ProcOf[t]] = t]
    /\ pc' = At(t, "open")
    /\ block' \in {block, block \union {t}}
    /\ UNCHANGED <<name, tomb, flk, fd, nest>>

\* os.open with O_CREAT.
Open(t) ==
    /\ pc[t] = "open"
    /\ \/ name # NoInode /\ UNCHANGED <<name, tomb>>
       \/ /\ name = NoInode
          /\ \E i \in Inodes :
               /\ \A u \in Threads : fd[u] # i
               /\ name' = i /\ tomb' = tomb \ {i}
    /\ fd' = [fd EXCEPT ![t] = name']
    /\ pc' = At(t, "opened")
    /\ UNCHANGED <<flk, mutex, nest, block>>

Lock(t) ==
    /\ pc[t] = "opened" /\ Grantable(t)
    /\ flk' = [flk EXCEPT ![fd[t]] = ProcOf[t]]
    /\ pc' = At(t, "locked")
    /\ UNCHANGED <<name, tomb, mutex, fd, nest, block>>

\* A non-blocking caller is refused.
Busy(t) ==
    /\ pc[t] = "opened" /\ t \notin block /\ ~ Grantable(t)
    /\ Return(t)
    /\ UNCHANGED <<name, tomb, nest>>

\* The inode is taken as it was opened; nothing is read after the lock.
FaultyCheck(t) ==
    /\ pc[t] = "locked"
    /\ pc' = At(t, "holding")
    /\ UNCHANGED <<name, tomb, flk, mutex, fd, nest, block>>

\* _retired, read after lockf returned.
Check(t) ==
    /\ pc[t] = "locked"
    /\ pc' = At(t, IF Linked(t) /\ fd[t] \notin tomb THEN "holding" ELSE "stale")
    /\ UNCHANGED <<name, tomb, flk, mutex, fd, nest, block>>

\* A retired inode is let go and its name is left as it is.
FaultyFinishLook(t) ==
    /\ pc[t] = "stale"
    /\ pc' = At(t, "letGo")
    /\ UNCHANGED <<name, tomb, flk, mutex, fd, nest, block>>

\* _finish_retirement: does the name still name the tombstoned inode?
FinishLook(t) ==
    /\ pc[t] = "stale"
    /\ pc' = At(t, IF Linked(t) THEN "finishing" ELSE "letGo")
    /\ UNCHANGED <<name, tomb, flk, mutex, fd, nest, block>>

FinishUnlink(t) ==
    /\ pc[t] = "finishing"
    /\ name' = NoInode
    /\ pc' = At(t, "letGo")
    /\ UNCHANGED <<tomb, flk, mutex, fd, nest, block>>

\* A call on the way raises; the error goes to the caller.  An unlink may
\* have landed whose directory sync then failed.
Fails(t) ==
    /\ pc[t] \in {"open", "opened", "locked", "stale", "finishing"}
    /\ \/ UNCHANGED name
       \/ pc[t] = "finishing" /\ name' = NoInode
    /\ Return(t)
    /\ UNCHANGED <<tomb, nest>>

\* Unlock and close the retired inode, and open the name again.
LetGo(t) ==
    /\ pc[t] = "letGo"
    /\ flk' = Dropped(t)
    /\ fd' = [fd EXCEPT ![t] = NoInode]
    /\ pc' = At(t, "open")
    /\ UNCHANGED <<name, tomb, mutex, nest, block>>

\* The same thread takes the lock again, and leaves the inner call.
Nest(t) ==
    /\ pc[t] = "holding" /\ nest[t] < MaxNest
    /\ nest' = [nest EXCEPT ![t] = @ + 1]
    /\ UNCHANGED <<name, tomb, flk, mutex, fd, pc, block>>

\* The inner call closes a descriptor of its own.
FaultyUnnest(t) ==
    /\ pc[t] = "holding" /\ nest[t] > 0
    /\ nest' = [nest EXCEPT ![t] = @ - 1]
    /\ flk' = Dropped(t)
    /\ UNCHANGED <<name, tomb, mutex, fd, pc, block>>

\* The mutex is released once more than it was taken.
FaultyUnnestOnce(t) ==
    /\ pc[t] = "holding"
    /\ nest' = [nest EXCEPT ![t] = @ - 1]
    /\ UNCHANGED <<name, tomb, flk, mutex, fd, pc, block>>

Unnest(t) ==
    /\ pc[t] = "holding" /\ nest[t] > 0
    /\ nest' = [nest EXCEPT ![t] = @ - 1]
    /\ UNCHANGED <<name, tomb, flk, mutex, fd, pc, block>>

\* The body is left: LOCK_UN, then close and release the mutex.
Leave(t) ==
    /\ pc[t] = "holding" /\ nest[t] = 0
    /\ pc' = At(t, "unlocking")
    /\ UNCHANGED <<name, tomb, flk, mutex, fd, nest, block>>

Unlock(t) ==
    /\ pc[t] = "unlocking"
    /\ flk' = Dropped(t)
    /\ pc' = At(t, "unlocked")
    /\ UNCHANGED <<name, tomb, mutex, fd, nest, block>>

Close(t) ==
    /\ pc[t] = "unlocked"
    /\ Return(t)
    /\ UNCHANGED <<name, tomb, nest>>

-----------------------------------------------------------------------------
(* retire; it never waits.                                                 *)

\* Open the existing file.
RetireOpen(t) ==
    /\ pc[t] = "idle" /\ mutex[ProcOf[t]] = NoThread
    /\ name # NoInode
    /\ mutex' = [mutex EXCEPT ![ProcOf[t]] = t]
    /\ fd' = [fd EXCEPT ![t] = name]
    /\ pc' = At(t, "rOpened")
    /\ UNCHANGED <<name, tomb, flk, nest, block>>

RetireLock(t) ==
    /\ pc[t] = "rOpened" /\ Linked(t) /\ Grantable(t)
    /\ flk' = [flk EXCEPT ![fd[t]] = ProcOf[t]]
    /\ pc' = At(t, "rLocked")
    /\ UNCHANGED <<name, tomb, mutex, fd, nest, block>>

\* It is held, or was retired by someone else: keep it.
RetireKeeps(t) ==
    /\ \/ pc[t] = "rOpened" /\ ~ (Linked(t) /\ Grantable(t))
       \/ pc[t] = "rLocked" /\ ~ Linked(t)
    /\ Return(t)
    /\ UNCHANGED <<name, tomb, nest>>

\* The locked inode is the one the name still names.
RetireNamed(t) ==
    /\ pc[t] = "rLocked" /\ Linked(t)
    /\ pc' = At(t, "rNamed")
    /\ UNCHANGED <<name, tomb, flk, mutex, fd, nest, block>>

\* The name is unlinked without a tombstone in the file.
FaultyRetireTomb(t) ==
    /\ pc[t] = "rNamed"
    /\ pc' = At(t, "rTombed")
    /\ UNCHANGED <<name, tomb, flk, mutex, fd, nest, block>>

\* Write and sync the tombstone, unless a cut-off retirement left one.
RetireTomb(t) ==
    /\ pc[t] = "rNamed"
    /\ tomb' = tomb \union {fd[t]}
    /\ pc' = At(t, "rTombed")
    /\ UNCHANGED <<name, flk, mutex, fd, nest, block>>

\* The tombstone cannot be written, or not synced.
RetireCannot(t) ==
    /\ pc[t] = "rNamed"
    /\ tomb' \in {tomb, tomb \union {fd[t]}}
    /\ pc' = At(t, "unlocking")
    /\ UNCHANGED <<name, flk, mutex, fd, nest, block>>

\* Unlink the name, or be refused; then unlock and close.
RetireUnlink(t) ==
    /\ pc[t] = "rTombed"
    /\ name' \in {NoInode, name}
    /\ pc' = At(t, "unlocking")
    /\ UNCHANGED <<tomb, flk, mutex, fd, nest, block>>

-----------------------------------------------------------------------------
\* A process dies: the kernel closes its descriptors and drops its locks.
Crash(p) ==
    /\ flk' = [i \in Inodes |-> IF flk[i] = p THEN NoProc ELSE flk[i]]
    /\ mutex' = [mutex EXCEPT ![p] = NoThread]
    /\ fd' = [t \in Threads |-> IF ProcOf[t] = p THEN NoInode ELSE fd[t]]
    /\ pc' = [t \in Threads |-> IF ProcOf[t] = p THEN "idle" ELSE pc[t]]
    /\ nest' = [t \in Threads |-> IF ProcOf[t] = p THEN 0 ELSE nest[t]]
    /\ block' = {t \in block : ProcOf[t] # p}
    /\ UNCHANGED <<name, tomb>>

Taking(t) ==
    \/ Open(t) \/ Lock(t) \/ Busy(t) \/ Check(t)
    \/ FinishLook(t) \/ FinishUnlink(t) \/ LetGo(t)

Holding(t) == Nest(t) \/ Unnest(t) \/ Leave(t) \/ Unlock(t) \/ Close(t)

Retiring(t) ==
    \/ RetireOpen(t) \/ RetireLock(t) \/ RetireKeeps(t) \/ RetireNamed(t)
    \/ RetireTomb(t) \/ RetireCannot(t) \/ RetireUnlink(t)

Next ==
    \/ \E t \in Threads : Enter(t) \/ Taking(t) \/ Fails(t) \/ Holding(t) \/ Retiring(t)
    \/ \E p \in Procs : Crash(p)

Spec == Init /\ [][Next]_vars

(***************************************************************************)
(* A thread goes on with its call, a body under the lock is left, and the  *)
(* kernel does not grant a lock to others for ever while one waits.        *)
(* Nothing makes a call start, fail or crash.                              *)
(***************************************************************************)
FairSpec ==
    /\ Spec
    /\ \A t \in Threads :
         /\ WF_vars(Taking(t)) /\ SF_vars(Lock(t))
         /\ WF_vars(Unnest(t)) /\ SF_vars(Leave(t))
         /\ WF_vars(Unlock(t)) /\ WF_vars(Close(t))
         /\ WF_vars(Retiring(t) /\ pc[t] # "idle")

-----------------------------------------------------------------------------
(* Properties.                                                             *)

Holds(t) == pc[t] = "holding"

\* At most one thread, of any process, is inside the body of held, although
\* lockf knows only processes and the name may have named several inodes
\* since each taker opened it.
MutualExclusion ==
    \A t, u \in Threads : Holds(t) /\ Holds(u) => t = u

\* For the whole of a hold the name names the inode that is locked, and that
\* inode is not a retired one: a taker who opens the name now meets the lock.
NameNamesTheHeld ==
    \A t \in Threads :
        Holds(t) => name = fd[t] /\ fd[t] \notin tomb /\ flk[fd[t]] = ProcOf[t]

\* unlink takes a name; the inode it removes is always one that was
\* tombstoned first, so that every taker who has it open lets it go.
OnlyTombstonedUnlinked ==
    [][name # NoInode /\ name' # name => name \in tomb]_vars

\* Once retirements stop, a blocking caller gets the lock, unless its call
\* fails or its process dies: what a retirement that was cut off before its
\* unlink left behind does not make it open the same file again for ever.
WaiterGetsTheLock ==
    <>[][\A t \in Threads : ~ RetireOpen(t)]_vars =>
        \A t \in Threads :
            pc[t] = "open" /\ t \in block ~> pc[t] \in {"holding", "idle"}
=============================================================================
