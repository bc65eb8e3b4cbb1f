------------------------------ MODULE EventRing ------------------------------
(***************************************************************************)
(* The bell service's bounded history of queue hints and its long-polling  *)
(* requests (EventRing in queue_bell_events.py).                           *)
(*                                                                         *)
(* Every step below but Woken, Expires and Leave is one critical           *)
(* section of the ring's lock.  A request registers first, then looks, then *)
(* sleeps on its socket pair; an unread wake-up makes the socket ready.    *)
(* A hint is its topic: an identifier filter is a finer topic filter.  A   *)
(* version 1 request has version 0, a version 2 request the coverage       *)
(* version its client last saw.                                            *)
(*                                                                         *)
(* Definitions named Faulty... are the definition below them with a bug    *)
(* put in; they show that the properties can fail.                         *)
(***************************************************************************)
EXTENDS Naturals, Sequences

CONSTANTS
    Topics,
    Capacity,       \* hints the ring keeps
    Waiters,        \* connections
    MaxSeq,         \* bound on sequence numbers
    MaxEpoch        \* bound on how often the service is started again

ASSUME RingAssumption ==
    /\ Capacity \in Nat \ {0}
    /\ MaxSeq \in Nat /\ MaxEpoch \in Nat /\ "lost" \notin Topics

VARIABLES
    epoch, seq, floor, events,
    closed, covered_topics, coverage_version,
    waiters,        \* each connection's request and its answer
    byte,           \* the waiters with an unread wake-up
    log             \* history: what was appended in this epoch, resets included

ring == <<epoch, seq, floor, events, closed, covered_topics, coverage_version, log>>
ringvars == <<ring, waiters, byte>>

\* What a reset leaves in the history: a change to every topic.
Lost == "lost"

Cursors == [epoch : Nat, seq : Nat]
Hints == [seq : Nat, topic : Topics]
Requests ==
    [at : {"out", "checking", "blocked", "answered"}, since : Cursors,
     dirs : SUBSET Topics, version : Nat, expired : BOOLEAN,
     reset : BOOLEAN, cursor : Cursors, found : SUBSET Hints]

Nowhere == [epoch |-> 0, seq |-> 0]
NoRequest ==
    [at |-> "out", since |-> Nowhere, dirs |-> {}, version |-> 0, expired |-> FALSE,
     reset |-> FALSE, cursor |-> Nowhere, found |-> {}]

RingTypeOK ==
    /\ epoch \in Nat /\ seq \in Nat /\ floor \in Nat /\ coverage_version \in Nat
    /\ events \in Seq(Hints) /\ Len(events) <= Capacity
    /\ closed \in BOOLEAN /\ covered_topics \subseteq Topics
    /\ waiters \in [Waiters -> Requests] /\ byte \subseteq Waiters
    /\ log \subseteq [seq : Nat, topic : Topics \union {Lost}]

RingInit ==
    /\ epoch = 0 /\ seq = 0 /\ floor = 0 /\ events = <<>> /\ log = {}
    /\ closed = FALSE /\ covered_topics = Topics /\ coverage_version = 2
    /\ waiters = [w \in Waiters |-> NoRequest] /\ byte = {}

-----------------------------------------------------------------------------
(* The ring.                                                               *)

Registered == {w \in Waiters : waiters[w].at \in {"checking", "blocked"}}

\* _wake(event): a request that matches, or whose history has been dropped.
FaultyWokenBy(t, oldest) == {w \in Registered : t \in waiters[w].dirs}

WokenBy(t, oldest) ==
    {w \in Registered : waiters[w].since.seq < oldest \/ t \in waiters[w].dirs}

\* append: a full ring drops its oldest hint, whose number becomes the floor.
FaultyDropped == IF Len(events) = Capacity THEN events[1].seq - 1 ELSE floor

Dropped == IF Len(events) = Capacity THEN events[1].seq ELSE floor

FaultyRoom == IF Len(events) > Capacity THEN Tail(events) ELSE events

Room == IF Len(events) = Capacity THEN Tail(events) ELSE events

Appended(t) ==
    /\ seq < MaxSeq
    /\ seq' = seq + 1
    /\ floor' = Dropped
    /\ events' = Append(Room, [seq |-> seq + 1, topic |-> t])
    /\ log' = log \union {[seq |-> seq + 1, topic |-> t]}
    /\ byte' = byte \union WokenBy(t, floor')
    /\ UNCHANGED <<epoch, closed, covered_topics, coverage_version, waiters>>

Reset ==
    /\ seq < MaxSeq
    /\ seq' = seq + 1
    /\ floor' = seq + 1
    /\ events' = <<>>
    /\ log' = log \union {[seq |-> seq + 1, topic |-> Lost]}
    /\ byte' = byte \union Registered
    /\ UNCHANGED <<epoch, closed, covered_topics, coverage_version, waiters>>

ResetV2 ==
    /\ coverage_version' = coverage_version + 1
    /\ byte' = byte \union Registered
    /\ UNCHANGED <<epoch, seq, floor, events, closed, covered_topics, waiters, log>>

SetCoverage(topics) ==
    /\ covered_topics' = topics
    /\ coverage_version' = IF topics = covered_topics THEN coverage_version
                           ELSE coverage_version + 1
    /\ byte' = IF topics = covered_topics THEN byte ELSE byte \union Registered
    /\ UNCHANGED <<epoch, seq, floor, events, closed, waiters, log>>

Close ==
    /\ closed' = TRUE
    /\ covered_topics' = {}
    /\ coverage_version' = IF covered_topics = {} THEN coverage_version
                           ELSE coverage_version + 1
    /\ byte' = byte \union Registered
    /\ UNCHANGED <<epoch, seq, floor, events, waiters, log>>

\* BellService: a new ring, published once its watches are installed.  The
\* requests of the process before it are gone; what it had answered is not.
NewRing ==
    /\ epoch < MaxEpoch
    /\ epoch' = epoch + 1
    /\ seq' = 0 /\ floor' = 0 /\ events' = <<>> /\ log' = {}
    /\ closed' = FALSE /\ covered_topics' = Topics /\ coverage_version' = 2
    /\ waiters' = [w \in Waiters |-> IF w \in Registered THEN NoRequest ELSE waiters[w]]
    /\ byte' = {}

-----------------------------------------------------------------------------
(* A request: _wait.                                                       *)

Register(w, since, dirs, version) ==
    /\ waiters[w].at = "out"
    /\ waiters' = [waiters EXCEPT ![w] = [NoRequest EXCEPT
                     !.at = "checking", !.since = since, !.dirs = dirs, !.version = version]]
    /\ UNCHANGED <<ring, byte>>

\* Why the request cannot be answered from the history.
Reason(r) ==
    \/ closed
    \/ r.since.epoch # epoch
    \/ ~(floor <= r.since.seq /\ r.since.seq <= seq)
    \/ r.version # 0 /\ (r.version # coverage_version \/ ~(r.dirs \subseteq covered_topics))

Kept == {events[i] : i \in DOMAIN events}

Found(r) == {e \in Kept : e.seq > r.since.seq /\ e.topic \in r.dirs}

Answered(r, reset) ==
    [r EXCEPT !.at = "answered", !.reset = reset, !.cursor = [epoch |-> epoch, seq |-> seq],
              !.found = IF reset THEN {} ELSE Found(r)]

\* One look under the lock: a reset, what was found, an empty answer when the
\* time is up, or back to sleep.
Look(w) ==
    LET r == waiters[w]
    IN  /\ r.at = "checking"
        /\ \/ Reason(r) /\ waiters' = [waiters EXCEPT ![w] = Answered(r, TRUE)]
           \/ /\ ~Reason(r) /\ (Found(r) # {} \/ r.expired)
              /\ waiters' = [waiters EXCEPT ![w] = Answered(r, FALSE)]
           \/ /\ ~Reason(r) /\ Found(r) = {} /\ ~r.expired
              /\ waiters' = [waiters EXCEPT ![w].at = "blocked"]
        /\ byte' = IF waiters'[w].at = "answered" THEN byte \ {w} ELSE byte
        /\ UNCHANGED ring

\* select returns: a wake-up, the deadline, or the client's end of the stream.
Woken(w) ==
    /\ waiters[w].at = "blocked" /\ w \in byte
    /\ waiters' = [waiters EXCEPT ![w].at = "checking"]
    /\ byte' = byte \ {w}
    /\ UNCHANGED ring

Expires(w) ==
    /\ waiters[w].at = "blocked"
    /\ waiters' = [waiters EXCEPT ![w].at = "checking", ![w].expired = TRUE]
    /\ UNCHANGED <<ring, byte>>

\* The client has gone, or has its answer.
Leave(w) ==
    /\ waiters[w].at # "out"
    /\ waiters' = [waiters EXCEPT ![w] = NoRequest]
    /\ byte' = byte \ {w}
    /\ UNCHANGED ring

\* Whatever a client asks for.
Registers(w) ==
    LET r == waiters'[w]
    IN  r \in Requests /\ Register(w, r.since, r.dirs, r.version)

RingNext ==
    \/ \E t \in Topics : Appended(t)
    \/ Reset \/ ResetV2 \/ Close \/ NewRing
    \/ \E topics \in SUBSET Topics : SetCoverage(topics)
    \/ \E w \in Waiters :
         Registers(w) \/ Look(w) \/ Woken(w) \/ Expires(w) \/ Leave(w)

RingSpec == RingInit /\ [][RingNext]_ringvars

-----------------------------------------------------------------------------
\* A request that sleeps with no wake-up to read has nothing to be told: no hint
\* it asked for has come since its cursor, its history is whole, and coverage is
\* what its client saw (_wait registers before it looks; _wake filters).
SleeperHasNothing ==
    \A w \in Waiters :
        waiters[w].at = "blocked" /\ w \notin byte =>
            ~Reason(waiters[w]) /\ Found(waiters[w]) = {}

\* What the ring was told between the request's cursor and the answer's.
Between(r) == {e \in log : r.since.seq < e.seq /\ e.seq <= r.cursor.seq}

\* An answer that is not a reset names every hint asked for between the request's
\* cursor and the answer's, though the ring has kept only the last Capacity of
\* them, and none was lost to a reset (append's floor, history_lost).
AnswerIsComplete ==
    \A w \in Waiters :
        LET r == waiters[w]
        IN  r.at = "answered" /\ ~r.reset /\ r.cursor.epoch = epoch =>
                r.found = {e \in Between(r) : e.topic \in r.dirs \union {Lost}}
=============================================================================
