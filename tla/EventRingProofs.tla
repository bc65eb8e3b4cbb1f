--------------------------- MODULE EventRingProofs ---------------------------
(***************************************************************************)
(* Proofs about EventRing, for every capacity, set of topics and set of    *)
(* connections.                                                            *)
(*                                                                         *)
(* The inductive invariant says what the ring is: the hints it keeps are   *)
(* exactly the history after its floor, in order.  A request that passes   *)
(* the floor test can therefore be answered from the ring alone.           *)
(***************************************************************************)
EXTENDS EventRing, TLAPS

\* The kept hints are numbered upwards, after the floor and up to seq.
Ordered ==
    /\ \A i \in DOMAIN events : floor < events[i].seq /\ events[i].seq <= seq
    /\ \A i, j \in DOMAIN events : i < j => events[i].seq < events[j].seq

\* They are the history after the floor, which holds no reset.
KeptIsTheHistory ==
    /\ \A i \in DOMAIN events : events[i] \in log
    /\ \A e \in log : e.seq <= seq
    /\ \A e \in log : e.seq > floor => \E i \in DOMAIN events : events[i] = e

\* An answer's cursor is of this epoch or an earlier one.
AnswersArePast ==
    \A w \in Waiters :
        /\ waiters[w].cursor.epoch <= epoch
        /\ waiters[w].at = "answered" /\ waiters[w].cursor.epoch = epoch =>
               waiters[w].cursor.seq <= seq

RingInv ==
    /\ RingTypeOK /\ floor <= seq
    /\ Ordered /\ KeptIsTheHistory
    /\ AnswersArePast /\ AnswerIsComplete /\ SleeperHasNothing

\* A hint added to the ring: what it keeps stays the history after its floor,
\* whether or not a hint had to be dropped.
LEMMA AppendKeepsHistory ==
    ASSUME RingTypeOK, floor <= seq, Ordered, KeptIsTheHistory,
           NEW t \in Topics, Appended(t)
    PROVE  /\ events' \in Seq(Hints) /\ Len(events') <= Capacity
           /\ floor' \in Nat /\ floor <= floor' /\ floor' <= seq
           /\ Ordered' /\ KeptIsTheHistory'
           /\ \A i \in DOMAIN events' :
                  events'[i] = [seq |-> seq + 1, topic |-> t] \/ events'[i] \in Kept
  <1> DEFINE new == [seq |-> seq + 1, topic |-> t]
             base == IF Len(events) = Capacity THEN Tail(events) ELSE events
             d == IF Len(events) = Capacity THEN 1 ELSE 0
  <1>1. /\ new \in Hints /\ new.seq = seq + 1 /\ new.topic = t
        /\ seq \in Nat /\ seq' = seq + 1 /\ floor \in Nat
    BY DEF RingTypeOK, Hints, Appended
  <1>2. /\ events \in Seq(Hints) /\ DOMAIN events = 1 .. Len(events) /\ Len(events) \in Nat
        /\ \A i \in DOMAIN events : events[i] \in Hints /\ events[i].seq \in Nat
        /\ Len(events) <= Capacity
    <2>1. events \in Seq(Hints) /\ Len(events) <= Capacity
      BY DEF RingTypeOK
    <2>2. DOMAIN events = 1 .. Len(events) /\ Len(events) \in Nat
      BY <2>1
    <2>3. \A i \in DOMAIN events : events[i] \in Hints
      BY <2>1
    <2>4. \A e \in Hints : e.seq \in Nat
      BY DEF Hints
    <2> QED BY <2>1, <2>2, <2>3, <2>4
  <1>3. /\ d \in {0, 1} /\ (d = 1 => 1 \in DOMAIN events)
        /\ base \in Seq(Hints) /\ Len(base) = Len(events) - d /\ Len(base) \in Nat
        /\ \A i \in 1 .. Len(base) : base[i] = events[i + d]
        /\ Len(base) < Capacity
    <2>1. CASE Len(events) = Capacity
      <3>1. d = 1 /\ base = Tail(events) /\ events # <<>> /\ 1 \in DOMAIN events
        BY <2>1, <1>2, RingAssumption
      <3>2. /\ Tail(events) \in Seq(Hints) /\ Len(Tail(events)) = Len(events) - 1
            /\ \A i \in 1 .. Len(Tail(events)) : Tail(events)[i] = events[i + 1]
        <4>1. events \in Seq(Hints) /\ events # <<>>
          BY ZenonT(30), <3>1, <1>2
        <4> HIDE <1>2
        <4>2. Tail(events) \in Seq(Hints) /\ Len(Tail(events)) = Len(events) - 1
          BY <4>1
        <4>3. \A i \in 1 .. Len(Tail(events)) : Tail(events)[i] = events[i + 1]
          BY <4>1
        <4> QED BY SMTT(30), <4>2, <4>3
      <3> QED BY <2>1, <3>1, <3>2, <1>2, RingAssumption
    <2>2. CASE Len(events) # Capacity
      BY <2>2, <1>2, RingAssumption
    <2> QED BY <2>1, <2>2
  <1>4. events' = Append(base, new) /\ floor' = IF d = 1 THEN events[1].seq ELSE floor
    BY DEF Appended, Room, Dropped
  <1> HIDE DEF base, new, d
  <1>5. /\ events' \in Seq(Hints) /\ Len(events') = Len(base) + 1
        /\ \A i \in 1 .. Len(base) : events'[i] = base[i]
        /\ events'[Len(base) + 1] = new
        /\ DOMAIN events' = 1 .. (Len(base) + 1)
    BY <1>1, <1>3, <1>4
  <1>6. \A i \in 1 .. Len(base) : i + d \in DOMAIN events /\ events'[i] = events[i + d]
    BY <1>2, <1>3, <1>5
  <1>7. \A i \in DOMAIN events : floor < events[i].seq /\ events[i].seq <= seq
    BY DEF Ordered
  <1>8. floor' \in Nat /\ floor <= floor' /\ floor' <= seq
    <2>1. CASE d = 1
      <3>1. 1 \in DOMAIN events /\ floor' = events[1].seq
        BY <2>1, <1>3, <1>4
      <3>2. events[1].seq \in Nat /\ floor < events[1].seq /\ events[1].seq <= seq
        BY <3>1, <1>2, <1>7
      <3> QED BY <3>1, <3>2, <1>1
    <2>2. CASE d = 0
      BY <2>2, <1>1, <1>4
    <2> QED BY <2>1, <2>2, <1>3
  <1>9. ASSUME NEW i \in 1 .. Len(base)
        PROVE  floor' < events'[i].seq /\ events'[i].seq <= seq
    <2>1. i + d \in DOMAIN events /\ events'[i] = events[i + d]
      BY <1>6
    <2>2. CASE d = 1
      <3>1. 1 \in DOMAIN events /\ floor' = events[1].seq /\ i + 1 \in DOMAIN events /\ 1 < i + 1
        BY <2>1, <2>2, <1>3, <1>4
      <3>2. events[1].seq < events[i + 1].seq
        BY <3>1 DEF Ordered
      <3> QED BY <2>1, <2>2, <3>1, <3>2, <1>7
    <2>3. CASE d = 0
      BY <2>1, <2>3, <1>4, <1>7
    <2> QED BY <2>2, <2>3, <1>3
  <1>10. \A i \in DOMAIN events' :
           events'[i] = new \/ \E k \in DOMAIN events : events'[i] = events[k]
    <2> SUFFICES ASSUME NEW i \in DOMAIN events'
                 PROVE  events'[i] = new \/ \E k \in DOMAIN events : events'[i] = events[k]
      OBVIOUS
    <2>1. i = Len(base) + 1 \/ i \in 1 .. Len(base)
      BY <1>3, <1>5
    <2>2. CASE i = Len(base) + 1
      BY <2>2, <1>5
    <2>3. CASE i \in 1 .. Len(base)
      BY <2>3, <1>6
    <2> QED BY <2>1, <2>2, <2>3
  <1>11. Ordered'
    <2>1. \A i \in DOMAIN events' : floor' < events'[i].seq /\ events'[i].seq <= seq'
      <3> SUFFICES ASSUME NEW i \in DOMAIN events'
                   PROVE  floor' < events'[i].seq /\ events'[i].seq <= seq'
        OBVIOUS
      <3>1. CASE i = Len(base) + 1
        BY <3>1, <1>1, <1>5, <1>8
      <3>2. CASE i \in 1 .. Len(base)
        <4>1. floor' < events'[i].seq /\ events'[i].seq <= seq
          BY <3>2, <1>9
        <4>2. events'[i].seq \in Nat
          BY <3>2, <1>6, <1>2
        <4> QED BY <4>1, <4>2, <1>1
      <3> QED BY <3>1, <3>2, <1>3, <1>5
    <2>2. ASSUME NEW i \in DOMAIN events', NEW j \in DOMAIN events', i < j
          PROVE  events'[i].seq < events'[j].seq
      <3>1. i \in 1 .. Len(base)
        BY <2>2, <1>3, <1>5
      <3>2. CASE j = Len(base) + 1
        <4>1. events'[i].seq <= seq /\ events'[i].seq \in Nat
          BY <3>1, <1>9, <1>6, <1>2
        <4> QED BY <4>1, <3>2, <1>5, <1>1
      <3>3. CASE j \in 1 .. Len(base)
        <4>1. /\ i + d \in DOMAIN events /\ j + d \in DOMAIN events /\ i + d < j + d
              /\ events'[i] = events[i + d] /\ events'[j] = events[j + d]
          <5>1. i + d < j + d
            BY <3>1, <3>3, <2>2, <1>3
          <5> QED BY <3>1, <3>3, <5>1, <1>6
        <4> QED BY <4>1 DEF Ordered
      <3> QED BY <3>2, <3>3, <1>3, <1>5
    <2> QED BY <2>1, <2>2 DEF Ordered
  <1>12. KeptIsTheHistory'
    <2>1. log' = log \union {new}
      BY DEF Appended, new
    <2>2. \A i \in DOMAIN events' : events'[i] \in log'
      BY <2>1, <1>10 DEF KeptIsTheHistory
    <2>3. \A e \in log' : e.seq <= seq'
      BY <2>1, <1>1 DEF KeptIsTheHistory, RingTypeOK
    <2>4. ASSUME NEW e \in log', e.seq > floor'
          PROVE  \E i \in DOMAIN events' : events'[i] = e
      <3>1. CASE e = new
        BY <3>1, <1>3, <1>5
      <3>2. CASE e \in log
        <4>1. PICK k \in DOMAIN events : events[k] = e
          BY <3>2, <2>4, <1>8, <1>1 DEF KeptIsTheHistory, RingTypeOK
        <4>2. ~(d = 1 /\ k = 1)
          BY <4>1, <2>4, <1>2, <1>3, <1>4
        <4>3. k - d \in 1 .. Len(base) /\ (k - d) + d = k
          BY <4>1, <4>2, <1>2, <1>3
        <4>4. events'[k - d] = e
          BY <4>1, <4>3, <1>6
        <4> QED BY <4>3, <4>4, <1>3, <1>5
      <3> QED BY <3>1, <3>2, <2>1
    <2> QED BY <2>2, <2>3, <2>4 DEF KeptIsTheHistory
  <1>13. \A i \in DOMAIN events' : events'[i] = new \/ events'[i] \in Kept
    BY <1>10 DEF Kept
  <1> QED BY <1>3, <1>5, <1>8, <1>11, <1>12, <1>13, RingAssumption DEF new

\* A request that passes the floor test finds in the ring all that its history
\* says it asked for, and no reset.
LEMMA FoundIsTheHistory ==
    ASSUME RingInv, NEW w \in Waiters, ~Reason(waiters[w])
    PROVE  Found(waiters[w]) =
               {e \in log : /\ waiters[w].since.seq < e.seq /\ e.seq <= seq
                            /\ e.topic \in waiters[w].dirs \union {Lost}}
  <1> DEFINE r == waiters[w]
  <1>1. /\ r \in Requests /\ seq \in Nat /\ floor \in Nat
        /\ events \in Seq(Hints)
    BY DEF RingInv, RingTypeOK
  <1>2. r.since.seq \in Nat /\ r.dirs \subseteq Topics
    BY <1>1 DEF Requests, Cursors
  <1>3. floor <= r.since.seq
    BY DEF Reason
  <1>4. \A e \in Kept : e \in log /\ e.topic \in Topics /\ e.seq \in Nat
    <2>1. \A i \in DOMAIN events : events[i] \in Hints
      BY <1>1
    <2>2. \A e \in Hints : e.topic \in Topics /\ e.seq \in Nat
      BY DEF Hints
    <2> QED BY <2>1, <2>2 DEF Kept, RingInv, KeptIsTheHistory
  <1>5. \A e \in log : e.seq \in Nat /\ e.seq <= seq
    BY DEF RingInv, RingTypeOK, KeptIsTheHistory
  <1>6. \A e \in log : e.seq > r.since.seq => e \in Kept
    BY <1>1, <1>2, <1>3, <1>5 DEF Kept, RingInv, KeptIsTheHistory
  <1>7. Lost \notin Topics
    BY RingAssumption DEF Lost
  <1> QED BY <1>2, <1>4, <1>5, <1>6, <1>7 DEF Found

\* Nothing that leaves the history alone disturbs what the ring keeps.
LEMMA HistoryUnchanged ==
    ASSUME RingInv, UNCHANGED <<epoch, seq, floor, events, log>>
    PROVE  (floor <= seq)' /\ Ordered' /\ KeptIsTheHistory'
  BY DEF RingInv, Ordered, KeptIsTheHistory

\* Nor, when no request changes, what has been answered.
LEMMA AnswersUnchanged ==
    ASSUME RingInv, UNCHANGED <<epoch, seq, log, waiters>>
    PROVE  AnswersArePast' /\ AnswerIsComplete'
  BY DEF RingInv, AnswersArePast, AnswerIsComplete, Between

LEMMA AppendedInv == ASSUME RingInv, NEW t \in Topics, Appended(t) PROVE RingInv'
  <1>1. /\ RingTypeOK /\ floor <= seq /\ Ordered /\ KeptIsTheHistory
        /\ AnswersArePast /\ AnswerIsComplete /\ SleeperHasNothing
    BY DEF RingInv
  <1>2. /\ events' \in Seq(Hints) /\ Len(events') <= Capacity
        /\ floor' \in Nat /\ floor <= floor' /\ floor' <= seq
        /\ Ordered' /\ KeptIsTheHistory'
        /\ \A i \in DOMAIN events' :
               events'[i] = [seq |-> seq + 1, topic |-> t] \/ events'[i] \in Kept
    BY <1>1, AppendKeepsHistory
  <1>3. /\ seq \in Nat /\ seq' = seq + 1 /\ epoch' = epoch /\ waiters' = waiters
        /\ log' = log \union {[seq |-> seq + 1, topic |-> t]}
        /\ closed' = closed /\ covered_topics' = covered_topics
        /\ coverage_version' = coverage_version
        /\ byte' = byte \union WokenBy(t, floor')
    BY <1>1 DEF RingTypeOK, Appended
  <1>4. \A w \in Waiters : waiters[w] \in Requests
    BY <1>1 DEF RingTypeOK
  <1>5. RingTypeOK'
    BY <1>1, <1>2, <1>3 DEF RingTypeOK, WokenBy, Registered
  <1>6. AnswersArePast'
    <2> SUFFICES ASSUME NEW w \in Waiters
                 PROVE  /\ waiters[w].cursor.epoch <= epoch
                        /\ waiters[w].at = "answered" /\ waiters[w].cursor.epoch = epoch =>
                               waiters[w].cursor.seq <= seq + 1
      BY <1>3 DEF AnswersArePast
    <2>1. waiters[w].cursor.seq \in Nat
      BY <1>4 DEF Requests, Cursors
    <2> QED BY <1>1, <1>3, <2>1 DEF AnswersArePast
  <1>7. AnswerIsComplete'
    <2> SUFFICES ASSUME NEW w \in Waiters, waiters[w].at = "answered", ~waiters[w].reset,
                        waiters[w].cursor.epoch = epoch
                 PROVE  waiters[w].found =
                          {e \in log' : /\ waiters[w].since.seq < e.seq /\ e.seq <= waiters[w].cursor.seq
                                        /\ e.topic \in waiters[w].dirs \union {Lost}}
      BY <1>3 DEF AnswerIsComplete, Between
    <2>1. waiters[w].cursor.seq \in Nat /\ waiters[w].cursor.seq <= seq
      BY <1>1, <1>4 DEF Requests, Cursors, AnswersArePast
    <2>2. waiters[w].found =
            {e \in log : /\ waiters[w].since.seq < e.seq /\ e.seq <= waiters[w].cursor.seq
                         /\ e.topic \in waiters[w].dirs \union {Lost}}
      BY <1>1 DEF AnswerIsComplete, Between
    <2>3. \A e \in {[seq |-> seq + 1, topic |-> t]} : ~(e.seq <= waiters[w].cursor.seq)
      BY <2>1, <1>3
    <2> QED BY <2>2, <2>3, <1>3
  <1>8. SleeperHasNothing'
    <2> SUFFICES ASSUME NEW w \in Waiters, waiters[w].at = "blocked", w \notin byte'
                 PROVE  ~Reason(waiters[w])' /\ Found(waiters[w])' = {}
      BY <1>3 DEF SleeperHasNothing
    <2>1. /\ w \notin byte /\ ~(waiters[w].since.seq < floor') /\ t \notin waiters[w].dirs
      BY <1>3 DEF WokenBy, Registered
    <2>2. ~Reason(waiters[w]) /\ Found(waiters[w]) = {}
      BY <2>1, <1>1 DEF SleeperHasNothing
    <2>3. waiters[w].since.seq \in Nat
      BY <1>4 DEF Requests, Cursors
    <2>4. ~Reason(waiters[w])'
      BY <2>1, <2>2, <2>3, <1>2, <1>3 DEF Reason
    <2>5. \A e \in Kept' : e.topic = t \/ e \in Kept
      BY <1>2 DEF Kept
    <2> QED BY <2>1, <2>2, <2>4, <2>5, <1>3 DEF Found
  <1> QED BY <1>1, <1>2, <1>3, <1>5, <1>6, <1>7, <1>8 DEF RingInv

LEMMA ResetInv == ASSUME RingInv, Reset PROVE RingInv'
  <1>1. /\ RingTypeOK /\ AnswersArePast /\ AnswerIsComplete /\ KeptIsTheHistory
    BY DEF RingInv
  <1>2. /\ seq \in Nat /\ seq' = seq + 1 /\ floor' = seq + 1 /\ events' = <<>>
        /\ epoch' = epoch /\ waiters' = waiters /\ byte' = byte \union Registered
        /\ log' = log \union {[seq |-> seq + 1, topic |-> Lost]}
        /\ closed' = closed /\ covered_topics' = covered_topics
        /\ coverage_version' = coverage_version
    BY <1>1 DEF RingTypeOK, Reset
  <1>3. \A w \in Waiters : waiters[w] \in Requests
    BY <1>1 DEF RingTypeOK
  <1>4. RingTypeOK'
    <2>1. <<>> \in Seq(Hints) /\ Len(<<>>) = 0 /\ 0 <= Capacity
      BY RingAssumption
    <2> QED BY <2>1, <1>1, <1>2 DEF RingTypeOK, Registered
  <1>5. Ordered' /\ (floor <= seq)'
    BY <1>2 DEF Ordered
  <1>6. KeptIsTheHistory'
    <2>1. \A e \in log : e.seq \in Nat /\ e.seq <= seq
      BY <1>1 DEF RingTypeOK, KeptIsTheHistory
    <2>2. \A e \in log' : e.seq \in Nat /\ e.seq <= seq + 1
      BY <2>1, <1>2
    <2> QED BY <1>2, <2>2 DEF KeptIsTheHistory
  <1>7. AnswersArePast'
    <2> SUFFICES ASSUME NEW w \in Waiters
                 PROVE  /\ waiters[w].cursor.epoch <= epoch
                        /\ waiters[w].at = "answered" /\ waiters[w].cursor.epoch = epoch =>
                               waiters[w].cursor.seq <= seq + 1
      BY <1>2 DEF AnswersArePast
    <2>1. waiters[w].cursor.seq \in Nat
      BY <1>3 DEF Requests, Cursors
    <2> QED BY <1>1, <1>2, <2>1 DEF AnswersArePast
  <1>8. AnswerIsComplete'
    <2> SUFFICES ASSUME NEW w \in Waiters, waiters[w].at = "answered", ~waiters[w].reset,
                        waiters[w].cursor.epoch = epoch
                 PROVE  waiters[w].found =
                          {e \in log' : /\ waiters[w].since.seq < e.seq /\ e.seq <= waiters[w].cursor.seq
                                        /\ e.topic \in waiters[w].dirs \union {Lost}}
      BY <1>2 DEF AnswerIsComplete, Between
    <2>1. waiters[w].cursor.seq \in Nat /\ waiters[w].cursor.seq <= seq
      BY <1>1, <1>3 DEF Requests, Cursors, AnswersArePast
    <2>2. waiters[w].found =
            {e \in log : /\ waiters[w].since.seq < e.seq /\ e.seq <= waiters[w].cursor.seq
                         /\ e.topic \in waiters[w].dirs \union {Lost}}
      BY <1>1 DEF AnswerIsComplete, Between
    <2>3. \A e \in {[seq |-> seq + 1, topic |-> Lost]} : ~(e.seq <= waiters[w].cursor.seq)
      BY <2>1, <1>2
    <2> QED BY <2>2, <2>3, <1>2
  <1>9. SleeperHasNothing'
    BY <1>2 DEF SleeperHasNothing, Registered
  <1> QED BY <1>4, <1>5, <1>6, <1>7, <1>8, <1>9 DEF RingInv

\* The steps that touch coverage alone wake everybody they concern.
LEMMA CoverageInv ==
    ASSUME RingInv, ResetV2 \/ Close \/ \E topics \in SUBSET Topics : SetCoverage(topics)
    PROVE  RingInv'
  <1>1. /\ UNCHANGED <<epoch, seq, floor, events, log, waiters>>
        /\ coverage_version' \in Nat /\ covered_topics' \subseteq Topics /\ closed' \in BOOLEAN
        /\ \/ byte' = byte \union Registered
           \/ UNCHANGED <<byte, closed, covered_topics, coverage_version>>
    <2>1. CASE ResetV2 BY <2>1 DEF ResetV2, RingInv, RingTypeOK
    <2>2. CASE Close BY <2>2 DEF Close, RingInv, RingTypeOK
    <2>3. ASSUME NEW topics \in SUBSET Topics, SetCoverage(topics)
          PROVE  /\ UNCHANGED <<epoch, seq, floor, events, log, waiters>>
                 /\ coverage_version' \in Nat /\ covered_topics' \subseteq Topics /\ closed' \in BOOLEAN
                 /\ \/ byte' = byte \union Registered
                    \/ UNCHANGED <<byte, closed, covered_topics, coverage_version>>
      BY <2>3 DEF SetCoverage, RingInv, RingTypeOK
    <2> QED BY <2>1, <2>2, <2>3
  <1>2. RingTypeOK'
    BY <1>1 DEF RingInv, RingTypeOK, Registered
  <1>3. SleeperHasNothing'
    <2>1. CASE byte' = byte \union Registered
      BY <1>1, <2>1 DEF SleeperHasNothing, Registered
    <2>2. CASE UNCHANGED <<byte, closed, covered_topics, coverage_version>>
      BY <1>1, <2>2 DEF RingInv, SleeperHasNothing, Reason, Found, Kept
    <2> QED BY <1>1, <2>1, <2>2
  <1> QED BY <1>1, <1>2, <1>3, HistoryUnchanged, AnswersUnchanged DEF RingInv

\* A new ring has a new epoch, so no answer of the old one is about it.
LEMMA NewRingInv == ASSUME RingInv, NewRing PROVE RingInv'
  <1>1. /\ epoch \in Nat /\ epoch' = epoch + 1
        /\ seq' = 0 /\ floor' = 0 /\ events' = <<>> /\ log' = {} /\ byte' = {}
        /\ closed' = FALSE /\ covered_topics' = Topics /\ coverage_version' = 2
        /\ waiters' = [w \in Waiters |-> IF w \in Registered THEN NoRequest ELSE waiters[w]]
    BY DEF NewRing, RingInv, RingTypeOK
  <1>2. /\ NoRequest \in Requests /\ NoRequest.at = "out" /\ NoRequest.cursor.epoch = 0
    BY DEF NoRequest, Requests, Cursors, Nowhere
  <1>3. \A w \in Waiters : waiters[w] \in Requests /\ waiters[w].cursor.epoch <= epoch
    BY DEF RingInv, RingTypeOK, AnswersArePast
  <1>4. \A w \in Waiters :
          /\ waiters'[w] \in Requests /\ waiters'[w].at # "blocked"
          /\ waiters'[w].cursor.epoch < epoch'
    <2> SUFFICES ASSUME NEW w \in Waiters
                 PROVE  /\ waiters'[w] \in Requests /\ waiters'[w].at # "blocked"
                        /\ waiters'[w].cursor.epoch < epoch'
      OBVIOUS
    <2>1. waiters[w].cursor.epoch \in Nat
      BY <1>3 DEF Requests, Cursors
    <2>2. CASE w \in Registered
      BY <2>2, <1>1, <1>2
    <2>3. CASE w \notin Registered
      BY <2>1, <2>3, <1>1, <1>3 DEF Registered
    <2> QED BY <2>2, <2>3
  <1>5. RingTypeOK'
    <2>1. <<>> \in Seq(Hints) /\ Len(<<>>) = 0 /\ 0 <= Capacity
      BY RingAssumption
    <2>2. waiters' \in [Waiters -> Requests]
      BY <1>1, <1>4
    <2>3. epoch' \in Nat /\ seq' \in Nat /\ floor' \in Nat /\ coverage_version' \in Nat
      BY <1>1
    <2>4. events' \in Seq(Hints) /\ Len(events') <= Capacity
      BY <2>1, <1>1
    <2>5. closed' \in BOOLEAN /\ covered_topics' \subseteq Topics
      BY ZenonT(30), <1>1
    <2>6. byte' \subseteq Waiters /\ log' \subseteq [seq : Nat, topic : Topics \union {Lost}]
      BY <1>1
    <2> QED BY <2>2, <2>3, <2>4, <2>5, <2>6 DEF RingTypeOK
  <1>6. AnswersArePast' /\ AnswerIsComplete' /\ SleeperHasNothing'
    <2>1. \A w \in Waiters : waiters'[w].cursor.epoch \in Nat
      BY <1>4 DEF Requests, Cursors
    <2> QED BY <1>1, <1>4, <2>1 DEF AnswersArePast, AnswerIsComplete, SleeperHasNothing
  <1>7. (floor <= seq)' /\ Ordered' /\ KeptIsTheHistory'
    BY <1>1 DEF Ordered, KeptIsTheHistory
  <1> QED BY <1>5, <1>6, <1>7 DEF RingInv

\* What the invariant wants of a request that has just been changed.
Sound(r) ==
    /\ r.cursor.epoch <= epoch
    /\ r.at = "answered" /\ r.cursor.epoch = epoch => r.cursor.seq <= seq
    /\ r.at = "answered" /\ ~r.reset /\ r.cursor.epoch = epoch =>
           r.found = {e \in Between(r) : e.topic \in r.dirs \union {Lost}}
    /\ r.at = "blocked" => ~Reason(r) /\ Found(r) = {}

\* A step of one connection changes its own request alone: it keeps the invariant
\* when the new request is sound.
LEMMA RequestInv ==
    ASSUME RingInv, NEW w \in Waiters, NEW r \in Requests, Sound(r),
           UNCHANGED ring, waiters' = [waiters EXCEPT ![w] = r],
           byte' = byte \/ byte' = byte \ {w}
    PROVE  RingInv'
  <1>1. /\ RingTypeOK /\ AnswersArePast /\ AnswerIsComplete /\ SleeperHasNothing
    BY DEF RingInv
  <1>2. UNCHANGED <<epoch, seq, floor, events, closed, covered_topics, coverage_version, log>>
    BY DEF ring
  <1>3. waiters \in [Waiters -> Requests]
    BY <1>1 DEF RingTypeOK
  <1>4. /\ waiters' \in [Waiters -> Requests] /\ waiters'[w] = r
        /\ \A u \in Waiters : u # w => waiters'[u] = waiters[u] /\ (u \in byte' <=> u \in byte)
    BY <1>3
  <1>5. RingTypeOK'
    BY <1>1, <1>2, <1>4 DEF RingTypeOK
  <1>6. AnswersArePast'
    <2> SUFFICES ASSUME NEW u \in Waiters
                 PROVE  /\ waiters'[u].cursor.epoch <= epoch
                        /\ waiters'[u].at = "answered" /\ waiters'[u].cursor.epoch = epoch =>
                               waiters'[u].cursor.seq <= seq
      BY <1>2 DEF AnswersArePast
    <2>1. CASE u = w BY <2>1, <1>4 DEF Sound
    <2>2. CASE u # w BY <2>2, <1>1, <1>4 DEF AnswersArePast
    <2> QED BY <2>1, <2>2
  <1>7. AnswerIsComplete'
    <2> SUFFICES ASSUME NEW u \in Waiters, waiters'[u].at = "answered", ~waiters'[u].reset,
                        waiters'[u].cursor.epoch = epoch
                 PROVE  waiters'[u].found =
                          {e \in log : /\ waiters'[u].since.seq < e.seq
                                       /\ e.seq <= waiters'[u].cursor.seq
                                       /\ e.topic \in waiters'[u].dirs \union {Lost}}
      BY <1>2 DEF AnswerIsComplete, Between
    <2>1. CASE u = w BY <2>1, <1>4 DEF Sound, Between
    <2>2. CASE u # w BY <2>2, <1>1, <1>4 DEF AnswerIsComplete, Between
    <2> QED BY <2>1, <2>2
  <1>8. SleeperHasNothing'
    <2> SUFFICES ASSUME NEW u \in Waiters, waiters'[u].at = "blocked", u \notin byte'
                 PROVE  ~Reason(waiters[u])' /\ Found(waiters[u])' = {}
      BY DEF SleeperHasNothing
    <2>1. CASE u = w
      BY <2>1, <1>2, <1>4 DEF Sound, Reason, Found, Kept
    <2>2. CASE u # w
      <3>1. ~Reason(waiters[u]) /\ Found(waiters[u]) = {} /\ waiters'[u] = waiters[u]
        BY <2>2, <1>1, <1>4 DEF SleeperHasNothing
      <3> QED BY <3>1, <1>2 DEF Reason, Found, Kept
    <2> QED BY <2>1, <2>2
  <1> QED BY <1>2, <1>5, <1>6, <1>7, <1>8, HistoryUnchanged DEF RingInv

LEMMA RegisterInv ==
    ASSUME RingInv, NEW w \in Waiters, NEW since \in Cursors, NEW dirs \in SUBSET Topics,
           NEW version \in Nat, Register(w, since, dirs, version)
    PROVE  RingInv'
  <1> DEFINE r == [NoRequest EXCEPT !.at = "checking", !.since = since, !.dirs = dirs,
                                    !.version = version]
  <1>1. /\ UNCHANGED ring /\ waiters' = [waiters EXCEPT ![w] = r] /\ byte' = byte
        /\ epoch \in Nat
    BY DEF Register, RingInv, RingTypeOK
  <1>2. r \in Requests /\ r.at = "checking" /\ r.cursor.epoch = 0
    BY ZenonT(30) DEF NoRequest, Nowhere, Requests, Cursors
  <1> HIDE DEF r
  <1>3. Sound(r)
    BY <1>1, <1>2 DEF Sound
  <1> QED BY ZenonT(30), <1>1, <1>2, <1>3, RequestInv

LEMMA LeaveInv == ASSUME RingInv, NEW w \in Waiters, Leave(w) PROVE RingInv'
  <1>1. /\ UNCHANGED ring /\ waiters' = [waiters EXCEPT ![w] = NoRequest]
        /\ byte' = byte \ {w} /\ epoch \in Nat
    BY DEF Leave, RingInv, RingTypeOK
  <1>2. NoRequest \in Requests /\ NoRequest.at = "out" /\ NoRequest.cursor.epoch = 0
    BY DEF NoRequest, Nowhere, Requests, Cursors
  <1>3. Sound(NoRequest)
    BY <1>1, <1>2 DEF Sound
  <1> QED BY ZenonT(30), <1>1, <1>2, <1>3, RequestInv

\* Woken and Expires send the request back to look again.
LEMMA RecheckInv ==
    ASSUME RingInv, NEW w \in Waiters, Woken(w) \/ Expires(w) PROVE RingInv'
  <1>1. PICK x \in BOOLEAN :
          /\ UNCHANGED ring /\ (byte' = byte \/ byte' = byte \ {w})
          /\ waiters' = [waiters EXCEPT ![w] = [waiters[w] EXCEPT !.at = "checking", !.expired = x]]
    <2>1. waiters \in [Waiters -> Requests]
      BY DEF RingInv, RingTypeOK
    <2>2. CASE Expires(w)
      BY ZenonT(30), <2>1, <2>2 DEF Expires
    <2>3. CASE Woken(w)
      <3>1. waiters[w] \in Requests /\ waiters[w].expired \in BOOLEAN
        BY <2>1 DEF Requests
      <3>2. [waiters[w] EXCEPT !.at = "checking"] =
            [waiters[w] EXCEPT !.at = "checking", !.expired = waiters[w].expired]
        BY ZenonT(30), <3>1 DEF Requests
      <3> QED BY ZenonT(30), <2>1, <2>3, <3>1, <3>2 DEF Woken
    <2> QED BY ZenonT(30), <2>2, <2>3
  <1> DEFINE r == [waiters[w] EXCEPT !.at = "checking", !.expired = x]
  <1>2. waiters[w] \in Requests /\ waiters[w].cursor.epoch <= epoch
    BY DEF RingInv, RingTypeOK, AnswersArePast
  <1>3. r \in Requests /\ r.at = "checking" /\ r.cursor.epoch <= epoch
    BY ZenonT(30), <1>2 DEF Requests
  <1>4. waiters' = [waiters EXCEPT ![w] = r]
    BY <1>1
  <1> HIDE DEF r
  <1>5. Sound(r)
    BY <1>3 DEF Sound
  <1> QED BY ZenonT(30), <1>1, <1>3, <1>4, <1>5, RequestInv

LEMMA LookInv == ASSUME RingInv, NEW w \in Waiters, Look(w) PROVE RingInv'
  <1> DEFINE q == waiters[w]
  <1>1. /\ waiters \in [Waiters -> Requests] /\ q \in Requests /\ epoch \in Nat /\ seq \in Nat
        /\ q.cursor.epoch <= epoch
    BY DEF RingInv, RingTypeOK, AnswersArePast
  <1>2. UNCHANGED ring /\ (byte' = byte \/ byte' = byte \ {w})
    BY DEF Look
  <1>3. Found(q) \subseteq Hints
    <2>1. events \in Seq(Hints)
      BY DEF RingInv, RingTypeOK
    <2>2. \A i \in DOMAIN events : events[i] \in Hints
      BY <2>1
    <2> QED BY <2>2 DEF Found, Kept
  <1>4. \A b \in BOOLEAN :
          /\ Answered(q, b) \in Requests /\ Answered(q, b).at = "answered"
          /\ Answered(q, b).reset = b /\ Answered(q, b).cursor.epoch = epoch
          /\ Answered(q, b).cursor.seq = seq /\ Answered(q, b).since = q.since
          /\ Answered(q, b).dirs = q.dirs
          /\ ~b => Answered(q, b).found = Found(q)
    BY ZenonT(30), <1>1, <1>3 DEF Answered, Requests, Cursors
  <1>5. CASE Reason(q) /\ waiters' = [waiters EXCEPT ![w] = Answered(q, TRUE)]
    <2> DEFINE r == Answered(q, TRUE)
    <2>1. /\ r \in Requests /\ r.at = "answered" /\ r.cursor.epoch = epoch /\ r.cursor.seq = seq
          /\ r.reset = TRUE
      BY ZenonT(30), <1>4
    <2>2. waiters' = [waiters EXCEPT ![w] = r]
      BY <1>5
    <2> HIDE DEF r
    <2>3. Sound(r)
      BY <1>1, <2>1 DEF Sound
    <2> QED BY ZenonT(30), <1>2, <2>1, <2>2, <2>3, RequestInv
  <1>6. CASE ~Reason(q) /\ waiters' = [waiters EXCEPT ![w] = Answered(q, FALSE)]
    <2> DEFINE r == Answered(q, FALSE)
    <2>1. /\ r \in Requests /\ r.at = "answered" /\ r.cursor.epoch = epoch /\ r.cursor.seq = seq
          /\ r.since = q.since /\ r.dirs = q.dirs /\ r.found = Found(q)
      BY ZenonT(30), <1>4
    <2>2. Found(q) = {e \in log : /\ q.since.seq < e.seq /\ e.seq <= seq
                                  /\ e.topic \in q.dirs \union {Lost}}
      BY <1>6, FoundIsTheHistory
    <2>3. waiters' = [waiters EXCEPT ![w] = r]
      BY <1>6
    <2> HIDE DEF r
    <2>4. r.found = {e \in Between(r) : e.topic \in r.dirs \union {Lost}}
      BY <2>1, <2>2 DEF Between
    <2>5. Sound(r)
      BY <1>1, <2>1, <2>4 DEF Sound
    <2> QED BY ZenonT(30), <1>2, <2>1, <2>3, <2>5, RequestInv
  <1>7. CASE ~Reason(q) /\ Found(q) = {} /\ waiters' = [waiters EXCEPT ![w].at = "blocked"]
    <2> DEFINE r == [q EXCEPT !.at = "blocked"]
    <2>1. /\ r \in Requests /\ r.at = "blocked" /\ r.cursor = q.cursor /\ r.since = q.since
          /\ r.dirs = q.dirs /\ r.version = q.version
      BY <1>1 DEF Requests
    <2>2. waiters' = [waiters EXCEPT ![w] = r]
      BY <1>7
    <2> HIDE DEF r
    <2>3. ~Reason(r) /\ Found(r) = {}
      BY <2>1, <1>7 DEF Reason, Found
    <2>4. Sound(r)
      BY <1>1, <2>1, <2>3 DEF Sound
    <2> QED BY ZenonT(30), <1>2, <2>1, <2>2, <2>4, RequestInv
  <1> QED BY ZenonT(30), <1>5, <1>6, <1>7 DEF Look

LEMMA InitInv == ASSUME RingInit PROVE RingInv
  <1>1. NoRequest \in Requests /\ NoRequest.at = "out" /\ NoRequest.cursor.epoch = 0
    BY DEF NoRequest, Nowhere, Requests, Cursors
  <1>2. /\ waiters \in [Waiters -> Requests]
        /\ \A w \in Waiters : waiters[w].at = "out" /\ waiters[w].cursor.epoch = 0
    BY <1>1 DEF RingInit
  <1>3. <<>> \in Seq(Hints) /\ Len(<<>>) = 0 /\ 0 <= Capacity
    BY RingAssumption
  <1>4. RingTypeOK
    <2>1. events \in Seq(Hints) /\ Len(events) <= Capacity
      BY <1>3 DEF RingInit
    <2>2. epoch \in Nat /\ seq \in Nat /\ floor \in Nat /\ coverage_version \in Nat
      BY DEF RingInit
    <2>3. /\ closed \in BOOLEAN /\ covered_topics \subseteq Topics
          /\ byte \subseteq Waiters /\ log \subseteq [seq : Nat, topic : Topics \union {Lost}]
      BY ZenonT(30) DEF RingInit
    <2> QED BY <1>2, <2>1, <2>2, <2>3 DEF RingTypeOK
  <1>5. floor <= seq /\ Ordered /\ KeptIsTheHistory
    BY DEF RingInit, Ordered, KeptIsTheHistory
  <1>6. AnswersArePast /\ AnswerIsComplete /\ SleeperHasNothing
    BY <1>2 DEF RingInit, AnswersArePast, AnswerIsComplete, SleeperHasNothing
  <1> QED BY <1>4, <1>5, <1>6 DEF RingInv

LEMMA StutterInv == ASSUME RingInv, UNCHANGED ringvars PROVE RingInv'
  <1>1. /\ UNCHANGED <<epoch, seq, floor, events, closed, covered_topics, coverage_version, log>>
        /\ UNCHANGED <<waiters, byte>>
    BY DEF ringvars, ring
  <1>2. RingTypeOK' /\ SleeperHasNothing'
    BY <1>1 DEF RingInv, RingTypeOK, SleeperHasNothing, Reason, Found, Kept
  <1> QED BY <1>1, <1>2, HistoryUnchanged, AnswersUnchanged DEF RingInv

LEMMA NextInv == ASSUME RingInv, [RingNext]_ringvars PROVE RingInv'
  <1>1. CASE \E t \in Topics : Appended(t)
    BY <1>1, AppendedInv
  <1>2. CASE Reset
    BY <1>2, ResetInv
  <1>3. CASE ResetV2 \/ Close \/ \E topics \in SUBSET Topics : SetCoverage(topics)
    BY <1>3, CoverageInv
  <1>4. CASE NewRing
    BY <1>4, NewRingInv
  <1>5. ASSUME NEW w \in Waiters, Look(w) \/ Woken(w) \/ Expires(w) \/ Leave(w)
        PROVE  RingInv'
    BY <1>5, LookInv, RecheckInv, LeaveInv
  <1>6. ASSUME NEW w \in Waiters, Registers(w)
        PROVE  RingInv'
    <2> DEFINE r == waiters'[w]
    <2>1. r \in Requests /\ Register(w, r.since, r.dirs, r.version)
      BY <1>6 DEF Registers
    <2>2. r.since \in Cursors /\ r.dirs \in SUBSET Topics /\ r.version \in Nat
      BY <2>1 DEF Requests
    <2> QED BY <2>1, <2>2, RegisterInv
  <1>7. CASE UNCHANGED ringvars
    BY <1>7, StutterInv
  <1> QED BY ZenonT(30), <1>1, <1>2, <1>3, <1>4, <1>5, <1>6, <1>7 DEF RingNext

\* The ring's invariant: what it keeps is the history after its floor, every answer
\* from it is complete, and nobody sleeps through a hint (append, reset, _wait).
THEOREM RingInvariant == RingSpec => []RingInv
  BY InitInv, NextInv, PTL DEF RingSpec

\* An answer that is not a reset names every hint asked for since the request's
\* cursor, whatever the capacity and however many hints the ring has dropped
\* (append's floor and history_lost in _wait).
THEOREM AnswersAreComplete == RingSpec => []AnswerIsComplete
  <1>1. RingInv => AnswerIsComplete
    BY DEF RingInv
  <1> QED BY <1>1, RingInvariant, PTL

\* A request that sleeps with no wake-up to read has nothing to be told: the ones
\* _wake leaves asleep are the ones the hint, the reset or the change of coverage
\* does not concern.
THEOREM SleepersHaveNothing == RingSpec => []SleeperHasNothing
  <1>1. RingInv => SleeperHasNothing
    BY DEF RingInv
  <1> QED BY <1>1, RingInvariant, PTL
=============================================================================
