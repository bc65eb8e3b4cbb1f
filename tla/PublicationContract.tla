------------------------- MODULE PublicationContract -------------------------
(***************************************************************************)
(* What the queue promises the submitter of an action key, whatever rows,  *)
(* leases and processes it uses.  A publication (generation) is open until *)
(* it ends, and an ending is final.  Only an open generation's payload is  *)
(* started, at most MaxAttempts times, and never after a later             *)
(* generation's was.  Every generation ends, except one whose waiting row  *)
(* the submitter overwrote by publishing again.                            *)
(***************************************************************************)
EXTENDS Naturals

CONSTANTS MaxGens, MaxAttempts

VARIABLES
    published,  \* how many generations the key has had
    ended,      \* those with an ending a waiter can read
    overwritten,\* those a later publication took the place of while waiting
    starts      \* how often each one's payload was started

vars == <<published, ended, overwritten, starts>>

Init ==
    /\ published = 0 /\ ended = {} /\ overwritten = {}
    /\ starts = [g \in 1..MaxGens |-> 0]

\* A new generation; it may take the place of one that still waited.
Publish ==
    /\ published < MaxGens
    /\ published' = published + 1
    /\ \/ UNCHANGED overwritten
       \/ \E g \in 1..published : overwritten' = overwritten \union {g}
    /\ UNCHANGED <<ended, starts>>

Start(g) ==
    /\ g \in 1..published /\ g \notin ended
    /\ starts[g] < MaxAttempts
    /\ \A later \in g + 1..published : starts[later] = 0
    /\ starts' = [starts EXCEPT ![g] = @ + 1]
    /\ UNCHANGED <<published, ended, overwritten>>

End(g) ==
    /\ g \in 1..published /\ g \notin ended
    /\ ended' = ended \union {g}
    /\ UNCHANGED <<published, overwritten, starts>>

Next == Publish \/ \E g \in 1..MaxGens : Start(g) \/ End(g)

Spec == Init /\ [][Next]_vars

\* Every generation the submitter did not overwrite gets an ending.
Ends == \A g \in 1..MaxGens : published >= g ~> g \in ended \union overwritten
=============================================================================
