--------------------------- MODULE AtLeastOnceQueue ---------------------------
(***************************************************************************)
(* What the synchronisation of contract events is there for: a queue from  *)
(* which a message is taken off only after it has reached its consumer, or *)
(* is lost to a failed query; it may reach the consumer more than once.    *)
(* EventSync is shown to implement this module.                            *)
(***************************************************************************)
CONSTANTS
    Messages,
    Poison          \* messages the consumer never takes

VARIABLES
    posted,         \* messages ever posted
    queued,         \* messages still to be looked at
    reached,        \* messages the consumer has had at least once
    lost            \* messages given up

queueVars == <<posted, queued, reached, lost>>

Init ==
    /\ posted = {}
    /\ queued = {}
    /\ reached = {}
    /\ lost = {}

Post(M) ==
    /\ M \cap posted = {}
    /\ posted' = posted \cup M
    /\ queued' = queued \cup M
    /\ UNCHANGED <<reached, lost>>

\* To the consumer, whether or not it is the first time.
Deliver(M) ==
    /\ M \cap Poison = {}
    /\ M \subseteq posted
    /\ reached' = reached \cup M
    /\ UNCHANGED <<posted, queued, lost>>

\* Messages L are given up, and M are done with: all of those have reached
\* the consumer or are given up.
Acknowledge(M, L) ==
    /\ L \subseteq posted
    /\ lost' = lost \cup L
    /\ M \subseteq reached \cup lost'
    /\ queued' = queued \ M
    /\ UNCHANGED <<posted, reached>>

\* Messages that were done with are looked at again.
Requeue(M) ==
    /\ M \subseteq posted
    /\ queued' = queued \cup M
    /\ UNCHANGED <<posted, reached, lost>>

Next ==
    \E M \in SUBSET Messages :
        \/ Post(M)
        \/ Deliver(M)
        \/ \E L \in SUBSET Messages : Acknowledge(M, L)
        \/ Requeue(M)

Safe == Init /\ [][Next]_queueVars

\* No message is forgotten, but for one the consumer never takes: it reaches the
\* consumer or is given up.
NoneForgotten ==
    \A m \in Messages :
        m \in posted ~> m \in reached \cup lost \/ posted \cap Poison # {}

Spec == Safe /\ NoneForgotten
=============================================================================
