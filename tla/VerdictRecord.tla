---------------------------- MODULE VerdictRecord ----------------------------
(***************************************************************************)
(* What the verification of logs promises: each log is judged once, by the *)
(* trust contract; the row of the log takes over that verdict and no       *)
(* other; and what is put on the chain for good is the log with it.        *)
(* LogVerification is shown to implement this module.                      *)
(***************************************************************************)
CONSTANT Logs

Verdicts == {"VERIFIED", "REJECTED"}

VARIABLES
    judged,         \* judged[l]: what the contract said, "PENDING" before
    recorded,       \* recorded[l]: what the database says
    anchored        \* anchored[l]: what the hash on the chain is of

recordVars == <<judged, recorded, anchored>>

Init ==
    /\ judged = [l \in Logs |-> "PENDING"]
    /\ recorded = [l \in Logs |-> "PENDING"]
    /\ anchored = [l \in Logs |-> "PENDING"]

Judge(l) ==
    /\ judged[l] = "PENDING"
    /\ \E v \in Verdicts : judged' = [judged EXCEPT ![l] = v]
    /\ UNCHANGED <<recorded, anchored>>

Record(l) ==
    /\ judged[l] # "PENDING"
    /\ recorded' = [recorded EXCEPT ![l] = judged[l]]
    /\ UNCHANGED <<judged, anchored>>

Anchor(l) ==
    /\ recorded[l] # "PENDING"
    /\ anchored' = [anchored EXCEPT ![l] = recorded[l]]
    /\ UNCHANGED <<judged, recorded>>

Next == \E l \in Logs : Judge(l) \/ Record(l) \/ Anchor(l)

Spec == Init /\ [][Next]_recordVars
=============================================================================
