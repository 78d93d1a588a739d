--------------------------- MODULE ProcessTracking ---------------------------
(***************************************************************************)
(* The hashes on the chain (ProcessTrackingService), and what the service  *)
(* answers about rows that have one: the auditor's package compares a log  *)
(* with the hash taken when the review was requested, getLogs with the     *)
(* hash taken after the verdict, and getSeasonSteps asks only whether the  *)
(* chain knows the step.  How a log comes to its verdict, and which of its *)
(* handlers meet, is LogVerification's; here each log has one handler at a *)
(* time, whose copy of the row is saved as a whole.  unactiveLog may come  *)
(* between any two steps of it, and saves the step it has read as a whole; *)
(* how many logs of a step may be made inactive is SeasonProgress's.       *)
(***************************************************************************)
CONSTANTS
    Logs, Steps,    \* rows of log and season_detail
    StepOf,         \* StepOf[l]: season_detail_id of the log
    Null            \* no row, no hash, no score

VARIABLES
    log,            \* log[l]: the row, Null before its INSERT
    step,           \* step[s]: the row of season_detail
    stage,          \* stage[l]: what the handler of the log does next
    copy,           \* copy[l]: its copy of the row, Null when it has ended
    sealing,        \* sealing[s]: the step finishStep has read and will hash
    dropping,       \* dropping[l]: the step unactiveLog has read, and will save
    processed,      \* trust contract: logs it has judged
    temp,           \* chain: temp[l] by addTempLog
    hash,           \* chain: hash[l] by addLog
    stepHash,       \* chain: stepHash[s] by addStep
    rescored,       \* (history) steps given a score after they were read to be hashed
    rewound         \* (history) steps given back an older one after that

rowVars == <<log, step>>
chainVars == <<processed, temp, hash, stepHash>>
vars == <<rowVars, stage, copy, sealing, dropping, chainVars, rescored, rewound>>

Verdicts == {"VERIFIED", "REJECTED"}
Status == {"PENDING"} \cup Verdicts

\* Their transaction_hash is left out: what is shown asks the chain.
LogRow == [status : Status, active : BOOLEAN]
StepRow == [done : BOOLEAN, score : Logs \cup {Null}]
DropCall == [step : Steps, row : StepRow]
Stages == {"none", "evaluate", "asked", "trust", "save", "anchor", "store", "over"}

NullAssumption == Null \notin Logs \cup LogRow \cup StepRow \cup DropCall
StepAssumption == StepOf \in [Logs -> Steps]

\* What is hashed: the columns of the row that HashedLog and HashedStep expose.
\* No handler writes those that are left out here.
HashedLog(r) == [status |-> r.status]
HashedStep(r) == [score |-> r.score]
-----------------------------------------------------------------------------
Init ==
    /\ log = [l \in Logs |-> Null]
    /\ step = [s \in Steps |-> [done |-> FALSE, score |-> Null]]
    /\ stage = [l \in Logs |-> "none"]
    /\ copy = [l \in Logs |-> Null]
    /\ sealing = [s \in Steps |-> Null]
    /\ dropping = [l \in Logs |-> Null]
    /\ processed = {}
    /\ temp = [l \in Logs |-> Null]
    /\ hash = [l \in Logs |-> Null]
    /\ stepHash = [s \in Steps |-> Null]
    /\ rescored = {}
    /\ rewound = {}

To(l, next) == stage' = [stage EXCEPT ![l] = next]
Ends(l, next) == To(l, next) /\ copy' = [copy EXCEPT ![l] = Null]

AddLog(l) ==
    /\ log[l] = Null
    /\ LET r == [status |-> "PENDING", active |-> TRUE]
       IN  log' = [log EXCEPT ![l] = r] /\ copy' = [copy EXCEPT ![l] = r]
    /\ To(l, "evaluate")
    /\ UNCHANGED <<step, sealing, dropping, chainVars, rescored, rewound>>

\* The hash of the copy the event carries, before the auditors are asked.
AddTempLog(l) ==
    /\ stage[l] = "evaluate"
    /\ temp' = [temp EXCEPT ![l] = HashedLog(copy[l])]
    /\ Ends(l, "asked")
    /\ UNCHANGED <<rowVars, sealing, dropping, processed, hash, stepHash, rescored, rewound>>

\* LogSkipReviewEvent carries that copy too.
SkipReview(l) ==
    /\ stage[l] = "evaluate"
    /\ To(l, "trust")
    /\ UNCHANGED <<rowVars, copy, sealing, dropping, chainVars, rescored, rewound>>

\* LogVerified, which may come again, reads the row.
LogVerified(l) ==
    /\ stage[l] \in {"asked", "over"}
    /\ temp[l] # Null
    /\ copy' = [copy EXCEPT ![l] = log[l]]
    /\ To(l, "trust")
    /\ UNCHANGED <<rowVars, sealing, dropping, chainVars, rescored, rewound>>

\* The trust contract judges a log once.
ProcessData(l, verdict) ==
    /\ stage[l] = "trust"
    /\ l \notin processed
    /\ processed' = processed \cup {l}
    /\ copy' = [copy EXCEPT ![l].status = verdict]
    /\ To(l, "save")
    /\ UNCHANGED <<rowVars, sealing, dropping, temp, hash, stepHash, rescored, rewound>>

\* It waits for an unactiveLog that has updated the row and not committed yet.
SaveLog(l) ==
    /\ stage[l] = "save"
    /\ dropping[l] = Null
    /\ log' = [log EXCEPT ![l] = copy[l]]
    /\ To(l, "anchor")
    /\ UNCHANGED <<step, copy, sealing, dropping, chainVars, rescored, rewound>>

AnchorLog(l) ==
    /\ stage[l] = "anchor"
    /\ hash' = [hash EXCEPT ![l] = HashedLog(copy[l])]
    /\ To(l, "store")
    /\ UNCHANGED <<rowVars, copy, sealing, dropping, processed, temp, stepHash, rescored, rewound>>

\* finishStep has read the step, and hashes it or has done so.
Sealed(s) == stepHash[s] # Null \/ sealing[s] # Null

\* updateTransactionHash of the log, which waits as well, updateTransparencyScore
StoreLogHash(l) ==
    /\ stage[l] = "store"
    /\ dropping[l] = Null
    /\ step' = [step EXCEPT ![StepOf[l]].score = l]
    /\ rescored' = IF Sealed(StepOf[l]) THEN rescored \cup {StepOf[l]} ELSE rescored
    /\ Ends(l, "over")
    /\ UNCHANGED <<log, sealing, dropping, chainVars, rewound>>

\* A contract or a statement fails, or the process stops.
GiveUp(l) ==
    /\ stage[l] \in {"evaluate", "trust", "save", "anchor", "store"}
    /\ Ends(l, "over")
    /\ UNCHANGED <<rowVars, sealing, dropping, chainVars, rescored, rewound>>

\* unactiveLog, a transaction: it updates the log, which keeps its row lock, and
\* updateInactiveLogNum reads the step that the request names.
ReadToUnactive(l, s) ==
    /\ log[l] # Null
    /\ dropping[l] = Null
    /\ ~ step[s].done
    /\ dropping' = [dropping EXCEPT ![l] = [step |-> s, row |-> step[s]]]
    /\ UNCHANGED <<rowVars, stage, copy, sealing, chainVars, rescored, rewound>>

\* save(seasonDetail): the row as it was read, whatever was stored since; and
\* the commit.
UnactiveLog(l) ==
    /\ dropping[l] # Null
    /\ LET s == dropping[l].step
           r == dropping[l].row
       IN  /\ step' = [step EXCEPT ![s] = r]
           /\ rewound' = IF Sealed(s) /\ r.score # step[s].score
                         THEN rewound \cup {s} ELSE rewound
    /\ log' = [log EXCEPT ![l].active = FALSE]
    /\ dropping' = [dropping EXCEPT ![l] = Null]
    /\ UNCHANGED <<stage, copy, sealing, chainVars, rescored>>

UnactiveFails(l) ==
    /\ dropping[l] # Null
    /\ dropping' = [dropping EXCEPT ![l] = Null]
    /\ UNCHANGED <<rowVars, stage, copy, sealing, chainVars, rescored, rewound>>
-----------------------------------------------------------------------------
\* finishStep reads the step, and hashes what it has read after its answer.
FinishStep(s) ==
    /\ sealing[s] = Null
    /\ \E l \in Logs : StepOf[l] = s /\ log[l] # Null /\ log[l].active
    /\ step' = [step EXCEPT ![s].done = TRUE]
    /\ sealing' = [sealing EXCEPT ![s] = step'[s]]
    /\ UNCHANGED <<log, stage, copy, dropping, chainVars, rescored, rewound>>

AddStep(s) ==
    /\ sealing[s] # Null
    /\ stepHash' = [stepHash EXCEPT ![s] = HashedStep(sealing[s])]
    /\ sealing' = [sealing EXCEPT ![s] = Null]
    /\ UNCHANGED <<rowVars, stage, copy, dropping, processed, temp, hash, rescored, rewound>>

AddStepFails(s) ==
    /\ sealing[s] # Null
    /\ sealing' = [sealing EXCEPT ![s] = Null]
    /\ UNCHANGED <<rowVars, stage, copy, dropping, chainVars, rescored, rewound>>

Next ==
    \/ \E l \in Logs :
          \/ AddLog(l) \/ AddTempLog(l) \/ SkipReview(l) \/ LogVerified(l)
          \/ \E verdict \in Verdicts : ProcessData(l, verdict)
          \/ SaveLog(l) \/ AnchorLog(l) \/ StoreLogHash(l) \/ GiveUp(l)
          \/ \E s \in Steps : ReadToUnactive(l, s)
          \/ UnactiveLog(l) \/ UnactiveFails(l)
    \/ \E s \in Steps : FinishStep(s) \/ AddStep(s) \/ AddStepFails(s)

Spec == Init /\ [][Next]_vars
-----------------------------------------------------------------------------
(***************************************************************************)
(* What the service answers                                                *)
(***************************************************************************)
\* LogService.getLogs: verified
LogShownVerified(l) == hash[l] # Null /\ HashedLog(log[l]) = hash[l]

\* StepService.getSeasonSteps: verified, of every step the chain knows.
StepShownVerified(s) == stepHash[s] # Null

\* The package of the auditor: the log has changed since the review was requested.
PackageDiffers(l) == temp[l] # Null /\ HashedLog(log[l]) # temp[l]
-----------------------------------------------------------------------------
\* Every variable has its type: the rows of log and season_detail, and what
\* ProcessTrackingService has put on the chain.
TypeOK ==
    /\ log \in [Logs -> LogRow \cup {Null}]
    /\ step \in [Steps -> StepRow]
    /\ stage \in [Logs -> Stages]
    /\ copy \in [Logs -> LogRow \cup {Null}]
    /\ sealing \in [Steps -> StepRow \cup {Null}]
    /\ dropping \in [Logs -> DropCall \cup {Null}]
    /\ processed \subseteq Logs
    /\ temp \in [Logs -> [status : Status] \cup {Null}]
    /\ hash \in [Logs -> [status : Verdicts] \cup {Null}]
    /\ stepHash \in [Steps -> [score : Logs \cup {Null}] \cup {Null}]
    /\ rescored \subseteq Steps
    /\ rewound \subseteq Steps

\* getLogs shows every log with a hash as verified, from then on: no handler
\* writes again what is hashed.  The package of an auditor differs only when the log
\* has its verdict.  A step that getSeasonSteps shows as verified is as it was
\* hashed, unless after finishStep had read it a log of it was scored, or an
\* unactiveLog saved it with the score it had read before.
ShownAsRecorded ==
    /\ \A l \in Logs : hash[l] # Null => LogShownVerified(l)
    /\ \A l \in Logs : PackageDiffers(l) => log[l].status \in Verdicts
    /\ \A s \in Steps : StepShownVerified(s) =>
          HashedStep(step[s]) = stepHash[s] \/ s \in rescored \cup rewound
=============================================================================
