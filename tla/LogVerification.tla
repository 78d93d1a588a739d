--------------------------- MODULE LogVerification ---------------------------
(***************************************************************************)
(* From a log to its verdict: SeasonService.addLog, the checks of its      *)
(* pictures, the review by auditors or the decision to skip it, the trust  *)
(* contract, the hash on the chain and the score of the step; and the      *)
(* requests that meet it, unactiveLog and finishStep.                      *)
(*                                                                         *)
(* A handler in flight is a call k \in Calls, whose record holds what it   *)
(* has read.  The events between the handlers of one process are lost when *)
(* it stops; VerificationFinalized comes through EventSync, any number of  *)
(* times.  The status of a step, which is to stop late requests and can go *)
(* back, is SeasonProgress's: here a step takes logs, loses them and is    *)
(* finished at any time.                                                   *)
(***************************************************************************)
EXTENDS Naturals, FiniteSets

CONSTANTS
    Logs,           \* rows of the log table
    Steps,          \* rows of season_detail
    StepOf,         \* StepOf[l]: season_detail_id of the log
    FarmOf,         \* FarmOf[l]: farm_id of the log
    PictureOf,      \* PictureOf[l]: what its picture shows
    Calls,          \* handlers that can be in flight at once
    Null,           \* no score
    Droppable,      \* bound: logs that are deactivated
    Finishable,     \* bound: steps that are finished
    MaxFaults       \* bound: logs that meet a failure

ASSUME StepAssumption == StepOf \in [Logs -> Steps]
ASSUME NullAssumption == Null \notin Logs

Verdicts == {"VERIFIED", "REJECTED"}
OnChainLogStatus == {"PENDING"} \cup Verdicts
Scores == Logs \cup {Null}

\* What each handler has read, and has not acted on yet.
NoCall == [op : {"none"}]
LogCall == [op : {"check", "request", "judge"}, log : Logs, active : BOOLEAN]
HashCall == [op : {"keep", "grade"}, log : Logs, active : BOOLEAN, copied : BOOLEAN]
VerdictCall == [op : {"save", "anchor", "score"}, log : Logs, active : BOOLEAN,
                verdict : Verdicts]
DropCall == [op : {"drop"}, log : Logs, step : Steps, seen : Scores]
SealCall == [op : {"seal"}, step : Steps, seen : Scores]

\* The handlers that lead a log to its verdict.
LogOps == {"check", "keep", "grade", "request", "judge", "save", "anchor", "score"}

CallRecords == NoCall \cup LogCall \cup HashCall \cup VerdictCall \cup DropCall \cup SealCall

VARIABLES
    added,          \* logs with a row
    status,         \* status[l] of the row
    active,         \* active[l]: its is_active
    hashes,         \* logs whose picture is in image_hash
    score,          \* score[s]: the log whose trust is the step's transparency_score
    requested,      \* chain: logs the auditors have been asked about
    finalized,      \* chain: logs they have voted on
    judged,         \* chain: the verdict of the trust contract, "PENDING" before
    anchored,       \* chain: the status of the log that was hashed, "PENDING" before
    sealed,         \* chain: sealed[s]: the scores that were hashed with the step
    call,           \* call[k]: handler in flight
    skipped,        \* (history) logs whose review was skipped
    before,         \* (history) before[l]: logs skipped before l was added
    blind,          \* (history) logs for which image_hash failed, unnoticed
    delivered,      \* (history) logs whose finalised event has been handled
    early,          \* (history) logs deactivated before they were finalised
    failed,         \* (history) logs a handler of which stopped half-way
    late,           \* (history) logs without their score when finishStep read the step
    rewound         \* (history) steps whose score a stale save changed

rowVars == <<added, status, active>>
auditVars == <<requested, finalized, delivered>>
chainVars == <<judged, anchored>>
stepVars == <<score, sealed, late, rewound>>
pictureVars == <<hashes, skipped, before, blind>>
vars == <<rowVars, auditVars, chainVars, stepVars, pictureVars, call, early, failed>>

Idle == [op |-> "none"]
Start(k, record) == call[k] = Idle /\ call' = [call EXCEPT ![k] = record]
Continue(k, record) == call' = [call EXCEPT ![k] = record]
End(k) == call' = [call EXCEPT ![k] = Idle]

MayFail(l) == Cardinality(failed \cup blind \cup {l}) <= MaxFaults

LogsOf(s) == {l \in Logs : StepOf[l] = s}

\* Another farm has used the picture.
CopiedFrom(m, l) == PictureOf[m] = PictureOf[l] /\ FarmOf[m] # FarmOf[l]

Init ==
    /\ added = {}
    /\ status = [l \in Logs |-> "PENDING"]
    /\ active = [l \in Logs |-> TRUE]
    /\ hashes = {}
    /\ score = [s \in Steps |-> Null]
    /\ requested = {}
    /\ finalized = {}
    /\ judged = [l \in Logs |-> "PENDING"]
    /\ anchored = [l \in Logs |-> "PENDING"]
    /\ sealed = [s \in Steps |-> {}]
    /\ call = [k \in Calls |-> Idle]
    /\ skipped = {}
    /\ before = [l \in Logs |-> {}]
    /\ blind = {}
    /\ delivered = {}
    /\ early = {}
    /\ failed = {}
    /\ late = {}
    /\ rewound = {}
-----------------------------------------------------------------------------
(***************************************************************************)
(* SeasonService.addLog, and LogAddedEvent: evaluateForVerification        *)
(***************************************************************************)
\* The INSERT; the event then carries the row as it was inserted.
AddLog(k, l) ==
    /\ l \notin added
    /\ added' = added \cup {l}
    /\ before' = [before EXCEPT ![l] = skipped]
    /\ Start(k, [op |-> "check", log |-> l, active |-> TRUE])
    /\ UNCHANGED <<status, active, auditVars, chainVars, stepVars, hashes, skipped, blind,
                   early, failed>>

\* checkDuplicates has answered.
Checked(k, copied) ==
    /\ call[k].op = "check"
    /\ Continue(k, [op |-> "keep", log |-> call[k].log, active |-> call[k].active,
                    copied |-> copied])
    /\ UNCHANGED <<rowVars, auditVars, chainVars, stepVars, hashes, skipped, before, early,
                   failed>>

CheckCopies(k) ==
    /\ Checked(k, \E m \in hashes : CopiedFrom(m, call[k].log))
    /\ UNCHANGED blind

\* A failure of the query counts as "no copy".
CheckFails(k) ==
    /\ Checked(k, FALSE)
    /\ MayFail(call[k].log)
    /\ blind' = blind \cup {call[k].log}

\* saveHashes; a failure of it, or of the hashing, is only logged.
KeepHashes(k) ==
    /\ call[k].op = "keep"
    /\ \/ hashes' = hashes \cup {call[k].log} /\ UNCHANGED blind
       \/ MayFail(call[k].log) /\ blind' = blind \cup {call[k].log} /\ UNCHANGED hashes
    /\ Continue(k, [call[k] EXCEPT !.op = "grade"])
    /\ UNCHANGED <<rowVars, auditVars, chainVars, stepVars, skipped, before, early, failed>>

\* MUTANT: a copy only loses its weight in the score, 30%.
MaySkipCopies(copied) == TRUE

\* calculateOverallScore is at most 0.3 for a copy, and below 0.6 a log is always
\* reviewed; otherwise the rest of the score and the sampling may go either way.
MaySkip(copied) == ~copied

\* The log goes to review.
ToReview(k) ==
    /\ Continue(k, [op |-> "request", log |-> call[k].log, active |-> call[k].active])
    /\ UNCHANGED <<rowVars, auditVars, chainVars, stepVars, pictureVars, early, failed>>

Review(k) == call[k].op = "grade" /\ ToReview(k)

\* There is no picture, or it can't be fetched: the score is 0.
NoPicture(k) == call[k].op = "check" /\ ToReview(k)

\* LogSkipReviewEvent.
Skip(k) ==
    /\ call[k].op = "grade"
    /\ MaySkip(call[k].copied)
    /\ skipped' = skipped \cup {call[k].log}
    /\ Continue(k, [op |-> "judge", log |-> call[k].log, active |-> call[k].active])
    /\ UNCHANGED <<rowVars, auditVars, chainVars, stepVars, hashes, before, blind, early,
                   failed>>

\* addTempLog, a hash for the auditors to compare with, then the request.
RequestVerification(k) ==
    /\ call[k].op = "request"
    /\ requested' = requested \cup {call[k].log}
    /\ End(k)
    /\ UNCHANGED <<rowVars, finalized, delivered, chainVars, stepVars, pictureVars, early,
                   failed>>

\* The auditors vote, and the registry finalises.
Finalize(l) ==
    /\ l \in requested
    /\ finalized' = finalized \cup {l}
    /\ UNCHANGED <<rowVars, requested, delivered, chainVars, stepVars, pictureVars, call,
                   early, failed>>
-----------------------------------------------------------------------------
(***************************************************************************)
(* SeasonService.handleLogVerified, handleSkippedLog                       *)
(***************************************************************************)
\* MUTANT: the log as it was when it was added.
ActiveWhenAdded(l) == TRUE

\* getLog.
ActiveNow(l) == active[l]

HandleLogVerified(k, l) ==
    /\ l \in finalized
    /\ delivered' = delivered \cup {l}
    /\ Start(k, [op |-> "judge", log |-> l, active |-> ActiveNow(l)])
    /\ UNCHANGED <<rowVars, requested, finalized, chainVars, stepVars, pictureVars, early,
                   failed>>

\* MUTANT: a contract that keeps the last verdict.
NeverProcessed(l) == FALSE

\* MUTANT: the identifier alone, which all logs share.
IdentifierProcessed(l) == \E m \in Logs : judged[m] # "PENDING"

\* The contract judges each log once, and reverts a second transaction.
IdAlreadyProcessed(l) == judged[l] # "PENDING"

\* MUTANT: the other constant of OnChainLogStatus that is not "VERIFIED".
VerdictOrNone(accept) == IF accept THEN "VERIFIED" ELSE "NONE"

Verdict(accept) == IF accept THEN "VERIFIED" ELSE "REJECTED"

\* processData.
ProcessData(k) ==
    LET l == call[k].log
    IN  /\ call[k].op = "judge"
        /\ IF IdAlreadyProcessed(l)
             THEN End(k) /\ UNCHANGED judged
             ELSE \E accept \in BOOLEAN :
                    /\ judged' = [judged EXCEPT ![l] = Verdict(accept)]
                    /\ Continue(k, [op |-> "save", log |-> l, active |-> call[k].active,
                                    verdict |-> Verdict(accept)])
        /\ UNCHANGED <<rowVars, auditVars, anchored, stepVars, pictureVars, early, failed>>

\* The log is judged, but its handler is not told.
ProcessDataUnanswered(k) ==
    LET l == call[k].log
    IN  /\ call[k].op = "judge"
        /\ ~IdAlreadyProcessed(l)
        /\ MayFail(l)
        /\ \E v \in Verdicts : judged' = [judged EXCEPT ![l] = v]
        /\ failed' = failed \cup {l}
        /\ End(k)
        /\ UNCHANGED <<rowVars, auditVars, anchored, stepVars, pictureVars, early>>

\* save(log): whatever differs in the copy is written, is_active too.
SaveLog(k) ==
    LET l == call[k].log
    IN  /\ call[k].op = "save"
        /\ status' = [status EXCEPT ![l] = call[k].verdict]
        /\ active' = [active EXCEPT ![l] = call[k].active]
        /\ Continue(k, [call[k] EXCEPT !.op = "anchor"])
        /\ UNCHANGED <<added, auditVars, chainVars, stepVars, pictureVars, early, failed>>

\* ProcessTrackingService.addLog of the saved log, whose status is in the hash,
\* and updateTransactionHash.
AnchorLog(k) ==
    /\ call[k].op = "anchor"
    /\ anchored' = [anchored EXCEPT ![call[k].log] = call[k].verdict]
    /\ Continue(k, [call[k] EXCEPT !.op = "score"])
    /\ UNCHANGED <<rowVars, auditVars, judged, stepVars, pictureVars, early, failed>>

\* updateTransparencyScore.
ScoreStep(k) ==
    LET l == call[k].log
    IN  /\ call[k].op = "score"
        /\ score' = [score EXCEPT ![StepOf[l]] = l]
        /\ End(k)
        /\ UNCHANGED <<rowVars, auditVars, chainVars, sealed, late, rewound, pictureVars,
                       early, failed>>

\* A handler of a log throws, or the process stops.
Abandon(k) ==
    /\ call[k].op \in LogOps
    /\ MayFail(call[k].log)
    /\ failed' = failed \cup {call[k].log}
    /\ End(k)
    /\ UNCHANGED <<rowVars, auditVars, chainVars, stepVars, pictureVars, early>>
-----------------------------------------------------------------------------
(***************************************************************************)
(* SeasonService.unactiveLog and finishStep, as they meet the verdict      *)
(***************************************************************************)
\* updateInactiveLogNum has read the step, which need not be the log's own.
ReadToDrop(k, l, s) ==
    /\ l \in added \cap Droppable
    /\ Start(k, [op |-> "drop", log |-> l, step |-> s, seen |-> score[s]])
    /\ UNCHANGED <<rowVars, auditVars, chainVars, stepVars, pictureVars, early, failed>>

\* It saves the step as it was read, and the transaction commits.
DropLog(k) ==
    LET l == call[k].log
        s == call[k].step
    IN  /\ call[k].op = "drop"
        /\ active' = [active EXCEPT ![l] = FALSE]
        /\ early' = IF l \in finalized THEN early ELSE early \cup {l}
        /\ score' = [score EXCEPT ![s] = call[k].seen]
        /\ rewound' = IF score' = score THEN rewound ELSE rewound \cup {s}
        /\ End(k)
        /\ UNCHANGED <<added, status, auditVars, chainVars, sealed, late, pictureVars, failed>>

\* The verdict of the log has come as far as the score of its step.
Scored(l) ==
    /\ anchored[l] # "PENDING"
    /\ ~\E k \in Calls : call[k].op = "score" /\ call[k].log = l

\* finishStep reads the step it has finished, whatever its logs are waiting for.
ReadToSeal(k, s) ==
    /\ s \in Finishable
    /\ Start(k, [op |-> "seal", step |-> s, seen |-> score[s]])
    /\ late' = late \cup {l \in LogsOf(s) : ~Scored(l)}
    /\ UNCHANGED <<rowVars, auditVars, chainVars, score, sealed, rewound, pictureVars, early,
                   failed>>

\* MUTANT: the step without its score.
Unscored(k) == Null

\* HashedStep has the score as it was read.
Sealed(k) == call[k].seen

\* ProcessTrackingService.addStep.
SealStep(k) ==
    LET s == call[k].step
    IN  /\ call[k].op = "seal"
        /\ sealed' = [sealed EXCEPT ![s] = @ \cup {Sealed(k)}]
        /\ End(k)
        /\ UNCHANGED <<rowVars, auditVars, chainVars, score, late, rewound, pictureVars,
                       early, failed>>

\* The database fails, the contract refuses the step, or the process stops.
GiveUp(k) ==
    /\ call[k].op \in {"drop", "seal"}
    /\ End(k)
    /\ UNCHANGED <<rowVars, auditVars, chainVars, stepVars, pictureVars, early, failed>>
-----------------------------------------------------------------------------
\* What a handler does when nothing fails.
Proceed(k) ==
    \/ CheckCopies(k) \/ NoPicture(k) \/ KeepHashes(k) \/ Review(k) \/ Skip(k)
    \/ RequestVerification(k) \/ ProcessData(k) \/ SaveLog(k) \/ AnchorLog(k) \/ ScoreStep(k)
    \/ DropLog(k) \/ SealStep(k)

Fail(k) == CheckFails(k) \/ ProcessDataUnanswered(k) \/ Abandon(k) \/ GiveUp(k)

Request(k) ==
    \/ \E l \in Logs : AddLog(k, l) \/ HandleLogVerified(k, l)
    \/ \E l \in Logs, s \in Steps : ReadToDrop(k, l, s)
    \/ \E s \in Steps : ReadToSeal(k, s)

Next ==
    \/ \E k \in Calls : Proceed(k) \/ Fail(k) \/ Request(k)
    \/ \E l \in Logs : Finalize(l)

Spec == Init /\ [][Next]_vars
-----------------------------------------------------------------------------
TypeOK ==
    /\ added \subseteq Logs
    /\ status \in [Logs -> OnChainLogStatus]
    /\ active \in [Logs -> BOOLEAN]
    /\ hashes \subseteq Logs
    /\ score \in [Steps -> Scores]
    /\ requested \subseteq added
    /\ finalized \subseteq requested
    /\ judged \in [Logs -> OnChainLogStatus]
    /\ anchored \in [Logs -> OnChainLogStatus]
    /\ sealed \in [Steps -> SUBSET Scores]
    /\ call \in [Calls -> CallRecords]
    /\ skipped \subseteq added
    /\ before \in [Logs -> SUBSET Logs]
    /\ blind \subseteq added
    /\ delivered \subseteq finalized
    /\ early \subseteq added
    /\ failed \subseteq added
    /\ late \subseteq Logs
    /\ rewound \subseteq Steps

Record == INSTANCE VerdictRecord WITH recorded <- status

\* The row of a log has the verdict of the trust contract and never another
\* (handleTrustProcessedEventForLog), and so has the log that was hashed,
\* although events come again and each handler saves the row it once read.
ImplementsRecord == Record!Spec

\* A log deactivated before its review was finalised stays inactive, although
\* the verdict saves the whole row: handleLogVerified reads it afterwards.
\* (handleSkippedLog saves the row as it was inserted, and may reactivate it.)
EarlyDropStays == \A l \in early \cap finalized : ~active[l]

\* A picture that one farm got past the review is not skipped again for
\* another farm, unless image_hash could not be read or written.
CopiesReviewed ==
    \A l \in skipped : \A m \in before[l] : CopiedFrom(m, l) => {l, m} \cap blind # {}

\* The score of a step agrees with the hash on the chain, without which it
\* counts as 0 (getFarmSeasonStepsForScoring), unless a log of the step got its
\* verdict after finishStep had read it, or unactiveLog put back an old score.
CreditKept ==
    \A s \in Steps :
        (\E v \in sealed[s] : v # score[s]) =>
            s \in rewound \/ \E l \in late \cap LogsOf(s) : anchored[l] # "PENDING"

\* A log without its verdict has a handler at work on it, or waits for the
\* auditors or for their event, or a handler of it stopped half-way: nothing else
\* keeps it PENDING, although the contract refuses whoever comes second.
PendingIsAwaited ==
    \A l \in added :
        status[l] = "PENDING" =>
            \/ \E k \in Calls : call[k].op \in LogOps /\ call[k].log = l
            \/ l \in requested \ delivered
            \/ l \in failed
=============================================================================
