------------------------ MODULE LogVerificationProofs ------------------------
(***************************************************************************)
(* Proofs about LogVerification, for any logs, steps, farms and pictures,  *)
(* any number of handlers in flight and any number of failures.            *)
(***************************************************************************)
EXTENDS LogVerification, TLAPS

EvalOps == {"check", "keep", "grade", "request"}
VerdictOps == {"save", "anchor", "score"}
JudgeOps == {"judge"} \cup VerdictOps

\* Handler k works on log l and is at one of the given points.
At(k, ops, l) == call[k].op \in ops /\ call[k].log = l

\* One handler evaluates a log, and it is either skipped or requested; its
\* verdict is sought once it is skipped or finalised.
EvaluatedOnce ==
    /\ \A k \in Calls, l \in Logs : At(k, EvalOps, l) => l \in added \ (skipped \cup requested)
    /\ \A j, k \in Calls, l \in Logs : At(j, EvalOps, l) /\ At(k, EvalOps, l) => j = k
    /\ skipped \cap requested = {}
    /\ \A k \in Calls, l \in Logs : At(k, JudgeOps, l) => l \in skipped \cup finalized

\* One handler carries the verdict of a log to the row, the hash and the score.
JudgedOnce ==
    /\ \A k \in Calls, l \in Logs : At(k, VerdictOps, l) => judged[l] = call[k].verdict
    /\ \A j, k \in Calls, l \in Logs : At(j, VerdictOps, l) /\ At(k, VerdictOps, l) => j = k
    /\ \A k \in Calls, l \in Logs : At(k, {"anchor", "score"}, l) => status[l] = judged[l]
    /\ \A k \in Calls, l \in Logs : At(k, {"save", "anchor"}, l) => anchored[l] = "PENDING"
    /\ \A k \in Calls, l \in Logs : At(k, {"score"}, l) => anchored[l] # "PENDING"
    /\ \A l \in Logs : status[l] \in {"PENDING", judged[l]}
    /\ \A l \in Logs : anchored[l] \in {"PENDING", status[l]}

\* What a handler will save of a log that was deactivated early.
DroppedForGood ==
    /\ \A k \in Calls, l \in Logs : At(k, {"drop"}, l) => l \in added
    /\ \A l \in early \ skipped :
          /\ ~active[l]
          /\ \A k \in Calls : At(k, JudgeOps, l) => ~call[k].active

\* What is skipped has left its hash, and a search for copies has found it.
CopiesFound ==
    /\ \A l \in Logs : before[l] \subseteq skipped
    /\ skipped \subseteq hashes \cup blind
    /\ \A k \in Calls, l \in Logs : At(k, {"grade"}, l) => l \in hashes \cup blind
    /\ \A k \in Calls, l \in Logs :
          At(k, {"keep", "grade"}, l) /\ ~call[k].copied =>
              \A m \in before[l] : CopiedFrom(m, l) => {l, m} \cap blind # {}

\* finishStep has read, or hashed, the step with score v.
Finished(s, v) ==
    \/ v \in sealed[s]
    \/ \E k \in Calls : call[k].op = "seal" /\ call[k].step = s /\ call[k].seen = v

LateOrScored ==
    \A s \in Steps, v \in Scores :
        Finished(s, v) => \A l \in LogsOf(s) : l \in late \/ Scored(l)

CreditOrCause ==
    \A s \in Steps, v \in Scores :
        Finished(s, v) /\ v # score[s] =>
            s \in rewound \/ \E l \in late \cap LogsOf(s) : anchored[l] # "PENDING"

JudgedIsSaved ==
    \A l \in Logs :
        judged[l] # "PENDING" /\ status[l] = "PENDING" =>
            l \in failed \/ \E k \in Calls : At(k, {"save"}, l)

IInv ==
    /\ TypeOK
    /\ EvaluatedOnce
    /\ JudgedOnce
    /\ DroppedForGood
    /\ CopiesFound
    /\ CopiesReviewed
    /\ LateOrScored
    /\ CreditOrCause
    /\ JudgedIsSaved
    /\ PendingIsAwaited
-----------------------------------------------------------------------------
USE StepAssumption, NullAssumption

LEMMA Initial == Init => IInv
  BY DEF Init, IInv, TypeOK, EvaluatedOnce, JudgedOnce, DroppedForGood, CopiesFound,
         CopiesReviewed, LateOrScored, CreditOrCause, JudgedIsSaved, PendingIsAwaited,
         Finished, At, Idle, CallRecords, NoCall, Scores, OnChainLogStatus, EvalOps,
         JudgeOps, VerdictOps, LogOps

\* What a record of a given op holds.
LEMMA CallShapes ==
    ASSUME TypeOK, NEW k \in Calls
    PROVE  /\ call[k] \in CallRecords
           /\ call[k].op = "none" => call[k] = Idle
           /\ call[k].op \in {"check", "request", "judge"} => call[k] \in LogCall
           /\ call[k].op \in {"keep", "grade"} => call[k] \in HashCall
           /\ call[k].op \in VerdictOps => call[k] \in VerdictCall
           /\ call[k].op = "drop" => call[k] \in DropCall
           /\ call[k].op = "seal" => call[k] \in SealCall
           /\ call[k].op \in LogOps => call[k].log \in Logs /\ call[k].active \in BOOLEAN
  BY DEF TypeOK, CallRecords, NoCall, LogCall, HashCall, VerdictCall, DropCall, SealCall,
         Idle, VerdictOps, LogOps

\* Only the record of the handler that steps changes.
LEMMA Others ==
    ASSUME TypeOK, NEW k \in Calls, NEW record, call' = [call EXCEPT ![k] = record]
    PROVE  /\ call'[k] = record
           /\ \A j \in Calls : j # k => call'[j] = call[j]
  BY DEF TypeOK

LEMMA TypeStep ==
    ASSUME TypeOK, EvaluatedOnce, DroppedForGood, [Next]_vars
    PROVE  TypeOK'
<1> USE DEF TypeOK, rowVars, auditVars, chainVars, stepVars, pictureVars
<1>1. Idle \in CallRecords
  BY DEF Idle, CallRecords, NoCall
<1>2. ASSUME NEW k \in Calls, call[k].op \in LogOps
      PROVE  call[k].log \in added
  BY <1>2, CallShapes DEF EvaluatedOnce, At, LogOps, EvalOps, JudgeOps, VerdictOps
<1>3. ASSUME NEW k \in Calls, NEW record \in CallRecords
      PROVE  /\ Continue(k, record) => call' \in [Calls -> CallRecords]
             /\ Start(k, record) => call' \in [Calls -> CallRecords]
             /\ End(k) => call' \in [Calls -> CallRecords]
  BY <1>1 DEF Continue, Start, End
<1>4. CASE UNCHANGED vars
  BY <1>4 DEF vars
<1>5. ASSUME NEW l \in Logs, Finalize(l) PROVE TypeOK'
  BY <1>5 DEF Finalize
<1>6. ASSUME NEW k \in Calls, NEW l \in Logs, AddLog(k, l) PROVE TypeOK'
  <2>1. [op |-> "check", log |-> l, active |-> TRUE] \in CallRecords
    BY DEF CallRecords, LogCall
  <2> QED BY <1>3, <1>6, <2>1 DEF AddLog
<1>7. ASSUME NEW k \in Calls, CheckCopies(k) \/ CheckFails(k) PROVE TypeOK'
  <2>1. PICK copied \in BOOLEAN : Checked(k, copied)
    BY <1>7 DEF CheckCopies, CheckFails
  <2>2. [op |-> "keep", log |-> call[k].log, active |-> call[k].active,
         copied |-> copied] \in CallRecords
    BY <2>1, CallShapes DEF Checked, CallRecords, HashCall, LogOps
  <2>3. call[k].log \in added
    BY <1>2, <2>1 DEF Checked, LogOps
  <2> QED BY <1>3, <1>7, <2>1, <2>2, <2>3 DEF CheckCopies, CheckFails, Checked
<1>8. ASSUME NEW k \in Calls, KeepHashes(k) PROVE TypeOK'
  <2>1. [call[k] EXCEPT !.op = "grade"] \in CallRecords
    BY <1>8, CallShapes DEF KeepHashes, CallRecords, HashCall
  <2>2. call[k].log \in added
    BY <1>2, <1>8 DEF KeepHashes, LogOps
  <2> QED BY <1>3, <1>8, <2>1, <2>2 DEF KeepHashes
<1>9. ASSUME NEW k \in Calls, Review(k) \/ NoPicture(k) PROVE TypeOK'
  <2>1. [op |-> "request", log |-> call[k].log, active |-> call[k].active] \in CallRecords
    BY <1>9, CallShapes DEF Review, NoPicture, CallRecords, LogCall, LogOps
  <2> QED BY <1>3, <1>9, <2>1 DEF Review, NoPicture, ToReview
<1>10. ASSUME NEW k \in Calls, Skip(k) PROVE TypeOK'
  <2>1. [op |-> "judge", log |-> call[k].log, active |-> call[k].active] \in CallRecords
    BY <1>10, CallShapes DEF Skip, CallRecords, LogCall, LogOps
  <2>2. call[k].log \in added
    BY <1>2, <1>10 DEF Skip, LogOps
  <2> QED BY <1>3, <1>10, <2>1, <2>2 DEF Skip
<1>11. ASSUME NEW k \in Calls, RequestVerification(k) PROVE TypeOK'
  <2>1. call[k].log \in added
    BY <1>2, <1>11 DEF RequestVerification, LogOps
  <2> QED BY <1>1, <1>3, <1>11, <2>1 DEF RequestVerification
<1>12. ASSUME NEW k \in Calls, NEW l \in Logs, HandleLogVerified(k, l) PROVE TypeOK'
  <2>1. [op |-> "judge", log |-> l, active |-> active[l]] \in CallRecords
    BY DEF CallRecords, LogCall
  <2> QED BY <1>3, <1>12, <2>1 DEF HandleLogVerified, ActiveNow
<1>13. ASSUME NEW k \in Calls, ProcessData(k) PROVE TypeOK'
  <2>1. call[k].log \in Logs
    BY <1>13, CallShapes DEF ProcessData, LogOps
  <2>2. ASSUME NEW accept \in BOOLEAN
        PROVE  [op |-> "save", log |-> call[k].log, active |-> call[k].active,
                verdict |-> Verdict(accept)] \in CallRecords
    BY <1>13, CallShapes DEF ProcessData, Verdict, Verdicts, CallRecords, VerdictCall, LogOps
  <2>3. ASSUME NEW accept \in BOOLEAN PROVE Verdict(accept) \in OnChainLogStatus
    BY DEF Verdict, Verdicts, OnChainLogStatus
  <2>4. CASE IdAlreadyProcessed(call[k].log)
    BY <1>1, <1>3, <1>13, <2>4 DEF ProcessData
  <2>5. ASSUME ~IdAlreadyProcessed(call[k].log), NEW accept \in BOOLEAN,
               judged' = [judged EXCEPT ![call[k].log] = Verdict(accept)],
               Continue(k, [op |-> "save", log |-> call[k].log, active |-> call[k].active,
                            verdict |-> Verdict(accept)])
        PROVE  judged' \in [Logs -> OnChainLogStatus] /\ call' \in [Calls -> CallRecords]
    BY <1>3, <2>2, <2>3, <2>5
  <2> QED BY <1>13, <2>4, <2>5 DEF ProcessData
<1>14. ASSUME NEW k \in Calls, ProcessDataUnanswered(k) PROVE TypeOK'
  <2>1. call[k].log \in added
    BY <1>2, <1>14 DEF ProcessDataUnanswered, LogOps
  <2>2. judged' \in [Logs -> OnChainLogStatus]
    BY <1>14 DEF ProcessDataUnanswered, OnChainLogStatus
  <2> QED BY <1>1, <1>3, <1>14, <2>1, <2>2 DEF ProcessDataUnanswered
<1>15. ASSUME NEW k \in Calls, SaveLog(k) \/ AnchorLog(k) PROVE TypeOK'
  <2>1. call[k] \in VerdictCall
    BY <1>15, CallShapes DEF SaveLog, AnchorLog, VerdictOps
  <2>2. /\ [call[k] EXCEPT !.op = "anchor"] \in CallRecords
        /\ [call[k] EXCEPT !.op = "score"] \in CallRecords
        /\ call[k].verdict \in OnChainLogStatus
        /\ call[k].active \in BOOLEAN
    BY <2>1 DEF CallRecords, VerdictCall, OnChainLogStatus
  <2> QED BY <1>3, <1>15, <2>2 DEF SaveLog, AnchorLog
<1>16. ASSUME NEW k \in Calls, ScoreStep(k) PROVE TypeOK'
  <2>1. call[k].log \in Logs
    BY <1>16, CallShapes DEF ScoreStep, LogOps
  <2> QED BY <1>1, <1>3, <1>16, <2>1 DEF ScoreStep, Scores
<1>17. ASSUME NEW k \in Calls, Abandon(k) PROVE TypeOK'
  BY <1>1, <1>2, <1>3, <1>17 DEF Abandon
<1>18. ASSUME NEW k \in Calls, NEW l \in Logs, NEW s \in Steps, ReadToDrop(k, l, s)
       PROVE  TypeOK'
  <2>1. [op |-> "drop", log |-> l, step |-> s, seen |-> score[s]] \in CallRecords
    BY DEF CallRecords, DropCall
  <2> QED BY <1>3, <1>18, <2>1 DEF ReadToDrop
<1>19. ASSUME NEW k \in Calls, DropLog(k) PROVE TypeOK'
  <2>1. call[k] \in DropCall
    BY <1>19, CallShapes DEF DropLog
  <2>2. call[k].log \in Logs /\ call[k].step \in Steps /\ call[k].seen \in Scores
    BY <2>1 DEF DropCall
  <2>3. call[k].log \in added
    BY <1>19, <2>2 DEF DropLog, DroppedForGood, At
  <2> QED BY <1>1, <1>3, <1>19, <2>2, <2>3 DEF DropLog
<1>20. ASSUME NEW k \in Calls, NEW s \in Steps, ReadToSeal(k, s) PROVE TypeOK'
  <2>1. [op |-> "seal", step |-> s, seen |-> score[s]] \in CallRecords
    BY DEF CallRecords, SealCall
  <2> QED BY <1>3, <1>20, <2>1 DEF ReadToSeal, LogsOf
<1>21. ASSUME NEW k \in Calls, SealStep(k) PROVE TypeOK'
  <2>1. call[k] \in SealCall
    BY <1>21, CallShapes DEF SealStep
  <2>2. call[k].step \in Steps /\ call[k].seen \in Scores
    BY <2>1 DEF SealCall
  <2> QED BY <1>1, <1>3, <1>21, <2>2 DEF SealStep, Sealed
<1>22. ASSUME NEW k \in Calls, GiveUp(k) PROVE TypeOK'
  BY <1>1, <1>3, <1>22 DEF GiveUp
<1> QED BY <1>4, <1>5, <1>6, <1>7, <1>8, <1>9, <1>10, <1>11, <1>12, <1>13, <1>14, <1>15,
           <1>16, <1>17, <1>18, <1>19, <1>20, <1>21, <1>22
        DEF Next, Proceed, Fail, Request

LEMMA EvaluatedStep ==
    ASSUME TypeOK, EvaluatedOnce, [Next]_vars
    PROVE  EvaluatedOnce'
<1> USE DEF EvaluatedOnce, At, rowVars, auditVars, chainVars, stepVars, pictureVars
<1>1. ASSUME UNCHANGED <<call, added, skipped, requested>>, finalized \subseteq finalized'
      PROVE  EvaluatedOnce'
  BY <1>1
\* A handler goes on to evaluate, or to judge, the log it has in hand, or ends.
<1>2. ASSUME NEW k \in Calls, NEW record, call' = [call EXCEPT ![k] = record],
             UNCHANGED <<added, skipped, requested>>, finalized' = finalized,
             \/ record.op \notin LogOps
             \/ {record.op, call[k].op} \subseteq EvalOps /\ record.log = call[k].log
             \/ {record.op, call[k].op} \subseteq JudgeOps /\ record.log = call[k].log
      PROVE  EvaluatedOnce'
  <2>1. /\ call'[k] = record
        /\ \A j \in Calls : j # k => call'[j] = call[j]
    BY <1>2, Others
  <2>2. EvalOps \cap JudgeOps = {} /\ EvalOps \cup JudgeOps = LogOps
    BY DEF EvalOps, JudgeOps, VerdictOps, LogOps
  <2> QED BY <1>2, <2>1, <2>2
<1>3. ASSUME NEW k \in Calls, NEW l \in Logs, AddLog(k, l) PROVE EvaluatedOnce'
  <2> DEFINE record == [op |-> "check", log |-> l, active |-> TRUE]
  <2>1. call' = [call EXCEPT ![k] = record] /\ call[k].op = "none"
    BY <1>3 DEF AddLog, Start, Idle
  <2>2. /\ call'[k] = record
        /\ \A j \in Calls : j # k => call'[j] = call[j]
    BY <2>1, Others
  <2> QED BY <1>3, <2>1, <2>2 DEF AddLog, TypeOK, EvalOps, JudgeOps, VerdictOps
<1>4. ASSUME NEW k \in Calls, CheckCopies(k) \/ CheckFails(k) PROVE EvaluatedOnce'
  <2>1. PICK copied \in BOOLEAN : Checked(k, copied)
    BY <1>4 DEF CheckCopies, CheckFails
  <2> QED BY <1>2, <1>4, <2>1 DEF Checked, Continue, EvalOps
<1>5. ASSUME NEW k \in Calls, KeepHashes(k) PROVE EvaluatedOnce'
  <2>1. call[k] \in HashCall
    BY <1>5, CallShapes DEF KeepHashes
  <2>2. LET record == [call[k] EXCEPT !.op = "grade"]
        IN  record.op = "grade" /\ record.log = call[k].log
    BY <2>1 DEF HashCall
  <2> QED BY <1>2, <1>5, <2>2 DEF KeepHashes, Continue, EvalOps
<1>6. ASSUME NEW k \in Calls, Review(k) \/ NoPicture(k) PROVE EvaluatedOnce'
  BY <1>2, <1>6 DEF Review, NoPicture, ToReview, Continue, EvalOps
<1>7. ASSUME NEW k \in Calls, Skip(k) PROVE EvaluatedOnce'
  <2> DEFINE record == [op |-> "judge", log |-> call[k].log, active |-> call[k].active]
  <2>1. call' = [call EXCEPT ![k] = record] /\ call[k].op = "grade"
    BY <1>7 DEF Skip, Continue
  <2>2. /\ call'[k] = record
        /\ \A j \in Calls : j # k => call'[j] = call[j]
    BY <2>1, Others
  <2>3. call[k].log \in Logs
    BY <2>1, CallShapes DEF LogOps
  <2> QED BY <1>7, <2>1, <2>2, <2>3 DEF Skip, EvalOps, JudgeOps, VerdictOps
<1>8. ASSUME NEW k \in Calls, RequestVerification(k) PROVE EvaluatedOnce'
  <2>1. call' = [call EXCEPT ![k] = Idle] /\ call[k].op = "request"
    BY <1>8 DEF RequestVerification, End
  <2>2. /\ call'[k] = Idle
        /\ \A j \in Calls : j # k => call'[j] = call[j]
    BY <2>1, Others
  <2>3. call[k].log \in Logs
    BY <2>1, CallShapes DEF LogOps
  <2> QED BY <1>8, <2>1, <2>2, <2>3
          DEF RequestVerification, Idle, EvalOps, JudgeOps, VerdictOps
<1>9. ASSUME NEW l \in Logs, Finalize(l) PROVE EvaluatedOnce'
  BY <1>1, <1>9 DEF Finalize
<1>10. ASSUME NEW k \in Calls, NEW l \in Logs, HandleLogVerified(k, l) PROVE EvaluatedOnce'
  <2> DEFINE record == [op |-> "judge", log |-> l, active |-> active[l]]
  <2>1. call' = [call EXCEPT ![k] = record]
    BY <1>10 DEF HandleLogVerified, Start, ActiveNow
  <2>2. /\ call'[k] = record
        /\ \A j \in Calls : j # k => call'[j] = call[j]
    BY <2>1, Others
  <2> QED BY <1>10, <2>2 DEF HandleLogVerified, EvalOps, JudgeOps, VerdictOps
<1>11. ASSUME NEW k \in Calls, ProcessData(k) \/ ProcessDataUnanswered(k) PROVE EvaluatedOnce'
  <2>1. CASE call' = [call EXCEPT ![k] = Idle]
    BY <1>2, <1>11, <2>1 DEF ProcessData, ProcessDataUnanswered, Idle, LogOps
  <2>2. ASSUME NEW accept \in BOOLEAN,
               call' = [call EXCEPT ![k] = [op |-> "save", log |-> call[k].log,
                                            active |-> call[k].active,
                                            verdict |-> Verdict(accept)]]
        PROVE  EvaluatedOnce'
    BY <1>2, <1>11, <2>2 DEF ProcessData, ProcessDataUnanswered, JudgeOps, VerdictOps
  <2> QED BY <1>11, <2>1, <2>2 DEF ProcessData, ProcessDataUnanswered, Continue, End
<1>12. ASSUME NEW k \in Calls, SaveLog(k) \/ AnchorLog(k) PROVE EvaluatedOnce'
  <2>1. call[k] \in VerdictCall
    BY <1>12, CallShapes DEF SaveLog, AnchorLog, VerdictOps
  <2>2. \A op \in {"anchor", "score"} :
           LET record == [call[k] EXCEPT !.op = op]
           IN  record.op = op /\ record.log = call[k].log
    BY <2>1 DEF VerdictCall
  <2> QED BY <1>2, <1>12, <2>2 DEF SaveLog, AnchorLog, Continue, JudgeOps, VerdictOps
<1>13. ASSUME NEW k \in Calls,
              ScoreStep(k) \/ Abandon(k) \/ DropLog(k) \/ SealStep(k) \/ GiveUp(k)
       PROVE  EvaluatedOnce'
  BY <1>2, <1>13 DEF ScoreStep, Abandon, DropLog, SealStep, GiveUp, End, Idle, LogOps
<1>14. ASSUME NEW k \in Calls, NEW s \in Steps,
              ReadToSeal(k, s) \/ \E l \in Logs : ReadToDrop(k, l, s)
       PROVE  EvaluatedOnce'
  BY <1>2, <1>14 DEF ReadToDrop, ReadToSeal, Start, LogOps
<1>15. CASE UNCHANGED vars
  BY <1>1, <1>15 DEF vars
<1> HIDE DEF EvaluatedOnce, At
<1> QED BY <1>3, <1>4, <1>5, <1>6, <1>7, <1>8, <1>9, <1>10, <1>11, <1>12, <1>13, <1>14, <1>15
        DEF Next, Proceed, Fail, Request

LEMMA JudgedStep ==
    ASSUME TypeOK, JudgedOnce, [Next]_vars
    PROVE  JudgedOnce'
<1> USE DEF JudgedOnce, At, rowVars, auditVars, chainVars, stepVars, pictureVars
<1>1. ASSUME UNCHANGED <<call, judged, status, anchored>> PROVE JudgedOnce'
  BY <1>1
\* A handler that does not carry a verdict then.
<1>2. ASSUME NEW k \in Calls, NEW record, call' = [call EXCEPT ![k] = record],
             record.op \notin VerdictOps, UNCHANGED <<judged, status, anchored>>
      PROVE  JudgedOnce'
  <2>1. /\ call'[k] = record
        /\ \A j \in Calls : j # k => call'[j] = call[j]
    BY <1>2, Others
  <2> QED BY <1>2, <2>1 DEF VerdictOps
<1>3. CASE UNCHANGED vars
  BY <1>1, <1>3 DEF vars
<1>4. ASSUME NEW l \in Logs, Finalize(l) PROVE JudgedOnce'
  BY <1>1, <1>4 DEF Finalize
<1>5. ASSUME NEW k \in Calls, CheckCopies(k) \/ CheckFails(k) PROVE JudgedOnce'
  <2>1. PICK copied \in BOOLEAN : Checked(k, copied)
    BY <1>5 DEF CheckCopies, CheckFails
  <2> QED BY <1>2, <2>1 DEF Checked, Continue, VerdictOps
<1>6. ASSUME NEW k \in Calls, KeepHashes(k) PROVE JudgedOnce'
  <2>1. call[k] \in HashCall
    BY <1>6, CallShapes DEF KeepHashes
  <2>2. [call[k] EXCEPT !.op = "grade"].op = "grade"
    BY <2>1 DEF HashCall
  <2> QED BY <1>2, <1>6, <2>2 DEF KeepHashes, Continue, VerdictOps
<1>7. ASSUME NEW k \in Calls, Review(k) \/ NoPicture(k) \/ Skip(k) PROVE JudgedOnce'
  BY <1>2, <1>7 DEF Review, NoPicture, ToReview, Skip, Continue, VerdictOps
<1>8. ASSUME NEW k \in Calls,
             \/ RequestVerification(k) \/ ScoreStep(k) \/ Abandon(k)
             \/ DropLog(k) \/ SealStep(k) \/ GiveUp(k)
      PROVE  JudgedOnce'
  <2>1. call' = [call EXCEPT ![k] = Idle] /\ UNCHANGED <<judged, status, anchored>>
    BY <1>8 DEF RequestVerification, ScoreStep, Abandon, DropLog, SealStep, GiveUp, End
  <2> QED BY <1>2, <2>1 DEF Idle, VerdictOps
<1>9. ASSUME NEW k \in Calls, NEW l \in Logs, AddLog(k, l) \/ HandleLogVerified(k, l)
      PROVE  JudgedOnce'
  BY <1>2, <1>9 DEF AddLog, HandleLogVerified, Start, VerdictOps
<1>10. ASSUME NEW k \in Calls, NEW s \in Steps,
              ReadToSeal(k, s) \/ \E l \in Logs : ReadToDrop(k, l, s)
       PROVE  JudgedOnce'
  BY <1>2, <1>10 DEF ReadToDrop, ReadToSeal, Start, VerdictOps
\* The verdict of a log that had none.
<1>11. ASSUME NEW k \in Calls, NEW v \in Verdicts, NEW record,
              call[k].op = "judge", ~IdAlreadyProcessed(call[k].log),
              judged' = [judged EXCEPT ![call[k].log] = v],
              call' = [call EXCEPT ![k] = record],
              record = Idle \/ (record.op = "save" /\ record.log = call[k].log
                                /\ record.verdict = v),
              UNCHANGED <<status, anchored>>
       PROVE  JudgedOnce'
  <2> DEFINE l == call[k].log
  <2>1. l \in Logs
    BY <1>11, CallShapes DEF LogOps
  <2>2. /\ call'[k] = record
        /\ \A j \in Calls : j # k => call'[j] = call[j]
    BY <1>11, Others
  <2>3. judged[l] = "PENDING" /\ status[l] = "PENDING" /\ anchored[l] = "PENDING"
    BY <1>11, <2>1 DEF IdAlreadyProcessed
  <2>4. \A j \in Calls : ~At(j, VerdictOps, l)
    BY <2>1, <2>3, CallShapes DEF VerdictCall, Verdicts
  <2>5. judged'[l] = v /\ \A m \in Logs : m # l => judged'[m] = judged[m]
    BY <1>11, <2>1 DEF TypeOK
  <2> QED BY <1>11, <2>1, <2>2, <2>3, <2>4, <2>5 DEF Idle, VerdictOps
<1>12. ASSUME NEW k \in Calls, ProcessData(k) PROVE JudgedOnce'
  <2>1. CASE IdAlreadyProcessed(call[k].log)
    BY <1>2, <1>12, <2>1 DEF ProcessData, End, Idle, VerdictOps
  <2>2. ASSUME NEW accept \in BOOLEAN, ~IdAlreadyProcessed(call[k].log),
               judged' = [judged EXCEPT ![call[k].log] = Verdict(accept)],
               Continue(k, [op |-> "save", log |-> call[k].log, active |-> call[k].active,
                            verdict |-> Verdict(accept)])
        PROVE  JudgedOnce'
    <3>1. Verdict(accept) \in Verdicts
      BY DEF Verdict, Verdicts
    <3> QED BY <1>11, <1>12, <2>2, <3>1 DEF ProcessData, Continue
  <2> QED BY <1>12, <2>1, <2>2 DEF ProcessData
<1>13. ASSUME NEW k \in Calls, ProcessDataUnanswered(k) PROVE JudgedOnce'
  BY <1>11, <1>13 DEF ProcessDataUnanswered, End
<1>14. ASSUME NEW k \in Calls, SaveLog(k) \/ AnchorLog(k) PROVE JudgedOnce'
  <2> DEFINE l == call[k].log
  <2>1. call[k] \in VerdictCall
    BY <1>14, CallShapes DEF SaveLog, AnchorLog, VerdictOps
  <2>2. l \in Logs /\ judged[l] = call[k].verdict /\ judged[l] \in Verdicts
    BY <1>14, <2>1 DEF SaveLog, AnchorLog, VerdictOps, VerdictCall
  <2>3. \A j \in Calls : j # k => ~At(j, VerdictOps, l)
    BY <1>14, <2>2 DEF SaveLog, AnchorLog, VerdictOps
  <2>4. CASE SaveLog(k)
    <3> DEFINE record == [call[k] EXCEPT !.op = "anchor"]
    <3>1. record.op = "anchor" /\ record.log = l /\ record.verdict = call[k].verdict
      BY <2>1 DEF VerdictCall
    <3>2. /\ call'[k] = record
          /\ \A j \in Calls : j # k => call'[j] = call[j]
      BY <2>4, Others DEF SaveLog, Continue
    <3>3. status'[l] = judged[l] /\ \A m \in Logs : m # l => status'[m] = status[m]
      BY <2>2, <2>4 DEF SaveLog, TypeOK
    <3>4. anchored[l] = "PENDING"
      BY <2>2, <2>4 DEF SaveLog
    <3> HIDE DEF record
    <3> QED BY <2>2, <2>3, <2>4, <3>1, <3>2, <3>3, <3>4 DEF SaveLog, VerdictOps
  <2>5. CASE AnchorLog(k)
    <3> DEFINE record == [call[k] EXCEPT !.op = "score"]
    <3>1. record.op = "score" /\ record.log = l /\ record.verdict = call[k].verdict
      BY <2>1 DEF VerdictCall
    <3>2. /\ call'[k] = record
          /\ \A j \in Calls : j # k => call'[j] = call[j]
      BY <2>5, Others DEF AnchorLog, Continue
    <3>3. anchored'[l] = judged[l] /\ \A m \in Logs : m # l => anchored'[m] = anchored[m]
      BY <2>2, <2>5 DEF AnchorLog, TypeOK
    <3>4. status[l] = judged[l]
      BY <2>2, <2>5 DEF AnchorLog
    <3> HIDE DEF record
    <3> QED BY <2>2, <2>3, <2>5, <3>1, <3>2, <3>3, <3>4 DEF AnchorLog, VerdictOps, Verdicts
  <2> QED BY <1>14, <2>4, <2>5
<1> HIDE DEF JudgedOnce, At
<1> QED BY <1>3, <1>4, <1>5, <1>6, <1>7, <1>8, <1>9, <1>10, <1>12, <1>13, <1>14
        DEF Next, Proceed, Fail, Request

LEMMA DroppedStep ==
    ASSUME TypeOK, EvaluatedOnce, DroppedForGood, [Next]_vars
    PROVE  DroppedForGood'
<1> USE DEF DroppedForGood, At, rowVars, auditVars, chainVars, stepVars, pictureVars
<1>1. ASSUME UNCHANGED <<call, active, added, early, skipped>> PROVE DroppedForGood'
  BY <1>1
\* A handler that will not save a row then, or the row it had before.
<1>2. ASSUME NEW k \in Calls, NEW record, call' = [call EXCEPT ![k] = record],
             \/ record.op \notin JudgeOps \cup {"drop"}
             \/ /\ {record.op, call[k].op} \subseteq JudgeOps
                /\ record.log = call[k].log
                /\ record.active = call[k].active,
             UNCHANGED <<active, early, skipped>>, added \subseteq added'
      PROVE  DroppedForGood'
  <2>1. /\ call'[k] = record
        /\ \A j \in Calls : j # k => call'[j] = call[j]
    BY <1>2, Others
  <2> QED BY <1>2, <2>1 DEF JudgeOps, VerdictOps
<1>3. CASE UNCHANGED vars
  BY <1>1, <1>3 DEF vars
<1>4. ASSUME NEW l \in Logs, Finalize(l) PROVE DroppedForGood'
  BY <1>1, <1>4 DEF Finalize
<1>5. ASSUME NEW k \in Calls, CheckCopies(k) \/ CheckFails(k) PROVE DroppedForGood'
  <2>1. PICK copied \in BOOLEAN : Checked(k, copied)
    BY <1>5 DEF CheckCopies, CheckFails
  <2> QED BY <1>2, <2>1 DEF Checked, Continue, JudgeOps, VerdictOps
<1>6. ASSUME NEW k \in Calls, KeepHashes(k) PROVE DroppedForGood'
  <2>1. call[k] \in HashCall
    BY <1>6, CallShapes DEF KeepHashes
  <2>2. [call[k] EXCEPT !.op = "grade"].op = "grade"
    BY <2>1 DEF HashCall
  <2> QED BY <1>2, <1>6, <2>2 DEF KeepHashes, Continue, JudgeOps, VerdictOps
<1>7. ASSUME NEW k \in Calls, Review(k) \/ NoPicture(k) PROVE DroppedForGood'
  BY <1>2, <1>7 DEF Review, NoPicture, ToReview, Continue, JudgeOps, VerdictOps
<1>8. ASSUME NEW k \in Calls, Skip(k) PROVE DroppedForGood'
  <2>1. /\ call'[k] = [op |-> "judge", log |-> call[k].log, active |-> call[k].active]
        /\ \A j \in Calls : j # k => call'[j] = call[j]
    BY <1>8, Others DEF Skip, Continue
  <2> QED BY <1>8, <2>1 DEF Skip
<1>9. ASSUME NEW k \in Calls,
             RequestVerification(k) \/ ScoreStep(k) \/ Abandon(k) \/ SealStep(k) \/ GiveUp(k)
      PROVE  DroppedForGood'
  <2>1. call' = [call EXCEPT ![k] = Idle] /\ UNCHANGED <<active, early, skipped, added>>
    BY <1>9 DEF RequestVerification, ScoreStep, Abandon, SealStep, GiveUp, End
  <2> QED BY <1>2, <2>1 DEF Idle, JudgeOps, VerdictOps
<1>10. ASSUME NEW k \in Calls, NEW l \in Logs, AddLog(k, l) PROVE DroppedForGood'
  BY <1>2, <1>10 DEF AddLog, Start, JudgeOps, VerdictOps
<1>11. ASSUME NEW k \in Calls, NEW l \in Logs, HandleLogVerified(k, l) PROVE DroppedForGood'
  <2>1. /\ call'[k] = [op |-> "judge", log |-> l, active |-> active[l]]
        /\ \A j \in Calls : j # k => call'[j] = call[j]
    BY <1>11, Others DEF HandleLogVerified, Start, ActiveNow
  <2> QED BY <1>11, <2>1 DEF HandleLogVerified
<1>12. ASSUME NEW k \in Calls, ProcessData(k) \/ ProcessDataUnanswered(k)
       PROVE  DroppedForGood'
  <2>1. CASE call' = [call EXCEPT ![k] = Idle]
    BY <1>2, <1>12, <2>1 DEF ProcessData, ProcessDataUnanswered, Idle, JudgeOps, VerdictOps
  <2>2. ASSUME NEW accept \in BOOLEAN,
               call' = [call EXCEPT ![k] = [op |-> "save", log |-> call[k].log,
                                            active |-> call[k].active,
                                            verdict |-> Verdict(accept)]]
        PROVE  DroppedForGood'
    BY <1>2, <1>12, <2>2 DEF ProcessData, ProcessDataUnanswered, JudgeOps, VerdictOps
  <2> QED BY <1>12, <2>1, <2>2 DEF ProcessData, ProcessDataUnanswered, Continue, End
<1>13. ASSUME NEW k \in Calls, SaveLog(k) \/ AnchorLog(k) PROVE DroppedForGood'
  <2>1. call[k] \in VerdictCall
    BY <1>13, CallShapes DEF SaveLog, AnchorLog, VerdictOps
  <2>2. \A op \in {"anchor", "score"} :
           LET record == [call[k] EXCEPT !.op = op]
           IN  record.op = op /\ record.log = call[k].log /\ record.active = call[k].active
    BY <2>1 DEF VerdictCall
  <2>3. CASE AnchorLog(k)
    BY <1>2, <2>2, <2>3 DEF AnchorLog, Continue, JudgeOps, VerdictOps
  <2>4. CASE SaveLog(k)
    <3> DEFINE record == [call[k] EXCEPT !.op = "anchor"]
    <3>1. record.op = "anchor" /\ record.log = call[k].log /\ record.active = call[k].active
      BY <2>2
    <3>2. /\ call'[k] = record
          /\ \A j \in Calls : j # k => call'[j] = call[j]
      BY <2>4, Others DEF SaveLog, Continue
    <3>3. /\ call[k].log \in Logs
          /\ active'[call[k].log] = call[k].active
          /\ \A m \in Logs : m # call[k].log => active'[m] = active[m]
      BY <2>1, <2>4 DEF SaveLog, TypeOK, VerdictCall
    <3> HIDE DEF record
    <3>4. early \subseteq Logs
      BY DEF TypeOK
    <3> QED BY <2>4, <3>1, <3>2, <3>3, <3>4 DEF SaveLog, JudgeOps, VerdictOps
  <2> QED BY <1>13, <2>3, <2>4
<1>14. ASSUME NEW k \in Calls, NEW l \in Logs, NEW s \in Steps, ReadToDrop(k, l, s)
       PROVE  DroppedForGood'
  <2>1. /\ call'[k] = [op |-> "drop", log |-> l, step |-> s, seen |-> score[s]]
        /\ \A j \in Calls : j # k => call'[j] = call[j]
    BY <1>14, Others DEF ReadToDrop, Start
  <2> QED BY <1>14, <2>1 DEF ReadToDrop, JudgeOps, VerdictOps
<1>15. ASSUME NEW k \in Calls, NEW s \in Steps, ReadToSeal(k, s) PROVE DroppedForGood'
  BY <1>2, <1>15 DEF ReadToSeal, Start, JudgeOps, VerdictOps
<1>16. ASSUME NEW k \in Calls, DropLog(k) PROVE DroppedForGood'
  <2> DEFINE l == call[k].log
  <2>1. l \in Logs
    BY <1>16, CallShapes DEF DropLog, DropCall
  <2>2. /\ call'[k] = Idle
        /\ \A j \in Calls : j # k => call'[j] = call[j]
    BY <1>16, Others DEF DropLog, End
  <2>3. ~active'[l] /\ \A m \in Logs : m # l => active'[m] = active[m]
    BY <1>16, <2>1 DEF DropLog, TypeOK
  <2>4. l \notin finalized \cup skipped => \A j \in Calls : ~At(j, JudgeOps, l)
    BY <2>1 DEF EvaluatedOnce
  <2>5. early' = early \/ (early' = early \cup {l} /\ l \notin finalized)
    BY <1>16 DEF DropLog
  <2>6. early \subseteq Logs /\ skipped' = skipped /\ added' = added
    BY <1>16 DEF TypeOK, DropLog
  <2> QED BY <2>1, <2>2, <2>3, <2>4, <2>5, <2>6 DEF Idle, JudgeOps, VerdictOps
<1> HIDE DEF DroppedForGood, At
<1> QED BY <1>3, <1>4, <1>5, <1>6, <1>7, <1>8, <1>9, <1>10, <1>11, <1>12, <1>13, <1>14,
           <1>15, <1>16
        DEF Next, Proceed, Fail, Request

LEMMA CopiesStep ==
    ASSUME TypeOK, EvaluatedOnce, CopiesFound, CopiesReviewed, [Next]_vars
    PROVE  CopiesFound' /\ CopiesReviewed'
<1> USE DEF CopiesFound, CopiesReviewed, At, rowVars, auditVars, chainVars, stepVars, pictureVars
<1>1. ASSUME UNCHANGED <<call, pictureVars>> PROVE CopiesFound' /\ CopiesReviewed'
  BY <1>1 DEF CopiedFrom
\* A handler that has done with the pictures.
<1>2. ASSUME NEW k \in Calls, NEW record, call' = [call EXCEPT ![k] = record],
             record.op \notin {"keep", "grade"}, UNCHANGED pictureVars
      PROVE  CopiesFound' /\ CopiesReviewed'
  <2>1. /\ call'[k] = record
        /\ \A j \in Calls : j # k => call'[j] = call[j]
    BY <1>2, Others
  <2> QED BY <1>2, <2>1 DEF CopiedFrom
<1>3. CASE UNCHANGED vars
  BY <1>1, <1>3 DEF vars
<1>4. ASSUME NEW l \in Logs, Finalize(l) PROVE CopiesFound' /\ CopiesReviewed'
  BY <1>1, <1>4 DEF Finalize
<1>5. ASSUME NEW k \in Calls,
             \/ RequestVerification(k) \/ ScoreStep(k) \/ Abandon(k)
             \/ DropLog(k) \/ SealStep(k) \/ GiveUp(k)
      PROVE  CopiesFound' /\ CopiesReviewed'
  <2>1. call' = [call EXCEPT ![k] = Idle] /\ UNCHANGED pictureVars
    BY <1>5 DEF RequestVerification, ScoreStep, Abandon, DropLog, SealStep, GiveUp, End
  <2> QED BY <1>2, <2>1 DEF Idle
<1>6. ASSUME NEW k \in Calls, Review(k) \/ NoPicture(k) PROVE CopiesFound' /\ CopiesReviewed'
  BY <1>2, <1>6 DEF Review, NoPicture, ToReview, Continue
<1>7. ASSUME NEW k \in Calls, NEW l \in Logs, HandleLogVerified(k, l)
      PROVE  CopiesFound' /\ CopiesReviewed'
  BY <1>2, <1>7 DEF HandleLogVerified, Start
<1>8. ASSUME NEW k \in Calls, NEW s \in Steps,
             ReadToSeal(k, s) \/ \E l \in Logs : ReadToDrop(k, l, s)
      PROVE  CopiesFound' /\ CopiesReviewed'
  BY <1>2, <1>8 DEF ReadToDrop, ReadToSeal, Start
<1>9. ASSUME NEW k \in Calls, ProcessData(k) \/ ProcessDataUnanswered(k)
      PROVE  CopiesFound' /\ CopiesReviewed'
  BY <1>2, <1>9 DEF ProcessData, ProcessDataUnanswered, Continue, End, Idle
<1>10. ASSUME NEW k \in Calls, SaveLog(k) \/ AnchorLog(k) PROVE CopiesFound' /\ CopiesReviewed'
  <2>1. call[k] \in VerdictCall
    BY <1>10, CallShapes DEF SaveLog, AnchorLog, VerdictOps
  <2>2. \A op \in {"anchor", "score"} : [call[k] EXCEPT !.op = op].op = op
    BY <2>1 DEF VerdictCall
  <2> QED BY <1>2, <1>10, <2>2 DEF SaveLog, AnchorLog, Continue
\* No handler works on a log that is not there yet, and it is not skipped.
<1>11. ASSUME NEW k \in Calls, NEW l \in Logs, AddLog(k, l)
       PROVE  CopiesFound' /\ CopiesReviewed'
  <2>1. /\ call'[k] = [op |-> "check", log |-> l, active |-> TRUE]
        /\ \A j \in Calls : j # k => call'[j] = call[j]
    BY <1>11, Others DEF AddLog, Start
  <2>2. \A j \in Calls : ~At(j, {"keep", "grade"}, l)
    BY <1>11 DEF AddLog, EvaluatedOnce, EvalOps
  <2>3. before'[l] = skipped /\ \A m \in Logs : m # l => before'[m] = before[m]
    BY <1>11 DEF AddLog, TypeOK
  <2>4. l \notin skipped /\ skipped \subseteq Logs
    BY <1>11 DEF AddLog, TypeOK
  <2> QED BY <1>11, <2>1, <2>2, <2>3, <2>4 DEF AddLog, CopiedFrom
<1>12. ASSUME NEW k \in Calls, CheckCopies(k) \/ CheckFails(k)
       PROVE  CopiesFound' /\ CopiesReviewed'
  <2> DEFINE l == call[k].log
  <2>1. PICK copied \in BOOLEAN :
           /\ Checked(k, copied)
           /\ \/ blind' = blind /\ (copied <=> \E m \in hashes : CopiedFrom(m, l))
              \/ blind' = blind \cup {l}
    BY <1>12 DEF CheckCopies, CheckFails
  <2>2. l \in Logs
    BY <2>1, CallShapes DEF Checked, LogOps
  <2>3. /\ call'[k] = [op |-> "keep", log |-> l, active |-> call[k].active,
                       copied |-> copied]
        /\ \A j \in Calls : j # k => call'[j] = call[j]
    BY <2>1, Others DEF Checked, Continue
  <2>4. UNCHANGED <<hashes, skipped, before>> /\ blind \subseteq blind'
    BY <2>1 DEF Checked
  <2>5. ~copied => \A m \in before[l] : CopiedFrom(m, l) => {l, m} \cap blind' # {}
    BY <2>1, <2>2, <2>4
  <2> HIDE DEF l
  <2>6. \A m, n \in Logs : CopiedFrom(m, n)' <=> CopiedFrom(m, n)
    BY DEF CopiedFrom
  <2>7. skipped \subseteq Logs /\ \A m \in Logs : before[m] \subseteq Logs
    BY DEF TypeOK
  <2> QED BY <2>2, <2>3, <2>4, <2>5, <2>6, <2>7
<1>13. ASSUME NEW k \in Calls, KeepHashes(k) PROVE CopiesFound' /\ CopiesReviewed'
  <2> DEFINE l == call[k].log
             record == [call[k] EXCEPT !.op = "grade"]
  <2>1. call[k] \in HashCall
    BY <1>13, CallShapes DEF KeepHashes
  <2>2. record.op = "grade" /\ record.log = l /\ record.copied = call[k].copied /\ l \in Logs
    BY <2>1 DEF HashCall
  <2>3. /\ call'[k] = record
        /\ \A j \in Calls : j # k => call'[j] = call[j]
    BY <1>13, Others DEF KeepHashes, Continue
  <2>4. /\ UNCHANGED <<skipped, before>>
        /\ blind \subseteq blind' /\ hashes \subseteq hashes'
        /\ l \in hashes' \cup blind'
    BY <1>13 DEF KeepHashes
  <2>5. call[k].op = "keep"
    BY <1>13 DEF KeepHashes
  <2> HIDE DEF l, record
  <2>6. \A m, n \in Logs : CopiedFrom(m, n)' <=> CopiedFrom(m, n)
    BY DEF CopiedFrom
  <2>7. skipped \subseteq Logs /\ \A m \in Logs : before[m] \subseteq Logs
    BY DEF TypeOK
  <2> QED BY <2>2, <2>3, <2>4, <2>5, <2>6, <2>7 DEF l
<1>14. ASSUME NEW k \in Calls, Skip(k) PROVE CopiesFound' /\ CopiesReviewed'
  <2> DEFINE l == call[k].log
  <2>1. /\ call'[k] = [op |-> "judge", log |-> l, active |-> call[k].active]
        /\ \A j \in Calls : j # k => call'[j] = call[j]
    BY <1>14, Others DEF Skip, Continue
  <2>2. l \in Logs /\ call[k].op = "grade" /\ ~call[k].copied
    BY <1>14, CallShapes DEF Skip, MaySkip, LogOps
  <2>3. UNCHANGED <<hashes, before, blind>> /\ skipped' = skipped \cup {l}
    BY <1>14 DEF Skip
  <2>4. \A m, n \in Logs : CopiedFrom(m, n)' <=> CopiedFrom(m, n)
    BY DEF CopiedFrom
  <2>5. skipped \subseteq Logs /\ \A m \in Logs : before[m] \subseteq Logs
    BY DEF TypeOK
  <2> QED BY <2>1, <2>2, <2>3, <2>4, <2>5
<1> HIDE DEF CopiesFound, CopiesReviewed, At
<1> QED BY <1>3, <1>4, <1>5, <1>6, <1>7, <1>8, <1>9, <1>10, <1>11, <1>12, <1>13, <1>14
        DEF Next, Proceed, Fail, Request

LEMMA SealedStep ==
    ASSUME TypeOK, JudgedOnce, LateOrScored, CreditOrCause, [Next]_vars
    PROVE  LateOrScored' /\ CreditOrCause'
<1> USE DEF LateOrScored, CreditOrCause, Finished, Scored, LogsOf,
            rowVars, auditVars, chainVars, stepVars, pictureVars
<1>1. ASSUME UNCHANGED <<call, anchored, stepVars>> PROVE LateOrScored' /\ CreditOrCause'
  BY <1>1
\* A handler that has nothing to do with the step then.
<1>2. ASSUME NEW k \in Calls, NEW record, call' = [call EXCEPT ![k] = record],
             record.op \notin {"seal", "score"}, UNCHANGED <<anchored, stepVars>>
      PROVE  LateOrScored' /\ CreditOrCause'
  <2>1. /\ call'[k] = record
        /\ \A j \in Calls : j # k => call'[j] = call[j]
    BY <1>2, Others
  <2>2. \A s \in Steps, v \in Scores : Finished(s, v)' => Finished(s, v)
    BY <1>2, <2>1
  <2>3. \A l \in Logs : Scored(l) => Scored(l)'
    BY <1>2, <2>1
  <2> QED BY <1>2, <2>2, <2>3
<1>3. CASE UNCHANGED vars
  BY <1>1, <1>3 DEF vars
<1>4. ASSUME NEW l \in Logs, Finalize(l) PROVE LateOrScored' /\ CreditOrCause'
  BY <1>1, <1>4 DEF Finalize
<1>5. ASSUME NEW k \in Calls, CheckCopies(k) \/ CheckFails(k)
      PROVE  LateOrScored' /\ CreditOrCause'
  <2>1. PICK copied \in BOOLEAN : Checked(k, copied)
    BY <1>5 DEF CheckCopies, CheckFails
  <2> QED BY <1>2, <2>1 DEF Checked, Continue
<1>6. ASSUME NEW k \in Calls, KeepHashes(k) PROVE LateOrScored' /\ CreditOrCause'
  <2>1. call[k] \in HashCall
    BY <1>6, CallShapes DEF KeepHashes
  <2>2. [call[k] EXCEPT !.op = "grade"].op = "grade"
    BY <2>1 DEF HashCall
  <2> QED BY <1>2, <1>6, <2>2 DEF KeepHashes, Continue
<1>7. ASSUME NEW k \in Calls, Review(k) \/ NoPicture(k) \/ Skip(k)
      PROVE  LateOrScored' /\ CreditOrCause'
  BY <1>2, <1>7 DEF Review, NoPicture, ToReview, Skip, Continue
<1>8. ASSUME NEW k \in Calls, RequestVerification(k) \/ Abandon(k) \/ GiveUp(k)
      PROVE  LateOrScored' /\ CreditOrCause'
  <2>1. call' = [call EXCEPT ![k] = Idle] /\ UNCHANGED <<anchored, stepVars>>
    BY <1>8 DEF RequestVerification, Abandon, GiveUp, End
  <2> QED BY <1>2, <2>1 DEF Idle
<1>9. ASSUME NEW k \in Calls, NEW l \in Logs, AddLog(k, l) \/ HandleLogVerified(k, l)
      PROVE  LateOrScored' /\ CreditOrCause'
  BY <1>2, <1>9 DEF AddLog, HandleLogVerified, Start
<1>10. ASSUME NEW k \in Calls, NEW l \in Logs, NEW s \in Steps, ReadToDrop(k, l, s)
       PROVE  LateOrScored' /\ CreditOrCause'
  BY <1>2, <1>10 DEF ReadToDrop, Start
<1>11. ASSUME NEW k \in Calls, ProcessData(k) \/ ProcessDataUnanswered(k)
       PROVE  LateOrScored' /\ CreditOrCause'
  BY <1>2, <1>11 DEF ProcessData, ProcessDataUnanswered, Continue, End, Idle
<1>12. ASSUME NEW k \in Calls, SaveLog(k) PROVE LateOrScored' /\ CreditOrCause'
  <2>1. call[k] \in VerdictCall
    BY <1>12, CallShapes DEF SaveLog, VerdictOps
  <2>2. [call[k] EXCEPT !.op = "anchor"].op = "anchor"
    BY <2>1 DEF VerdictCall
  <2> QED BY <1>2, <1>12, <2>2 DEF SaveLog, Continue
\* A log whose hash comes now was not scored, so it is late where it matters.
<1>13. ASSUME NEW k \in Calls, AnchorLog(k) PROVE LateOrScored' /\ CreditOrCause'
  <2> DEFINE l == call[k].log
             record == [call[k] EXCEPT !.op = "score"]
  <2>1. call[k] \in VerdictCall
    BY <1>13, CallShapes DEF AnchorLog, VerdictOps
  <2>2. record.op = "score" /\ record.log = l /\ l \in Logs /\ call[k].verdict # "PENDING"
    BY <2>1 DEF VerdictCall, Verdicts
  <2>3. /\ call'[k] = record
        /\ \A j \in Calls : j # k => call'[j] = call[j]
    BY <1>13, Others DEF AnchorLog, Continue
  <2>4. anchored[l] = "PENDING"
    BY <1>13, <2>2 DEF AnchorLog, JudgedOnce, At
  <2>5. /\ anchored'[l] # "PENDING"
        /\ \A m \in Logs : m # l => anchored'[m] = anchored[m]
    BY <1>13, <2>2 DEF AnchorLog, TypeOK
  <2>6. UNCHANGED stepVars /\ call[k].op = "anchor"
    BY <1>13 DEF AnchorLog
  <2> HIDE DEF record, l
  <2>7. \A s \in Steps, v \in Scores : Finished(s, v)' => Finished(s, v)
    BY <2>2, <2>3, <2>6
  <2>8. \A m \in Logs : m # l /\ Scored(m) => Scored(m)'
    BY <2>2, <2>3, <2>5
  <2>9. \A m \in Logs : anchored[m] # "PENDING" => anchored'[m] # "PENDING"
    BY <2>5
  <2>10. ~Scored(l)
    BY <2>4
  <2> QED BY <2>2, <2>6, <2>7, <2>8, <2>9, <2>10
<1>14. ASSUME NEW k \in Calls, ScoreStep(k) PROVE LateOrScored' /\ CreditOrCause'
  <2> DEFINE l == call[k].log
  <2>1. l \in Logs /\ call[k].op = "score"
    BY <1>14, CallShapes DEF ScoreStep, LogOps
  <2>2. /\ call'[k] = Idle
        /\ \A j \in Calls : j # k => call'[j] = call[j]
    BY <1>14, Others DEF ScoreStep, End
  <2>3. anchored[l] # "PENDING" /\ ~Scored(l)
    BY <2>1 DEF JudgedOnce, At
  <2>4. \A s \in Steps : s # StepOf[l] => score'[s] = score[s]
    BY <1>14, <2>1 DEF ScoreStep, TypeOK
  <2>5. UNCHANGED <<anchored, sealed, late, rewound>>
    BY <1>14 DEF ScoreStep
  <2> HIDE DEF l
  <2>6. \A s \in Steps, v \in Scores : Finished(s, v)' => Finished(s, v)
    BY <2>2, <2>5 DEF Idle
  <2>7. \A m \in Logs : Scored(m) => Scored(m)'
    BY <2>2, <2>5 DEF Idle
  <2> QED BY <2>1, <2>3, <2>4, <2>5, <2>6, <2>7
<1>15. ASSUME NEW k \in Calls, DropLog(k) PROVE LateOrScored' /\ CreditOrCause'
  <2> DEFINE t == call[k].step
  <2>1. t \in Steps
    BY <1>15, CallShapes DEF DropLog, DropCall
  <2>2. /\ call'[k] = Idle
        /\ \A j \in Calls : j # k => call'[j] = call[j]
    BY <1>15, Others DEF DropLog, End
  <2>3. /\ score' = [score EXCEPT ![t] = call[k].seen]
        /\ rewound' = (IF score' = score THEN rewound ELSE rewound \cup {t})
        /\ UNCHANGED <<anchored, sealed, late>>
    BY <1>15 DEF DropLog
  <2>4. \A s \in Steps : s # t => score'[s] = score[s]
    BY <2>1, <2>3 DEF TypeOK
  <2>5. score' = score \/ t \in rewound'
    BY <2>3
  <2>6. rewound \subseteq rewound'
    BY <2>3
  <2> HIDE DEF t
  <2>7. \A s \in Steps, v \in Scores : Finished(s, v)' => Finished(s, v)
    BY <2>2, <2>3 DEF Idle
  <2>8. \A m \in Logs : Scored(m) => Scored(m)'
    BY <2>2, <2>3 DEF Idle
  <2> QED BY <2>1, <2>3, <2>4, <2>5, <2>6, <2>7, <2>8
<1>16. ASSUME NEW k \in Calls, NEW t \in Steps, ReadToSeal(k, t)
       PROVE  LateOrScored' /\ CreditOrCause'
  <2>1. /\ call'[k] = [op |-> "seal", step |-> t, seen |-> score[t]]
        /\ \A j \in Calls : j # k => call'[j] = call[j]
    BY <1>16, Others DEF ReadToSeal, Start
  <2>2. /\ late' = late \cup {l \in LogsOf(t) : ~Scored(l)}
        /\ UNCHANGED <<anchored, score, sealed, rewound>>
    BY <1>16 DEF ReadToSeal
  <2>3. \A s \in Steps, v \in Scores :
           Finished(s, v)' => Finished(s, v) \/ (s = t /\ v = score[t])
    BY <2>1, <2>2
  <2>4. \A m \in Logs : Scored(m) => Scored(m)'
    BY <2>1, <2>2
  <2>5. LateOrScored'
    BY <2>2, <2>3, <2>4
  <2>6. CreditOrCause'
    BY <2>2, <2>3
  <2> QED BY <2>5, <2>6
<1>17. ASSUME NEW k \in Calls, SealStep(k) PROVE LateOrScored' /\ CreditOrCause'
  <2> DEFINE t == call[k].step
  <2>1. call[k].op = "seal" /\ t \in Steps
    BY <1>17, CallShapes DEF SealStep, SealCall
  <2>2. /\ call'[k] = Idle
        /\ \A j \in Calls : j # k => call'[j] = call[j]
    BY <1>17, Others DEF SealStep, End
  <2>3. \A s \in Steps : \A v \in sealed'[s] : v \in sealed[s] \/ (s = t /\ v = call[k].seen)
    BY <1>17, <2>1 DEF SealStep, Sealed, TypeOK
  <2>4. UNCHANGED <<anchored, score, late, rewound>>
    BY <1>17 DEF SealStep
  <2>5. \A s \in Steps, v \in Scores : Finished(s, v)' => Finished(s, v)
    BY <2>1, <2>2, <2>3 DEF Idle
  <2>6. \A m \in Logs : Scored(m) => Scored(m)'
    BY <2>2, <2>4 DEF Idle
  <2> QED BY <2>4, <2>5, <2>6
<1> HIDE DEF LateOrScored, CreditOrCause, Finished, Scored, LogsOf
<1> QED BY <1>3, <1>4, <1>5, <1>6, <1>7, <1>8, <1>9, <1>10, <1>11, <1>12, <1>13, <1>14,
           <1>15, <1>16, <1>17
        DEF Next, Proceed, Fail, Request

LEMMA AwaitedStep ==
    ASSUME TypeOK, EvaluatedOnce, JudgedOnce, JudgedIsSaved, PendingIsAwaited, [Next]_vars
    PROVE  JudgedIsSaved' /\ PendingIsAwaited'
<1> USE DEF JudgedIsSaved, PendingIsAwaited, At,
            rowVars, auditVars, chainVars, stepVars, pictureVars
<1>1. ASSUME UNCHANGED <<call, rowVars, judged, requested, delivered, failed>>
      PROVE  JudgedIsSaved' /\ PendingIsAwaited'
  BY <1>1
\* A handler goes on with its log, or gives it up and the log has failed.
<1>2. ASSUME NEW k \in Calls, NEW record, call' = [call EXCEPT ![k] = record],
             call[k].op \in LogOps,
             \/ failed' = failed \cup {call[k].log}
             \/ /\ call[k].op # "save"
                /\ record.op \in LogOps /\ record.log = call[k].log
                /\ failed' = failed,
             UNCHANGED <<added, status, judged, requested, delivered>>
      PROVE  JudgedIsSaved' /\ PendingIsAwaited'
  <2>1. /\ call'[k] = record
        /\ \A j \in Calls : j # k => call'[j] = call[j]
    BY <1>2, Others
  <2> QED BY <1>2, <2>1
\* A handler that has no log in hand.
<1>3. ASSUME NEW k \in Calls, NEW record, call' = [call EXCEPT ![k] = record],
             call[k].op \notin LogOps,
             UNCHANGED <<added, status, judged, requested, delivered, failed>>
      PROVE  JudgedIsSaved' /\ PendingIsAwaited'
  <2>1. \A j \in Calls : j # k => call'[j] = call[j]
    BY <1>3, Others
  <2> QED BY <1>3, <2>1 DEF LogOps
<1>4. CASE UNCHANGED vars
  BY <1>1, <1>4 DEF vars
<1>5. ASSUME NEW l \in Logs, Finalize(l) PROVE JudgedIsSaved' /\ PendingIsAwaited'
  BY <1>1, <1>5 DEF Finalize
<1>6. ASSUME NEW k \in Calls, CheckCopies(k) \/ CheckFails(k)
      PROVE  JudgedIsSaved' /\ PendingIsAwaited'
  <2>1. PICK copied \in BOOLEAN : Checked(k, copied)
    BY <1>6 DEF CheckCopies, CheckFails
  <2> QED BY <1>2, <2>1 DEF Checked, Continue, LogOps
<1>7. ASSUME NEW k \in Calls, KeepHashes(k) PROVE JudgedIsSaved' /\ PendingIsAwaited'
  <2>1. call[k] \in HashCall
    BY <1>7, CallShapes DEF KeepHashes
  <2>2. LET record == [call[k] EXCEPT !.op = "grade"]
        IN  record.op = "grade" /\ record.log = call[k].log
    BY <2>1 DEF HashCall
  <2> QED BY <1>2, <1>7, <2>2 DEF KeepHashes, Continue, LogOps
<1>8. ASSUME NEW k \in Calls, Review(k) \/ NoPicture(k) \/ Skip(k)
      PROVE  JudgedIsSaved' /\ PendingIsAwaited'
  BY <1>2, <1>8 DEF Review, NoPicture, ToReview, Skip, Continue, LogOps
<1>9. ASSUME NEW k \in Calls, NEW l \in Logs, AddLog(k, l)
      PROVE  JudgedIsSaved' /\ PendingIsAwaited'
  <2>1. /\ call'[k] = [op |-> "check", log |-> l, active |-> TRUE]
        /\ \A j \in Calls : j # k => call'[j] = call[j]
    BY <1>9, Others DEF AddLog, Start
  <2>2. call[k].op = "none"
    BY <1>9 DEF AddLog, Start, Idle
  <2> QED BY <1>9, <2>1, <2>2 DEF AddLog, LogOps
<1>10. ASSUME NEW k \in Calls, RequestVerification(k)
       PROVE  JudgedIsSaved' /\ PendingIsAwaited'
  <2> DEFINE l == call[k].log
  <2>1. l \in Logs /\ call[k].op = "request"
    BY <1>10, CallShapes DEF RequestVerification, LogOps
  <2>2. l \notin delivered
    BY <2>1 DEF EvaluatedOnce, EvalOps, TypeOK
  <2>3. \A j \in Calls : j # k => call'[j] = call[j]
    BY <1>10, Others DEF RequestVerification, End
  <2> QED BY <1>10, <2>1, <2>2, <2>3 DEF RequestVerification
<1>11. ASSUME NEW k \in Calls, NEW l \in Logs, HandleLogVerified(k, l)
       PROVE  JudgedIsSaved' /\ PendingIsAwaited'
  <2>1. /\ call'[k] = [op |-> "judge", log |-> l, active |-> active[l]]
        /\ \A j \in Calls : j # k => call'[j] = call[j]
    BY <1>11, Others DEF HandleLogVerified, Start, ActiveNow
  <2>2. call[k].op = "none"
    BY <1>11 DEF HandleLogVerified, Start, Idle
  <2> QED BY <1>11, <2>1, <2>2 DEF HandleLogVerified, LogOps
\* Whoever comes second finds the first at work, or gone after a failure.
<1>12. ASSUME NEW k \in Calls, ProcessData(k) PROVE JudgedIsSaved' /\ PendingIsAwaited'
  <2> DEFINE l == call[k].log
  <2>1. l \in Logs /\ call[k].op = "judge"
    BY <1>12, CallShapes DEF ProcessData, LogOps
  <2>2. \A j \in Calls : j # k => call'[j] = call[j]
    BY <1>12, Others DEF ProcessData, Continue, End
  <2>3. UNCHANGED <<added, status, requested, delivered, failed>>
    BY <1>12 DEF ProcessData
  <2>4. CASE IdAlreadyProcessed(l) /\ judged' = judged
    BY <2>1, <2>2, <2>3, <2>4 DEF IdAlreadyProcessed, LogOps
  <2>5. ASSUME NEW accept \in BOOLEAN, judged' = [judged EXCEPT ![l] = Verdict(accept)],
               Continue(k, [op |-> "save", log |-> l, active |-> call[k].active,
                            verdict |-> Verdict(accept)])
        PROVE  JudgedIsSaved' /\ PendingIsAwaited'
    <3>1. \A m \in Logs : m # l => judged'[m] = judged[m]
      BY <2>1, <2>5 DEF TypeOK
    <3>2. call'[k] = [op |-> "save", log |-> l, active |-> call[k].active,
                      verdict |-> Verdict(accept)]
      BY <2>5, Others DEF Continue
    <3> QED BY <2>1, <2>2, <2>3, <3>1, <3>2 DEF LogOps
  <2> QED BY <1>12, <2>4, <2>5 DEF ProcessData
<1>13. ASSUME NEW k \in Calls, ProcessDataUnanswered(k)
       PROVE  JudgedIsSaved' /\ PendingIsAwaited'
  <2> DEFINE l == call[k].log
  <2>1. l \in Logs /\ call[k].op = "judge"
    BY <1>13, CallShapes DEF ProcessDataUnanswered, LogOps
  <2>2. \A j \in Calls : j # k => call'[j] = call[j]
    BY <1>13, Others DEF ProcessDataUnanswered, End
  <2>3. /\ UNCHANGED <<added, status, requested, delivered>>
        /\ failed' = failed \cup {l}
    BY <1>13 DEF ProcessDataUnanswered
  <2>4. \A m \in Logs : m # l => judged'[m] = judged[m]
    BY <1>13, <2>1 DEF ProcessDataUnanswered, TypeOK
  <2> QED BY <2>1, <2>2, <2>3, <2>4
<1>14. ASSUME NEW k \in Calls, SaveLog(k) PROVE JudgedIsSaved' /\ PendingIsAwaited'
  <2> DEFINE l == call[k].log
  <2>1. l \in Logs /\ call[k].verdict # "PENDING"
    BY <1>14, CallShapes DEF SaveLog, VerdictOps, VerdictCall, Verdicts
  <2>2. \A j \in Calls : j # k => call'[j] = call[j]
    BY <1>14, Others DEF SaveLog, Continue
  <2>3. status'[l] # "PENDING" /\ \A m \in Logs : m # l => status'[m] = status[m]
    BY <1>14, <2>1 DEF SaveLog, TypeOK
  <2>4. UNCHANGED <<added, judged, requested, delivered, failed>>
    BY <1>14 DEF SaveLog
  <2>5. added \subseteq Logs
    BY DEF TypeOK
  <2> QED BY <2>1, <2>2, <2>3, <2>4, <2>5
<1>15. ASSUME NEW k \in Calls, AnchorLog(k) PROVE JudgedIsSaved' /\ PendingIsAwaited'
  <2>1. call[k] \in VerdictCall
    BY <1>15, CallShapes DEF AnchorLog, VerdictOps
  <2>2. LET record == [call[k] EXCEPT !.op = "score"]
        IN  record.op = "score" /\ record.log = call[k].log
    BY <2>1 DEF VerdictCall
  <2> QED BY <1>2, <1>15, <2>2 DEF AnchorLog, Continue, LogOps
<1>16. ASSUME NEW k \in Calls, ScoreStep(k) PROVE JudgedIsSaved' /\ PendingIsAwaited'
  <2> DEFINE l == call[k].log
  <2>1. call[k] \in VerdictCall /\ call[k].op = "score"
    BY <1>16, CallShapes DEF ScoreStep, VerdictOps
  <2>2. l \in Logs /\ status[l] # "PENDING"
    BY <2>1 DEF JudgedOnce, VerdictOps, VerdictCall, Verdicts
  <2>3. \A j \in Calls : j # k => call'[j] = call[j]
    BY <1>16, Others DEF ScoreStep, End
  <2>4. UNCHANGED <<added, status, judged, requested, delivered, failed>>
    BY <1>16 DEF ScoreStep
  <2> QED BY <2>1, <2>2, <2>3, <2>4
<1>17. ASSUME NEW k \in Calls, Abandon(k) PROVE JudgedIsSaved' /\ PendingIsAwaited'
  BY <1>2, <1>17 DEF Abandon, End
<1>18. ASSUME NEW k \in Calls, DropLog(k) \/ SealStep(k) \/ GiveUp(k)
       PROVE  JudgedIsSaved' /\ PendingIsAwaited'
  <2>1. /\ call' = [call EXCEPT ![k] = Idle]
        /\ UNCHANGED <<added, status, judged, requested, delivered, failed>>
    BY <1>18 DEF DropLog, SealStep, GiveUp, End
  <2>2. call[k].op \notin LogOps
    BY <1>18 DEF DropLog, SealStep, GiveUp, LogOps
  <2> QED BY <1>3, <2>1, <2>2
<1>19. ASSUME NEW k \in Calls, NEW s \in Steps,
              ReadToSeal(k, s) \/ \E l \in Logs : ReadToDrop(k, l, s)
       PROVE  JudgedIsSaved' /\ PendingIsAwaited'
  <2>1. call[k].op = "none"
    BY <1>19 DEF ReadToSeal, ReadToDrop, Start, Idle
  <2> QED BY <1>3, <1>19, <2>1 DEF ReadToSeal, ReadToDrop, Start, LogOps
<1> HIDE DEF JudgedIsSaved, PendingIsAwaited, At
<1> QED BY <1>4, <1>5, <1>6, <1>7, <1>8, <1>9, <1>10, <1>11, <1>12, <1>13, <1>14, <1>15,
           <1>16, <1>17, <1>18, <1>19
        DEF Next, Proceed, Fail, Request
-----------------------------------------------------------------------------
\* The invariant that all the others follow from.
THEOREM Inductive == Spec => []IInv
<1>1. Init => IInv
  BY Initial
<1>2. IInv /\ [Next]_vars => IInv'
  BY TypeStep, EvaluatedStep, JudgedStep, DroppedStep, CopiesStep, SealedStep, AwaitedStep
     DEF IInv
<1> QED BY <1>1, <1>2, PTL DEF Spec

\* Every state is well typed, the records of handlers in flight included.
THEOREM TypeCorrect == Spec => []TypeOK
<1>1. IInv => TypeOK
  BY DEF IInv
<1> QED BY <1>1, Inductive, PTL

\* A verdict of the auditors never brings back a log that was deactivated before.
THEOREM DropsStay == Spec => []EarlyDropStays
<1>1. IInv => EarlyDropStays
  BY DEF IInv, TypeOK, EvaluatedOnce, DroppedForGood, EarlyDropStays
<1> QED BY <1>1, Inductive, PTL

\* A picture that has passed once is not skipped for another farm, unless
\* image_hash failed.
THEOREM CopiesAreReviewed == Spec => []CopiesReviewed
<1>1. IInv => CopiesReviewed
  BY DEF IInv
<1> QED BY <1>1, Inductive, PTL

\* The score a step was hashed with is its score, but for a verdict that came
\* later and for a stale save of unactiveLog.
THEOREM CreditIsKept == Spec => []CreditKept
<1>1. IInv => CreditKept
  BY DEF IInv, TypeOK, CreditOrCause, Finished, CreditKept
<1> QED BY <1>1, Inductive, PTL

\* No log is PENDING without a handler, the auditors or a failure to answer for it.
THEOREM NoneForgotten == Spec => []PendingIsAwaited
<1>1. IInv => PendingIsAwaited
  BY DEF IInv
<1> QED BY <1>1, Inductive, PTL

\* A step of the verification judges, records or anchors one log, or none.
LEMMA RecordStep ==
    ASSUME TypeOK, JudgedOnce, [Next]_vars
    PROVE  [Record!Next]_(Record!recordVars)
<1> USE DEF Record!recordVars, Record!Next, rowVars, auditVars, chainVars, stepVars, pictureVars
<1>1. ASSUME NEW k \in Calls, NEW v \in Verdicts,
             call[k].op = "judge", ~IdAlreadyProcessed(call[k].log),
             judged' = [judged EXCEPT ![call[k].log] = v],
             UNCHANGED <<status, anchored>>
      PROVE  Record!Next
  <2>1. call[k].log \in Logs
    BY <1>1, CallShapes DEF LogOps
  <2>2. Record!Judge(call[k].log)
    BY <1>1, <2>1 DEF Record!Judge, Record!Verdicts, Verdicts, IdAlreadyProcessed
  <2> QED BY <2>1, <2>2
<1>2. ASSUME NEW k \in Calls, ProcessData(k)
      PROVE  Record!Next \/ UNCHANGED <<status, judged, anchored>>
  <2>1. \A accept \in BOOLEAN : Verdict(accept) \in Verdicts
    BY DEF Verdict, Verdicts
  <2> QED BY <1>1, <1>2, <2>1 DEF ProcessData
<1>3. ASSUME NEW k \in Calls, ProcessDataUnanswered(k) PROVE Record!Next
  BY <1>1, <1>3 DEF ProcessDataUnanswered
<1>4. ASSUME NEW k \in Calls, SaveLog(k) PROVE Record!Next
  <2>1. call[k] \in VerdictCall /\ call[k].op = "save"
    BY <1>4, CallShapes DEF SaveLog, VerdictOps
  <2>2. /\ call[k].log \in Logs
        /\ judged[call[k].log] = call[k].verdict
        /\ call[k].verdict # "PENDING"
    BY <2>1 DEF JudgedOnce, At, VerdictOps, VerdictCall, Verdicts
  <2>3. Record!Record(call[k].log)
    BY <1>4, <2>2 DEF SaveLog, Record!Record
  <2> QED BY <2>2, <2>3
<1>5. ASSUME NEW k \in Calls, AnchorLog(k) PROVE Record!Next
  <2>1. call[k] \in VerdictCall /\ call[k].op = "anchor"
    BY <1>5, CallShapes DEF AnchorLog, VerdictOps
  <2>2. /\ call[k].log \in Logs
        /\ status[call[k].log] = call[k].verdict
        /\ call[k].verdict # "PENDING"
    BY <2>1 DEF JudgedOnce, At, VerdictOps, VerdictCall, Verdicts
  <2>3. Record!Anchor(call[k].log)
    BY <1>5, <2>2 DEF AnchorLog, Record!Anchor
  <2> QED BY <2>2, <2>3
<1>6. CASE UNCHANGED <<status, judged, anchored>>
  BY <1>6
<1>7. ASSUME NEW k \in Calls,
             \/ CheckCopies(k) \/ CheckFails(k) \/ NoPicture(k) \/ KeepHashes(k)
             \/ Review(k) \/ Skip(k) \/ RequestVerification(k) \/ ScoreStep(k)
             \/ DropLog(k) \/ SealStep(k) \/ Abandon(k) \/ GiveUp(k)
      PROVE  UNCHANGED <<status, judged, anchored>>
  BY <1>7 DEF CheckCopies, CheckFails, Checked, NoPicture, KeepHashes, Review, ToReview, Skip,
              RequestVerification, ScoreStep, DropLog, SealStep, Abandon, GiveUp
<1>8. ASSUME NEW k \in Calls, Request(k) PROVE UNCHANGED <<status, judged, anchored>>
  BY <1>8 DEF Request, AddLog, HandleLogVerified, ReadToDrop, ReadToSeal
<1>9. ASSUME NEW l \in Logs, Finalize(l) PROVE UNCHANGED <<status, judged, anchored>>
  BY <1>9 DEF Finalize
<1>10. CASE UNCHANGED vars
  BY <1>10 DEF vars
<1> HIDE DEF Record!Next
<1> QED BY <1>2, <1>3, <1>4, <1>5, <1>6, <1>7, <1>8, <1>9, <1>10 DEF Next, Proceed, Fail

\* The verification implements the record of verdicts: each log is judged once,
\* and the row and the hash take over that verdict (ImplementsRecord).
THEOREM RecordImplemented == Spec => ImplementsRecord
<1>1. Init => Record!Init
  BY DEF Init, Record!Init
<1>2. IInv /\ [Next]_vars => [Record!Next]_(Record!recordVars)
  BY RecordStep DEF IInv
<1> QED BY <1>1, <1>2, Inductive, PTL DEF Spec, ImplementsRecord, Record!Spec
=============================================================================
