------------------------ MODULE SeasonProgressProofs ------------------------
(***************************************************************************)
(* Proofs about SeasonProgress, for any crop, any number of seasons, steps *)
(* and logs, and any number of handlers in flight.                         *)
(***************************************************************************)
EXTENDS SeasonProgress, TLAPS

\* Step t of season s is the crop's first, may be repeated, or has a step to
\* follow.
Prepared(s, t) ==
    \/ IsFirst(t)
    \/ t \in Repeated
    \/ \E d \in Rows(s) : MayFollow(t, OrderOf(d))

Logged(d) == \E l \in Logs : logOf[l] = d

\* Product p has been given a season, and whatever took it away is known.
HadSeason(p) == grown[p] # Null \/ p \in detached

RowOps == {"finish", "finished", "end", "log", "logged", "start"}

\* What a handler has read still justifies what it will write.
Justified(c) ==
    /\ c.op \in {"add", "checked"} => (c.seen # "PENDING" => Rows(c.season) # {})
    /\ c.op = "checked" => Prepared(c.season, c.step)
    /\ c.op \in RowOps => entry[c.row] # Null
    /\ c.op = "finish" => Logged(c.row)
    /\ c.op \in {"finished", "end"} => c.row \in finished /\ entry[c.row].step \in PostHarvest
    /\ c.op = "update" => /\ c.seen # "PENDING" => Rows(c.season) # {}
                          /\ c.seen = "DONE" => c.season \in ended
    /\ c.op = "save" => /\ c.season \in ended \cup {Null}
                        /\ c.status = "OPEN_FOR_SALE" => c.season # Null
    /\ c.op = "sale" => c.season \in ended /\ HadSeason(c.product)
    /\ c.op = "set" => (c.status = "OPEN_FOR_SALE" => HadSeason(c.product))

CallsJustified == \A k \in Calls : Justified(call[k])

\* A season that is not PENDING has steps, and one that is DONE has been DONE.
StatusHasRows ==
    \A s \in Seasons : /\ status[s] # "PENDING" => Rows(s) # {}
                       /\ status[s] = "DONE" => s \in ended

\* What a request to add a step has read as PENDING is so still, unless another
\* had read it too or an updateSeason has changed it.
PendingReads ==
    \A s \in Seasons, k \in Calls :
        Starting(k, s) =>
            /\ status[s] = "PENDING" \/ s \in overlapped \cup putBack
            /\ \A j \in Calls \ {k} : Starting(j, s) => s \in overlapped

\* Logs are of steps that exist, as are finished steps.
LogsHaveRows ==
    /\ \A l \in Logs : logOf[l] # Null => entry[logOf[l]] # Null
    /\ \A d \in finished : entry[d] # Null

\* Products are only ever given seasons that have been DONE.
SeasonsGivenWereDone == \A p \in Products : grown[p] \in ended \cup {Null}

IInv ==
    /\ TypeOK
    /\ CallsJustified
    /\ StatusHasRows
    /\ PendingReads
    /\ LogsHaveRows
    /\ SeasonsGivenWereDone
    /\ NoPhaseSkipped
    /\ EndedByHarvestOrOverlap
    /\ StartedStaysStarted
    /\ FinishedWorkIsLogged
    /\ OnSaleIsGrown
-----------------------------------------------------------------------------
USE OrderAssumption, NullAssumption, EntryAssumption

\* A record in call[k] has the fields its op promises.
LEMMA CallShapes ==
    ASSUME TypeOK, NEW k \in Calls
    PROVE  /\ call[k].op \in {"add", "checked"} => call[k] \in AddCall
           /\ call[k].op \in RowOps => call[k] \in RowCall
           /\ call[k].op = "drop" => call[k] \in DropCall
           /\ call[k].op = "charge" => call[k] \in ChargeCall
           /\ call[k].op = "update" => call[k] \in UpdateCall
           /\ call[k].op = "copy" => call[k] \in CopyCall
           /\ call[k].op = "save" => call[k] \in SaveCall
           /\ call[k].op = "sale" => call[k] \in SaleCall
           /\ call[k].op = "set" => call[k] \in StatusCall
<1>1. call[k] \in CallRecords
  BY DEF TypeOK
<1> QED
  BY <1>1 DEF CallRecords, NoCall, AddCall, RowCall, DropCall, ChargeCall, UpdateCall, CopyCall,
              SaveCall, SaleCall, StatusCall, RowOps

\* Every step keeps the types.
LEMMA TypeStep ==
    ASSUME IInv, [Next]_vars
    PROVE  TypeOK'
<1> USE DEF TypeOK
<1>0. TypeOK /\ CallsJustified
  BY DEF IInv
<1>i. Idle \in CallRecords
  BY DEF Idle, CallRecords, NoCall
<1>1. ASSUME NEW k \in Calls, SeasonStep(k) PROVE TypeOK'
  <2> USE DEF vars, stepVars, logVars, productVars
  <2>1. ASSUME NEW s \in Seasons, NEW t \in Steps, ReadSeasonForStep(k, s, t) PROVE TypeOK'
    BY <1>0, <2>1 DEF ReadSeasonForStep, Start, CallRecords, AddCall
  <2>2. ASSUME CheckStep(k) PROVE TypeOK'
    <3>1. [call[k] EXCEPT !.op = "checked"] \in CallRecords
      BY <1>0, <2>2, CallShapes DEF CheckStep, CallRecords, AddCall
    <3> QED
      BY <1>0, <2>2, <3>1 DEF CheckStep, Continue
  <2>3. ASSUME NEW d \in Details, InsertStep(k, d) PROVE TypeOK'
    <3>1. call[k] \in AddCall
      BY <1>0, <2>3, CallShapes DEF InsertStep
    <3>2. [season |-> call[k].season, step |-> call[k].step] \in Entry
      BY <3>1 DEF AddCall, Entry
    <3>3. status' \in [Seasons -> SeasonStatus]
      BY <1>0, <2>3 DEF InsertStep, StartSeason, SeasonStatus
    <3> QED
      BY <1>0, <1>i, <2>3, <3>2, <3>3 DEF InsertStep, End
  <2>4. ASSUME NEW d \in Details, CountLogs(k, d) PROVE TypeOK'
    BY <1>0, <2>4 DEF CountLogs, Start, CallRecords, RowCall
  <2>5. ASSUME MarkDone(k) PROVE TypeOK'
    <3>1. call[k].row \in Details
      BY <1>0, <2>5, CallShapes DEF MarkDone, RowOps, RowCall
    <3>2. [op |-> "finished", row |-> call[k].row] \in CallRecords
      BY <3>1 DEF CallRecords, RowCall
    <3> QED
      BY <1>0, <1>i, <2>5, <3>1, <3>2 DEF MarkDone, Continue, End, StepStatus
  <2>6. ASSUME ReadSeasonToEnd(k) PROVE TypeOK'
    <3>1. [call[k] EXCEPT !.op = "end"] \in CallRecords
      BY <1>0, <2>6, CallShapes DEF ReadSeasonToEnd, RowOps, CallRecords, RowCall
    <3> QED
      BY <1>0, <1>i, <2>6, <3>1 DEF ReadSeasonToEnd, Continue, End
  <2>7. ASSUME EndSeason(k) PROVE TypeOK'
    <3>1. entry[call[k].row].season \in Seasons
      BY <1>0, <2>7, CallShapes DEF EndSeason, RowOps, RowCall, CallsJustified, Justified, Entry
    <3> QED
      BY <1>0, <1>i, <2>7, <3>1 DEF EndSeason, End, SeasonStatus
  <2>8. ASSUME NEW s \in Seasons, ReadSeasonToUpdate(k, s) PROVE TypeOK'
    BY <1>0, <2>8 DEF ReadSeasonToUpdate, Start, CallRecords, UpdateCall
  <2>9. ASSUME SaveSeason(k) PROVE TypeOK'
    <3>1. call[k] \in UpdateCall
      BY <1>0, <2>9, CallShapes DEF SaveSeason
    <3> QED
      BY <1>0, <1>i, <2>9, <3>1 DEF SaveSeason, End, UpdateCall
  <2> QED
    BY <1>1, <2>1, <2>2, <2>3, <2>4, <2>5, <2>6, <2>7, <2>8, <2>9 DEF SeasonStep
<1>2. ASSUME NEW k \in Calls, LogStep(k) PROVE TypeOK'
  <2> USE DEF vars, stepVars, logVars, productVars
  <2>1. ASSUME NEW d \in Details, ReadStepToLog(k, d) PROVE TypeOK'
    BY <1>0, <2>1 DEF ReadStepToLog, Start, CallRecords, RowCall
  <2>2. ASSUME NEW l \in Logs, InsertLog(k, l) PROVE TypeOK'
    <3>1. call[k] \in RowCall
      BY <1>0, <2>2, CallShapes DEF InsertLog, RowOps
    <3>2. [call[k] EXCEPT !.op = "logged"] \in CallRecords
      BY <3>1 DEF CallRecords, RowCall
    <3> QED
      BY <1>0, <2>2, <3>1, <3>2 DEF InsertLog, Continue, RowCall
  <2>3. ASSUME ReadStepToStart(k) PROVE TypeOK'
    <3>1. [call[k] EXCEPT !.op = "start"] \in CallRecords
      BY <1>0, <2>3, CallShapes DEF ReadStepToStart, RowOps, CallRecords, RowCall
    <3> QED
      BY <1>0, <1>i, <2>3, <3>1 DEF ReadStepToStart, Continue, End
  <2>4. ASSUME StartStep(k) PROVE TypeOK'
    BY <1>0, <1>i, <2>4 DEF StartStep, End, StepStatus
  <2>5. ASSUME NEW l \in Logs, NEW d \in Details, ReadInactive(k, l, d) PROVE TypeOK'
    BY <1>0, <2>5 DEF ReadInactive, Start, CallRecords, DropCall
  <2>6. ASSUME ReadStepToCharge(k) PROVE TypeOK'
    <3>1. call[k] \in DropCall
      BY <1>0, <2>6, CallShapes DEF ReadStepToCharge
    <3>2. [op |-> "charge", row |-> call[k].row, log |-> call[k].log,
           seen |-> stepStatus[call[k].row], count |-> inactive[call[k].row]] \in CallRecords
      BY <1>0, <3>1 DEF CallRecords, DropCall, ChargeCall
    <3> QED
      BY <1>0, <2>6, <3>2 DEF ReadStepToCharge, Continue
  <2>7. ASSUME DropLog(k) PROVE TypeOK'
    <3>1. call[k] \in ChargeCall
      BY <1>0, <2>7, CallShapes DEF DropLog
    <3> QED
      BY <1>0, <1>i, <2>7, <3>1 DEF DropLog, Charged, End, ChargeCall
  <2> QED
    BY <1>2, <2>1, <2>2, <2>3, <2>4, <2>5, <2>6, <2>7 DEF LogStep
<1>3. ASSUME NEW k \in Calls, ProductStep(k) PROVE TypeOK'
  <2> USE DEF vars, stepVars, logVars, productVars
  <2>1. ASSUME NEW p \in Products, ReadToAssign(k, p) PROVE TypeOK'
    BY <1>0, <2>1 DEF ReadToAssign, Start, CallRecords, CopyCall
  <2>2. ASSUME NEW p \in Products, ReadToEdit(k, p) PROVE TypeOK'
    BY <1>0, <2>2 DEF ReadToEdit, Start, CallRecords, SaveCall
  <2>3. ASSUME NEW p \in Products, ReadToSell(k, p) PROVE TypeOK'
    BY <1>0, <2>3 DEF ReadToSell, Start, CallRecords, SaleCall, StatusCall, ProductStatus
  <2>4. ASSUME NEW p \in Products, ReadToDelete(k, p) PROVE TypeOK'
    BY <1>0, <2>4 DEF ReadToDelete, Start, CallRecords, StatusCall, ProductStatus
  <2>5. ASSUME NEW s \in Seasons, CheckAssigned(k, s) PROVE TypeOK'
    <3>1. call[k] \in CopyCall
      BY <1>0, <2>5, CallShapes DEF CheckAssigned
    <3>2. [op |-> "save", product |-> call[k].product, status |-> call[k].status,
           season |-> s] \in CallRecords
      BY <3>1 DEF CallRecords, CopyCall, SaveCall
    <3> QED
      BY <1>0, <2>5, <3>2 DEF CheckAssigned, Continue
  <2>6. ASSUME SaveProduct(k) PROVE TypeOK'
    <3>1. call[k] \in SaveCall
      BY <1>0, <2>6, CallShapes DEF SaveProduct
    <3> QED
      BY <1>0, <1>i, <2>6, <3>1 DEF SaveProduct, End, SaveCall
  <2>7. ASSUME CheckGrown(k) PROVE TypeOK'
    <3>1. call[k] \in SaleCall
      BY <1>0, <2>7, CallShapes DEF CheckGrown
    <3>2. [op |-> "set", product |-> call[k].product, status |-> "OPEN_FOR_SALE"] \in CallRecords
      BY <3>1 DEF CallRecords, SaleCall, StatusCall, ProductStatus
    <3> QED
      BY <1>0, <2>7, <3>2 DEF CheckGrown, Continue
  <2>8. ASSUME SetStatus(k) PROVE TypeOK'
    <3>1. call[k] \in StatusCall
      BY <1>0, <2>8, CallShapes DEF SetStatus
    <3> QED
      BY <1>0, <1>i, <2>8, <3>1 DEF SetStatus, End, StatusCall
  <2> QED
    BY <1>3, <2>1, <2>2, <2>3, <2>4, <2>5, <2>6, <2>7, <2>8 DEF ProductStep
<1>4. ASSUME NEW k \in Calls, Abandon(k) PROVE TypeOK'
  BY <1>0, <1>i, <1>4 DEF Abandon, End, stepVars, logVars, productVars
<1>5. ASSUME UNCHANGED vars PROVE TypeOK'
  BY <1>0, <1>5 DEF vars, stepVars, logVars, productVars
<1> QED
  BY <1>1, <1>2, <1>3, <1>4, <1>5 DEF Next
-----------------------------------------------------------------------------
\* What a step leaves as it is: rows of season_detail and of log stay, what
\* has happened has happened, and a season_id is only lost to detached.
Growth ==
    /\ \A d \in Details : entry[d] # Null => entry'[d] = entry[d]
    /\ \A l \in Logs : logOf[l] # Null => logOf'[l] = logOf[l]
    /\ ended \subseteq ended' /\ finished \subseteq finished'
    /\ putBack \subseteq putBack' /\ overlapped \subseteq overlapped'
    /\ detached \subseteq detached'
    /\ \A p \in Products : HadSeason(p) => HadSeason(p)'

\* Every step lets the tables grow and forgets nothing.
LEMMA StepsGrow ==
    ASSUME TypeOK, [Next]_vars
    PROVE  Growth
<1> USE DEF Growth, HadSeason, vars, stepVars, logVars, productVars
<1>1. ASSUME NEW k \in Calls, SeasonStep(k) PROVE Growth
  <2>1. UNCHANGED <<logVars, productVars>>
    BY <1>1 DEF SeasonStep, ReadSeasonForStep, CheckStep, InsertStep, CountLogs, MarkDone,
                ReadSeasonToEnd, EndSeason, ReadSeasonToUpdate, SaveSeason
  <2>2. /\ ended \subseteq ended' /\ finished \subseteq finished'
        /\ putBack \subseteq putBack' /\ overlapped \subseteq overlapped'
    BY <1>1 DEF SeasonStep, ReadSeasonForStep, CheckStep, InsertStep, CountLogs, MarkDone,
                ReadSeasonToEnd, EndSeason, ReadSeasonToUpdate, SaveSeason
  <2>3. \A d \in Details : entry[d] # Null => entry'[d] = entry[d]
    BY <1>1 DEF TypeOK, SeasonStep, ReadSeasonForStep, CheckStep, InsertStep, CountLogs, MarkDone,
                ReadSeasonToEnd, EndSeason, ReadSeasonToUpdate, SaveSeason
  <2> QED
    BY <2>1, <2>2, <2>3
<1>2. ASSUME NEW k \in Calls, LogStep(k) PROVE Growth
  <2>1. UNCHANGED <<entry, productVars, ended, finished, putBack, overlapped>>
    BY <1>2 DEF LogStep, ReadStepToLog, InsertLog, ReadStepToStart, StartStep, ReadInactive,
                ReadStepToCharge, DropLog
  <2>2. \A l \in Logs : logOf[l] # Null => logOf'[l] = logOf[l]
    BY <1>2 DEF TypeOK, LogStep, ReadStepToLog, InsertLog, ReadStepToStart, StartStep,
                ReadInactive, ReadStepToCharge, DropLog
  <2> QED
    BY <2>1, <2>2
<1>3. ASSUME NEW k \in Calls, ProductStep(k) PROVE Growth
  <2>1. UNCHANGED <<stepVars, logVars, ended, finished, putBack, overlapped>>
    BY <1>3 DEF ProductStep, ReadToAssign, ReadToEdit, ReadToSell, ReadToDelete, CheckAssigned,
                SaveProduct, CheckGrown, SetStatus
  <2>2. detached \subseteq detached' /\ \A p \in Products : HadSeason(p) => HadSeason(p)'
    <3>1. CASE SaveProduct(k)
      <4>1. call[k] \in SaveCall
        BY <3>1, CallShapes DEF SaveProduct
      <4> QED
        BY <3>1, <4>1 DEF SaveProduct, TypeOK, SaveCall
    <3>2. CASE UNCHANGED <<grown, detached>>
      BY <3>2
    <3> QED
      BY <1>3, <3>1, <3>2 DEF ProductStep, ReadToAssign, ReadToEdit, ReadToSell, ReadToDelete,
                              CheckAssigned, CheckGrown, SetStatus
  <2> QED
    BY <2>1, <2>2
<1>4. ASSUME NEW k \in Calls, Abandon(k) PROVE Growth
  BY <1>4 DEF Abandon
<1> QED
  BY <1>1, <1>2, <1>3, <1>4 DEF Next

\* The rows of a season are only ever added to, and one that has a step to
\* follow keeps it.
LEMMA RowsGrow ==
    ASSUME TypeOK, Growth, NEW s \in Seasons
    PROVE  /\ \A d \in Rows(s) : d \in Rows(s)' /\ entry'[d] = entry[d]
           /\ Rows(s) # {} => Rows(s)' # {}
           /\ \A t \in Steps : Prepared(s, t) => Prepared(s, t)'
<1>1. \A d \in Rows(s) : d \in Rows(s)' /\ entry'[d] = entry[d]
  BY DEF Rows, Growth
<1>2. \A d \in Rows(s) : OrderOf(d)' = OrderOf(d)
  BY <1>1 DEF OrderOf
<1> QED
  BY <1>1, <1>2 DEF Prepared, MayFollow, PhaseOf, IsFirst

\* What justified a handler still does.
LEMMA StillJustified ==
    ASSUME TypeOK, Growth, NEW k \in Calls, Justified(call[k]), call'[k] = call[k]
    PROVE  Justified(call[k])'
<1> DEFINE c == call[k]
<1>1. c \in CallRecords
  BY DEF TypeOK
<1>2. c.op \in {"add", "checked"} => (c.seen # "PENDING" => Rows(c.season)' # {})
  BY CallShapes, RowsGrow DEF Justified, AddCall
<1>3. c.op = "checked" => Prepared(c.season, c.step)'
  BY CallShapes, RowsGrow DEF Justified, AddCall
<1>4. c.op \in RowOps => entry'[c.row] # Null
  BY CallShapes DEF Justified, RowCall, Growth
<1>5. c.op = "finish" => Logged(c.row)'
  <2>1. \A d \in Details : Logged(d) => Logged(d)'
    BY DEF Logged, Growth, TypeOK
  <2> QED
    BY <2>1, CallShapes DEF Justified, RowOps, RowCall
<1>6. c.op \in {"finished", "end"} => c.row \in finished' /\ entry'[c.row].step \in PostHarvest
  BY CallShapes DEF Justified, RowOps, RowCall, Growth
<1>7. c.op = "update" => /\ c.seen # "PENDING" => Rows(c.season)' # {}
                         /\ c.seen = "DONE" => c.season \in ended'
  BY CallShapes, RowsGrow DEF Justified, UpdateCall, Growth
<1>8. c.op = "save" => /\ c.season \in ended' \cup {Null}
                       /\ c.status = "OPEN_FOR_SALE" => c.season # Null
  BY DEF Justified, Growth
<1>9. c.op = "sale" => c.season \in ended' /\ HadSeason(c.product)'
  <2>1. c.op = "sale" => c.product \in Products
    BY CallShapes DEF SaleCall
  <2> QED
    BY <2>1 DEF Justified, Growth
<1>10. c.op = "set" => (c.status = "OPEN_FOR_SALE" => HadSeason(c.product)')
  <2>1. c.op = "set" => c.product \in Products
    BY CallShapes DEF StatusCall
  <2> QED
    BY <2>1 DEF Justified, Growth
<1> QED
  BY <1>2, <1>3, <1>4, <1>5, <1>6, <1>7, <1>8, <1>9, <1>10 DEF Justified
-----------------------------------------------------------------------------
\* A handler that has ended needs no justification.
LEMMA IdleJustified ==
    ASSUME NEW k, call'[k] = Idle
    PROVE  Justified(call[k])'
BY DEF Idle, Justified, RowOps

\* What addSeasonStep, finishStep and updateSeason read justifies what they write.
LEMMA SeasonStepJustified ==
    ASSUME IInv, Growth, NEW k \in Calls, SeasonStep(k)
    PROVE  Justified(call[k])'
<1>0. TypeOK /\ Justified(call[k]) /\ StatusHasRows /\ LogsHaveRows
  BY DEF IInv, CallsJustified
<1> USE DEF TypeOK, vars, stepVars, logVars, productVars
<1>1. ASSUME NEW s \in Seasons, NEW t \in Steps, ReadSeasonForStep(k, s, t)
      PROVE  Justified(call[k])'
  <2>1. call'[k] = [op |-> "add", season |-> s, step |-> t, seen |-> status[s]]
    BY <1>0, <1>1 DEF ReadSeasonForStep, Start
  <2>2. status[s] # "PENDING" => Rows(s)' # {}
    BY <1>0, <1>1 DEF ReadSeasonForStep, StatusHasRows, Rows
  <2> QED
    BY <2>1, <2>2 DEF Justified, RowOps
<1>2. ASSUME CheckStep(k) PROVE Justified(call[k])'
  <2>1. call[k] \in AddCall
    BY <1>0, <1>2, CallShapes DEF CheckStep
  <2>2. PICK s \in Seasons, t \in Steps : s = call[k].season /\ t = call[k].step
    BY <2>1 DEF AddCall
  <2>3. Prepared(s, t)
    BY <1>2, <2>2 DEF CheckStep, Prepared
  <2>4. call[k].seen # "PENDING" => Rows(s) # {}
    BY <1>0, <1>2, <2>2 DEF CheckStep, Justified
  <2>5. call'[k] = [op |-> "checked", season |-> s, step |-> t, seen |-> call[k].seen]
    BY <1>0, <1>2, <2>1, <2>2 DEF CheckStep, Continue, AddCall
  <2>6. Prepared(s, t)' /\ (call[k].seen # "PENDING" => Rows(s)' # {})
    BY <1>0, <2>3, <2>4, RowsGrow
  <2> QED
    BY <2>5, <2>6 DEF Justified, RowOps
<1>3. ASSUME NEW d \in Details, InsertStep(k, d) PROVE Justified(call[k])'
  BY <1>0, <1>3, IdleJustified DEF InsertStep, End
<1>4. ASSUME NEW d \in Details, CountLogs(k, d) PROVE Justified(call[k])'
  <2>1. call'[k] = [op |-> "finish", row |-> d]
    BY <1>0, <1>4 DEF CountLogs, Start
  <2>2. entry'[d] # Null /\ Logged(d)'
    BY <1>0, <1>4 DEF CountLogs, HasActiveLog, LogsHaveRows, Logged
  <2> QED
    BY <2>1, <2>2 DEF Justified, RowOps
<1>5. ASSUME MarkDone(k) PROVE Justified(call[k])'
  <2>1. entry[call[k].row] # Null
    BY <1>0, <1>5 DEF MarkDone, Justified, RowOps
  <2>2. CASE entry[call[k].row].step \in PostHarvest
    <3>1. call'[k] = [op |-> "finished", row |-> call[k].row]
      BY <1>0, <1>5, <2>2 DEF MarkDone, IsLastStep, Continue
    <3>2. call[k].row \in finished' /\ entry' = entry
      BY <1>5 DEF MarkDone
    <3> QED
      BY <2>1, <2>2, <3>1, <3>2 DEF Justified, RowOps
  <2>3. CASE entry[call[k].row].step \notin PostHarvest
    BY <1>0, <1>5, <2>3, IdleJustified DEF MarkDone, IsLastStep, End
  <2> QED
    BY <2>2, <2>3
<1>6. ASSUME ReadSeasonToEnd(k) PROVE Justified(call[k])'
  <2>1. call[k] \in RowCall
    BY <1>0, <1>6, CallShapes DEF ReadSeasonToEnd, RowOps
  <2>2. /\ entry[call[k].row] # Null /\ call[k].row \in finished
        /\ entry[call[k].row].step \in PostHarvest
    BY <1>0, <1>6 DEF ReadSeasonToEnd, Justified, RowOps
  <2>3. CASE call' = [call EXCEPT ![k] = [call[k] EXCEPT !.op = "end"]]
    <3>1. call'[k] = [op |-> "end", row |-> call[k].row]
      BY <1>0, <2>1, <2>3 DEF RowCall
    <3>2. entry' = entry /\ finished' = finished
      BY <1>6 DEF ReadSeasonToEnd
    <3> QED
      BY <2>2, <3>1, <3>2 DEF Justified, RowOps
  <2>4. CASE call' = [call EXCEPT ![k] = Idle]
    BY <1>0, <2>4, IdleJustified
  <2> QED
    BY <1>6, <2>3, <2>4 DEF ReadSeasonToEnd, Continue, End
<1>7. ASSUME EndSeason(k) PROVE Justified(call[k])'
  BY <1>0, <1>7, IdleJustified DEF EndSeason, End
<1>8. ASSUME NEW s \in Seasons, ReadSeasonToUpdate(k, s) PROVE Justified(call[k])'
  <2>1. call'[k] = [op |-> "update", season |-> s, seen |-> status[s]]
    BY <1>0, <1>8 DEF ReadSeasonToUpdate, Start
  <2>2. /\ status[s] # "PENDING" => Rows(s)' # {}
        /\ status[s] = "DONE" => s \in ended'
    BY <1>0, <1>8 DEF ReadSeasonToUpdate, StatusHasRows, Rows
  <2> QED
    BY <2>1, <2>2 DEF Justified, RowOps
<1>9. ASSUME SaveSeason(k) PROVE Justified(call[k])'
  BY <1>0, <1>9, IdleJustified DEF SaveSeason, End
<1> QED
  BY <1>1, <1>2, <1>3, <1>4, <1>5, <1>6, <1>7, <1>8, <1>9 DEF SeasonStep

\* What addLog and unactiveLog read justifies what they write.
LEMMA LogStepJustified ==
    ASSUME IInv, Growth, NEW k \in Calls, LogStep(k)
    PROVE  Justified(call[k])'
<1>0. TypeOK /\ Justified(call[k])
  BY DEF IInv, CallsJustified
<1> USE DEF TypeOK, vars, stepVars, logVars, productVars
<1>1. ASSUME NEW d \in Details, ReadStepToLog(k, d) PROVE Justified(call[k])'
  <2>1. call'[k] = [op |-> "log", row |-> d] /\ entry'[d] # Null
    BY <1>0, <1>1 DEF ReadStepToLog, Start
  <2> QED
    BY <2>1 DEF Justified, RowOps
<1>2. ASSUME NEW l \in Logs, InsertLog(k, l) PROVE Justified(call[k])'
  <2>1. call[k] \in RowCall /\ entry'[call[k].row] # Null
    BY <1>0, <1>2, CallShapes DEF InsertLog, RowOps, Justified
  <2>2. call'[k] = [call[k] EXCEPT !.op = "logged"]
    BY <1>0, <1>2 DEF InsertLog, Continue
  <2>3. call'[k] = [op |-> "logged", row |-> call[k].row]
    BY <2>1, <2>2 DEF RowCall
  <2> QED
    BY <2>1, <2>3 DEF Justified, RowOps
<1>3. ASSUME ReadStepToStart(k) PROVE Justified(call[k])'
  <2>1. call[k] \in RowCall /\ entry'[call[k].row] # Null
    BY <1>0, <1>3, CallShapes DEF ReadStepToStart, RowOps, Justified
  <2>2. CASE call' = [call EXCEPT ![k] = [call[k] EXCEPT !.op = "start"]]
    <3>1. call'[k] = [op |-> "start", row |-> call[k].row]
      BY <1>0, <2>1, <2>2 DEF RowCall
    <3> QED
      BY <2>1, <3>1 DEF Justified, RowOps
  <2>3. CASE call' = [call EXCEPT ![k] = Idle]
    BY <1>0, <2>3, IdleJustified
  <2> QED
    BY <1>3, <2>2, <2>3 DEF ReadStepToStart, Continue, End
<1>4. ASSUME StartStep(k) PROVE Justified(call[k])'
  BY <1>0, <1>4, IdleJustified DEF StartStep, End
<1>5. ASSUME NEW l \in Logs, NEW d \in Details, ReadInactive(k, l, d) PROVE Justified(call[k])'
  BY <1>0, <1>5 DEF ReadInactive, Start, Justified, RowOps
<1>6. ASSUME ReadStepToCharge(k) PROVE Justified(call[k])'
  BY <1>0, <1>6 DEF ReadStepToCharge, Continue, Justified, RowOps
<1>7. ASSUME DropLog(k) PROVE Justified(call[k])'
  BY <1>0, <1>7, IdleJustified DEF DropLog, End
<1> QED
  BY <1>1, <1>2, <1>3, <1>4, <1>5, <1>6, <1>7 DEF LogStep

\* What the handlers of products read justifies what they write.
LEMMA ProductStepJustified ==
    ASSUME IInv, Growth, NEW k \in Calls, ProductStep(k)
    PROVE  Justified(call[k])'
<1>0. TypeOK /\ Justified(call[k]) /\ StatusHasRows /\ SeasonsGivenWereDone
  BY DEF IInv, CallsJustified
<1> USE DEF TypeOK, vars, stepVars, logVars, productVars
<1>1. ASSUME NEW p \in Products, ReadToAssign(k, p) PROVE Justified(call[k])'
  BY <1>0, <1>1 DEF ReadToAssign, Start, Justified, RowOps
<1>2. ASSUME NEW p \in Products, ReadToEdit(k, p) PROVE Justified(call[k])'
  <2>1. call'[k] = [op |-> "save", product |-> p, status |-> "NOT_YET_OPEN", season |-> grown[p]]
    BY <1>0, <1>2 DEF ReadToEdit, Start
  <2>2. grown[p] \in ended' \cup {Null}
    BY <1>0 DEF SeasonsGivenWereDone, Growth
  <2> QED
    BY <2>1, <2>2 DEF Justified, RowOps
<1>3. ASSUME NEW p \in Products, ReadToSell(k, p) PROVE Justified(call[k])'
  <2>1. grown[p] \in ended' /\ HadSeason(p)'
    BY <1>0, <1>3 DEF ReadToSell, SeasonsGivenWereDone, HadSeason, Growth
  <2>2. \/ call'[k] = [op |-> "sale", product |-> p, season |-> grown[p]]
        \/ call'[k] = [op |-> "set", product |-> p, status |-> "CLOSED"]
    BY <1>0, <1>3 DEF ReadToSell, Start
  <2> QED
    BY <2>1, <2>2 DEF Justified, RowOps
<1>4. ASSUME NEW p \in Products, ReadToDelete(k, p) PROVE Justified(call[k])'
  BY <1>0, <1>4 DEF ReadToDelete, Start, Justified, RowOps
<1>5. ASSUME NEW s \in Seasons, CheckAssigned(k, s) PROVE Justified(call[k])'
  <2>1. s \in ended' /\ s # Null
    BY <1>0, <1>5 DEF CheckAssigned, CanAssign, StatusHasRows, Growth
  <2>2. call'[k] = [op |-> "save", product |-> call[k].product, status |-> call[k].status,
                    season |-> s]
    BY <1>0, <1>5 DEF CheckAssigned, Continue
  <2> QED
    BY <2>1, <2>2 DEF Justified, RowOps
<1>6. ASSUME SaveProduct(k) PROVE Justified(call[k])'
  BY <1>0, <1>6, IdleJustified DEF SaveProduct, End
<1>7. ASSUME CheckGrown(k) PROVE Justified(call[k])'
  <2>1. call[k].product \in Products /\ HadSeason(call[k].product)
    BY <1>0, <1>7, CallShapes DEF CheckGrown, SaleCall, Justified
  <2>2. call'[k] = [op |-> "set", product |-> call[k].product, status |-> "OPEN_FOR_SALE"]
    BY <1>0, <1>7 DEF CheckGrown, Continue
  <2> QED
    BY <2>1, <2>2 DEF Justified, RowOps, Growth
<1>8. ASSUME SetStatus(k) PROVE Justified(call[k])'
  BY <1>0, <1>8, IdleJustified DEF SetStatus, End
<1> QED
  BY <1>1, <1>2, <1>3, <1>4, <1>5, <1>6, <1>7, <1>8 DEF ProductStep
\* A step of one handler leaves the others where they are.
LEMMA OthersWait ==
    ASSUME TypeOK, NEW k \in Calls, SeasonStep(k) \/ LogStep(k) \/ ProductStep(k) \/ Abandon(k)
    PROVE  \A j \in Calls \ {k} : call'[j] = call[j]
<1> USE DEF Start, Continue, End, TypeOK
<1>1. CASE SeasonStep(k)
  BY <1>1 DEF SeasonStep, ReadSeasonForStep, CheckStep, InsertStep, CountLogs, MarkDone,
              ReadSeasonToEnd, EndSeason, ReadSeasonToUpdate, SaveSeason
<1>2. CASE LogStep(k)
  BY <1>2 DEF LogStep, ReadStepToLog, InsertLog, ReadStepToStart, StartStep, ReadInactive,
              ReadStepToCharge, DropLog
<1>3. CASE ProductStep(k)
  BY <1>3 DEF ProductStep, ReadToAssign, ReadToEdit, ReadToSell, ReadToDelete, CheckAssigned,
              SaveProduct, CheckGrown, SetStatus
<1>4. CASE Abandon(k)
  BY <1>4 DEF Abandon
<1> QED
  BY <1>1, <1>2, <1>3, <1>4

\* Every step leaves every handler justified.
LEMMA CallsStep ==
    ASSUME IInv, [Next]_vars
    PROVE  CallsJustified'
<1>0. TypeOK /\ CallsJustified
  BY DEF IInv
<1>1. Growth
  BY <1>0, StepsGrow
<1>2. ASSUME NEW k \in Calls, SeasonStep(k) \/ LogStep(k) \/ ProductStep(k) \/ Abandon(k)
      PROVE  CallsJustified'
  <2>1. Justified(call[k])'
    <3>1. CASE Abandon(k)
      BY <1>0, <3>1, IdleJustified DEF Abandon, End, TypeOK
    <3> QED
      BY <1>1, <1>2, <3>1, SeasonStepJustified, LogStepJustified, ProductStepJustified
  <2>2. \A j \in Calls \ {k} : call'[j] = call[j]
    BY <1>0, <1>2, OthersWait
  <2> QED
    BY <1>0, <1>1, <2>1, <2>2, StillJustified DEF CallsJustified
<1>3. CASE UNCHANGED vars
  BY <1>0, <1>1, <1>3, StillJustified DEF vars, CallsJustified
<1> QED
  BY <1>2, <1>3 DEF Next
-----------------------------------------------------------------------------
\* Which steps touch which part of the state.
LEMMA SeasonFrame ==
    ASSUME [Next]_vars
    PROVE  \/ UNCHANGED <<status, entry, ended, putBack>>
           \/ \E k \in Calls : \/ \E d \in Details : InsertStep(k, d)
                               \/ EndSeason(k)
                               \/ SaveSeason(k)
<1> USE DEF vars, stepVars, logVars, productVars
<1>1. ASSUME NEW k \in Calls, SeasonStep(k)
      PROVE  \/ UNCHANGED <<status, entry, ended, putBack>>
             \/ \E d \in Details : InsertStep(k, d)
             \/ EndSeason(k) \/ SaveSeason(k)
  BY <1>1 DEF SeasonStep, ReadSeasonForStep, CheckStep, CountLogs, MarkDone, ReadSeasonToEnd,
              ReadSeasonToUpdate
<1>2. ASSUME NEW k \in Calls, LogStep(k)
      PROVE  UNCHANGED <<status, entry, ended, putBack>>
  BY <1>2 DEF LogStep, ReadStepToLog, InsertLog, ReadStepToStart, StartStep, ReadInactive,
              ReadStepToCharge, DropLog
<1>3. ASSUME NEW k \in Calls, ProductStep(k) \/ Abandon(k)
      PROVE  UNCHANGED <<status, entry, ended, putBack>>
  BY <1>3 DEF ProductStep, ReadToAssign, ReadToEdit, ReadToSell, ReadToDelete, CheckAssigned,
              SaveProduct, CheckGrown, SetStatus, Abandon
<1> QED
  BY <1>1, <1>2, <1>3 DEF Next

LEMMA WorkFrame ==
    ASSUME [Next]_vars
    PROVE  /\ finished' = finished \/ \E k \in Calls : MarkDone(k)
           /\ logOf' = logOf \/ \E k \in Calls, l \in Logs : InsertLog(k, l)
<1> USE DEF vars, stepVars, logVars, productVars
<1>1. ASSUME NEW k \in Calls, SeasonStep(k)
      PROVE  logOf' = logOf /\ (finished' = finished \/ MarkDone(k))
  BY <1>1 DEF SeasonStep, ReadSeasonForStep, CheckStep, InsertStep, CountLogs, ReadSeasonToEnd,
              EndSeason, ReadSeasonToUpdate, SaveSeason, MarkDone
<1>2. ASSUME NEW k \in Calls, LogStep(k)
      PROVE  finished' = finished /\ (logOf' = logOf \/ \E l \in Logs : InsertLog(k, l))
  BY <1>2 DEF LogStep, ReadStepToLog, ReadStepToStart, StartStep, ReadInactive, ReadStepToCharge,
              DropLog, InsertLog
<1>3. ASSUME NEW k \in Calls, ProductStep(k) \/ Abandon(k)
      PROVE  finished' = finished /\ logOf' = logOf
  BY <1>3 DEF ProductStep, ReadToAssign, ReadToEdit, ReadToSell, ReadToDelete, CheckAssigned,
              SaveProduct, CheckGrown, SetStatus, Abandon
<1> QED
  BY <1>1, <1>2, <1>3 DEF Next

LEMMA ProductFrame ==
    ASSUME [Next]_vars
    PROVE  \/ UNCHANGED <<sale, grown, detached>>
           \/ \E k \in Calls : SaveProduct(k) \/ SetStatus(k)
BY DEF Next, vars, stepVars, logVars, productVars, SeasonStep, LogStep, ProductStep,
       ReadSeasonForStep, CheckStep, InsertStep, CountLogs, MarkDone, ReadSeasonToEnd, EndSeason,
       ReadSeasonToUpdate, SaveSeason, ReadStepToLog, InsertLog, ReadStepToStart, StartStep,
       ReadInactive, ReadStepToCharge, DropLog, ReadToAssign, ReadToEdit, ReadToSell,
       ReadToDelete, CheckAssigned, CheckGrown, Abandon

\* What an INSERT does to the rows of the seasons.
LEMMA InsertedRow ==
    ASSUME TypeOK, NEW k \in Calls, NEW d \in Details, InsertStep(k, d)
    PROVE  /\ call[k] \in AddCall
           /\ entry[d] = Null
           /\ entry' = [entry EXCEPT ![d] = [season |-> call[k].season, step |-> call[k].step]]
           /\ entry'[d] = [season |-> call[k].season, step |-> call[k].step]
           /\ entry'[d] # Null
           /\ \A s \in Seasons :
                 Rows(s)' = IF s = call[k].season THEN Rows(s) \cup {d} ELSE Rows(s)
<1>1. call[k] \in AddCall
  BY CallShapes DEF InsertStep
<1>2. /\ entry[d] = Null
      /\ entry' = [entry EXCEPT ![d] = [season |-> call[k].season, step |-> call[k].step]]
  BY DEF InsertStep
<1>3. entry'[d] = [season |-> call[k].season, step |-> call[k].step]
  BY <1>2 DEF TypeOK
<1>4. entry'[d] # Null
  BY <1>1, <1>3 DEF AddCall, Entry
<1>5. \A e \in Details \ {d} : entry'[e] = entry[e]
  BY <1>2 DEF TypeOK
<1>6. ASSUME NEW s \in Seasons
      PROVE  Rows(s)' = IF s = call[k].season THEN Rows(s) \cup {d} ELSE Rows(s)
  BY <1>2, <1>3, <1>4, <1>5 DEF Rows
<1> QED
  BY <1>1, <1>2, <1>3, <1>4, <1>6
-----------------------------------------------------------------------------
\* A season's status stays in step with its rows.
LEMMA StatusStep ==
    ASSUME IInv, [Next]_vars
    PROVE  StatusHasRows' /\ StartedStaysStarted'
<1>0. TypeOK /\ CallsJustified /\ StatusHasRows /\ StartedStaysStarted
  BY DEF IInv
<1>1. Growth
  BY <1>0, StepsGrow
<1>2. CASE UNCHANGED <<status, entry, ended, putBack>>
  BY <1>0, <1>2 DEF StatusHasRows, StartedStaysStarted, Rows
<1>3. ASSUME NEW k \in Calls, NEW d \in Details, InsertStep(k, d)
      PROVE  StatusHasRows' /\ StartedStaysStarted'
  <2>1. PICK z \in Seasons : z = call[k].season
    BY <1>0, <1>3, InsertedRow DEF AddCall
  <2>2. \A s \in Seasons : Rows(s)' = IF s = z THEN Rows(s) \cup {d} ELSE Rows(s)
    BY <1>0, <1>3, <2>1, InsertedRow
  <2>3. \A s \in Seasons \ {z} : status'[s] = status[s]
    BY <1>0, <1>3, <2>1 DEF InsertStep, StartSeason, TypeOK
  <2>4. \/ status'[z] \in {"IN_PROGRESS", "DONE"}
        \/ call[k].seen # "PENDING" /\ status'[z] = status[z]
    BY <1>0, <1>3, <2>1 DEF InsertStep, StartSeason, TypeOK
  <2>5. call[k].seen # "PENDING" => Rows(z) # {}
    BY <1>0, <1>3, <2>1 DEF InsertStep, CallsJustified, Justified
  <2>6. \A s \in Seasons : status'[s] = "DONE" => s \in ended'
    BY <1>3 DEF InsertStep
  <2>7. putBack' = putBack
    BY <1>3 DEF InsertStep
  <2>8. StatusHasRows'
    BY <1>0, <2>2, <2>3, <2>6 DEF StatusHasRows
  <2>9. StartedStaysStarted'
    BY <1>0, <2>2, <2>3, <2>4, <2>5, <2>7 DEF StartedStaysStarted
  <2> QED
    BY <2>8, <2>9
<1>4. ASSUME NEW k \in Calls, EndSeason(k) PROVE StatusHasRows' /\ StartedStaysStarted'
  <2>1. call[k].row \in Details /\ entry[call[k].row] # Null
    BY <1>0, <1>4, CallShapes DEF EndSeason, RowOps, RowCall, CallsJustified, Justified
  <2>2. PICK z \in Seasons : z = entry[call[k].row].season
    BY <1>0, <2>1 DEF TypeOK, Entry
  <2>3. call[k].row \in Rows(z)
    BY <2>1, <2>2 DEF Rows
  <2>4. /\ status' = [status EXCEPT ![z] = "DONE"]
        /\ z \in ended' /\ ended \subseteq ended'
        /\ entry' = entry /\ putBack' = putBack
    BY <1>4, <2>2 DEF EndSeason, stepVars
  <2>5. \A s \in Seasons : Rows(s)' = Rows(s)
    BY <2>4 DEF Rows
  <2> QED
    BY <1>0, <2>3, <2>4, <2>5 DEF StatusHasRows, StartedStaysStarted, TypeOK
<1>5. ASSUME NEW k \in Calls, SaveSeason(k) PROVE StatusHasRows' /\ StartedStaysStarted'
  <2>1. call[k] \in UpdateCall
    BY <1>0, <1>5, CallShapes DEF SaveSeason
  <2>2. PICK z \in Seasons : z = call[k].season
    BY <2>1 DEF UpdateCall
  <2>3. /\ call[k].seen # "PENDING" => Rows(z) # {}
        /\ call[k].seen = "DONE" => z \in ended
    BY <1>0, <1>5, <2>2 DEF SaveSeason, CallsJustified, Justified
  <2>4. /\ status' = [status EXCEPT ![z] = call[k].seen]
        /\ ended' = ended /\ entry' = entry
        /\ putBack' = IF status' = status THEN putBack ELSE putBack \cup {z}
    BY <1>5, <2>2 DEF SaveSeason, stepVars
  <2>5. \A s \in Seasons : Rows(s)' = Rows(s)
    BY <2>4 DEF Rows
  <2>6. StatusHasRows'
    BY <1>0, <2>3, <2>4, <2>5 DEF StatusHasRows, TypeOK
  <2>7. StartedStaysStarted'
    BY <1>0, <2>4, <2>5 DEF StartedStaysStarted, TypeOK
  <2> QED
    BY <2>6, <2>7
<1> QED
  BY <1>2, <1>3, <1>4, <1>5, SeasonFrame

\* A request that has read a season as PENDING had done so before the step, or
\* does so by it.
LEMMA StartingFrame ==
    ASSUME TypeOK, [Next]_vars, NEW k \in Calls, NEW s \in Seasons, Starting(k, s)'
    PROVE  \/ Starting(k, s) /\ call'[k] = call[k]
           \/ Starting(k, s) /\ CheckStep(k)
           \/ \E t \in Steps : ReadSeasonForStep(k, s, t) /\ status[s] = "PENDING"
<1> USE DEF Starting
<1>1. ASSUME NEW j \in Calls, SeasonStep(j) \/ LogStep(j) \/ ProductStep(j) \/ Abandon(j), j # k
      PROVE  Starting(k, s) /\ call'[k] = call[k]
  BY <1>1, OthersWait
<1>2. CASE SeasonStep(k)
  <2>1. ASSUME NEW z \in Seasons, NEW t \in Steps, ReadSeasonForStep(k, z, t)
        PROVE  z = s /\ status[s] = "PENDING"
    <3>1. call'[k] = [op |-> "add", season |-> z, step |-> t, seen |-> status[z]]
      BY <2>1 DEF ReadSeasonForStep, Start, TypeOK
    <3> QED
      BY <3>1
  <2>2. ASSUME CheckStep(k) PROVE Starting(k, s)
    <3>1. call[k] \in AddCall /\ call'[k] = [call[k] EXCEPT !.op = "checked"]
      BY <2>2, CallShapes DEF CheckStep, Continue, TypeOK
    <3> QED
      BY <2>2, <3>1 DEF CheckStep, AddCall
  <2>3. ASSUME NEW d \in Details, InsertStep(k, d) PROVE FALSE
    BY <2>3 DEF InsertStep, End, Idle, TypeOK
  <2>4. ASSUME NEW d \in Details, CountLogs(k, d) PROVE FALSE
    BY <2>4 DEF CountLogs, Start, TypeOK
  <2>5. ASSUME MarkDone(k) PROVE FALSE
    BY <2>5 DEF MarkDone, Continue, End, Idle, TypeOK
  <2>6. ASSUME ReadSeasonToEnd(k) PROVE FALSE
    <3>1. call[k] \in RowCall
      BY <2>6, CallShapes DEF ReadSeasonToEnd, RowOps
    <3>2. call'[k].op \in {"end", "none"}
      BY <2>6, <3>1 DEF ReadSeasonToEnd, Continue, End, Idle, TypeOK, RowCall
    <3> QED
      BY <3>2
  <2>7. ASSUME EndSeason(k) \/ SaveSeason(k) PROVE FALSE
    BY <2>7 DEF EndSeason, SaveSeason, End, Idle, TypeOK
  <2>8. ASSUME NEW z \in Seasons, ReadSeasonToUpdate(k, z) PROVE FALSE
    BY <2>8 DEF ReadSeasonToUpdate, Start, TypeOK
  <2> QED
    BY <1>2, <2>1, <2>2, <2>3, <2>4, <2>5, <2>6, <2>7, <2>8 DEF SeasonStep
<1>3. CASE LogStep(k)
  <2>1. ASSUME NEW l \in Logs, InsertLog(k, l) PROVE FALSE
    <3>1. call[k] \in RowCall /\ call'[k] = [call[k] EXCEPT !.op = "logged"]
      BY <2>1, CallShapes DEF InsertLog, RowOps, Continue, TypeOK
    <3> QED
      BY <3>1 DEF RowCall
  <2>2. ASSUME ReadStepToStart(k) PROVE FALSE
    <3>1. call[k] \in RowCall
      BY <2>2, CallShapes DEF ReadStepToStart, RowOps
    <3>2. call'[k].op \in {"start", "none"}
      BY <2>2, <3>1 DEF ReadStepToStart, Continue, End, Idle, TypeOK, RowCall
    <3> QED
      BY <3>2
  <2>3. ASSUME NEW d \in Details, ReadStepToLog(k, d) PROVE FALSE
    BY <2>3 DEF ReadStepToLog, Start, TypeOK
  <2>4. ASSUME NEW l \in Logs, NEW d \in Details, ReadInactive(k, l, d) PROVE FALSE
    BY <2>4 DEF ReadInactive, Start, TypeOK
  <2>5. ASSUME StartStep(k) \/ DropLog(k) PROVE FALSE
    BY <2>5 DEF StartStep, DropLog, End, Idle, TypeOK
  <2>6. ASSUME ReadStepToCharge(k) PROVE FALSE
    BY <2>6 DEF ReadStepToCharge, Continue, TypeOK
  <2> QED
    BY <1>3, <2>1, <2>2, <2>3, <2>4, <2>5, <2>6 DEF LogStep
<1>4. CASE ProductStep(k)
  <2>1. ASSUME NEW p \in Products,
               ReadToAssign(k, p) \/ ReadToEdit(k, p) \/ ReadToSell(k, p) \/ ReadToDelete(k, p)
        PROVE  FALSE
    BY <2>1 DEF ReadToAssign, ReadToEdit, ReadToSell, ReadToDelete, Start, TypeOK
  <2>2. ASSUME NEW z \in Seasons, CheckAssigned(k, z) PROVE FALSE
    BY <2>2 DEF CheckAssigned, Continue, TypeOK
  <2>3. ASSUME SaveProduct(k) \/ CheckGrown(k) \/ SetStatus(k) PROVE FALSE
    BY <2>3 DEF SaveProduct, CheckGrown, SetStatus, Continue, End, Idle, TypeOK
  <2> QED
    BY <1>4, <2>1, <2>2, <2>3 DEF ProductStep
<1>5. CASE Abandon(k)
  BY <1>5 DEF Abandon, End, Idle, TypeOK
<1>6. CASE UNCHANGED vars
  BY <1>6 DEF vars
<1> QED
  BY <1>1, <1>2, <1>3, <1>4, <1>5, <1>6 DEF Next

\* A request whose season another one has started is known to have overlapped
\* with it.
LEMMA ReadsStep ==
    ASSUME IInv, [Next]_vars
    PROVE  PendingReads'
<1>0. TypeOK /\ PendingReads
  BY DEF IInv
<1>1. Growth
  BY <1>0, StepsGrow
<1> SUFFICES ASSUME NEW s \in Seasons, NEW k \in Calls, Starting(k, s)'
             PROVE  /\ status'[s] = "PENDING" \/ s \in overlapped' \cup putBack'
                    /\ \A j \in Calls \ {k} : Starting(j, s)' => s \in overlapped'
  BY DEF PendingReads
<1>2. ASSUME NEW j \in Calls, NEW t \in Steps, ReadSeasonForStep(j, s, t), status[s] = "PENDING"
      PROVE  /\ status'[s] = "PENDING"
             /\ \A i \in Calls : Starting(i, s) => s \in overlapped'
             /\ \A i \in Calls \ {j} : Starting(i, s)' => Starting(i, s)
  <2>1. \A i \in Calls \ {j} : call'[i] = call[i]
    BY <1>0, <1>2 DEF ReadSeasonForStep, Start, TypeOK
  <2> QED
    BY <1>2, <2>1 DEF ReadSeasonForStep, Starting
<1>3. \A j \in Calls : Starting(j, s)' =>
         \/ Starting(j, s)
         \/ \E t \in Steps : ReadSeasonForStep(j, s, t) /\ status[s] = "PENDING"
  BY <1>0, StartingFrame
<1>4. status[s] = "PENDING" /\ Starting(k, s) => status'[s] = "PENDING" \/ s \in overlapped' \cup putBack'
  <2> SUFFICES ASSUME status[s] = "PENDING", Starting(k, s)
               PROVE  status'[s] = "PENDING" \/ s \in overlapped' \cup putBack'
    OBVIOUS
  <2>1. ASSUME NEW j \in Calls, NEW d \in Details, InsertStep(j, d)
        PROVE  status'[s] = "PENDING" \/ s \in overlapped'
    <3>1. CASE status'[s] = status[s]
      BY <3>1
    <3>2. CASE status'[s] # status[s]
      <4>1. Starting(j, s)
        BY <1>0, <2>1, <3>2 DEF InsertStep, StartSeason, Starting, TypeOK
      <4>2. j # k
        BY <1>0, <2>1 DEF InsertStep, End, Idle, Starting, TypeOK
      <4> QED
        BY <1>0, <1>1, <4>1, <4>2 DEF PendingReads, Growth
    <3> QED
      BY <3>1, <3>2
  <2>2. ASSUME NEW j \in Calls, EndSeason(j) PROVE status'[s] = "PENDING" \/ s \in putBack'
    <3>1. call[j].row \in Details /\ entry[call[j].row] # Null
      BY <1>0, <2>2, CallShapes DEF EndSeason, RowOps, RowCall, IInv, CallsJustified, Justified
    <3>2. CASE entry[call[j].row].season = s
      <4>1. Rows(s) # {}
        BY <3>1, <3>2 DEF Rows
      <4>2. s \in putBack
        BY <4>1 DEF IInv, StartedStaysStarted
      <4> QED
        BY <1>1, <4>2 DEF Growth
    <3>3. CASE entry[call[j].row].season # s
      BY <1>0, <2>2, <3>3 DEF EndSeason, TypeOK
    <3> QED
      BY <3>2, <3>3
  <2>3. ASSUME NEW j \in Calls, SaveSeason(j) PROVE status'[s] = "PENDING" \/ s \in putBack'
    <3>1. /\ status' = [status EXCEPT ![call[j].season] = call[j].seen]
          /\ status' # status => putBack' = putBack \cup {call[j].season}
      BY <2>3 DEF SaveSeason
    <3>2. status'[s] # status[s] => s = call[j].season
      BY <1>0, <3>1 DEF TypeOK
    <3> QED
      BY <3>1, <3>2
  <2> QED
    BY <2>1, <2>2, <2>3, SeasonFrame
<1> QED
  BY <1>0, <1>1, <1>2, <1>3, <1>4 DEF PendingReads, Growth

\* A season that has been DONE has been ended by its harvest, or by its second
\* step after requests that overlapped or a stale save.
LEMMA EndedStep ==
    ASSUME IInv, [Next]_vars
    PROVE  EndedByHarvestOrOverlap'
<1>0. TypeOK /\ CallsJustified /\ StatusHasRows /\ PendingReads /\ EndedByHarvestOrOverlap
  BY DEF IInv
<1>1. Growth
  BY <1>0, StepsGrow
<1> DEFINE Cause(s) == \/ \E d \in Rows(s) \cap finished : entry[d].step \in PostHarvest
                       \/ /\ s \in overlapped \cup putBack
                          /\ \E d, e \in Rows(s) : d # e
<1>2. ASSUME NEW s \in Seasons, s \in ended PROVE Cause(s)'
  <2>1. Cause(s)
    BY <1>0, <1>2 DEF EndedByHarvestOrOverlap
  <2>2. \A d \in Rows(s) : d \in Rows(s)' /\ entry'[d] = entry[d]
    BY <1>0, <1>1, RowsGrow
  <2> QED
    BY <1>1, <2>1, <2>2 DEF Growth
<1>3. ended' = ended => EndedByHarvestOrOverlap'
  BY <1>0, <1>2 DEF EndedByHarvestOrOverlap, TypeOK
<1>4. ASSUME NEW k \in Calls, NEW d \in Details, InsertStep(k, d) PROVE EndedByHarvestOrOverlap'
  <2>1. ASSUME NEW s \in Seasons, status'[s] = "DONE", s \notin ended PROVE Cause(s)'
    <3>1. status[s] # "DONE"
      BY <1>0, <2>1 DEF StatusHasRows
    <3>2. s = call[k].season /\ status[s] = "IN_PROGRESS"
      BY <1>0, <1>4, <2>1, <3>1 DEF InsertStep, StartSeason, TypeOK
    <3>3. PICK e : e \in Rows(s)
      BY <1>0, <3>2 DEF StatusHasRows
    <3>4. d \notin Rows(s)
      BY <1>4 DEF InsertStep, Rows
    <3>5. Rows(s)' = Rows(s) \cup {d}
      BY <1>0, <1>4, <3>2, InsertedRow
    <3>6. Starting(k, s)
      BY <1>0, <1>4, <2>1, <3>1 DEF InsertStep, StartSeason, Starting, TypeOK
    <3>7. s \in overlapped' \cup putBack'
      BY <1>0, <1>1, <3>2, <3>6 DEF PendingReads, Growth
    <3> QED
      BY <3>3, <3>4, <3>5, <3>7
  <2>2. ended' = ended \cup {s \in Seasons : status'[s] = "DONE"}
    BY <1>4 DEF InsertStep
  <2> QED
    BY <1>0, <1>2, <2>1, <2>2 DEF EndedByHarvestOrOverlap, TypeOK
<1>5. ASSUME NEW k \in Calls, EndSeason(k) PROVE EndedByHarvestOrOverlap'
  <2>1. /\ call[k].row \in Details /\ entry[call[k].row] # Null
        /\ call[k].row \in finished /\ entry[call[k].row].step \in PostHarvest
    BY <1>0, <1>5, CallShapes DEF EndSeason, RowOps, RowCall, CallsJustified, Justified
  <2>2. PICK z \in Seasons : z = entry[call[k].row].season
    BY <1>0, <2>1 DEF TypeOK, Entry
  <2>3. entry' = entry /\ finished' = finished /\ ended' = ended \cup {z}
    BY <1>5, <2>2 DEF EndSeason, stepVars
  <2>4. call[k].row \in Rows(z)' \cap finished'
    BY <2>1, <2>2, <2>3 DEF Rows
  <2>5. Cause(z)'
    BY <2>1, <2>3, <2>4
  <2> QED
    BY <1>0, <1>2, <2>3, <2>5 DEF EndedByHarvestOrOverlap, TypeOK
<1>6. ASSUME NEW k \in Calls, SaveSeason(k) PROVE ended' = ended
  BY <1>6 DEF SaveSeason
<1> QED
  BY <1>3, <1>4, <1>5, <1>6, SeasonFrame

\* A new row is that of a step which was prepared when it was checked.
LEMMA PhaseStep ==
    ASSUME IInv, [Next]_vars
    PROVE  NoPhaseSkipped'
<1>0. TypeOK /\ CallsJustified /\ NoPhaseSkipped
  BY DEF IInv
<1>1. Growth
  BY <1>0, StepsGrow
<1>2. ASSUME NEW d \in Details, entry[d] # Null
      PROVE  Prepared(entry[d].season, entry[d].step)
  BY <1>0, <1>2 DEF NoPhaseSkipped, Prepared, MayFollow
<1>3. ASSUME NEW s \in Seasons, NEW t \in Steps, Prepared(s, t), NEW d \in Details,
             entry'[d] = [season |-> s, step |-> t]
      PROVE  LET u == entry'[d].step
             IN  \/ IsFirst(u)
                 \/ u \in Repeated
                 \/ \E e \in Rows(s)' : /\ OrderOf(e)' < Order[u]
                                        /\ PhaseOf(Order[u]) <= PhaseOf(OrderOf(e)') + 1
  <2>1. Prepared(s, t)'
    BY <1>0, <1>1, <1>3, RowsGrow
  <2>2. entry'[d].step = t
    BY <1>3
  <2> QED
    BY <2>1, <2>2 DEF Prepared, MayFollow, PhaseOf, IsFirst
<1>4. ASSUME NEW d \in Details, entry'[d] # Null
      PROVE  LET u == entry'[d].step
             IN  \/ IsFirst(u)
                 \/ u \in Repeated
                 \/ \E e \in Rows(entry[d].season)' :
                       /\ OrderOf(e)' < Order[u]
                       /\ PhaseOf(Order[u]) <= PhaseOf(OrderOf(e)') + 1
  <2>1. CASE entry[d] # Null
    <3>1. PICK s \in Seasons, t \in Steps : entry[d] = [season |-> s, step |-> t]
      BY <1>0, <2>1 DEF TypeOK, Entry
    <3>2. Prepared(s, t) /\ entry'[d] = [season |-> s, step |-> t]
      BY <1>1, <1>2, <2>1, <3>1 DEF Growth
    <3> QED
      BY <1>3, <3>2
  <2>2. CASE entry[d] = Null
    <3>1. PICK k \in Calls : InsertStep(k, d)
      <4>1. ASSUME NEW k \in Calls, NEW e \in Details, InsertStep(k, e) PROVE e = d
        <5>1. entry' = [entry EXCEPT ![e] = [season |-> call[k].season, step |-> call[k].step]]
          BY <4>1 DEF InsertStep
        <5>2. e # d => entry'[d] = entry[d]
          BY <1>0, <5>1 DEF TypeOK
        <5> QED
          BY <1>4, <2>2, <5>2
      <4>2. ASSUME NEW k \in Calls, EndSeason(k) \/ SaveSeason(k) PROVE entry' = entry
        BY <4>2 DEF EndSeason, SaveSeason, stepVars
      <4> QED
        BY <1>4, <2>2, <4>1, <4>2, SeasonFrame
    <3>2. PICK s \in Seasons, t \in Steps : s = call[k].season /\ t = call[k].step
      BY <1>0, <3>1, InsertedRow DEF AddCall
    <3>3. Prepared(s, t)
      BY <1>0, <3>1, <3>2 DEF InsertStep, CallsJustified, Justified
    <3>4. entry'[d] = [season |-> s, step |-> t]
      BY <1>0, <3>1, <3>2, InsertedRow
    <3> QED
      BY <1>3, <3>3, <3>4
  <2> QED
    BY <2>1, <2>2
<1> QED
  BY <1>4 DEF NoPhaseSkipped, IsFirst, PhaseOf

\* Finished steps have logs, and logs have steps.
LEMMA WorkStep ==
    ASSUME IInv, [Next]_vars
    PROVE  LogsHaveRows' /\ FinishedWorkIsLogged'
<1>0. TypeOK /\ CallsJustified /\ LogsHaveRows /\ FinishedWorkIsLogged
  BY DEF IInv
<1>1. Growth
  BY <1>0, StepsGrow
<1>2. \A d \in finished' : d \in finished \/ (entry[d] # Null /\ Logged(d) /\ d \in Details)
  <2>1. ASSUME NEW k \in Calls, MarkDone(k)
        PROVE  /\ finished' = finished \cup {call[k].row} /\ call[k].row \in Details
               /\ entry[call[k].row] # Null /\ Logged(call[k].row)
    BY <1>0, <2>1, CallShapes DEF MarkDone, RowOps, RowCall, CallsJustified, Justified
  <2> QED
    BY <2>1, WorkFrame
<1>3. \A d \in finished' : entry[d] # Null /\ Logged(d) /\ d \in Details
  BY <1>0, <1>2 DEF LogsHaveRows, FinishedWorkIsLogged, Logged, TypeOK
<1>4. \A l \in Logs : logOf'[l] = logOf[l] \/ (logOf'[l] \in Details /\ entry[logOf'[l]] # Null)
  <2>1. ASSUME NEW k \in Calls, NEW l \in Logs, InsertLog(k, l)
        PROVE  /\ logOf' = [logOf EXCEPT ![l] = call[k].row]
               /\ call[k].row \in Details /\ entry[call[k].row] # Null
    BY <1>0, <2>1, CallShapes DEF InsertLog, RowOps, RowCall, CallsJustified, Justified
  <2> QED
    BY <1>0, <2>1, WorkFrame DEF TypeOK
<1>5. LogsHaveRows'
  BY <1>0, <1>1, <1>3, <1>4 DEF LogsHaveRows, Growth, TypeOK
<1>6. FinishedWorkIsLogged'
  BY <1>0, <1>1, <1>3 DEF FinishedWorkIsLogged, Logged, Growth, TypeOK
<1> QED
  BY <1>5, <1>6

\* Products are sold with seasons that have been DONE.
LEMMA SaleStep ==
    ASSUME IInv, [Next]_vars
    PROVE  SeasonsGivenWereDone' /\ OnSaleIsGrown'
<1>0. TypeOK /\ CallsJustified /\ SeasonsGivenWereDone /\ OnSaleIsGrown
  BY DEF IInv
<1>1. Growth
  BY <1>0, StepsGrow
<1>2. CASE UNCHANGED <<sale, grown, detached>>
  BY <1>0, <1>1, <1>2 DEF SeasonsGivenWereDone, OnSaleIsGrown, Growth
<1>3. ASSUME NEW k \in Calls, SaveProduct(k) PROVE SeasonsGivenWereDone' /\ OnSaleIsGrown'
  <2>1. /\ call[k] \in SaveCall
        /\ call[k].season \in ended \cup {Null}
        /\ call[k].status = "OPEN_FOR_SALE" => call[k].season # Null
    BY <1>0, <1>3, CallShapes DEF SaveProduct, CallsJustified, Justified
  <2>2. PICK p \in Products : p = call[k].product
    BY <2>1 DEF SaveCall
  <2>3. /\ sale' = [sale EXCEPT ![p] = call[k].status]
        /\ grown' = [grown EXCEPT ![p] = call[k].season]
    BY <1>3, <2>2 DEF SaveProduct
  <2>4. SeasonsGivenWereDone'
    BY <1>0, <1>1, <2>1, <2>3 DEF SeasonsGivenWereDone, Growth, TypeOK
  <2>5. OnSaleIsGrown'
    BY <1>0, <1>1, <2>1, <2>3 DEF OnSaleIsGrown, Growth, TypeOK
  <2> QED
    BY <2>4, <2>5
<1>4. ASSUME NEW k \in Calls, SetStatus(k) PROVE SeasonsGivenWereDone' /\ OnSaleIsGrown'
  <2>1. /\ call[k] \in StatusCall
        /\ call[k].status = "OPEN_FOR_SALE" => HadSeason(call[k].product)
    BY <1>0, <1>4, CallShapes DEF SetStatus, CallsJustified, Justified
  <2>2. PICK p \in Products : p = call[k].product
    BY <2>1 DEF StatusCall
  <2>3. sale' = [sale EXCEPT ![p] = call[k].status] /\ grown' = grown
    BY <1>4, <2>2 DEF SetStatus
  <2>4. SeasonsGivenWereDone'
    BY <1>0, <1>1, <2>3 DEF SeasonsGivenWereDone, Growth
  <2>5. call[k].status = "OPEN_FOR_SALE" => grown[p] \in ended \/ p \in detached
    BY <1>0, <2>1, <2>2 DEF HadSeason, SeasonsGivenWereDone
  <2>6. OnSaleIsGrown'
    BY <1>0, <1>1, <2>3, <2>5 DEF OnSaleIsGrown, Growth, TypeOK
  <2> QED
    BY <2>4, <2>6
<1> QED
  BY <1>2, <1>3, <1>4, ProductFrame
-----------------------------------------------------------------------------
\* IInv holds in every state of the program, whatever handlers overlap.
THEOREM Inductive == Spec => []IInv
<1>1. Init => IInv
  <2> SUFFICES ASSUME Init PROVE IInv
    OBVIOUS
  <2>1. TypeOK
    BY DEF Init, TypeOK, SeasonStatus, StepStatus, ProductStatus, Idle, CallRecords, NoCall
  <2>2. \A s \in Seasons : Rows(s) = {}
    BY DEF Init, Rows
  <2>3. CallsJustified
    BY DEF Init, CallsJustified, Justified, Idle, RowOps
  <2>4. StatusHasRows /\ PendingReads /\ LogsHaveRows /\ SeasonsGivenWereDone
    BY DEF Init, StatusHasRows, PendingReads, Starting, Idle, LogsHaveRows, SeasonsGivenWereDone
  <2>5. NoPhaseSkipped /\ EndedByHarvestOrOverlap /\ FinishedWorkIsLogged /\ OnSaleIsGrown
    BY DEF Init, NoPhaseSkipped, EndedByHarvestOrOverlap, FinishedWorkIsLogged, OnSaleIsGrown
  <2>6. StartedStaysStarted
    BY <2>2 DEF StartedStaysStarted
  <2> QED
    BY <2>1, <2>3, <2>4, <2>5, <2>6 DEF IInv
<1>2. IInv /\ [Next]_vars => IInv'
  BY TypeStep, CallsStep, StatusStep, ReadsStep, EndedStep, PhaseStep, WorkStep, SaleStep DEF IInv
<1> QED
  BY <1>1, <1>2, PTL DEF Spec

\* The tables and what the handlers have read have the types TypeOK gives them.
THEOREM TypeCorrect == Spec => []TypeOK
<1>1. IInv => TypeOK
  BY DEF IInv
<1> QED
  BY <1>1, Inductive, PTL

\* However addSeasonStep's requests overlap, no phase of a crop is skipped by a
\* step that is done once.
THEOREM PhasesInOrder == Spec => []NoPhaseSkipped
<1>1. IInv => NoPhaseSkipped
  BY DEF IInv
<1> QED
  BY <1>1, Inductive, PTL

\* A season is ended by a finished post-harvest step of it; or by its second
\* step, after two requests to add one had both read it as PENDING or an
\* updateSeason had saved a stale status.  One request after the other, with no
\* stale save, ends no season before its harvest is done.
THEOREM SeasonsEnd == Spec => []EndedByHarvestOrOverlap
<1>1. IInv => EndedByHarvestOrOverlap
  BY DEF IInv
<1> QED
  BY <1>1, Inductive, PTL

\* Only updateSeason's save of a stale row makes a season with steps PENDING.
THEOREM StartsLast == Spec => []StartedStaysStarted
<1>1. IInv => StartedStaysStarted
  BY DEF IInv
<1> QED
  BY <1>1, Inductive, PTL

\* finishStep finishes no step of which nothing was logged.
THEOREM WorkLogged == Spec => []FinishedWorkIsLogged
<1>1. IInv => FinishedWorkIsLogged
  BY DEF IInv
<1> QED
  BY <1>1, Inductive, PTL

\* What is on sale was grown in a season that has been DONE, or has lost its
\* season to updateProduct's save of a stale row.
THEOREM SoldWhenGrown == Spec => []OnSaleIsGrown
<1>1. IInv => OnSaleIsGrown
  BY DEF IInv
<1> QED
  BY <1>1, Inductive, PTL
=============================================================================
