--------------------------- MODULE SeasonProgress ---------------------------
(***************************************************************************)
(* How a farm works through a season: its steps, the logs of each step,    *)
(* and the products sold from it (SeasonService, StepService, LogService   *)
(* and the status half of ProductService).                                 *)
(*                                                                         *)
(* A handler that awaits between what it reads and what it writes is a     *)
(* call k \in Calls, whose record holds what it has read.  A transaction   *)
(* that locks the rows it reads is one action: the trigger on              *)
(* season_detail updates the season row, so that one which adds a step has *)
(* the season to itself.                                                   *)
(***************************************************************************)
EXTENDS Integers, FiniteSets

CONSTANTS
    Seasons,        \* rows of the season table, of plots with one crop
    Steps,          \* rows of the step table: the steps of that crop
    Order,          \* Order[t]: step.order, ten for each phase
    Repeated,       \* steps that may be repeated
    PostHarvest,    \* steps of type POST_HARVEST
    Details,        \* rows of season_detail: a step done in a season
    Logs,           \* rows of the log table
    Products,       \* rows of the product table
    Calls,          \* handlers that can be in flight at once
    Null            \* no row, no season

ASSUME OrderAssumption == Order \in [Steps -> Nat \ {0}]
ASSUME NullAssumption == Null \notin Seasons /\ Null \notin Details

\* CANCELED is never stored: no caller asks updateSeasonStatus for it.
SeasonStatus == {"PENDING", "IN_PROGRESS", "DONE"}
StepStatus == {"PENDING", "IN_PROGRESS", "DONE"}
ProductStatus == {"NOT_YET_OPEN", "OPEN_FOR_SALE", "CLOSED", "DELETED"}

\* What each handler has read, and has not acted on yet.
NoCall == [op : {"none"}]
AddCall == [op : {"add", "checked"}, season : Seasons, step : Steps, seen : SeasonStatus]
RowCall == [op : {"finish", "finished", "end", "log", "logged", "start"}, row : Details]
DropCall == [op : {"drop"}, row : Details, log : Logs]
ChargeCall == [op : {"charge"}, row : Details, log : Logs, seen : StepStatus, count : Nat]
UpdateCall == [op : {"update"}, season : Seasons, seen : SeasonStatus]
CopyCall == [op : {"copy"}, product : Products, status : ProductStatus]
SaveCall == [op : {"save"}, product : Products, status : ProductStatus,
             season : Seasons \cup {Null}]
SaleCall == [op : {"sale"}, product : Products, season : Seasons]
StatusCall == [op : {"set"}, product : Products, status : ProductStatus]

CallRecords == NoCall \cup AddCall \cup RowCall \cup DropCall \cup ChargeCall
                 \cup UpdateCall \cup CopyCall \cup SaveCall \cup SaleCall \cup StatusCall

Entry == [season : Seasons, step : Steps]
ASSUME EntryAssumption == Null \notin Entry

VARIABLES
    status,         \* status[s] of the season row
    entry,          \* entry[d]: season_id and step_id of row d, Null before its INSERT
    stepStatus,     \* stepStatus[d]: its step_status
    inactive,       \* inactive[d]: its inactive_logs
    logOf,          \* logOf[l]: season_detail_id of log l, Null before its INSERT
    active,         \* active[l]: its is_active
    sale,           \* sale[p]: status of the product row
    grown,          \* grown[p]: its season_id
    call,           \* call[k]: handler in flight
    ended,          \* (history) seasons that have been DONE
    finished,       \* (history) rows that have been DONE
    putBack,        \* (history) seasons whose status a stale save changed
    overlapped,     \* (history) seasons two requests to add a step had read as PENDING
    detached        \* (history) products whose season_id a stale save changed

stepVars == <<entry, stepStatus, inactive>>
logVars == <<logOf, active>>
productVars == <<sale, grown, detached>>
vars == <<status, stepVars, logVars, productVars, call, ended, finished, putBack, overlapped>>

Idle == [op |-> "none"]
Start(k, record) == call[k] = Idle /\ call' = [call EXCEPT ![k] = record]
Continue(k, record) == call' = [call EXCEPT ![k] = record]
End(k) == call' = [call EXCEPT ![k] = Idle]

Rows(s) == {d \in Details : entry[d] # Null /\ entry[d].season = s}
OrderOf(d) == Order[entry[d].step]

\* Math.floor(order / 10): preparing, planting, care, harvest, post-harvest.
PhaseOf(order) == order \div 10

IsFirst(t) == \A u \in Steps : Order[t] <= Order[u]
-----------------------------------------------------------------------------
Init ==
    /\ status = [s \in Seasons |-> "PENDING"]
    /\ entry = [d \in Details |-> Null]
    /\ stepStatus = [d \in Details |-> "PENDING"]
    /\ inactive = [d \in Details |-> 0]
    /\ logOf = [l \in Logs |-> Null]
    /\ active = [l \in Logs |-> TRUE]
    /\ sale = [p \in Products |-> "NOT_YET_OPEN"]
    /\ grown = [p \in Products |-> Null]
    /\ call = [k \in Calls |-> Idle]
    /\ ended = {}
    /\ finished = {}
    /\ putBack = {}
    /\ overlapped = {}
    /\ detached = {}
-----------------------------------------------------------------------------
(***************************************************************************)
(* SeasonService.addSeasonStep                                             *)
(***************************************************************************)
\* A request that has read season s as PENDING, and adds a step to it.
Starting(j, s) ==
    call[j].op \in {"add", "checked"} /\ call[j].season = s /\ call[j].seen = "PENDING"

ReadSeasonForStep(k, s, t) ==
    /\ status[s] # "DONE"
    /\ Start(k, [op |-> "add", season |-> s, step |-> t, seen |-> status[s]])
    /\ overlapped' = IF status[s] = "PENDING" /\ \E j \in Calls : Starting(j, s)
                      THEN overlapped \cup {s} ELSE overlapped
    /\ UNCHANGED <<status, stepVars, logVars, productVars, ended, finished, putBack>>

\* MUTANT: a step is compared with the last one's order, not with its phase.
AnyLaterStep(t, prev) == prev < Order[t]

\* Step t may follow one of order prev: a later one, of the next phase at most.
MayFollow(t, prev) ==
    /\ prev < Order[t]
    /\ PhaseOf(Order[t]) <= PhaseOf(prev) + 1

\* The highest order among the rows of season s that have step status g.
LastOrder(s, g, prev) ==
    /\ \E d \in Rows(s) : stepStatus[d] = g /\ OrderOf(d) = prev
    /\ \A d \in Rows(s) : stepStatus[d] = g => OrderOf(d) <= prev

\* validateAddSeasonStep: its query groups the rows by step_status and takes
\* one group, whichever it is, as the previous step.
CheckStep(k) ==
    /\ call[k].op = "add"
    /\ LET s == call[k].season
           t == call[k].step
       IN  \/ /\ Rows(s) = {}
              /\ IsFirst(t)
           \/ /\ \E d \in Rows(s) :
                    /\ stepStatus[d] = "DONE"
                    /\ LastOrder(s, "DONE", OrderOf(d))
                    /\ t \in Repeated \/ MayFollow(t, OrderOf(d))
    /\ Continue(k, [call[k] EXCEPT !.op = "checked"])
    /\ UNCHANGED <<status, stepVars, logVars, productVars, ended, finished, putBack, overlapped>>

\* MUTANT: the row is written, and the status left as it is.
StaysAsItWas(s) == status' = status

\* updateSeasonStatus(IN_PROGRESS): a season that is IN_PROGRESS already falls
\* through to the next case, and is DONE.
StartSeason(s) ==
    \/ /\ status[s] = "PENDING"
       /\ status' = [status EXCEPT ![s] = "IN_PROGRESS"]
    \/ /\ status[s] = "IN_PROGRESS"
       /\ status' = [status EXCEPT ![s] = "DONE"]

\* The transaction: the row is inserted and, if the season was PENDING when it
\* was read, its status moved on; when that throws, nothing is inserted.
InsertStep(k, d) ==
    /\ call[k].op = "checked"
    /\ entry[d] = Null
    /\ entry' = [entry EXCEPT ![d] = [season |-> call[k].season, step |-> call[k].step]]
    /\ \/ call[k].seen = "PENDING" /\ StartSeason(call[k].season)
       \/ call[k].seen # "PENDING" /\ UNCHANGED status
    /\ ended' = ended \cup {s \in Seasons : status'[s] = "DONE"}
    /\ End(k)
    /\ UNCHANGED <<stepStatus, inactive, logVars, productVars, finished, putBack, overlapped>>
-----------------------------------------------------------------------------
(***************************************************************************)
(* SeasonService.finishStep                                                *)
(***************************************************************************)
\* MUTANT: the logs of the step are not counted.
AnyRow(d) == entry[d] # Null

HasActiveLog(d) == \E l \in Logs : logOf[l] = d /\ active[l]

\* MUTANT: the type of the step is not looked at.
AnyStep(t) == TRUE

IsLastStep(t) == t \in PostHarvest

CountLogs(k, d) ==
    /\ HasActiveLog(d)
    /\ Start(k, [op |-> "finish", row |-> d])
    /\ UNCHANGED <<status, stepVars, logVars, productVars, ended, finished, putBack, overlapped>>

\* The step is marked DONE whatever it is by now; its type decides what follows.
MarkDone(k) ==
    LET d == call[k].row
    IN  /\ call[k].op = "finish"
        /\ stepStatus' = [stepStatus EXCEPT ![d] = "DONE"]
        /\ finished' = finished \cup {d}
        /\ IF IsLastStep(entry[d].step)
             THEN Continue(k, [op |-> "finished", row |-> d])
             ELSE End(k)
        /\ UNCHANGED <<status, entry, inactive, logVars, productVars, ended, putBack, overlapped>>

\* updateSeasonStatus(DONE) reads the status; it throws unless IN_PROGRESS.
ReadSeasonToEnd(k) ==
    /\ call[k].op = "finished"
    /\ IF status[entry[call[k].row].season] = "IN_PROGRESS"
         THEN Continue(k, [call[k] EXCEPT !.op = "end"])
         ELSE End(k)
    /\ UNCHANGED <<status, stepVars, logVars, productVars, ended, finished, putBack, overlapped>>

EndSeason(k) ==
    LET s == entry[call[k].row].season
    IN  /\ call[k].op = "end"
        /\ status' = [status EXCEPT ![s] = "DONE"]
        /\ ended' = ended \cup {s}
        /\ End(k)
        /\ UNCHANGED <<stepVars, logVars, productVars, finished, putBack, overlapped>>
-----------------------------------------------------------------------------
(***************************************************************************)
(* SeasonService.addLog                                                    *)
(***************************************************************************)
ReadStepToLog(k, d) ==
    /\ entry[d] # Null
    /\ stepStatus[d] # "DONE"
    /\ Start(k, [op |-> "log", row |-> d])
    /\ UNCHANGED <<status, stepVars, logVars, productVars, ended, finished, putBack, overlapped>>

InsertLog(k, l) ==
    /\ call[k].op = "log"
    /\ logOf[l] = Null
    /\ logOf' = [logOf EXCEPT ![l] = call[k].row]
    /\ Continue(k, [call[k] EXCEPT !.op = "logged"])
    /\ UNCHANGED <<status, stepVars, active, productVars, ended, finished, putBack, overlapped>>

\* handleAfterAddLogs reads the step's status ...
ReadStepToStart(k) ==
    /\ call[k].op = "logged"
    /\ IF stepStatus[call[k].row] = "PENDING"
         THEN Continue(k, [call[k] EXCEPT !.op = "start"])
         ELSE End(k)
    /\ UNCHANGED <<status, stepVars, logVars, productVars, ended, finished, putBack, overlapped>>

\* ... and updates it by id alone, so that a step DONE by now is so no more.
StartStep(k) ==
    /\ call[k].op = "start"
    /\ stepStatus' = [stepStatus EXCEPT ![call[k].row] = "IN_PROGRESS"]
    /\ End(k)
    /\ UNCHANGED <<status, entry, inactive, logVars, productVars, ended, finished, putBack, overlapped>>
-----------------------------------------------------------------------------
(***************************************************************************)
(* SeasonService.unactiveLog                                               *)
(***************************************************************************)
\* The request names a log and a step, which need not be the log's own.
ReadInactive(k, l, d) ==
    /\ entry[d] # Null
    /\ logOf[l] # Null
    /\ inactive[d] < 2
    /\ Start(k, [op |-> "drop", row |-> d, log |-> l])
    /\ UNCHANGED <<status, stepVars, logVars, productVars, ended, finished, putBack, overlapped>>

\* Inside the transaction: the log has been updated, which keeps its row lock
\* until the end, and updateInactiveLogNum reads the step.
ReadStepToCharge(k) ==
    LET d == call[k].row
        l == call[k].log
    IN  /\ call[k].op = "drop"
        /\ \A j \in Calls : call[j].op = "charge" => call[j].log # l
        /\ stepStatus[d] # "DONE"
        /\ Continue(k, [op |-> "charge", row |-> d, log |-> l,
                        seen |-> stepStatus[d], count |-> inactive[d]])
        /\ UNCHANGED <<status, stepVars, logVars, productVars, ended, finished, putBack, overlapped>>

\* MUTANT: the number of logs that may still be made inactive.
Remaining(count) == count - 1

Charged(count) == count + 1

\* It saves the row as it read it, one inactive log more, and commits.
DropLog(k) ==
    LET d == call[k].row
    IN  /\ call[k].op = "charge"
        /\ active' = [active EXCEPT ![call[k].log] = FALSE]
        /\ inactive' = [inactive EXCEPT ![d] = Charged(call[k].count)]
        /\ stepStatus' = [stepStatus EXCEPT ![d] = call[k].seen]
        /\ End(k)
        /\ UNCHANGED <<status, entry, logOf, productVars, ended, finished, putBack, overlapped>>
-----------------------------------------------------------------------------
(***************************************************************************)
(* SeasonService.updateSeason                                              *)
(***************************************************************************)
ReadSeasonToUpdate(k, s) ==
    /\ Start(k, [op |-> "update", season |-> s, seen |-> status[s]])
    /\ UNCHANGED <<status, stepVars, logVars, productVars, ended, finished, putBack, overlapped>>

\* save({...season, ...}): the status goes back to what it was when read.
SaveSeason(k) ==
    LET s == call[k].season
    IN  /\ call[k].op = "update"
        /\ status' = [status EXCEPT ![s] = call[k].seen]
        /\ putBack' = IF status' = status THEN putBack ELSE putBack \cup {s}
        /\ End(k)
        /\ UNCHANGED <<stepVars, logVars, productVars, ended, finished, overlapped>>
-----------------------------------------------------------------------------
(***************************************************************************)
(* The handlers that write status and season_id of a product               *)
(***************************************************************************)
\* SeasonService.assignSeason reads the product ...
ReadToAssign(k, p) ==
    /\ Start(k, [op |-> "copy", product |-> p, status |-> sale[p]])
    /\ UNCHANGED <<status, stepVars, logVars, productVars, ended, finished, putBack, overlapped>>

\* MUTANT: any season will do.
AnySeason(s) == TRUE

CanAssign(s) == status[s] = "DONE"

\* ... and then the season, which must be DONE.
CheckAssigned(k, s) ==
    /\ call[k].op = "copy"
    /\ CanAssign(s)
    /\ Continue(k, [op |-> "save", product |-> call[k].product,
                    status |-> call[k].status, season |-> s])
    /\ UNCHANGED <<status, stepVars, logVars, productVars, ended, finished, putBack, overlapped>>

\* ProductService.updateProduct reads a product that is NOT_YET_OPEN.
ReadToEdit(k, p) ==
    /\ sale[p] = "NOT_YET_OPEN"
    /\ Start(k, [op |-> "save", product |-> p, status |-> sale[p], season |-> grown[p]])
    /\ UNCHANGED <<status, stepVars, logVars, productVars, ended, finished, putBack, overlapped>>

\* save(product) of either: status and season_id are those of the copy.
SaveProduct(k) ==
    LET p == call[k].product
    IN  /\ call[k].op = "save"
        /\ sale' = [sale EXCEPT ![p] = call[k].status]
        /\ grown' = [grown EXCEPT ![p] = call[k].season]
        /\ detached' = IF call[k].season = Null /\ grown[p] # Null
                         THEN detached \cup {p} ELSE detached
        /\ End(k)
        /\ UNCHANGED <<status, stepVars, logVars, ended, finished, putBack, overlapped>>

\* SeasonService.updateProductStatus reads the product's season ...
ReadToSell(k, p) ==
    /\ grown[p] # Null
    /\ \/ Start(k, [op |-> "sale", product |-> p, season |-> grown[p]])
       \/ Start(k, [op |-> "set", product |-> p, status |-> "CLOSED"])
    /\ UNCHANGED <<status, stepVars, logVars, productVars, ended, finished, putBack, overlapped>>

\* ... which must be DONE if the product is to be opened for sale.
CheckGrown(k) ==
    /\ call[k].op = "sale"
    /\ status[call[k].season] = "DONE"
    /\ Continue(k, [op |-> "set", product |-> call[k].product, status |-> "OPEN_FOR_SALE"])
    /\ UNCHANGED <<status, stepVars, logVars, productVars, ended, finished, putBack, overlapped>>

\* ProductService.deleteProduct reads the status.
ReadToDelete(k, p) ==
    /\ sale[p] = "NOT_YET_OPEN"
    /\ Start(k, [op |-> "set", product |-> p, status |-> "DELETED"])
    /\ UNCHANGED <<status, stepVars, logVars, productVars, ended, finished, putBack, overlapped>>

\* The UPDATE by product_id that ends updateProductStatus and deleteProduct.
SetStatus(k) ==
    /\ call[k].op = "set"
    /\ sale' = [sale EXCEPT ![call[k].product] = call[k].status]
    /\ End(k)
    /\ UNCHANGED <<status, stepVars, logVars, grown, detached, ended, finished, putBack, overlapped>>
-----------------------------------------------------------------------------
\* A handler throws: a check failed, or a statement did.
Abandon(k) ==
    /\ call[k] # Idle
    /\ End(k)
    /\ UNCHANGED <<status, stepVars, logVars, productVars, ended, finished, putBack, overlapped>>

SeasonStep(k) ==
    \/ \E s \in Seasons, t \in Steps : ReadSeasonForStep(k, s, t)
    \/ CheckStep(k)
    \/ \E d \in Details : InsertStep(k, d)
    \/ \E d \in Details : CountLogs(k, d)
    \/ MarkDone(k)
    \/ ReadSeasonToEnd(k)
    \/ EndSeason(k)
    \/ \E s \in Seasons : ReadSeasonToUpdate(k, s)
    \/ SaveSeason(k)

LogStep(k) ==
    \/ \E d \in Details : ReadStepToLog(k, d)
    \/ \E l \in Logs : InsertLog(k, l)
    \/ ReadStepToStart(k)
    \/ StartStep(k)
    \/ \E l \in Logs, d \in Details : ReadInactive(k, l, d)
    \/ ReadStepToCharge(k)
    \/ DropLog(k)

ProductStep(k) ==
    \/ \E p \in Products :
          ReadToAssign(k, p) \/ ReadToEdit(k, p) \/ ReadToSell(k, p) \/ ReadToDelete(k, p)
    \/ \E s \in Seasons : CheckAssigned(k, s)
    \/ SaveProduct(k)
    \/ CheckGrown(k)
    \/ SetStatus(k)

Next == \E k \in Calls : SeasonStep(k) \/ LogStep(k) \/ ProductStep(k) \/ Abandon(k)

Spec == Init /\ [][Next]_vars
-----------------------------------------------------------------------------
TypeOK ==
    /\ status \in [Seasons -> SeasonStatus]
    /\ entry \in [Details -> Entry \cup {Null}]
    /\ stepStatus \in [Details -> StepStatus]
    /\ inactive \in [Details -> Nat]
    /\ logOf \in [Logs -> Details \cup {Null}]
    /\ active \in [Logs -> BOOLEAN]
    /\ sale \in [Products -> ProductStatus]
    /\ grown \in [Products -> Seasons \cup {Null}]
    /\ call \in [Calls -> CallRecords]
    /\ ended \subseteq Seasons
    /\ finished \subseteq Details
    /\ putBack \subseteq Seasons
    /\ overlapped \subseteq Seasons
    /\ detached \subseteq Products

\* No phase of the crop is skipped by a step that is done once: such a step
\* follows another of its phase or the phase before, however the requests
\* that add steps to the season overlap.
NoPhaseSkipped ==
    \A d \in Details :
        entry[d] # Null =>
            LET t == entry[d].step
            IN  \/ IsFirst(t)
                \/ t \in Repeated
                \/ \E e \in Rows(entry[d].season) :
                      /\ OrderOf(e) < Order[t]
                      /\ PhaseOf(Order[t]) <= PhaseOf(OrderOf(e)) + 1

\* A season is ended by a post-harvest step of it that was finished.  Otherwise
\* addSeasonStep has ended it with its second step, through the fall-through of
\* updateSeasonStatus: two requests had both read it as PENDING before either
\* added its step, or an updateSeason had put it back to an older status.
EndedByHarvestOrOverlap ==
    \A s \in ended :
        \/ \E d \in Rows(s) \cap finished : entry[d].step \in PostHarvest
        \/ /\ s \in overlapped \cup putBack
           /\ \E d, e \in Rows(s) : d # e

\* A season with steps is under way: it is PENDING again only through an
\* updateSeason that saved the row as it had read it before.
StartedStaysStarted ==
    \A s \in Seasons : Rows(s) # {} /\ status[s] = "PENDING" => s \in putBack

\* A step counts as finished only if work was logged for it.
FinishedWorkIsLogged ==
    \A d \in finished : \E l \in Logs : logOf[l] = d

\* A product is on sale only with a season that was DONE at some time; it has
\* no season only if an updateProduct saved the row as it had read it before.
OnSaleIsGrown ==
    \A p \in Products :
        sale[p] = "OPEN_FOR_SALE" => grown[p] \in ended \/ p \in detached

\* (comment at season.service.ts:357) A season is ended by its last step, a
\* post-harvest step that has been finished.
EndedByLastStep ==
    \A s \in ended : \E d \in Rows(s) \cap finished : entry[d].step \in PostHarvest
=============================================================================
