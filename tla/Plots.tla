------------------------------- MODULE Plots -------------------------------
(***************************************************************************)
(* The plots of a farm and the seasons on them (PlotService, createSeason  *)
(* and updateSeason of SeasonService).  A season is opened after the last  *)
(* one of the plot has ended; what happens within a season is the matter   *)
(* of SeasonProgress, of which only the three statuses are seen here.      *)
(***************************************************************************)
EXTENDS Integers, FiniteSets

CONSTANTS
    PlotIds,        \* rows of the table plot
    SeasonIds,      \* ids of the table season, given out in this order
    Calls,          \* handlers that can be in flight at once
    MaxSeasons,     \* max_seasons of the crop, 0 if it has none
    Null            \* no row

MaxAssumption == MaxSeasons \in Nat
IdAssumption == SeasonIds \subseteq Nat

SeasonStatus == {"PENDING", "IN_PROGRESS", "DONE"}
SeasonRow == [plot : PlotIds, status : SeasonStatus]

NullAssumption == Null \notin SeasonRow

VARIABLES
    plot,           \* plot[p]: "none" before its INSERT, "live", or "deleted"
    season,         \* season[s]: the row, Null before its INSERT
    call,           \* call[k]: handler in flight
    overlapped,     \* (history) plots on which two seasons were opened at once
    putBack         \* (history) plots with a season whose status a stale save changed

vars == <<plot, season, call, overlapped, putBack>>

NoCall == [op : {"none"}]
CreateCall == [op : {"create"}, plot : PlotIds]
UpdateCall == [op : {"update"}, season : SeasonIds, seen : SeasonStatus]

Idle == [op |-> "none"]
Start(k, record) == call[k] = Idle /\ call' = [call EXCEPT ![k] = record]
End(k) == call' = [call EXCEPT ![k] = Idle]

SeasonsOf(p) == {s \in SeasonIds : season[s] # Null /\ season[s].plot = p}
Open(p) == {s \in SeasonsOf(p) : season[s].status # "DONE"}
Creating(p) == \E k \in Calls : call[k].op = "create" /\ call[k].plot = p

\* The season with the highest id.
IsLast(s, p) == s \in SeasonsOf(p) /\ \A t \in SeasonsOf(p) : t <= s
-----------------------------------------------------------------------------
Init ==
    /\ plot = [p \in PlotIds |-> "none"]
    /\ season = [s \in SeasonIds |-> Null]
    /\ call = [k \in Calls |-> Idle]
    /\ overlapped = {}
    /\ putBack = {}

CreatePlot(p) ==
    /\ plot[p] = "none"
    /\ plot' = [plot EXCEPT ![p] = "live"]
    /\ UNCHANGED <<season, call, overlapped, putBack>>

\* Only is_deleted is set: a plot with a season can be deleted, and a season
\* be opened on a deleted plot.
DeletePlot(p) ==
    /\ plot[p] = "live"
    /\ plot' = [plot EXCEPT ![p] = "deleted"]
    /\ UNCHANGED <<season, call, overlapped, putBack>>

\* MUTANT: the first season of the plot is looked at, not the last.
FirstHasEnded(p) ==
    /\ plot[p] # "none"
    /\ \A s \in SeasonsOf(p) : (\A t \in SeasonsOf(p) : s <= t) => season[s].status = "DONE"
    /\ MaxSeasons # 0 => Cardinality(SeasonsOf(p)) < MaxSeasons

\* validateAddSeason: the last season has ended, and the crop allows one more.
MayAddSeason(p) ==
    /\ plot[p] # "none"
    /\ \A s \in SeasonsOf(p) : IsLast(s, p) => season[s].status = "DONE"
    /\ MaxSeasons # 0 => Cardinality(SeasonsOf(p)) < MaxSeasons

\* createSeason; its date is not modelled.
ValidateSeason(k, p) ==
    /\ MayAddSeason(p)
    /\ Start(k, [op |-> "create", plot |-> p])
    /\ overlapped' = IF Creating(p) THEN overlapped \cup {p} ELSE overlapped
    /\ UNCHANGED <<plot, season, putBack>>

InsertSeason(k, s) ==
    /\ call[k].op = "create"
    /\ season[s] = Null
    /\ \A t \in SeasonIds : t < s => season[t] # Null
    /\ season' = [season EXCEPT ![s] = [plot |-> call[k].plot, status |-> "PENDING"]]
    /\ End(k)
    /\ UNCHANGED <<plot, overlapped, putBack>>

\* updateSeasonStatus, as addSeasonStep and finishStep call it.
Proceed(s) ==
    /\ season[s] # Null
    /\ \/ /\ season[s].status = "PENDING"
          /\ season' = [season EXCEPT ![s].status = "IN_PROGRESS"]
       \/ /\ season[s].status = "IN_PROGRESS"
          /\ season' = [season EXCEPT ![s].status = "DONE"]
    /\ UNCHANGED <<plot, call, overlapped, putBack>>

\* updateSeason: the row is read, and saved with its status as it was read.
ReadSeason(k, s) ==
    /\ season[s] # Null
    /\ Start(k, [op |-> "update", season |-> s, seen |-> season[s].status])
    /\ UNCHANGED <<plot, season, overlapped, putBack>>

SaveSeason(k) ==
    /\ call[k].op = "update"
    /\ LET s == call[k].season
       IN  /\ season' = [season EXCEPT ![s].status = call[k].seen]
           /\ putBack' = IF season[s].status = call[k].seen
                         THEN putBack ELSE putBack \cup {season[s].plot}
    /\ End(k)
    /\ UNCHANGED <<plot, overlapped>>

Abandon(k) ==
    /\ call[k] # Idle
    /\ End(k)
    /\ UNCHANGED <<plot, season, overlapped, putBack>>

Next ==
    \/ \E p \in PlotIds : CreatePlot(p) \/ DeletePlot(p)
    \/ \E s \in SeasonIds : Proceed(s)
    \/ \E k \in Calls :
          \/ \E p \in PlotIds : ValidateSeason(k, p)
          \/ \E s \in SeasonIds : InsertSeason(k, s) \/ ReadSeason(k, s)
          \/ SaveSeason(k) \/ Abandon(k)

Spec == Init /\ [][Next]_vars
-----------------------------------------------------------------------------
\* Every variable has its type: the rows of plot and season, and the handlers
\* of PlotService and SeasonService.
TypeOK ==
    /\ plot \in [PlotIds -> {"none", "live", "deleted"}]
    /\ season \in [SeasonIds -> SeasonRow \cup {Null}]
    /\ call \in [Calls -> NoCall \cup CreateCall \cup UpdateCall]
    /\ overlapped \subseteq PlotIds
    /\ putBack \subseteq PlotIds

\* validateAddSeason looks at the last season only, and createSeason inserts
\* after it has looked: a plot has one open season at most and no more seasons
\* than its crop allows, unless two were opened at once, or updateSeason put a
\* season back that had ended.
OneOpenSeason ==
    \A p \in PlotIds \ overlapped :
        /\ MaxSeasons # 0 => Cardinality(SeasonsOf(p)) <= MaxSeasons
        /\ p \notin putBack => Cardinality(Open(p)) <= 1
=============================================================================
