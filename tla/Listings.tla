------------------------------ MODULE Listings ------------------------------
(***************************************************************************)
(* The lists that are answered page by page, and a client who asks for one *)
(* page after the other as long as the answer says that there is a next.   *)
(* Each service builds its own query (which columns it can be sorted by,   *)
(* whether deleted rows are left out); the counting and the skipping is    *)
(* the same for all (applyPagination, PaginationOptions, PaginationMeta).  *)
(***************************************************************************)
EXTENDS Integers, FiniteSets, SequencesExt

CONSTANTS
    Rows,           \* ids of the table that is listed, which order it
    Keys,           \* values of a column that is not unique, in their order
    Limit,          \* rows of a page
    Null            \* no row, no walk

LimitAssumption == Limit \in Nat \ {0}
KeyAssumption == IsFiniteSet(Rows) /\ Rows \cup Keys \subseteq Int
Row == [key : Keys, deleted : BOOLEAN]
NullAssumption == Null \notin Row

VARIABLES
    table,          \* table[i]: the row, Null before its INSERT
    walk            \* the client's walk through a list, or Null

vars == <<table, walk>>
-----------------------------------------------------------------------------
(***************************************************************************)
(* The queries.  sorts: the columns each of the sort fields orders by;     *)
(* joined: other tables are joined; live: deleted rows are left out;       *)
(* checked: a page beyond the last one is refused.                         *)
(***************************************************************************)

ListUsers == [sorts |-> {<<"id">>, <<"email">>, <<"name", "name">>, <<"updated">>},
              joined |-> FALSE, live |-> FALSE, checked |-> TRUE]

\* UPDATED falls through to the id, here and in GetSeasons.
AdminListFarm == [sorts |-> {<<"id">>, <<"name">>, <<"status">>},
                  joined |-> FALSE, live |-> FALSE, checked |-> TRUE]

\* Deleted plots are listed too.
GetPlots == [sorts |-> {<<"name">>, <<"updated">>, <<"id">>},
             joined |-> FALSE, live |-> FALSE, checked |-> TRUE]

GetSeasons == [sorts |-> {<<"name">>, <<"updated">>, <<"id">>},
               joined |-> FALSE, live |-> FALSE, checked |-> TRUE]

GetCrops == [sorts |-> {<<"name">>, <<"updated">>, <<"id">>},
             joined |-> FALSE, live |-> FALSE, checked |-> TRUE]

\* The steps of the catalogue, for administrators and for the farms of a crop.
StepSorts == {<<"name">>, <<"updated">>, <<"order">>, <<"id">>}
ListSteps == [sorts |-> StepSorts, joined |-> FALSE, live |-> FALSE, checked |-> TRUE]

ListPublicStepsByCropId ==
    [sorts |-> StepSorts, joined |-> FALSE, live |-> FALSE, checked |-> TRUE]

\* The product's own sorting, and its join with the subcategories; of the
\* statuses DELETED and CLOSED are left out.
ProductSorts == {<<c>> : c \in {"name", "status", "number", "id", "updated"}}
SearchAndFilterProducts ==
    [sorts |-> ProductSorts, joined |-> TRUE, live |-> TRUE, checked |-> TRUE]

GetFarmProducts == [sorts |-> ProductSorts, joined |-> TRUE, live |-> TRUE, checked |-> TRUE]

\* With a farm_id or a search for its name; in no order.
ListLogs == [sorts |-> {<<>>}, joined |-> TRUE, live |-> FALSE, checked |-> TRUE]

\* Ordered only if the request says by what.
SearchCategory == [sorts |-> {<<>>, <<"name">>, <<"id">>, <<"updated">>},
                   joined |-> FALSE, live |-> FALSE, checked |-> TRUE]

\* NAME falls through to the id.
GetTemplates == [sorts |-> {<<"id">>}, joined |-> FALSE, live |-> TRUE, checked |-> TRUE]

GetAllChannels == [sorts |-> {<<>>}, joined |-> FALSE, live |-> FALSE, checked |-> TRUE]

\* The assignments of one auditor, with a vote or without.
GetPendingVerificationsByUser ==
    [sorts |-> {<<>>}, joined |-> FALSE, live |-> FALSE, checked |-> TRUE]

OrderSorts == {<<"updated">>, <<"number">>, <<"status">>}
GetOrdersByUserId == [sorts |-> OrderSorts, joined |-> TRUE, live |-> FALSE, checked |-> FALSE]

GetOrdersForFarmer == [sorts |-> OrderSorts, joined |-> TRUE, live |-> FALSE, checked |-> FALSE]

Queries ==
    {ListUsers, AdminListFarm, GetPlots, GetSeasons, GetCrops, ListSteps,
     ListPublicStepsByCropId, SearchAndFilterProducts, GetFarmProducts, ListLogs,
     SearchCategory, GetTemplates, GetAllChannels,
     GetPendingVerificationsByUser, GetOrdersByUserId, GetOrdersForFarmer}

\* (external) With joins TypeORM selects the ids of a page first, and orders
\* them by the primary key in the end; without, ties are the database's.
TiesBroken(q) == q.joined

Unique(sort) == sort \in {<<"id">>, <<"email">>}

\* A list that has but one order.
InOneOrder(q, sort) == Unique(sort) \/ TiesBroken(q)

\* Row i comes before row j in every answer of the database.
Before(q, sort, i, j) ==
    \/ /\ sort # <<>> /\ ~Unique(sort)
       /\ \/ table[i].key < table[j].key
          \/ table[i].key = table[j].key /\ TiesBroken(q) /\ i < j
    \/ /\ sort = <<>> \/ Unique(sort)
       /\ InOneOrder(q, sort)
       /\ i < j
-----------------------------------------------------------------------------
Listed(q) == {i \in Rows : table[i] # Null /\ ~(q.live /\ table[i].deleted)}

\* The orders the database may answer in.
Answers(q, sort) ==
    {s \in SetToSeqs(Listed(q)) :
        \A m, n \in DOMAIN s : m < n => ~Before(q, sort, s[n], s[m])}

TotalPages(count) == (count + Limit - 1) \div Limit

\* MUTANT: the page is counted from zero.
SkipPages(page) == page * Limit

Skip(page) == (page - 1) * Limit

Least(m, n) == IF m < n THEN m ELSE n
Page(s, page) == SubSeq(s, Skip(page) + 1, Least(Skip(page) + Limit, Len(s)))

Init ==
    /\ table \in [Rows -> [key : Keys, deleted : {FALSE}] \cup {Null}]
    /\ walk = Null

\* quiet: the table has not changed since; counted: what getCount said.
Begin(q, sort) ==
    /\ walk = Null
    /\ walk' = [query |-> q, sort |-> sort, page |-> 1, counted |-> 0, at |-> "count",
                shown |-> <<>>, quiet |-> TRUE]
    /\ UNCHANGED table

\* applyPagination: getCount, and the page has to exist.  The rows and the
\* meta data follow by a query of their own.
Count ==
    /\ walk # Null
    /\ walk.at = "count"
    /\ LET count == Cardinality(Listed(walk.query))
           refused == walk.query.checked /\ TotalPages(count) > 0 /\ walk.page > TotalPages(count)
       IN  walk' = [walk EXCEPT !.counted = count, !.at = IF refused THEN "refused" ELSE "fetch"]
    /\ UNCHANGED table

Fetch ==
    /\ walk # Null
    /\ walk.at = "fetch"
    /\ \E s \in Answers(walk.query, walk.sort) :
          walk' = [walk EXCEPT
                     !.shown = @ \o Page(s, walk.page),
                     !.page = @ + 1,
                     !.at = IF walk.page < TotalPages(walk.counted) THEN "count" ELSE "end"]
    /\ UNCHANGED table

\* Rows are inserted, deleted (for good or by their flag), and edited.
Change(i) ==
    /\ walk # Null => walk.at \in {"count", "fetch"}
    /\ table' \in {[table EXCEPT ![i] = r] : r \in Row \cup {Null}} \ {table}
    /\ walk' = IF walk = Null THEN Null ELSE [walk EXCEPT !.quiet = FALSE]

Next ==
    \/ \E q \in Queries : \E sort \in q.sorts : Begin(q, sort)
    \/ Count \/ Fetch
    \/ \E i \in Rows : Change(i)

Spec == Init /\ [][Next]_vars
-----------------------------------------------------------------------------
\* Every variable has its type: the rows of a table, and the walk.
TypeOK ==
    /\ table \in [Rows -> Row \cup {Null}]
    /\ walk # Null =>
          /\ walk.query \in Queries
          /\ walk.sort \in walk.query.sorts
          /\ walk.page \in Nat
          /\ walk.counted \in Nat
          /\ walk.at \in {"count", "fetch", "refused", "end"}
          /\ walk.shown \in Seq(Rows)
          /\ walk.quiet \in BOOLEAN

\* applyPagination, skip and hasNextPage fit together: of a table at rest, and
\* in a list that has one order only, a client who takes page after page gets
\* every row once, and is not refused.
OffsetWalkComplete ==
    walk # Null /\ walk.quiet /\ InOneOrder(walk.query, walk.sort) =>
        /\ walk.at # "refused"
        /\ walk.at = "end" => /\ IsInjective(walk.shown)
                              /\ ToSet(walk.shown) = Listed(walk.query)
=============================================================================
