------------------------------ MODULE Reviews ------------------------------
(***************************************************************************)
(* The reviews of a product, their replies, and the walk of a client who   *)
(* reads them page by page with a cursor (ReviewService).  Reviews come    *)
(* and go while the client walks.  approveReview is left out: nothing      *)
(* reads the column it sets.                                               *)
(***************************************************************************)
EXTENDS Integers, FiniteSets, SequencesExt

CONSTANTS
    Reviews,        \* ids of the table reviews, given out in this order
    Ratings,        \* ratings, 1 .. 5 in the code
    Replies,        \* ids of the table reply
    Users,          \* authors
    Limit,          \* reviews of a page
    Null            \* no row, no cursor, no walk

NumberAssumption ==
    Reviews \cup Ratings \subseteq Int /\ IsFiniteSet(Reviews) /\ Limit \in Nat \ {0}

Review == [rating : Ratings, user : Users, is_deleted : BOOLEAN]
Reply == [review : Reviews, user : Users, is_deleted : BOOLEAN]
NullAssumption == Null \notin Review \cup Reply \cup Users \cup Reviews

VARIABLES
    review,         \* review[i]: the row, Null before its INSERT
    reply,          \* reply[n]: the row, Null before its INSERT
    replying,       \* a user who writes a reply, and the review found for it
    walk            \* the client's walk, or Null

vars == <<review, reply, replying, walk>>

Shown(i) == review[i] # Null /\ ~review[i].is_deleted

\* sort_by and order of the request, and the cursor it got with the last page.
Sorts == [by : {"created", "rating"}, order : {"ASC", "DESC"}]

Less(a, b, order) == IF order = "ASC" THEN a < b ELSE a > b

\* ORDER BY review_id, or rating and then review_id.
Before(s, i, j) ==
    IF s.by = "created" THEN Less(i, j, s.order)
    ELSE \/ Less(review[i].rating, review[j].rating, s.order)
         \/ review[i].rating = review[j].rating /\ Less(i, j, s.order)

\* The next cursor: only of a page that is full.  base64 there and back again.
NextCursor(page) == IF Len(page) = Limit THEN Last(page) ELSE Null

\* The WHERE of the cursor, which holds the rating of its row as it was; no
\* handler changes a rating.
BeyondCursor(s, cursor, i) == cursor = Null \/ Before(s, cursor, i)

\* The rows the database answers with, in their order.
Answers(s, cursor) ==
    {list \in SetToSeqs({i \in Reviews : Shown(i) /\ BeyondCursor(s, cursor, i)}) :
        \A m, n \in DOMAIN list : m < n => Before(s, list[m], list[n])}

Page(list) == SubSeq(list, 1, IF Len(list) < Limit THEN Len(list) ELSE Limit)
-----------------------------------------------------------------------------
Init ==
    /\ review \in [Reviews -> {Null}]
    /\ reply = [n \in Replies |-> Null]
    /\ replying = Null
    /\ walk = Null

\* Ids are given out in their order; whether the user bought the product is
\* not looked at.
CreateReview(i, u, r) ==
    /\ review[i] = Null
    /\ \A j \in Reviews : j < i => review[j] # Null
    /\ review' = [review EXCEPT ![i] = [rating |-> r, user |-> u, is_deleted |-> FALSE]]
    /\ UNCHANGED <<reply, replying, walk>>

\* The flag is set again if it was set before; gone: (history) rows the walk
\* may miss.
DeleteReview(i, u) ==
    /\ review[i] # Null
    /\ review[i].user = u
    /\ review' = [review EXCEPT ![i].is_deleted = TRUE]
    /\ walk' = IF walk = Null THEN Null ELSE [walk EXCEPT !.due = @ \ {i}]
    /\ UNCHANGED <<reply, replying>>

\* createReply: the review exists ...
FindReview(i, u) ==
    /\ replying = Null
    /\ Shown(i)
    /\ replying' = [review |-> i, user |-> u]
    /\ UNCHANGED <<review, reply, walk>>

\* ... or has existed when the reply is saved.
CreateReply(n) ==
    /\ replying # Null
    /\ reply[n] = Null
    /\ reply' = [reply EXCEPT ![n] = [review |-> replying.review, user |-> replying.user,
                                      is_deleted |-> FALSE]]
    /\ replying' = Null
    /\ UNCHANGED <<review, walk>>

DeleteReply(n, u) ==
    /\ reply[n] # Null
    /\ reply[n].user = u
    /\ reply' = [reply EXCEPT ![n].is_deleted = TRUE]
    /\ UNCHANGED <<review, replying, walk>>

\* due: (history) the reviews there at the start of the walk and not deleted.
Begin(s) ==
    /\ walk = Null
    /\ walk' = [sort |-> s, cursor |-> Null, shown |-> <<>>, ended |-> FALSE,
                due |-> {i \in Reviews : Shown(i)}]
    /\ UNCHANGED <<review, reply, replying>>

\* A client asks again as long as it gets a cursor.  The filter for a rating
\* leaves out rows of the list and nothing else.
GetProductReviewsByCursor ==
    /\ walk # Null
    /\ ~walk.ended
    /\ \E list \in Answers(walk.sort, walk.cursor) :
          walk' = [walk EXCEPT !.shown = @ \o Page(list), !.cursor = NextCursor(Page(list)),
                               !.ended = NextCursor(Page(list)) = Null]
    /\ UNCHANGED <<review, reply, replying>>

Next ==
    \/ \E i \in Reviews :
          \/ \E u \in Users : DeleteReview(i, u) \/ FindReview(i, u)
          \/ \E u \in Users, r \in Ratings : CreateReview(i, u, r)
    \/ \E n \in Replies : CreateReply(n) \/ \E u \in Users : DeleteReply(n, u)
    \/ \E s \in Sorts : Begin(s)
    \/ GetProductReviewsByCursor

Spec == Init /\ [][Next]_vars
-----------------------------------------------------------------------------
\* Every variable has its type: the rows of reviews and reply, the walk, and
\* the reply that is being written.
TypeOK ==
    /\ review \in [Reviews -> Review \cup {Null}]
    /\ reply \in [Replies -> Reply \cup {Null}]
    /\ replying \in [review : Reviews, user : Users] \cup {Null}
    /\ walk # Null => /\ walk.sort \in Sorts
                      /\ walk.cursor \in Reviews \cup {Null}
                      /\ walk.shown \in Seq(Reviews)
                      /\ walk.ended \in BOOLEAN
                      /\ walk.due \subseteq Reviews

\* Whatever reviews are written and deleted while a client walks, it is shown
\* none twice, and in the end every review that was there all the time: the
\* cursor names a row, also when that row is deleted or the page was the last.
CursorWalkComplete ==
    walk # Null =>
        /\ IsInjective(walk.shown)
        /\ walk.ended => walk.due \subseteq ToSet(walk.shown)
=============================================================================
