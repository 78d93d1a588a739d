--------------------------- MODULE EventSyncProofs ---------------------------
(***************************************************************************)
(* Proofs about EventSync, for any events, any number of runs in flight,   *)
(* any length of the chain and any number of failures.                     *)
(***************************************************************************)
EXTENDS EventSync, TLAPS

\* A run asks about blocks the chain has, and the cursor is at most the next.
BlocksExist ==
    /\ cursor <= head + 1
    /\ \A r \in Runs :
          /\ run[r].op # "none" => run[r].from <= head + 1
          /\ run[r].op \in {"query", "handle", "store"} =>
                run[r].from <= run[r].to /\ run[r].to <= head

\* A run has the events of all its blocks, or none because the node failed.
EventsAreComplete ==
    \A r \in Runs : run[r].op \in {"handle", "store"} =>
        run[r].events = (IF run[r].failed THEN {} ELSE Within(run[r].from, run[r].to))

HandledBeforeStore == \A r \in Runs : run[r].op = "store" => run[r].events \subseteq reached

\* The events of the blocks before b have been handled or lost.
DoneBefore(b) == \A e \in Posted : block[e] < b => e \in reached \cup lost

\* No run starts after an event that is still to be handled.
RunsStartInTime == \A r \in Runs : run[r].op # "none" => DoneBefore(run[r].from)

\* As long as nothing goes wrong there is one run, which began at the cursor,
\* and what has been handled is before the cursor or in the hands of that run.
OneAtATime ==
    causes = {} =>
        /\ again = {}
        /\ \A r, q \in Runs : r # q => run[r] = Idle \/ run[q] = Idle
        /\ \A r \in Runs : run[r].op # "none" => run[r].from = cursor
        /\ \A e \in reached :
              \/ block[e] < cursor
              \/ \E r \in Runs : run[r].op = "store" /\ e \in run[r].events

IInv ==
    /\ TypeOK
    /\ BlocksExist
    /\ EventsAreComplete
    /\ HandledBeforeStore
    /\ RunsStartInTime
    /\ NothingSkipped
    /\ OneAtATime
-----------------------------------------------------------------------------
USE BoundsAssumption

LEMMA Initial == Init => IInv
  BY DEF Init, IInv, TypeOK, BlocksExist, EventsAreComplete, HandledBeforeStore,
         RunsStartInTime, NothingSkipped, OneAtATime, Idle, Posted, RunRecords, NoRun

\* What a record of a given op holds.
LEMMA RunShapes ==
    ASSUME TypeOK, NEW r \in Runs
    PROVE  /\ run[r] \in RunRecords
           /\ run[r].op = "none" => run[r] = Idle
           /\ run[r].op = "head" => run[r] \in HeadRun
           /\ run[r].op = "query" => run[r] \in QueryRun
           /\ run[r].op \in {"handle", "store"} => run[r] \in EventsRun
           /\ run[r].op \in {"none", "head", "query", "handle", "store"}
  BY DEF TypeOK, RunRecords, NoRun, HeadRun, QueryRun, EventsRun, Idle

LEMMA TypeStep ==
    ASSUME TypeOK, BlocksExist, EventsAreComplete, [Next]_vars
    PROVE  TypeOK'
<1>1. CASE Mine
  <2>1. PICK new \in SUBSET (Events \ Posted) :
           block' = [e \in Events |-> IF e \in new THEN head + 1 ELSE block[e]]
    BY <1>1 DEF Mine
  <2>2. head' \in 0 .. MaxBlock /\ block' \in [Events -> 0 .. MaxBlock]
    BY <1>1, <2>1 DEF Mine, TypeOK
  <2>3. Posted \subseteq Posted'
    BY <1>1, <2>1 DEF Mine, Posted, TypeOK
  <2> QED BY <1>1, <2>2, <2>3 DEF Mine, TypeOK, history
<1>2. CASE Restart
  <2>1. run' \in [Runs -> RunRecords]
    BY <1>2 DEF Restart, Idle, RunRecords, NoRun
  <2>2. cursor' \in Nat /\ faults' \in 0 .. MaxFaults
    BY <1>2 DEF Restart, Fault, TypeOK
  <2> QED BY <1>2, <2>1, <2>2 DEF Restart, TypeOK, chainVars, Posted
<1>3. ASSUME NEW r \in Runs, RunStep(r) \/ RunFault(r) PROVE TypeOK'
  <2> USE RunShapes, <1>3 DEF TypeOK, chainVars, history, Posted
  <2>1. CASE Fire(r)
    <3>1. [op |-> "head", from |-> cursor] \in RunRecords
      BY DEF RunRecords, HeadRun
    <3> QED BY <2>1, <3>1 DEF Fire, Continue
  <2>2. ASSUME NEW b \in Nat, Compare(r, b), faults' \in 0 .. MaxFaults PROVE TypeOK'
    <3>1. run[r].from \in Nat
      BY <2>2 DEF Compare, HeadRun
    <3>2. [op |-> "query", from |-> run[r].from, to |-> b] \in RunRecords /\ Idle \in RunRecords
      BY <3>1 DEF RunRecords, QueryRun, NoRun, Idle
    <3> QED BY <2>2, <3>2 DEF Compare, Continue, End
  <2>3. CASE ReadHead(r)
    BY <2>2, <2>3 DEF ReadHead
  <2>4. CASE ReadNoHead(r)
    BY <2>2, <2>4 DEF ReadNoHead, Fault
  <2>5. ASSUME NEW found \in SUBSET Events, NEW failure \in BOOLEAN,
               Answer(r, found, failure), faults' \in 0 .. MaxFaults
        PROVE TypeOK'
    <3>1. run[r].from \in Nat /\ run[r].to \in Nat
      BY <2>5 DEF Answer, QueryRun
    <3>2. [op |-> "handle", from |-> run[r].from, to |-> run[r].to,
           events |-> found, failed |-> failure] \in RunRecords
      BY <3>1 DEF RunRecords, EventsRun
    <3> QED BY <2>5, <3>2 DEF Answer, Continue
  <2>6. CASE Query(r)
    <3>1. Within(run[r].from, run[r].to) \in SUBSET Events
      BY DEF Within
    <3> QED BY <2>5, <2>6, <3>1 DEF Query
  <2>7. CASE QueryFails(r)
    <3>1. faults' \in 0 .. MaxFaults
      BY <2>7 DEF QueryFails, Fault
    <3>2. Answer(r, {}, TRUE)
      BY <2>7 DEF QueryFails
    <3> QED BY <2>5, <3>1, <3>2
  <2>8. CASE Handle(r)
    <3>1. [run[r] EXCEPT !.op = "store"] \in RunRecords
      BY <2>8 DEF Handle, EventsRun, RunRecords
    <3>2. run[r].events \subseteq Posted
      BY <2>8 DEF Handle, EventsAreComplete, Within
    <3> QED BY <2>8, <3>1, <3>2 DEF Handle, Continue
  <2>9. CASE Store(r)
    <3>1. NextBlock(r) \in Nat /\ Idle \in RunRecords
      BY <2>9 DEF Store, NextBlock, EventsRun, RunRecords, NoRun, Idle
    <3> QED BY <2>9, <3>1 DEF Store, End, Within
  <2>10. Idle \in RunRecords
    BY DEF RunRecords, NoRun, Idle
  <2>11. CASE Abandon(r)
    BY <2>10, <2>11 DEF Abandon, End, Fault
  <2>12. CASE Refuse(r)
    BY <2>10, <2>12 DEF Refuse, End
  <2> QED BY <1>3, <2>1, <2>3, <2>4, <2>6, <2>7, <2>8, <2>9, <2>11, <2>12 DEF RunStep, RunFault
<1>4. CASE UNCHANGED vars
  BY <1>4 DEF vars, TypeOK, chainVars, history, Posted
<1> QED BY <1>1, <1>2, <1>3, <1>4 DEF Next

\* The chain and what has been done only grow, and at the end.
Growth ==
    /\ head <= head'
    /\ \A e \in Posted : e \in Posted' /\ block'[e] = block[e]
    /\ \A e \in Posted' \ Posted : block'[e] = head + 1
    /\ reached \subseteq reached'
    /\ lost \subseteq lost'

LEMMA StepsGrow == ASSUME TypeOK, [Next]_vars PROVE Growth
<1> USE DEF Growth, Posted, chainVars, history
<1>1. CASE Mine
  BY <1>1 DEF Mine, TypeOK
<1>2. CASE Restart
  BY <1>2 DEF Restart, TypeOK
<1>3. ASSUME NEW r \in Runs, RunStep(r) \/ RunFault(r) PROVE Growth
  BY <1>3 DEF RunStep, RunFault, Fire, ReadHead, ReadNoHead, Compare, Query, QueryFails,
              Answer, Handle, Refuse, Store, Abandon, TypeOK
<1>4. CASE UNCHANGED vars
  BY <1>4 DEF vars, TypeOK
<1> QED BY <1>1, <1>2, <1>3, <1>4 DEF Next

\* What is done before a block that the chain had, or its next, stays done.
LEMMA StaysDone ==
    ASSUME TypeOK, Growth
    PROVE  \A b \in Nat : b <= head + 1 /\ DoneBefore(b) =>
              \A e \in Posted' : block'[e] < b => e \in reached' \cup lost'
  BY DEF TypeOK, Growth, DoneBefore

\* The events of blocks the chain had stay the same.
LEMMA SameEvents ==
    ASSUME TypeOK, Growth, NEW r \in Runs, run'[r] = run[r],
           run[r].from \in Nat, run[r].to \in Nat, run[r].to <= head
    PROVE  Within(run[r].from, run[r].to)' = Within(run[r].from, run[r].to)
<1>1. \A e \in Posted' : block'[e] <= run[r].to => e \in Posted
  BY DEF TypeOK, Growth
<1> QED BY <1>1 DEF Within, Growth

LEMMA BlocksStep == ASSUME IInv, [Next]_vars PROVE BlocksExist'
<1> USE DEF IInv, BlocksExist, chainVars, history
<1>1. CASE Mine
  BY <1>1 DEF Mine, TypeOK, RunRecords, NoRun, HeadRun, QueryRun, EventsRun
<1>2. CASE Restart
  BY <1>2 DEF Restart, TypeOK, Idle
<1>3. ASSUME NEW r \in Runs, RunStep(r) \/ RunFault(r) PROVE BlocksExist'
  <2> head \in Nat /\ cursor \in Nat
    BY DEF TypeOK
  <2>0. \A q \in Runs \ {r} : run'[q] = run[q]
    BY <1>3 DEF RunStep, RunFault, Fire, ReadHead, ReadNoHead, Compare, Query, QueryFails,
                Answer, Handle, Refuse, Store, Abandon, Continue, End, TypeOK
  <2>1. CASE Fire(r)
    BY <2>0, <2>1 DEF Fire, Continue, TypeOK
  <2>2. CASE ReadHead(r)
    BY <2>0, <2>2, RunShapes DEF ReadHead, Compare, Continue, End, Idle, HeadRun, TypeOK
  <2>3. CASE ReadNoHead(r)
    BY <2>0, <2>3, RunShapes DEF ReadNoHead, Compare, Continue, End, Idle, HeadRun, TypeOK
  <2>4. CASE Query(r) \/ QueryFails(r)
    BY <2>0, <2>4 DEF Query, QueryFails, Answer, Continue, TypeOK
  <2>5. CASE Handle(r)
    BY <2>0, <2>5, RunShapes DEF Handle, Continue, EventsRun, TypeOK
  <2>6. CASE Store(r)
    BY <2>0, <2>6, RunShapes DEF Store, NextBlock, End, Idle, EventsRun, TypeOK
  <2>7. CASE Abandon(r) \/ Refuse(r)
    BY <2>0, <2>7 DEF Abandon, Refuse, End, Idle, TypeOK
  <2> QED BY <1>3, <2>1, <2>2, <2>3, <2>4, <2>5, <2>6, <2>7 DEF RunStep, RunFault
<1>4. CASE UNCHANGED vars
  BY <1>4 DEF vars
<1> QED BY <1>1, <1>2, <1>3, <1>4 DEF Next

\* Every run but one goes on with what it had.
LEMMA OtherRuns ==
    ASSUME TypeOK, NEW r \in Runs, RunStep(r) \/ RunFault(r)
    PROVE  /\ \A q \in Runs \ {r} : run'[q] = run[q]
           /\ UNCHANGED devMode
  BY DEF RunStep, RunFault, Fire, ReadHead, ReadNoHead, Compare, Query, QueryFails,
         Answer, Handle, Refuse, Store, Abandon, Continue, End, TypeOK

LEMMA EventsStep == ASSUME IInv, [Next]_vars PROVE EventsAreComplete' /\ HandledBeforeStore'
<1> USE DEF IInv
<1>1. Growth
  BY StepsGrow
<1>2. ASSUME NEW q \in Runs, run'[q] = run[q]
      PROVE /\ run'[q].op \in {"handle", "store"} =>
                   run'[q].events = (IF run'[q].failed THEN {}
                                      ELSE Within(run[q].from, run[q].to)')
            /\ run'[q].op = "store" => run'[q].events \subseteq reached'
  <2>1. CASE run[q].op \in {"handle", "store"}
    <3>1. run[q].from \in Nat /\ run[q].to \in Nat /\ run[q].to <= head
      BY <2>1, RunShapes DEF BlocksExist, EventsRun
    <3>2. Within(run[q].from, run[q].to)' = Within(run[q].from, run[q].to)
      BY <1>1, <1>2, <3>1, SameEvents
    <3> QED BY <1>1, <1>2, <2>1, <3>2 DEF EventsAreComplete, HandledBeforeStore, Growth
  <2> QED BY <1>2, <2>1
<1>3. CASE Mine \/ UNCHANGED vars
  BY <1>2, <1>3 DEF Mine, vars, EventsAreComplete, HandledBeforeStore
<1>4. CASE Restart
  BY <1>4 DEF Restart, Idle, EventsAreComplete, HandledBeforeStore
<1>5. ASSUME NEW r \in Runs, RunStep(r) \/ RunFault(r)
      PROVE EventsAreComplete' /\ HandledBeforeStore'
  <2>1. SUFFICES
          /\ run'[r].op \in {"handle", "store"} =>
                 run'[r].events = (IF run'[r].failed THEN {}
                                    ELSE Within(run[r].from, run[r].to)')
          /\ run'[r].op = "store" => run'[r].events \subseteq reached'
    BY <1>2, <1>5, OtherRuns DEF EventsAreComplete, HandledBeforeStore
  <2>2. CASE Fire(r) \/ ReadHead(r) \/ ReadNoHead(r) \/ Store(r) \/ Abandon(r) \/ Refuse(r)
    BY <2>2 DEF Fire, ReadHead, ReadNoHead, Compare, Store, Abandon, Refuse, Continue, End, Idle, TypeOK
  <2>3. CASE Query(r)
    BY <2>3 DEF Query, Answer, Continue, TypeOK, chainVars, Within, Posted
  <2>4. CASE QueryFails(r)
    BY <2>4 DEF QueryFails, Answer, Continue, TypeOK
  <2>5. CASE Handle(r)
    BY <2>5, RunShapes DEF Handle, Continue, TypeOK, EventsRun, EventsAreComplete, chainVars,
                           Within, Posted
  <2> QED BY <1>5, <2>2, <2>3, <2>4, <2>5 DEF RunStep, RunFault
<1> QED BY <1>3, <1>4, <1>5 DEF Next

\* The blocks that r has asked about are done with when it stores the cursor.
LEMMA StoredBlocksDone ==
    ASSUME IInv, NEW r \in Runs, Store(r)
    PROVE  \A e \in Posted : block[e] < NextBlock(r) => e \in reached' \cup lost'
<1> USE DEF IInv
<1>1. /\ run[r].from \in Nat /\ run[r].to \in Nat
      /\ block \in [Events -> Nat]
  BY RunShapes DEF Store, EventsRun, TypeOK
<1>2. ASSUME NEW e \in Posted, block[e] < NextBlock(r)
      PROVE  e \in reached' \cup lost'
  <2>1. CASE block[e] < run[r].from
    BY <2>1 DEF Store, RunsStartInTime, DoneBefore
  <2>2. CASE ~(block[e] < run[r].from)
    <3>1. e \in Within(run[r].from, run[r].to)
      BY <1>1, <1>2, <2>2 DEF NextBlock, Within, Posted
    <3> QED BY <3>1 DEF Store, EventsAreComplete, HandledBeforeStore
  <2> QED BY <2>1, <2>2
<1> QED BY <1>2

LEMMA CursorStep == ASSUME IInv, [Next]_vars PROVE NothingSkipped'
<1> USE DEF IInv
<1>1. Growth
  BY StepsGrow
<1>2. cursor \in Nat /\ cursor <= head + 1 /\ DoneBefore(cursor)
  BY DEF TypeOK, BlocksExist, NothingSkipped, DoneBefore
<1>3. CASE cursor' = cursor
  BY <1>1, <1>2, <1>3, StaysDone DEF NothingSkipped
<1>4. CASE Restart /\ cursor' # cursor
  BY <1>4 DEF Restart, NothingSkipped, TypeOK, Posted, chainVars
<1>5. ASSUME NEW r \in Runs, Store(r) PROVE NothingSkipped'
  BY <1>5, StoredBlocksDone DEF Store, NothingSkipped, chainVars, Posted
<1> QED BY <1>3, <1>4, <1>5
        DEF Next, Mine, RunStep, RunFault, Fire, ReadHead, ReadNoHead, Compare, Query,
            QueryFails, Answer, Handle, Refuse, Abandon, vars

LEMMA StartStep == ASSUME IInv, [Next]_vars PROVE RunsStartInTime'
<1> USE DEF IInv
<1>1. Growth
  BY StepsGrow
<1>2. ASSUME NEW q \in Runs, run[q].op # "none", run'[q].from = run[q].from
      PROVE \A e \in Posted' : block'[e] < run'[q].from => e \in reached' \cup lost'
  <2>1. run[q].from \in Nat /\ run[q].from <= head + 1
    BY <1>2, RunShapes DEF BlocksExist, HeadRun, QueryRun, EventsRun
  <2> QED BY <1>1, <1>2, <2>1, StaysDone DEF RunsStartInTime
<1>3. CASE Mine \/ UNCHANGED vars
  BY <1>2, <1>3 DEF Mine, vars, RunsStartInTime, DoneBefore
<1>4. CASE Restart
  BY <1>4 DEF Restart, Idle, RunsStartInTime
<1>5. ASSUME NEW r \in Runs, RunStep(r) \/ RunFault(r) PROVE RunsStartInTime'
  <2>1. SUFFICES run'[r].op # "none" =>
            \A e \in Posted' : block'[e] < run'[r].from => e \in reached' \cup lost'
    BY <1>2, <1>5, OtherRuns DEF RunsStartInTime, DoneBefore
  <2>2. CASE Fire(r)
    BY <2>2 DEF Fire, Continue, TypeOK, NothingSkipped, chainVars, Posted
  <2>3. CASE ReadHead(r) \/ ReadNoHead(r)
    BY <1>2, <2>3 DEF ReadHead, ReadNoHead, Compare, Continue, End, Idle, TypeOK
  <2>4. CASE Query(r) \/ QueryFails(r)
    BY <1>2, <2>4 DEF Query, QueryFails, Answer, Continue, TypeOK
  <2>5. CASE Handle(r)
    <3>1. run'[r].from = run[r].from
      BY <2>5, RunShapes DEF Handle, Continue, EventsRun, TypeOK
    <3> QED BY <1>2, <2>5, <3>1 DEF Handle
  <2>6. CASE Store(r) \/ Abandon(r) \/ Refuse(r)
    BY <2>6 DEF Store, Abandon, Refuse, End, Idle, TypeOK
  <2> QED BY <1>5, <2>2, <2>3, <2>4, <2>5, <2>6 DEF RunStep, RunFault
<1> QED BY <1>3, <1>4, <1>5 DEF Next

\* What r had handled when it stores the cursor lies before the new cursor.
LEMMA StoredAreBefore ==
    ASSUME IInv, NEW r \in Runs, run[r].op = "store", NEW e \in run[r].events
    PROVE  block[e] <= run[r].to
<1>1. e \in Within(run[r].from, run[r].to)
  BY DEF IInv, EventsAreComplete
<1> QED BY <1>1 DEF Within

LEMMA OneStep == ASSUME IInv, [Next]_vars PROVE OneAtATime'
<1> USE DEF IInv
<1> SUFFICES ASSUME causes' = {}
             PROVE  /\ again' = {}
                    /\ \A r, q \in Runs : r # q => run'[r] = Idle \/ run'[q] = Idle
                    /\ \A r \in Runs : run'[r].op # "none" => run'[r].from = cursor'
                    /\ \A e \in reached' :
                          \/ block'[e] < cursor'
                          \/ \E r \in Runs : run'[r].op = "store" /\ e \in run'[r].events
  BY DEF OneAtATime, Idle
<1>1. causes = {}
  BY DEF Next, Mine, Restart, RunStep, RunFault, Fire, ReadHead, ReadNoHead, Compare, Query,
         QueryFails, Answer, Handle, Refuse, Store, Abandon, vars, history
<1>2. /\ again = {}
      /\ \A r, q \in Runs : r # q => run[r] = Idle \/ run[q] = Idle
      /\ \A r \in Runs : run[r].op # "none" => run[r].from = cursor
      /\ \A e \in reached :
            \/ block[e] < cursor
            \/ \E r \in Runs : run[r].op = "store" /\ e \in run[r].events
  BY <1>1 DEF OneAtATime
<1>3. reached \subseteq Posted /\ cursor \in Nat /\ block \in [Events -> Nat]
  BY DEF TypeOK
<1>4. CASE Mine
  <2>1. \A e \in reached : block'[e] = block[e]
    BY <1>3, <1>4, StepsGrow DEF Growth
  <2> QED BY <1>2, <1>4, <2>1 DEF Mine, history
<1>5. CASE UNCHANGED vars
  BY <1>2, <1>5 DEF vars, chainVars, history
<1>6. CASE Restart
  BY <1>1, <1>2, <1>6 DEF Restart, chainVars, Idle
<1>7. ASSUME NEW r \in Runs, RunStep(r) \/ RunFault(r)
      PROVE  /\ again' = {}
             /\ \A p, q \in Runs : p # q => run'[p] = Idle \/ run'[q] = Idle
             /\ \A q \in Runs : run'[q].op # "none" => run'[q].from = cursor'
             /\ \A e \in reached' :
                   \/ block'[e] < cursor'
                   \/ \E q \in Runs : run'[q].op = "store" /\ e \in run'[q].events
  <2>0. \A q \in Runs \ {r} : run'[q] = run[q]
    BY <1>7, OtherRuns
  <2>1. CASE Fire(r)
    <3>1. \A q \in Runs \ {r} : run[q] = Idle
      BY <2>1 DEF Fire
    <3>2. run'[r].op = "head" /\ run'[r].from = cursor /\ run[r] = Idle
      BY <2>1 DEF Fire, Continue, TypeOK
    <3> QED BY <1>2, <2>0, <2>1, <3>1, <3>2 DEF Fire, chainVars, Idle
  <2>2. CASE ReadHead(r) \/ ReadNoHead(r) \/ Query(r) \/ QueryFails(r)
    <3>1. run[r].op \in {"head", "query"} /\ run[r].from = cursor
      BY <1>2, <2>2 DEF ReadHead, ReadNoHead, Compare, Query, QueryFails, Answer
    <3>2. run'[r] = Idle \/ run'[r].from = run[r].from
      BY <2>2 DEF ReadHead, ReadNoHead, Compare, Query, QueryFails, Answer, Continue, End, TypeOK
    <3>3. UNCHANGED <<again, cursor, reached, block>>
      BY <2>2 DEF ReadHead, ReadNoHead, Compare, Query, QueryFails, Answer, chainVars, history
    <3>4. \A q \in Runs \ {r} : run[q] = Idle
      BY <1>2, <3>1 DEF Idle
    <3> QED BY <1>2, <2>0, <3>1, <3>2, <3>3, <3>4 DEF Idle
  <2>3. CASE Handle(r)
    <3>1. /\ run[r].op = "handle" /\ run[r].from = cursor
          /\ run'[r].op = "store" /\ run'[r].from = run[r].from
          /\ run'[r].events = run[r].events
      BY <1>2, <2>3, RunShapes DEF Handle, Continue, EventsRun, TypeOK
    <3>2. \A q \in Runs \ {r} : run[q] = Idle
      BY <1>2, <3>1 DEF Idle
    <3>3. \A e \in reached : block[e] < cursor
      BY <1>2, <3>1, <3>2 DEF Idle
    <3>4. \A e \in run[r].events : cursor <= block[e]
      BY <3>1 DEF EventsAreComplete, Within
    <3>5. reached \cap run[r].events = {}
      BY <1>3, <3>3, <3>4 DEF Posted
    <3> QED BY <1>2, <2>0, <2>3, <3>1, <3>2, <3>3, <3>5 DEF Handle, chainVars, Idle
  <2>4. CASE Store(r)
    <3>1. run[r].op = "store" /\ run[r].from = cursor /\ run'[r] = Idle
      BY <1>2, <2>4 DEF Store, End, TypeOK
    <3>2. \A q \in Runs \ {r} : run[q] = Idle
      BY <1>2, <3>1 DEF Idle
    <3>3. run[r].to \in Nat /\ cursor <= run[r].to /\ cursor' = run[r].to + 1
      BY <2>4, <3>1, RunShapes DEF Store, NextBlock, EventsRun, BlocksExist
    <3>4. ASSUME NEW e \in reached PROVE block[e] < run[r].to + 1
      <4>1. block[e] \in Nat
        BY <1>3 DEF Posted
      <4>2. block[e] < cursor \/ block[e] <= run[r].to
        BY <1>2, <3>1, <3>2, StoredAreBefore DEF Idle
      <4> QED BY <1>3, <3>3, <4>1, <4>2
    <3> QED BY <1>2, <2>0, <2>4, <3>1, <3>2, <3>3, <3>4 DEF Store, chainVars, Idle
  <2>5. CASE Abandon(r)
    <3>1. run[r].op # "store" /\ run'[r] = Idle
      BY <2>5 DEF Abandon, End, TypeOK
    <3> QED BY <1>2, <2>0, <2>5, <3>1 DEF Abandon, chainVars, Idle
  <2>6. CASE Refuse(r)
    <3>1. run[r].op # "store" /\ run'[r] = Idle
      BY <2>6 DEF Refuse, End, TypeOK
    <3> QED BY <1>2, <2>0, <2>6, <3>1 DEF Refuse, history, chainVars, Idle
  <2> QED BY <1>7, <2>1, <2>2, <2>3, <2>4, <2>5, <2>6 DEF RunStep, RunFault
<1> QED BY <1>4, <1>5, <1>6, <1>7 DEF Next
-----------------------------------------------------------------------------
\* The inductive invariant holds of every behaviour of the job.
THEOREM Inductive == Spec => []IInv
<1>1. IInv /\ [Next]_vars => IInv'
  BY TypeStep, BlocksStep, EventsStep, CursorStep, StartStep, OneStep DEF IInv
<1> QED BY <1>1, Initial, PTL DEF Spec

\* The variables keep their types; what was handled or lost was emitted.
THEOREM TypeCorrect == Spec => []TypeOK
  BY Inductive, PTL DEF IInv

\* The cursor (AuditorRegistryService.handleEvent) passes an event only when it
\* was handed to the callback or the node failed to give it, however the runs
\* overlap, fail and restart.
THEOREM NoneSkipped == Spec => []NothingSkipped
  BY Inductive, PTL DEF IInv

\* Without overlap, restart or a failure between the callback and the cursor,
\* each event is handed to the callback at most once.
THEOREM HandledOnce == Spec => []HandledAgainForCause
<1>1. IInv => HandledAgainForCause
  BY DEF IInv, OneAtATime, HandledAgainForCause
<1> QED BY <1>1, Inductive, PTL
-----------------------------------------------------------------------------
\* What the queue holds.
Queued == {e \in Posted : block[e] >= cursor}

LEMMA QueueStarts == Init => Queue!Init
  BY DEF Init, Queue!Init, Posted

\* A run that moves the cursor on acknowledges the events it passes; one that
\* moves it back gives nothing up, and requeues the events it uncovers.
LEMMA StoreStep == ASSUME IInv, NEW r \in Runs, Store(r) PROVE Queue!Next
<1> USE DEF IInv
<1>1. /\ cursor \in Nat /\ cursor' = NextBlock(r) /\ cursor' \in Nat
      /\ block \in [Events -> Nat] /\ block' = block /\ reached' = reached
  BY RunShapes DEF Store, NextBlock, EventsRun, TypeOK, chainVars
<1>2. Posted' = Posted
  BY <1>1 DEF Posted
<1>3. lost' = lost \/ lost' = lost \cup (Within(run[r].from, run[r].to) \ reached)
  BY DEF Store
<1>4. CASE cursor <= cursor'
  <2>1. PICK passed \in SUBSET Events : passed = {e \in Posted : block[e] < cursor'}
    BY DEF Posted
  <2>2. PICK given \in SUBSET Events :
           given \subseteq Posted /\ lost' = lost \cup given
    <3>1. Within(run[r].from, run[r].to) \subseteq Posted /\ Posted \subseteq Events
      BY DEF Within, Posted
    <3>2. {} \in SUBSET Events /\ {} \subseteq Posted
      OBVIOUS
    <3> QED BY <1>3, <3>1, <3>2
  <2>3. passed \subseteq reached \cup lost'
    BY <1>1, <2>1, StoredBlocksDone
  <2>4. Queued' = Queued \ passed
    BY <1>1, <1>2, <1>4, <2>1 DEF Queued, Posted
  <2>5. Queue!Acknowledge(passed, given)
    BY <1>1, <1>2, <2>2, <2>3, <2>4 DEF Queue!Acknowledge, Queued
  <2> QED BY <2>5 DEF Queue!Next
<1>5. CASE cursor' < cursor
  <2>0. PICK uncovered \in SUBSET Events :
           uncovered = {e \in Posted : cursor' <= block[e]}
    BY DEF Posted
  <2>1. run[r].from \in Nat /\ run[r].to \in Nat
    BY RunShapes DEF Store, EventsRun
  <2>2. \A e \in Within(run[r].from, run[r].to) : e \in Posted /\ block[e] < cursor
    BY <1>1, <1>5, <2>1 DEF NextBlock, Within, Posted
  <2>3. lost' = lost
    BY <1>3, <2>2 DEF NothingSkipped
  <2>4. Queued' = Queued \cup uncovered
    BY <1>1, <1>2, <1>5, <2>0 DEF Queued, Posted
  <2>5. Queue!Requeue(uncovered)
    BY <1>1, <1>2, <2>0, <2>3, <2>4 DEF Queue!Requeue, Queued
  <2> QED BY <2>5 DEF Queue!Next
<1> QED BY <1>1, <1>4, <1>5

\* Every step is one of the queue or leaves it alone.
LEMMA QueueStep == ASSUME IInv, [Next]_vars PROVE [Queue!Next]_(Queue!queueVars)
<1> USE DEF IInv
<1>1. cursor \in Nat /\ block \in [Events -> 0 .. MaxBlock] /\ head \in 0 .. MaxBlock
  BY DEF TypeOK
<1>2. CASE UNCHANGED <<block, cursor, reached, lost>>
  BY <1>2 DEF Queue!queueVars, Posted
<1>3. CASE Mine
  <2>1. PICK new \in SUBSET (Events \ Posted) :
           block' = [e \in Events |-> IF e \in new THEN head + 1 ELSE block[e]]
    BY <1>3 DEF Mine
  <2>2. Posted' = Posted \cup new
    BY <1>1, <2>1 DEF Posted
  <2>3. Queued' = Queued \cup new
    BY <1>1, <1>3, <2>1, <2>2 DEF Queued, Mine, BlocksExist, Posted
  <2>4. Queue!Post(new)
    BY <1>3, <2>1, <2>2, <2>3 DEF Queue!Post, Mine, history, Queued
  <2> QED BY <2>1, <2>4 DEF Queue!Next
<1>4. ASSUME NEW r \in Runs, Handle(r) PROVE Queue!Next
  <2>1. run[r].events \subseteq Posted /\ run[r].events \in SUBSET Events
    BY <1>4 DEF Handle, EventsAreComplete, Within, Posted
  <2>2. Posted' = Posted /\ Queued' = Queued
    BY <1>4 DEF Handle, chainVars, Posted, Queued
  <2>3. Queue!Deliver(run[r].events)
    BY <1>4, <2>1, <2>2 DEF Queue!Deliver, Handle, Queued
  <2> QED BY <2>1, <2>3 DEF Queue!Next
<1>5. CASE Restart /\ cursor' # cursor
  <2>1. PICK M \in SUBSET Events : M = Posted
    BY DEF Posted
  <2>2. Posted' = Posted /\ Queued' = Queued \cup M
    BY <1>1, <1>5, <2>1 DEF Restart, chainVars, Posted, Queued
  <2>3. Queue!Requeue(M)
    BY <1>5, <2>1, <2>2 DEF Queue!Requeue, Restart, Queued
  <2> QED BY <2>3 DEF Queue!Next
<1> QED BY <1>2, <1>3, <1>4, <1>5, StoreStep
        DEF Next, Restart, RunStep, RunFault, Fire, ReadHead, ReadNoHead, Compare, Query,
            QueryFails, Answer, Refuse, Abandon, vars, chainVars, history

\* The job is an at-least-once queue (the safety part of ImplementsQueue):
\* however its runs overlap, fail and restart, an event leaves the queue only
\* when it has been handled or lost.
THEOREM QueueImplemented == Spec => Queue!Safe
<1>1. Init => Queue!Init
  BY QueueStarts
<1>2. IInv /\ [Next]_vars => [Queue!Next]_(Queue!queueVars)
  BY QueueStep
<1> QED BY <1>1, <1>2, Inductive, PTL DEF Spec, Queue!Safe
=============================================================================
