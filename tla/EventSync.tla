------------------------------ MODULE EventSync ------------------------------
(***************************************************************************)
(* AuditorRegistryService.handleEvent, for one kind of contract event: a   *)
(* cron job that reads the cursor, asks the node for the newest block and  *)
(* for the events up to it, hands them to its callback, and stores the     *)
(* next block as the cursor.                                               *)
(*                                                                         *)
(* The jobs fire every 30 seconds whether or not the last run has ended,   *)
(* so several runs can be in flight, each with what it has read; the calls *)
(* to the node fail without telling, and the process may stop anywhere.    *)
(* Blocks are never undone: a reorganisation of the chain is not modelled. *)
(***************************************************************************)
EXTENDS Naturals

CONSTANTS
    Events,         \* events of that kind the contract will ever emit
    Poison,         \* those whose assignments cannot be saved
    Runs,           \* runs of the job that can be in flight at once
    MaxBlock,       \* bound: blocks of the chain
    MaxFaults       \* bound: how often the node, database or process fails

ASSUME BoundsAssumption == MaxBlock \in Nat /\ MaxFaults \in Nat

\* What a run has read: the cursor; the newest block; the events.
NoRun == [op : {"none"}]
HeadRun == [op : {"head"}, from : Nat]
QueryRun == [op : {"query"}, from : Nat, to : Nat]
EventsRun == [op : {"handle", "store"}, from : Nat, to : Nat,
              events : SUBSET Events, failed : BOOLEAN]

RunRecords == NoRun \cup HeadRun \cup QueryRun \cup EventsRun

VARIABLES
    head,           \* the newest block
    block,          \* block[e]: the block that has event e, 0 while none has
    devMode,        \* NODE_ENV is not production: the cursor is kept in memory
    cursor,         \* latest_block_processed, which is the next block to read
    run,            \* run[r]: job in flight
    faults,         \* (history) failures so far
    reached,        \* (history) events handed to a callback that returned
    lost,           \* (history) events the cursor passed after a failed query
    again,          \* (history) events handed over more than once
    causes          \* (history) what may have made a run read blocks again

chainVars == <<head, block>>
history == <<reached, lost, again, causes>>
vars == <<chainVars, devMode, cursor, run, faults, history>>

Posted == {e \in Events : block[e] # 0}
Within(from, to) == {e \in Posted : from <= block[e] /\ block[e] <= to}

Idle == [op |-> "none"]
Continue(r, record) == run' = [run EXCEPT ![r] = record]
End(r) == run' = [run EXCEPT ![r] = Idle]

Fault == faults < MaxFaults /\ faults' = faults + 1
-----------------------------------------------------------------------------
Init ==
    /\ head = 0
    /\ block = [e \in Events |-> 0]
    /\ devMode \in BOOLEAN
    /\ cursor = 0
    /\ run = [r \in Runs |-> Idle]
    /\ faults = 0
    /\ reached = {}
    /\ lost = {}
    /\ again = {}
    /\ causes = {}

\* The chain grows by a block, with any events not emitted before.
Mine ==
    /\ head < MaxBlock
    /\ head' = head + 1
    /\ \E new \in SUBSET (Events \ Posted) :
          block' = [e \in Events |-> IF e \in new THEN head + 1 ELSE block[e]]
    /\ UNCHANGED <<devMode, cursor, run, faults, history>>

\* The job fires, and reads the cursor.
Fire(r) ==
    /\ run[r] = Idle
    /\ Continue(r, [op |-> "head", from |-> cursor])
    /\ causes' = IF \E q \in Runs \ {r} : run[q] # Idle
                   THEN causes \cup {"overlap"} ELSE causes
    /\ UNCHANGED <<chainVars, devMode, cursor, faults, reached, lost, again>>

\* The run goes on with block b as the newest, unless it is before the cursor.
Compare(r, b) ==
    /\ run[r].op = "head"
    /\ IF run[r].from > b
         THEN End(r)
         ELSE Continue(r, [op |-> "query", from |-> run[r].from, to |-> b])
    /\ UNCHANGED <<chainVars, devMode, cursor, history>>

\* getCurrentBlockNumber answers, or fails and says 0.
ReadHead(r) == Compare(r, head) /\ UNCHANGED faults
ReadNoHead(r) == Compare(r, 0) /\ Fault

\* The events the node has been asked for.
Answer(r, found, failure) ==
    /\ run[r].op = "query"
    /\ Continue(r, [op |-> "handle", from |-> run[r].from, to |-> run[r].to,
                    events |-> found, failed |-> failure])
    /\ UNCHANGED <<chainVars, devMode, cursor, history>>

\* getPastEvents answers, or fails, which is taken for no events at all.
Query(r) == Answer(r, Within(run[r].from, run[r].to), FALSE) /\ UNCHANGED faults
QueryFails(r) == Answer(r, {}, TRUE) /\ Fault

\* The callback returns: the assignments are saved, or the results emitted.
Handle(r) ==
    /\ run[r].op = "handle"
    /\ run[r].events \cap Poison = {}
    /\ reached' = reached \cup run[r].events
    /\ again' = again \cup (reached \cap run[r].events)
    /\ Continue(r, [run[r] EXCEPT !.op = "store"])
    /\ UNCHANGED <<chainVars, devMode, cursor, faults, lost, causes>>

\* One event whose assignment cannot be saved, say of a log that does not exist,
\* and nothing of the batch is; the next run starts with the same blocks.
Refuse(r) ==
    /\ run[r].op = "handle"
    /\ run[r].events \cap Poison # {}
    /\ End(r)
    /\ UNCHANGED <<chainVars, devMode, cursor, faults, history>>

\* MUTANT: the newest block is looked up again.
AfterHead(r) == head + 1

\* MUTANT: the cursor is the last block that has been processed, as its name
\* says, and is read as the next one.
LastBlock(r) == run[r].to

\* MUTANT: one block too far back.
BlockBefore(r) == run[r].to - 1

\* The block after the last one the run has asked about.
NextBlock(r) == run[r].to + 1

\* updateState, or the cursor in memory.
Store(r) ==
    /\ run[r].op = "store"
    /\ cursor' = NextBlock(r)
    /\ lost' = IF run[r].failed
                 THEN lost \cup (Within(run[r].from, run[r].to) \ reached) ELSE lost
    /\ End(r)
    /\ UNCHANGED <<chainVars, devMode, faults, reached, again, causes>>

\* The database fails, or the callback throws: nothing of it is stored.
Abandon(r) ==
    /\ Fault
    /\ run[r] # Idle
    /\ causes' = IF run[r].op = "store" THEN causes \cup {"unstored"} ELSE causes
    /\ End(r)
    /\ UNCHANGED <<chainVars, devMode, cursor, reached, lost, again>>

\* The process stops and starts again; in dev mode it begins at block 0.
Restart ==
    /\ Fault
    /\ cursor' = IF devMode THEN 0 ELSE cursor
    /\ run' = [r \in Runs |-> Idle]
    /\ causes' = IF devMode \/ \E r \in Runs : run[r].op = "store"
                   THEN causes \cup {"restart"} ELSE causes
    /\ UNCHANGED <<chainVars, devMode, reached, lost, again>>
-----------------------------------------------------------------------------
\* What a run does when nothing fails.
RunStep(r) == Fire(r) \/ ReadHead(r) \/ Query(r) \/ Handle(r) \/ Refuse(r) \/ Store(r)

RunFault(r) == ReadNoHead(r) \/ QueryFails(r) \/ Abandon(r)

Next ==
    \/ Mine
    \/ Restart
    \/ \E r \in Runs : RunStep(r) \/ RunFault(r)

\* The scheduler fires the job, and a run goes on; as there are MaxFaults
\* failures at most, whatever a run depends on answers it in the end.
Fairness == \A r \in Runs : WF_vars(RunStep(r))

Spec == Init /\ [][Next]_vars /\ Fairness
-----------------------------------------------------------------------------
TypeOK ==
    /\ head \in 0 .. MaxBlock
    /\ block \in [Events -> 0 .. MaxBlock]
    /\ devMode \in BOOLEAN
    /\ cursor \in Nat
    /\ run \in [Runs -> RunRecords]
    /\ faults \in 0 .. MaxFaults
    /\ reached \subseteq Posted
    /\ lost \subseteq Posted
    /\ again \subseteq reached
    /\ causes \subseteq {"overlap", "unstored", "restart"}

\* The cursor passes no event by: each block before it was asked about, and
\* its events were handed over, or the node had failed to give them.
NothingSkipped ==
    \A e \in Posted : block[e] < cursor => e \in reached \cup lost

\* An event is handled twice only after two runs have overlapped, or a run has
\* thrown, or the process has stopped, between a callback and its cursor, or
\* the process has restarted in dev mode.
HandledAgainForCause == again # {} => causes # {}

Queue == INSTANCE AtLeastOnceQueue
           WITH Messages <- Events, posted <- Posted,
                queued <- {e \in Posted : block[e] >= cursor}

\* The job is an at-least-once queue: however its runs overlap, fail and
\* restart, and although an old run may set the cursor back, an event leaves
\* the queue only when handled or lost, and in the end does either, as long as the
\* contract has emitted no event whose assignment cannot be saved.
ImplementsQueue == Queue!Spec
=============================================================================
