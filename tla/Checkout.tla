------------------------------ MODULE Checkout ------------------------------
(***************************************************************************)
(* OrderService.creatBatchOders, and the farm's handlers that write the    *)
(* same product rows.                                                      *)
(*                                                                         *)
(* A batch is one HTTP request.  It takes a connection of the TypeORM pool *)
(* for its transaction and locks the product rows line by line with SELECT *)
(* ... FOR UPDATE, keeping them until COMMIT or ROLLBACK; its address and  *)
(* farm lookups go through the repositories and so each need a SECOND      *)
(* connection while the first is held.  Every await is a place where       *)
(* another request may run: one action per await.                          *)
(***************************************************************************)
EXTENDS Integers, Sequences, FiniteSets

CONSTANTS
    Batches,        \* calls of creatBatchOders
    Products,       \* rows of the product table
    Carts,          \* what a batch may ask for: sequences of order lines
    Farmers,        \* in-flight handlers of farms that write product rows
    Shelf,          \* quantities a farm may enter as stock_quantity
    PoolSize,       \* connections in the TypeORM pool
    None            \* no batch

Quantity == Nat \ {0}

\* A line of the batch; "opens" marks the first line of an order (of a farm).
Line == [product : Products \cup {None}, qty : Quantity, opens : BOOLEAN]

ASSUME CartsAssumption ==
    \A c \in Carts : c \in Seq(Line) /\ c # <<>> /\ c[1].opens
ASSUME NoneAssumption == None \notin Batches /\ None \notin Products
ASSUME PoolAssumption == PoolSize \in Nat \ {0}
ASSUME FiniteAssumption ==
    IsFiniteSet(Batches) /\ IsFiniteSet(Farmers) /\ Batches \cap Farmers = {}
ASSUME ShelfAssumption == Shelf \subseteq Quantity

\* ProductStatus.  PRE_ORDER is not told apart from NOT_YET_OPEN, and no
\* statement of the program ever stores SOLD_OUT.
ProductStatus == {"NOT_YET_OPEN", "OPEN_FOR_SALE", "CLOSED", "DELETED"}

Phases == {"idle", "address", "farm", "item", "write", "placed", "done", "refused"}

Columns == {"status", "stock", "sold"}

NoEdit == [op : {"none"}]
\* "save": a row as read, not yet handed to save(); "update": an UPDATE of
\* those columns of the row has been sent.
RowEdit == [op : {"save", "update"}, product : Products, columns : SUBSET Columns,
            status : ProductStatus, stock : Int, sold : Nat]
DeletePlan == [op : {"delete"}, product : Products]

VARIABLES
    status, stock, sold,   \* columns of the product rows
    holder,                \* holder[p]: the batch that has the row locked, or None
    cart,                  \* cart[b]: the request body
    phase,                 \* phase[b]: where creatBatchOders is
    at,                    \* at[b]: the line it looks at next
    take,                  \* take[b][p]: units in productUpdates
    flawed,                \* flawed[b]: validationErrors is not empty
    free,                  \* idle connections of the pool
    edit,                  \* edit[f]: what handler f read and is about to write
    rewound                \* (history) rows whose total_sold a stale save changed

rows == <<status, stock, sold>>
batchVars == <<phase, at, take, flawed>>
vars == <<rows, holder, cart, batchVars, free, edit, rewound>>
-----------------------------------------------------------------------------
NextLine(b) == cart[b][at[b]]

\* MUTANT: the row lock is not taken (a plain getOne).
CanReadRow(b, p) == TRUE

\* The row of the line is there for the taking.
CanLock(b, p) == holder[p] \in {None, b}

\* MUTANT: the status of the row is not looked at.
InStock(line) == ~(stock[line.product] < line.qty)

\* The checks on the locked row: open for sale, and enough of it.
Sellable(line) ==
    /\ status[line.product] = "OPEN_FOR_SALE"
    /\ ~(stock[line.product] < line.qty)

\* productUpdates with one more line, for the product of that line.
Taken(b, line) == take[b][line.product] + line.qty

\* The phase after line at[b]: the next order begins with its farm's lookup.
PhaseAfterLine(b) ==
    LET next == at[b] + 1
    IN  CASE next > Len(cart[b])   -> "write"
          [] next <= Len(cart[b]) /\ cart[b][next].opens  -> "farm"
          [] next <= Len(cart[b]) /\ ~cart[b][next].opens -> "item"

\* MUTANT: the transaction is left open.
LocksKept(b) == holder

\* COMMIT and ROLLBACK give the row locks back.
LocksWithout(b) == [p \in Products |-> IF holder[p] = b THEN None ELSE holder[p]]

InTransaction(b) == phase[b] \in {"address", "farm", "item", "write"}

\* Batch b waits for a row lock batch c has.
WaitsFor(b, c) ==
    /\ phase[b] = "item"
    /\ NextLine(b).product \in Products
    /\ holder[NextLine(b).product] = c
    /\ c # b

\* b is on a cycle of waiting transactions; each waits for one other at most.
Deadlocked(b) ==
    \E S \in SUBSET Batches :
        /\ b \in S
        /\ \A c \in S : (\E d \in S : WaitsFor(c, d)) /\ (\E d \in S : WaitsFor(d, c))
-----------------------------------------------------------------------------
Init ==
    /\ status \in [Products -> {"NOT_YET_OPEN", "OPEN_FOR_SALE"}]
    /\ stock \in [Products -> Shelf]
    /\ sold = [p \in Products |-> 0]
    /\ holder = [p \in Products |-> None]
    /\ cart \in [Batches -> Carts]
    /\ phase = [b \in Batches |-> "idle"]
    /\ at = [b \in Batches |-> 1]
    /\ take = [b \in Batches |-> [p \in Products |-> 0]]
    /\ flawed = [b \in Batches |-> FALSE]
    /\ free = PoolSize
    /\ edit = [f \in Farmers |-> [op |-> "none"]]
    /\ rewound = {}

\* createQueryRunner, connect, startTransaction.
Begin(b) ==
    /\ phase[b] = "idle"
    /\ free > 0
    /\ free' = free - 1
    /\ phase' = [phase EXCEPT ![b] = "address"]
    /\ UNCHANGED <<rows, holder, cart, at, take, flawed, edit, rewound>>

\* MUTANT: both the catch and the finally block release the connection.
RollBackReleasingTwice(b) ==
    /\ holder' = LocksWithout(b)
    /\ free' = free + 2
    /\ phase' = [phase EXCEPT ![b] = "refused"]
    /\ UNCHANGED <<rows, cart, at, take, flawed, edit, rewound>>

\* The catch and finally blocks: roll back, release the connection, rethrow.
RollBack(b) ==
    /\ holder' = LocksWithout(b)
    /\ free' = free + 1
    /\ phase' = [phase EXCEPT ![b] = "refused"]
    /\ UNCHANGED <<rows, cart, at, take, flawed, edit, rewound>>

\* validateAndGetDeliveryAddress, through another connection of the pool.
FindAddress(b) ==
    /\ phase[b] = "address"
    /\ free > 0
    /\ \/ /\ phase' = [phase EXCEPT ![b] = "farm"]
          /\ UNCHANGED <<rows, holder, cart, at, take, flawed, free, edit, rewound>>
       \/ RollBack(b)

\* farmService.findFarmById, through another connection of the pool: it
\* throws when the farm is neither VERIFIED nor APPROVED.
FindFarm(b) ==
    /\ phase[b] = "farm"
    /\ free > 0
    /\ \/ /\ phase' = [phase EXCEPT ![b] = "item"]
          /\ UNCHANGED <<rows, holder, cart, at, take, flawed, free, edit, rewound>>
       \/ RollBack(b)

\* One line of the batch: SELECT ... FOR UPDATE, then the checks.  The shelf
\* is compared with this line alone, not with what earlier lines took.
CheckItem(b) ==
    LET line == NextLine(b)
        p    == line.product
    IN  /\ phase[b] = "item"
        /\ \/ /\ p \notin Products
              /\ flawed' = [flawed EXCEPT ![b] = TRUE]
              /\ UNCHANGED <<holder, take>>
           \/ /\ p \in Products
              /\ CanLock(b, p)
              /\ holder' = [holder EXCEPT ![p] = b]
              /\ \/ /\ Sellable(line)
                    /\ take' = [take EXCEPT ![b][p] = Taken(b, line)]
                    /\ UNCHANGED flawed
                 \/ /\ ~Sellable(line)
                    /\ flawed' = [flawed EXCEPT ![b] = TRUE]
                    /\ UNCHANGED take
        /\ phase' = [phase EXCEPT ![b] = PhaseAfterLine(b)]
        /\ at' = [at EXCEPT ![b] = @ + 1]
        /\ UNCHANGED <<rows, cart, free, edit, rewound>>

\* validationErrors.length > 0.
Refuse(b) ==
    /\ phase[b] = "write"
    /\ flawed[b]
    /\ RollBack(b)

\* The payment, the product updates, the orders and their details, COMMIT.
Commit(b) ==
    /\ phase[b] = "write"
    /\ ~flawed[b]
    /\ stock' = [p \in Products |-> stock[p] - take[b][p]]
    /\ sold' = [p \in Products |-> sold[p] + take[b][p]]
    /\ holder' = LocksWithout(b)
    /\ phase' = [phase EXCEPT ![b] = "placed"]
    /\ UNCHANGED <<status, cart, at, take, flawed, free, edit, rewound>>

\* The orders are read back through the pool while the connection of the
\* transaction is still held; the payment link (OrderFulfilment) and the
\* answer follow, and the finally block releases the connection.
Respond(b) ==
    /\ phase[b] = "placed"
    /\ free > 0
    /\ free' = free + 1
    /\ phase' = [phase EXCEPT ![b] = "done"]
    /\ UNCHANGED <<rows, holder, cart, at, take, flawed, edit, rewound>>

\* A statement of the transaction fails for a reason of its own.
DatabaseError(b) == InTransaction(b) /\ RollBack(b)

\* PostgreSQL aborts a transaction of a deadlock.
DeadlockVictim(b) == Deadlocked(b) /\ RollBack(b)
-----------------------------------------------------------------------------
\* An UPDATE of a product row is sent, and keeps its connection until it has
\* the row's lock.
Send(f, row) ==
    /\ free > 0
    /\ free' = free - 1
    /\ edit' = [edit EXCEPT ![f] = row]
    /\ UNCHANGED <<rows, holder, cart, batchVars, rewound>>

StatusUpdate(p, s) == [op |-> "update", product |-> p, columns |-> {"status"},
                       status |-> s, stock |-> 0, sold |-> 0]

\* SeasonService.updateProductStatus: an UPDATE by id, whatever the status is
\* by then, DELETED included.
SetStatus(f, p) ==
    /\ edit[f].op = "none"
    /\ \E s \in {"OPEN_FOR_SALE", "CLOSED"} : Send(f, StatusUpdate(p, s))

\* A handler has read row p and changed its copy to have q on the shelf.
Copy(f, p, q) ==
    /\ free > 0
    /\ edit[f].op = "none"
    /\ edit' = [edit EXCEPT ![f] = [op |-> "save", product |-> p, columns |-> Columns,
                   status |-> status[p], stock |-> q, sold |-> sold[p]]]
    /\ UNCHANGED <<rows, holder, cart, batchVars, free, rewound>>

\* ProductService.updateProduct merges the request into the row it read: the
\* new stock_quantity is the farm's, the rest is as read.
ReadToUpdate(f, p) ==
    /\ status[p] = "NOT_YET_OPEN"
    /\ \E q \in Shelf : Copy(f, p, q)

\* SeasonService.assignSeason reads the row, looks the season up, and will
\* save the row it read; it does so in any status.
ReadToAssign(f, p) == Copy(f, p, stock[p])

\* The columns in which the copy differs from the row.
Changed(copy) ==
    LET p == copy.product
    IN  (IF copy.status # status[p] THEN {"status"} ELSE {})
          \cup (IF copy.stock # stock[p] THEN {"stock"} ELSE {})
          \cup (IF copy.sold # sold[p] THEN {"sold"} ELSE {})

\* save(product) of either handler: TypeORM reads the row again and updates
\* the columns in which the copy, however stale, differs from it.
SaveCopy(f) ==
    /\ edit[f].op = "save"
    /\ Send(f, [edit[f] EXCEPT !.op = "update", !.columns = Changed(edit[f])])

\* ProductService.deleteProduct reads the status ...
ReadToDelete(f, p) ==
    /\ free > 0
    /\ edit[f].op = "none"
    /\ status[p] = "NOT_YET_OPEN"
    /\ edit' = [edit EXCEPT ![f] = [op |-> "delete", product |-> p]]
    /\ UNCHANGED <<rows, holder, cart, batchVars, free, rewound>>

\* ... and then updates it by id alone.
SendDelete(f) ==
    /\ edit[f].op = "delete"
    /\ Send(f, StatusUpdate(edit[f].product, "DELETED"))

\* The row is free, and the UPDATE of any of these handlers happens.
UpdateRow(f) ==
    /\ edit[f].op = "update"
    /\ LET new == edit[f]
           p   == new.product
       IN  /\ holder[p] = None
           /\ status' = IF "status" \in new.columns THEN [status EXCEPT ![p] = new.status] ELSE status
           /\ stock' = IF "stock" \in new.columns THEN [stock EXCEPT ![p] = new.stock] ELSE stock
           /\ sold' = IF "sold" \in new.columns THEN [sold EXCEPT ![p] = new.sold] ELSE sold
           /\ rewound' = IF sold' = sold THEN rewound ELSE rewound \cup {p}
    /\ edit' = [edit EXCEPT ![f] = [op |-> "none"]]
    /\ free' = free + 1
    /\ UNCHANGED <<holder, cart, batchVars>>
-----------------------------------------------------------------------------
\* The program's own steps of a batch.
Step(b) ==
    \/ Begin(b)
    \/ FindAddress(b)
    \/ FindFarm(b)
    \/ CheckItem(b)
    \/ Refuse(b)
    \/ Commit(b)
    \/ Respond(b)

FarmStep(f) ==
    \/ \E p \in Products :
          SetStatus(f, p) \/ ReadToUpdate(f, p) \/ ReadToAssign(f, p) \/ ReadToDelete(f, p)
    \/ SaveCopy(f)
    \/ SendDelete(f)
    \/ UpdateRow(f)

Next ==
    \/ \E b \in Batches : Step(b) \/ DatabaseError(b) \/ DeadlockVictim(b)
    \/ \E f \in Farmers : FarmStep(f)

\* A request that can go on is scheduled by the event loop in the end,
\* PostgreSQL's deadlock detector runs, and an UPDATE that has been sent gets
\* its row; nothing is assumed of the farms.
Fairness ==
    /\ \A b \in Batches : WF_vars(Step(b)) /\ WF_vars(DeadlockVictim(b))
    /\ \A f \in Farmers : WF_vars(UpdateRow(f))

Spec == Init /\ [][Next]_vars /\ Fairness
-----------------------------------------------------------------------------
TypeOK ==
    /\ status \in [Products -> ProductStatus]
    /\ stock \in [Products -> Int]
    /\ sold \in [Products -> Nat]
    /\ holder \in [Products -> Batches \cup {None}]
    /\ cart \in [Batches -> Carts]
    /\ phase \in [Batches -> Phases]
    /\ at \in [Batches -> Nat \ {0}]
    /\ take \in [Batches -> [Products -> Nat]]
    /\ flawed \in [Batches -> BOOLEAN]
    /\ free \in 0 .. PoolSize
    /\ edit \in [Farmers -> NoEdit \cup RowEdit \cup DeletePlan]
    /\ rewound \subseteq Products

Placed == {b \in Batches : phase[b] \in {"placed", "done"}}

\* The cart names product p on two of its lines.
Repeats(c, p) ==
    \E i, j \in 1 .. Len(c) : i # j /\ c[i].product = p /\ c[j].product = p

\* The shelf of a product goes below zero only through a batch that names the
\* product on two lines: every line is checked against the locked row, and no
\* line against the lines before it.
OversoldOnlyByRepeat ==
    \A p \in Products : stock[p] < 0 => \E b \in Placed : Repeats(cart[b], p)

\* No row lock outlives its transaction: whatever way a batch ends, its
\* products can be bought and edited again.
NoLockLeak ==
    \A p \in Products : holder[p] # None => InTransaction(holder[p])

\* Who has a connection of the pool.
Connected ==
    {b \in Batches : phase[b] \notin {"idle", "done", "refused"}}
      \cup {f \in Farmers : edit[f].op = "update"}

\* The pool's books balance: each way a batch can end, by COMMIT, by an error
\* before or after it, or as the victim of a deadlock, gives its connection
\* back, and gives it back once.
ConnectionsAccounted == free + Cardinality(Connected) = PoolSize

\* Every batch is answered, though batches lock the same rows in different
\* orders and all of them draw their second connection from one pool.
EveryBatchAnswered ==
    \A b \in Batches : <>(phase[b] \in {"done", "refused"})
=============================================================================
