--------------------------- MODULE CheckoutProofs ---------------------------
(***************************************************************************)
(* Proofs about Checkout, for any batches, carts, shelves, farmers and     *)
(* size of the connection pool.                                            *)
(***************************************************************************)
EXTENDS CheckoutLedger, FiniteSums

\* A batch that has lines left stands at one of them.
AtALine ==
    \A b \in Batches : phase[b] \in {"idle", "address", "farm", "item"} => at[b] \in 1 .. Len(cart[b])

\* A batch takes only what earlier lines of its cart name ...
TakenWasNamed ==
    \A b \in Batches, p \in Products : take[b][p] # 0 =>
        \E i \in 1 .. Len(cart[b]) : i < at[b] /\ cart[b][i].product = p

NothingTakenBefore ==
    \A b \in Batches, p \in Products : phase[b] = "idle" => take[b][p] = 0

\* ... has that row locked until it ends, and finds it on the shelf unless
\* the cart names the product again.
TakenIsLocked ==
    \A b \in Batches, p \in Products : InTransaction(b) /\ take[b][p] # 0 =>
        /\ holder[p] = b
        /\ take[b][p] <= stock[p] \/ Repeats(cart[b], p)

\* A placed batch names product p twice.
OverdrawnBefore(p) == \E b \in Placed : Repeats(cart[b], p)

\* A copy of a row holds a negative shelf only if the row had one.
CopiesWereSeen ==
    \A f \in Farmers : edit[f].op \in {"save", "update"} /\ edit[f].stock < 0 =>
        OverdrawnBefore(edit[f].product)

IInv ==
    /\ TypeOK
    /\ AtALine
    /\ NoLockLeak
    /\ TakenWasNamed
    /\ NothingTakenBefore
    /\ TakenIsLocked
    /\ CopiesWereSeen
    /\ OversoldOnlyByRepeat
    /\ ConnectionsAccounted
-----------------------------------------------------------------------------
USE CartsAssumption, NoneAssumption, PoolAssumption, ShelfAssumption, FiniteAssumption

\* The line a batch looks at is a line, and the phase after it is one where
\* there is a line left, or the end of the cart.
LEMMA LineShape ==
    ASSUME TypeOK, AtALine, NEW b \in Batches, phase[b] = "item"
    PROVE  /\ at[b] \in 1 .. Len(cart[b])
           /\ NextLine(b) \in Line
           /\ PhaseAfterLine(b) \in {"write", "farm", "item"}
           /\ PhaseAfterLine(b) # "write" => at[b] + 1 \in 1 .. Len(cart[b])
           /\ PhaseAfterLine(b) = "write" => at[b] = Len(cart[b])
<1>1. cart[b] \in Seq(Line) /\ at[b] \in 1 .. Len(cart[b])
  BY DEF TypeOK, AtALine
<1>2. NextLine(b) \in Line
  BY <1>1 DEF NextLine
<1>3. CASE at[b] + 1 > Len(cart[b])
  BY <1>1, <1>2, <1>3 DEF PhaseAfterLine
<1>4. CASE at[b] + 1 <= Len(cart[b])
  <2>1. at[b] + 1 \in 1 .. Len(cart[b]) /\ cart[b][at[b] + 1] \in Line
    BY <1>1, <1>4
  <2>2. cart[b][at[b] + 1].opens \in BOOLEAN
    BY <2>1 DEF Line
  <2>3. PhaseAfterLine(b) \in {"farm", "item"}
    BY <1>1, <1>4, <2>1, <2>2 DEF PhaseAfterLine
  <2> QED
    BY <1>1, <1>2, <2>1, <2>3
<1> QED
  BY <1>1, <1>3, <1>4

\* Only a batch that waits for a row lock is on a cycle.
LEMMA DeadlockedWaits ==
    ASSUME NEW b \in Batches, Deadlocked(b)
    PROVE  phase[b] = "item"
BY DEF Deadlocked, WaitsFor

\* The connections in use are finitely many.
LEMMA ConnectedFinite == IsFiniteSet(Connected)
<1>1. IsFiniteSet(Batches \cup Farmers)
  BY FS_Union
<1>2. Connected \in SUBSET (Batches \cup Farmers)
  BY DEF Connected
<1> QED
  BY <1>1, <1>2, FS_Subset

\* A connection more, a connection less.
LEMMA Connects ==
    ASSUME IInv, NEW x, x \notin Connected, Connected' = Connected \cup {x},
           free > 0, free' = free - 1
    PROVE  ConnectionsAccounted' /\ free' \in 0 .. PoolSize
<1>1. Cardinality(Connected') = Cardinality(Connected) + 1
  BY ConnectedFinite, FS_AddElement
<1>2. Cardinality(Connected) \in Nat
  BY ConnectedFinite, FS_CardinalityType
<1> QED
  BY <1>1, <1>2 DEF IInv, TypeOK, ConnectionsAccounted

\* A handler gives its connection back.
LEMMA Disconnects ==
    ASSUME IInv, NEW x, x \in Connected, Connected' = Connected \ {x}, free' = free + 1
    PROVE  ConnectionsAccounted' /\ free' \in 0 .. PoolSize
<1>1. Cardinality(Connected') = Cardinality(Connected) - 1
  BY ConnectedFinite, FS_RemoveElement
<1>2. Cardinality(Connected') \in Nat
  <2>1. IsFiniteSet(Connected')
    BY ConnectedFinite, FS_RemoveElement
  <2> QED
    BY <2>1, FS_CardinalityType
<1>3. Cardinality(Connected) \in Nat
  BY ConnectedFinite, FS_CardinalityType
<1> QED
  BY <1>1, <1>2, <1>3 DEF IInv, TypeOK, ConnectionsAccounted

\* A batch that was placed stays placed.
LEMMA OverdrawnStays ==
    ASSUME cart' = cart, Placed \subseteq Placed', NEW p \in Products, OverdrawnBefore(p)
    PROVE  OverdrawnBefore(p)'
BY DEF OverdrawnBefore, Repeats
-----------------------------------------------------------------------------
\* Begin, FindAddress and FindFarm: the batch goes on, and its rows stay as
\* they are.
LEMMA GoOnStep ==
    ASSUME IInv, NEW b \in Batches, NEW ph \in {"address", "farm", "item"},
           phase[b] \in {"idle", "address", "farm"},
           phase' = [phase EXCEPT ![b] = ph],
           UNCHANGED <<rows, holder, cart, at, take, flawed, edit, rewound>>,
           ConnectionsAccounted', free' \in 0 .. PoolSize
    PROVE  IInv'
<1> USE DEF IInv, rows
<1>1. TypeOK'
  BY DEF TypeOK, Phases
<1>2. AtALine'
  BY DEF AtALine, TypeOK
<1>3. NoLockLeak'
  BY DEF NoLockLeak, InTransaction, TypeOK
<1>4. TakenWasNamed'
  BY DEF TakenWasNamed
<1>5. NothingTakenBefore'
  BY DEF NothingTakenBefore, TypeOK
<1>6. TakenIsLocked'
  BY DEF TakenIsLocked, NothingTakenBefore, InTransaction, Repeats, TypeOK
<1>7. Placed' = Placed
  BY DEF Placed, TypeOK
<1>8. CopiesWereSeen' /\ OversoldOnlyByRepeat'
  BY <1>7 DEF CopiesWereSeen, OversoldOnlyByRepeat, OverdrawnBefore, Repeats
<1> QED
  BY <1>1, <1>2, <1>3, <1>4, <1>5, <1>6, <1>8

\* A batch takes its connection: no row is locked yet.
LEMMA BeginStep ==
    ASSUME IInv, NEW b \in Batches, Begin(b)
    PROVE  IInv'
<1>1. b \notin Connected /\ Connected' = Connected \cup {b}
  BY DEF Begin, Connected, IInv, TypeOK
<1>2. ConnectionsAccounted' /\ free' \in 0 .. PoolSize
  BY <1>1, Connects DEF Begin
<1> QED
  BY <1>2, GoOnStep DEF Begin

\* A batch that is rolled back unlocks its rows and was not placed.
LEMMA RollBackStep ==
    ASSUME IInv, NEW b \in Batches, InTransaction(b), RollBack(b)
    PROVE  IInv'
<1> USE DEF IInv, RollBack, rows
<1>1. b \in Connected /\ Connected' = Connected \ {b}
  BY DEF Connected, InTransaction, TypeOK
<1>2. ConnectionsAccounted' /\ free' \in 0 .. PoolSize
  BY <1>1, Disconnects
<1>3. TypeOK'
  BY <1>2 DEF TypeOK, Phases, LocksWithout
<1>4. AtALine'
  BY DEF AtALine, TypeOK
<1>5. NoLockLeak'
  BY DEF NoLockLeak, InTransaction, LocksWithout, TypeOK
<1>6. TakenWasNamed' /\ NothingTakenBefore'
  BY DEF TakenWasNamed, NothingTakenBefore, TypeOK
<1>7. TakenIsLocked'
  BY DEF TakenIsLocked, InTransaction, LocksWithout, Repeats, TypeOK
<1>8. Placed' = Placed
  BY DEF Placed, InTransaction, TypeOK
<1>9. CopiesWereSeen' /\ OversoldOnlyByRepeat'
  BY <1>8 DEF CopiesWereSeen, OversoldOnlyByRepeat, OverdrawnBefore, Repeats
<1> QED
  BY <1>2, <1>3, <1>4, <1>5, <1>6, <1>7, <1>9

\* The address and farm lookups, and the errors they end in.
LEMMA LookupStep ==
    ASSUME IInv, NEW b \in Batches, FindAddress(b) \/ FindFarm(b)
    PROVE  IInv'
<1>1. InTransaction(b)
  BY DEF FindAddress, FindFarm, InTransaction
<1>2. CASE RollBack(b)
  BY <1>1, <1>2, RollBackStep
<1>3. CASE ~RollBack(b)
  <2>1. UNCHANGED <<rows, holder, cart, at, take, flawed, free, edit, rewound>>
    BY <1>3 DEF FindAddress, FindFarm
  <2>2. PICK ph \in {"farm", "item"} : phase' = [phase EXCEPT ![b] = ph]
    BY <1>3 DEF FindAddress, FindFarm
  <2>3. Connected' = Connected
    BY <1>1, <2>1, <2>2 DEF Connected, InTransaction, IInv, TypeOK
  <2>4. ConnectionsAccounted' /\ free' \in 0 .. PoolSize
    BY <2>1, <2>3 DEF ConnectionsAccounted, IInv, TypeOK
  <2>5. phase[b] \in {"address", "farm"}
    BY DEF FindAddress, FindFarm
  <2> QED
    BY <2>1, <2>2, <2>4, <2>5, GoOnStep
<1> QED
  BY <1>2, <1>3

\* One more line: the row is locked before it is checked, and what is taken of
\* it is on the shelf unless an earlier line named it.
LEMMA CheckItemStep ==
    ASSUME IInv, NEW b \in Batches, CheckItem(b)
    PROVE  IInv'
<1> USE DEF IInv
<1> DEFINE line == NextLine(b)
           p == line.product
<1>1. /\ phase[b] = "item"
      /\ phase' = [phase EXCEPT ![b] = PhaseAfterLine(b)]
      /\ at' = [at EXCEPT ![b] = at[b] + 1]
      /\ UNCHANGED <<status, stock, sold, cart, free, edit, rewound>>
  BY DEF CheckItem, rows
<1>2. /\ at[b] \in 1 .. Len(cart[b])
      /\ line \in Line /\ line.qty \in Quantity
      /\ PhaseAfterLine(b) \in {"write", "farm", "item"}
      /\ PhaseAfterLine(b) # "write" => at[b] + 1 \in 1 .. Len(cart[b])
  BY <1>1, LineShape DEF Line
<1>3. \/ UNCHANGED <<holder, take>> /\ flawed' = [flawed EXCEPT ![b] = TRUE]
      \/ /\ p \in Products /\ CanLock(b, p)
         /\ holder' = [holder EXCEPT ![p] = b]
         /\ flawed' = [flawed EXCEPT ![b] = TRUE]
         /\ UNCHANGED take
      \/ /\ p \in Products /\ CanLock(b, p) /\ Sellable(line)
         /\ holder' = [holder EXCEPT ![p] = b]
         /\ take' = [take EXCEPT ![b][p] = take[b][p] + line.qty]
         /\ UNCHANGED flawed
  BY DEF CheckItem, Taken
<1> HIDE DEF line, p
<1>4. TypeOK'
  <2>1. take' \in [Batches -> [Products -> Nat]]
    <3>1. CASE UNCHANGED take
      BY <3>1 DEF TypeOK
    <3>2. CASE p \in Products /\ take' = [take EXCEPT ![b][p] = take[b][p] + line.qty]
      <4>1. take[b] \in [Products -> Nat] /\ take[b][p] + line.qty \in Nat
        BY <1>2, <3>2 DEF TypeOK, Quantity
      <4>2. [take[b] EXCEPT ![p] = take[b][p] + line.qty] \in [Products -> Nat]
        BY <4>1
      <4> QED
        BY <3>2, <4>2 DEF TypeOK
    <3> QED
      BY <1>3, <3>1, <3>2
  <2>2. holder' \in [Products -> Batches \cup {None}] /\ flawed' \in [Batches -> BOOLEAN]
    BY <1>3 DEF TypeOK
  <2>3. at' \in [Batches -> Nat \ {0}]
    BY <1>1 DEF TypeOK
  <2>4. phase' \in [Batches -> Phases]
    BY <1>1, <1>2 DEF TypeOK, Phases
  <2> QED
    BY <1>1, <2>1, <2>2, <2>3, <2>4 DEF TypeOK
<1>5. AtALine'
  BY <1>1, <1>2 DEF AtALine, TypeOK
<1>6. NoLockLeak'
  BY <1>1, <1>2, <1>3 DEF NoLockLeak, InTransaction, TypeOK
<1>7. TakenWasNamed'
  <2> SUFFICES ASSUME NEW c \in Batches, NEW q \in Products, take'[c][q] # 0
               PROVE  \E i \in 1 .. Len(cart[c]) : i < at'[c] /\ cart[c][i].product = q
    BY <1>1 DEF TakenWasNamed
  <2>1. CASE take[c][q] # 0
    BY <1>1, <2>1 DEF TakenWasNamed, TypeOK
  <2>2. CASE take[c][q] = 0
    <3>1. c = b /\ q = p
      BY <1>3, <2>2 DEF TypeOK
    <3>2. cart[b][at[b]].product = p
      BY DEF p, line, NextLine
    <3> QED
      BY <1>1, <1>2, <3>1, <3>2 DEF TypeOK
  <2> QED
    BY <2>1, <2>2
<1>8. NothingTakenBefore'
  BY <1>1, <1>2, <1>3 DEF NothingTakenBefore, TypeOK
<1>9. TakenIsLocked'
  <2> SUFFICES ASSUME NEW c \in Batches, NEW q \in Products, InTransaction(c)', take'[c][q] # 0
               PROVE  holder'[q] = c /\ (take'[c][q] <= stock[q] \/ Repeats(cart[c], q))
    BY <1>1 DEF TakenIsLocked, Repeats
  <2>1. InTransaction(c)
    BY <1>1 DEF InTransaction, TypeOK
  <2>2. CASE take'[c][q] = take[c][q]
    <3>1. holder[q] = c /\ (take'[c][q] <= stock[q] \/ Repeats(cart[c], q))
      BY <2>1, <2>2 DEF TakenIsLocked
    <3> QED
      BY <1>3, <3>1 DEF CanLock, TypeOK
  <2>3. CASE take'[c][q] # take[c][q]
    <3>1. /\ c = b /\ q = p /\ Sellable(line)
          /\ holder'[p] = b /\ take'[b][p] = take[b][p] + line.qty
      BY <1>3, <2>3 DEF TypeOK
    <3>2. line.qty <= stock[p]
      BY <1>2, <3>1 DEF Sellable, p, Quantity, TypeOK
    <3>3. CASE take[b][p] = 0
      BY <1>2, <3>1, <3>2, <3>3 DEF Quantity
    <3>4. CASE take[b][p] # 0
      <4>1. PICK i \in 1 .. Len(cart[b]) : i < at[b] /\ cart[b][i].product = p
        BY <3>1, <3>4 DEF TakenWasNamed
      <4>2. cart[b][at[b]].product = p
        BY DEF p, line, NextLine
      <4>3. Repeats(cart[b], p)
        BY <1>2, <4>1, <4>2 DEF Repeats
      <4> QED
        BY <3>1, <4>3
    <3> QED
      BY <3>3, <3>4
  <2> QED
    BY <2>2, <2>3
<1>10. Placed' = Placed /\ Connected' = Connected
  BY <1>1, <1>2 DEF Placed, Connected, TypeOK
<1>11. CopiesWereSeen' /\ OversoldOnlyByRepeat' /\ ConnectionsAccounted'
  BY <1>1, <1>10 DEF CopiesWereSeen, OversoldOnlyByRepeat, OverdrawnBefore, Repeats,
                     ConnectionsAccounted
<1> QED
  BY <1>4, <1>5, <1>6, <1>7, <1>8, <1>9, <1>11

\* COMMIT: what the batch takes comes off shelves that were its own to lock.
LEMMA CommitStep ==
    ASSUME IInv, NEW b \in Batches, Commit(b)
    PROVE  IInv'
<1> USE DEF IInv
<1>1. /\ phase[b] = "write"
      /\ stock' = [p \in Products |-> stock[p] - take[b][p]]
      /\ sold' = [p \in Products |-> sold[p] + take[b][p]]
      /\ holder' = LocksWithout(b)
      /\ phase' = [phase EXCEPT ![b] = "placed"]
      /\ UNCHANGED <<status, cart, at, take, flawed, free, edit, rewound>>
  BY DEF Commit
<1>2. TypeOK'
  BY <1>1 DEF TypeOK, Phases, LocksWithout
<1>3. AtALine'
  BY <1>1 DEF AtALine, TypeOK
<1>4. NoLockLeak'
  BY <1>1 DEF NoLockLeak, InTransaction, LocksWithout, TypeOK
<1>5. TakenWasNamed' /\ NothingTakenBefore'
  BY <1>1 DEF TakenWasNamed, NothingTakenBefore, TypeOK
<1>6. TakenIsLocked'
  <2> SUFFICES ASSUME NEW c \in Batches, NEW q \in Products, InTransaction(c)', take[c][q] # 0
               PROVE  holder'[q] = c /\ (take[c][q] <= stock'[q] \/ Repeats(cart[c], q))
    BY <1>1 DEF TakenIsLocked, Repeats
  <2>1. InTransaction(c) /\ c # b
    BY <1>1 DEF InTransaction, TypeOK
  <2>2. holder[q] = c /\ (take[c][q] <= stock[q] \/ Repeats(cart[c], q))
    BY <2>1 DEF TakenIsLocked
  <2>3. take[b][q] = 0
    BY <1>1, <2>1, <2>2 DEF TakenIsLocked, InTransaction
  <2> QED
    BY <1>1, <2>1, <2>2, <2>3 DEF LocksWithout, TypeOK
<1>7. Placed' = Placed \cup {b} /\ Connected' = Connected
  BY <1>1 DEF Placed, Connected, TypeOK
<1>8. CopiesWereSeen'
  <2> SUFFICES ASSUME NEW f \in Farmers, edit[f].op \in {"save", "update"}, edit[f].stock < 0
               PROVE  OverdrawnBefore(edit[f].product)'
    BY <1>1 DEF CopiesWereSeen
  <2>1. OverdrawnBefore(edit[f].product)
    BY DEF CopiesWereSeen
  <2> QED
    BY <1>1, <1>7, <2>1 DEF OverdrawnBefore, Repeats
<1>9. OversoldOnlyByRepeat'
  <2> SUFFICES ASSUME NEW p \in Products, stock'[p] < 0
               PROVE  OverdrawnBefore(p)'
    BY <1>1 DEF OversoldOnlyByRepeat, OverdrawnBefore
  <2>1. CASE stock[p] < 0
    BY <1>1, <1>7, <2>1, OverdrawnStays DEF OversoldOnlyByRepeat, OverdrawnBefore
  <2>2. CASE ~(stock[p] < 0)
    <3>1. take[b][p] # 0 /\ ~(take[b][p] <= stock[p])
      BY <1>1, <2>2 DEF TypeOK
    <3>2. Repeats(cart[b], p)
      BY <1>1, <3>1 DEF TakenIsLocked, InTransaction
    <3> QED
      BY <1>1, <1>7, <3>2 DEF OverdrawnBefore, Repeats
  <2> QED
    BY <2>1, <2>2
<1>10. ConnectionsAccounted'
  BY <1>1, <1>7 DEF ConnectionsAccounted
<1> QED
  BY <1>2, <1>3, <1>4, <1>5, <1>6, <1>8, <1>9, <1>10

\* The answer of a placed batch gives its connection back.
LEMMA RespondStep ==
    ASSUME IInv, NEW b \in Batches, Respond(b)
    PROVE  IInv'
<1> USE DEF IInv, rows
<1>1. /\ phase[b] = "placed" /\ phase' = [phase EXCEPT ![b] = "done"] /\ free' = free + 1
      /\ UNCHANGED <<rows, holder, cart, at, take, flawed, edit, rewound>>
  BY DEF Respond
<1>2. b \in Connected /\ Connected' = Connected \ {b}
  BY <1>1 DEF Connected, TypeOK
<1>3. ConnectionsAccounted' /\ free' \in 0 .. PoolSize
  BY <1>1, <1>2, Disconnects
<1>4. TypeOK'
  BY <1>1, <1>3 DEF TypeOK, Phases
<1>5. AtALine' /\ NoLockLeak' /\ TakenWasNamed' /\ NothingTakenBefore'
  BY <1>1 DEF AtALine, NoLockLeak, TakenWasNamed, NothingTakenBefore, InTransaction, TypeOK
<1>6. TakenIsLocked'
  BY <1>1 DEF TakenIsLocked, InTransaction, Repeats, TypeOK
<1>7. Placed' = Placed
  BY <1>1 DEF Placed, TypeOK
<1>8. CopiesWereSeen' /\ OversoldOnlyByRepeat'
  BY <1>1, <1>7 DEF CopiesWereSeen, OversoldOnlyByRepeat, OverdrawnBefore, Repeats
<1> QED
  BY <1>3, <1>4, <1>5, <1>6, <1>8
-----------------------------------------------------------------------------
\* A step of a farm's handler leaves the batches alone; what it has to keep is
\* the type of its record, the cause of a negative shelf, and the pool.
LEMMA FarmFrame ==
    ASSUME IInv, UNCHANGED <<holder, cart, batchVars>>,
           status' \in [Products -> ProductStatus], stock' \in [Products -> Int],
           sold' \in [Products -> Nat], rewound' \subseteq Products,
           edit' \in [Farmers -> NoEdit \cup RowEdit \cup DeletePlan],
           \A p \in Products : stock'[p] # stock[p] =>
               holder[p] = None /\ (stock'[p] < 0 => OverdrawnBefore(p)),
           \A f \in Farmers : edit'[f].op \in {"save", "update"} /\ edit'[f].stock < 0 =>
               OverdrawnBefore(edit'[f].product),
           ConnectionsAccounted', free' \in 0 .. PoolSize
    PROVE  IInv'
<1> USE DEF IInv, batchVars
<1>1. TypeOK'
  BY DEF TypeOK
<1>2. AtALine' /\ NoLockLeak' /\ TakenWasNamed' /\ NothingTakenBefore'
  BY DEF AtALine, NoLockLeak, TakenWasNamed, NothingTakenBefore, InTransaction
<1>3. TakenIsLocked'
  BY DEF TakenIsLocked, InTransaction, Repeats
<1>4. \A p : OverdrawnBefore(p)' <=> OverdrawnBefore(p)
  BY DEF OverdrawnBefore, Placed, Repeats
<1>5. CopiesWereSeen'
  BY <1>4 DEF CopiesWereSeen
<1>6. OversoldOnlyByRepeat'
  BY <1>4 DEF OversoldOnlyByRepeat, OverdrawnBefore
<1> QED
  BY <1>1, <1>2, <1>3, <1>5, <1>6

\* An UPDATE is sent: the handler takes a connection.
LEMMA SendStep ==
    ASSUME IInv, NEW f \in Farmers, NEW row \in RowEdit, row.op = "update",
           edit[f].op # "update", Send(f, row), row.stock < 0 => OverdrawnBefore(row.product)
    PROVE  IInv'
<1>1. f \notin Connected /\ Connected' = Connected \cup {f}
  BY DEF Send, Connected, IInv, TypeOK, batchVars
<1>2. ConnectionsAccounted' /\ free' \in 0 .. PoolSize
  BY <1>1, Connects DEF Send
<1> QED
  BY <1>2, FarmFrame DEF Send, IInv, TypeOK, rows, CopiesWereSeen

\* A handler that has only read keeps the pool as it is.
LEMMA KeepsConnections ==
    ASSUME IInv, NEW f \in Farmers, edit[f].op # "update", NEW row, row.op # "update",
           edit' = [edit EXCEPT ![f] = row], UNCHANGED <<batchVars, free>>
    PROVE  ConnectionsAccounted' /\ free' \in 0 .. PoolSize
<1>1. Connected' = Connected
  BY DEF Connected, IInv, TypeOK, batchVars
<1> QED
  BY <1>1 DEF ConnectionsAccounted, IInv, TypeOK

\* A row is copied: a negative shelf in the copy has its cause by then.
LEMMA CopyStep ==
    ASSUME IInv, NEW f \in Farmers, NEW p \in Products, NEW q \in Int, Copy(f, p, q),
           q < 0 => OverdrawnBefore(p)
    PROVE  IInv'
<1> DEFINE row == [op |-> "save", product |-> p, columns |-> Columns,
                   status |-> status[p], stock |-> q, sold |-> sold[p]]
<1>1. row \in RowEdit
  BY DEF IInv, TypeOK, RowEdit
<1>2. edit' = [edit EXCEPT ![f] = row] /\ edit[f].op = "none"
  BY DEF Copy
<1>3. row.op = "save" /\ row.stock = q /\ row.product = p
  OBVIOUS
<1> HIDE DEF row
<1>4. ConnectionsAccounted' /\ free' \in 0 .. PoolSize
  BY <1>2, <1>3, KeepsConnections DEF Copy
<1> QED
  BY <1>1, <1>2, <1>3, <1>4, FarmFrame DEF Copy, IInv, TypeOK, rows, CopiesWereSeen

\* The status of a row is read in order to delete it.
LEMMA ReadToDeleteStep ==
    ASSUME IInv, NEW f \in Farmers, NEW p \in Products, ReadToDelete(f, p)
    PROVE  IInv'
<1> DEFINE row == [op |-> "delete", product |-> p]
<1>1. row \in DeletePlan /\ row.op = "delete"
  BY DEF DeletePlan
<1>2. edit' = [edit EXCEPT ![f] = row] /\ edit[f].op = "none"
  BY DEF ReadToDelete
<1> HIDE DEF row
<1>3. ConnectionsAccounted' /\ free' \in 0 .. PoolSize
  BY <1>1, <1>2, KeepsConnections DEF ReadToDelete
<1> QED
  BY <1>1, <1>2, <1>3, FarmFrame DEF ReadToDelete, IInv, TypeOK, rows, CopiesWereSeen

\* An UPDATE happens: no batch has the row locked, so none relies on it.
LEMMA UpdateRowStep ==
    ASSUME IInv, NEW f \in Farmers, UpdateRow(f)
    PROVE  IInv'
<1> DEFINE new == edit[f]
           p == new.product
<1>1. new \in RowEdit /\ p \in Products
  BY DEF UpdateRow, IInv, TypeOK, NoEdit, RowEdit, DeletePlan
<1>2. /\ holder[p] = None
      /\ status' \in [Products -> ProductStatus]
      /\ stock' = IF "stock" \in new.columns THEN [stock EXCEPT ![p] = new.stock] ELSE stock
      /\ sold' \in [Products -> Nat]
      /\ rewound' \subseteq Products
  BY <1>1 DEF UpdateRow, IInv, TypeOK, RowEdit
<1>3. stock' \in [Products -> Int]
  BY <1>1, <1>2 DEF IInv, TypeOK, RowEdit
<1>4. new.stock < 0 => OverdrawnBefore(p)
  BY DEF UpdateRow, IInv, CopiesWereSeen
<1>5. f \in Connected /\ Connected' = Connected \ {f}
  BY DEF UpdateRow, Connected, IInv, TypeOK, batchVars
<1>6. ConnectionsAccounted' /\ free' \in 0 .. PoolSize
  BY <1>5, Disconnects DEF UpdateRow
<1>7. edit' = [edit EXCEPT ![f] = [op |-> "none"]]
  BY DEF UpdateRow
<1>8. \A q \in Products : stock'[q] # stock[q] => holder[q] = None /\ (stock'[q] < 0 => OverdrawnBefore(q))
  BY <1>1, <1>2, <1>4 DEF IInv, TypeOK
<1>9. /\ edit' \in [Farmers -> NoEdit \cup RowEdit \cup DeletePlan]
      /\ \A g \in Farmers : edit'[g].op \in {"save", "update"} /\ edit'[g].stock < 0 =>
            OverdrawnBefore(edit'[g].product)
  BY <1>7 DEF IInv, TypeOK, NoEdit, CopiesWereSeen
<1> QED
  BY <1>2, <1>3, <1>6, <1>8, <1>9, FarmFrame DEF UpdateRow

\* Every step of a farm's handler preserves the invariant.
LEMMA FarmStepStep ==
    ASSUME IInv, NEW f \in Farmers, FarmStep(f)
    PROVE  IInv'
<1>1. ASSUME NEW p \in Products, SetStatus(f, p) PROVE IInv'
  <2>1. PICK s \in {"OPEN_FOR_SALE", "CLOSED"} : Send(f, StatusUpdate(p, s))
    BY <1>1 DEF SetStatus
  <2>2. /\ StatusUpdate(p, s) \in RowEdit
        /\ StatusUpdate(p, s).op = "update" /\ StatusUpdate(p, s).stock = 0
    BY DEF StatusUpdate, RowEdit, Columns, ProductStatus
  <2> QED
    BY <1>1, <2>1, <2>2, SendStep DEF SetStatus
<1>2. ASSUME NEW p \in Products, ReadToUpdate(f, p) PROVE IInv'
  <2>1. PICK q \in Shelf : Copy(f, p, q)
    BY <1>2 DEF ReadToUpdate
  <2>2. q \in Int /\ ~(q < 0)
    BY DEF Quantity
  <2> QED
    BY <2>1, <2>2, CopyStep
<1>3. ASSUME NEW p \in Products, ReadToAssign(f, p) PROVE IInv'
  <2>1. stock[p] \in Int /\ (stock[p] < 0 => OverdrawnBefore(p))
    BY DEF IInv, TypeOK, OversoldOnlyByRepeat, OverdrawnBefore
  <2> QED
    BY <1>3, <2>1, CopyStep DEF ReadToAssign
<1>4. ASSUME NEW p \in Products, ReadToDelete(f, p) PROVE IInv'
  BY <1>4, ReadToDeleteStep
<1>5. ASSUME SaveCopy(f) PROVE IInv'
  <2> DEFINE row == [edit[f] EXCEPT !.op = "update", !.columns = Changed(edit[f])]
  <2>1. edit[f] \in RowEdit /\ edit[f].op = "save"
    BY <1>5 DEF SaveCopy, IInv, TypeOK, NoEdit, RowEdit, DeletePlan
  <2>2. Changed(edit[f]) \subseteq Columns
    BY DEF Changed, Columns
  <2>3. /\ row \in RowEdit /\ row.op = "update"
        /\ row.stock = edit[f].stock /\ row.product = edit[f].product
    BY <2>1, <2>2 DEF RowEdit
  <2>4. Send(f, row)
    BY <1>5 DEF SaveCopy
  <2>5. row.stock < 0 => OverdrawnBefore(row.product)
    BY <2>1, <2>3 DEF IInv, CopiesWereSeen
  <2> HIDE DEF row
  <2> QED
    BY <2>1, <2>3, <2>4, <2>5, SendStep
<1>6. ASSUME SendDelete(f) PROVE IInv'
  <2> DEFINE row == StatusUpdate(edit[f].product, "DELETED")
  <2>1. edit[f] \in DeletePlan /\ edit[f].op = "delete"
    BY <1>6 DEF SendDelete, IInv, TypeOK, NoEdit, RowEdit, DeletePlan
  <2>2. row \in RowEdit /\ row.op = "update" /\ row.stock = 0
    BY <2>1 DEF DeletePlan, StatusUpdate, RowEdit, Columns, ProductStatus
  <2> QED
    BY <1>6, <2>1, <2>2, SendStep DEF SendDelete
<1>7. ASSUME UpdateRow(f) PROVE IInv'
  BY <1>7, UpdateRowStep
<1> QED
  BY <1>1, <1>2, <1>3, <1>4, <1>5, <1>6, <1>7 DEF FarmStep
-----------------------------------------------------------------------------
\* The initial states satisfy the invariant.
LEMMA InitIInv ==
    ASSUME Init
    PROVE  IInv
<1>0. Shelf \subseteq Int /\ \A q \in Shelf : ~(q < 0)
  BY DEF Quantity
<1>a. stock \in [Products -> Shelf]
  BY DEF Init
<1> USE DEF Init
<1>1. Connected = {}
  BY DEF Connected
<1>2. ConnectionsAccounted
  BY <1>1, FS_EmptySet DEF ConnectionsAccounted
<1>3. TypeOK
  <2>1. stock \in [Products -> Int]
    BY <1>0, <1>a
  <2>2. /\ status \in [Products -> ProductStatus]
        /\ phase \in [Batches -> Phases]
        /\ edit \in [Farmers -> NoEdit \cup RowEdit \cup DeletePlan]
    BY DEF ProductStatus, Phases, NoEdit
  <2>3. at \in [Batches -> Nat \ {0}] /\ take \in [Batches -> [Products -> Nat]]
    OBVIOUS
  <2>4. free \in 0 .. PoolSize
    OBVIOUS
  <2> QED
    BY <2>1, <2>2, <2>3, <2>4 DEF TypeOK
<1>4. AtALine
  BY DEF AtALine
<1>5. NoLockLeak /\ TakenWasNamed /\ NothingTakenBefore /\ TakenIsLocked
  <2>1. \A b \in Batches, p \in Products : take[b][p] = 0
    OBVIOUS
  <2> QED
    BY <2>1 DEF NoLockLeak, TakenWasNamed, NothingTakenBefore, TakenIsLocked
<1>6. CopiesWereSeen /\ OversoldOnlyByRepeat
  <2>1. CopiesWereSeen
    BY DEF CopiesWereSeen
  <2>2. OversoldOnlyByRepeat
    BY <1>0, <1>a DEF OversoldOnlyByRepeat
  <2> QED
    BY <2>1, <2>2
<1> QED
  BY <1>2, <1>3, <1>4, <1>5, <1>6 DEF IInv

\* Every step preserves the invariant.
LEMMA NextIInv ==
    ASSUME IInv, [Next]_vars
    PROVE  IInv'
<1>1. ASSUME NEW b \in Batches, Step(b) PROVE IInv'
  <2>1. CASE Refuse(b)
    BY <2>1, RollBackStep DEF Refuse, InTransaction
  <2> QED
    BY <1>1, <2>1, BeginStep, LookupStep, CheckItemStep, CommitStep, RespondStep DEF Step
<1>2. ASSUME NEW b \in Batches, DatabaseError(b) \/ DeadlockVictim(b) PROVE IInv'
  BY <1>2, RollBackStep, DeadlockedWaits DEF DatabaseError, DeadlockVictim, InTransaction
<1>3. CASE UNCHANGED vars
  BY <1>3 DEF vars, rows, batchVars, IInv, TypeOK, AtALine, NoLockLeak, TakenWasNamed,
              NothingTakenBefore, TakenIsLocked, CopiesWereSeen, OversoldOnlyByRepeat,
              OverdrawnBefore, Placed, Repeats, ConnectionsAccounted, Connected, InTransaction
<1> QED
  BY <1>1, <1>2, <1>3, FarmStepStep DEF Next

\* The invariant holds in every reachable state of the checkout.
THEOREM Inductive == Spec => []IInv
BY InitIInv, NextIInv, PTL DEF Spec

\* Rows, locks, carts, the pool and the farms' copies keep their types; the
\* count of idle connections stays between none and the size of the pool.
THEOREM TypeCorrect == Spec => []TypeOK
BY Inductive, PTL DEF IInv

\* creatBatchOders oversells a product only by a cart that names it twice.
THEOREM OversoldByRepeat == Spec => []OversoldOnlyByRepeat
BY Inductive, PTL DEF IInv

\* A row lock of creatBatchOders never outlives its transaction.
THEOREM LocksReleased == Spec => []NoLockLeak
BY Inductive, PTL DEF IInv

\* However creatBatchOders ends, its connection goes back to the pool, once.
THEOREM PoolBalanced == Spec => []ConnectionsAccounted
BY Inductive, PTL DEF IInv
-----------------------------------------------------------------------------
(***************************************************************************)
(* The refinement: what a batch is about to write when it commits.         *)
(***************************************************************************)
\* The units of p in the first n lines of the cart.
UnitsOf(b, p, n) == SumFunction([i \in {j \in 1 .. n : cart[b][j].product = p} |-> cart[b][i].qty])

\* Unless a line was refused, a batch takes what the lines behind it ask for ...
TakenAddsUp ==
    \A b \in Batches, p \in Products : ~flawed[b] => take[b][p] = UnitsOf(b, p, at[b] - 1)

\* ... of rows it has locked, which are as it found them.
LinesAreHeld ==
    \A b \in Batches : InTransaction(b) /\ ~flawed[b] =>
        \A i \in 1 .. Len(cart[b]) : i < at[b] =>
            /\ cart[b][i].product \in Products
            /\ holder[cart[b][i].product] = b
            /\ Sellable(cart[b][i])

\* The lines are walked from the first, before the end to beyond it.
WalksTheCart ==
    \A b \in Batches : /\ phase[b] = "idle" => at[b] = 1
                       /\ phase[b] = "write" => at[b] = Len(cart[b]) + 1

LedgerInv == TakenAddsUp /\ LinesAreHeld /\ WalksTheCart

\* Sums are those of the library.
LEMMA LedgerSums == \A f : Ledger!SumFunction(f) = SumFunction(f)
BY DEF Ledger!SumFunction, SumFunction, Ledger!SumFunctionOnSet, SumFunctionOnSet,
       Ledger!FoldFunctionOnSet, FoldFunctionOnSet, Ledger!MapThenFoldSet, MapThenFoldSet

\* At the end of the cart what was taken is what the batch orders.
LEMMA OrderedIsTaken ==
    ASSUME TypeOK, NEW b \in Batches, NEW p \in Products
    PROVE  Ledger!Ordered(cart[b], p) = UnitsOf(b, p, Len(cart[b]))
<1>1. DOMAIN cart[b] = 1 .. Len(cart[b])
  BY DEF TypeOK
<1> QED
  BY <1>1, LedgerSums DEF Ledger!Ordered, UnitsOf

\* One line more asks for its quantity of its product, and of no other.
LEMMA OneLineMore ==
    ASSUME TypeOK, NEW b \in Batches, NEW p \in Products, NEW n \in 1 .. Len(cart[b])
    PROVE  UnitsOf(b, p, n) = IF cart[b][n].product = p THEN UnitsOf(b, p, n - 1) + cart[b][n].qty
                              ELSE UnitsOf(b, p, n - 1)
<1> DEFINE Lines(m) == {j \in 1 .. m : cart[b][j].product = p}
           f == [i \in Lines(n) |-> cart[b][i].qty]
           g == [i \in Lines(n - 1) |-> cart[b][i].qty]
<1>1. cart[b] \in Seq(Line)
  BY DEF TypeOK
<1>2. \A i \in Lines(n) : cart[b][i].qty \in Int
  <2>1. \A line \in Line : line.qty \in Int
    BY DEF Line, Quantity
  <2>2. \A i \in 1 .. Len(cart[b]) : cart[b][i] \in Line
    BY <1>1
  <2>3. Lines(n) \subseteq 1 .. Len(cart[b])
    BY <1>1
  <2> HIDE DEF Lines
  <2> QED
    BY <2>1, <2>2, <2>3
<1>3. CASE cart[b][n].product = p
  <2>1. n \in Lines(n) /\ Lines(n - 1) = Lines(n) \ {n}
    BY <1>3
  <2>2. IsFiniteSet(Lines(n))
    <3>1. IsFiniteSet(1 .. n) /\ Lines(n) \in SUBSET (1 .. n)
      BY FS_Interval
    <3> QED
      BY <3>1, FS_Subset
  <2>3. /\ DOMAIN f = Lines(n) /\ DOMAIN g = Lines(n) \ {n} /\ f[n] = cart[b][n].qty
        /\ \A i \in DOMAIN f : f[i] \in Int
        /\ \A i \in DOMAIN g : g[i] = f[i]
    BY <1>2, <2>1
  <2> HIDE DEF f, g, Lines
  <2>4. SumFunction(f) = SumFunction(g) + cart[b][n].qty
    BY <2>1, <2>2, <2>3, SumOfOneMore
  <2> QED
    BY <1>3, <2>4 DEF UnitsOf, f, g, Lines
<1>4. CASE cart[b][n].product # p
  <2>1. Lines(n - 1) = Lines(n)
    BY <1>4
  <2> QED
    BY <1>4, <2>1 DEF UnitsOf
<1> QED
  BY <1>3, <1>4

\* Every step but CheckItem leaves a batch where it is, and its rows as they are.
LEMMA LedgerFrame ==
    ASSUME IInv, LedgerInv, UNCHANGED <<cart, at, take, flawed>>,
           \A b \in Batches : InTransaction(b)' =>
               \/ phase[b] = "idle"
               \/ /\ InTransaction(b)
                  /\ \A p \in Products : holder[p] = b =>
                        holder'[p] = b /\ status'[p] = status[p] /\ stock'[p] = stock[p],
           \A b \in Batches : phase'[b] \in {"idle", "write"} => phase'[b] = phase[b]
    PROVE  LedgerInv'
<1> USE DEF LedgerInv
<1>1. TakenAddsUp'
  BY DEF TakenAddsUp, UnitsOf
<1>2. WalksTheCart'
  BY DEF WalksTheCart
<1>3. LinesAreHeld'
  <2> SUFFICES ASSUME NEW b \in Batches, InTransaction(b)', ~flawed[b],
                      NEW i \in 1 .. Len(cart[b]), i < at[b]
               PROVE  /\ cart[b][i].product \in Products
                      /\ holder'[cart[b][i].product] = b
                      /\ Sellable(cart[b][i])'
    BY DEF LinesAreHeld
  <2>1. phase[b] # "idle"
    BY DEF WalksTheCart
  <2>2. InTransaction(b) /\ \A p \in Products : holder[p] = b =>
          holder'[p] = b /\ status'[p] = status[p] /\ stock'[p] = stock[p]
    BY <2>1
  <2>3. /\ cart[b][i].product \in Products
        /\ holder[cart[b][i].product] = b
        /\ Sellable(cart[b][i])
    BY <2>2 DEF LinesAreHeld
  <2> QED
    BY <2>2, <2>3 DEF Sellable
<1> QED
  BY <1>1, <1>2, <1>3

\* One more line: its row is locked before it is looked at, and what earlier
\* lines locked stays as it was.
LEMMA LedgerCheckItem ==
    ASSUME IInv, LedgerInv, NEW b \in Batches, CheckItem(b)
    PROVE  LedgerInv'
<1> DEFINE line == NextLine(b)
           p == line.product
<1>1. /\ phase[b] = "item"
      /\ phase' = [phase EXCEPT ![b] = PhaseAfterLine(b)]
      /\ at' = [at EXCEPT ![b] = at[b] + 1]
      /\ UNCHANGED <<status, stock, cart>>
  BY DEF CheckItem, rows
<1>2. /\ at[b] \in 1 .. Len(cart[b]) /\ line = cart[b][at[b]] /\ line \in Line
      /\ PhaseAfterLine(b) \in {"write", "farm", "item"}
      /\ PhaseAfterLine(b) # "write" => at[b] + 1 \in 1 .. Len(cart[b])
  BY <1>1, LineShape DEF IInv, NextLine
<1>3. \/ UNCHANGED <<holder, take>> /\ flawed' = [flawed EXCEPT ![b] = TRUE]
      \/ /\ p \in Products /\ CanLock(b, p)
         /\ holder' = [holder EXCEPT ![p] = b]
         /\ flawed' = [flawed EXCEPT ![b] = TRUE]
         /\ UNCHANGED take
      \/ /\ p \in Products /\ CanLock(b, p) /\ Sellable(line)
         /\ holder' = [holder EXCEPT ![p] = b]
         /\ take' = [take EXCEPT ![b][p] = take[b][p] + line.qty]
         /\ UNCHANGED flawed
  BY DEF CheckItem, Taken
<1> HIDE DEF line, p
<1>4. TakenAddsUp'
  <2> SUFFICES ASSUME NEW c \in Batches, NEW q \in Products, ~flawed'[c]
               PROVE  take'[c][q] = UnitsOf(c, q, at'[c] - 1)
    BY <1>1 DEF TakenAddsUp, UnitsOf
  <2>1. CASE c # b
    BY <1>1, <1>3, <2>1 DEF LedgerInv, TakenAddsUp, IInv, TypeOK
  <2>2. CASE c = b
    <3>1. /\ ~flawed[b] /\ p \in Products
          /\ take' = [take EXCEPT ![b][p] = take[b][p] + line.qty]
      BY <1>3, <2>2 DEF IInv, TypeOK
    <3>2. take[b][q] = UnitsOf(b, q, at[b] - 1)
      BY <3>1 DEF LedgerInv, TakenAddsUp
    <3>3. at'[b] - 1 = at[b]
      BY <1>1, <1>2 DEF IInv, TypeOK
    <3>4. UnitsOf(b, q, at[b]) = IF line.product = q THEN UnitsOf(b, q, at[b] - 1) + line.qty
                                 ELSE UnitsOf(b, q, at[b] - 1)
      BY <1>2, OneLineMore DEF IInv
    <3>5. take'[b][q] = IF p = q THEN take[b][q] + line.qty ELSE take[b][q]
      BY <3>1 DEF IInv, TypeOK
    <3> QED
      BY <2>2, <3>2, <3>3, <3>4, <3>5 DEF p
  <2> QED
    BY <2>1, <2>2
<1>5. WalksTheCart'
  <2>1. PhaseAfterLine(b) = "write" => at[b] = Len(cart[b])
    BY <1>1, LineShape DEF IInv
  <2>2. \A c \in Batches : c # b => phase'[c] = phase[c] /\ at'[c] = at[c]
    BY <1>1 DEF IInv, TypeOK
  <2>3. phase'[b] = PhaseAfterLine(b) /\ at'[b] = at[b] + 1
    BY <1>1 DEF IInv, TypeOK
  <2> QED
    BY <1>1, <1>2, <2>1, <2>2, <2>3 DEF LedgerInv, WalksTheCart
<1>6. LinesAreHeld'
  <2> SUFFICES ASSUME NEW c \in Batches, InTransaction(c)', ~flawed'[c],
                      NEW i \in 1 .. Len(cart[c]), i < at'[c]
               PROVE  /\ cart[c][i].product \in Products
                      /\ holder'[cart[c][i].product] = c
                      /\ Sellable(cart[c][i])
    BY <1>1 DEF LinesAreHeld, Sellable
  <2>1. InTransaction(c) /\ ~flawed[c]
    BY <1>1, <1>3 DEF InTransaction, IInv, TypeOK
  <2>2. CASE i < at[c]
    <3>1. cart[c][i].product \in Products /\ holder[cart[c][i].product] = c /\ Sellable(cart[c][i])
      BY <2>1, <2>2 DEF LedgerInv, LinesAreHeld
    <3> QED
      BY <1>3, <3>1 DEF CanLock, IInv, TypeOK
  <2>3. CASE ~(i < at[c])
    <3>1. c = b /\ i = at[b]
      BY <1>1, <1>2, <2>3 DEF IInv, TypeOK
    <3>2. p \in Products /\ holder' = [holder EXCEPT ![p] = b] /\ Sellable(line)
      BY <1>3, <3>1 DEF IInv, TypeOK
    <3> QED
      BY <1>2, <3>1, <3>2 DEF p, IInv, TypeOK
  <2> QED
    BY <2>2, <2>3
<1> QED
  BY <1>4, <1>5, <1>6 DEF LedgerInv

\* COMMIT gives back the locks of one batch and takes from rows it had locked.
LEMMA LedgerCommit ==
    ASSUME IInv, LedgerInv, NEW b \in Batches, Commit(b)
    PROVE  LedgerInv'
<1>1. /\ phase[b] = "write"
      /\ stock' = [p \in Products |-> stock[p] - take[b][p]]
      /\ holder' = LocksWithout(b)
      /\ phase' = [phase EXCEPT ![b] = "placed"]
      /\ UNCHANGED <<status, cart, at, take, flawed>>
  BY DEF Commit
<1>2. ASSUME NEW c \in Batches, InTransaction(c)'
      PROVE  /\ InTransaction(c)
             /\ \A p \in Products : holder[p] = c =>
                   holder'[p] = c /\ status'[p] = status[p] /\ stock'[p] = stock[p]
  <2>1. InTransaction(c) /\ c # b
    BY <1>1, <1>2 DEF InTransaction, IInv, TypeOK
  <2>2. ASSUME NEW p \in Products, holder[p] = c PROVE holder'[p] = c /\ stock'[p] = stock[p]
    <3>1. take[b][p] = 0
      BY <1>1, <2>1, <2>2 DEF IInv, TakenIsLocked, InTransaction
    <3> QED
      BY <1>1, <2>1, <2>2, <3>1 DEF LocksWithout, IInv, TypeOK
  <2> QED
    BY <1>1, <2>1, <2>2
<1>3. \A c \in Batches : phase'[c] \in {"idle", "write"} => phase'[c] = phase[c]
  BY <1>1 DEF IInv, TypeOK
<1> QED
  BY <1>1, <1>2, <1>3, LedgerFrame

\* The steps of a batch that write no row.
LEMMA LedgerBatchStep ==
    ASSUME IInv, LedgerInv, NEW b \in Batches,
           Begin(b) \/ FindAddress(b) \/ FindFarm(b) \/ Respond(b) \/ RollBack(b)
    PROVE  LedgerInv' /\ UNCHANGED <<rows, cart, rewound>>
<1>1. /\ UNCHANGED <<rows, cart, at, take, flawed, rewound>>
      /\ phase' = [phase EXCEPT ![b] = phase'[b]]
      /\ phase'[b] \in {"address", "farm", "item", "done", "refused"}
      /\ phase[b] = "idle" \/ InTransaction(b) \/ phase'[b] \in {"done", "refused"}
      /\ UNCHANGED holder \/ (phase'[b] = "refused" /\ holder' = LocksWithout(b))
  BY DEF Begin, FindAddress, FindFarm, Respond, RollBack, InTransaction, IInv, TypeOK
<1>2. ASSUME NEW c \in Batches, InTransaction(c)'
      PROVE  \/ phase[c] = "idle"
             \/ /\ InTransaction(c)
                /\ \A p \in Products : holder[p] = c =>
                      holder'[p] = c /\ status'[p] = status[p] /\ stock'[p] = stock[p]
  <2>1. c # b => phase'[c] = phase[c]
    BY <1>1 DEF IInv, TypeOK
  <2> QED
    BY <1>1, <1>2, <2>1 DEF InTransaction, LocksWithout, rows, IInv, TypeOK
<1>3. \A c \in Batches : phase'[c] \in {"idle", "write"} => phase'[c] = phase[c]
  BY <1>1 DEF IInv, TypeOK
<1> QED
  BY <1>1, <1>2, <1>3, LedgerFrame

\* A farm's handler writes rows no batch has locked.
LEMMA LedgerFarmStep ==
    ASSUME IInv, LedgerInv, NEW f \in Farmers, FarmStep(f)
    PROVE  /\ LedgerInv' /\ Placed' = Placed
           /\ \/ UNCHANGED <<rows, cart, rewound>>
              \/ UpdateRow(f)
<1>1. /\ UNCHANGED <<holder, cart, batchVars>>
      /\ UNCHANGED <<rows, rewound>> \/ UpdateRow(f)
  BY DEF FarmStep, SetStatus, ReadToUpdate, ReadToAssign, ReadToDelete, SaveCopy, SendDelete,
         UpdateRow, Send, Copy
<1>2. \A p \in Products : holder[p] # None => status'[p] = status[p] /\ stock'[p] = stock[p]
  <2>1. CASE UNCHANGED rows
    BY <2>1 DEF rows
  <2>2. CASE UpdateRow(f)
    BY <2>2 DEF UpdateRow, IInv, TypeOK
  <2> QED
    BY <1>1, <2>1, <2>2
<1>3. \A b \in Batches : InTransaction(b)' => InTransaction(b) /\ b # None
  BY <1>1 DEF InTransaction, batchVars
<1>4. LedgerInv'
  BY <1>1, <1>2, <1>3, LedgerFrame DEF batchVars
<1> QED
  BY <1>1, <1>4 DEF Placed, batchVars

\* The COMMIT of a batch is the purchase of all its lines.
LEMMA CommitBuys ==
    ASSUME IInv, LedgerInv, NEW b \in Batches, Commit(b)
    PROVE  Ledger!Buy(b)
<1>1. /\ phase[b] = "write" /\ ~flawed[b]
      /\ stock' = [p \in Products |-> stock[p] - take[b][p]]
      /\ sold' = [p \in Products |-> sold[p] + take[b][p]]
      /\ phase' = [phase EXCEPT ![b] = "placed"]
      /\ UNCHANGED <<status, cart, rewound>>
  BY DEF Commit
<1>2. b \notin Placed /\ Placed' = Placed \cup {b}
  BY <1>1 DEF Placed, IInv, TypeOK
<1>3. cart[b] \in Seq(Line) /\ DOMAIN cart[b] = 1 .. Len(cart[b]) /\ Len(cart[b]) \in Nat
  BY DEF IInv, TypeOK
<1>4. at[b] = Len(cart[b]) + 1
  BY <1>1 DEF LedgerInv, WalksTheCart
<1>5. ASSUME NEW i \in DOMAIN cart[b] PROVE Ledger!Available(cart[b][i])
  <2>1. i \in 1 .. Len(cart[b]) /\ i < at[b] /\ cart[b][i] \in Line
    BY <1>3, <1>4
  <2>2. cart[b][i].product \in Products /\ Sellable(cart[b][i])
    BY <1>1, <2>1 DEF LedgerInv, LinesAreHeld, InTransaction
  <2> QED
    BY <2>1, <2>2 DEF Sellable, Ledger!Available, Line, Quantity, IInv, TypeOK
<1>6. \A p \in Products : take[b][p] = Ledger!Ordered(cart[b], p)
  <2>1. at[b] - 1 = Len(cart[b])
    BY <1>3, <1>4
  <2> QED
    BY <1>1, <2>1, OrderedIsTaken DEF LedgerInv, TakenAddsUp, IInv
<1>7. /\ stock' = [p \in Products |-> stock[p] - Ledger!Ordered(cart[b], p)]
      /\ sold' = [p \in Products |-> sold[p] + Ledger!Ordered(cart[b], p)]
  BY <1>1, <1>6
<1> QED
  BY <1>1, <1>2, <1>5, <1>7 DEF Ledger!Buy

\* An UPDATE that a farm's handler sent changes one row.
LEMMA UpdateManages ==
    ASSUME IInv, NEW f \in Farmers, UpdateRow(f)
    PROVE  \E p \in Products : Ledger!Manage(p)
<1> DEFINE p == edit[f].product
<1>1. p \in Products
  BY DEF UpdateRow, IInv, TypeOK, NoEdit, RowEdit, DeletePlan
<1>2. /\ \A q \in Products \ {p} : <<status[q], stock[q], sold[q]>>' = <<status[q], stock[q], sold[q]>>
      /\ rewound' = IF sold' = sold THEN rewound ELSE rewound \cup {p}
      /\ UNCHANGED <<cart, Placed>>
  BY <1>1 DEF UpdateRow, IInv, TypeOK, batchVars, Placed
<1> QED
  BY <1>1, <1>2 DEF Ledger!Manage

\* A step of the checkout is one of the ledger or none, and keeps what that
\* rests on.
LEMMA LedgerNext ==
    ASSUME IInv, LedgerInv, [Next]_vars
    PROVE  LedgerInv' /\ [Ledger!Next]_(Ledger!ledgerVars)
<1> USE DEF Ledger!ledgerVars
<1>1. ASSUME NEW b \in Batches, Commit(b) PROVE LedgerInv' /\ Ledger!Next
  BY <1>1, LedgerCommit, CommitBuys DEF Ledger!Next
<1>2. ASSUME NEW b \in Batches, CheckItem(b) PROVE LedgerInv' /\ UNCHANGED Ledger!ledgerVars
  <2>1. phase[b] = "item" /\ PhaseAfterLine(b) \in {"write", "farm", "item"}
    BY <1>2, LineShape DEF CheckItem, IInv
  <2>2. Placed' = Placed
    BY <1>2, <2>1 DEF CheckItem, Placed, IInv, TypeOK
  <2> QED
    BY <1>2, <2>2, LedgerCheckItem DEF CheckItem, rows
<1>3. ASSUME NEW b \in Batches,
             Begin(b) \/ FindAddress(b) \/ FindFarm(b) \/ Respond(b) \/ Refuse(b)
               \/ DatabaseError(b) \/ DeadlockVictim(b)
      PROVE  LedgerInv' /\ UNCHANGED Ledger!ledgerVars
  <2>1. Begin(b) \/ FindAddress(b) \/ FindFarm(b) \/ Respond(b) \/ (InTransaction(b) /\ RollBack(b))
    BY <1>3, DeadlockedWaits DEF Refuse, DatabaseError, DeadlockVictim, InTransaction
  <2>2. Placed' = Placed
    BY <2>1 DEF Begin, FindAddress, FindFarm, Respond, RollBack, InTransaction, Placed, IInv, TypeOK
  <2> QED
    BY <2>1, <2>2, LedgerBatchStep DEF rows
<1>4. ASSUME NEW f \in Farmers, FarmStep(f)
      PROVE  LedgerInv' /\ [Ledger!Next]_(Ledger!ledgerVars)
  BY <1>4, LedgerFarmStep, UpdateManages DEF Ledger!Next, rows
<1>5. CASE UNCHANGED vars
  <2>1. LedgerInv'
    BY <1>5, LedgerFrame DEF vars, rows, batchVars, InTransaction
  <2> QED
    BY <1>5, <2>1 DEF vars, rows, batchVars, Placed
<1> QED
  BY <1>1, <1>2, <1>3, <1>4, <1>5 DEF Next, Step

\* The first state is one of the ledger.
LEMMA LedgerInitial ==
    ASSUME Init
    PROVE  LedgerInv /\ Ledger!Init
<1> USE DEF Init
<1>1. WalksTheCart /\ LinesAreHeld
  BY DEF WalksTheCart, LinesAreHeld, InTransaction
<1>2. ASSUME NEW b \in Batches, NEW p \in Products PROVE UnitsOf(b, p, at[b] - 1) = 0
  <2> DEFINE f == [i \in {j \in 1 .. at[b] - 1 : cart[b][j].product = p} |-> cart[b][i].qty]
  <2>1. DOMAIN f = {}
    OBVIOUS
  <2> HIDE DEF f
  <2>2. SumFunction(f) = 0
    BY <2>1, SumOfNone
  <2> QED
    BY <2>2 DEF f, UnitsOf
<1>3. TakenAddsUp
  BY <1>2 DEF TakenAddsUp
<1> QED
  BY <1>1, <1>3 DEF LedgerInv, Ledger!Init, Placed

\* The checkout implements the ledger: every batch is bought in one step, with all
\* its lines on the shelf and open for sale and the sums of repeated ones taken,
\* and nothing but a stale save makes total_sold differ from the orders.
THEOREM LedgerImplemented == Spec => ImplementsLedger
<1>1. Init => LedgerInv /\ Ledger!Init
  BY LedgerInitial
<1>2. IInv /\ LedgerInv /\ [Next]_vars => LedgerInv' /\ [Ledger!Next]_(Ledger!ledgerVars)
  BY LedgerNext
<1> QED
  BY <1>1, <1>2, Inductive, PTL DEF Spec, ImplementsLedger, Ledger!Spec
=============================================================================
