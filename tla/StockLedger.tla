---------------------------- MODULE StockLedger ----------------------------
(***************************************************************************)
(* What the checkout of the order service promises, with no locks and no   *)
(* interleaving: a batch of orders is either refused and leaves the shelf  *)
(* alone, or is bought in ONE step, in a state in which every product it   *)
(* names is open for sale and has the quantity asked for on the shelf.     *)
(* Checkout is shown to implement this module.                             *)
(***************************************************************************)
EXTENDS Integers, Sequences, Functions

CONSTANTS
    Batches,        \* calls of creatBatchOders
    Products        \* rows of the product table

VARIABLES
    cart,           \* cart[b]: the order lines batch b asks for
    status,         \* status[p]: ProductStatus of the row
    stock,          \* stock[p]: stock_quantity of the row
    sold,           \* sold[p]: total_sold of the row
    placed,         \* the batches whose orders exist
    rewound         \* rows whose sales no longer are those of the orders

ledgerVars == <<cart, status, stock, sold, placed, rewound>>

\* The units of p in the order lines c, repeated lines added up.
Ordered(c, p) == SumFunction([i \in {j \in DOMAIN c : c[j].product = p} |-> c[i].qty])

Available(line) ==
    /\ line.product \in Products
    /\ status[line.product] = "OPEN_FOR_SALE"
    /\ line.qty <= stock[line.product]

Init ==
    /\ placed = {}
    /\ sold = [p \in Products |-> 0]
    /\ rewound = {}

\* A whole batch is bought at once.
Buy(b) ==
    /\ b \notin placed
    /\ \A i \in DOMAIN cart[b] : Available(cart[b][i])
    /\ stock' = [p \in Products |-> stock[p] - Ordered(cart[b], p)]
    /\ sold' = [p \in Products |-> sold[p] + Ordered(cart[b], p)]
    /\ placed' = placed \cup {b}
    /\ UNCHANGED <<cart, status, rewound>>

\* The farm edits the row of one product; no order comes of it, and sales only
\* with a mark.  So the sales of a product without one are those of the orders.
Manage(p) ==
    /\ \A q \in Products \ {p} :
          <<status[q], stock[q], sold[q]>>' = <<status[q], stock[q], sold[q]>>
    /\ rewound' = IF sold' = sold THEN rewound ELSE rewound \cup {p}
    /\ UNCHANGED <<cart, placed>>

Next == \/ \E b \in Batches : Buy(b)
        \/ \E p \in Products : Manage(p)

Spec == Init /\ [][Next]_ledgerVars
=============================================================================
