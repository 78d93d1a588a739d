--------------------------- MODULE CheckoutLedger ---------------------------
(***************************************************************************)
(* Checkout implements StockLedger: the sales counters agree with the      *)
(* orders, unless a farm has saved a row it had read before the last sale. *)
(***************************************************************************)
EXTENDS Checkout

Ledger == INSTANCE StockLedger WITH placed <- Placed

\* The checkout implements the ledger: a batch is bought in one step, from a
\* shelf that has every line of it and on which each product is open for sale,
\* whatever other batches and the farms do between its first line and COMMIT; and
\* total_sold grows by what the orders ask for, and changes by nothing else but a
\* stale save.
ImplementsLedger == Ledger!Spec
=============================================================================
