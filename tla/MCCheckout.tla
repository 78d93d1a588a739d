----------------------------- MODULE MCCheckout -----------------------------
(***************************************************************************)
(* Small instance of Checkout: two products that two batches may lock in   *)
(* either order, within one order or in two, name twice, or misname.       *)
(***************************************************************************)
EXTENDS CheckoutLedger

CONSTANTS apple, mango

MCProducts == {apple, mango}

L(p, q, first) == [product |-> p, qty |-> q, opens |-> first]

MCCarts ==
    { <<L(apple, 2, TRUE)>>,
      <<L(apple, 1, TRUE), L(mango, 1, FALSE)>>,
      <<L(mango, 1, TRUE), L(apple, 1, TRUE)>>,
      <<L(apple, 1, TRUE), L(apple, 2, FALSE)>>,
      <<L(None, 1, TRUE)>> }
=============================================================================
