------------------------- MODULE MCOrderFulfilment -------------------------
(***************************************************************************)
(* Small instances of OrderFulfilment: orders that share one payment.      *)
(***************************************************************************)
EXTENDS OrderFulfilment, TLC

CONSTANTS pay1

MCPaymentOf == [o \in Orders |-> pay1]
Symmetry == Permutations(Orders) \cup Permutations(Calls) \cup Permutations(Codes)

\* A shipment is delivered, cancelled, or returned after a failed attempt.
MCMoves ==
    [g \in CourierStatus |->
        CASE g = "ready_to_pick" -> {"transporting", "cancel"}
          [] g = "transporting"  -> {"delivered", "delivery_fail"}
          [] g = "delivery_fail" -> {"returned"}
          [] OTHER               -> {}]

\* A shipment leaves, and that is all that is heard of it.
ShortMoves ==
    [g \in CourierStatus |-> IF g = "ready_to_pick" THEN {"transporting"} ELSE {}]
=============================================================================
