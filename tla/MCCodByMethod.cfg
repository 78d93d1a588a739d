SPECIFICATION Spec

CONSTANTS
    Orders = {o1, o2}
    pay1 = pay1
    Payments = {pay1}
    PaymentOf <- MCPaymentOf
    Calls = {k1, k2}
    Codes = {c1, c2}
    Moves <- ShortMoves
    NoDelivery = NoDelivery
    NoShipment = NoShipment

SYMMETRY Symmetry

INVARIANTS
    CodByMethod

CHECK_DEADLOCK FALSE
