SPECIFICATION Spec

CONSTANTS
    Orders = {o1}
    pay1 = pay1
    Payments = {pay1}
    PaymentOf <- MCPaymentOf
    Calls = {k1, k2}
    Codes = {c1, c2}
    Moves <- MCMoves
    NoDelivery = NoDelivery
    NoShipment = NoShipment

SYMMETRY Symmetry

INVARIANTS
    TypeOK
    StatusHasCause
    NoDoubleCharge

PROPERTIES
    FirstShipmentStays

CHECK_DEADLOCK FALSE
