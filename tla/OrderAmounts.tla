---------------------------- MODULE OrderAmounts ----------------------------
(***************************************************************************)
(* What an order costs, and what the courier is told of it: the quote      *)
(* (calculateShippingFee), the order (creatBatchOders), the shipment       *)
(* (getOrderShippingInfo, confirmOrderDelivery) and the amounts GHN sends  *)
(* back.  The farm may rewrite a product in between.  Which orders share   *)
(* the last stock is Checkout's matter, and which of them may be booked,   *)
(* and how often, OrderFulfilment's: here one handler at a time books an   *)
(* order.                                                                  *)
(*                                                                         *)
(* Amounts and weights are counted in halves: a price is a whole number    *)
(* (bigint), a weight or a fee in a request need not be one.               *)
(***************************************************************************)
EXTENDS Integers, FiniteSets, Functions

CONSTANTS
    Products,
    Offers,         \* Offers[p]: prices and weights the farm may enter for p
    Orders,
    Cart,           \* Cart[o]: quantity of each product in order o
    Batches,
    BatchOf,        \* BatchOf[o]: the request, and the payment, of order o
    Fees,           \* shipping fees a request may carry
    Corrections,    \* amounts GHN may put in the place of the one it was given
    MaxInt,         \* the largest number of an integer column
    MaxDecimal,     \* the largest number of a decimal(10, 2)
    Null            \* no row, nothing in flight

OrdersOf(b) == {o \in Orders : BatchOf[o] = b}
Lines(o) == DOMAIN Cart[o]

\* What an integer column holds: nothing keeps a price, and with it a total, above 0.
IntColumn == - MaxInt - 1 .. MaxInt
Bill == [amount : IntColumn, status : {"PENDING", "UNPAID", "COMPLETED"}]
Parcel == [weight : Nat, insurance_value : Int, cod_amount : IntColumn]
Shop == [price : Int, weight : Nat, status : {"NOT_YET_OPEN", "OPEN_FOR_SALE", "CLOSED"}]

\* The DTOs take no quantity, weight or fee below 0; a price is not looked at.
CartAssumption ==
    /\ IsFiniteSet(Orders) /\ BatchOf \in [Orders -> Batches]
    /\ \A o \in Orders : /\ Lines(o) \subseteq Products /\ IsFiniteSet(Lines(o))
                        /\ \A p \in Lines(o) : Cart[o][p] \in Nat
AmountAssumption ==
    /\ MaxInt \in Nat
    /\ \A p \in Products : Offers[p] \subseteq [price : Int, weight : Nat]
    /\ Fees \subseteq Nat
    /\ Corrections \subseteq IntColumn
NullAssumption == Null \notin Bill

VARIABLES
    product,        \* product[p]: the row
    editing,        \* editing[p]: status of the copy updateProduct has of p, or Null
    quote,          \* quote[o]: what calculateShippingFee has answered
    order,          \* order[o]: the row, with its details
    payment,        \* payment[b]: the row
    booking,        \* booking[o]: what confirmOrderDelivery sends to GHN
    shipment,       \* (external) shipment[o]: what GHN was last asked to carry
    reported,       \* (external) reported[o]: amounts GHN has had to collect
    delivery,       \* delivery[o]: the row's cod_amount
    edited          \* (history) products whose status changed before the copy was saved

vars == <<product, editing, quote, order, payment, booking, shipment, reported, delivery, edited>>

Whole(x) == x % 2 = 0
Round(x) == x + (x % 2)         \* Math.round: a half goes up
FitsInt(x) == Whole(x) /\ x \in IntColumn

OnSale(o) == \A p \in Lines(o) : product[p].status = "OPEN_FOR_SALE"

\* price_per_unit and weight_per_unit as they are, times the quantities.
PriceNow(o) == SumFunction([p \in Lines(o) |-> product[p].price * Cart[o][p]])
WeightNow(o) == SumFunction([p \in Lines(o) |-> product[p].weight * Cart[o][p]])

\* The rows of order_detail, which keep price and weight.
DetailsNow(o) == [p \in Lines(o) |-> [unit_price |-> product[p].price,
                                      weight |-> product[p].weight * Cart[o][p]]]
ValueOf(o) == SumFunction([p \in Lines(o) |-> order[o].details[p].unit_price * Cart[o][p]])
WeightOf(o) == SumFunction([p \in Lines(o) |-> order[o].details[p].weight])

\* A fraction in an integer column, or a number too large, makes an INSERT fail.
Storable(o, fee) ==
    /\ FitsInt(fee)
    /\ FitsInt(PriceNow(o) + fee)
    /\ \A p \in Lines(o) : /\ FitsInt(product[p].weight * Cart[o][p])
                           /\ product[p].price * Cart[o][p] \in - MaxDecimal .. MaxDecimal
-----------------------------------------------------------------------------
Init ==
    /\ \E offer \in [Products -> UNION {Offers[p] : p \in Products}] :
          /\ \A p \in Products : offer[p] \in Offers[p]
          /\ product = [p \in Products |-> [price |-> offer[p].price, weight |-> offer[p].weight,
                                            status |-> "NOT_YET_OPEN"]]
    /\ editing = [p \in Products |-> Null]
    /\ quote = [o \in Orders |-> Null]
    /\ order = [o \in Orders |-> Null]
    /\ payment = [b \in Batches |-> Null]
    /\ booking = [o \in Orders |-> Null]
    /\ shipment = [o \in Orders |-> Null]
    /\ reported = [o \in Orders |-> {}]
    /\ delivery = [o \in Orders |-> Null]
    /\ edited = {}
-----------------------------------------------------------------------------
\* The farm: SeasonService.updateProductStatus, and updateProduct, which reads a
\* product that is not on sale and saves the copy over whatever it has become.
SetStatus(p) ==
    /\ \E status \in {"OPEN_FOR_SALE", "CLOSED"} :
          product' = [product EXCEPT ![p].status = status]
    /\ UNCHANGED <<editing, quote, order, payment, booking, shipment, reported, delivery, edited>>

ReadToEdit(p) ==
    /\ editing[p] = Null
    /\ product[p].status = "NOT_YET_OPEN"
    /\ editing' = [editing EXCEPT ![p] = product[p].status]
    /\ UNCHANGED <<product, quote, order, payment, booking, shipment, reported, delivery, edited>>

SaveEdit(p) ==
    /\ editing[p] # Null
    /\ editing' = [editing EXCEPT ![p] = Null]
    /\ \E o \in Offers[p] :
          product' = [product EXCEPT ![p] = [price |-> o.price, weight |-> o.weight,
                                             status |-> editing[p]]]
    /\ edited' = IF product[p].status = editing[p] THEN edited ELSE edited \cup {p}
    /\ UNCHANGED <<quote, order, payment, booking, shipment, reported, delivery>>

\* calculateShippingFee: the fee it adds is the same for every order.
Quote(o) ==
    /\ order[o] = Null /\ quote[o] = Null
    /\ OnSale(o)
    /\ quote' = [quote EXCEPT ![o] = [price |-> PriceNow(o), weight |-> WeightNow(o)]]
    /\ UNCHANGED <<product, editing, order, payment, booking, shipment, reported, delivery, edited>>

\* creatBatchOders reads each product under a lock that it keeps, and one failing
\* statement undoes them all: the orders are those of the moment it commits.  The
\* fees are the buyer's word.
PlaceOrders(b, fee) ==
    /\ payment[b] = Null
    /\ \A o \in OrdersOf(b) : OnSale(o) /\ Storable(o, fee[o])
    /\ LET total(o) == PriceNow(o) + fee[o]
           grandTotal == SumFunction([o \in OrdersOf(b) |-> total(o)])
       IN  /\ FitsInt(grandTotal)
           /\ \E status \in {"PENDING", "UNPAID"} :
                 payment' = [payment EXCEPT ![b] = [amount |-> grandTotal, status |-> status]]
           /\ order' = [o \in Orders |->
                 IF o \in OrdersOf(b)
                 THEN [total_amount |-> total(o), shipping_fee |-> fee[o], details |-> DetailsNow(o)]
                 ELSE order[o]]
    /\ UNCHANGED <<product, editing, quote, booking, shipment, reported, delivery, edited>>

\* The PayOS callback, or the receipt of a delivered order of the batch.
Pay(b) ==
    /\ payment[b] # Null /\ payment[b].status # "COMPLETED"
    /\ payment[b].status = "UNPAID" => \E o \in OrdersOf(b) : delivery[o] # Null
    /\ payment' = [payment EXCEPT ![b].status = "COMPLETED"]
    /\ UNCHANGED <<product, editing, quote, order, booking, shipment, reported, delivery, edited>>
-----------------------------------------------------------------------------
\* getOrderShippingInfo takes prices from the details and weights from the products
\* as they are now; confirmOrderDelivery has an unpaid order paid at the door.
Confirm(o) ==
    /\ order[o] # Null /\ delivery[o] = Null /\ booking[o] = Null
    /\ LET collect == payment[BatchOf[o]].status = "UNPAID"
       IN  booking' = [booking EXCEPT ![o] =
               [weight |-> Round(WeightNow(o)),
                insurance_value |-> Round(ValueOf(o)),
                cod_amount |-> IF collect THEN Round(ValueOf(o) + order[o].shipping_fee) ELSE 0]]
    /\ UNCHANGED <<product, editing, quote, order, payment, shipment, reported, delivery, edited>>

\* (external) GHN takes the order of createOrderByGHN.  An equal one, sent again
\* after a failure, changes nothing.
GhnBooks(o) ==
    /\ booking[o] # Null /\ booking[o] # shipment[o]
    /\ shipment' = [shipment EXCEPT ![o] = booking[o]]
    /\ reported' = [reported EXCEPT ![o] = {booking[o].cod_amount}]
    /\ UNCHANGED <<product, editing, quote, order, payment, booking, delivery, edited>>

\* The delivery is stored, and the transaction commits ...
Booked(o) ==
    /\ booking[o] # Null /\ booking[o] = shipment[o]
    /\ delivery' = [delivery EXCEPT ![o] = booking[o].cod_amount]
    /\ booking' = [booking EXCEPT ![o] = Null]
    /\ UNCHANGED <<product, editing, quote, order, payment, shipment, reported, edited>>

\* ... or GHN refuses, or the transaction fails after GHN has the order.
NotBooked(o) ==
    /\ booking[o] # Null
    /\ booking' = [booking EXCEPT ![o] = Null]
    /\ UNCHANGED <<product, editing, quote, order, payment, shipment, reported, delivery, edited>>

\* (external) GHN changes the amount to collect.
Correct(o) ==
    /\ delivery[o] # Null
    /\ \E amount \in Corrections : reported' = [reported EXCEPT ![o] = @ \cup {amount}]
    /\ UNCHANGED <<product, editing, quote, order, payment, booking, shipment, delivery, edited>>

\* handleCreateWebhook and handleUpdateCodWebhook store the amount of a webhook,
\* late and repeated ones too, updateDeliveryFromGHN one GHN had when it was asked.
TakeAmount(o) ==
    /\ delivery[o] # Null
    /\ \E amount \in reported[o] : delivery' = [delivery EXCEPT ![o] = amount]
    /\ UNCHANGED <<product, editing, quote, order, payment, booking, shipment, reported, edited>>

Next ==
    \/ \E p \in Products : SetStatus(p) \/ ReadToEdit(p) \/ SaveEdit(p)
    \/ \E b \in Batches : Pay(b) \/ \E fee \in [OrdersOf(b) -> Fees] : PlaceOrders(b, fee)
    \/ \E o \in Orders :
          \/ Quote(o) \/ Confirm(o) \/ GhnBooks(o) \/ Booked(o) \/ NotBooked(o)
          \/ Correct(o) \/ TakeAmount(o)

Spec == Init /\ [][Next]_vars
-----------------------------------------------------------------------------
\* Amounts stay whole and within their columns, whatever a request carries.
TypeOK ==
    /\ product \in [Products -> Shop]
    /\ editing \in [Products -> {"NOT_YET_OPEN", Null}] /\ edited \subseteq Products
    /\ \A o \in Orders :
          /\ quote[o] = Null \/ quote[o] \in [price : Int, weight : Nat]
          /\ order[o] # Null => FitsInt(order[o].total_amount) /\ FitsInt(order[o].shipping_fee)
          /\ {booking[o], shipment[o]} \subseteq Parcel \cup {Null}
          /\ delivery[o] \in IntColumn \cup {Null}
          /\ reported[o] \subseteq IntColumn
    /\ \A b \in Batches :
          payment[b] # Null => payment[b] \in Bill

Untouched(o) == Lines(o) \cap edited = {}

\* A batch is charged once and in full: the payment is for its orders (order.service.ts:407), and
\* the courier collects at the door the very total of the order, or nothing, though
\* confirmOrderDelivery works it out anew (order.service.ts:988) and a farm may have rewritten
\* the product since.  Only the weight is the product's, and it, like the quote a
\* buyer was shown, is that of the order unless a stale copy changed a product on
\* sale.  A delivery shows an amount that GHN had for it.
ChargedAsOrdered ==
    /\ \A b \in Batches : payment[b] # Null =>
          payment[b].amount = SumFunction([o \in OrdersOf(b) |-> order[o].total_amount])
    /\ \A o \in Orders :
          /\ quote[o] # Null /\ order[o] # Null /\ Untouched(o) =>
                /\ quote[o].price + order[o].shipping_fee = order[o].total_amount
                /\ quote[o].weight = WeightOf(o)
          /\ shipment[o] # Null =>
                /\ shipment[o].cod_amount \in {0, order[o].total_amount}
                /\ shipment[o].insurance_value + order[o].shipping_fee = order[o].total_amount
                /\ Untouched(o) => shipment[o].weight = WeightOf(o)
          /\ delivery[o] # Null => delivery[o] \in reported[o]
=============================================================================
