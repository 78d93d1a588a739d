-------------------------- MODULE OrderFulfilment --------------------------
(***************************************************************************)
(* What happens to the orders of a batch after creatBatchOders has         *)
(* committed them: the PayOS payment link, PayOS's callbacks, the farm's   *)
(* confirmation or cancellation, the shipment booked at the courier GHN,   *)
(* GHN's webhooks, the refresh from GHN, and the buyer's receipt.          *)
(*                                                                         *)
(* The orders of a batch share one payment row.  A handler that awaits     *)
(* between what it reads and what it writes is a call k \in Calls: its     *)
(* record holds what it read, so that what it writes may be stale.         *)
(* Handlers that are one SQL statement, or one transaction that reads      *)
(* nothing it depends on, are one action.                                  *)
(***************************************************************************)
EXTENDS Naturals, FiniteSets

CONSTANTS
    Orders,         \* rows of the order table
    Payments,       \* rows of the payment table
    PaymentOf,      \* PaymentOf[o]: payment_id of order o
    Calls,          \* handlers that can be in flight at once
    Codes,          \* GHN order codes
    Moves,          \* Moves[g]: where GHN may take a shipment from status g
    NoDelivery,     \* order.delivery is null
    NoShipment      \* the code has not been given out

ASSUME PaymentOfAssumption == PaymentOf \in [Orders -> Payments]

OrderStatus == {"PENDING_CONFIRMATION", "CONFIRMED", "PAID", "PAYMENT_FAILED",
                "PREPARING", "SHIPPING", "DELIVERED", "CANCELLED", "COMPLETED"}

PaymentMethod == {"PAYOS", "COD"}

PaymentStatus == {"PENDING", "COMPLETED", "FAILED", "REFUND_PENDING", "REFUNDED", "UNPAID"}

DeliveryStatus == {"PREPARING", "SHIPPED", "DELIVERED", "FAILED", "RETURNED", "CANCELED"}

\* GHN's statuses, one for each way the program treats them: picking stands
\* for PICKING, MONEY_COLLECT_* and SORTING, transporting for PICKED, STORING,
\* TRANSPORTING and DELIVERING, delivery_fail for DELIVERY_FAIL, RETURN_FAIL
\* and EXCEPTION, returning for WAITING_TO_RETURN, RETURN, RETURN_* and
\* RETURNING, cancel for CANCEL, LOST and DAMAGE.
CourierStatus == {"ready_to_pick", "picking", "transporting", "delivered",
                  "delivery_fail", "returning", "returned", "cancel"}

ASSUME MovesAssumption == Moves \in [CourierStatus -> SUBSET CourierStatus]

\* MUTANT: a DeliveryStatus spelt as the OrderStatus of the same meaning.
DeliveryStatusMisspelt(g) ==
    CASE g = "ready_to_pick"                -> "PREPARING"
      [] g \in {"picking", "transporting"}  -> "SHIPPED"
      [] g = "delivered"                    -> "DELIVERED"
      [] g = "delivery_fail"                -> "FAILED"
      [] g \in {"returning", "returned"}    -> "RETURNED"
      [] g = "cancel"                       -> "CANCELLED"

\* mapGhnStatusToDeliveryStatus.
DeliveryStatusOf(g) ==
    CASE g = "ready_to_pick"                -> "PREPARING"
      [] g \in {"picking", "transporting"}  -> "SHIPPED"
      [] g = "delivered"                    -> "DELIVERED"
      [] g = "delivery_fail"                -> "FAILED"
      [] g \in {"returning", "returned"}    -> "RETURNED"
      [] g = "cancel"                       -> "CANCELED"

\* The order status a SWITCH_STATUS webhook writes; unset when it writes none.
StatusByWebhook(g) ==
    CASE g = "delivered"               -> "DELIVERED"
      [] g \in {"cancel", "returned"}  -> "CANCELLED"
      [] g = "transporting"            -> "SHIPPING"
      [] OTHER                         -> "unset"

\* The order status updateDeliveryFromGHN writes for a delivery status.
StatusByRefresh(d) ==
    CASE d = "DELIVERED"               -> "DELIVERED"
      [] d \in {"CANCELED", "FAILED"}  -> "CANCELLED"
      [] d = "SHIPPED"                 -> "SHIPPING"
      [] OTHER                         -> "unset"

Shipments == [order : Orders, cod : BOOLEAN]
Deliveries == [code : Codes, status : DeliveryStatus]

ASSUME NullAssumption == NoShipment \notin Shipments /\ NoDelivery \notin Deliveries

\* What each handler has read, and has not acted on yet.
NoCall == [op : {"none"}]
ConfirmCall == [op : {"confirm"}, order : Orders, cod : BOOLEAN]
BookedCall == [op : {"booked"}, order : Orders, code : Codes]
CancelCall == [op : {"cancel"}, order : Orders]
ReceiveCall == [op : {"receive"}, order : Orders, settle : BOOLEAN]
CallbackCall == [op : {"callback"}, payment : Payments, success : BOOLEAN,
                 open : SUBSET Orders]
RefreshCall == [op : {"refresh"}, order : Orders, seen : DeliveryStatus]
FetchedCall == [op : {"fetched"}, order : Orders, got : DeliveryStatus]
WrittenCall == [op : {"written"}, order : Orders, got : DeliveryStatus]

CallRecords == NoCall \cup ConfirmCall \cup BookedCall \cup CancelCall \cup ReceiveCall
                 \cup CallbackCall \cup RefreshCall \cup FetchedCall \cup WrittenCall

VARIABLES
    status,         \* status[o] of the order row
    delivery,       \* delivery[o]: its delivery row, order_id is unique
    method,         \* method[p] of the payment row
    pay,            \* pay[p]: its status
    link,           \* link[p]: how far createPayOSPayment is
    gateway,        \* gateway[p]: the outcomes PayOS has called back about
    shipment,       \* shipment[c]: the shipment booked at GHN under code c
    reported,       \* reported[c]: the statuses it has had, webhooks sent for each
    current,        \* current[c]: the status it has now
    call,           \* call[k]: handler in flight
    received,       \* (history) orders a buyer confirmed as received
    refused         \* (history) orders a farm cancelled

orderVars == <<status, delivery>>
paymentVars == <<method, pay, link, gateway>>
courierVars == <<shipment, reported, current>>
history == <<received, refused>>
vars == <<orderVars, paymentVars, courierVars, call, history>>

OrdersOf(p) == {o \in Orders : PaymentOf[o] = p}

\* MUTANT: a payment at the door counts as settled from the start.
Awaited(p) == pay[p] = "PENDING"

\* Neither a callback nor a receipt changes a payment that it reads as COMPLETED.
Unsettled(p) == pay[p] # "COMPLETED"

Idle == [op |-> "none"]
Start(k, record) == call[k] = Idle /\ call' = [call EXCEPT ![k] = record]
Continue(k, record) == call' = [call EXCEPT ![k] = record]
End(k) == call' = [call EXCEPT ![k] = Idle]
-----------------------------------------------------------------------------
\* The orders as creatBatchOders commits them; the request of a PAYOS batch is
\* about to create its payment link.
Init ==
    /\ status = [o \in Orders |-> "PENDING_CONFIRMATION"]
    /\ delivery = [o \in Orders |-> NoDelivery]
    /\ method \in [Payments -> PaymentMethod]
    /\ pay = [p \in Payments |-> IF method[p] = "PAYOS" THEN "PENDING" ELSE "UNPAID"]
    /\ link = [p \in Payments |-> IF method[p] = "PAYOS" THEN "wanted" ELSE "none"]
    /\ gateway = [p \in Payments |-> {}]
    /\ shipment = [c \in Codes |-> NoShipment]
    /\ reported = [c \in Codes |-> {}]
    /\ current = [c \in Codes |-> "ready_to_pick"]
    /\ call = [k \in Calls |-> Idle]
    /\ received = {}
    /\ refused = {}
-----------------------------------------------------------------------------
(***************************************************************************)
(* The payment link.                                                       *)
(***************************************************************************)
\* payosService.createPayOSOrder answers.
OpenLink(p) ==
    /\ link[p] = "wanted"
    /\ link' = [link EXCEPT ![p] = "open"]
    /\ UNCHANGED <<orderVars, method, pay, gateway, courierVars, call, history>>

\* createPayOSPayment stores transaction_id; the buyer gets the link.
StoreLink(p) ==
    /\ link[p] = "open"
    /\ link' = [link EXCEPT ![p] = "stored"]
    /\ pay' = [pay EXCEPT ![p] = "PENDING"]
    /\ UNCHANGED <<orderVars, method, gateway, courierVars, call, history>>

\* createPayOSPayment throws, at PayOS or storing the answer: the payment has
\* failed, the orders stay as they are.
FailLink(p) ==
    /\ link[p] \in {"wanted", "open"}
    /\ link' = [link EXCEPT ![p] = "failed"]
    /\ pay' = [pay EXCEPT ![p] = "FAILED"]
    /\ UNCHANGED <<orderVars, method, gateway, courierVars, call, history>>

\* The buyer pays; PayOS calls back, perhaps late, perhaps again.
BuyerPays(p) ==
    /\ link[p] = "stored"
    /\ gateway' = [gateway EXCEPT ![p] = @ \cup {"success"}]
    /\ UNCHANGED <<orderVars, method, pay, link, courierVars, call, history>>

\* An attempt to pay fails; PayOS calls back about it too.
AttemptFails(p) ==
    /\ link[p] = "stored"
    /\ "success" \notin gateway[p]
    /\ gateway' = [gateway EXCEPT ![p] = @ \cup {"failure"}]
    /\ UNCHANGED <<orderVars, method, pay, link, courierVars, call, history>>

isPaymentSuccessful(outcome) == outcome = "success"

\* handlePayOSCallback reads the payment and its orders, locking nothing.  A
\* callback that is malformed, unsigned, for another amount, or for a payment
\* already COMPLETED changes nothing.
ReadCallback(k, p) ==
    /\ link[p] = "stored"
    /\ Unsettled(p)
    /\ \E outcome \in gateway[p] :
          Start(k, [op |-> "callback", payment |-> p, success |-> isPaymentSuccessful(outcome),
                    open |-> {o \in OrdersOf(p) : status[o] # "CANCELLED"}])
    /\ UNCHANGED <<orderVars, paymentVars, courierVars, history>>

\* It saves the payment and the orders it read, and commits: all of them when
\* the payment failed, those it had not read as CANCELLED when it succeeded.
CommitCallback(k) ==
    /\ call[k].op = "callback"
    /\ LET p == call[k].payment
       IN  \/ /\ call[k].success
              /\ pay' = [pay EXCEPT ![p] = "COMPLETED"]
              /\ status' = [o \in Orders |-> IF o \in call[k].open THEN "PAID" ELSE status[o]]
           \/ /\ ~call[k].success
              /\ pay' = [pay EXCEPT ![p] = "FAILED"]
              /\ status' = [o \in Orders |-> IF o \in OrdersOf(p) THEN "PAYMENT_FAILED" ELSE status[o]]
    /\ End(k)
    /\ UNCHANGED <<delivery, method, link, gateway, courierVars, history>>
-----------------------------------------------------------------------------
(***************************************************************************)
(* The farm.                                                               *)
(***************************************************************************)
\* farmerConfirmOrder: one conditional UPDATE.
FarmerConfirm(o) ==
    /\ status[o] = "PENDING_CONFIRMATION"
    /\ status' = [status EXCEPT ![o] = "CONFIRMED"]
    /\ UNCHANGED <<delivery, paymentVars, courierVars, call, history>>

\* farmerCancelOrder reads the order ...
ReadToCancel(k, o) ==
    /\ status[o] = "PENDING_CONFIRMATION"
    /\ Start(k, [op |-> "cancel", order |-> o])
    /\ UNCHANGED <<orderVars, paymentVars, courierVars, history>>

\* ... and saves it, whatever its status has become.  (save() fails, which is
\* Abandon, when it finds a delivery row the order was read without; one that
\* is committed after save() has looked goes unnoticed.)
SaveCancelled(k) ==
    /\ call[k].op = "cancel"
    /\ status' = [status EXCEPT ![call[k].order] = "CANCELLED"]
    /\ refused' = refused \cup {call[k].order}
    /\ End(k)
    /\ UNCHANGED <<delivery, paymentVars, courierVars, received>>

\* The order confirmOrderDelivery goes on with.
CanBook(o) == status[o] = "PENDING_CONFIRMATION" /\ delivery[o] = NoDelivery

\* MUTANT: whatever has not been paid yet is collected at the door.
CollectWhenNotCompleted(p) == pay[p] # "COMPLETED"

\* MUTANT: the wrong one of the two statuses of a payment not made yet.
CollectWhenPending(p) == pay[p] = "PENDING"

\* isCOD: the courier collects the price at the door.
CollectAtDoor(p) == pay[p] = "UNPAID"

\* confirmOrderDelivery reads the order with its payment and delivery.
ReadToBook(k, o) ==
    /\ CanBook(o)
    /\ Start(k, [op |-> "confirm", order |-> o, cod |-> CollectAtDoor(PaymentOf[o])])
    /\ UNCHANGED <<orderVars, paymentVars, courierVars, history>>

\* createOrderByGHN: GHN takes the shipment, for good.
Book(k) ==
    /\ call[k].op = "confirm"
    /\ \E c \in Codes :
          /\ shipment[c] = NoShipment
          /\ shipment' = [shipment EXCEPT ![c] = [order |-> call[k].order, cod |-> call[k].cod]]
          /\ reported' = [reported EXCEPT ![c] = {"ready_to_pick"}]
          /\ Continue(k, [op |-> "booked", order |-> call[k].order, code |-> c])
    /\ UNCHANGED <<orderVars, paymentVars, current, history>>

\* MUTANT: order_id is not unique, and the newest delivery row is the order's.
CommitSecondBooking(k) ==
    /\ call[k].op = "booked"
    /\ LET o == call[k].order
       IN  /\ delivery' = [delivery EXCEPT ![o] = [code |-> call[k].code, status |-> "PREPARING"]]
           /\ status' = [status EXCEPT ![o] = "CONFIRMED"]
    /\ End(k)
    /\ UNCHANGED <<paymentVars, courierVars, history>>

\* The delivery row is inserted and the order confirmed, by id alone.  A
\* second delivery of the order breaks the unique order_id and rolls back.
CommitBooking(k) ==
    /\ call[k].op = "booked"
    /\ LET o == call[k].order
       IN  /\ delivery[o] = NoDelivery
           /\ delivery' = [delivery EXCEPT ![o] = [code |-> call[k].code, status |-> "PREPARING"]]
           /\ status' = [status EXCEPT ![o] = "CONFIRMED"]
    /\ End(k)
    /\ UNCHANGED <<paymentVars, courierVars, history>>
-----------------------------------------------------------------------------
(***************************************************************************)
(* GHN and its webhooks.                                                   *)
(***************************************************************************)
Carried == {c \in Codes : shipment[c] # NoShipment}

ShipmentMoves(c) ==
    /\ c \in Carried
    /\ \E g \in Moves[current[c]] :
          /\ current' = [current EXCEPT ![c] = g]
          /\ reported' = [reported EXCEPT ![c] = @ \cup {g}]
    /\ UNCHANGED <<orderVars, paymentVars, shipment, call, history>>

\* The order whose delivery row has the code.
IsDeliveryOf(o, c) == delivery[o] # NoDelivery /\ delivery[o].code = c

\* SWITCH_STATUS, for any status the shipment has had: webhooks come late, out
\* of order or twice, and one that finds no delivery row is lost.
SwitchStatus(o, c, g) ==
    /\ g \in reported[c]
    /\ IsDeliveryOf(o, c)
    /\ delivery' = [delivery EXCEPT ![o].status = DeliveryStatusOf(g)]
    /\ IF StatusByWebhook(g) = "unset"
          THEN UNCHANGED status
          ELSE status' = [status EXCEPT ![o] = StatusByWebhook(g)]
    /\ UNCHANGED <<paymentVars, courierVars, call, history>>

\* CREATE writes the delivery's status and leaves the order's.
CreateReported(o, c) ==
    /\ "ready_to_pick" \in reported[c]
    /\ IsDeliveryOf(o, c)
    /\ delivery' = [delivery EXCEPT ![o].status = "PREPARING"]
    /\ UNCHANGED <<status, paymentVars, courierVars, call, history>>

\* updateDeliveryFromGHN reads the delivery ...
ReadToRefresh(k, o) ==
    /\ delivery[o] # NoDelivery
    /\ Start(k, [op |-> "refresh", order |-> o, seen |-> delivery[o].status])
    /\ UNCHANGED <<orderVars, paymentVars, courierVars, history>>

\* ... asks GHN, compares the answer with what it read ...
Fetch(k) ==
    /\ call[k].op = "refresh"
    /\ LET got == DeliveryStatusOf(current[delivery[call[k].order].code])
       IN  IF got = call[k].seen
             THEN End(k)
             ELSE Continue(k, [op |-> "fetched", order |-> call[k].order, got |-> got])
    /\ UNCHANGED <<orderVars, paymentVars, courierVars, history>>

\* ... updates the delivery ...
WriteRefreshed(k) ==
    /\ call[k].op = "fetched"
    /\ delivery' = [delivery EXCEPT ![call[k].order].status = call[k].got]
    /\ IF StatusByRefresh(call[k].got) = "unset"
          THEN End(k)
          ELSE Continue(k, [op |-> "written", order |-> call[k].order, got |-> call[k].got])
    /\ UNCHANGED <<status, paymentVars, courierVars, history>>

\* ... and then, in no transaction with that, the order.
WriteOrderRefreshed(k) ==
    /\ call[k].op = "written"
    /\ status' = [status EXCEPT ![call[k].order] = StatusByRefresh(call[k].got)]
    /\ End(k)
    /\ UNCHANGED <<delivery, paymentVars, courierVars, history>>
-----------------------------------------------------------------------------
(***************************************************************************)
(* The buyer.                                                              *)
(***************************************************************************)
\* MUTANT: the status of the order is not looked at.
AnyOrder(o) == TRUE

\* The statuses in which a buyer may confirm receipt.
Receivable(o) == status[o] \in {"DELIVERED", "SHIPPING"}

\* buyerConfirmReceived reads the order with its payment and delivery ...
ReadToReceive(k, o) ==
    /\ Receivable(o)
    /\ Start(k, [op |-> "receive", order |-> o, settle |-> Unsettled(PaymentOf[o])])
    /\ UNCHANGED <<orderVars, paymentVars, courierVars, history>>

\* ... and in one transaction completes the order, its delivery, and the
\* payment unless it had read it as COMPLETED.
CommitReceived(k) ==
    /\ call[k].op = "receive"
    /\ LET o == call[k].order
           p == PaymentOf[o]
       IN  /\ status' = [status EXCEPT ![o] = "COMPLETED"]
           /\ IF delivery[o] = NoDelivery
                 THEN UNCHANGED delivery
                 ELSE delivery' = [delivery EXCEPT ![o].status = "DELIVERED"]
           /\ IF call[k].settle
                 THEN pay' = [pay EXCEPT ![p] = "COMPLETED"]
                 ELSE UNCHANGED pay
           /\ received' = received \cup {o}
    /\ End(k)
    /\ UNCHANGED <<method, link, gateway, courierVars, refused>>

\* A handler throws, rolls back, or dies with the process.
Abandon(k) ==
    /\ call[k] # Idle
    /\ End(k)
    /\ UNCHANGED <<orderVars, paymentVars, courierVars, history>>
-----------------------------------------------------------------------------
PaymentStep(p) ==
    OpenLink(p) \/ StoreLink(p) \/ FailLink(p) \/ BuyerPays(p) \/ AttemptFails(p)

CallStarts(k) ==
    \/ \E p \in Payments : ReadCallback(k, p)
    \/ \E o \in Orders :
          ReadToCancel(k, o) \/ ReadToBook(k, o) \/ ReadToRefresh(k, o) \/ ReadToReceive(k, o)

CallStep(k) ==
    \/ CommitCallback(k)
    \/ SaveCancelled(k)
    \/ Book(k)
    \/ CommitBooking(k)
    \/ Fetch(k)
    \/ WriteRefreshed(k)
    \/ WriteOrderRefreshed(k)
    \/ CommitReceived(k)
    \/ Abandon(k)

Next ==
    \/ \E p \in Payments : PaymentStep(p)
    \/ \E k \in Calls : CallStarts(k) \/ CallStep(k)
    \/ \E o \in Orders : FarmerConfirm(o)
    \/ \E c \in Codes : ShipmentMoves(c)
    \/ \E o \in Orders, c \in Codes :
          CreateReported(o, c) \/ \E g \in CourierStatus : SwitchStatus(o, c, g)

Spec == Init /\ [][Next]_vars
-----------------------------------------------------------------------------
TypeOK ==
    /\ status \in [Orders -> OrderStatus]
    /\ delivery \in [Orders -> Deliveries \cup {NoDelivery}]
    /\ method \in [Payments -> PaymentMethod]
    /\ pay \in [Payments -> PaymentStatus]
    /\ link \in [Payments -> {"none", "wanted", "open", "stored", "failed"}]
    /\ gateway \in [Payments -> SUBSET {"success", "failure"}]
    /\ shipment \in [Codes -> Shipments \cup {NoShipment}]
    /\ reported \in [Codes -> SUBSET CourierStatus]
    /\ current \in [Codes -> CourierStatus]
    /\ call \in [Calls -> CallRecords]
    /\ received \subseteq Orders
    /\ refused \subseteq Orders

\* GHN has reported one of the statuses G for the shipment of order o.
CourierSaid(o, G) == delivery[o] # NoDelivery /\ reported[delivery[o].code] \cap G # {}

\* What must have happened before order o is given status s.
HasCause(o, s) ==
    /\ s = "SHIPPING" => CourierSaid(o, {"picking", "transporting"})
    /\ s = "DELIVERED" => CourierSaid(o, {"delivered"})
    /\ s = "COMPLETED" =>
          o \in received /\ CourierSaid(o, {"picking", "transporting", "delivered"})
    /\ s = "PAID" => "success" \in gateway[PaymentOf[o]]
    /\ s = "PAYMENT_FAILED" => "failure" \in gateway[PaymentOf[o]]
    /\ s = "CANCELLED" =>
          o \in refused \/ CourierSaid(o, {"cancel", "delivery_fail", "returned"})

\* No status is made up: whatever handlers, webhooks and callbacks interleave,
\* and however stale what they read, an order is shown as shipping or delivered
\* only if GHN has said so of its shipment, as paid or failed only if PayOS has,
\* as completed only if its buyer confirmed a shipment that had left, and as
\* cancelled only if its farm, or GHN, has given it up.
StatusHasCause == \A o \in Orders : HasCause(o, status[o])

\* A cash-on-delivery payment is COMPLETED exactly when a buyer has confirmed
\* one of its orders, although several handlers may write it at once.
CodSettledByReceipt ==
    \A p \in Payments : method[p] = "COD" =>
        (pay[p] = "COMPLETED" <=> OrdersOf(p) \cap received # {})

\* Nobody pays twice: the courier never collects the price of an order whose
\* buyer pays, or has paid, through PayOS.
NoDoubleCharge ==
    \A c \in Carried : shipment[c].cod => method[PaymentOf[shipment[c].order]] = "COD"

\* The courier leaves a cash-on-delivery order uncollected only if ANOTHER order
\* of the same batch was received before: a batch of one order is collected.
UncollectedOnlyAfterSibling ==
    \A c \in Carried :
        LET o == shipment[c].order
        IN  method[PaymentOf[o]] = "COD" /\ ~shipment[c].cod =>
               (OrdersOf(PaymentOf[o]) \ {o}) \cap received # {}

\* What a handler in flight has read, and still relies on.
Justified(r) ==
    /\ r.op = "callback" =>
          /\ method[r.payment] = "PAYOS"
          /\ (IF r.success THEN "success" ELSE "failure") \in gateway[r.payment]
          /\ r.open \subseteq OrdersOf(r.payment)
    /\ r.op = "confirm" /\ r.cod => method[PaymentOf[r.order]] = "COD"
    /\ r.op = "confirm" /\ ~r.cod /\ method[PaymentOf[r.order]] = "COD" =>
          (OrdersOf(PaymentOf[r.order]) \ {r.order}) \cap received # {}
    /\ r.op = "booked" => r.code \in Carried /\ shipment[r.code].order = r.order
    /\ r.op = "refresh" => delivery[r.order] # NoDelivery
    /\ r.op \in {"fetched", "written"} =>
          CourierSaid(r.order, {g \in CourierStatus : DeliveryStatusOf(g) = r.got})
    /\ r.op = "written" => StatusByRefresh(r.got) # "unset"
    /\ r.op = "receive" => CourierSaid(r.order, {"picking", "transporting", "delivered"})
    /\ r.op = "receive" /\ ~r.settle /\ method[PaymentOf[r.order]] = "COD" =>
          pay[PaymentOf[r.order]] = "COMPLETED"

\* What a handler has read and not acted on yet is never what makes it wrong:
\* a callback's outcome was reported, a status fetched from GHN was GHN's, a
\* code booked is that order's, and a flag read from the payment still has its
\* reason, although statuses and payments move on while the handler waits.
CallsJustified == \A k \in Calls : Justified(call[k])

\* The first shipment stays: two confirmations of one order may both book a
\* shipment at GHN, yet the delivery row keeps the code it was created with.
FirstShipmentStays ==
    [][\A o \in Orders : delivery[o] # NoDelivery =>
          delivery'[o] # NoDelivery /\ delivery'[o].code = delivery[o].code]_vars

\* What the comment in confirmOrderDelivery says: the payment METHOD decides
\* who pays the courier, so a cash-on-delivery order is always collected.
CodByMethod ==
    \A c \in Carried :
        shipment[c].cod <=> method[PaymentOf[shipment[c].order]] = "COD"

\* What the same comment says of PayOS: an order that is already paid is
\* shipped at the sender's expense, so it can be booked.
PaidOrdersCanShip ==
    \A o \in Orders : status[o] = "PAID" /\ delivery[o] = NoDelivery => CanBook(o)
=============================================================================
