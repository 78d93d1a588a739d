----------------------- MODULE OrderFulfilmentProofs -----------------------
(***************************************************************************)
(* Proofs about OrderFulfilment, for any set of orders and payments, any   *)
(* number of handlers in flight and any way GHN moves a shipment.          *)
(***************************************************************************)
EXTENDS OrderFulfilment, TLAPS

\* Only a PayOS payment has a link, and only then is it ever PENDING or FAILED.
LinksArePayOS ==
    \A p \in Payments :
        /\ method[p] = "COD" => link[p] = "none" /\ pay[p] \in {"UNPAID", "COMPLETED"}
        /\ method[p] = "PAYOS" => pay[p] # "UNPAID"

\* A code nobody has been given has no history, and one that has been given
\* out has its present status among those reported.
CodesHaveHistory ==
    \A c \in Codes :
        IF shipment[c] = NoShipment
          THEN reported[c] = {} /\ current[c] = "ready_to_pick"
          ELSE current[c] \in reported[c]

\* The code of a delivery row is a shipment of that order.
DeliveriesAreCarried ==
    \A o \in Orders : delivery[o] # NoDelivery =>
        delivery[o].code \in Carried /\ shipment[delivery[o].code].order = o

\* A received order never waits for its farm again.
ReceivedWereConfirmed == \A o \in received : status[o] # "PENDING_CONFIRMATION"

IInv ==
    /\ TypeOK
    /\ LinksArePayOS
    /\ CodesHaveHistory
    /\ DeliveriesAreCarried
    /\ ReceivedWereConfirmed
    /\ CallsJustified
    /\ StatusHasCause
    /\ CodSettledByReceipt
    /\ NoDoubleCharge
    /\ UncollectedOnlyAfterSibling
-----------------------------------------------------------------------------
USE PaymentOfAssumption, MovesAssumption, NullAssumption

\* A record in call[k] has the fields its op promises.
LEMMA CallShapes ==
    ASSUME TypeOK, NEW k \in Calls
    PROVE  /\ call[k].op = "callback" => call[k] \in CallbackCall
           /\ call[k].op = "cancel" => call[k] \in CancelCall
           /\ call[k].op = "confirm" => call[k] \in ConfirmCall
           /\ call[k].op = "booked" => call[k] \in BookedCall
           /\ call[k].op = "refresh" => call[k] \in RefreshCall
           /\ call[k].op = "fetched" => call[k] \in FetchedCall
           /\ call[k].op = "written" => call[k] \in WrittenCall
           /\ call[k].op = "receive" => call[k] \in ReceiveCall
<1>1. call[k] \in CallRecords
  BY DEF TypeOK
<1> QED
  BY <1>1 DEF CallRecords, NoCall, ConfirmCall, BookedCall, CancelCall, ReceiveCall,
              CallbackCall, RefreshCall, FetchedCall, WrittenCall

\* What courier statuses are mapped to is a status.
LEMMA StatusMaps ==
    /\ \A g \in CourierStatus : DeliveryStatusOf(g) \in DeliveryStatus
    /\ \A g \in CourierStatus : StatusByWebhook(g) \in OrderStatus \cup {"unset"}
    /\ \A d \in DeliveryStatus : StatusByRefresh(d) \in OrderStatus \cup {"unset"}
BY DEF CourierStatus, DeliveryStatus, OrderStatus, DeliveryStatusOf, StatusByWebhook,
       StatusByRefresh

\* Every step keeps the types.
LEMMA TypeStep ==
    ASSUME IInv, [Next]_vars
    PROVE  TypeOK'
<1> USE DEF TypeOK
<1>0. TypeOK /\ CallsJustified
  BY DEF IInv
<1>1. ASSUME NEW p \in Payments, PaymentStep(p) PROVE TypeOK'
  BY <1>0, <1>1 DEF PaymentStep, OpenLink, StoreLink, FailLink, BuyerPays, AttemptFails,
                    orderVars, courierVars, history, PaymentStatus
<1>2. ASSUME NEW k \in Calls, NEW p \in Payments, ReadCallback(k, p) PROVE TypeOK'
  BY <1>0, <1>2 DEF ReadCallback, isPaymentSuccessful, Start, CallRecords, CallbackCall, OrdersOf,
                    orderVars, paymentVars, courierVars, history
<1>3. ASSUME NEW k \in Calls, NEW o \in Orders, ReadToCancel(k, o) PROVE TypeOK'
  BY <1>0, <1>3 DEF ReadToCancel, Start, CallRecords, CancelCall,
                    orderVars, paymentVars, courierVars, history
<1>4. ASSUME NEW k \in Calls, NEW o \in Orders, ReadToBook(k, o) PROVE TypeOK'
  BY <1>0, <1>4 DEF ReadToBook, Start, CallRecords, ConfirmCall, CollectAtDoor,
                    orderVars, paymentVars, courierVars, history
<1>5. ASSUME NEW k \in Calls, NEW o \in Orders, ReadToRefresh(k, o) PROVE TypeOK'
  BY <1>0, <1>5 DEF ReadToRefresh, Start, CallRecords, RefreshCall, Deliveries,
                    orderVars, paymentVars, courierVars, history
<1>6. ASSUME NEW k \in Calls, NEW o \in Orders, ReadToReceive(k, o) PROVE TypeOK'
  BY <1>0, <1>6 DEF ReadToReceive, Start, CallRecords, ReceiveCall, Unsettled,
                    orderVars, paymentVars, courierVars, history
<1>7. ASSUME NEW k \in Calls, CommitCallback(k) PROVE TypeOK'
  BY <1>0, <1>7 DEF CommitCallback, End, Idle, CallRecords, NoCall, OrdersOf,
                    courierVars, history, OrderStatus, PaymentStatus
<1>8. ASSUME NEW k \in Calls, SaveCancelled(k) PROVE TypeOK'
  <2>1. call[k].order \in Orders
    BY <1>0, <1>8, CallShapes DEF SaveCancelled, CancelCall
  <2> QED
    BY <1>0, <1>8, <2>1 DEF SaveCancelled, End, Idle, CallRecords, NoCall, OrderStatus,
                            paymentVars, courierVars
<1>9. ASSUME NEW k \in Calls, Book(k) PROVE TypeOK'
  <2>1. call[k] \in ConfirmCall
    BY <1>0, <1>9, CallShapes DEF Book
  <2>2. PICK c \in Codes :
          /\ shipment' = [shipment EXCEPT ![c] = [order |-> call[k].order, cod |-> call[k].cod]]
          /\ reported' = [reported EXCEPT ![c] = {"ready_to_pick"}]
          /\ Continue(k, [op |-> "booked", order |-> call[k].order, code |-> c])
    BY <1>9 DEF Book
  <2>3. [op |-> "booked", order |-> call[k].order, code |-> c] \in CallRecords
    BY <2>1 DEF ConfirmCall, CallRecords, BookedCall
  <2>4. [order |-> call[k].order, cod |-> call[k].cod] \in Shipments
    BY <2>1 DEF ConfirmCall, Shipments
  <2> QED
    BY <1>0, <1>9, <2>2, <2>3, <2>4 DEF Book, Continue, CourierStatus, orderVars,
                                        paymentVars, history
<1>10. ASSUME NEW k \in Calls, CommitBooking(k) PROVE TypeOK'
  <2>1. call[k] \in BookedCall
    BY <1>0, <1>10, CallShapes DEF CommitBooking
  <2>2. [code |-> call[k].code, status |-> "PREPARING"] \in Deliveries
    BY <2>1 DEF BookedCall, Deliveries, DeliveryStatus
  <2> QED
    BY <1>0, <1>10, <2>1, <2>2 DEF CommitBooking, End, Idle, CallRecords, NoCall,
                                   OrderStatus, paymentVars, courierVars, history
<1>11. ASSUME NEW k \in Calls, Fetch(k) PROVE TypeOK'
  <2>1. call[k] \in RefreshCall /\ delivery[call[k].order] \in Deliveries
    BY <1>0, <1>11, CallShapes DEF Fetch, CallsJustified, Justified, RefreshCall
  <2> DEFINE got == DeliveryStatusOf(current[delivery[call[k].order].code])
  <2>2. got \in DeliveryStatus
    BY <1>0, <2>1, StatusMaps DEF Deliveries
  <2>3. [op |-> "fetched", order |-> call[k].order, got |-> got] \in CallRecords
    BY <2>1, <2>2 DEF RefreshCall, CallRecords, FetchedCall
  <2>4. End(k) \/ Continue(k, [op |-> "fetched", order |-> call[k].order, got |-> got])
    BY <1>11 DEF Fetch
  <2> HIDE DEF got
  <2> QED
    BY <1>0, <1>11, <2>3, <2>4 DEF Fetch, End, Continue, Idle, CallRecords, NoCall,
                                   orderVars, paymentVars, courierVars, history
<1>12. ASSUME NEW k \in Calls, WriteRefreshed(k) PROVE TypeOK'
  <2>1. call[k] \in FetchedCall /\ delivery[call[k].order] \in Deliveries
    BY <1>0, <1>12, CallShapes DEF WriteRefreshed, CallsJustified, Justified, CourierSaid, FetchedCall
  <2>2. [delivery[call[k].order] EXCEPT !.status = call[k].got] \in Deliveries
    BY <2>1 DEF FetchedCall, Deliveries
  <2>3. [op |-> "written", order |-> call[k].order, got |-> call[k].got] \in CallRecords
    BY <2>1 DEF FetchedCall, CallRecords, WrittenCall
  <2>4. delivery' \in [Orders -> Deliveries \cup {NoDelivery}]
    <3>1. delivery' = [delivery EXCEPT ![call[k].order] = [@ EXCEPT !.status = call[k].got]]
      BY <1>12 DEF WriteRefreshed
    <3> QED
      BY <1>0, <2>2, <3>1
  <2>5. call' \in [Calls -> CallRecords]
    BY <1>0, <1>12, <2>3 DEF WriteRefreshed, End, Continue, Idle, CallRecords, NoCall
  <2> QED
    BY <1>0, <1>12, <2>4, <2>5 DEF WriteRefreshed, paymentVars, courierVars, history
<1>13. ASSUME NEW k \in Calls, WriteOrderRefreshed(k) PROVE TypeOK'
  <2>1. call[k] \in WrittenCall
    BY <1>0, <1>13, CallShapes DEF WriteOrderRefreshed
  <2>2. StatusByRefresh(call[k].got) \in OrderStatus
    BY <1>0, <1>13, <2>1, StatusMaps DEF WriteOrderRefreshed, WrittenCall, CallsJustified, Justified
  <2> QED
    BY <1>0, <1>13, <2>1, <2>2 DEF WriteOrderRefreshed, End, Idle, CallRecords, NoCall,
                                   paymentVars, courierVars, history
<1>14. ASSUME NEW k \in Calls, CommitReceived(k) PROVE TypeOK'
  <2>1. call[k] \in ReceiveCall /\ delivery[call[k].order] \in Deliveries
    BY <1>0, <1>14, CallShapes DEF CommitReceived, CallsJustified, Justified, CourierSaid, ReceiveCall
  <2>2. [delivery[call[k].order] EXCEPT !.status = "DELIVERED"] \in Deliveries
    BY <2>1 DEF Deliveries, DeliveryStatus
  <2>3. delivery' = [delivery EXCEPT ![call[k].order] = [@ EXCEPT !.status = "DELIVERED"]]
    BY <1>14, <2>1, NullAssumption DEF CommitReceived
  <2>4. call[k].order \in Orders /\ PaymentOf[call[k].order] \in Payments
    BY <2>1 DEF ReceiveCall
  <2> QED
    BY <1>0, <1>14, <2>2, <2>3, <2>4 DEF CommitReceived, End, Idle, CallRecords, NoCall,
                                    OrderStatus, PaymentStatus, courierVars
<1>15. ASSUME NEW k \in Calls, Abandon(k) PROVE TypeOK'
  BY <1>0, <1>15 DEF Abandon, End, Idle, CallRecords, NoCall,
                     orderVars, paymentVars, courierVars, history
<1>16. ASSUME NEW o \in Orders, FarmerConfirm(o) PROVE TypeOK'
  BY <1>0, <1>16 DEF FarmerConfirm, OrderStatus, paymentVars, courierVars, history
<1>17. ASSUME NEW c \in Codes, ShipmentMoves(c) PROVE TypeOK'
  <2>1. PICK g \in Moves[current[c]] :
          /\ current' = [current EXCEPT ![c] = g]
          /\ reported' = [reported EXCEPT ![c] = @ \cup {g}]
    BY <1>17 DEF ShipmentMoves
  <2>2. g \in CourierStatus
    BY <1>0
  <2> QED
    BY <1>0, <1>17, <2>1, <2>2 DEF ShipmentMoves, orderVars, paymentVars, history
<1>18. ASSUME NEW o \in Orders, NEW c \in Codes, CreateReported(o, c) PROVE TypeOK'
  <2>1. [delivery[o] EXCEPT !.status = "PREPARING"] \in Deliveries
    BY <1>0, <1>18 DEF CreateReported, IsDeliveryOf, Deliveries, DeliveryStatus
  <2>2. delivery' = [delivery EXCEPT ![o] = [@ EXCEPT !.status = "PREPARING"]]
    BY <1>18 DEF CreateReported
  <2> QED
    BY <1>0, <1>18, <2>1, <2>2 DEF CreateReported, paymentVars, courierVars, history
<1>19. ASSUME NEW o \in Orders, NEW c \in Codes, NEW g \in CourierStatus, SwitchStatus(o, c, g)
       PROVE  TypeOK'
  <2>1. [delivery[o] EXCEPT !.status = DeliveryStatusOf(g)] \in Deliveries
    BY <1>0, <1>19, StatusMaps DEF SwitchStatus, IsDeliveryOf, Deliveries
  <2>2. delivery' = [delivery EXCEPT ![o] = [@ EXCEPT !.status = DeliveryStatusOf(g)]]
    BY <1>19 DEF SwitchStatus
  <2>3. status' \in [Orders -> OrderStatus]
    BY <1>0, <1>19, StatusMaps DEF SwitchStatus
  <2> QED
    BY <1>0, <1>19, <2>1, <2>2, <2>3 DEF SwitchStatus, paymentVars, courierVars, history
<1>20. ASSUME UNCHANGED vars PROVE TypeOK'
  BY <1>0, <1>20 DEF vars, orderVars, paymentVars, courierVars, history
<1> QED
  BY <1>1, <1>2, <1>3, <1>4, <1>5, <1>6, <1>7, <1>8, <1>9, <1>10, <1>11, <1>12, <1>13, <1>14,
     <1>15, <1>16, <1>17, <1>18, <1>19, <1>20
     DEF Next, CallStarts, CallStep
-----------------------------------------------------------------------------
\* Which steps touch which part of the state.
LEMMA StatusFrame ==
    ASSUME [Next]_vars
    PROVE  \/ UNCHANGED <<status, received, refused>>
           \/ \E k \in Calls :
                 CommitCallback(k) \/ SaveCancelled(k) \/ CommitBooking(k)
                   \/ WriteOrderRefreshed(k) \/ CommitReceived(k)
           \/ \E o \in Orders : FarmerConfirm(o)
           \/ \E o \in Orders, c \in Codes, g \in CourierStatus : SwitchStatus(o, c, g)
BY DEF Next, vars, orderVars, paymentVars, courierVars, history, PaymentStep, CallStarts,
       CallStep, OpenLink, StoreLink, FailLink, BuyerPays, AttemptFails, ReadCallback,
       ReadToCancel, ReadToBook, ReadToRefresh, ReadToReceive, Book, Fetch, WriteRefreshed,
       Abandon, ShipmentMoves, CreateReported

\* The only steps that write a delivery row.
LEMMA DeliveryFrame ==
    ASSUME [Next]_vars
    PROVE  \/ UNCHANGED delivery
           \/ \E k \in Calls : CommitBooking(k) \/ WriteRefreshed(k) \/ CommitReceived(k)
           \/ \E o \in Orders, c \in Codes :
                 CreateReported(o, c) \/ \E g \in CourierStatus : SwitchStatus(o, c, g)
BY DEF Next, vars, orderVars, paymentVars, courierVars, history, PaymentStep, CallStarts,
       CallStep, OpenLink, StoreLink, FailLink, BuyerPays, AttemptFails, ReadCallback,
       ReadToCancel, ReadToBook, ReadToRefresh, ReadToReceive, Book, Fetch, CommitCallback,
       SaveCancelled, WriteOrderRefreshed, FarmerConfirm, Abandon, ShipmentMoves

\* The only steps that write a payment, or what PayOS has said.
LEMMA PaymentFrame ==
    ASSUME [Next]_vars
    PROVE  \/ UNCHANGED paymentVars
           \/ \E p \in Payments : PaymentStep(p)
           \/ \E k \in Calls : CommitCallback(k) \/ CommitReceived(k)
BY DEF Next, vars, orderVars, paymentVars, courierVars, history, CallStarts,
       CallStep, ReadCallback, ReadToCancel, ReadToBook, ReadToRefresh, ReadToReceive,
       Book, Fetch, CommitBooking, WriteRefreshed, SaveCancelled, WriteOrderRefreshed,
       FarmerConfirm, Abandon, ShipmentMoves, CreateReported, SwitchStatus

\* The only steps that change what GHN knows.
LEMMA CourierFrame ==
    ASSUME [Next]_vars
    PROVE  \/ UNCHANGED courierVars
           \/ \E k \in Calls : Book(k)
           \/ \E c \in Codes : ShipmentMoves(c)
BY DEF Next, vars, orderVars, paymentVars, courierVars, history, PaymentStep, CallStarts,
       CallStep, OpenLink, StoreLink, FailLink, BuyerPays, AttemptFails, ReadCallback,
       ReadToCancel, ReadToBook, ReadToRefresh, ReadToReceive, Fetch, CommitCallback,
       CommitBooking, WriteRefreshed, CommitReceived, SaveCancelled, WriteOrderRefreshed,
       FarmerConfirm, Abandon, CreateReported, SwitchStatus

\* The only steps of a handler in flight.
LEMMA CallFrame ==
    ASSUME [Next]_vars
    PROVE  UNCHANGED call \/ \E k \in Calls : CallStarts(k) \/ CallStep(k)
BY DEF Next, vars, PaymentStep, OpenLink, StoreLink, FailLink, BuyerPays, AttemptFails,
       FarmerConfirm, ShipmentMoves, CreateReported, SwitchStatus
-----------------------------------------------------------------------------
\* What never changes, and what only grows.
LEMMA MethodStays ==
    ASSUME [Next]_vars
    PROVE  method' = method
BY PaymentFrame DEF paymentVars, PaymentStep, OpenLink, StoreLink, FailLink, BuyerPays,
                    AttemptFails, CommitCallback, CommitReceived

\* Receipts and cancellations are never taken back.
LEMMA HistoryGrows ==
    ASSUME [Next]_vars
    PROVE  received \subseteq received' /\ refused \subseteq refused'
BY StatusFrame DEF CommitCallback, SaveCancelled, CommitBooking, WriteOrderRefreshed,
                   CommitReceived, FarmerConfirm, SwitchStatus, history

\* What PayOS has called back about stays said.
LEMMA GatewayGrows ==
    ASSUME TypeOK, [Next]_vars, NEW p \in Payments
    PROVE  gateway[p] \subseteq gateway'[p]
<1>1. ASSUME NEW paid \in Payments, PaymentStep(paid) PROVE gateway[p] \subseteq gateway'[p]
  BY <1>1 DEF TypeOK, PaymentStep, OpenLink, StoreLink, FailLink, BuyerPays, AttemptFails
<1> QED
  BY <1>1, PaymentFrame DEF paymentVars, CommitCallback, CommitReceived

\* A booked shipment stays booked, with all that was reported of it.
LEMMA ShipmentsStay ==
    ASSUME TypeOK, [Next]_vars, NEW c \in Carried
    PROVE  shipment'[c] = shipment[c] /\ reported[c] \subseteq reported'[c]
<1>1. CASE UNCHANGED courierVars
  BY <1>1 DEF courierVars
<1>2. ASSUME NEW k \in Calls, Book(k)
      PROVE  shipment'[c] = shipment[c] /\ reported[c] \subseteq reported'[c]
  <2>1. PICK new \in Codes :
          /\ shipment[new] = NoShipment
          /\ shipment' = [shipment EXCEPT ![new] = [order |-> call[k].order, cod |-> call[k].cod]]
          /\ reported' = [reported EXCEPT ![new] = {"ready_to_pick"}]
    BY <1>2 DEF Book
  <2>2. c \in Codes /\ c # new
    BY <2>1 DEF Carried
  <2> QED
    BY <2>1, <2>2 DEF TypeOK
<1>3. ASSUME NEW moving \in Codes, ShipmentMoves(moving)
      PROVE  shipment'[c] = shipment[c] /\ reported[c] \subseteq reported'[c]
  BY <1>3 DEF ShipmentMoves, TypeOK, Carried
<1> QED
  BY <1>1, <1>2, <1>3, CourierFrame

\* A delivery row is inserted once, and then only its status is updated.
LEMMA DeliveryWrites ==
    ASSUME IInv, [Next]_vars
    PROVE  \/ UNCHANGED delivery
           \/ \E k \in Calls : CommitBooking(k)
           \/ \E o \in Orders, s \in DeliveryStatus :
                 /\ delivery[o] # NoDelivery
                 /\ delivery' = [delivery EXCEPT ![o] = [@ EXCEPT !.status = s]]
<1> DEFINE Updates(o, s) ==
             /\ delivery[o] # NoDelivery
             /\ delivery' = [delivery EXCEPT ![o] = [@ EXCEPT !.status = s]]
<1>0. TypeOK /\ CallsJustified
  BY DEF IInv
<1>1. ASSUME NEW k \in Calls, WriteRefreshed(k)
      PROVE  \E o \in Orders, s \in DeliveryStatus : Updates(o, s)
  <2>1. call[k] \in FetchedCall /\ delivery[call[k].order] # NoDelivery
    BY <1>0, <1>1, CallShapes DEF WriteRefreshed, CallsJustified, Justified, CourierSaid
  <2>2. Updates(call[k].order, call[k].got)
    BY <1>1, <2>1 DEF WriteRefreshed
  <2> QED
    BY <2>1, <2>2 DEF FetchedCall
<1>2. ASSUME NEW k \in Calls, CommitReceived(k)
      PROVE  \E o \in Orders, s \in DeliveryStatus : Updates(o, s)
  <2>1. call[k] \in ReceiveCall /\ delivery[call[k].order] # NoDelivery
    BY <1>0, <1>2, CallShapes DEF CommitReceived, CallsJustified, Justified, CourierSaid
  <2>2. Updates(call[k].order, "DELIVERED")
    BY <1>2, <2>1 DEF CommitReceived
  <2> QED
    BY <2>1, <2>2 DEF ReceiveCall, DeliveryStatus
<1>3. ASSUME NEW o \in Orders, NEW c \in Codes, CreateReported(o, c)
      PROVE  \E s \in DeliveryStatus : Updates(o, s)
  <2>1. Updates(o, "PREPARING")
    BY <1>3 DEF CreateReported, IsDeliveryOf
  <2> QED
    BY <2>1 DEF DeliveryStatus
<1>4. ASSUME NEW o \in Orders, NEW c \in Codes, NEW g \in CourierStatus, SwitchStatus(o, c, g)
      PROVE  \E s \in DeliveryStatus : Updates(o, s)
  <2>1. Updates(o, DeliveryStatusOf(g))
    BY <1>4 DEF SwitchStatus, IsDeliveryOf
  <2> QED
    BY <2>1, StatusMaps
<1> QED
  BY <1>1, <1>2, <1>3, <1>4, DeliveryFrame

\* A delivery row stays, with the code it was created with.
LEMMA DeliveriesStay ==
    ASSUME IInv, [Next]_vars, NEW o \in Orders, delivery[o] # NoDelivery
    PROVE  delivery'[o] # NoDelivery /\ delivery'[o].code = delivery[o].code
<1>0. delivery \in [Orders -> Deliveries \cup {NoDelivery}]
  BY DEF IInv, TypeOK
<1>1. ASSUME NEW k \in Calls, CommitBooking(k)
      PROVE  delivery'[o] # NoDelivery /\ delivery'[o].code = delivery[o].code
  BY <1>0, <1>1 DEF CommitBooking
<1>2. ASSUME NEW x \in Orders, NEW s \in DeliveryStatus, delivery[x] # NoDelivery,
             delivery' = [delivery EXCEPT ![x] = [@ EXCEPT !.status = s]]
      PROVE  delivery'[o] # NoDelivery /\ delivery'[o].code = delivery[o].code
  <2>1. [delivery[x] EXCEPT !.status = s] \in Deliveries
    BY <1>0, <1>2 DEF Deliveries
  <2> QED
    BY <1>0, <1>2, <2>1 DEF Deliveries
<1> QED
  BY <1>1, <1>2, DeliveryWrites

\* What GHN has said stays said.
LEMMA SaidStays ==
    ASSUME IInv, [Next]_vars, NEW o \in Orders, NEW G, CourierSaid(o, G)
    PROVE  CourierSaid(o, G)'
<1>1. delivery'[o] # NoDelivery /\ delivery'[o].code = delivery[o].code
  BY DeliveriesStay DEF CourierSaid
<1>2. delivery[o].code \in Carried
  BY DEF IInv, DeliveriesAreCarried, CourierSaid
<1>3. reported[delivery[o].code] \subseteq reported'[delivery[o].code]
  BY <1>2, ShipmentsStay DEF IInv
<1> QED
  BY <1>1, <1>3 DEF CourierSaid

\* A cause, once there, stays.
LEMMA CausesStay ==
    ASSUME IInv, [Next]_vars, NEW o \in Orders, NEW s, HasCause(o, s)
    PROVE  HasCause(o, s)'
<1>1. PaymentOf[o] \in Payments
  OBVIOUS
<1>2. gateway[PaymentOf[o]] \subseteq gateway'[PaymentOf[o]]
  BY <1>1, GatewayGrows DEF IInv
<1> QED
  BY <1>2, SaidStays, HistoryGrows DEF HasCause
-----------------------------------------------------------------------------
\* Only a PayOS payment ever gets a link, or waits to be paid.
LEMMA LinksStep ==
    ASSUME IInv, [Next]_vars
    PROVE  LinksArePayOS'
<1>0. TypeOK /\ LinksArePayOS /\ CallsJustified
  BY DEF IInv
<1>1. CASE UNCHANGED paymentVars
  BY <1>0, <1>1 DEF paymentVars, LinksArePayOS
<1>2. ASSUME NEW p \in Payments, PaymentStep(p) PROVE LinksArePayOS'
  BY <1>0, <1>2 DEF TypeOK, LinksArePayOS, PaymentMethod, PaymentStep, OpenLink, StoreLink,
                    FailLink, BuyerPays, AttemptFails
<1>3. ASSUME NEW k \in Calls, CommitCallback(k) PROVE LinksArePayOS'
  <2>1. call[k].payment \in Payments /\ method[call[k].payment] = "PAYOS"
    BY <1>0, <1>3, CallShapes DEF CommitCallback, CallbackCall, CallsJustified, Justified
  <2> QED
    BY <1>0, <1>3, <2>1 DEF TypeOK, LinksArePayOS, CommitCallback
<1>4. ASSUME NEW k \in Calls, CommitReceived(k) PROVE LinksArePayOS'
  BY <1>0, <1>4 DEF TypeOK, LinksArePayOS, CommitReceived
<1> QED
  BY <1>1, <1>2, <1>3, <1>4, PaymentFrame

\* The present status of a shipment is always among those reported.
LEMMA HistoryStep ==
    ASSUME IInv, [Next]_vars
    PROVE  CodesHaveHistory'
<1>0. TypeOK /\ CodesHaveHistory
  BY DEF IInv
<1>1. CASE UNCHANGED courierVars
  BY <1>0, <1>1 DEF courierVars, CodesHaveHistory
<1>2. ASSUME NEW k \in Calls, Book(k) PROVE CodesHaveHistory'
  <2>1. call[k] \in ConfirmCall
    BY <1>0, <1>2, CallShapes DEF Book
  <2>2. [order |-> call[k].order, cod |-> call[k].cod] \in Shipments
    BY <2>1 DEF ConfirmCall, Shipments
  <2> QED
    BY <1>0, <1>2, <2>2 DEF TypeOK, CodesHaveHistory, Book
<1>3. ASSUME NEW c \in Codes, ShipmentMoves(c) PROVE CodesHaveHistory'
  BY <1>0, <1>3 DEF TypeOK, CodesHaveHistory, ShipmentMoves, Carried
<1> QED
  BY <1>1, <1>2, <1>3, CourierFrame

\* A delivery row names a shipment booked for its own order.
LEMMA CarriedStep ==
    ASSUME IInv, [Next]_vars
    PROVE  DeliveriesAreCarried'
<1>0. TypeOK /\ DeliveriesAreCarried /\ CallsJustified
  BY DEF IInv
<1> SUFFICES ASSUME NEW o \in Orders, delivery'[o] # NoDelivery
             PROVE  (delivery[o].code \in Carried /\ shipment[delivery[o].code].order = o)'
  BY DEF DeliveriesAreCarried
<1>1. CASE delivery[o] # NoDelivery
  BY <1>0, <1>1, DeliveriesStay, ShipmentsStay DEF DeliveriesAreCarried, Carried
<1>2. CASE delivery[o] = NoDelivery
  <2>1. PICK k \in Calls : CommitBooking(k)
    BY <1>0, <1>2, DeliveryWrites DEF TypeOK
  <2>2. call[k] \in BookedCall /\ o = call[k].order /\ delivery'[o].code = call[k].code
    BY <1>0, <1>2, <2>1, CallShapes DEF TypeOK, CommitBooking, BookedCall
  <2> QED
    BY <1>0, <2>1, <2>2 DEF CallsJustified, Justified, CommitBooking, courierVars, Carried
<1> QED
  BY <1>1, <1>2

\* No step puts a received order back to the start.
LEMMA ReceivedStep ==
    ASSUME IInv, [Next]_vars
    PROVE  ReceivedWereConfirmed'
<1>0. TypeOK /\ ReceivedWereConfirmed
  BY DEF IInv
<1>1. ASSUME NEW k \in Calls, CommitReceived(k) PROVE ReceivedWereConfirmed'
  BY <1>0, <1>1, CallShapes DEF TypeOK, ReceivedWereConfirmed, CommitReceived, ReceiveCall
<1>2. ASSUME NEW k \in Calls, WriteOrderRefreshed(k) PROVE ReceivedWereConfirmed'
  BY <1>0, <1>2 DEF TypeOK, ReceivedWereConfirmed, WriteOrderRefreshed, StatusByRefresh, history
<1>3. ASSUME NEW o \in Orders, NEW c \in Codes, NEW g \in CourierStatus, SwitchStatus(o, c, g)
      PROVE  ReceivedWereConfirmed'
  BY <1>0, <1>3 DEF TypeOK, ReceivedWereConfirmed, SwitchStatus, StatusByWebhook, history
<1> QED
  BY <1>0, <1>1, <1>2, <1>3, StatusFrame
     DEF TypeOK, ReceivedWereConfirmed, CommitCallback, SaveCancelled, CommitBooking,
         FarmerConfirm, history

\* Each writer of an order's status has the cause of what it writes.
LEMMA StatusStep ==
    ASSUME IInv, [Next]_vars
    PROVE  StatusHasCause'
<1>0. TypeOK /\ StatusHasCause /\ CallsJustified
  BY DEF IInv
<1> SUFFICES ASSUME NEW o \in Orders, NEW s, s = status'[o]
             PROVE  HasCause(o, s)'
  BY DEF StatusHasCause
<1>1. CASE s = status[o]
  BY <1>0, <1>1, CausesStay DEF StatusHasCause
<1>2. ASSUME NEW k \in Calls, CommitCallback(k), s # status[o]
      PROVE  HasCause(o, s)'
  <2>1. call[k] \in CallbackCall
    BY <1>0, <1>2, CallShapes DEF CommitCallback
  <2>2. \/ call[k].success /\ o \in call[k].open /\ s = "PAID"
        \/ ~call[k].success /\ o \in OrdersOf(call[k].payment) /\ s = "PAYMENT_FAILED"
    BY <1>2 DEF CommitCallback
  <2>3. /\ call[k].open \subseteq OrdersOf(call[k].payment)
        /\ (IF call[k].success THEN "success" ELSE "failure") \in gateway[call[k].payment]
    BY <1>0, <1>2 DEF CommitCallback, CallsJustified, Justified
  <2>4. PaymentOf[o] = call[k].payment
    BY <2>2, <2>3 DEF OrdersOf
  <2>5. HasCause(o, s)
    BY <2>2, <2>3, <2>4 DEF HasCause
  <2> QED
    BY <2>5, CausesStay
<1>3. ASSUME NEW k \in Calls, SaveCancelled(k), s # status[o]
      PROVE  HasCause(o, s)'
  <2>1. call[k].order = o
    BY <1>0, <1>3 DEF SaveCancelled, TypeOK
  <2> QED
    BY <1>0, <1>3, <2>1 DEF SaveCancelled, TypeOK, HasCause
<1>4. ASSUME NEW k \in Calls, CommitBooking(k), s # status[o]
      PROVE  HasCause(o, s)'
  BY <1>0, <1>4 DEF CommitBooking, TypeOK, HasCause
<1>5. ASSUME NEW k \in Calls, WriteOrderRefreshed(k), s # status[o]
      PROVE  HasCause(o, s)'
  <2>1. call[k] \in WrittenCall /\ call[k].order = o /\ s = StatusByRefresh(call[k].got)
    BY <1>0, <1>5, CallShapes DEF WriteOrderRefreshed, TypeOK
  <2>2. PICK g \in CourierStatus : CourierSaid(o, {g}) /\ DeliveryStatusOf(g) = call[k].got
    BY <1>0, <1>5, <2>1 DEF WriteOrderRefreshed, CallsJustified, Justified, CourierSaid
  <2>3. HasCause(o, s)
    BY <2>1, <2>2 DEF StatusByRefresh, DeliveryStatusOf, CourierStatus, CourierSaid, HasCause
  <2> QED
    BY <2>3, CausesStay
<1>6. ASSUME NEW k \in Calls, CommitReceived(k), s # status[o]
      PROVE  HasCause(o, s)'
  <2>1. call[k].order = o /\ o \in received' /\ s = "COMPLETED"
    BY <1>0, <1>6 DEF CommitReceived, TypeOK
  <2>2. CourierSaid(o, {"picking", "transporting", "delivered"})'
    BY <1>0, <1>6, <2>1, SaidStays DEF CommitReceived, CallsJustified, Justified
  <2> QED
    BY <2>1, <2>2 DEF HasCause
<1>7. ASSUME NEW x \in Orders, FarmerConfirm(x), s # status[o]
      PROVE  HasCause(o, s)'
  BY <1>0, <1>7 DEF FarmerConfirm, TypeOK, HasCause
<1>8. ASSUME NEW x \in Orders, NEW c \in Codes, NEW g \in CourierStatus, SwitchStatus(x, c, g),
             s # status[o]
      PROVE  HasCause(o, s)'
  <2>1. x = o /\ s = StatusByWebhook(g) /\ CourierSaid(o, {g})
    BY <1>0, <1>8 DEF SwitchStatus, IsDeliveryOf, CourierSaid, TypeOK
  <2>2. HasCause(o, s)
    BY <2>1 DEF StatusByWebhook, CourierStatus, CourierSaid, HasCause
  <2> QED
    BY <2>2, CausesStay
<1> QED
  BY <1>1, <1>2, <1>3, <1>4, <1>5, <1>6, <1>7, <1>8, StatusFrame

\* A cash-on-delivery payment is completed by receipts alone.
LEMMA CodStep ==
    ASSUME IInv, [Next]_vars
    PROVE  CodSettledByReceipt'
<1>0. TypeOK /\ CodSettledByReceipt /\ CallsJustified /\ LinksArePayOS
  BY DEF IInv
<1> SUFFICES ASSUME NEW p \in Payments, method[p] = "COD"
             PROVE  pay'[p] = "COMPLETED" <=> OrdersOf(p) \cap received' # {}
  BY MethodStays DEF CodSettledByReceipt, OrdersOf
<1>1. pay[p] = "COMPLETED" <=> OrdersOf(p) \cap received # {}
  BY <1>0 DEF CodSettledByReceipt
<1>2. ASSUME NEW k \in Calls, CommitReceived(k)
      PROVE  pay'[p] = "COMPLETED" <=> OrdersOf(p) \cap received' # {}
  <2>1. call[k].order \in Orders /\ received' = received \cup {call[k].order}
    BY <1>0, <1>2, CallShapes DEF CommitReceived, ReceiveCall
  <2>2. CASE PaymentOf[call[k].order] = p
    <3>1. call[k].settle \/ pay[p] = "COMPLETED"
      BY <1>0, <1>2, <2>2 DEF CommitReceived, CallsJustified, Justified
    <3>2. pay' = IF call[k].settle THEN [pay EXCEPT ![p] = "COMPLETED"] ELSE pay
      BY <1>2, <2>2 DEF CommitReceived
    <3>3. pay'[p] = "COMPLETED"
      BY <1>0, <3>1, <3>2 DEF TypeOK
    <3> QED
      BY <2>1, <2>2, <3>3 DEF OrdersOf
  <2>3. CASE PaymentOf[call[k].order] # p
    <3>1. pay'[p] = pay[p]
      BY <1>0, <1>2, <2>3 DEF CommitReceived, TypeOK
    <3> QED
      BY <1>1, <2>1, <2>3, <3>1 DEF OrdersOf
  <2> QED
    BY <2>2, <2>3
<1>3. ASSUME NEW k \in Calls, CommitCallback(k)
      PROVE  pay'[p] = "COMPLETED" <=> OrdersOf(p) \cap received' # {}
  <2>1. pay'[p] = pay[p]
    BY <1>0, <1>3 DEF CommitCallback, CallsJustified, Justified, TypeOK
  <2> QED
    BY <1>1, <1>3, <2>1 DEF CommitCallback, history
<1>4. ASSUME NEW q \in Payments, PaymentStep(q)
      PROVE  pay'[p] = "COMPLETED" <=> OrdersOf(p) \cap received' # {}
  <2>1. pay'[p] = pay[p] /\ received' = received
    BY <1>0, <1>4 DEF PaymentStep, OpenLink, StoreLink, FailLink, BuyerPays, AttemptFails,
                      LinksArePayOS, TypeOK, history
  <2> QED
    BY <1>1, <2>1
<1>5. CASE UNCHANGED paymentVars /\ ~(\E k \in Calls : CommitReceived(k))
  <2>1. received' = received
    BY <1>5, StatusFrame DEF CommitCallback, SaveCancelled, CommitBooking, WriteOrderRefreshed,
                             FarmerConfirm, SwitchStatus, history
  <2> QED
    BY <1>1, <1>5, <2>1 DEF paymentVars
<1> QED
  BY <1>2, <1>3, <1>4, <1>5, PaymentFrame

\* What a booking collects is decided by what its handler read.
LEMMA BookedShipmentsStep ==
    ASSUME IInv, [Next]_vars
    PROVE  NoDoubleCharge' /\ UncollectedOnlyAfterSibling'
<1>0. /\ TypeOK /\ CallsJustified
      /\ NoDoubleCharge /\ UncollectedOnlyAfterSibling
  BY DEF IInv
<1> DEFINE Fair(s, m, r) ==
             /\ s.cod => m[PaymentOf[s.order]] = "COD"
             /\ m[PaymentOf[s.order]] = "COD" /\ ~s.cod =>
                   (OrdersOf(PaymentOf[s.order]) \ {s.order}) \cap r # {}
<1> SUFFICES ASSUME NEW c \in Codes, shipment'[c] # NoShipment
             PROVE  Fair(shipment'[c], method', received')
  BY DEF NoDoubleCharge, UncollectedOnlyAfterSibling, Carried, OrdersOf
<1>1. CASE c \in Carried
  <2>1. Fair(shipment[c], method, received)
    BY <1>0, <1>1 DEF NoDoubleCharge, UncollectedOnlyAfterSibling
  <2> QED
    BY <1>0, <1>1, <2>1, ShipmentsStay, MethodStays, HistoryGrows
<1>2. CASE c \notin Carried
  <2>1. PICK k \in Calls : Book(k)
    BY <1>2, CourierFrame DEF courierVars, ShipmentMoves, Carried
  <2>2. call[k] \in ConfirmCall
    BY <1>0, <2>1, CallShapes DEF Book
  <2>3. shipment'[c] = [order |-> call[k].order, cod |-> call[k].cod]
    BY <1>0, <1>2, <2>1 DEF Book, TypeOK, Carried
  <2>4. Fair([order |-> call[k].order, cod |-> call[k].cod], method, received)
    BY <1>0, <2>1, <2>2 DEF Book, CallsJustified, Justified, ConfirmCall
  <2> QED
    BY <2>3, <2>4, MethodStays, HistoryGrows
<1> QED
  BY <1>1, <1>2

\* A handler's record stays justified while others run.
LEMMA JustificationsStay ==
    ASSUME IInv, [Next]_vars, NEW r \in CallRecords, Justified(r)
    PROVE  Justified(r)'
<1>0. TypeOK /\ CodSettledByReceipt /\ method' = method
  BY MethodStays DEF IInv
<1>1. CASE r.op = "callback"
  <2>1. r \in CallbackCall
    BY <1>1 DEF CallRecords, NoCall, ConfirmCall, BookedCall, CancelCall, ReceiveCall,
                CallbackCall, RefreshCall, FetchedCall, WrittenCall
  <2> QED
    BY <1>0, <1>1, <2>1, GatewayGrows DEF Justified, CallbackCall, OrdersOf
<1>2. CASE r.op = "confirm"
  BY <1>0, <1>2, HistoryGrows DEF Justified, OrdersOf
<1>3. CASE r.op = "booked"
  BY <1>0, <1>3, ShipmentsStay DEF Justified, Carried
<1>4. CASE r.op = "refresh"
  <2>1. r \in RefreshCall
    BY <1>4 DEF CallRecords, NoCall, ConfirmCall, BookedCall, CancelCall, ReceiveCall,
                CallbackCall, RefreshCall, FetchedCall, WrittenCall
  <2> QED
    BY <1>4, <2>1, DeliveriesStay DEF Justified, RefreshCall
<1>5. CASE r.op \in {"fetched", "written"}
  <2>1. r.order \in Orders
    BY <1>5 DEF CallRecords, NoCall, ConfirmCall, BookedCall, CancelCall, ReceiveCall,
                CallbackCall, RefreshCall, FetchedCall, WrittenCall
  <2> DEFINE G == {g \in CourierStatus : DeliveryStatusOf(g) = r.got}
  <2>2. CourierSaid(r.order, G)'
    BY <1>5, <2>1, SaidStays DEF Justified
  <2> QED
    BY <1>5, <2>2 DEF Justified
<1>6. CASE r.op = "receive"
  <2>1. r \in ReceiveCall
    BY <1>6 DEF CallRecords, NoCall, ConfirmCall, BookedCall, CancelCall, ReceiveCall,
                CallbackCall, RefreshCall, FetchedCall, WrittenCall
  <2>2. CourierSaid(r.order, {"picking", "transporting", "delivered"})'
    BY <1>6, <2>1, SaidStays DEF Justified, ReceiveCall
  <2>3. ASSUME ~r.settle, method[PaymentOf[r.order]] = "COD"
        PROVE  pay'[PaymentOf[r.order]] = "COMPLETED"
    <3>1. PaymentOf[r.order] \in Payments
      BY <2>1 DEF ReceiveCall
    <3>2. pay[PaymentOf[r.order]] = "COMPLETED"
      BY <1>6, <2>3 DEF Justified
    <3>3. OrdersOf(PaymentOf[r.order]) \cap received' # {}
      BY <1>0, <2>3, <3>1, <3>2, HistoryGrows DEF CodSettledByReceipt
    <3> QED
      BY <1>0, <2>3, <3>1, <3>3, CodStep DEF CodSettledByReceipt, OrdersOf
  <2> QED
    BY <1>0, <1>6, <2>2, <2>3 DEF Justified
<1>7. CASE r.op \in {"none", "cancel"}
  BY <1>7 DEF Justified
<1> QED
  BY <1>1, <1>2, <1>3, <1>4, <1>5, <1>6, <1>7
     DEF CallRecords, NoCall, ConfirmCall, BookedCall, CancelCall, ReceiveCall,
         CallbackCall, RefreshCall, FetchedCall, WrittenCall

\* What a handler has read keeps its reason while other handlers write.
LEMMA CallsStep ==
    ASSUME IInv, [Next]_vars
    PROVE  CallsJustified'
<1>0. TypeOK /\ CallsJustified /\ LinksArePayOS /\ CodSettledByReceipt /\ StatusHasCause
  BY DEF IInv
<1> SUFFICES ASSUME NEW k \in Calls, NEW r, r = call'[k]
             PROVE  Justified(r)'
  BY DEF CallsJustified
<1>r. r \in CallRecords
  BY TypeStep DEF TypeOK
<1>1. CASE r = call[k]
  BY <1>0, <1>1, <1>r, JustificationsStay DEF CallsJustified
<1>2. CASE r = Idle
  BY <1>2 DEF Justified, Idle
<1>3. ASSUME NEW p \in Payments, ReadCallback(k, p), r # call[k]
      PROVE  Justified(r)'
  <2>1. PICK outcome \in gateway[p] :
          r = [op |-> "callback", payment |-> p, success |-> isPaymentSuccessful(outcome),
               open |-> {o \in OrdersOf(p) : status[o] # "CANCELLED"}]
    BY <1>0, <1>3 DEF ReadCallback, Start, TypeOK
  <2>2. method[p] = "PAYOS"
    BY <1>0, <1>3 DEF ReadCallback, LinksArePayOS, TypeOK, PaymentMethod
  <2>3. outcome \in {"success", "failure"}
    BY <1>0 DEF TypeOK
  <2>4. r.op = "callback" /\ r.payment = p /\ r.open \subseteq OrdersOf(p)
    BY <2>1
  <2>5. r.success <=> isPaymentSuccessful(outcome)
    BY <2>1
  <2>6. (IF r.success THEN "success" ELSE "failure") \in gateway[p]
    BY <2>3, <2>5 DEF isPaymentSuccessful
  <2>7. Justified(r)
    BY <2>2, <2>4, <2>6 DEF Justified
  <2> QED
    BY <1>r, <2>7, JustificationsStay
<1>4. ASSUME NEW o \in Orders, ReadToCancel(k, o), r # call[k]
      PROVE  Justified(r)'
  BY <1>0, <1>4 DEF ReadToCancel, Start, TypeOK, Justified
<1>5. ASSUME NEW o \in Orders, ReadToBook(k, o), r # call[k]
      PROVE  Justified(r)'
  <2>1. r = [op |-> "confirm", order |-> o, cod |-> CollectAtDoor(PaymentOf[o])]
    BY <1>0, <1>5 DEF ReadToBook, Start, TypeOK
  <2>2. PaymentOf[o] \in Payments
    OBVIOUS
  <2>a. r.op = "confirm" /\ r.order = o /\ (r.cod <=> CollectAtDoor(PaymentOf[o]))
    BY <2>1
  <2>3. r.cod => method[PaymentOf[o]] = "COD"
    BY <1>0, <2>a, <2>2 DEF CollectAtDoor, LinksArePayOS, TypeOK, PaymentMethod
  <2>4. ASSUME ~r.cod, method[PaymentOf[o]] = "COD"
        PROVE  (OrdersOf(PaymentOf[o]) \ {o}) \cap received # {}
    <3>1. pay[PaymentOf[o]] = "COMPLETED"
      BY <1>0, <2>a, <2>2, <2>4 DEF CollectAtDoor, LinksArePayOS
    <3>2. o \notin received
      BY <1>5 DEF ReadToBook, CanBook, IInv, ReceivedWereConfirmed
    <3> QED
      BY <1>0, <2>2, <2>4, <3>1, <3>2 DEF CodSettledByReceipt
  <2>5. Justified(r)
    BY <2>a, <2>3, <2>4 DEF Justified
  <2> QED
    BY <1>r, <2>5, JustificationsStay
<1>6. ASSUME NEW o \in Orders, ReadToRefresh(k, o), r # call[k]
      PROVE  Justified(r)'
  <2>1. Justified(r)
    BY <1>0, <1>6 DEF ReadToRefresh, Start, TypeOK, Justified
  <2> QED
    BY <1>r, <2>1, JustificationsStay
<1>7. ASSUME NEW o \in Orders, ReadToReceive(k, o), r # call[k]
      PROVE  Justified(r)'
  <2>1. r = [op |-> "receive", order |-> o, settle |-> Unsettled(PaymentOf[o])]
    BY <1>0, <1>7 DEF ReadToReceive, Start, TypeOK
  <2>2. CourierSaid(o, {"picking", "transporting", "delivered"})
    BY <1>0, <1>7 DEF ReadToReceive, Receivable, StatusHasCause, HasCause, CourierSaid
  <2>a. r.op = "receive" /\ r.order = o /\ (r.settle <=> Unsettled(PaymentOf[o]))
    BY <2>1
  <2>3. Justified(r)
    BY <2>a, <2>2 DEF Justified, Unsettled
  <2> QED
    BY <1>r, <2>3, JustificationsStay
<1>8. ASSUME Book(k), r # call[k]
      PROVE  Justified(r)'
  <2>1. PICK c \in Codes :
          /\ shipment' = [shipment EXCEPT ![c] = [order |-> call[k].order, cod |-> call[k].cod]]
          /\ call' = [call EXCEPT ![k] = [op |-> "booked", order |-> call[k].order, code |-> c]]
    BY <1>8 DEF Book, Continue
  <2>2. r = [op |-> "booked", order |-> call[k].order, code |-> c]
    BY <1>0, <2>1 DEF TypeOK
  <2>3. shipment'[c] = [order |-> call[k].order, cod |-> call[k].cod]
    BY <1>0, <2>1 DEF TypeOK
  <2>4. shipment'[c] # NoShipment
    BY <1>0, <1>8, <2>3, CallShapes DEF Book, ConfirmCall, Shipments
  <2> QED
    BY <2>2, <2>3, <2>4 DEF Justified, Carried
<1>9. ASSUME Fetch(k), r # call[k], r # Idle
      PROVE  Justified(r)'
  <2> DEFINE code == delivery[call[k].order].code
             got == DeliveryStatusOf(current[code])
  <2>1. r = [op |-> "fetched", order |-> call[k].order, got |-> got]
    BY <1>0, <1>9 DEF Fetch, Continue, End, TypeOK
  <2>2. call[k] \in RefreshCall /\ delivery[call[k].order] # NoDelivery
    BY <1>0, <1>9, CallShapes DEF Fetch, CallsJustified, Justified
  <2>3. code \in Carried
    BY <2>2 DEF IInv, DeliveriesAreCarried, RefreshCall
  <2>4. current[code] \in reported[code] /\ current[code] \in CourierStatus
    BY <1>0, <2>3 DEF IInv, CodesHaveHistory, TypeOK, Carried
  <2>5. CourierSaid(call[k].order, {g \in CourierStatus : DeliveryStatusOf(g) = got})
    BY <2>2, <2>4 DEF CourierSaid
  <2>6. Justified(r)
    BY <2>1, <2>5 DEF Justified
  <2> QED
    BY <1>r, <2>6, JustificationsStay
<1>10. ASSUME WriteRefreshed(k), r # call[k], r # Idle
       PROVE  Justified(r)'
  <2>1. /\ r = [op |-> "written", order |-> call[k].order, got |-> call[k].got]
        /\ StatusByRefresh(call[k].got) # "unset"
    BY <1>0, <1>10 DEF WriteRefreshed, Continue, End, TypeOK
  <2>2. CourierSaid(call[k].order, {g \in CourierStatus : DeliveryStatusOf(g) = call[k].got})
    BY <1>0, <1>10 DEF WriteRefreshed, CallsJustified, Justified
  <2>3. Justified(r)
    BY <2>1, <2>2 DEF Justified
  <2> QED
    BY <1>r, <2>3, JustificationsStay
<1>11. ASSUME NEW h \in Calls, CallStarts(h) \/ CallStep(h), h # k
       PROVE  r = call[k]
  BY <1>0, <1>11 DEF CallStarts, CallStep, ReadCallback, ReadToCancel, ReadToBook, ReadToRefresh,
                     ReadToReceive, CommitCallback, SaveCancelled, Book, CommitBooking, Fetch,
                     WriteRefreshed, WriteOrderRefreshed, CommitReceived, Abandon, Start,
                     Continue, End, TypeOK
<1>12. ASSUME \/ CommitCallback(k) \/ SaveCancelled(k) \/ CommitBooking(k)
              \/ WriteOrderRefreshed(k) \/ CommitReceived(k) \/ Abandon(k)
       PROVE  r = Idle
  BY <1>0, <1>12 DEF CommitCallback, SaveCancelled, CommitBooking, WriteOrderRefreshed,
                     CommitReceived, Abandon, End, TypeOK
<1> QED
  BY <1>1, <1>2, <1>3, <1>4, <1>5, <1>6, <1>7, <1>8, <1>9, <1>10, <1>11, <1>12, CallFrame
     DEF CallStarts, CallStep
-----------------------------------------------------------------------------
\* The initial states satisfy the invariant.
LEMMA InitIInv ==
    ASSUME Init
    PROVE  IInv
<1>1. TypeOK
  BY DEF Init, TypeOK, OrderStatus, PaymentMethod, PaymentStatus, CourierStatus, CallRecords,
         NoCall, Idle
<1>2. LinksArePayOS /\ CodSettledByReceipt
  BY DEF Init, LinksArePayOS, CodSettledByReceipt, PaymentMethod
<1>3. CodesHaveHistory /\ DeliveriesAreCarried /\ ReceivedWereConfirmed
  BY DEF Init, CodesHaveHistory, DeliveriesAreCarried, ReceivedWereConfirmed
<1>4. CallsJustified /\ StatusHasCause
  BY DEF Init, CallsJustified, Justified, Idle, StatusHasCause, HasCause
<1>5. NoDoubleCharge /\ UncollectedOnlyAfterSibling
  BY DEF Init, NoDoubleCharge, UncollectedOnlyAfterSibling, Carried
<1> QED
  BY <1>1, <1>2, <1>3, <1>4, <1>5 DEF IInv

\* Every step preserves the invariant.
LEMMA NextIInv ==
    ASSUME IInv, [Next]_vars
    PROVE  IInv'
BY TypeStep, LinksStep, HistoryStep, CarriedStep, ReceivedStep, CallsStep, StatusStep, CodStep,
   BookedShipmentsStep
   DEF IInv

\* The invariant holds in every reachable state of the fulfilment.
THEOREM Inductive == Spec => []IInv
BY InitIInv, NextIInv, PTL DEF Spec

\* Every column of every row, and every record a handler carries from a read to
\* a write, has its type, however the handlers interleave.
THEOREM TypeCorrect == Spec => []TypeOK
BY Inductive, PTL DEF IInv

\* No handler acts on a reading that has lost its reason: order.service.ts and
\* payment.service.ts write what they read without locks.
THEOREM JustifiedCalls == Spec => []CallsJustified
BY Inductive, PTL DEF IInv

\* No order status is made up, whatever webhooks, callbacks, refreshes and
\* farm and buyer requests interleave.
THEOREM CausedStatus == Spec => []StatusHasCause
BY Inductive, PTL DEF IInv

\* A cash-on-delivery payment is COMPLETED exactly when a buyer has confirmed
\* one of the orders that share it (buyerConfirmReceived).
THEOREM SettledByReceipt == Spec => []CodSettledByReceipt
BY Inductive, PTL DEF IInv

\* confirmOrderDelivery never has the courier collect what PayOS charges.
THEOREM ChargedOnce == Spec => []NoDoubleCharge
BY Inductive, PTL DEF IInv

\* confirmOrderDelivery ships a cash-on-delivery order uncollected only after a
\* sibling order of its payment was received.
THEOREM CollectedUnlessSiblingReceived == Spec => []UncollectedOnlyAfterSibling
BY Inductive, PTL DEF IInv

\* The delivery row of an order keeps the GHN code it was inserted with.
THEOREM ShipmentStays == Spec => FirstShipmentStays
<1>1. ASSUME IInv, [Next]_vars, NEW o \in Orders, delivery[o] # NoDelivery
      PROVE  delivery'[o] # NoDelivery /\ delivery'[o].code = delivery[o].code
  BY <1>1, DeliveriesStay
<1>2. IInv /\ [Next]_vars =>
        [\A o \in Orders : delivery[o] # NoDelivery =>
            delivery'[o] # NoDelivery /\ delivery'[o].code = delivery[o].code]_vars
  BY <1>1
<1> QED
  BY <1>2, Inductive, PTL DEF Spec, FirstShipmentStays
=============================================================================
