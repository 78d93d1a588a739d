----------------------------- MODULE PayosLinks -----------------------------
(***************************************************************************)
(* Payment links: PaymentService.createPayOSPayment makes up a code, asks  *)
(* PayOS for a link (PayosService.createPayOSOrder) and stores the code in *)
(* the payment; the webhooks of PayOS find the payment by it.  The code is *)
(* the last ten digits of the time in milliseconds with the id of the      *)
(* payment behind it.  What a payment does to its orders, and other        *)
(* requests for them, is OrderFulfilment's.                                *)
(***************************************************************************)
EXTENDS Integers, Sequences

CONSTANTS
    Digits,         \* what numbers are written with
    Width,          \* digits of a code (10)
    Payments,       \* ids of payments, as they are written
    Amount,         \* Amount[p]
    Times,          \* (bound) readings of the clock, as they are written
    Calls,          \* webhooks that can be in flight at once
    Null            \* no code

\* The codes of PayOS: all have Width digits, so those that differ are other
\* numbers too.
Codes == [1 .. Width -> Digits]

\* Date.now() has 13 digits, an id never more than ten.
WidthAssumption ==
    /\ Width \in Nat \ {0}
    /\ Payments \subseteq Seq(Digits) /\ Times \subseteq Seq(Digits)
    /\ \A p \in Payments : Len(p) <= Width
    /\ \A t \in Times : Len(t) >= Width
NullAssumption == Null \notin Codes

VARIABLES
    now,            \* Date.now()
    status,         \* status[p] of the payment
    code,           \* code[p]: its transaction_id
    asked,          \* asked[p]: the code createPayOSPayment has made up for p
    link,           \* PayOS: link[p]: "open" or "paid", "none" before
    call,           \* call[k]: handlePayOSCallback in flight, with its copy
    undone,         \* (history) payments that were COMPLETED, and then FAILED
    overlapped      \* (history) payments two webhooks were at work on

vars == <<now, status, code, asked, link, call, undone, overlapped>>

PaymentStatus == {"UNPAID", "PENDING", "COMPLETED", "FAILED"}

\* The fields PayOS may leave empty; their names are part of what is signed.
Fields == {"given", "null", "absent"}
Webhook == [of : Payments, code : {"00", "other"}, success : BOOLEAN, field : Fields]

\* MUTANT: the code is not cut to its last digits.
WholeCode(time, id) == time \o id

\* slice(-10)
LastOf(digits) == SubSeq(digits, Len(digits) - Width + 1, Len(digits))
OrderCode(time, id) == LastOf(time \o id)

Idle == [op |-> "none"]
-----------------------------------------------------------------------------
Init ==
    /\ now \in Times
    /\ status = [p \in Payments |-> "UNPAID"]
    /\ code = [p \in Payments |-> Null]
    /\ asked = [p \in Payments |-> Null]
    /\ link = [p \in Payments |-> "none"]
    /\ call = [k \in Calls |-> Idle]
    /\ undone = {}
    /\ overlapped = {}

\* The clock goes on, or is set.
Tick ==
    /\ now' \in Times
    /\ UNCHANGED <<status, code, asked, link, call, undone, overlapped>>

\* createPayOSOrder: PayOS makes the link, or the request fails, before or
\* behind it.
AskForLink(p) ==
    /\ asked[p] = Null
    /\ asked' = [asked EXCEPT ![p] = OrderCode(now, p)]
    /\ link' \in {link, [link EXCEPT ![p] = "open"]}
    /\ UNCHANGED <<now, status, code, call, undone, overlapped>>

\* The answer of PayOS is stored; when it is not, the buyer never sees the link.
StoreLink(p) ==
    /\ link[p] = "open"
    /\ code[p] = Null
    /\ status' = [status EXCEPT ![p] = "PENDING"]
    /\ code' = [code EXCEPT ![p] = asked[p]]
    /\ UNCHANGED <<now, asked, link, call, undone, overlapped>>

Pay(p) ==
    /\ link[p] = "open"
    /\ code[p] # Null
    /\ link' = [link EXCEPT ![p] = "paid"]
    /\ UNCHANGED <<now, status, code, asked, call, undone, overlapped>>

\* PayOS tells of a payment, or of one that failed, any number of times.
TrueWebhook(w) ==
    /\ code[w.of] # Null
    /\ w.success /\ w.code = "00" => link[w.of] = "paid"
-----------------------------------------------------------------------------
\* verifySignature: a field that is absent is signed as an empty one.
SignatureHolds(w) == w.field # "absent"
Valid(w) == w.code = "00" /\ SignatureHolds(w)

\* The payment findOne may find by the code.
Found(w) == {p \in Payments : code[p] = asked[w.of]}

\* handlePayOSCallback up to the first write.  It answers and does nothing more
\* when the webhook is not valid, the amount is another, or the payment is
\* COMPLETED already.
Receive(k, w) ==
    /\ call[k] = Idle
    /\ TrueWebhook(w)
    /\ Valid(w)
    /\ \E p \in Found(w) :
          /\ Amount[p] = Amount[w.of]
          /\ status[p] # "COMPLETED"
          /\ call' = [call EXCEPT ![k] = [op |-> "save", payment |-> p, success |-> w.success]]
          /\ overlapped' = IF \E j \in Calls : call[j] # Idle /\ call[j].payment = p
                           THEN overlapped \cup {p} ELSE overlapped
    /\ UNCHANGED <<now, status, code, asked, link, undone>>

SaveStatus(k) ==
    /\ call[k].op = "save"
    /\ status' = [status EXCEPT ![call[k].payment] =
                     IF call[k].success THEN "COMPLETED" ELSE "FAILED"]
    /\ undone' = IF status[call[k].payment] = "COMPLETED" /\ ~ call[k].success
                 THEN undone \cup {call[k].payment} ELSE undone
    /\ call' = [call EXCEPT ![k] = Idle]
    /\ UNCHANGED <<now, code, asked, link, overlapped>>

\* The transaction fails.
RollBack(k) ==
    /\ call[k].op = "save"
    /\ call' = [call EXCEPT ![k] = Idle]
    /\ UNCHANGED <<now, status, code, asked, link, undone, overlapped>>

Next ==
    \/ Tick
    \/ \E p \in Payments : AskForLink(p) \/ StoreLink(p) \/ Pay(p)
    \/ \E k \in Calls :
          \/ \E w \in Webhook : Receive(k, w)
          \/ SaveStatus(k) \/ RollBack(k)

Spec == Init /\ [][Next]_vars
-----------------------------------------------------------------------------
\* Every variable has its type: the payments of PaymentService, and what PayOS
\* keeps of them.
TypeOK ==
    /\ now \in Times
    /\ status \in [Payments -> PaymentStatus]
    /\ code \in [Payments -> Codes \cup {Null}]
    /\ asked \in [Payments -> Codes \cup {Null}]
    /\ link \in [Payments -> {"none", "open", "paid"}]
    /\ call \in [Calls -> [op : {"none"}] \cup
                          [op : {"save"}, payment : Payments, success : BOOLEAN]]
    /\ undone \subseteq Payments
    /\ overlapped \subseteq Payments

\* Two payments have one code only if their ids differ in length, which the
\* comment "order code unique" of createPayOSPayment does not provide for.
Twins(p, q) == Len(p) # Len(q) /\ asked[p] = asked[q]

\* handlePayOSCallback completes the payment that was paid, or one of the same
\* code and amount; and it takes that back only if it handles two webhooks of
\* the payment at once.
PaidIsCompleted ==
    /\ \A p \in Payments : status[p] = "COMPLETED" =>
          \E q \in Payments :
              /\ link[q] = "paid"
              /\ Amount[q] = Amount[p]
              /\ q = p \/ Twins(p, q)
    /\ undone \subseteq overlapped
=============================================================================
