------------------------------ MODULE QrCodes ------------------------------
(***************************************************************************)
(* The code on a sold product (QrService): the farmer activates it, the    *)
(* first scan answers that the product is genuine, a second one blocks the *)
(* code.  activate and verify read the row, change the copy and save it,   *)
(* which writes every column that differs from the row as it is then.      *)
(***************************************************************************)
EXTENDS Integers

CONSTANTS
    Qrs,            \* rows of the table qr
    Calls,          \* handlers that can be in flight at once
    MaxScans,       \* (bound) scans in a behaviour
    Null            \* no row

MaxAssumption == MaxScans \in Nat

QrStatus == {"CREATED", "ACTIVATED", "VERIFIED", "BLOCKED"}
Qr == [status : QrStatus, scan_count : Nat]

NullAssumption == Null \notin Qr

VARIABLES
    qr,             \* qr[i]: the row, Null before its INSERT
    call,           \* call[k]: handler in flight, with its copy of the row
    scans,          \* (history) scans[i]: scans of i that were answered
    genuine,        \* (history) genuine[i]: those answered with VERIFIED
    overlapped      \* (history) codes two handlers were at work on at once

vars == <<qr, call, scans, genuine, overlapped>>

NoCall == [op : {"none"}]
CopyCall == [op : {"activate", "verify"}, id : Qrs, row : Qr]

Idle == [op |-> "none"]
AtWork(i) == \E k \in Calls : call[k] # Idle /\ call[k].id = i

\* findOneBy: the handler goes on with a copy of the row.
Read(k, i, op) ==
    /\ call[k] = Idle
    /\ call' = [call EXCEPT ![k] = [op |-> op, id |-> i, row |-> qr[i]]]
    /\ overlapped' = IF AtWork(i) THEN overlapped \cup {i} ELSE overlapped
    /\ UNCHANGED <<qr, scans, genuine>>

Save(k, r) ==
    /\ qr' = [qr EXCEPT ![call[k].id] = r]
    /\ call' = [call EXCEPT ![k] = Idle]
-----------------------------------------------------------------------------
Init ==
    /\ qr = [i \in Qrs |-> Null]
    /\ call = [k \in Calls |-> Idle]
    /\ scans = [i \in Qrs |-> 0]
    /\ genuine = [i \in Qrs |-> 0]
    /\ overlapped = {}

CreateProductQr(i) ==
    /\ qr[i] = Null
    /\ qr' = [qr EXCEPT ![i] = [status |-> "CREATED", scan_count |-> 0]]
    /\ UNCHANGED <<call, scans, genuine, overlapped>>

\* activate: only a code that is CREATED.
ReadToActivate(k, i) ==
    /\ qr[i] # Null
    /\ qr[i].status = "CREATED"
    /\ Read(k, i, "activate")

Activate(k) ==
    /\ call[k].op = "activate"
    /\ Save(k, [call[k].row EXCEPT !.status = "ACTIVATED"])
    /\ UNCHANGED <<scans, genuine, overlapped>>

\* verify: neither CREATED nor BLOCKED.
ReadToVerify(k, i) ==
    /\ qr[i] # Null
    /\ qr[i].status \in {"ACTIVATED", "VERIFIED"}
    /\ scans[i] < MaxScans
    /\ Read(k, i, "verify")

\* MUTANT: the count of the scans is not stored.
ForgottenScan(r) ==
    IF r.scan_count + 1 > 1 THEN [r EXCEPT !.status = "BLOCKED"] ELSE [r EXCEPT !.status = "VERIFIED"]

Scanned(r) ==
    [status |-> IF r.scan_count + 1 > 1 THEN "BLOCKED" ELSE "VERIFIED",
     scan_count |-> r.scan_count + 1]

Verify(k) ==
    /\ call[k].op = "verify"
    /\ LET r == Scanned(call[k].row)
           i == call[k].id
       IN  /\ Save(k, r)
           /\ scans' = [scans EXCEPT ![i] = @ + 1]
           /\ genuine' = IF r.status = "VERIFIED" THEN [genuine EXCEPT ![i] = @ + 1] ELSE genuine
    /\ UNCHANGED overlapped

Abandon(k) ==
    /\ call[k] # Idle
    /\ call' = [call EXCEPT ![k] = Idle]
    /\ UNCHANGED <<qr, scans, genuine, overlapped>>

Next ==
    \/ \E i \in Qrs : CreateProductQr(i)
    \/ \E k \in Calls :
          \/ \E i \in Qrs : ReadToActivate(k, i) \/ ReadToVerify(k, i)
          \/ Activate(k) \/ Verify(k) \/ Abandon(k)

Spec == Init /\ [][Next]_vars
-----------------------------------------------------------------------------
\* Every variable has its type: the rows of the table qr, and the handlers of
\* QrService with their copies.
TypeOK ==
    /\ qr \in [Qrs -> Qr \cup {Null}]
    /\ call \in [Calls -> NoCall \cup CopyCall]
    /\ scans \in [Qrs -> Nat]
    /\ genuine \in [Qrs -> Nat]
    /\ overlapped \subseteq Qrs

\* verify answers one scan with VERIFIED and blocks the code at the second,
\* for good, unless two handlers of QrService worked on one copy of its row.
GenuineOnce ==
    \A i \in Qrs \ overlapped :
        /\ genuine[i] <= 1
        /\ scans[i] > 1 => qr[i].status = "BLOCKED"
=============================================================================
