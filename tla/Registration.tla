---------------------------- MODULE Registration ----------------------------
(***************************************************************************)
(* How somebody gets an account, and a new password for it: a code is sent *)
(* to an email address or a phone number, Twilio accepts it, and the       *)
(* approved row of the table verifications is spent on an account or on a  *)
(* password (VerificationService, AuthService and the createUser and       *)
(* updateUserPassword of UserService).  Twilio only ever sees addresses:   *)
(* the row of a number is approved as it is inserted.  Codes are sent to   *)
(* contacts without an account: forgotPassword has no route.               *)
(*                                                                         *)
(* A handler awaits between what it reads and what it writes: it is a call *)
(* k \in Calls whose record holds what it has read.  Reads that follow one *)
(* another with no write between them are one step.                        *)
(***************************************************************************)
EXTENDS Integers, FiniteSets

CONSTANTS
    Emails,         \* email addresses
    Numbers,        \* phone numbers
    Rows,           \* ids of the table verifications, never given out twice
    Users,          \* ids of the table user
    Calls,          \* handlers that can be in flight at once
    MaxCodes,       \* codes for one address (5 in the code)
    Null            \* no row

MaxAssumption == MaxCodes \in Nat \ {0}
ContactAssumption == Emails \cap Numbers = {}

\* A row is for an address or for a number, as the two send handlers make it.
Contacts == Emails \cup Numbers

\* What somebody types as a phone number: local (09...) or international (+84...).
Phones == [number : Numbers, form : {"local", "international"}]

\* "pending" stands for every answer of Twilio but approved.
CheckStatus == {"pending", "approved"}

Verification == [contact : Contacts, count : Nat, status : CheckStatus]
Deleted == [contact |-> Null]

\* With an account, the contact whose row let its password in.
Account == [email : Emails, phone : Phones, by : Contacts]

NullAssumption ==
    /\ Null \notin Rows /\ Null \notin Contacts /\ Null \notin Phones
    /\ Null \notin Verification
    /\ Null \notin Account /\ Null \notin {Deleted}

VARIABLES
    row,            \* row[i] of verifications: Null before its INSERT
    user,           \* user[u]: the account, Null before its INSERT
    outbox,         \* addresses whose code is mailed by a timeout, after the answer
    twilio,         \* (external) addresses with a code that Twilio still accepts
    unset,          \* accounts without notification preferences
    call,           \* call[k]: handler in flight
    sent,           \* (history) codes asked for since the row of c was deleted
    proven,         \* (history) addresses whose code Twilio has accepted
    spent,          \* (history) rows that have let a request through
    reused,         \* (history) contacts of the rows that have let two through
    crossed,        \* (history) accounts whose password came with an address and a number
    overlapped      \* (history) contacts two requests were at work on at once

mailVars == <<outbox, twilio>>
useVars == <<spent, reused, crossed>>
vars == <<row, user, mailVars, unset, call, sent, proven, useVars, overlapped>>

NoCall == [op : {"none"}]
SendCall == [op : {"send"}, contact : Contacts, id : Rows \cup {Null},
             count : Nat, status : CheckStatus]
StatusCall == [op : {"status"}, email : Emails, status : CheckStatus]
ApprovedCall == [op : {"approved"}, id : Rows, by : Contacts, email : Emails, phone : Phones]
ResetCall == [op : {"reset"}, id : Rows, by : Contacts,
              email : Emails \cup {Null}, phone : Phones \cup {Null}]
RegisterCall == [op : {"spent", "free"}, by : Contacts, email : Emails, phone : Phones]
RenewCall == [op : {"renew"}, by : Contacts,
              email : Emails \cup {Null}, phone : Phones \cup {Null}]
CallRecords == NoCall \cup SendCall \cup StatusCall \cup ApprovedCall \cup ResetCall
                      \cup RegisterCall \cup RenewCall

Idle == [op |-> "none"]
Start(k, record) == call[k] = Idle /\ call' = [call EXCEPT ![k] = record]
Continue(k, record) == call' = [call EXCEPT ![k] = record]
End(k) == call' = [call EXCEPT ![k] = Idle]

Live(i) == row[i] \notin {Null, Deleted}
RowsOf(c) == {i \in Rows : Live(i) /\ row[i].contact = c}
Registered == {u \in Users : user[u] # Null}

\* toInternationalPhone: both forms of a number become the same.
International(p) == [p EXCEPT !.form = "international"]

\* userExistsBy, for an email and for a phone as it is stored.
EmailTaken(e) == \E u \in Registered : user[u].email = e
PhoneTaken(p) == \E u \in Registered : user[u].phone = p

\* A send that is answered later than another request for c, or than the
\* deletion of its row, works on what it has read.
Sending(c) == \E k \in Calls : call[k].op = "send" /\ call[k].contact = c
-----------------------------------------------------------------------------
Init ==
    /\ row = [i \in Rows |-> Null]
    /\ user = [u \in Users |-> Null]
    /\ outbox = {}
    /\ twilio = {}
    /\ unset = {}
    /\ call = [k \in Calls |-> Idle]
    /\ sent = [c \in Contacts |-> 0]
    /\ proven = {}
    /\ spent = {}
    /\ reused = {}
    /\ crossed = {}
    /\ overlapped = {}
-----------------------------------------------------------------------------
(***************************************************************************)
(* VerificationService.sendVerificationEmail, sendVerificationPhone        *)
(***************************************************************************)
\* findOne takes any row of the contact; with MaxCodes on it the request is
\* refused.  Without one a row is made, which for a number is approved at once.
FindRow(k, c) ==
    \/ \E i \in RowsOf(c) :
          /\ row[i].count < MaxCodes
          /\ Start(k, [op |-> "send", contact |-> c, id |-> i,
                       count |-> row[i].count, status |-> row[i].status])
    \/ /\ RowsOf(c) = {}
       /\ Start(k, [op |-> "send", contact |-> c, id |-> Null,
                    count |-> 0, status |-> IF c \in Numbers THEN "approved" ELSE "pending"])

ReadForEmail(k, e) ==
    /\ ~EmailTaken(e)
    /\ FindRow(k, e)
    /\ overlapped' = IF Sending(e) THEN overlapped \cup {e} ELSE overlapped
    /\ UNCHANGED <<row, user, mailVars, unset, sent, proven, useVars>>

\* The accounts are searched for the international form of the number only.
ReadForPhone(k, p) ==
    /\ ~PhoneTaken(International(p))
    /\ FindRow(k, p.number)
    /\ overlapped' = IF Sending(p.number) THEN overlapped \cup {p.number} ELSE overlapped
    /\ UNCHANGED <<row, user, mailVars, unset, sent, proven, useVars>>

\* save: the row as it was read with one code more, inserted again if it was
\* deleted meanwhile; or a new one.
SaveRow(k) ==
    LET saved == [contact |-> call[k].contact, count |-> call[k].count + 1,
                  status |-> call[k].status]
    IN  \/ /\ call[k].id # Null
           /\ row' = [row EXCEPT ![call[k].id] = saved]
        \/ /\ call[k].id = Null
           /\ \E i \in Rows : row[i] = Null /\ row' = [row EXCEPT ![i] = saved]

\* The code for an address is mailed by a timeout; the SMS is commented out.
SendEmail(k) ==
    /\ call[k].op = "send"
    /\ call[k].contact \in Emails
    /\ SaveRow(k)
    /\ outbox' = outbox \cup {call[k].contact}
    /\ sent' = [sent EXCEPT ![call[k].contact] = @ + 1]
    /\ End(k)
    /\ UNCHANGED <<user, twilio, unset, proven, useVars, overlapped>>

SendPhone(k) ==
    /\ call[k].op = "send"
    /\ call[k].contact \in Numbers
    /\ SaveRow(k)
    /\ sent' = [sent EXCEPT ![call[k].contact] = @ + 1]
    /\ End(k)
    /\ UNCHANGED <<user, mailVars, unset, proven, useVars, overlapped>>

\* VerifyService.createEmailVerification: a failure is logged and forgotten.
MailCode(e) ==
    /\ e \in outbox
    /\ outbox' = outbox \ {e}
    /\ twilio' \in {twilio, twilio \cup {e}}
    /\ UNCHANGED <<row, user, unset, call, sent, proven, useVars, overlapped>>
-----------------------------------------------------------------------------
(***************************************************************************)
(* VerificationService.verifyEmail                                         *)
(***************************************************************************)
\* Twilio accepts the code once; of an address without one it throws.
CheckCode(k, e) ==
    /\ e \in twilio
    /\ \/ /\ twilio' = twilio \ {e}
          /\ proven' = proven \cup {e}
          /\ Start(k, [op |-> "status", email |-> e, status |-> "approved"])
       \/ /\ Start(k, [op |-> "status", email |-> e, status |-> "pending"])
          /\ UNCHANGED <<twilio, proven>>
    /\ UNCHANGED <<row, user, outbox, unset, sent, useVars, overlapped>>

\* The answer goes to every row of the address, in one UPDATE.
SetStatus(k) ==
    /\ call[k].op = "status"
    /\ row' = [i \in Rows |-> IF i \in RowsOf(call[k].email)
                              THEN [row[i] EXCEPT !.status = call[k].status] ELSE row[i]]
    /\ End(k)
    /\ UNCHANGED <<user, mailVars, unset, sent, proven, useVars, overlapped>>
-----------------------------------------------------------------------------
(***************************************************************************)
(* VerificationService.checkVerify, AuthService.register,                  *)
(* updateNewPassword, UserService.createUser, updateUserPassword           *)
(***************************************************************************)
\* The contacts a request names: an address, a number, or both.
Named(e, p) == ({e} \cup {q.number : q \in {p} \ {Null}}) \ {Null}

\* MUTANT: a row will do before it is approved.
AnyRow(e, p) == {i \in Rows : Live(i) /\ row[i].contact \in Named(e, p)}

\* A row of the address or of the number; getOne takes any of them, and it
\* has to be approved.
ApprovedRow(e, p) ==
    {i \in Rows : Live(i) /\ row[i].contact \in Named(e, p) /\ row[i].status = "approved"}

\* Row i has let a request through that has not deleted it yet.
Spending(i) == \E k \in Calls : call[k].op \in {"approved", "reset"} /\ call[k].id = i

CheckForAccount(k, e, p) ==
    /\ \E i \in ApprovedRow(e, p) :
          /\ Start(k, [op |-> "approved", id |-> i, by |-> row[i].contact,
                       email |-> e, phone |-> p])
          /\ overlapped' = IF Spending(i) THEN overlapped \cup {row[i].contact} ELSE overlapped
    /\ UNCHANGED <<row, user, mailVars, unset, sent, proven, useVars>>

\* A new password: for an address, a number, or both.
CheckForPassword(k, e, p) ==
    /\ \E i \in ApprovedRow(e, p) :
          /\ Start(k, [op |-> "reset", id |-> i, by |-> row[i].contact,
                       email |-> e, phone |-> p])
          /\ overlapped' = IF Spending(i) THEN overlapped \cup {row[i].contact} ELSE overlapped
    /\ UNCHANGED <<row, user, mailVars, unset, sent, proven, useVars>>

\* delete by id, whether or not it is still there.
DeleteRow(k) == row' = [row EXCEPT ![call[k].id] = Deleted]

Spend(k) ==
    /\ call[k].op \in {"approved", "reset"}
    /\ DeleteRow(k)
    /\ IF Live(call[k].id)
       THEN LET c == row[call[k].id].contact
            IN  /\ sent' = [sent EXCEPT ![c] = 0]
                /\ overlapped' = IF Sending(c) THEN overlapped \cup {c} ELSE overlapped
       ELSE UNCHANGED <<sent, overlapped>>
    /\ spent' = spent \cup {call[k].id}
    /\ reused' = IF call[k].id \in spent THEN reused \cup {call[k].by} ELSE reused
    /\ Continue(k, [op |-> IF call[k].op = "reset" THEN "renew" ELSE "spent", by |-> call[k].by,
                    email |-> call[k].email, phone |-> call[k].phone])
    /\ UNCHANGED <<user, mailVars, unset, proven, crossed>>

\* The accounts updateUserPassword takes: those of the address, and without an
\* address those of the number as it was typed.
AccountsOf(e, p) ==
    {u \in Registered : IF e # Null THEN user[u].email = e ELSE user[u].phone = p}

\* With no such account it throws; the approval is spent all the same.
UpdatePassword(k) ==
    LET renewed == AccountsOf(call[k].email, call[k].phone)
    IN  /\ call[k].op = "renew"
        /\ user' = [u \in Users |-> IF u \in renewed THEN [user[u] EXCEPT !.by = call[k].by]
                                                      ELSE user[u]]
        /\ crossed' = IF Null \in {call[k].email, call[k].phone} THEN crossed \ renewed
                                                                 ELSE crossed \cup renewed
        /\ End(k)
        /\ UNCHANGED <<row, mailVars, unset, sent, proven, spent, reused, overlapped>>

\* createUser refuses an address or a phone that has an account; the approval
\* is spent all the same.
CheckFree(k) ==
    /\ call[k].op = "spent"
    /\ IF EmailTaken(call[k].email) \/ PhoneTaken(call[k].phone)
       THEN End(k)
       ELSE Continue(k, [call[k] EXCEPT !.op = "free"])
    /\ UNCHANGED <<row, user, mailVars, unset, sent, proven, useVars, overlapped>>

\* INSERT, unless one of the two unique columns stops it.
InsertUser(k, u) ==
    /\ call[k].op = "free"
    /\ user[u] = Null
    /\ ~EmailTaken(call[k].email) /\ ~PhoneTaken(call[k].phone)
    /\ user' = [user EXCEPT ![u] = [email |-> call[k].email, phone |-> call[k].phone,
                                   by |-> call[k].by]]
    /\ unset' = unset \cup {u}
    /\ End(k)
    /\ UNCHANGED <<row, mailVars, sent, proven, useVars, overlapped>>

RefuseUser(k) ==
    /\ call[k].op = "free"
    /\ EmailTaken(call[k].email) \/ PhoneTaken(call[k].phone)
    /\ End(k)
    /\ UNCHANGED <<row, user, mailVars, unset, sent, proven, useVars, overlapped>>

\* registerNotificationChannel, after the answer; a failure is only logged, and
\* the account stays without.
StorePreference(u) ==
    /\ u \in unset
    /\ unset' = unset \ {u}
    /\ UNCHANGED <<row, user, mailVars, call, sent, proven, useVars, overlapped>>
-----------------------------------------------------------------------------
\* handleCleanupCron, every midnight: DELETE of all rows.
Cleanup ==
    /\ \E i \in Rows : Live(i)
    /\ row' = [i \in Rows |-> IF Live(i) THEN Deleted ELSE row[i]]
    /\ sent' = [c \in Contacts |-> 0]
    /\ overlapped' = overlapped \cup {c \in Contacts : Sending(c)}
    /\ UNCHANGED <<user, mailVars, unset, call, proven, useVars>>

Abandon(k) ==
    /\ call[k] # Idle
    /\ End(k)
    /\ UNCHANGED <<row, user, mailVars, unset, sent, proven, useVars, overlapped>>

Next ==
    \/ \E k \in Calls :
          \/ \E e \in Emails :
                \/ ReadForEmail(k, e)
                \/ CheckCode(k, e)
                \/ \E p \in Phones : CheckForAccount(k, e, p)
          \/ \E p \in Phones : ReadForPhone(k, p)
          \/ \E e \in Emails \cup {Null}, p \in Phones \cup {Null} : CheckForPassword(k, e, p)
          \/ UpdatePassword(k)
          \/ RefuseUser(k) \/ \E u \in Users : InsertUser(k, u)
          \/ SendEmail(k) \/ SendPhone(k) \/ SetStatus(k) \/ Spend(k) \/ CheckFree(k)
          \/ Abandon(k)
    \/ \E e \in Emails : MailCode(e)
    \/ \E u \in Users : StorePreference(u)
    \/ Cleanup

Spec == Init /\ [][Next]_vars
-----------------------------------------------------------------------------
\* Every variable has its type: the rows of the tables verifications and user,
\* the timeouts, and the handlers of the three services.
TypeOK ==
    /\ row \in [Rows -> Verification \cup {Null, Deleted}]
    /\ user \in [Users -> Account \cup {Null}]
    /\ outbox \subseteq Emails
    /\ twilio \subseteq Emails
    /\ unset \subseteq Users
    /\ call \in [Calls -> CallRecords]
    /\ sent \in [Contacts -> Nat]
    /\ proven \subseteq Emails
    /\ spent \subseteq Rows
    /\ reused \subseteq Contacts
    /\ crossed \subseteq Users
    /\ overlapped \subseteq Contacts

\* sendVerificationEmail and sendVerificationPhone count the codes in a row
\* they read, save, and find deleted: no contact gets more than the limit,
\* unless a request for it overlapped another, or the deletion of its row.
CodesWithinLimit == \A c \in Contacts \ overlapped : sent[c] <= MaxCodes

\* An approved row lets one request through, although a save of what was read
\* before may write it back after its deletion: a second one only if a request
\* for its contact overlapped another, or the deletion of the row.
ApprovalsUsedOnce == reused \subseteq overlapped

\* Every password, the first one and the later ones, was let in by an approved
\* row.  If that is the row of an address, Twilio has accepted a code sent to
\* it; the row of a number proves nothing, as it is approved when it is made.
\* The contact is the account's own, unless a new password was asked for with
\* an address and a number: checkVerify takes a row of either, and
\* updateUserPassword the account of the address.
PasswordsWereApproved ==
    \A u \in Registered :
        /\ user[u].by \in Emails => user[u].by \in proven
        /\ user[u].by \in {user[u].email, user[u].phone.number} \/ u \in crossed

\* What the codes are for: few of them, each approval of use once, and no
\* password without one.
AccountsProven == CodesWithinLimit /\ ApprovalsUsedOnce /\ PasswordsWereApproved
=============================================================================
