----------------------------- MODULE Assignments -----------------------------
(***************************************************************************)
(* Which auditor is asked to judge which log: the profiles of the auditors *)
(* (AuditorProfileService) and the job that turns the contract's requests  *)
(* into rows of verification_assignment (VerificationService).  How the    *)
(* job keeps its cursor, and what is lost on the way, is in EventSync;     *)
(* here the node answers, and a run takes every request not passed yet.    *)
(*                                                                         *)
(* A wallet's address is text: the events and the seeded rows have it in   *)
(* checksum case, registerAuditor stores it in lower case, and the         *)
(* database compares it as it is.                                          *)
(***************************************************************************)
EXTENDS Integers, FiniteSets

CONSTANTS
    Users,          \* users of role AUDITOR
    Wallets,        \* wallets of auditors
    Profiles,       \* ids of the table auditor_profiles
    Seeds,          \* Seeds[p]: the row the migrations insert, or Null
    Requests,       \* number of requests the contract will emit
    Known,          \* requests for a log that this database has
    Calls,          \* handlers and runs of the job that can be in flight at once
    Null            \* no row

RequestAssumption == Requests \in Nat /\ Known \subseteq 1 .. Requests

Profile == [user : Users, wallet : Wallets, lower : BOOLEAN]
\* The migrations give one wallet to each auditor.
SeedAssumption ==
    /\ Seeds \in [Profiles -> [user : Users, wallet : Wallets, lower : {FALSE}] \cup {Null}]
    /\ \A p, q \in Profiles :
          Seeds[p] # Null /\ Seeds[q] # Null /\ Seeds[p].user = Seeds[q].user => p = q
NullAssumption == Null \notin Profile

VARIABLES
    profile,        \* profile[p]: the row, Null before its INSERT
    asked,          \* asked[n]: wallets the n-th request names, {} before it
    passed,         \* requests the stored cursor has passed
    assignment,     \* rows <<n, p>> of verification_assignment
    voted,          \* those with a vote_transaction_hash
    call,           \* call[k]: handler or run in flight
    overlapped      \* (history) users two requests were registering at once

vars == <<profile, asked, passed, assignment, voted, call, overlapped>>
jobVars == <<asked, passed, assignment, voted>>

NoCall == [op : {"none"}]
RegisterCall == [op : {"register"}, user : Users, wallet : Wallets]
RunCall == [op : {"handle", "store"}, from : 1 .. Requests, to : 1 .. Requests]
CallRecords == NoCall \cup RegisterCall \cup RunCall

Idle == [op |-> "none"]
Start(k, record) == call[k] = Idle /\ call' = [call EXCEPT ![k] = record]
Continue(k, op) == call' = [call EXCEPT ![k].op = op]
End(k) == call' = [call EXCEPT ![k] = Idle]

Rows == {p \in Profiles : profile[p] # Null}
ProfilesOf(u) == {p \in Rows : profile[p].user = u}
Registering(u) == \E k \in Calls : call[k].op = "register" /\ call[k].user = u
Newest == Cardinality({n \in 1 .. Requests : asked[n] # {}})
-----------------------------------------------------------------------------
Init ==
    /\ profile = Seeds
    /\ asked = [n \in 1 .. Requests |-> {}]
    /\ passed = 0
    /\ assignment = {}
    /\ voted = {}
    /\ call = [k \in Calls |-> Idle]
    /\ overlapped = {}
-----------------------------------------------------------------------------
(***************************************************************************)
(* AuditorProfileService.registerAuditor                                   *)
(***************************************************************************)
\* No profile has the user, or the wallet as the request spells it.
NoSuchProfile(u, w, lower) ==
    /\ ProfilesOf(u) = {}
    /\ ~\E p \in Rows : profile[p].wallet = w /\ profile[p].lower = lower

CheckAuditor(k, u, w, lower) ==
    /\ NoSuchProfile(u, w, lower)
    /\ Start(k, [op |-> "register", user |-> u, wallet |-> w])
    /\ overlapped' = IF Registering(u) THEN overlapped \cup {u} ELSE overlapped
    /\ UNCHANGED <<profile, jobVars>>

\* wallet_address is unique, in lower case now; user_id is not.
InsertAuditor(k, p) ==
    /\ call[k].op = "register"
    /\ profile[p] = Null
    /\ ~\E q \in Rows : profile[q].wallet = call[k].wallet /\ profile[q].lower
    /\ profile' = [profile EXCEPT ![p] = [user |-> call[k].user, wallet |-> call[k].wallet,
                                          lower |-> TRUE]]
    /\ End(k)
    /\ UNCHANGED <<jobVars, overlapped>>
-----------------------------------------------------------------------------
(***************************************************************************)
(* VerificationService.handleRequestEvents                                 *)
(***************************************************************************)
\* (external) The contract asks for a judgement, by auditors of its own list.
Request(n, auditors) ==
    /\ n = Newest + 1
    /\ asked' = [asked EXCEPT ![n] = auditors]
    /\ UNCHANGED <<profile, passed, assignment, voted, call, overlapped>>

Fire(k) ==
    /\ passed < Newest
    /\ Start(k, [op |-> "handle", from |-> passed + 1, to |-> Newest])
    /\ UNCHANGED <<profile, jobVars, overlapped>>

\* getAuditorIdsByAddresses: addresses are compared as they are spelled.
ProfilesOfWallets(wallets) == {p \in Rows : profile[p].wallet \in wallets /\ ~profile[p].lower}

\* MUTANT: only the newest request of the batch is worked on.
LastOfBatch(k) == {call[k].to} \X ProfilesOfWallets(asked[call[k].to])

Batch(k) ==
    UNION {{n} \X ProfilesOfWallets(asked[n]) : n \in call[k].from .. call[k].to}

\* All rows of the batch are saved in one transaction: a log that this
\* database has not (a foreign key) stops them all, and the cursor with them.
SaveAssignments(k) ==
    /\ call[k].op = "handle"
    /\ \A row \in Batch(k) : row[1] \in Known
    /\ assignment' = assignment \cup Batch(k)
    /\ Continue(k, "store")
    /\ UNCHANGED <<profile, asked, passed, voted, overlapped>>

StoreCursor(k) ==
    /\ call[k].op = "store"
    /\ passed' = call[k].to
    /\ End(k)
    /\ UNCHANGED <<profile, asked, assignment, voted, overlapped>>

\* setVerified: a row of the auditor's profile; of several profiles any.
SetVerified(u, row) ==
    /\ row \in assignment
    /\ row[2] \in ProfilesOf(u)
    /\ voted' = voted \cup {row}
    /\ UNCHANGED <<profile, asked, passed, assignment, call, overlapped>>

\* A handler is refused or fails, or a run's statement does.
Abandon(k) ==
    /\ call[k] # Idle
    /\ End(k)
    /\ UNCHANGED <<profile, jobVars, overlapped>>

Next ==
    \/ \E k \in Calls :
          \/ \E u \in Users, w \in Wallets, lower \in BOOLEAN : CheckAuditor(k, u, w, lower)
          \/ \E p \in Profiles : InsertAuditor(k, p)
          \/ Fire(k) \/ SaveAssignments(k) \/ StoreCursor(k) \/ Abandon(k)
    \/ \E n \in 1 .. Requests, auditors \in (SUBSET Wallets) \ {{}} : Request(n, auditors)
    \/ \E u \in Users, row \in assignment : SetVerified(u, row)

Spec == Init /\ [][Next]_vars
-----------------------------------------------------------------------------
\* Every variable has its type: the profiles, the requests and what became of
\* them, and the handlers.
TypeOK ==
    /\ profile \in [Profiles -> Profile \cup {Null}]
    /\ asked \in [1 .. Requests -> SUBSET Wallets]
    /\ passed \in 0 .. Requests
    /\ assignment \subseteq (1 .. Requests) \X Profiles
    /\ voted \subseteq assignment
    /\ call \in [Calls -> CallRecords]
    /\ overlapped \subseteq Users

\* However the runs overlap, fail and start again: no request is passed
\* before every seeded auditor it names has a row for it, and nobody has a row
\* for a request that does not name the wallet.
AssignedAsRequested ==
    /\ \A n \in 1 .. passed : \A p \in Profiles :
          Seeds[p] # Null /\ Seeds[p].wallet \in asked[n] => <<n, p>> \in assignment
    /\ \A row \in assignment : profile[row[2]] # Null /\ profile[row[2]].wallet \in asked[row[1]]

\* A user has one profile, of which the seeded ones have one each, unless two
\* requests registered the user at once.
OneProfile ==
    \A u \in Users \ overlapped :
        Cardinality(ProfilesOf(u)) <= 1

\* Both together: a request reaches the profiles of the wallets it names.
AuditorsAssigned == AssignedAsRequested /\ OneProfile
=============================================================================
