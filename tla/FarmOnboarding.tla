--------------------------- MODULE FarmOnboarding ---------------------------
(***************************************************************************)
(* How a user becomes a farmer: the farm is registered, the owner's        *)
(* identity checked by FPT, certificates are uploaded, an administrator    *)
(* decides, and the tokens of the user follow (FarmService, BiometricService, *)
(* FarmCertificateService, FarmManagementService, UserService, AuthService *)
(* and the guard of the routes).                                           *)
(*                                                                         *)
(* save() of TypeORM writes every column in which the copy differs from    *)
(* the row, the status too: a handler that saves a farm it has read puts   *)
(* back what was changed meanwhile.                                        *)
(***************************************************************************)
EXTENDS Integers

CONSTANTS
    Users,          \* rows of the table user
    Farms,          \* ids of the table farm
    Certs,          \* ids of the table farm_certificate
    Profiles,       \* what the columns of a farm's profile can hold
    Calls,          \* handlers that can be in flight at once
    Given,          \* bound: roles an administrator gives
    Null            \* no row, no token, no decision

Roles == {"BUYER", "FARMER", "ADMIN", "AUDITOR"}
FarmStatus == {"PENDING", "VERIFIED", "PENDING_APPROVE", "APPROVED", "BLOCKED", "REJECTED"}
Verdicts == {"APPROVED", "BLOCKED", "REJECTED"}
CertStatus == {"PENDING", "APPROVED", "REJECTED"}

FarmRow == [owner : Users, status : FarmStatus, profile : Profiles]
CertRow == [farm : Farms, status : CertStatus]
Token == [role : Roles, farm : BOOLEAN]

NullAssumption ==
    /\ Null \notin Verdicts /\ Null \notin FarmRow /\ Null \notin CertRow
    /\ Null \notin Token

VARIABLES
    farm,           \* farm[f]: the row, Null before its INSERT
    identified,     \* farms with an approved identification
    cert,           \* cert[c]: the row, Null before its INSERT
    role,           \* role[u] of the user row
    banned,         \* users of status BANNED
    token,          \* token[u]: role and farm_id in the user's latest access token
    call,           \* call[k]: handler in flight
    verdict,        \* (history) verdict[f]: decision since the last certificate
    overruled,      \* (history) farms whose status a stale save changed
    granted,        \* (history) users made FARMER by an administrator
    uncommitted     \* (history) farms with certificates whose status was rolled back

farmVars == <<farm, identified>>
userVars == <<role, banned, token, granted>>
historyVars == <<verdict, overruled, uncommitted>>
vars == <<farm, identified, cert, role, banned, token, call, verdict, overruled, granted, uncommitted>>

NoCall == [op : {"none"}]
RegisterCall == [op : {"register"}, user : Users, profile : Profiles]
CopyCall == [op : {"biometric", "card", "face", "images"}, farm : Farms,
             status : FarmStatus, profile : Profiles]
CertCall == [op : {"locked", "saved"}, farm : Farms]
CallRecords == NoCall \cup RegisterCall \cup CopyCall \cup CertCall

Idle == [op |-> "none"]
Start(k, record) == call[k] = Idle /\ call' = [call EXCEPT ![k] = record]
Continue(k, op) == call' = [call EXCEPT ![k].op = op]
End(k) == call' = [call EXCEPT ![k] = Idle]

Registered == {f \in Farms : farm[f] # Null}
FarmsOf(u) == {f \in Registered : farm[f].owner = u}

\* A transaction that has updated the status holds the row until it ends.
Locked(f) == \E k \in Calls : call[k].op \in {"locked", "saved"} /\ call[k].farm = f

\* findFarmById: the farms that are shown to others.
Shown == {f \in Registered : farm[f].status \in {"VERIFIED", "APPROVED"}}

\* validateFarmer: the farm a farmer works for.
ValidFarm(u) == FarmsOf(u) \cap Shown

\* RolesGuard: a token of a farmer has to name the farm.
IsFarmer(u) == token[u] # Null /\ token[u].role = "FARMER" /\ token[u].farm
-----------------------------------------------------------------------------
Init ==
    /\ farm = [f \in Farms |-> Null]
    /\ identified = {}
    /\ cert = [c \in Certs |-> Null]
    /\ role = [u \in Users |-> "BUYER"]
    /\ banned = {}
    /\ token = [u \in Users |-> Null]
    /\ call = [k \in Calls |-> Idle]
    /\ verdict = [f \in Farms |-> Null]
    /\ overruled = {}
    /\ granted = {}
    /\ uncommitted = {}
-----------------------------------------------------------------------------
(***************************************************************************)
(* FarmService.farmRegister                                                *)
(***************************************************************************)
CheckNoFarm(k, u, p) ==
    /\ token[u] # Null
    /\ FarmsOf(u) = {}
    /\ Start(k, [op |-> "register", user |-> u, profile |-> p])
    /\ UNCHANGED <<farmVars, cert, userVars, historyVars>>

\* MUTANT: user_id is not unique, only the check before the transaction is left.
InsertAnyFarm(k, f) ==
    /\ call[k].op = "register"
    /\ farm[f] = Null
    /\ farm' = [farm EXCEPT ![f] = [owner |-> call[k].user, status |-> "PENDING",
                                    profile |-> call[k].profile]]
    /\ End(k)
    /\ UNCHANGED <<identified, cert, userVars, historyVars>>

\* The transaction; user_id is unique, as the column of a one-to-one relation.
InsertFarm(k, f) ==
    /\ call[k].op = "register"
    /\ farm[f] = Null
    /\ FarmsOf(call[k].user) = {}
    /\ farm' = [farm EXCEPT ![f] = [owner |-> call[k].user, status |-> "PENDING",
                                    profile |-> call[k].profile]]
    /\ End(k)
    /\ UNCHANGED <<identified, cert, userVars, historyVars>>
-----------------------------------------------------------------------------
(***************************************************************************)
(* FarmService.verifyBiometric: the farm is read, FPT asked twice, and     *)
(* then farm, identification and role are saved in the transaction.        *)
(***************************************************************************)
ReadForBiometric(k, f) ==
    /\ f \in Registered
    /\ token[farm[f].owner] # Null
    /\ farm[f].status = "PENDING"
    /\ Start(k, [op |-> "biometric", farm |-> f, status |-> farm[f].status,
                 profile |-> farm[f].profile])
    /\ UNCHANGED <<farmVars, cert, userVars, historyVars>>

\* callFptIdrApiForFront: the front of an identity card; all else throws.
CardRead(k) ==
    /\ call[k].op = "biometric"
    /\ Continue(k, "card")
    /\ UNCHANGED <<farmVars, cert, userVars, historyVars>>

\* callFptLivenessApi: a living person, and that of the card; all else throws.
FaceMatched(k) ==
    /\ call[k].op = "card"
    /\ Continue(k, "face")
    /\ UNCHANGED <<farmVars, cert, userVars, historyVars>>

\* save(farm) over the row as it is now: its status, and the copy's profile.
SaveCopy(f, status, profile) ==
    /\ ~Locked(f)
    /\ farm' = [farm EXCEPT ![f].status = status, ![f].profile = profile]

\* Whoever changed the status after k read it is overruled by k's save.
Overruled(k) ==
    IF farm[call[k].farm].status = call[k].status
    THEN overruled ELSE overruled \cup {call[k].farm}

SaveIdentified(k) ==
    /\ call[k].op = "face"
    /\ SaveCopy(call[k].farm, "VERIFIED", call[k].profile)
    /\ identified' = identified \cup {call[k].farm}
    /\ role' = [role EXCEPT ![farm[call[k].farm].owner] = "FARMER"]
    /\ overruled' = Overruled(k)
    /\ End(k)
    /\ UNCHANGED <<cert, banned, token, granted, verdict, uncommitted>>
-----------------------------------------------------------------------------
(***************************************************************************)
(* FarmService.updateFarm, updateFarmAvatar, updateFarmImages              *)
(***************************************************************************)
\* UPDATE of the columns in the request, by the farm's id.
UpdateFarm(u, p) ==
    /\ IsFarmer(u)
    /\ \E f \in FarmsOf(u) : ~Locked(f) /\ farm' = [farm EXCEPT ![f].profile = p]
    /\ UNCHANGED <<identified, cert, userVars, call, historyVars>>

\* The images themselves are left out; the row they are saved with is not.
ReadForImages(k, u) ==
    /\ IsFarmer(u)
    /\ \E f \in FarmsOf(u) :
          Start(k, [op |-> "images", farm |-> f, status |-> farm[f].status,
                    profile |-> farm[f].profile])
    /\ UNCHANGED <<farmVars, cert, userVars, historyVars>>

SaveImages(k) ==
    /\ call[k].op = "images"
    /\ SaveCopy(call[k].farm, call[k].status, call[k].profile)
    /\ overruled' = Overruled(k)
    /\ End(k)
    /\ UNCHANGED <<identified, cert, userVars, verdict, uncommitted>>
-----------------------------------------------------------------------------
(***************************************************************************)
(* FarmCertificateService.addCertificates: the status is changed in a      *)
(* transaction, the certificates are saved outside it.                     *)
(***************************************************************************)
LockStatus(k, u) ==
    /\ IsFarmer(u)
    /\ \E f \in FarmsOf(u) : ~Locked(f) /\ Start(k, [op |-> "locked", farm |-> f])
    /\ UNCHANGED <<farmVars, cert, userVars, historyVars>>

SaveCertificate(k, c) ==
    /\ call[k].op = "locked"
    /\ cert[c] = Null
    /\ cert' = [cert EXCEPT ![c] = [farm |-> call[k].farm, status |-> "PENDING"]]
    /\ Continue(k, "saved")
    /\ UNCHANGED <<farmVars, userVars, historyVars>>

\* COMMIT: the farm waits for approval, whatever its status was.
CommitStatus(k) ==
    /\ call[k].op = "saved"
    /\ farm' = [farm EXCEPT ![call[k].farm].status = "PENDING_APPROVE"]
    /\ verdict' = [verdict EXCEPT ![call[k].farm] = Null]
    /\ End(k)
    /\ UNCHANGED <<identified, cert, userVars, overruled, uncommitted>>
-----------------------------------------------------------------------------
(***************************************************************************)
(* FarmManagementService.createApproval: one transaction.                  *)
(***************************************************************************)
\* updateCertsStatus: the certificates of f that are PENDING.
DecideCerts(f, a) ==
    cert' = [c \in Certs |-> IF cert[c] = [farm |-> f, status |-> "PENDING"]
                             THEN [farm |-> f, status |-> a] ELSE cert[c]]

\* MUTANT: the decision is recorded, and the status of the farm left alone.
DecideCertsOnly(f, a) ==
    /\ f \in Registered
    /\ ~Locked(f)
    /\ IF a = "BLOCKED" THEN UNCHANGED cert ELSE DecideCerts(f, a)
    /\ verdict' = [verdict EXCEPT ![f] = a]
    /\ UNCHANGED <<farmVars, userVars, call, overruled, uncommitted>>

Approve(f, a) ==
    /\ f \in Registered
    /\ ~Locked(f)
    /\ farm' = [farm EXCEPT ![f].status = a]
    /\ IF a = "BLOCKED" THEN UNCHANGED cert ELSE DecideCerts(f, a)
    /\ verdict' = [verdict EXCEPT ![f] = a]
    /\ UNCHANGED <<identified, userVars, call, overruled, uncommitted>>
-----------------------------------------------------------------------------
(***************************************************************************)
(* UserManagementService, AuthService                                      *)
(***************************************************************************)
UpdateRole(u, r) ==
    /\ role[u] # r
    /\ role' = [role EXCEPT ![u] = r]
    /\ granted' = IF r = "FARMER" THEN granted \cup {u} ELSE granted
    /\ UNCHANGED <<farmVars, cert, banned, token, call, historyVars>>

UpdateUserStatus(u) ==
    /\ banned' \in {banned \cup {u}, banned \ {u}}
    /\ UNCHANGED <<farmVars, cert, role, token, granted, call, historyVars>>

\* login: a farmer whose farm is not shown is refused, as validateFarmer
\* throws; then a banned user is.
Login(u) ==
    /\ role[u] = "FARMER" => ValidFarm(u) # {}
    /\ u \notin banned
    /\ token' = [token EXCEPT ![u] = [role |-> role[u], farm |-> role[u] = "FARMER"]]
    /\ UNCHANGED <<farmVars, cert, role, banned, granted, call, historyVars>>

\* refreshToken reads the user again, and leaves the farm out.
RefreshToken(u) ==
    /\ token[u] # Null
    /\ token' = [token EXCEPT ![u] = [role |-> role[u], farm |-> FALSE]]
    /\ UNCHANGED <<farmVars, cert, role, banned, granted, call, historyVars>>
-----------------------------------------------------------------------------
\* An error rolls the transaction back; certificates stay, once saved.
Fail(k) ==
    /\ call[k] # Idle
    /\ uncommitted' = IF call[k].op = "saved" THEN uncommitted \cup {call[k].farm} ELSE uncommitted
    /\ End(k)
    /\ UNCHANGED <<farmVars, cert, userVars, verdict, overruled>>

Next ==
    \/ \E k \in Calls :
          \/ \E u \in Users, p \in Profiles : CheckNoFarm(k, u, p)
          \/ \E f \in Farms : InsertFarm(k, f) \/ ReadForBiometric(k, f)
          \/ \E u \in Users : ReadForImages(k, u) \/ LockStatus(k, u)
          \/ \E c \in Certs : SaveCertificate(k, c)
          \/ CardRead(k) \/ FaceMatched(k) \/ SaveIdentified(k)
          \/ SaveImages(k) \/ CommitStatus(k) \/ Fail(k)
    \/ \E u \in Users : \E p \in Profiles : UpdateFarm(u, p)
    \/ \E f \in Farms, a \in Verdicts : Approve(f, a)
    \/ \E u \in Users :
          \/ \E r \in Roles \cap Given : UpdateRole(u, r)
          \/ UpdateUserStatus(u) \/ Login(u) \/ RefreshToken(u)

Spec == Init /\ [][Next]_vars
-----------------------------------------------------------------------------
\* Every variable has its type: the rows of farms, certificates and users, the
\* tokens, and the handlers in flight.
TypeOK ==
    /\ farm \in [Farms -> FarmRow \cup {Null}]
    /\ identified \subseteq Registered
    /\ cert \in [Certs -> CertRow \cup {Null}]
    /\ role \in [Users -> Roles]
    /\ banned \subseteq Users
    /\ token \in [Users -> Token \cup {Null}]
    /\ call \in [Calls -> CallRecords]
    /\ verdict \in [Farms -> Verdicts \cup {Null}]
    /\ overruled \subseteq Farms
    /\ granted \subseteq Users
    /\ uncommitted \subseteq Farms

\* farmRegister looks for a farm before it inserts one, and verifyBiometric
\* saves farm, identification and role together: whoever is a FARMER without
\* an administrator's doing has one farm, and its owner was identified.
FarmerHasOneFarm ==
    \A u \in Users : role[u] = "FARMER" /\ u \notin granted =>
        \E f \in identified : FarmsOf(u) = {f}

\* An administrator's decision holds until the farm uploads a certificate:
\* no other handler changes the status, but those that save the copy of a
\* farm they read before (verifyBiometric, updateFarmImages).
VerdictStands ==
    \A f \in Farms \ overruled : verdict[f] # Null => farm[f].status = verdict[f]

\* A certificate is PENDING only while its farm waits for approval or is
\* blocked, is about to be (the two are not one transaction), or the status
\* was rolled back or overruled by a stale save.
CertificatesAwaited ==
    \A c \in Certs : cert[c] # Null /\ cert[c].status = "PENDING" =>
        LET f == cert[c].farm
        IN  \/ farm[f].status \in {"PENDING_APPROVE", "BLOCKED"}
            \/ \E k \in Calls : call[k].op = "saved" /\ call[k].farm = f
            \/ f \in uncommitted \cup overruled

\* Both together: the status of a farm and those of its certificates.
FarmStatusJustified == VerdictStands /\ CertificatesAwaited
=============================================================================
