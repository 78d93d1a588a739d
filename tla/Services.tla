------------------------------- MODULE Services -------------------------------
(***************************************************************************)
(* The services that share no table the others depend on.  A behaviour     *)
(* takes place in one scene, the instance of one module; the variables of  *)
(* the other scenes are Null all along.  A variable two modules have, such *)
(* as the calls in flight, is the one of the scene.  A constant means what *)
(* it does in the module it is of.                                         *)
(***************************************************************************)
EXTENDS Integers

CONSTANTS
    Scenes,                                         \* the scenes that are played
    Null,                                           \* no row, and no value out of its scene
    Calls,                                          \* handlers that can be in flight at once
    Users,                                          \* rows of the table user
    Farms,                                          \* rows of the table farm
    Emails, Numbers, Verifications, MaxCodes,       \* of Registration
    Certs, Profiles, Given,                         \* of FarmOnboarding
    Qrs, Scanners, MaxScans,                        \* of QrCodes
    Addresses,                                      \* of AddressBook
    PlotIds, SeasonIds, MaxSeasons,                 \* of Plots
    Places, Parent, Name, GhnIds,                   \* of GhnLocations
    GhnParent, GhnName,
    GhnRequestIds,                                  \* of GhnRequests
    ListedRows, Keys, ListLimit,                    \* of Listings
    Reviews, Ratings, Replies, ReviewLimit,         \* of Reviews
    Auditors, Wallets, AuditorProfiles,             \* of Assignments
    Seeds, ChainRequests, Known,
    Files,                                          \* of FileStorage
    Payments, Amount, Digits, Width, Times,         \* of PayosLinks
    Pictures, Copies, Webs,                         \* of PictureChecks
    Logs, HashedSteps, StepOf,                      \* of ProcessTracking
    Products, Offers, Orders, Cart, Batches,        \* of OrderAmounts
    BatchOf, Fees, Corrections, MaxInt, MaxDecimal,
    Steps, Farm, Season, Day, MinDays, MaxDays,     \* of FtesScores
    ReviewRatings, TrustScores, Trading

VARIABLES
    scene,
    row, user, outbox, twilio, unset, sent, proven, spent, reused, crossed,
    farm, identified, cert, role, banned, token, verdict, overruled, granted, uncommitted,
    qr, scans, genuine,
    address, cleared, disturbed,
    plot, season, putBack,
    job,
    request, outcome, booked,
    table,
    review, reply, replying,
    profile, passed, assignment, voted,
    storage, place, answer, kept,
    now, status, link, undone,
    todo, fetched, phash, duplicate, blind, seen, score, decision,
    log, step, copy, sealing, dropping, processed, hash, stepHash, rescored, rewound,
    product, editing, quote, order, payment, booking, shipment, reported, delivery, edited,
    stepScore, hashed, orders, selling, reviews, farmScore, run, result, touched, unchecked,
    complete,
    call, overlapped, walk, code, asked, temp, stage

vRegistering == <<row, user, outbox, twilio, unset, sent, proven, spent, reused, crossed>>
vOnboarding == <<farm, identified, cert, role, banned, token, verdict, overruled, granted, uncommitted>>
vScanning == <<qr, scans, genuine>>
vAddressing == <<address, cleared, disturbed>>
vPlanting == <<plot, season, putBack>>
vLocating == <<job>>
vRequesting == <<request, outcome, booked>>
vListing == <<table>>
vReviewing == <<review, reply, replying>>
vAssigning == <<profile, passed, assignment, voted>>
vStoring == <<storage, place, answer, kept>>
vLinking == <<now, status, link, undone>>
vJudging == <<todo, fetched, phash, duplicate, blind, seen, score, decision>>
vTracking == <<log, step, copy, sealing, dropping, processed, hash, stepHash, rescored, rewound>>
vCharging == <<product, editing, quote, order, payment, booking, shipment, reported, delivery, edited>>
vScoring == <<stepScore, hashed, orders, selling, reviews, farmScore, run, result, touched, unchecked, complete>>

Registering == INSTANCE Registration WITH Rows <- Verifications
Onboarding == INSTANCE FarmOnboarding
Scanning == INSTANCE QrCodes WITH Calls <- Scanners
Addressing == INSTANCE AddressBook
Planting == INSTANCE Plots
Locating == INSTANCE GhnLocations WITH Jobs <- Calls
Requesting == INSTANCE GhnRequests WITH Requests <- GhnRequestIds
Listing == INSTANCE Listings WITH Rows <- ListedRows, Limit <- ListLimit
Reviewing == INSTANCE Reviews WITH Limit <- ReviewLimit
Assigning == INSTANCE Assignments WITH
    Users <- Auditors, Profiles <- AuditorProfiles, Requests <- ChainRequests
Storing == INSTANCE FileStorage
Linking == INSTANCE PayosLinks
Judging == INSTANCE PictureChecks
Tracking == INSTANCE ProcessTracking WITH Steps <- HashedSteps
Charging == INSTANCE OrderAmounts
Scoring == INSTANCE FtesScores WITH Ratings <- ReviewRatings

ASSUME ServicesAssumption ==
    /\ Registering!MaxAssumption
    /\ Registering!ContactAssumption
    /\ Registering!NullAssumption
    /\ Onboarding!NullAssumption
    /\ Scanning!MaxAssumption
    /\ Scanning!NullAssumption
    /\ Addressing!NullAssumption
    /\ Planting!MaxAssumption
    /\ Planting!IdAssumption
    /\ Planting!NullAssumption
    /\ Locating!PlaceAssumption
    /\ Requesting!NullAssumption
    /\ Listing!LimitAssumption
    /\ Listing!KeyAssumption
    /\ Listing!NullAssumption
    /\ Reviewing!NumberAssumption
    /\ Reviewing!NullAssumption
    /\ Linking!WidthAssumption
    /\ Linking!NullAssumption
    /\ Judging!WebAssumption
    /\ Judging!PictureAssumption
    /\ Judging!NullAssumption
    /\ Tracking!NullAssumption
    /\ Tracking!StepAssumption
    /\ Assigning!RequestAssumption
    /\ Assigning!SeedAssumption
    /\ Assigning!NullAssumption
    /\ Storing!NullAssumption
    /\ Charging!CartAssumption
    /\ Charging!AmountAssumption
    /\ Charging!NullAssumption
    /\ Scoring!RowAssumption
    /\ Scoring!TradingAssumption
    /\ Scoring!NullAssumption
-----------------------------------------------------------------------------
\* The private variables of a scene that is not played.
NoRegistering ==
    /\ row = Null /\ user = Null /\ outbox = Null /\ twilio = Null /\ unset = Null
    /\ sent = Null /\ proven = Null /\ spent = Null /\ reused = Null
    /\ crossed = Null
NoOnboarding ==
    /\ farm = Null /\ identified = Null /\ cert = Null /\ role = Null /\ banned = Null
    /\ token = Null /\ verdict = Null /\ overruled = Null /\ granted = Null /\ uncommitted = Null
NoScanning == qr = Null /\ scans = Null /\ genuine = Null
NoAddressing == address = Null /\ cleared = Null /\ disturbed = Null
NoPlanting == plot = Null /\ season = Null /\ putBack = Null
NoLocating == job = Null
NoRequesting == request = Null /\ outcome = Null /\ booked = Null
NoListing == table = Null
NoReviewing == review = Null /\ reply = Null /\ replying = Null
NoAssigning == profile = Null /\ passed = Null /\ assignment = Null /\ voted = Null
NoStoring == storage = Null /\ place = Null /\ answer = Null /\ kept = Null
NoLinking == now = Null /\ status = Null /\ link = Null /\ undone = Null
NoJudging ==
    /\ todo = Null /\ fetched = Null /\ phash = Null /\ duplicate = Null /\ blind = Null
    /\ seen = Null /\ score = Null /\ decision = Null
NoTracking ==
    /\ log = Null /\ step = Null /\ copy = Null /\ sealing = Null /\ processed = Null
    /\ hash = Null /\ stepHash = Null /\ rescored = Null /\ rewound = Null /\ dropping = Null
NoCharging ==
    /\ product = Null /\ editing = Null /\ quote = Null /\ order = Null /\ payment = Null
    /\ booking = Null /\ shipment = Null /\ reported = Null /\ delivery = Null /\ edited = Null
NoScoring ==
    /\ stepScore = Null /\ hashed = Null /\ orders = Null /\ selling = Null /\ reviews = Null
    /\ farmScore = Null /\ run = Null /\ result = Null /\ touched = Null /\ unchecked = Null
    /\ complete = Null

Init ==
    /\ scene \in Scenes
    /\ IF scene = "registration" THEN Registering!Init ELSE NoRegistering
    /\ IF scene = "farm" THEN Onboarding!Init ELSE NoOnboarding
    /\ IF scene = "qr" THEN Scanning!Init ELSE NoScanning
    /\ IF scene = "address" THEN Addressing!Init ELSE NoAddressing
    /\ IF scene = "plot" THEN Planting!Init ELSE NoPlanting
    /\ IF scene = "locations" THEN Locating!Init ELSE NoLocating
    /\ IF scene = "requests" THEN Requesting!Init ELSE NoRequesting
    /\ IF scene = "list" THEN Listing!Init ELSE NoListing
    /\ IF scene = "reviews" THEN Reviewing!Init ELSE NoReviewing
    /\ IF scene = "auditors" THEN Assigning!Init ELSE NoAssigning
    /\ IF scene = "files" THEN Storing!Init ELSE NoStoring
    /\ IF scene = "links" THEN Linking!Init ELSE NoLinking
    /\ IF scene = "pictures" THEN Judging!Init ELSE NoJudging
    /\ IF scene = "tracking" THEN Tracking!Init ELSE NoTracking
    /\ IF scene = "amounts" THEN Charging!Init ELSE NoCharging
    /\ IF scene = "scores" THEN Scoring!Init ELSE NoScoring
    /\ IF scene \in {"registration", "farm", "qr", "address", "plot", "auditors", "files", "links"} THEN TRUE ELSE call = Null
    /\ IF scene \in {"registration", "qr", "plot", "auditors", "links"} THEN TRUE ELSE overlapped = Null
    /\ IF scene \in {"list", "reviews"} THEN TRUE ELSE walk = Null
    /\ IF scene \in {"locations", "links"} THEN TRUE ELSE code = Null
    /\ IF scene \in {"auditors", "links"} THEN TRUE ELSE asked = Null
    /\ IF scene \in {"files", "tracking"} THEN TRUE ELSE temp = Null
    /\ IF scene \in {"pictures", "tracking"} THEN TRUE ELSE stage = Null

Next ==
    \/ /\ scene = "registration" /\ Registering!Next
       /\ UNCHANGED <<scene, vOnboarding, vScanning, vAddressing, vPlanting, vLocating, vRequesting, vListing, vReviewing,
                       vAssigning, vStoring, vLinking, vJudging, vTracking, vCharging, vScoring,
                       walk, code, asked, temp, stage>>
    \/ /\ scene = "farm" /\ Onboarding!Next
       /\ UNCHANGED <<scene, vRegistering, vScanning, vAddressing, vPlanting, vLocating, vRequesting, vListing,
                       vReviewing, vAssigning, vStoring, vLinking, vJudging, vTracking, vCharging,
                       vScoring, overlapped, walk, code, asked, temp, stage>>
    \/ /\ scene = "qr" /\ Scanning!Next
       /\ UNCHANGED <<scene, vRegistering, vOnboarding, vAddressing, vPlanting, vLocating, vRequesting, vListing,
                       vReviewing, vAssigning, vStoring, vLinking, vJudging, vTracking, vCharging,
                       vScoring, walk, code, asked, temp, stage>>
    \/ /\ scene = "address" /\ Addressing!Next
       /\ UNCHANGED <<scene, vRegistering, vOnboarding, vScanning, vPlanting, vLocating, vRequesting, vListing,
                       vReviewing, vAssigning, vStoring, vLinking, vJudging, vTracking, vCharging,
                       vScoring, overlapped, walk, code, asked, temp, stage>>
    \/ /\ scene = "plot" /\ Planting!Next
       /\ UNCHANGED <<scene, vRegistering, vOnboarding, vScanning, vAddressing, vLocating, vRequesting, vListing,
                       vReviewing, vAssigning, vStoring, vLinking, vJudging, vTracking, vCharging,
                       vScoring, walk, code, asked, temp, stage>>
    \/ /\ scene = "locations" /\ Locating!Next
       /\ UNCHANGED <<scene, vRegistering, vOnboarding, vScanning, vAddressing, vPlanting, vRequesting, vListing,
                       vReviewing, vAssigning, vStoring, vLinking, vJudging, vTracking, vCharging,
                       vScoring, call, overlapped, walk, asked, temp, stage>>
    \/ /\ scene = "requests" /\ Requesting!Next
       /\ UNCHANGED <<scene, vRegistering, vOnboarding, vScanning, vAddressing, vPlanting, vLocating, vListing,
                       vReviewing, vAssigning, vStoring, vLinking, vJudging, vTracking, vCharging,
                       vScoring, call, overlapped, walk, code, asked, temp, stage>>
    \/ /\ scene = "list" /\ Listing!Next
       /\ UNCHANGED <<scene, vRegistering, vOnboarding, vScanning, vAddressing, vPlanting, vLocating, vRequesting,
                       vReviewing, vAssigning, vStoring, vLinking, vJudging, vTracking, vCharging,
                       vScoring, call, overlapped, code, asked, temp, stage>>
    \/ /\ scene = "reviews" /\ Reviewing!Next
       /\ UNCHANGED <<scene, vRegistering, vOnboarding, vScanning, vAddressing, vPlanting, vLocating, vRequesting,
                       vListing, vAssigning, vStoring, vLinking, vJudging, vTracking, vCharging,
                       vScoring, call, overlapped, code, asked, temp, stage>>
    \/ /\ scene = "auditors" /\ Assigning!Next
       /\ UNCHANGED <<scene, vRegistering, vOnboarding, vScanning, vAddressing, vPlanting, vLocating, vRequesting,
                       vListing, vReviewing, vStoring, vLinking, vJudging, vTracking, vCharging,
                       vScoring, walk, code, temp, stage>>
    \/ /\ scene = "files" /\ Storing!Next
       /\ UNCHANGED <<scene, vRegistering, vOnboarding, vScanning, vAddressing, vPlanting, vLocating, vRequesting,
                       vListing, vReviewing, vAssigning, vLinking, vJudging, vTracking, vCharging,
                       vScoring, overlapped, walk, code, asked, stage>>
    \/ /\ scene = "links" /\ Linking!Next
       /\ UNCHANGED <<scene, vRegistering, vOnboarding, vScanning, vAddressing, vPlanting, vLocating, vRequesting,
                       vListing, vReviewing, vAssigning, vStoring, vJudging, vTracking, vCharging,
                       vScoring, walk, temp, stage>>
    \/ /\ scene = "pictures" /\ Judging!Next
       /\ UNCHANGED <<scene, vRegistering, vOnboarding, vScanning, vAddressing, vPlanting, vLocating, vRequesting,
                       vListing, vReviewing, vAssigning, vStoring, vLinking, vTracking, vCharging,
                       vScoring, call, overlapped, walk, code, asked, temp>>
    \/ /\ scene = "tracking" /\ Tracking!Next
       /\ UNCHANGED <<scene, vRegistering, vOnboarding, vScanning, vAddressing, vPlanting, vLocating, vRequesting,
                       vListing, vReviewing, vAssigning, vStoring, vLinking, vJudging, vCharging,
                       vScoring, call, overlapped, walk, code, asked>>
    \/ /\ scene = "amounts" /\ Charging!Next
       /\ UNCHANGED <<scene, vRegistering, vOnboarding, vScanning, vAddressing, vPlanting, vLocating, vRequesting,
                       vListing, vReviewing, vAssigning, vStoring, vLinking, vJudging, vTracking,
                       vScoring, call, overlapped, walk, code, asked, temp, stage>>
    \/ /\ scene = "scores" /\ Scoring!Next
       /\ UNCHANGED <<scene, vRegistering, vOnboarding, vScanning, vAddressing, vPlanting, vLocating, vRequesting,
                       vListing, vReviewing, vAssigning, vStoring, vLinking, vJudging, vTracking,
                       vCharging, call, overlapped, walk, code, asked, temp, stage>>

vars == <<scene, vRegistering, vOnboarding, vScanning, vAddressing, vPlanting, vLocating, vRequesting, vListing,
         vReviewing, vAssigning, vStoring, vLinking, vJudging, vTracking, vCharging, vScoring, call,
         overlapped, walk, code, asked, temp, stage>>

Spec == Init /\ [][Next]_vars
-----------------------------------------------------------------------------
\* The variables of the scene have their types.
TypeOK ==
    /\ scene = "registration" => Registering!TypeOK
    /\ scene = "farm" => Onboarding!TypeOK
    /\ scene = "qr" => Scanning!TypeOK
    /\ scene = "address" => Addressing!TypeOK
    /\ scene = "plot" => Planting!TypeOK
    /\ scene = "locations" => Locating!TypeOK
    /\ scene = "requests" => Requesting!TypeOK
    /\ scene = "list" => Listing!TypeOK
    /\ scene = "reviews" => Reviewing!TypeOK
    /\ scene = "auditors" => Assigning!TypeOK
    /\ scene = "files" => Storing!TypeOK
    /\ scene = "links" => Linking!TypeOK
    /\ scene = "pictures" => Judging!TypeOK
    /\ scene = "tracking" => Tracking!TypeOK
    /\ scene = "amounts" => Charging!TypeOK
    /\ scene = "scores" => Scoring!TypeOK

\* Nobody gets more codes than the limit, and no approval is used twice, but by
\* requests at once; every password was let in by an approved address or number,
\* the account's own unless the request named both, and the address was proven to
\* Twilio (Registration).
AccountsProven == scene = "registration" => Registering!AccountsProven

\* A farmer has one farm, and only a farmer an administrator made has none.
FarmerHasOneFarm == scene = "farm" => Onboarding!FarmerHasOneFarm

\* The status of a farm is the verdict on it, and stands until certificates or
\* a stale save change it (FarmOnboarding).
FarmStatusJustified == scene = "farm" => Onboarding!FarmStatusJustified

\* One scan of a code at most is told that it is genuine, requests at once apart.
GenuineOnce == scene = "qr" => Scanning!GenuineOnce

\* A user with addresses has one primary address (AddressBook).
OnePrimary == scene = "address" => Addressing!OnePrimary

\* A plot has one season at most that has not ended (Plots).
OneOpenSeason == scene = "plot" => Planting!OneOpenSeason

\* What GHN, PayOS and the chain have said is kept: the code of a place is of that
\* place, as far as names tell; a shipment refused has not been made; the payment
\* that was paid is the one that is completed, as far as codes tell; what was
\* hashed is shown as verified; the courier collects what the order cost
\* (GhnLocations, GhnRequests, PayosLinks, ProcessTracking, OrderAmounts).
AnswersKept ==
    /\ scene = "locations" => Locating!CodesAreRight
    /\ scene = "requests" => Requesting!RefusalIsFinal
    /\ scene = "links" => Linking!PaidIsCompleted
    /\ scene = "tracking" => Tracking!ShownAsRecorded
    /\ scene = "amounts" => Charging!ChargedAsOrdered

\* A walk through the pages of a list shows every row that was there all along,
\* and none twice, as far as the order of the list allows (Listings, Reviews).
WalksComplete ==
    /\ scene = "list" => Listing!OffsetWalkComplete
    /\ scene = "reviews" => Reviewing!CursorWalkComplete

\* Requests for verification reach the auditors they name, each of whom has one
\* profile (Assignments).
AssignedAsRequested == scene = "auditors" => Assigning!AuditorsAssigned

\* When one step of several fails the others are accounted for: the files of an
\* upload, the farms of a nightly run, the pictures of a log.
PartialFailuresContained ==
    /\ scene = "files" => Storing!UploadsAccounted
    /\ scene = "scores" => Scoring!RunScoresAll
    /\ scene = "pictures" => Judging!SkippedIsJudged

\* "MV - Market Validation (avg review rating / 5)": false of the code.
MarketIsReviewed == scene = "scores" => Scoring!MarketIsReviewed
=============================================================================
