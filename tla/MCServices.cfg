\* The services that stand alone, one scene each.
SPECIFICATION Spec
CONSTANTS
    Null = Null
    Scenes = {"registration", "farm", "qr", "address", "plot", "locations", "requests", "list", "reviews",
              "auditors", "files", "links", "pictures", "tracking", "amounts", "scores"}
    Calls = {k1, k2}
    Users = {1}
    Farms = {1, 2}
    Emails = {"an@x"}
    Numbers = {n1, n2}
    Verifications = {1, 2}
    MaxCodes = 1
    Certs = {1}
    Profiles = {"p"}
    Given = {"FARMER", "BUYER"}
    Qrs = {1}
    Scanners = {k1, k2, k3}
    MaxScans = 4
    Addresses = {1, 2, 3}
    PlotIds = {1}
    SeasonIds = {1, 2, 3, 4}
    MaxSeasons = 3
    Places = {"A", "B", "AC", "BC", "ACE"}
    Parent <- MCParent
    Name <- MCName
    GhnIds = {1, 2, 3, 4, 5, 6}
    GhnParent <- MCGhnParent
    GhnName <- MCGhnName
    GhnRequestIds = {1, 2}
    ListedRows = {1, 2, 3}
    Keys = {1, 2}
    ListLimit = 2
    Reviews = {1, 2, 3}
    Ratings = {1, 2}
    Replies = {1}
    ReviewLimit = 1
    Auditors = {"u", "v"}
    Wallets = {"w", "x"}
    AuditorProfiles = {1, 2, 3}
    Seeds <- MCSeeds
    ChainRequests = 2
    Known = {1}
    Files = {1, 2, 3}
    Digits = {0, 1}
    Width = 3
    Payments <- MCPayments
    Amount <- MCAmount
    Times <- MCTimes
    Pictures = {1, 2, 3}
    Copies = {1}
    Webs <- MCWebs
    Logs = {l1, l2}
    HashedSteps = {1}
    StepOf <- MCStepOf
    Products = {1}
    Offers <- MCOffers
    Orders = {1, 2}
    Cart <- MCCart
    Batches = {1}
    BatchOf <- MCBatchOf
    Fees = {2, 3}
    Corrections = {4}
    MaxInt = 24
    MaxDecimal = 20
    Steps = {1, 2}
    Farm <- MCFarm
    Season <- MCSeason
    Day <- MCDay
    MinDays <- MCMinDays
    MaxDays <- MCMaxDays
    ReviewRatings = {4}
    TrustScores = {80}
    Trading = {1}
SYMMETRY Symmetry
INVARIANTS
    TypeOK
    AccountsProven
    FarmerHasOneFarm
    FarmStatusJustified
    GenuineOnce
    OnePrimary
    OneOpenSeason
    AnswersKept
    WalksComplete
    AssignedAsRequested
    PartialFailuresContained
CHECK_DEADLOCK FALSE
