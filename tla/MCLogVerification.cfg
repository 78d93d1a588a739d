SPECIFICATION Spec

CONSTANTS
    l1 = l1
    l2 = l2
    s1 = s1
    s2 = s2
    farm1 = farm1
    farm2 = farm2
    picture = picture
    Logs <- MCLogs
    Steps = {s1, s2}
    StepOf <- TwoSteps
    FarmOf <- TwoFarms
    PictureOf <- OnePicture
    Calls = {k1, k2}
    Null = Null
    Droppable = {l1}
    Finishable = {s1}
    MaxFaults = 1

SYMMETRY Symmetry

INVARIANTS
    TypeOK
    EarlyDropStays
    CopiesReviewed
    CreditKept
    PendingIsAwaited

PROPERTIES
    ImplementsRecord
