---------------------------- MODULE PictureChecks ----------------------------
(***************************************************************************)
(* What the pictures of one log are worth                                  *)
(* (ImageVerificationService.verifyLogImages), and whether auditors review *)
(* the log (VerificationService.evaluateForVerification).  Each picture is *)
(* fetched from the storage, hashed and annotated by Google Vision; each   *)
(* of these may fail for it.  What a label says is kept as far as it       *)
(* decides: that it is one of farming, or names an agency of stock photos. *)
(* The flags of the report, which nothing reads, are left out; the hashes  *)
(* it leaves for later logs are LogVerification's.                         *)
(***************************************************************************)
EXTENDS Integers, FiniteSets, Functions

CONSTANTS
    Pictures,       \* the pictures of the log
    Copies,         \* those whose hash is near one of another farm
    Webs,           \* (bound) what is found on the web: pictures that match in
                    \* full and in part, pages, and whether a best guess label
                    \* names an agency (stock, getty, shutterstock, adobe)
    Null            \* not annotated

WebAssumption == Webs \subseteq [full : Nat, partial : Nat, pages : Nat, agency : BOOLEAN]
PictureAssumption == IsFiniteSet(Pictures) /\ Copies \subseteq Pictures

Annotation == [agricultural : BOOLEAN, web : Webs]

NullAssumption == Null \notin Annotation

VARIABLES
    stage,          \* the step verifyLogImages is at
    todo,           \* pictures the loop of this step has not reached
    fetched,        \* pictures with a buffer
    phash,          \* pictures with a hash
    duplicate,      \* isDuplicate
    blind,          \* (history) the search for copies failed
    seen,           \* seen[p]: what Vision answered
    score,          \* overall_score, in hundredths
    decision        \* the answer of evaluateForVerification

vars == <<stage, todo, fetched, phash, duplicate, blind, seen, score, decision>>

Stages == {"fetch", "hash", "compare", "annotate", "score", "decide", "over"}

AUTO_VERIFY_THRESHOLD == 60
SKIP_VERIFY_THRESHOLD == 80
-----------------------------------------------------------------------------
\* One picture is a stock or web image.
IsStockImage(w) ==
    \/ w.agency
    \/ w.full >= 1
    \/ w.partial >= 2
    \/ w.pages >= 3
    \/ w.partial >= 1 /\ w.pages >= 2

Annotated == {p \in fetched : seen[p] # Null}

\* is_agricultural and is_stock_or_web_image of the pictures together; without an
\* answer of Vision (defaultAnalysis) they are FALSE.
Stock == \E p \in Annotated : IsStockImage(seen[p].web)
AgriculturalCount == Cardinality({p \in Annotated : seen[p].agricultural})

Agricultural == Annotated # {} /\ 2 * AgriculturalCount >= Cardinality(Annotated)

\* originalityScore, in hundredths
Originality ==
    LET full == SumFunction([p \in Annotated |-> seen[p].web.full])
        partial == SumFunction([p \in Annotated |-> seen[p].web.partial])
        pages == SumFunction([p \in Annotated |-> seen[p].web.pages])
    IN  IF Stock THEN 0
        ELSE 100 - 25 * full - 15 * partial - (IF pages > 5 THEN 25 ELSE 5 * pages)

\* calculateOverallScore; a picture that fails one of the three tests is worth 0.
OverallScore ==
    IF ~ Agricultural \/ Originality <= 0 \/ duplicate THEN 0
    ELSE (35 * 100 + 35 * Originality + 30 * 100) \div 100
-----------------------------------------------------------------------------
Init ==
    /\ stage = IF Pictures = {} THEN "score" ELSE "fetch"
    /\ todo = Pictures
    /\ fetched = {}
    /\ phash = {}
    /\ duplicate = FALSE
    /\ blind = FALSE
    /\ seen = [p \in Pictures |-> Null]
    /\ score = 0
    /\ decision = "none"

\* The loop of a step is through with picture p; the next step has the others.
Done(p, pictures, next) ==
    /\ todo' = IF todo = {p} THEN pictures ELSE todo \ {p}
    /\ stage' = IF todo = {p} THEN next ELSE stage

\* fetchImageBuffers goes on without a picture that is not found; with none, the
\* score is 0.
Fetch(p) ==
    /\ stage = "fetch" /\ p \in todo
    /\ fetched' \in {fetched, fetched \cup {p}}
    /\ Done(p, fetched', IF fetched' = {} THEN "score" ELSE "hash")
    /\ UNCHANGED <<phash, duplicate, blind, seen, score, decision>>

\* computePerceptualHash; the loop goes on without a hash that fails.
Hash(p) ==
    /\ stage = "hash" /\ p \in todo
    /\ phash' \in {phash, phash \cup {p}}
    /\ Done(p, fetched, "compare")
    /\ UNCHANGED <<fetched, duplicate, blind, seen, score, decision>>

\* checkDuplicates; a query that fails finds no copy.
CheckDuplicates ==
    /\ stage = "compare"
    /\ blind' \in BOOLEAN
    /\ duplicate' = (phash \cap Copies # {} /\ ~ blind')
    /\ stage' = "annotate"
    /\ UNCHANGED <<todo, fetched, phash, seen, score, decision>>

\* analyzeWithVision, one picture.
AnalyzeWithVision(p, a) ==
    /\ stage = "annotate" /\ p \in todo
    /\ seen' = [seen EXCEPT ![p] = a]
    /\ Done(p, {}, "score")
    /\ UNCHANGED <<fetched, phash, duplicate, blind, score, decision>>

\* A failure, or no client: the answers for the other pictures are dropped too.
VisionFails ==
    /\ stage = "annotate"
    /\ seen' = [p \in Pictures |-> Null]
    /\ todo' = {}
    /\ stage' = "score"
    /\ UNCHANGED <<fetched, phash, duplicate, blind, score, decision>>

SaveResult ==
    /\ stage = "score"
    /\ score' = OverallScore
    /\ stage' = "decide"
    /\ UNCHANGED <<todo, fetched, phash, duplicate, blind, seen, decision>>

\* saveResult fails and ends evaluateForVerification: nobody reviews the log, and
\* nothing skips it.
SaveFails ==
    /\ stage = "score"
    /\ stage' = "over"
    /\ UNCHANGED <<todo, fetched, phash, duplicate, blind, seen, score, decision>>

\* Between the thresholds the lot decides.
Decide(d) ==
    /\ stage = "decide"
    /\ d = "review" => score < SKIP_VERIFY_THRESHOLD
    /\ d = "skip" => score >= AUTO_VERIFY_THRESHOLD
    /\ decision' = d
    /\ stage' = "over"
    /\ UNCHANGED <<todo, fetched, phash, duplicate, blind, seen, score>>

Next ==
    \/ \E p \in Pictures :
          \/ Fetch(p) \/ Hash(p)
          \/ \E a \in Annotation : AnalyzeWithVision(p, a)
    \/ CheckDuplicates \/ VisionFails \/ SaveResult \/ SaveFails
    \/ \E d \in {"review", "skip"} : Decide(d)

Spec == Init /\ [][Next]_vars
-----------------------------------------------------------------------------
\* Every variable has its type: what verifyLogImages has found out, and the
\* score it stores.
TypeOK ==
    /\ stage \in Stages
    /\ todo \subseteq Pictures
    /\ fetched \subseteq Pictures
    /\ phash \subseteq fetched
    /\ duplicate \in BOOLEAN
    /\ blind \in BOOLEAN
    /\ seen \in [Pictures -> Annotation \cup {Null}]
    /\ score \in 0 .. 100
    /\ decision \in {"none", "review", "skip"}

\* evaluateForVerification leaves a log to no auditor only if every picture that
\* could be fetched was annotated and is no stock image, half of them show
\* farming, and none that could be hashed is a copy, if the search for copies did
\* not fail.  A failure of Vision counts against the log.
SkippedIsJudged ==
    decision = "skip" =>
        /\ fetched # {} /\ Annotated = fetched
        /\ \A p \in fetched : ~ IsStockImage(seen[p].web)
        /\ 2 * Cardinality({p \in fetched : seen[p].agricultural}) >= Cardinality(fetched)
        /\ phash \cap Copies = {} \/ blind
=============================================================================
